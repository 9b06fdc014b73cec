--------------------------- MODULE ProducerProofs ---------------------------
(***************************************************************************)
(* Theorems about Producer, for every value of its constants: the types    *)
(* first, then the safety theorems.  IInv is inductive: each of its        *)
(* conjuncts has a lemma below that says no step breaks it; the steps that *)
(* cannot touch a conjunct are dismissed by Footprint.                     *)
(***************************************************************************)
EXTENDS Producer, TLAPS

-----------------------------------------------------------------------------
(* Types of the operators the actions are built from.                      *)

LEMMA LedgerOperators ==
    ASSUME NEW l \in Ledgers, NEW P \in SUBSET Files
    PROVE  /\ Enqueued(l, P) \in Ledgers
           /\ Acked(l, P) \in Ledgers
           /\ Deferred(l, P) \in Ledgers
  BY DEF Ledgers, Enqueued, Acked, Deferred

LEMMA LedgerFields ==
    ASSUME NEW l \in Ledgers
    PROVE  /\ \A b \in BOOLEAN : [l EXCEPT !.dirty = b] \in Ledgers
           /\ \A g \in Generations : [l EXCEPT !.stamp = g] \in Ledgers
           /\ \A n \in Names : [l EXCEPT !.receipts = @ \cup {n}] \in Ledgers
           /\ \A n \in Names : [l EXCEPT !.receipts = @ \ {n}] \in Ledgers
           /\ \A f \in Files : [l EXCEPT !.due = @ \cup {f}] \in Ledgers
  BY DEF Ledgers

LEMMA EmptyTypes ==
    EmptyCatalog \in Catalogs /\ EmptyLedger \in Ledgers /\ NoSnapshot \in Snapshots
  BY ConstantsAssumption
     DEF EmptyCatalog, EmptyLedger, NoSnapshot, Catalogs, Ledgers, Snapshots, Versions,
         Generations

LEMMA CatalogRows ==
    ASSUME TypeOK, NEW f \in Files
    PROVE  /\ [catalog EXCEPT ![f] = Indexed(f)] \in Catalogs
           /\ [catalog EXCEPT ![f] = [ver |-> disk[f], done |-> TRUE]] \in Catalogs
  BY DEF TypeOK, Catalogs, Indexed

LEMMA CompletedRows == ASSUME TypeOK PROVE Completed \in Catalogs
  BY DEF TypeOK, Catalogs, Completed

LEMMA RecoveredType == ASSUME TypeOK PROVE RecoveredLedger \in Ledgers
  BY DEF TypeOK, Snapshots, RecoveredLedger

LEMMA NextNumber ==
    ASSUME TypeOK PROVE gen < MaxGen => gen + 1 \in Generations
  BY ConstantsAssumption DEF TypeOK, Generations

LEMMA Budgets ==
    ASSUME TypeOK
    PROVE  /\ Fault => faults' \in 0..MaxFaults /\ crashes' \in 0..MaxCrashes
           /\ Died => faults' \in 0..MaxFaults /\ crashes' \in 0..MaxCrashes
           /\ NoFault => faults' \in 0..MaxFaults /\ crashes' \in 0..MaxCrashes
  BY ConstantsAssumption DEF TypeOK, Fault, Died, NoFault

-----------------------------------------------------------------------------
(* Every variable keeps its type: one step per action of Next.             *)

LEMMA TypeStep == TypeOK /\ [Next]_vars => TypeOK'
<1> SUFFICES ASSUME TypeOK, [Next]_vars PROVE TypeOK'
  OBVIOUS
<1> USE Budgets DEF world, index, publication, batch, refresh
<1>1. ASSUME NEW f \in Files, Edit(f) PROVE TypeOK'
  <2>1. disk[f] + 1 \in Versions
    BY <1>1, ConstantsAssumption DEF Edit, TypeOK, Versions
  <2>. QED
    BY <1>1, <2>1 DEF Edit, TypeOK
<1>2. ASSUME NEW f \in Files, Exclude(f) PROVE TypeOK'
  BY <1>2 DEF Exclude, TypeOK
<1>3. ASSUME NEW n \in Names, NEW P \in SUBSET Files, Enqueue(n, P) PROVE TypeOK'
  <2>1. [f \in Files |-> IF f \in P THEN disk[f] ELSE 0] \in [Files -> Versions]
    BY <1>3, ConstantsAssumption DEF TypeOK, Versions
  <2>. QED
    BY <1>3, <2>1 DEF Enqueue, TypeOK
<1>4. ASSUME NEW f \in Files, BackoffElapses(f) PROVE TypeOK'
  BY <1>4, LedgerFields DEF BackoffElapses, TypeOK
<1>5. CASE Start
  <2>1. snap[pointer].content \in Catalogs
    BY DEF TypeOK, Snapshots
  <2>. QED
    BY <1>5, <2>1 DEF Start, TypeOK, Phases
<1>6. CASE Restore
  BY <1>6, RecoveredType DEF Restore, TypeOK, Phases
<1>7. CASE Crash
  BY <1>7 DEF Crash, Forget, TypeOK, Phases
<1>8. CASE WorkerLoss
  <2>1. 0 \in Generations
    BY ConstantsAssumption DEF Generations
  <2>. QED
    BY <1>8, <2>1, EmptyTypes DEF WorkerLoss, LoseLocalIndex, Forget, TypeOK, Phases
<1>9. ASSUME NEW n \in Names, Ingest(n) PROVE TypeOK'
  <2>1. ledger \in Ledgers /\ carries[n] \in SUBSET Files
    BY DEF TypeOK
  <2>2. [Enqueued(ledger, carries[n]) EXCEPT !.receipts = @ \cup {n}] \in Ledgers
    BY <2>1, LedgerOperators, LedgerFields
  <2>. QED
    BY <1>9, <2>1, <2>2 DEF Ingest, TypeOK
<1>10. CASE IngestBails
  BY <1>10 DEF IngestBails, Goto, TypeOK, Phases
<1>11. CASE IngestDone
  BY <1>11 DEF IngestDone, Goto, TypeOK, Phases
<1>12. ASSUME NEW f \in Files, Discover(f) PROVE TypeOK'
  BY <1>12, LedgerOperators DEF Discover, TypeOK
<1>13. CASE MemoryBegin
  BY <1>13, ConstantsAssumption, LedgerFields DEF MemoryBegin, TypeOK, Phases, Ledgers
<1>14. ASSUME NEW f \in Files, MemoryIndex(f) PROVE TypeOK'
  BY <1>14, NextNumber, CatalogRows DEF MemoryIndex, TypeOK
<1>15. CASE MemoryEnd
  BY <1>15, LedgerFields DEF MemoryEnd, DirtyAfterRefresh, Forget, TypeOK, Phases
<1>16. ASSUME NEW f \in Files, MemoryFails(f) PROVE TypeOK'
  BY <1>16, NextNumber, CatalogRows DEF MemoryFails, Forget, TypeOK, Phases
<1>17. CASE ApplyBatch
  <2>1. PICK B \in SUBSET Files : Classified(B)
    BY <1>17 DEF ApplyBatch, Batches, TypeOK, Ledgers
  <2>2. ToIndex(B) \in SUBSET Files
    BY DEF ToIndex
  <2>3. Acked(ledger, B \ ToIndex(B)) \in Ledgers
    BY LedgerOperators DEF TypeOK
  <2>. QED
    BY <1>17, <2>2, <2>3, <2>1 DEF ApplyBatch, Classified, TypeOK, Phases
<1>18. CASE ApplyPartOfBatch
  <2>1. PICK B \in SUBSET Files : Classified(B)
    BY <1>18 DEF ApplyPartOfBatch, Batches, TypeOK, Ledgers
  <2>2. ToIndex(B) \in SUBSET Files
    BY DEF ToIndex
  <2>3. Acked(ledger, B \ ToIndex(B)) \in Ledgers
    BY LedgerOperators DEF TypeOK
  <2>. QED
    BY <1>18, <2>2, <2>3, <2>1 DEF ApplyPartOfBatch, Classified, TypeOK, Phases
<1>19. ASSUME NEW f \in Files, ClassifyFails(f) PROVE TypeOK'
  BY <1>19, LedgerOperators DEF ClassifyFails, TypeOK
<1>20. ASSUME NEW G \in SUBSET Files, GroupBegin(G) PROVE TypeOK'
  BY <1>20, NextNumber, LedgerFields DEF GroupBegin, TypeOK, Phases
<1>21. CASE GroupsDone
  BY <1>21 DEF GroupsDone, Goto, TypeOK, Phases
<1>22. ASSUME NEW f \in Files, IndexFile(f) PROVE TypeOK'
  BY <1>22, CatalogRows DEF IndexFile, TypeOK
<1>23. ASSUME NEW f \in Files, IndexFails(f) PROVE TypeOK'
  BY <1>23, CatalogRows DEF IndexFails, TypeOK
<1>24. CASE GroupCommits
  BY <1>24, CompletedRows DEF GroupCommits, Attempted, TypeOK, Phases
<1>25. CASE GroupCommitsWithFailures
  BY <1>25, CompletedRows, LedgerOperators
     DEF GroupCommitsWithFailures, Forget, TypeOK, Phases
<1>26. CASE GroupFails
  BY <1>26, LedgerOperators DEF GroupFails, Forget, TypeOK, Phases
<1>27. CASE AckGroup
  BY <1>27, LedgerOperators DEF AckGroup, TypeOK, Phases
<1>28. CASE Sleep
  BY <1>28 DEF Sleep, Goto, TypeOK, Phases
<1>29. CASE Seal
  BY <1>29, NextNumber DEF Seal, TypeOK, Phases
<1>30. CASE SealRefused
  BY <1>30 DEF SealRefused, Goto, TypeOK, Phases
<1>31. CASE NothingToPublish
  BY <1>31 DEF NothingToPublish, Goto, TypeOK, Phases
<1>32. CASE Stage
  <2>1. StagedSnapshot \in Snapshots
    BY DEF StagedSnapshot, Snapshots, TypeOK
  <2>. QED
    BY <1>32, <2>1 DEF Stage, TypeOK, Phases
<1>33. CASE Flip
  BY <1>33 DEF Flip, TypeOK, Phases
<1>34. CASE ClearDirty
  <2>1. Kept \in SUBSET Generations
    BY DEF Kept, TypeOK
  <2>. QED
    BY <1>34, <2>1, LedgerFields, EmptyTypes DEF ClearDirty, TypeOK, Phases
<1>35. CASE Checkpoint
  BY <1>35, LedgerFields DEF Checkpoint, TypeOK, Phases
<1>36. ASSUME NEW n \in Names, RemoveInbox(n) PROVE TypeOK'
  BY <1>36 DEF RemoveInbox, TypeOK
<1>37. ASSUME NEW n \in Names, DeleteReceipt(n) PROVE TypeOK'
  BY <1>37, LedgerFields DEF DeleteReceipt, TypeOK
<1>38. CASE DrainDone
  BY <1>38 DEF DrainDone, Goto, TypeOK, Phases
<1>39. CASE PublishFails
  BY <1>39 DEF PublishFails, Goto, TypeOK, Phases
<1>40. CASE UNCHANGED vars
  BY <1>40 DEF vars, TypeOK
<1>. QED
  BY <1>1, <1>2, <1>3, <1>4, <1>5, <1>6, <1>7, <1>8, <1>9, <1>10, <1>11,
     <1>12, <1>13, <1>14, <1>15, <1>16, <1>17, <1>18, <1>19, <1>20, <1>21,
     <1>22, <1>23, <1>24, <1>25, <1>26, <1>27, <1>28, <1>29, <1>30, <1>31,
     <1>32, <1>33, <1>34, <1>35, <1>36, <1>37, <1>38, <1>39, <1>40
     DEF Next, Loop, Environment, Failures

\* Type correctness of the producer's stored and in-memory state.
THEOREM TypeCorrect == Spec => []TypeOK
<1>1. Init => TypeOK
  <2>1. /\ 0 \in Versions /\ 0 \in Generations
        /\ 0 \in 0..MaxCrashes /\ 0 \in 0..MaxFaults
    BY ConstantsAssumption DEF Versions, Generations
  <2>2. [f \in Files |-> 0] \in [Files -> Versions]
    BY <2>1
  <2>. QED
    BY <2>1, <2>2, EmptyTypes DEF Init, TypeOK, Phases
<1>. QED
  BY <1>1, TypeStep, PTL DEF Spec

-----------------------------------------------------------------------------
(* Which actions write what, and which enter a phase.                      *)

WhoWrites ==
    /\ \/ disk' = disk \/ (\E f \in Files : Edit(f))
    /\ \/ excluded' = excluded \/ (\E f \in Files : Exclude(f))
    /\ \/ (carries' = carries /\ said' = said)
       \/ (\E n \in Names, P \in SUBSET Files : Enqueue(n, P))
    /\ \/ inbox' = inbox \/ (\E n \in Names, P \in SUBSET Files : Enqueue(n, P))
       \/ (\E n \in Names : RemoveInbox(n))
    /\ \/ local' = local \/ Start \/ WorkerLoss
    /\ \/ catalog' = catalog \/ Start \/ WorkerLoss
       \/ (\E f \in Files : MemoryIndex(f)) \/ (\E f \in Files : MemoryFails(f))
       \/ (\E f \in Files : IndexFile(f)) \/ (\E f \in Files : IndexFails(f))
       \/ GroupCommits \/ GroupCommitsWithFailures
    /\ \/ gen' = gen \/ Start \/ WorkerLoss \/ (\E f \in Files : MemoryIndex(f))
       \/ (\E f \in Files : MemoryFails(f))
       \/ (\E G \in SUBSET Files : GroupBegin(G)) \/ Seal
    /\ \/ (dirs' = dirs /\ snap' = snap) \/ Stage \/ ClearDirty
    /\ \/ pointer' = pointer \/ Flip
    /\ \/ shared' = shared \/ Checkpoint
    /\ \/ ledger.rows \subseteq ledger'.rows \/ Restore \/ WorkerLoss \/ ApplyBatch
       \/ ApplyPartOfBatch \/ AckGroup
    /\ \/ ledger'.rows = ledger.rows \/ Restore \/ WorkerLoss \/ ApplyBatch
       \/ ApplyPartOfBatch \/ AckGroup \/ (\E n \in Names : Ingest(n))
       \/ (\E f \in Files : Discover(f))
    /\ \/ ledger'.receipts = ledger.receipts \/ Restore \/ WorkerLoss
       \/ (\E n \in Names : Ingest(n)) \/ (\E n \in Names : DeleteReceipt(n))
    /\ \/ ledger'.dirty = ledger.dirty \/ Restore \/ WorkerLoss \/ MemoryBegin
       \/ MemoryEnd \/ (\E G \in SUBSET Files : GroupBegin(G)) \/ ClearDirty
    /\ \/ (wasDirty' = wasDirty /\ changed' = changed) \/ Crash \/ WorkerLoss
       \/ MemoryBegin \/ (\E f \in Files : MemoryIndex(f)) \/ MemoryEnd
       \/ (\E f \in Files : MemoryFails(f)) \/ GroupCommitsWithFailures
       \/ GroupFails
    /\ \/ (group' = group /\ left' = left /\ bad' = bad) \/ Crash \/ WorkerLoss
       \/ MemoryBegin \/ (\E f \in Files : MemoryIndex(f)) \/ MemoryEnd
       \/ (\E f \in Files : MemoryFails(f))
       \/ (\E G \in SUBSET Files : GroupBegin(G))
       \/ (\E f \in Files : IndexFile(f)) \/ (\E f \in Files : IndexFails(f))
       \/ GroupCommits \/ GroupCommitsWithFailures \/ GroupFails \/ AckGroup
    /\ \/ (pc' = "restoring" => pc = "restoring") \/ Start
    /\ \/ (pc' = "memory" => pc = "memory") \/ MemoryBegin
    /\ \/ (pc' = "index" => pc = "index")
       \/ (\E G \in SUBSET Files : GroupBegin(G))
    /\ \/ (pc' = "acking" => pc = "acking") \/ GroupCommits
    /\ \/ (pc' = "sealed" => pc = "sealed") \/ Seal
    /\ \/ (pc' = "staged" => pc = "staged") \/ Stage
    /\ \/ (pc' = "flipped" => pc = "flipped") \/ Flip
    /\ \/ (pc' = "stamp" => pc = "stamp") \/ ClearDirty \/ NothingToPublish
    /\ \/ (pc' = "drain" => pc = "drain") \/ Checkpoint
    /\ \/ (pc = "down" => ledger' = ledger) \/ WorkerLoss
       \/ (\E f \in Files : BackoffElapses(f))
    /\ \/ (pc = "down" => pc' = "down") \/ Start
    /\ \/ (pc = "restoring" => pc' = "restoring") \/ Restore \/ WorkerLoss

LEMMA Footprint == TypeOK /\ [Next]_vars => WhoWrites
<1> SUFFICES ASSUME TypeOK, [Next]_vars PROVE WhoWrites
  OBVIOUS
<1> USE DEF world, index, publication, batch, refresh, WhoWrites, Ledgers, TypeOK
<1>1. ASSUME NEW f \in Files, Edit(f) PROVE WhoWrites
  BY <1>1 DEF Edit
<1>2. ASSUME NEW f \in Files, Exclude(f) PROVE WhoWrites
  BY <1>2 DEF Exclude
<1>3. ASSUME NEW n \in Names, NEW P \in SUBSET Files, Enqueue(n, P) PROVE WhoWrites
  BY <1>3 DEF Enqueue
<1>4. ASSUME NEW f \in Files, BackoffElapses(f) PROVE WhoWrites
  BY <1>4 DEF BackoffElapses
<1>5. CASE Start
  BY <1>5 DEF Start
<1>6. CASE Restore
  BY <1>6 DEF Restore, RecoveredLedger
<1>7. CASE Crash
  BY <1>7 DEF Crash, Forget
<1>8. CASE WorkerLoss
  BY <1>8 DEF WorkerLoss, LoseLocalIndex, Forget
<1>9. ASSUME NEW n \in Names, Ingest(n) PROVE WhoWrites
  BY <1>9 DEF Ingest, Enqueued
<1>10. CASE IngestBails
  BY <1>10 DEF IngestBails, Goto
<1>11. CASE IngestDone
  BY <1>11 DEF IngestDone, Goto
<1>12. ASSUME NEW f \in Files, Discover(f) PROVE WhoWrites
  BY <1>12 DEF Discover, Enqueued, Gathering
<1>13. CASE MemoryBegin
  BY <1>13 DEF MemoryBegin
<1>14. ASSUME NEW f \in Files, MemoryIndex(f) PROVE WhoWrites
  BY <1>14 DEF MemoryIndex
<1>15. CASE MemoryEnd
  BY <1>15 DEF MemoryEnd, Forget
<1>16. ASSUME NEW f \in Files, MemoryFails(f) PROVE WhoWrites
  BY <1>16 DEF MemoryFails, Forget
<1>17. CASE ApplyBatch
  <2>1. PICK B : Classified(B)
    BY <1>17 DEF ApplyBatch
  <2>. QED
    BY <1>17, <2>1 DEF Classified, Acked, Gathering
<1>18. CASE ApplyPartOfBatch
  <2>1. PICK B : Classified(B)
    BY <1>18 DEF ApplyPartOfBatch
  <2>. QED
    BY <1>18, <2>1 DEF Classified, Acked, Gathering
<1>19. ASSUME NEW f \in Files, ClassifyFails(f) PROVE WhoWrites
  BY <1>19 DEF ClassifyFails, Deferred, Gathering
<1>20. ASSUME NEW G \in SUBSET Files, GroupBegin(G) PROVE WhoWrites
  BY <1>20 DEF GroupBegin
<1>21. CASE GroupsDone
  BY <1>21 DEF GroupsDone, Goto
<1>22. ASSUME NEW f \in Files, IndexFile(f) PROVE WhoWrites
  BY <1>22 DEF IndexFile
<1>23. ASSUME NEW f \in Files, IndexFails(f) PROVE WhoWrites
  BY <1>23 DEF IndexFails
<1>24. CASE GroupCommits
  BY <1>24 DEF GroupCommits
<1>25. CASE GroupCommitsWithFailures
  BY <1>25 DEF GroupCommitsWithFailures, Deferred, Forget
<1>26. CASE GroupFails
  BY <1>26 DEF GroupFails, Deferred, Forget
<1>27. CASE AckGroup
  BY <1>27 DEF AckGroup, Acked
<1>28. CASE Sleep
  BY <1>28 DEF Sleep, Goto
<1>29. CASE Seal
  BY <1>29 DEF Seal
<1>30. CASE SealRefused
  BY <1>30 DEF SealRefused, Goto
<1>31. CASE NothingToPublish
  BY <1>31 DEF NothingToPublish, Goto
<1>32. CASE Stage
  BY <1>32 DEF Stage
<1>33. CASE Flip
  BY <1>33 DEF Flip
<1>34. CASE ClearDirty
  BY <1>34 DEF ClearDirty
<1>35. CASE Checkpoint
  BY <1>35 DEF Checkpoint
<1>36. ASSUME NEW n \in Names, RemoveInbox(n) PROVE WhoWrites
  BY <1>36 DEF RemoveInbox
<1>37. ASSUME NEW n \in Names, DeleteReceipt(n) PROVE WhoWrites
  BY <1>37 DEF DeleteReceipt
<1>38. CASE DrainDone
  BY <1>38 DEF DrainDone, Goto
<1>39. CASE PublishFails
  BY <1>39 DEF PublishFails, Goto
<1>40. CASE UNCHANGED vars
  BY <1>40 DEF vars
<1>. QED
  BY <1>1, <1>2, <1>3, <1>4, <1>5, <1>6, <1>7, <1>8, <1>9, <1>10, <1>11,
     <1>12, <1>13, <1>14, <1>15, <1>16, <1>17, <1>18, <1>19, <1>20, <1>21,
     <1>22, <1>23, <1>24, <1>25, <1>26, <1>27, <1>28, <1>29, <1>30, <1>31,
     <1>32, <1>33, <1>34, <1>35, <1>36, <1>37, <1>38, <1>39, <1>40
     DEF Next, Loop, Environment, Failures

-----------------------------------------------------------------------------
(* What types give, and where each action may happen.                      *)

LEMMA Shapes ==
    ASSUME TypeOK
    PROVE  /\ \A f \in Files : disk[f] \in Nat /\ catalog[f].ver \in Nat
           /\ \A n \in Names : carries[n] \subseteq Files
           /\ \A n \in Names : \A f \in Files : said[n][f] \in Nat
           /\ gen \in Nat /\ pointer \in Nat /\ shared.stamp \in Nat
           /\ gen \in Generations /\ pointer \in Generations
           /\ \A g \in dirs : g \in Nat /\ g \in Generations
           /\ \A g \in Generations : /\ snap[g].content \in Catalogs
                                     /\ snap[g].state \in Ledgers
           /\ \A f \in Files : Published[f].ver \in Nat
<1>1. /\ \A f \in Files : disk[f] \in Nat /\ catalog[f].ver \in Nat
      /\ \A n \in Names : carries[n] \subseteq Files
      /\ \A n \in Names : \A f \in Files : said[n][f] \in Nat
  BY ConstantsAssumption DEF TypeOK, Versions, Catalogs
<1>2. /\ gen \in Nat /\ pointer \in Nat /\ shared.stamp \in Nat
      /\ gen \in Generations /\ pointer \in Generations
      /\ \A g \in dirs : g \in Nat /\ g \in Generations
  BY ConstantsAssumption DEF TypeOK, Generations, Ledgers
<1>3. \A g \in Generations : snap[g].content \in Catalogs /\ snap[g].state \in Ledgers
  BY DEF TypeOK, Snapshots
<1>4. \A f \in Files : Published[f].ver \in Nat
  BY <1>2, <1>3, ConstantsAssumption DEF Published, Catalogs, Versions
<1>. QED
  BY <1>1, <1>2, <1>3, <1>4

LEMMA Guards ==
    /\ Start => pc = "down"
    /\ Restore => pc = "restoring" /\ pc' = "events"
    /\ WorkerLoss => pc' = "down"
    /\ (\E n \in Names : Ingest(n)) => pc = "events" /\ pc' = pc
    /\ (\E f \in Files : Discover(f)) => pc \in {"gather", "scan"}
    /\ MemoryBegin => pc = "gather" /\ pc' = "memory"
    /\ (\E f \in Files : MemoryIndex(f)) => pc = "memory" /\ pc' = pc
    /\ (\E f \in Files : MemoryFails(f)) => pc = "memory" /\ pc' = "scan"
    /\ MemoryEnd => pc = "memory" /\ pc' = "scan"
    /\ ApplyBatch \/ ApplyPartOfBatch => pc \in {"gather", "scan"} /\ pc' = "groups"
    /\ (\E G \in SUBSET Files : GroupBegin(G)) => pc = "groups" /\ pc' = "index"
    /\ (\E f \in Files : IndexFile(f)) => pc = "index" /\ pc' = pc
    /\ (\E f \in Files : IndexFails(f)) => pc = "index" /\ pc' = pc
    /\ GroupCommits => pc = "index" /\ pc' = "acking"
    /\ GroupCommitsWithFailures \/ GroupFails => pc = "index" /\ pc' = "tick"
    /\ AckGroup => pc = "acking" /\ pc' = "groups"
    /\ Seal => pc = "tick" /\ pc' = "sealed"
    /\ Stage => pc = "sealed" /\ pc' = "staged"
    /\ Flip => pc = "staged" /\ pc' = "flipped"
    /\ ClearDirty => pc = "flipped" /\ pc' = "stamp"
    /\ Checkpoint => pc = "stamp" /\ pc' = "drain"
    /\ (\E n \in Names : RemoveInbox(n)) => pc = "drain" /\ pc' = pc
    /\ (\E n \in Names : DeleteReceipt(n)) => pc = "drain" /\ pc' = pc
<1>1. /\ Start => pc = "down"
      /\ Restore => pc = "restoring" /\ pc' = "events"
      /\ WorkerLoss => pc' = "down"
      /\ (\E n \in Names : Ingest(n)) => pc = "events" /\ pc' = pc
      /\ (\E f \in Files : Discover(f)) => pc \in {"gather", "scan"}
  BY DEF Start, Restore, WorkerLoss, LoseLocalIndex, Ingest, Discover, Gathering
<1>2. /\ MemoryBegin => pc = "gather" /\ pc' = "memory"
      /\ (\E f \in Files : MemoryIndex(f)) => pc = "memory" /\ pc' = pc
      /\ (\E f \in Files : MemoryFails(f)) => pc = "memory" /\ pc' = "scan"
      /\ MemoryEnd => pc = "memory" /\ pc' = "scan"
  BY DEF MemoryBegin, MemoryIndex, MemoryFails, MemoryEnd
<1>3. /\ ApplyBatch \/ ApplyPartOfBatch => pc \in {"gather", "scan"} /\ pc' = "groups"
      /\ (\E G \in SUBSET Files : GroupBegin(G)) => pc = "groups" /\ pc' = "index"
      /\ AckGroup => pc = "acking" /\ pc' = "groups"
  BY DEF ApplyBatch, ApplyPartOfBatch, Classified, Gathering, GroupBegin, AckGroup
<1>4. /\ (\E f \in Files : IndexFile(f)) => pc = "index" /\ pc' = pc
      /\ (\E f \in Files : IndexFails(f)) => pc = "index" /\ pc' = pc
      /\ GroupCommits => pc = "index" /\ pc' = "acking"
      /\ GroupCommitsWithFailures \/ GroupFails => pc = "index" /\ pc' = "tick"
  BY DEF IndexFile, IndexFails, GroupCommits, GroupCommitsWithFailures, GroupFails
<1>5. /\ Seal => pc = "tick" /\ pc' = "sealed"
      /\ Stage => pc = "sealed" /\ pc' = "staged"
      /\ Flip => pc = "staged" /\ pc' = "flipped"
      /\ ClearDirty => pc = "flipped" /\ pc' = "stamp"
      /\ Checkpoint => pc = "stamp" /\ pc' = "drain"
      /\ (\E n \in Names : RemoveInbox(n)) => pc = "drain" /\ pc' = pc
      /\ (\E n \in Names : DeleteReceipt(n)) => pc = "drain" /\ pc' = pc
  BY DEF Seal, Stage, Flip, ClearDirty, Checkpoint, RemoveInbox, DeleteReceipt
<1>. QED
  BY <1>1, <1>2, <1>3, <1>4, <1>5

\* The file system only moves forward, and so does what ignore rules cover.
LEMMA WorldMoves ==
    ASSUME TypeOK, TypeOK', [Next]_vars
    PROVE  /\ \A f \in Files : disk[f] =< disk'[f] /\ disk'[f] \in Nat
           /\ excluded \subseteq excluded'
<1>1. WhoWrites
  BY Footprint
<1>2. \A f \in Files : disk[f] =< disk'[f]
  <2>1. CASE disk' = disk
    BY <2>1, Shapes
  <2>2. ASSUME NEW g \in Files, Edit(g) PROVE \A f \in Files : disk[f] =< disk'[f]
    <3>1. disk' = [disk EXCEPT ![g] = disk[g] + 1]
      BY <2>2 DEF Edit
    <3>. QED
      BY <3>1, Shapes DEF TypeOK
  <2>. QED
    BY <1>1, <2>1, <2>2 DEF WhoWrites
<1>3. excluded \subseteq excluded'
  BY <1>1 DEF WhoWrites, Exclude
<1>. QED
  BY <1>2, <1>3, ConstantsAssumption DEF TypeOK, Versions

\* Whatever writes the catalog of a running worker writes what is on disk.
LEMMA CatalogMoves ==
    ASSUME TypeOK, [Next]_vars, ~Start, ~WorkerLoss, NEW f \in Files
    PROVE  catalog'[f].ver = catalog[f].ver \/ catalog'[f].ver = disk[f]
<1>1. CASE catalog' = catalog
  BY <1>1
<1>2. ASSUME NEW g \in Files, MemoryIndex(g) PROVE catalog'[f].ver \in {catalog[f].ver, disk[f]}
  BY <1>2 DEF MemoryIndex, TypeOK, Catalogs
<1>3. ASSUME NEW g \in Files, MemoryFails(g) PROVE catalog'[f].ver \in {catalog[f].ver, disk[f]}
  BY <1>3 DEF MemoryFails, Indexed, TypeOK, Catalogs
<1>4. ASSUME NEW g \in Files, IndexFile(g) PROVE catalog'[f].ver \in {catalog[f].ver, disk[f]}
  BY <1>4 DEF IndexFile, Indexed, TypeOK, Catalogs
<1>5. ASSUME NEW g \in Files, IndexFails(g) PROVE catalog'[f].ver \in {catalog[f].ver, disk[f]}
  BY <1>5 DEF IndexFails, Indexed, TypeOK, Catalogs
<1>6. CASE GroupCommits \/ GroupCommitsWithFailures
  <2>1. catalog' = Completed
    BY <1>6 DEF GroupCommits, GroupCommitsWithFailures
  <2>. QED
    BY <2>1 DEF Completed, TypeOK, Catalogs
<1>. QED
  BY <1>1, <1>2, <1>3, <1>4, <1>5, <1>6, Footprint DEF WhoWrites

\* Only the pointer flip changes what readers and replacements see.
LEMMA PublishedStays ==
    ASSUME IInv, [Next]_vars, ~Flip
    PROVE  pointer' = pointer /\ snap'[pointer] = snap[pointer]
<1>1. pointer' = pointer
  BY Footprint DEF WhoWrites, IInv
<1>2. CASE Stage
  <2>1. pointer # gen
    BY <1>2, Guards, Shapes DEF IInv, Numbered
  <2>2. snap' = [snap EXCEPT ![gen] = StagedSnapshot]
    BY <1>2 DEF Stage
  <2>. QED
    BY <1>1, <2>1, <2>2, Shapes DEF IInv, TypeOK
<1>3. CASE ClearDirty
  <2>1. pointer \in Kept \/ snap[pointer] = NoSnapshot
    BY DEF Kept, IInv, PublishedComplete, Numbered
  <2>2. snap' = [g \in Generations |-> IF g \in Kept THEN snap[g] ELSE NoSnapshot]
    BY <1>3 DEF ClearDirty
  <2>3. pointer \in Generations
    BY Shapes DEF IInv
  <2>. QED
    BY <1>1, <2>1, <2>2, <2>3
<1>. QED
  BY <1>1, <1>2, <1>3, Footprint DEF WhoWrites, IInv

\* What was fresh stays fresh, and the version on disk always is.
LEMMA FreshStays ==
    ASSUME NEW p \in Nat, NEW a \in Nat, NEW d \in Nat, NEW e \in Nat, d =< e,
           p >= a \/ (p \in Absent /\ \E v \in a..d : v \in Absent)
    PROVE  p >= a \/ (p \in Absent /\ \E v \in a..e : v \in Absent)
<1>1. \A v \in a..d : v \in a..e
  OBVIOUS
<1>. QED
  BY <1>1

-----------------------------------------------------------------------------
(* One lemma per conjunct of the inductive invariant.                      *)

LEMMA VersionedStep ==
    ASSUME IInv, TypeOK', [Next]_vars
    PROVE  Versioned'
<1>1. TypeOK /\ Versioned /\ Numbered /\ Local /\ Sealed
  BY DEF IInv
<1>2. WhoWrites
  BY <1>1, Footprint
<1>3. \A f \in Files : disk[f] =< disk'[f] /\ disk[f] \in Nat /\ disk'[f] \in Nat
  BY <1>1, WorldMoves, Shapes
<1>4. \A n \in Names : \A f \in Files : said'[n][f] =< disk'[f]
  <2>1. CASE said' = said
    BY <1>1, <1>3, <2>1, Shapes DEF Versioned
  <2>2. ASSUME NEW m \in Names, NEW P \in SUBSET Files, Enqueue(m, P)
        PROVE  \A n \in Names : \A f \in Files : said'[n][f] =< disk'[f]
    <3>1. said' = [said EXCEPT ![m] = [f \in Files |-> IF f \in P THEN disk[f] ELSE 0]]
      BY <2>2 DEF Enqueue
    <3>2. ASSUME NEW n \in Names, NEW f \in Files
          PROVE  said'[n][f] \in {said[n][f], disk[f], 0}
      BY <3>1 DEF TypeOK, Versioned
    <3>. QED
      BY <1>1, <1>3, <3>2, Shapes DEF Versioned
  <2>. QED
    BY <1>2, <2>1, <2>2 DEF WhoWrites
<1>5. CASE Start
  <2>1. catalog' = catalog \/ catalog' = Published
    BY <1>5 DEF Start, Published
  <2>2. disk' = disk /\ pointer' = pointer /\ snap' = snap
    BY <1>5 DEF Start, world, publication
  <2>3. local' => \A f \in Files : Published[f].ver =< catalog'[f].ver
    BY <1>1, <1>5, <2>1, Shapes
       DEF Start, Versioned, Local, Numbered, Published, EmptyCatalog, NoSnapshot
  <2>. QED
    BY <1>1, <1>4, <2>1, <2>2, <2>3 DEF Versioned, Published
<1>6. CASE WorkerLoss
  <2>1. /\ catalog' = EmptyCatalog /\ ~local'
        /\ disk' = disk /\ pointer' = pointer /\ snap' = snap
    BY <1>6 DEF WorkerLoss, LoseLocalIndex, world, publication
  <2>. QED
    BY <1>1, <1>3, <1>4, <2>1 DEF Versioned, Published, EmptyCatalog
<1>7. CASE Flip
  <2>1. /\ disk' = disk /\ local' = local /\ catalog' = catalog
        /\ Published' = snap[gen].content /\ snap[gen].content = catalog
    BY <1>1, <1>7, Guards DEF Flip, Sealed, world, index, Published
  <2>. QED
    BY <1>1, <1>4, <2>1, Shapes DEF Versioned
<1>8. CASE ~Start /\ ~WorkerLoss /\ ~Flip
  <2>1. Published' = Published /\ local' = local
    BY <1>2, <1>8, PublishedStays DEF Published, WhoWrites
  <2>2. \A f \in Files : catalog'[f].ver = catalog[f].ver \/ catalog'[f].ver = disk[f]
    BY <1>1, <1>8, CatalogMoves
  <2>. QED
    BY <1>1, <1>3, <1>4, <2>1, <2>2, Shapes DEF Versioned
<1>. QED
  BY <1>5, <1>6, <1>7, <1>8

LEMMA UnissuedStep ==
    ASSUME IInv, TypeOK', [Next]_vars
    PROVE  Unissued'
<1>1. TypeOK /\ Unissued /\ WhoWrites
  BY Footprint DEF IInv
<1>2. SUFFICES ASSUME NEW n \in Names, carries'[n] = {}
               PROVE  /\ n \notin inbox' /\ n \notin ledger'.receipts
                      /\ n \notin shared'.receipts
                      /\ \A g \in Generations : n \notin snap'[g].state.receipts
  BY DEF Unissued
<1>3. carries[n] = {} /\ n \notin inbox'
  <2>1. ASSUME NEW m \in Names, NEW P \in SUBSET Files, Enqueue(m, P)
        PROVE  n # m /\ carries[n] = {} /\ inbox' = inbox \cup {m}
    <3>1. carries' = [carries EXCEPT ![m] = P] /\ P # {} /\ inbox' = inbox \cup {m}
      BY <2>1 DEF Enqueue
    <3>. QED
      BY <1>1, <1>2, <3>1 DEF TypeOK
  <2>2. ASSUME NEW m \in Names, RemoveInbox(m) PROVE carries' = carries /\ inbox' \subseteq inbox
    BY <2>2 DEF RemoveInbox
  <2>. QED
    BY <1>1, <1>2, <2>1, <2>2 DEF WhoWrites, Unissued
<1>4. /\ n \notin inbox /\ n \notin ledger.receipts /\ n \notin shared.receipts
      /\ \A g \in Generations : n \notin snap[g].state.receipts
  BY <1>1, <1>3 DEF Unissued
<1>5. n \notin ledger'.receipts
  <2>1. CASE Restore
    BY <1>4, <2>1, Shapes, <1>1 DEF Restore, RecoveredLedger
  <2>2. CASE WorkerLoss
    BY <2>2 DEF WorkerLoss, LoseLocalIndex, EmptyLedger
  <2>3. ASSUME NEW m \in Names, Ingest(m) PROVE n \notin ledger'.receipts
    <3>1. m \in inbox /\ ledger'.receipts = ledger.receipts \cup {m}
      BY <1>1, <2>3 DEF Ingest, Unseen, Enqueued, TypeOK, Ledgers
    <3>. QED
      BY <1>4, <3>1
  <2>4. ASSUME NEW m \in Names, DeleteReceipt(m) PROVE n \notin ledger'.receipts
    BY <1>1, <1>4, <2>4 DEF DeleteReceipt, TypeOK, Ledgers
  <2>. QED
    BY <1>1, <1>4, <2>1, <2>2, <2>3, <2>4 DEF WhoWrites
<1>6. n \notin shared'.receipts
  <2>1. CASE Checkpoint
    BY <1>1, <1>4, <2>1 DEF Checkpoint, TypeOK, Ledgers
  <2>. QED
    BY <1>1, <1>4, <2>1 DEF WhoWrites
<1>7. ASSUME NEW g \in Generations PROVE n \notin snap'[g].state.receipts
  <2>1. CASE Stage
    <3>1. snap' = [snap EXCEPT ![gen] = StagedSnapshot]
      BY <2>1 DEF Stage
    <3>2. n \notin StagedSnapshot.state.receipts
      BY <1>1, <1>4, Shapes DEF StagedSnapshot
    <3>. QED
      BY <1>1, <1>4, <3>1, <3>2 DEF TypeOK
  <2>2. CASE ClearDirty
    BY <1>4, <2>2 DEF ClearDirty, NoSnapshot, EmptyLedger
  <2>. QED
    BY <1>1, <1>4, <2>1, <2>2 DEF WhoWrites
<1>. QED
  BY <1>3, <1>5, <1>6, <1>7

LEMMA LocalStep ==
    ASSUME IInv, TypeOK', [Next]_vars
    PROVE  Local'
<1>1. TypeOK /\ Local /\ WhoWrites
  BY Footprint DEF IInv
<1>2. CASE Start
  <2>1. local' /\ (pc' = "restoring" => /\ pointer' # 0 /\ gen' = pointer'
                                        /\ catalog' = Published')
    BY <1>2 DEF Start, Published, publication
  <2>. QED
    BY <2>1 DEF Local
<1>3. CASE WorkerLoss
  BY <1>3 DEF WorkerLoss, LoseLocalIndex, Local
<1>4. CASE ~Start /\ ~WorkerLoss
  <2>1. local' = local /\ (pc' = "restoring" => pc = "restoring")
    BY <1>1, <1>4 DEF WhoWrites
  <2>2. ASSUME ~local PROVE pc' = "down" /\ catalog' = catalog /\ ledger' = ledger /\ gen' = gen
    <3>1. pc = "down" /\ ledger.rows = {}
      BY <1>1, <2>2 DEF Local, EmptyLedger
    <3>2. pc' = "down" /\ catalog' = catalog /\ gen' = gen
      BY <1>1, <1>4, <3>1, Guards DEF WhoWrites
    <3>3. ~ \E f \in Files : BackoffElapses(f)
      BY <3>1 DEF BackoffElapses
    <3>. QED
      BY <1>1, <1>4, <3>1, <3>2, <3>3 DEF WhoWrites
  <2>3. ASSUME pc' = "restoring"
        PROVE  pointer' = pointer /\ gen' = gen /\ catalog' = catalog /\ Published' = Published
    <3>1. pc = "restoring" /\ ~Flip
      BY <2>1, <2>3, Guards
    <3>2. gen' = gen /\ catalog' = catalog
      BY <1>1, <1>4, <2>3, <3>1, Guards DEF WhoWrites
    <3>. QED
      BY <3>1, <3>2, PublishedStays DEF Published
  <2>. QED
    BY <1>1, <2>1, <2>2, <2>3 DEF Local, EmptyCatalog, EmptyLedger
<1>. QED
  BY <1>2, <1>3, <1>4

LEMMA NumberedStep ==
    ASSUME IInv, TypeOK', [Next]_vars
    PROVE  Numbered'
<1>1. TypeOK /\ Numbered /\ Local /\ Flagged /\ PublishedComplete /\ WhoWrites
  BY Footprint DEF IInv
<1>2. /\ gen \in Nat /\ pointer \in Nat /\ shared.stamp \in Nat /\ gen' \in Nat
      /\ \A g \in dirs : g \in Nat
  BY <1>1, Shapes, ConstantsAssumption DEF TypeOK, Generations
<1>3. snap'[0] = NoSnapshot
  <2>1. 0 \in Generations
    BY ConstantsAssumption DEF Generations
  <2>2. CASE Stage
    <3>1. gen # 0
      BY <1>1, <1>2, <2>2, Guards DEF Numbered
    <3>. QED
      BY <1>1, <2>1, <2>2, <3>1 DEF Stage, Numbered, TypeOK
  <2>3. CASE ClearDirty
    BY <1>1, <2>1, <2>3 DEF ClearDirty, Numbered
  <2>. QED
    BY <1>1, <2>2, <2>3 DEF WhoWrites, Numbered
<1>4. shared'.stamp =< pointer' /\ (shared'.stamp = 0 => shared' = EmptyLedger)
  <2>1. CASE Checkpoint
    <3>1. shared'.stamp = pointer /\ pointer' = pointer
      BY <1>1, <2>1 DEF Checkpoint, TypeOK, Ledgers
    <3>2. pointer # 0
      BY <1>1, <2>1, Guards DEF Flagged
    <3>. QED
      BY <1>2, <3>1, <3>2
  <2>2. CASE shared' = shared
    <3>1. CASE Flip
      <4>1. pointer' = gen /\ pointer < gen
        BY <1>1, <3>1, Guards DEF Flip, Numbered
      <4>. QED
        BY <1>1, <1>2, <2>2, <4>1 DEF Numbered
    <3>. QED
      BY <1>1, <2>2, <3>1 DEF WhoWrites, Numbered
  <2>. QED
    BY <1>1, <2>1, <2>2 DEF WhoWrites
<1>5. gen' >= gen \/ Start \/ WorkerLoss
  BY <1>1, <1>2 DEF WhoWrites, MemoryIndex, MemoryFails, GroupBegin, Seal
<1>6. local' => pointer' =< gen'
  <2>1. CASE Start
    BY <1>1, <1>2, <2>1 DEF Start, publication, Numbered, Local
  <2>2. CASE WorkerLoss
    BY <2>2 DEF WorkerLoss, LoseLocalIndex
  <2>3. CASE Flip
    BY <1>2, <2>3 DEF Flip, index
  <2>4. CASE ~Start /\ ~WorkerLoss /\ ~Flip
    <3>1. local' = local /\ pointer' = pointer /\ gen' >= gen
      BY <1>1, <1>5, <2>4 DEF WhoWrites
    <3>. QED
      BY <1>1, <1>2, <3>1 DEF Numbered
  <2>. QED
    BY <2>1, <2>2, <2>3, <2>4
<1>7. ASSUME NEW g \in dirs' PROVE g # 0 /\ g =< (IF local' THEN gen' ELSE pointer')
  <2>1. CASE Stage
    <3>1. local /\ local' /\ gen' = gen /\ gen # 0 /\ dirs' = dirs \cup {gen}
      BY <1>1, <1>2, <2>1, Guards DEF Stage, index, Local, Numbered
    <3>. QED
      BY <1>1, <1>2, <3>1 DEF Numbered
  <2>2. CASE ~Stage
    <3>1. g \in dirs
      BY <1>1, <2>2 DEF WhoWrites, ClearDirty, Kept
    <3>2. CASE Start
      BY <1>1, <1>2, <3>1, <3>2 DEF Start, publication, Numbered, Local
    <3>3. CASE WorkerLoss
      BY <1>1, <3>1, <3>3 DEF WorkerLoss, LoseLocalIndex, publication, Numbered
    <3>4. CASE Flip
      BY <1>1, <3>1, <3>4, Guards DEF Flip, index, Numbered, Local
    <3>5. CASE ~Start /\ ~WorkerLoss /\ ~Flip
      BY <1>1, <1>2, <1>5, <3>1, <3>5 DEF WhoWrites, Numbered
    <3>. QED
      BY <3>2, <3>3, <3>4, <3>5
  <2>. QED
    BY <2>1, <2>2
<1>8. pc' = "sealed" => pointer' < gen' /\ gen' \notin dirs'
  <2>1. CASE Seal
    <3>1. local /\ gen' = gen + 1 /\ pointer' = pointer /\ dirs' = dirs
      BY <1>1, <2>1, Guards DEF Seal, publication, Local
    <3>. QED
      BY <1>1, <1>2, <3>1 DEF Numbered
  <2>2. CASE ~Seal /\ pc' = "sealed"
    <3>1. pc = "sealed"
      BY <1>1, <2>2 DEF WhoWrites
    <3>2. pointer' = pointer /\ gen' = gen /\ dirs' = dirs
      BY <1>1, <2>2, <3>1, Guards DEF WhoWrites
    <3>. QED
      BY <1>1, <3>1, <3>2 DEF Numbered
  <2>. QED
    BY <2>1, <2>2
<1>9. pc' = "staged" => pointer' < gen' /\ gen' \in dirs'
  <2>1. CASE Stage
    BY <1>1, <2>1, Guards DEF Stage, index, Numbered
  <2>2. CASE ~Stage /\ pc' = "staged"
    <3>1. pc = "staged"
      BY <1>1, <2>2 DEF WhoWrites
    <3>2. pointer' = pointer /\ gen' = gen /\ dirs' = dirs
      BY <1>1, <2>2, <3>1, Guards DEF WhoWrites
    <3>. QED
      BY <1>1, <3>1, <3>2 DEF Numbered
  <2>. QED
    BY <2>1, <2>2
<1>10. pc' = "flipped" => pointer' = gen' /\ gen' # 0
  <2>1. CASE Flip
    BY <1>1, <1>2, <2>1, Guards DEF Flip, index, Numbered
  <2>2. CASE ~Flip /\ pc' = "flipped"
    <3>1. pc = "flipped"
      BY <1>1, <2>2 DEF WhoWrites
    <3>2. pointer' = pointer /\ gen' = gen
      BY <1>1, <2>2, <3>1, Guards DEF WhoWrites
    <3>. QED
      BY <1>1, <3>1, <3>2 DEF Numbered
  <2>. QED
    BY <2>1, <2>2
<1>. QED
  BY <1>3, <1>4, <1>6, <1>7, <1>8, <1>9, <1>10 DEF Numbered, NoSnapshot, EmptyLedger, EmptyCatalog

LEMMA FlaggedStep ==
    ASSUME IInv, TypeOK', [Next]_vars
    PROVE  Flagged'
<1>1. TypeOK /\ Flagged /\ Local /\ CleanMeansPublished /\ WhoWrites
  BY Footprint DEF IInv
<1>2. pc' \in {"memory", "index"} => ledger'.dirty
  <2>1. CASE MemoryBegin
    BY <1>1, <2>1 DEF MemoryBegin, TypeOK, Ledgers
  <2>2. ASSUME NEW G \in SUBSET Files, GroupBegin(G) PROVE ledger'.dirty
    BY <1>1, <2>2 DEF GroupBegin, TypeOK, Ledgers
  <2>3. CASE /\ ~MemoryBegin /\ ~ \E G \in SUBSET Files : GroupBegin(G)
             /\ pc' \in {"memory", "index"}
    <3>1. pc \in {"memory", "index"}
      BY <1>1, <2>3 DEF WhoWrites
    <3>2. ledger'.dirty = ledger.dirty
      BY <1>1, <2>3, <3>1, Guards DEF WhoWrites
    <3>. QED
      BY <1>1, <3>1, <3>2 DEF Flagged
  <2>. QED
    BY <2>1, <2>2, <2>3
<1>3. (pc' = "memory" /\ ~wasDirty' /\ ~changed') => catalog' = Published'
  <2>1. SUFFICES ASSUME pc' = "memory", ~wasDirty', ~changed' PROVE catalog' = Published'
    OBVIOUS
  <2>2. CASE MemoryBegin
    <3>1. /\ ~ledger.dirty /\ pc = "gather" /\ catalog' = catalog
          /\ pointer' = pointer /\ snap' = snap
      BY <2>1, <2>2 DEF MemoryBegin, index, publication
    <3>. QED
      BY <1>1, <3>1 DEF CleanMeansPublished, Local, Published
  <2>3. ASSUME NEW f \in Files, MemoryIndex(f) PROVE catalog' = Published'
    <3>1. /\ catalog' = catalog /\ ~wasDirty /\ ~changed /\ pc = "memory"
          /\ pointer' = pointer /\ snap' = snap
      BY <1>1, <2>1, <2>3 DEF MemoryIndex, publication, TypeOK
    <3>. QED
      BY <1>1, <3>1 DEF Flagged, Published
  <2>4. CASE ~MemoryBegin /\ ~ \E f \in Files : MemoryIndex(f)
    <3>1. pc = "memory"
      BY <1>1, <2>1, <2>4 DEF WhoWrites
    <3>2. /\ catalog' = catalog /\ wasDirty' = wasDirty /\ changed' = changed /\ ~Flip
      <4>1. ~Crash
        BY <2>1 DEF Crash
      <4>. QED
        BY <1>1, <2>1, <2>4, <3>1, <4>1, Guards DEF WhoWrites
    <3>. QED
      BY <1>1, <2>1, <3>1, <3>2, PublishedStays DEF Flagged, Published
  <2>. QED
    BY <2>2, <2>3, <2>4
<1>4. pc' \in {"stamp", "drain"} => ~ledger'.dirty /\ pointer' # 0
  <2>1. CASE ClearDirty
    <3>1. ~ledger'.dirty /\ pointer' = pointer /\ pc = "flipped" /\ pc' = "stamp"
      BY <1>1, <2>1 DEF ClearDirty, TypeOK, Ledgers
    <3>2. pointer # 0
      BY <3>1, Shapes DEF IInv, Numbered
    <3>. QED
      BY <3>1, <3>2
  <2>2. CASE NothingToPublish
    BY <2>2 DEF NothingToPublish, MustPublish, Goto, publication
  <2>3. CASE ~ClearDirty /\ ~NothingToPublish /\ pc' \in {"stamp", "drain"}
    <3>1. pc \in {"stamp", "drain"}
      BY <1>1, <2>3, Guards DEF WhoWrites
    <3>2. ledger'.dirty = ledger.dirty /\ pointer' = pointer
      BY <1>1, <2>3, <3>1, Guards DEF WhoWrites
    <3>. QED
      BY <1>1, <3>1, <3>2 DEF Flagged
  <2>. QED
    BY <2>1, <2>2, <2>3
<1>. QED
  BY <1>2, <1>3, <1>4 DEF Flagged

LEMMA SealedStep ==
    ASSUME IInv, TypeOK', [Next]_vars
    PROVE  Sealed'
<1>1. TypeOK /\ Sealed /\ Numbered /\ WhoWrites
  BY Footprint DEF IInv
<1>2. ASSUME pc \in {"sealed", "staged", "flipped"}, pc' \in {"sealed", "staged", "flipped"}
      PROVE  /\ catalog' = catalog /\ gen' = gen /\ ledger'.rows = ledger.rows
             /\ ledger'.receipts = ledger.receipts
  BY <1>1, <1>2, Guards DEF WhoWrites
<1>3. pc' \in {"sealed", "staged", "flipped"} => CatalogComplete'
  <2>1. CASE Seal
    BY <2>1 DEF Seal, CatalogComplete
  <2>2. CASE ~Seal /\ pc' \in {"sealed", "staged", "flipped"}
    <3>1. pc \in {"sealed", "staged", "flipped"}
      BY <1>1, <2>2, Guards DEF WhoWrites
    <3>2. catalog' = catalog
      BY <1>2, <2>2, <3>1
    <3>. QED
      BY <1>1, <3>1, <3>2 DEF Sealed, CatalogComplete
  <2>. QED
    BY <2>1, <2>2
<1>4. ASSUME pc' \in {"staged", "flipped"}
      PROVE  /\ snap'[gen'].content = catalog'
             /\ snap'[gen'].state.rows = ledger'.rows
             /\ snap'[gen'].state.receipts = ledger'.receipts
  <2>1. CASE Stage
    <3>1. /\ snap' = [snap EXCEPT ![gen] = StagedSnapshot]
          /\ gen' = gen /\ catalog' = catalog /\ ledger' = ledger
      BY <2>1 DEF Stage, index
    <3>2. StagedSnapshot = [content |-> catalog, state |-> ledger]
      BY <1>1, <2>1, Guards DEF StagedSnapshot, Numbered
    <3>. QED
      BY <1>1, <3>1, <3>2, Shapes DEF TypeOK
  <2>2. CASE ~Stage
    <3>1. pc \in {"staged", "flipped"}
      BY <1>1, <1>4, <2>2, Guards DEF WhoWrites
    <3>2. snap' = snap
      BY <1>1, <1>4, <2>2, Guards DEF WhoWrites
    <3>. QED
      BY <1>1, <1>2, <1>4, <3>1, <3>2 DEF Sealed
  <2>. QED
    BY <2>1, <2>2
<1>. QED
  BY <1>3, <1>4 DEF Sealed

LEMMA CheckpointedStep ==
    ASSUME IInv, TypeOK', [Next]_vars
    PROVE  Checkpointed'
<1>1. TypeOK /\ Checkpointed /\ WhoWrites
  BY Footprint DEF IInv
<1>2. SUFFICES ASSUME pc' = "drain"
               PROVE  shared'.stamp = pointer' /\ ledger'.receipts \subseteq shared'.receipts
  BY DEF Checkpointed
<1>3. CASE Checkpoint
  BY <1>1, <1>3 DEF Checkpoint, TypeOK, Ledgers
<1>4. CASE ~Checkpoint
  <2>1. pc = "drain"
    BY <1>1, <1>2, <1>4 DEF WhoWrites
  <2>2. shared' = shared /\ pointer' = pointer
    BY <1>1, <1>2, <1>4, <2>1, Guards DEF WhoWrites
  <2>3. ledger'.receipts \subseteq ledger.receipts
    <3>1. ASSUME NEW n \in Names, DeleteReceipt(n)
          PROVE  ledger'.receipts \subseteq ledger.receipts
      BY <1>1, <3>1 DEF DeleteReceipt, TypeOK, Ledgers
    <3>. QED
      BY <1>1, <1>2, <2>1, <3>1, Guards DEF WhoWrites
  <2>. QED
    BY <1>1, <2>1, <2>2, <2>3 DEF Checkpointed
<1>. QED
  BY <1>3, <1>4

LEMMA PublishedCompleteStep ==
    ASSUME IInv, TypeOK', [Next]_vars
    PROVE  PublishedComplete'
<1>1. TypeOK /\ PublishedComplete /\ Sealed /\ Numbered /\ WhoWrites
  BY Footprint DEF IInv
<1>2. CASE Flip
  <2>1. pointer' = gen /\ snap' = snap /\ dirs' = dirs /\ gen \in dirs
    BY <1>1, <1>2, Guards DEF Flip, Numbered
  <2>2. snap[gen].content = catalog /\ CatalogComplete
    BY <1>1, <1>2, Guards DEF Sealed
  <2>. QED
    BY <2>1, <2>2 DEF PublishedComplete, Published, CatalogComplete
<1>3. CASE ~Flip
  <2>1. pointer' = pointer /\ Published' = Published
    BY <1>3, PublishedStays DEF Published
  <2>2. pointer # 0 => pointer \in dirs'
    <3>1. CASE Stage
      BY <1>1, <3>1 DEF Stage, PublishedComplete
    <3>2. CASE ClearDirty
      BY <1>1, <3>2 DEF ClearDirty, Kept, PublishedComplete
    <3>. QED
      BY <1>1, <3>1, <3>2 DEF WhoWrites, PublishedComplete
  <2>. QED
    BY <1>1, <2>1, <2>2 DEF PublishedComplete
<1>. QED
  BY <1>2, <1>3

LEMMA CleanMeansPublishedStep ==
    ASSUME IInv, TypeOK', [Next]_vars
    PROVE  CleanMeansPublished'
<1>1. /\ TypeOK /\ CleanMeansPublished /\ Local /\ Flagged /\ Sealed /\ Numbered
      /\ WhoWrites
  BY Footprint DEF IInv
<1>2. SUFFICES ASSUME local', pc' # "restoring", ~ledger'.dirty
               PROVE  catalog' = Published'
  BY DEF CleanMeansPublished
<1>3. CASE Start
  <2>1. /\ catalog' = catalog /\ ledger' = ledger /\ pointer' = pointer /\ snap' = snap
        /\ local \/ pointer = 0
    BY <1>2, <1>3 DEF Start, publication
  <2>2. CASE local
    BY <1>1, <1>2, <1>3, <2>1, <2>2, Guards DEF CleanMeansPublished, Published
  <2>3. CASE ~local
    BY <1>1, <2>1, <2>3 DEF Local, Numbered, Published, NoSnapshot
  <2>. QED
    BY <2>2, <2>3
<1>4. CASE Flip
  BY <1>1, <1>4, Guards DEF Flip, Sealed, Published, index
<1>5. CASE Restore
  <2>1. catalog' = catalog /\ pointer' = pointer /\ snap' = snap
    BY <1>5 DEF Restore, index, publication
  <2>. QED
    BY <1>1, <1>5, <2>1, Guards DEF Local, Published
<1>6. CASE MemoryEnd
  <2>1. /\ catalog' = catalog /\ pointer' = pointer /\ snap' = snap
        /\ ~wasDirty /\ ~changed /\ pc = "memory"
    BY <1>1, <1>2, <1>6 DEF MemoryEnd, DirtyAfterRefresh, index, publication, TypeOK, Ledgers
  <2>. QED
    BY <1>1, <2>1 DEF Flagged, Published
<1>7. CASE ClearDirty
  <2>1. catalog' = catalog /\ ~Flip /\ pc = "flipped"
    BY <1>7, Guards DEF ClearDirty, index
  <2>. QED
    BY <1>1, <2>1, PublishedStays DEF Sealed, Numbered, Published
<1>8. CASE ~Start /\ ~Flip /\ ~Restore /\ ~MemoryEnd /\ ~ClearDirty
  <2>1. local /\ Published' = Published /\ ~WorkerLoss
    <3>1. ~WorkerLoss
      BY <1>2 DEF WorkerLoss, LoseLocalIndex
    <3>. QED
      BY <1>1, <1>2, <1>8, <3>1, PublishedStays DEF WhoWrites, Published
  <2>2. pc # "restoring"
    BY <1>1, <1>2, <1>8, <2>1 DEF WhoWrites
  <2>3. ~ledger.dirty /\ pc \notin {"memory", "index"}
    <3>1. ASSUME NEW G \in SUBSET Files PROVE ~GroupBegin(G)
      BY <1>1, <1>2 DEF GroupBegin, TypeOK, Ledgers
    <3>2. ~MemoryBegin
      BY <1>1, <1>2 DEF MemoryBegin, TypeOK, Ledgers
    <3>. QED
      BY <1>1, <1>2, <1>8, <2>1, <3>1, <3>2 DEF WhoWrites, Flagged
  <2>4. catalog' = catalog
    BY <1>1, <1>8, <2>1, <2>3, Guards DEF WhoWrites
  <2>. QED
    BY <1>1, <2>1, <2>2, <2>3, <2>4 DEF CleanMeansPublished
<1>. QED
  BY <1>3, <1>4, <1>5, <1>6, <1>7, <1>8

-----------------------------------------------------------------------------
(* Coverage: what an event announced is shown, queued or still in the inbox. *)

\* The local catalog, respectively the publication, shows f as event n saw it.
Shown(n, f) == Fresh(f, catalog[f].ver, said[n][f])
PublishedShows(n, f) == Fresh(f, Published[f].ver, said[n][f])

LEMMA ShownStays ==
    ASSUME IInv, TypeOK', [Next]_vars, ~Start, ~WorkerLoss,
           NEW n \in Names, NEW f \in Files, said'[n][f] = said[n][f], Shown(n, f)
    PROVE  Shown(n, f)'
<1>1. TypeOK /\ Versioned
  BY DEF IInv
<1>2. /\ disk[f] \in Nat /\ disk'[f] \in Nat /\ disk[f] =< disk'[f]
      /\ catalog[f].ver \in Nat /\ said[n][f] \in Nat /\ said[n][f] =< disk[f]
  BY <1>1, WorldMoves, Shapes DEF Versioned
<1>3. \/ catalog[f].ver >= said[n][f]
      \/ catalog[f].ver \in Absent /\ \E v \in said[n][f]..disk'[f] : v \in Absent
  BY <1>2, FreshStays DEF Shown, Fresh
<1>4. catalog'[f].ver = catalog[f].ver \/ catalog'[f].ver = disk[f]
  BY <1>1, CatalogMoves
<1>. QED
  BY <1>2, <1>3, <1>4 DEF Shown, Fresh

LEMMA PublishedShowsStays ==
    ASSUME IInv, TypeOK', [Next]_vars, ~Flip,
           NEW n \in Names, NEW f \in Files, said'[n][f] = said[n][f], PublishedShows(n, f)
    PROVE  PublishedShows(n, f)'
<1>1. TypeOK
  BY DEF IInv
<1>2. /\ disk[f] \in Nat /\ disk'[f] \in Nat /\ disk[f] =< disk'[f]
      /\ Published[f].ver \in Nat /\ said[n][f] \in Nat
  BY <1>1, WorldMoves, Shapes
<1>3. \/ Published[f].ver >= said[n][f]
      \/ Published[f].ver \in Absent /\ \E v \in said[n][f]..disk'[f] : v \in Absent
  BY <1>2, FreshStays DEF PublishedShows, Fresh
<1>4. Published' = Published
  BY PublishedStays DEF Published
<1>. QED
  BY <1>2, <1>3, <1>4 DEF PublishedShows, Fresh

\* A row needs_update has nothing against shows every event so far.
LEMMA CurrentIsShown ==
    ASSUME IInv, NEW n \in Names, NEW f \in Files, ~NeedsUpdate(f)
    PROVE  Shown(n, f)
<1>1. disk[f] \in Nat /\ said[n][f] \in Nat /\ said[n][f] =< disk[f]
  BY Shapes DEF IInv, Versioned
<1>2. CASE disk[f] \in Absent
  <2>1. catalog[f].ver \in Absent /\ disk[f] \in said[n][f]..disk[f]
    BY <1>1, <1>2 DEF NeedsUpdate
  <2>. QED
    BY <1>2, <2>1 DEF Shown, Fresh
<1>3. CASE disk[f] \notin Absent
  BY <1>1, <1>3 DEF NeedsUpdate, Shown, Fresh
<1>. QED
  BY <1>2, <1>3

\* Steps that leave the history of event n alone.
LEMMA HistoryStays ==
    ASSUME TypeOK, [Next]_vars, NEW n \in Names, NEW f \in carries'[n],
           ~(n \in inbox' /\ carries[n] = {})
    PROVE  carries'[n] = carries[n] /\ said'[n] = said[n] /\ f \in carries[n]
<1>1. ASSUME NEW m \in Names, NEW P \in SUBSET Files, Enqueue(m, P)
      PROVE  carries'[n] = carries[n] /\ said'[n] = said[n]
  <2>1. /\ carries[m] = {} /\ carries' = [carries EXCEPT ![m] = P]
        /\ inbox' = inbox \cup {m}
        /\ said' = [said EXCEPT ![m] = [g \in Files |-> IF g \in P THEN disk[g] ELSE 0]]
    BY <1>1 DEF Enqueue
  <2>2. n # m
    BY <2>1
  <2>. QED
    BY <2>1, <2>2 DEF TypeOK
<1>. QED
  BY <1>1, Footprint DEF WhoWrites

LEMMA LocalCoveredStep ==
    ASSUME IInv, TypeOK', [Next]_vars
    PROVE  LocalCovered'
<1>1. /\ TypeOK /\ Local /\ Unissued /\ Checkpointed /\ LocalCovered /\ GroupCovered
      /\ NoEventLost /\ Numbered /\ WhoWrites
  BY Footprint DEF IInv
<1>2. SUFFICES ASSUME local', pc' # "restoring", NEW n \in Names,
                      NEW f \in carries'[n] \ excluded',
                      f \notin ledger'.rows, ~(n \in inbox' \ ledger'.receipts)
               PROVE  Shown(n, f)'
  BY DEF LocalCovered, Covered, Shown
<1>3. n \notin inbox' \/ carries[n] # {}
  <2>1. carries[n] = {} => n \notin ledger'.receipts
    <3>1. Unissued'
      BY UnissuedStep
    <3>2. ASSUME carries[n] = {}, n \in ledger'.receipts PROVE FALSE
      <4>1. n \in ledger.receipts \/ Restore \/ \E m \in Names : Ingest(m)
        BY <1>1, <3>2 DEF WhoWrites, WorkerLoss, LoseLocalIndex, EmptyLedger, DeleteReceipt,
                          TypeOK, Ledgers
      <4>2. ~Restore /\ ~ \E m \in Names : Ingest(m)
        BY <1>1, <1>2, <3>1, <3>2 DEF Restore, Ingest, world, Unissued
      <4>. QED
        BY <1>1, <3>2, <4>1, <4>2 DEF Unissued
    <3>. QED
      BY <3>2
  <2>. QED
    BY <1>2, <2>1
<1>4. f \in Files /\ carries'[n] = carries[n] /\ said'[n] = said[n] /\ f \in carries[n] \ excluded
  BY <1>1, <1>2, <1>3, HistoryStays, WorldMoves DEF TypeOK
<1>5. ~WorkerLoss
  BY <1>2 DEF WorkerLoss, LoseLocalIndex
<1>6. CASE Start
  <2>1. /\ catalog' = catalog /\ ledger' = ledger /\ inbox' = inbox /\ disk' = disk
        /\ said' = said /\ (local \/ pointer = 0)
    BY <1>2, <1>6 DEF Start, world
  <2>2. CASE local
    BY <1>1, <1>2, <1>4, <1>6, <2>1, <2>2, Guards DEF LocalCovered, Covered, Shown, Fresh
  <2>3. CASE ~local
    <3>1. catalog = Published /\ ledger = RecoveredLedger
      BY <1>1, <2>1, <2>3, Shapes DEF Local, Numbered, Published, NoSnapshot, RecoveredLedger
    <3>. QED
      BY <1>1, <1>2, <1>4, <2>1, <3>1 DEF NoEventLost, Covered, Shown, Fresh
  <2>. QED
    BY <2>2, <2>3
<1>7. CASE Restore
  <2>1. /\ catalog' = catalog /\ catalog = Published /\ ledger' = RecoveredLedger
        /\ inbox' = inbox /\ disk' = disk /\ said' = said
    BY <1>1, <1>7, Guards DEF Restore, world, index, Local
  <2>. QED
    BY <1>1, <1>2, <1>4, <2>1 DEF NoEventLost, Covered, Shown, Fresh
<1>8. CASE ~Start /\ ~Restore
  <2>1. local /\ pc # "restoring"
    BY <1>1, <1>2, <1>5, <1>8 DEF WhoWrites
  <2>2. SUFFICES Shown(n, f)
    BY <1>4, <1>5, <1>8, ShownStays
  <2>3. Shown(n, f) \/ f \in ledger.rows \/ n \in inbox \ ledger.receipts
    BY <1>1, <1>4, <2>1 DEF LocalCovered, Covered, Shown
  <2>4. ~(n \in inbox \ ledger.receipts)
    <3>1. ASSUME NEW m \in Names, Ingest(m) PROVE n # m
      BY <1>1, <1>2, <1>4, <3>1 DEF Ingest, Enqueued, TypeOK, Ledgers
    <3>2. ASSUME n \in inbox \ ledger.receipts PROVE n \in inbox'
      BY <1>1, <3>2 DEF WhoWrites, Enqueue, RemoveInbox
    <3>3. ASSUME n \in inbox \ ledger.receipts PROVE n \notin ledger'.receipts
      <4>1. ASSUME NEW m \in Names, Ingest(m) PROVE n \notin ledger'.receipts
        BY <1>1, <3>1, <3>3, <4>1 DEF Ingest, Enqueued, TypeOK, Ledgers
      <4>2. ASSUME NEW m \in Names, DeleteReceipt(m) PROVE n \notin ledger'.receipts
        BY <1>1, <3>3, <4>2 DEF DeleteReceipt, TypeOK, Ledgers
      <4>. QED
        BY <1>1, <1>5, <1>8, <3>3, <4>1, <4>2 DEF WhoWrites
    <3>. QED
      BY <1>2, <3>2, <3>3
  <2>5. f \in ledger.rows => Shown(n, f)
    <3>1. SUFFICES ASSUME f \in ledger.rows PROVE Shown(n, f)
      OBVIOUS
    <3>2. CASE AckGroup
      <4>1. f \in group /\ pc = "acking"
        BY <1>1, <1>2, <3>1, <3>2 DEF AckGroup, Acked, TypeOK, Ledgers
      <4>. QED
        BY <1>1, <1>4, <2>4, <4>1 DEF GroupCovered, Attempted, Shown
    <3>3. CASE ApplyBatch \/ ApplyPartOfBatch
      <4>1. PICK B : Classified(B)
        BY <3>3 DEF ApplyBatch, ApplyPartOfBatch
      <4>2. f \in B /\ f \notin ToIndex(B)
        BY <1>1, <1>2, <3>1, <4>1 DEF Classified, Acked, TypeOK, Ledgers
      <4>3. ~NeedsUpdate(f)
        BY <1>4, <4>2 DEF ToIndex
      <4>. QED
        BY <1>4, <4>3, CurrentIsShown
    <3>. QED
      BY <1>1, <1>2, <1>5, <1>8, <3>1, <3>2, <3>3 DEF WhoWrites
  <2>. QED
    BY <2>3, <2>4, <2>5
<1>. QED
  BY <1>6, <1>7, <1>8

LEMMA GroupCoveredStep ==
    ASSUME IInv, TypeOK', [Next]_vars
    PROVE  GroupCovered'
<1>1. TypeOK /\ Unissued /\ Versioned /\ GroupCovered /\ WhoWrites
  BY Footprint DEF IInv
<1>2. pc' = "acking" => left' = {} /\ bad' = {}
  <2>1. CASE GroupCommits
    BY <2>1 DEF GroupCommits
  <2>2. CASE ~GroupCommits /\ pc' = "acking"
    <3>1. pc = "acking"
      BY <1>1, <2>2 DEF WhoWrites
    <3>2. left' = left /\ bad' = bad
      BY <1>1, <2>2, <3>1, Guards DEF WhoWrites, Crash
    <3>. QED
      BY <1>1, <3>1, <3>2 DEF GroupCovered
  <2>. QED
    BY <2>1, <2>2
<1>3. SUFFICES ASSUME pc' \in {"index", "acking"}, NEW n \in Names,
                      NEW f \in (carries'[n] \cap Attempted') \ bad',
                      ~(n \in inbox' \ ledger'.receipts)
               PROVE  Shown(n, f)'
  BY <1>2 DEF GroupCovered, Shown
<1>4. CASE \E G \in SUBSET Files : GroupBegin(G)
  BY <1>3, <1>4 DEF GroupBegin, Attempted
<1>5. CASE ~ \E G \in SUBSET Files : GroupBegin(G)
  <2>1. pc \in {"index", "acking"}
    BY <1>1, <1>3, <1>5, Guards DEF WhoWrites
  <2>2. ~Start /\ ~WorkerLoss /\ ledger'.receipts = ledger.receipts /\ inbox \subseteq inbox'
    BY <1>1, <1>3, <2>1, Guards DEF WhoWrites, Enqueue
  <2>3. f \in Files /\ carries'[n] = carries[n] /\ said'[n] = said[n] /\ f \in carries[n]
    <3>1. ~(n \in inbox' /\ carries[n] = {})
      BY <1>1, <1>3, <2>2 DEF Unissued
    <3>. QED
      BY <1>1, <1>3, <3>1, HistoryStays DEF TypeOK
  <2>4. ASSUME f \in Attempted \ bad PROVE Shown(n, f)'
    <3>1. Shown(n, f)
      BY <1>1, <1>3, <2>1, <2>2, <2>3, <2>4 DEF GroupCovered, Shown
    <3>. QED
      BY <2>2, <2>3, <3>1, ShownStays
  <2>5. ASSUME NEW g \in Files, IndexFile(g) PROVE Shown(n, f)'
    <3>1. CASE f # g
      BY <1>1, <1>3, <2>4, <2>5, <3>1 DEF IndexFile, Attempted
    <3>2. CASE f = g /\ NeedsUpdate(f)
      <4>1. catalog'[f].ver = disk[f] /\ said[n][f] =< disk[f] /\ said[n][f] \in Nat
        BY <1>1, <2>3, <2>5, <3>2, Shapes DEF IndexFile, Indexed, TypeOK, Catalogs, Versioned
      <4>. QED
        BY <1>1, <2>3, <4>1, Shapes DEF Shown, Fresh
    <3>3. CASE f = g /\ ~NeedsUpdate(f)
      BY <2>2, <2>3, <3>3, CurrentIsShown, ShownStays
    <3>. QED
      BY <3>1, <3>2, <3>3
  <2>6. ASSUME NEW g \in Files, IndexFails(g) PROVE Shown(n, f)'
    BY <1>3, <2>4, <2>6 DEF IndexFails, Attempted
  <2>7. CASE GroupCommits
    BY <1>3, <2>4, <2>7 DEF GroupCommits, Attempted
  <2>8. CASE /\ ~GroupCommits
             /\ ~ \E g \in Files : IndexFile(g)
             /\ ~ \E g \in Files : IndexFails(g)
    <3>1. group' = group /\ left' = left /\ bad' = bad
      BY <1>1, <1>3, <1>5, <2>1, <2>8, Guards DEF WhoWrites, Crash
    <3>. QED
      BY <1>3, <2>4, <3>1 DEF Attempted
  <2>. QED
    BY <2>5, <2>6, <2>7, <2>8
<1>. QED
  BY <1>4, <1>5

LEMMA NoEventLostStep ==
    ASSUME IInv, TypeOK', [Next]_vars
    PROVE  NoEventLost'
<1>1. /\ TypeOK /\ Local /\ Unissued /\ Checkpointed /\ LocalCovered /\ Flagged /\ Sealed
      /\ NoEventLost /\ Numbered /\ CleanMeansPublished /\ WhoWrites
  BY Footprint DEF IInv
<1>2. SUFFICES ASSUME NEW n \in Names, NEW f \in carries'[n] \ excluded',
                      f \notin RecoveredLedger'.rows,
                      ~(n \in inbox' \ RecoveredLedger'.receipts)
               PROVE  PublishedShows(n, f)'
  BY DEF NoEventLost, Covered, PublishedShows
<1>3. carries[n] = {} => n \notin RecoveredLedger'.receipts
  <2>1. CASE carries'[n] = {}
    BY <1>2, <2>1
  <2>2. CASE \E P \in SUBSET Files : Enqueue(n, P)
    BY <1>1, <2>2, Shapes DEF Enqueue, publication, RecoveredLedger, Unissued
  <2>3. ASSUME carries[n] = {}, ~ \E P \in SUBSET Files : Enqueue(n, P) PROVE carries'[n] = {}
    BY <1>1, <2>3 DEF WhoWrites, Enqueue, TypeOK
  <2>. QED
    BY <2>1, <2>2, <2>3
<1>4. f \in Files /\ carries'[n] = carries[n] /\ said'[n] = said[n] /\ f \in carries[n] \ excluded
  BY <1>1, <1>2, <1>3, HistoryStays, WorldMoves DEF TypeOK
<1>5. CASE Flip
  <2>1. /\ pc = "staged" /\ pointer' = gen /\ snap' = snap /\ shared' = shared
        /\ inbox' = inbox /\ disk' = disk /\ said' = said
    BY <1>5 DEF Flip, world
  <2>2. Published' = catalog /\ RecoveredLedger' = snap[gen].state
    BY <1>1, <2>1, Shapes DEF Published, RecoveredLedger, Sealed, Numbered
  <2>3. snap[gen].state.rows = ledger.rows /\ snap[gen].state.receipts = ledger.receipts
    BY <1>1, <2>1 DEF Sealed
  <2>4. Shown(n, f) \/ f \in ledger.rows \/ n \in inbox \ ledger.receipts
    BY <1>1, <1>4, <2>1 DEF Local, LocalCovered, Covered, Shown
  <2>. QED
    BY <1>2, <2>1, <2>2, <2>3, <2>4 DEF Shown, PublishedShows, Fresh
<1>6. CASE Checkpoint
  <2>1. /\ pc = "stamp" /\ pointer' = pointer /\ snap' = snap
        /\ inbox' = inbox /\ disk' = disk /\ said' = said
        /\ shared' = [ledger EXCEPT !.stamp = pointer]
    BY <1>6 DEF Checkpoint, world
  <2>2. RecoveredLedger'.rows = ledger.rows /\ RecoveredLedger'.receipts = ledger.receipts
    BY <1>1, <2>1 DEF RecoveredLedger, TypeOK, Ledgers
  <2>3. catalog = Published /\ Published' = Published
    BY <1>1, <2>1 DEF Flagged, Local, CleanMeansPublished, Published
  <2>4. Shown(n, f) \/ f \in ledger.rows \/ n \in inbox \ ledger.receipts
    BY <1>1, <1>4, <2>1 DEF Local, LocalCovered, Covered, Shown
  <2>. QED
    BY <1>2, <2>1, <2>2, <2>3, <2>4 DEF Shown, PublishedShows, Fresh
<1>7. CASE ~Flip /\ ~Checkpoint
  <2>1. RecoveredLedger' = RecoveredLedger
    BY <1>1, <1>7, PublishedStays DEF WhoWrites, RecoveredLedger
  <2>2. PublishedShows(n, f) \/ n \in inbox \ RecoveredLedger.receipts
    BY <1>1, <1>2, <1>4, <2>1 DEF NoEventLost, Covered, PublishedShows
  <2>3. ~(n \in inbox \ RecoveredLedger.receipts)
    <3>1. n \in inbox \ RecoveredLedger.receipts => n \in inbox'
      <4>1. ASSUME NEW m \in Names, RemoveInbox(m)
            PROVE  inbox' = inbox \ {m} /\ m \in RecoveredLedger.receipts
        BY <1>1, <4>1 DEF RemoveInbox, Checkpointed, RecoveredLedger
      <4>. QED
        BY <1>1, <4>1 DEF WhoWrites, Enqueue
    <3>. QED
      BY <1>2, <2>1, <3>1
  <2>. QED
    BY <1>4, <1>7, <2>2, <2>3, PublishedShowsStays
<1>. QED
  BY <1>5, <1>6, <1>7

-----------------------------------------------------------------------------
(* The theorems.                                                           *)

LEMMA InitInvariant == Init => IInv
<1> SUFFICES ASSUME Init PROVE IInv
  OBVIOUS
<1>1. TypeOK
  <2>1. /\ 0 \in Versions /\ 0 \in Generations
        /\ 0 \in 0..MaxCrashes /\ 0 \in 0..MaxFaults
    BY ConstantsAssumption DEF Versions, Generations
  <2>2. [f \in Files |-> 0] \in [Files -> Versions]
    BY <2>1
  <2>. QED
    BY <2>1, <2>2, EmptyTypes DEF Init, TypeOK, Phases
<1>2. snap[0] = NoSnapshot /\ Published = EmptyCatalog /\ shared.stamp = 0
  BY ConstantsAssumption DEF Init, Generations, Published, NoSnapshot, EmptyLedger
<1>3. Versioned
  BY <1>2 DEF Init, Versioned, EmptyCatalog
<1>4. Unissued
  BY DEF Init, Unissued, EmptyLedger, NoSnapshot
<1>5. Local /\ Flagged /\ Sealed /\ Checkpointed /\ LocalCovered /\ GroupCovered
  BY DEF Init, Local, Flagged, Sealed, Checkpointed, LocalCovered, GroupCovered
<1>6. Numbered
  BY <1>2 DEF Init, Numbered
<1>7. NoEventLost /\ CleanMeansPublished /\ PublishedComplete
  BY DEF Init, NoEventLost, Covered, CleanMeansPublished, PublishedComplete
<1>. QED
  BY <1>1, <1>3, <1>4, <1>5, <1>6, <1>7 DEF IInv

LEMMA InvariantStep == IInv /\ [Next]_vars => IInv'
<1> SUFFICES ASSUME IInv, [Next]_vars PROVE IInv'
  OBVIOUS
<1>1. TypeOK'
  BY TypeStep DEF IInv
<1>. QED
  BY <1>1, VersionedStep, UnissuedStep, LocalStep, NumberedStep, FlaggedStep, SealedStep,
     CheckpointedStep, LocalCoveredStep, GroupCoveredStep, NoEventLostStep,
     CleanMeansPublishedStep, PublishedCompleteStep
     DEF IInv

\* The producer's stored state is consistent wherever it may be interrupted.
THEOREM Invariance == Spec => []IInv
  BY InitInvariant, InvariantStep, PTL DEF Spec

\* No event is lost by crashes, failed steps or losses of the worker: what
\* shared storage holds always suffices to publish what every event announced.
\* Spec leaves out the two losses for which this is not so: of a worker that has
\* staged a generation and not yet moved the pointer to it (SpecOrphan), and of a
\* process between the two halves of a restore (SpecRestoreCrash).
THEOREM EventsAreSafe == Spec => []NoEventLost
<1>1. IInv => NoEventLost
  BY DEF IInv
<1>. QED
  BY <1>1, Invariance, PTL

\* current.json always names a complete generation that has not been pruned.
THEOREM PublicationIsSound == Spec => []PublishedComplete
<1>1. IInv => PublishedComplete
  BY DEF IInv
<1>. QED
  BY <1>1, Invariance, PTL

\* A clean ledger never hides unpublished work.
THEOREM CleanHidesNothing == Spec => []CleanMeansPublished
<1>1. IInv => CleanMeansPublished
  BY DEF IInv
<1>. QED
  BY <1>1, Invariance, PTL

\* Readers never see a file go back to an older version.
THEOREM ReadersMoveForward == Spec => PublishedNeverRegresses
<1>1. IInv /\ [Next]_vars => [\A f \in Files : Published'[f].ver >= Published[f].ver]_vars
  <2> SUFFICES ASSUME IInv, [Next]_vars
               PROVE  \A f \in Files : Published'[f].ver >= Published[f].ver
    OBVIOUS
  <2>1. TypeOK /\ Versioned /\ Local /\ Sealed
    BY DEF IInv
  <2>2. CASE Flip
    <3>1. Published' = catalog /\ local
      BY <2>1, <2>2 DEF Flip, Published, Sealed, Local
    <3>. QED
      BY <2>1, <3>1, Shapes DEF Versioned
  <2>3. CASE ~Flip
    BY <2>1, <2>3, PublishedStays, Shapes DEF Published
  <2>. QED
    BY <2>2, <2>3
<1>. QED
  BY <1>1, Invariance, PTL DEF Spec, PublishedNeverRegresses
=============================================================================
