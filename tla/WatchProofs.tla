---------------------------- MODULE WatchProofs ----------------------------
(* Proofs about WatchPublisher, for any number of files, edits, errors and *)
(* deaths of the process.                                                  *)
EXTENDS WatchPublisher, TLAPS

\* The roots are Below one of three names, and every name has its files.
LEMMA BelowFiles == \A r \in Roots : Below(r) \subseteq Files
  BY DEF Roots, Below, Files

\* A fault or a death stays within its bound.
LEMMA FaultTyped == TypeOK /\ Fault => faults' \in 0..MaxFaults /\ crashes' \in 0..MaxCrashes
  BY WatchAssumption DEF TypeOK, Fault

\* Every variable keeps its type.  (index_root_inner, publish_once)
LEMMA WatchTyped == TypeOK /\ [Next]_vars => TypeOK'
<1> SUFFICES ASSUME TypeOK, [Next]_vars PROVE TypeOK'
  OBVIOUS
<1> USE WatchAssumption DEF TypeOK, Versions, Phases, Roots
<1>1. CASE Start
  BY <1>1 DEF Start, CycleStarts, world, budgets, scan, index, publication
<1>2. CASE EventTick
  BY <1>2 DEF EventTick, CycleStarts, budgets, scan, index, publication
<1>3. CASE IntervalTick
  BY <1>3 DEF IntervalTick, CycleStarts, world, budgets, scan, index, publication
<1>4. CASE RootFails
  BY <1>4, FaultTyped DEF RootFails, CycleOver, ScanOver, world, index, publication
<1>5. CASE StartGeneration
  BY <1>5, BelowFiles DEF StartGeneration, world, index, publication, cycle, budgets
<1>6. ASSUME NEW f \in Files, Absent(f) PROVE TypeOK'
  BY <1>6 DEF Absent, Reached, world, publication, cycle, budgets
<1>7. ASSUME NEW f \in Files, Unchanged(f) PROVE TypeOK'
  BY <1>7 DEF Unchanged, Reached, world, publication, cycle, budgets
<1>8. ASSUME NEW f \in Files, IndexFile(f) PROVE TypeOK'
  BY <1>8 DEF IndexFile, Upserted, Reached, world, publication, cycle, budgets
<1>9. ASSUME NEW f \in Files, ReadFails(f) PROVE TypeOK'
  BY <1>9 DEF ReadFails, RecordFailure, Fault, Reached, world, publication, cycle
<1>10. ASSUME NEW f \in Files, RowFails(f) PROVE TypeOK'
  BY <1>10 DEF RowFails, RecordFailure, Upserted, Fault, Reached, world, publication, cycle
<1>11. CASE WalkFails
  BY <1>11 DEF WalkFails, Fault, world, index, publication, cycle
<1>12. CASE Sweep
  BY <1>12, BelowFiles DEF Sweep, world, publication, cycle, budgets
<1>13. CASE ApplySemantic
  BY <1>13 DEF ApplySemantic, SemanticFor, world, publication, scan, cycle, budgets
<1>14. CASE SemanticFails
  BY <1>14, FaultTyped DEF SemanticFails, SemanticFor, CycleOver, ScanOver, world, publication
<1>15. CASE ApplySearch
  BY <1>15 DEF ApplySearch, Lexical, world, publication, scan, cycle, budgets
<1>16. CASE SearchFails
  <2>1. lex' \in [Files -> 0..MaxEdits]
    BY <1>16 DEF SearchFails, Lexical
  <2>2. QED
    BY <1>16, <2>1, FaultTyped DEF SearchFails, CycleOver, ScanOver, world, publication
<1>17. CASE CompleteGeneration
  BY <1>17 DEF CompleteGeneration, Completed, Counted, NextRoot, CycleOver, ScanOver,
               world, publication, budgets
<1>18. CASE Publish
  <2>1. sem' \in [Files -> {"none", "stale", "current"}] /\ pub' \in [Files -> 0..MaxEdits]
    BY <1>18 DEF Publish, Sealed
  <2>2. published' \in BOOLEAN
    BY <1>18 DEF Publish
  <2>3. QED
    BY <1>18, <2>1, <2>2 DEF Publish, CycleOver, ScanOver, world, budgets
<1>19. CASE NothingToPublish
  BY <1>19 DEF NothingToPublish, Sealed, CycleOver, ScanOver, world, publication, budgets
<1>20. CASE SealFails
  BY <1>20 DEF SealFails, CycleOver, ScanOver, world, index, publication, budgets
<1>21. CASE PublishFails
  BY <1>21, FaultTyped DEF PublishFails, Sealed, CycleOver, ScanOver, world, publication
<1>22. CASE Crash
  <2>1. crashes' \in 0..MaxCrashes
    BY <1>22 DEF Crash
  <2>2. QED
    BY <1>22, <2>1 DEF Crash, ScanOver, index, publication
<1>23. ASSUME NEW f \in Files, Edit(f) PROVE TypeOK'
  <2>1. disk' \in [Files -> 0..MaxEdits] /\ edits' \in 0..MaxEdits
    BY <1>23 DEF Edit
  <2>2. event' \in BOOLEAN
    BY <1>23 DEF Edit
  <2>3. QED
    BY <1>23, <2>1, <2>2 DEF Edit, index, publication, scan, cycle, budgets
<1>24. CASE UNCHANGED vars
  BY <1>24 DEF vars, world, index, publication, scan, cycle, budgets
<1>25. QED
  BY <1>1, <1>2, <1>3, <1>4, <1>5, <1>6, <1>7, <1>8, <1>9, <1>10, <1>11, <1>12, <1>13,
     <1>14, <1>15, <1>16, <1>17, <1>18, <1>19, <1>20, <1>21, <1>22, <1>23, <1>24
     DEF Next, Loop

-----------------------------------------------------------------------------
(* The safety invariant.                                                   *)

\* It holds before anything was indexed.
LEMMA ScanInvInit == Init => ScanInv
<1> SUFFICES ASSUME Init PROVE ScanInv
  OBVIOUS
<1>1. NoRow \in [ver : 0..MaxEdits, done : BOOLEAN, gone : BOOLEAN] /\ 0 \in 0..MaxEdits
  BY WatchAssumption DEF NoRow
<1>2. /\ disk \in [Files -> 0..MaxEdits] /\ lex \in [Files -> 0..MaxEdits]
      /\ pub \in [Files -> 0..MaxEdits] /\ sem \in [Files -> {"none", "stale", "current"}]
      /\ row \in [Files -> [ver : 0..MaxEdits, done : BOOLEAN, gone : BOOLEAN]]
  BY <1>1 DEF Init
<1>3. event \in BOOLEAN /\ published \in BOOLEAN /\ failed \in BOOLEAN /\ changed \in BOOLEAN
  BY DEF Init
<1>4. /\ edits \in 0..MaxEdits /\ faults \in 0..MaxFaults /\ crashes \in 0..MaxCrashes
      /\ failures \subseteq Files /\ pc \in Phases /\ scope \in {"local", "all"} /\ root \in Roots
      /\ left \subseteq Files /\ seen \subseteq Files
      /\ documents \subseteq touched /\ touched \subseteq Files /\ swept \subseteq Files
  BY WatchAssumption DEF Init, Phases, Roots
<1>5. TypeOK
  BY <1>2, <1>3, <1>4, Zenon DEF TypeOK, Versions
<1>6. IndexesAgree
  BY DEF Init, IndexesAgree, Visible, NoRow
<1>7. QED
  BY <1>5, <1>6 DEF Init, ScanInv

\* A step that writes no store, and forgets the scan or leaves it alone, keeps
\* the invariant.
LEMMA StoresUntouched ==
  ASSUME ScanInv, TypeOK', UNCHANGED index,
         \/ ScanOver
         \/ /\ UNCHANGED <<touched, documents, swept>>
            /\ pc' \in {"lexical", "complete"} => pc' = pc
            /\ swept # {} => pc' = pc
  PROVE  ScanInv'
  BY DEF ScanInv, IndexesAgree, Visible, index, ScanOver

\* Every step keeps the invariant: rows of this generation stay hidden until
\* both indexes have their documents, through every error and death.
LEMMA ScanInvStep == ScanInv /\ [Next]_vars => ScanInv'
<1> SUFFICES ASSUME ScanInv, [Next]_vars PROVE ScanInv'
  OBVIOUS
<1>0. TypeOK /\ TypeOK'
  BY WatchTyped DEF ScanInv
<1>1. CASE Start \/ EventTick \/ IntervalTick
  <2>1. UNCHANGED index /\ UNCHANGED scan /\ pc' = "next" /\ pc \in {"off", "idle"}
    BY <1>1 DEF Start, EventTick, IntervalTick, CycleStarts
  <2>2. QED
    BY <1>0, <2>1, StoresUntouched DEF scan, ScanInv
<1>2. CASE RootFails \/ SealFails \/ Crash
  BY <1>0, <1>2, StoresUntouched DEF RootFails, SealFails, Crash, CycleOver
<1>3. CASE StartGeneration
  <2>1. UNCHANGED index /\ UNCHANGED <<touched, documents, swept>> /\ pc' = "walk" /\ pc = "next"
    BY <1>3 DEF StartGeneration
  <2>2. QED
    BY <1>0, <2>1, StoresUntouched DEF ScanInv
<1>4. CASE WalkFails
  <2>1. UNCHANGED index /\ UNCHANGED <<touched, documents, swept, pc>>
    BY <1>4 DEF WalkFails
  <2>2. QED
    BY <1>0, <2>1, StoresUntouched
<1>5. CASE UNCHANGED vars \/ \E f \in Files : Edit(f)
  <2>1. UNCHANGED index /\ UNCHANGED <<touched, documents, swept, pc>>
    BY <1>5 DEF Edit, vars, scan
  <2>2. QED
    BY <1>0, <2>1, StoresUntouched
<1>6. ASSUME NEW f \in Files, Absent(f) \/ Unchanged(f) PROVE ScanInv'
  <2>1. UNCHANGED index /\ UNCHANGED <<touched, documents, swept, pc>>
    BY <1>6 DEF Absent, Unchanged, Reached, index
  <2>2. QED
    BY <1>0, <2>1, StoresUntouched
<1>7. ASSUME NEW f \in Files, IndexFile(f) PROVE ScanInv'
  BY <1>0, <1>7 DEF IndexFile, Upserted, Reached, ScanInv, IndexesAgree, Visible, TypeOK
<1>8. ASSUME NEW f \in Files, ReadFails(f) PROVE ScanInv'
  BY <1>0, <1>8 DEF ReadFails, RecordFailure, Reached, ScanInv, IndexesAgree, Visible
<1>9. ASSUME NEW f \in Files, RowFails(f) PROVE ScanInv'
  BY <1>0, <1>9 DEF RowFails, RecordFailure, Upserted, Reached, ScanInv, IndexesAgree,
                    Visible, TypeOK
<1>10. CASE Sweep
  BY <1>0, <1>10 DEF Sweep, ScanInv, IndexesAgree, Visible, TypeOK
<1>11. CASE ApplySemantic
  BY <1>0, <1>11 DEF ApplySemantic, SemanticFor, scan, ScanInv, IndexesAgree, Visible,
                     TypeOK, SemanticFiles
<1>12. CASE SemanticFails
  BY <1>0, <1>12 DEF SemanticFails, SemanticFor, CycleOver, ScanOver, ScanInv,
                     IndexesAgree, Visible, TypeOK, SemanticFiles
<1>13. CASE ApplySearch
  BY <1>0, <1>13 DEF ApplySearch, Lexical, scan, ScanInv, IndexesAgree, Visible, TypeOK
<1>14. CASE SearchFails
  BY <1>0, <1>14 DEF SearchFails, Lexical, CycleOver, ScanOver, ScanInv, IndexesAgree,
                     Visible, TypeOK
<1>15. CASE CompleteGeneration
  <2>1. /\ touched' = {} /\ documents' = {} /\ swept' = {}
        /\ pc' \notin {"lexical", "complete"} /\ pc = "complete"
        /\ UNCHANGED <<lex, sem, failures>> /\ row' = Completed
    BY <1>15 DEF CompleteGeneration, NextRoot, CycleOver, ScanOver
  <2>2. \A f \in Files :
            /\ row'[f].ver = row[f].ver /\ row'[f].gone = row[f].gone
            /\ row'[f].done => row[f].done \/ f \in touched
    BY <1>0, <2>1 DEF Completed, TypeOK
  <2>3. \A f \in touched \ failures :
            lex[f] = row[f].ver /\ (f \in SemanticFiles => sem[f] = "current")
    BY <2>1 DEF ScanInv
  <2>4. ASSUME NEW f \in Files, Visible(f)', f \notin failures'
        PROVE  lex'[f] = row'[f].ver /\ (f \in SemanticFiles => sem'[f] = "current")
    <3>1. row'[f].done /\ ~row'[f].gone
      BY <2>4 DEF Visible
    <3>2. ~row[f].gone /\ (row[f].done \/ f \in touched)
      BY <3>1, <2>2
    <3>3. lex[f] = row[f].ver /\ (f \in SemanticFiles => sem[f] = "current")
      BY <3>2, <2>1, <2>3, <2>4 DEF ScanInv, IndexesAgree, Visible
    <3>4. QED
      BY <3>3, <2>1, <2>2
  <2>5. QED
    BY <1>0, <2>1, <2>4 DEF ScanInv, IndexesAgree, SemanticFiles, Files
<1>16. CASE Publish \/ NothingToPublish \/ PublishFails
  <2>1. CycleOver /\ UNCHANGED <<row, lex, failures>> /\ sem' \in {sem, Sealed}
    BY <1>16 DEF Publish, NothingToPublish, PublishFails
  <2>2. QED
    BY <1>0, <2>1 DEF Sealed, Expected, CycleOver, ScanOver, ScanInv, IndexesAgree, Visible
<1>17. QED
  BY <1>1, <1>2, <1>3, <1>4, <1>5, <1>6, <1>7, <1>8, <1>9, <1>10, <1>11, <1>12, <1>13,
     <1>14, <1>15, <1>16 DEF Next, Loop

\* The inductive invariant holds in every reachable state.
THEOREM ScanInvariance == Spec => []ScanInv
<1>1. Init => ScanInv
  BY ScanInvInit
<1>2. ScanInv /\ [Next]_vars => ScanInv'
  BY ScanInvStep
<1>3. QED
  BY <1>1, <1>2, PTL DEF Spec

\* What a reader of the catalog may see is what both indexes hold, or the file
\* is recorded as failed.  (index_root_inner, complete_generation)
THEOREM IndexesStayTogether == Spec => []IndexesAgree
<1>1. ScanInv => IndexesAgree
  BY DEF ScanInv
<1>2. QED
  BY <1>1, ScanInvariance, PTL

=============================================================================
