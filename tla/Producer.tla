------------------------------ MODULE Producer ------------------------------
(***************************************************************************)
(* The resumable producer (`awi produce`, src/src/producer.rs) with its    *)
(* SQLite change ledger (src/src/change_ledger.rs), its mutable catalog    *)
(* and the shared publication it writes (src/src/snapshot.rs).             *)
(*                                                                         *)
(* File producers drop events into an inbox on shared storage.  One        *)
(* single-threaded loop turns events, watcher hints and scans into ledger  *)
(* rows, indexes the rows into the local catalog, publishes the catalog as *)
(* an immutable generation, and only then removes the inbox files.  The    *)
(* process may crash between any two durable writes, and the worker with   *)
(* its whole local index may be lost and replaced.                         *)
(*                                                                         *)
(* Data is abstracted: a file is a version number, and the versions in     *)
(* Absent stand for "no file at this path"; a ledger row is its path and   *)
(* whether its retry time has passed.  Revision and priority of a row are  *)
(* left out: the loop is the only client of the ledger and enqueues        *)
(* nothing between batch() and ack(), so an ack never meets a newer        *)
(* revision, and the order of a batch does not matter to what is lost.     *)
(***************************************************************************)
EXTENDS Naturals, FiniteSets

CONSTANTS
    Files,        \* paths below the configured roots
    Memory,       \* files that agent-memory discovery indexes without the ledger
    Excludable,   \* files an ignore rule may come to cover while the loop runs
    Names,        \* inbox event names (unique, never reused)
    Rejected,     \* events that ingest refuses: over 4 MiB, or not valid JSON
    Absent,       \* versions that mean "no file at this path"
    BatchFiles,   \* --batch-files
    Retain,       \* --retain
    MaxVer,       \* bound: edits per file
    MaxGen,       \* bound: generation numbers
    MaxCrashes,   \* bound: process crashes and worker losses
    MaxFaults     \* bound: I/O, sidecar and commit errors and expired budgets

ASSUME ConstantsAssumption ==
    /\ Memory \subseteq Files
    /\ Excludable \subseteq Files
    /\ Rejected \subseteq Names
    /\ Absent \subseteq Nat /\ 0 \in Absent
    /\ BatchFiles \in Nat \ {0}
    /\ Retain \in Nat
    /\ MaxVer \in Nat /\ MaxGen \in Nat
    /\ MaxCrashes \in Nat /\ MaxFaults \in Nat

VARIABLES
    \* the world around the producer
    disk,       \* disk[f]: version of f on the file system
    excluded,   \* files that allowed() rejects now
    carries,    \* carries[n]: paths of event n, {} before it is issued
    said,       \* said[n][f]: version of f when event n was issued (history)
    inbox,      \* events whose file is in the inbox directory
    \* the worker's local index directory
    local,      \* catalog.sqlite3 exists
    catalog,    \* catalog[f]: indexed version, and generation_completed
    gen,        \* newest generation id of the catalog
    ledger,     \* producer.sqlite3
    \* the shared publication directory
    dirs,       \* generation directories present
    snap,       \* snap[g]: catalog and producer-state.sqlite3 inside directory g
    pointer,    \* generation named by current.json, 0 when there is none
    shared,     \* producer-checkpoint.sqlite3
    \* the process
    pc,         \* where the loop is
    files,      \* classified rows of the batch waiting for their change group
    group,      \* the change group being indexed or acknowledged
    left,       \* its paths (or the memory sources) not attempted yet
    bad,        \* its paths that failed
    torn,       \* of these, the ones whose catalog row was written all the same
    wasDirty,   \* discover(): the dirty flag before the refresh
    changed,    \* discover(): the refresh indexed or deleted something
    crashes, faults   \* spent budgets

world == <<disk, excluded, carries, said, inbox>>
index == <<local, catalog, gen>>
publication == <<dirs, snap, pointer, shared>>
batch == <<files, group, left, bad, torn>>
refresh == <<wasDirty, changed>>
vars == <<world, index, ledger, publication, pc, batch, refresh, crashes, faults>>

-----------------------------------------------------------------------------
(* Values.                                                                 *)

Versions == 0..MaxVer
Generations == 0..MaxGen

Catalogs == [Files -> [ver : Versions, done : BOOLEAN]]
EmptyCatalog == [f \in Files |-> [ver |-> 0, done |-> TRUE]]

Ledgers == [rows : SUBSET Files,      \* paths in the changes table
            due : SUBSET Files,       \* of these, retry_ms has passed
            receipts : SUBSET Names,  \* events already ingested
            dirty : BOOLEAN,          \* state.dirty
            stamp : Generations]      \* state.snapshot_pointer
EmptyLedger ==
    [rows |-> {}, due |-> {}, receipts |-> {}, dirty |-> FALSE, stamp |-> 0]

Snapshots == [content : Catalogs, state : Ledgers]
NoSnapshot == [content |-> EmptyCatalog, state |-> EmptyLedger]

Phases == {"down", "restoring", "events", "gather", "memory", "scan", "groups",
           "index", "acking", "tick", "sealed", "staged", "flipped", "stamp", "drain"}

TypeOK ==
    /\ disk \in [Files -> Versions]
    /\ excluded \in SUBSET Files
    /\ carries \in [Names -> SUBSET Files]
    /\ said \in [Names -> [Files -> Versions]]
    /\ inbox \in SUBSET Names
    /\ local \in BOOLEAN
    /\ catalog \in Catalogs
    /\ gen \in Generations
    /\ ledger \in Ledgers
    /\ dirs \in SUBSET Generations
    /\ snap \in [Generations -> Snapshots]
    /\ pointer \in Generations
    /\ shared \in Ledgers
    /\ pc \in Phases
    /\ files \in SUBSET Files
    /\ group \in SUBSET Files
    /\ left \in SUBSET Files
    /\ bad \in SUBSET Files
    /\ torn \in SUBSET Files
    /\ wasDirty \in BOOLEAN
    /\ changed \in BOOLEAN
    /\ crashes \in 0..MaxCrashes
    /\ faults \in 0..MaxFaults

Init ==
    /\ disk = [f \in Files |-> 0]
    /\ excluded = {}
    /\ carries = [n \in Names |-> {}]
    /\ said = [n \in Names |-> [f \in Files |-> 0]]
    /\ inbox = {}
    /\ local = FALSE
    /\ catalog = EmptyCatalog
    /\ gen = 0
    /\ ledger = EmptyLedger
    /\ dirs = {}
    /\ snap = [g \in Generations |-> NoSnapshot]
    /\ pointer = 0
    /\ shared = EmptyLedger
    /\ pc = "down"
    /\ files = {} /\ group = {} /\ left = {} /\ bad = {} /\ torn = {}
    /\ wasDirty = FALSE /\ changed = FALSE
    /\ crashes = 0 /\ faults = 0

-----------------------------------------------------------------------------
(* Decisions of the code, each used by the actions below.                  *)

\* Mutant: an interrupted row is never redone.
IgnoresInterrupted(f) == catalog[f].ver # disk[f]

\* needs_update: the file on disk differs from its completed catalog row, or
\* the row is left over from an interrupted generation.
NeedsUpdate(f) ==
    IF disk[f] \in Absent
    THEN catalog[f].ver \notin Absent
    ELSE ~catalog[f].done \/ catalog[f].ver # disk[f]

\* What indexing f leaves in the catalog before its generation completes: a
\* deletion is committed at once, an upsert starts incomplete.
Indexed(f) == [ver |-> disk[f], done |-> disk[f] \in Absent]

\* enqueue_priority for every path in P.
Enqueued(l, P) == [l EXCEPT !.rows = @ \cup P, !.due = @ \cup P]

Acked(l, P) == [l EXCEPT !.rows = @ \ P, !.due = @ \ P]

\* retry: the rows stay, retry_ms moves into the future.
Deferred(l, P) == [l EXCEPT !.due = @ \ P]

Unseen == inbox \ ledger.receipts

\* batch(): as many of the due rows as --batch-files allows.
Batches ==
    {B \in SUBSET ledger.due :
        /\ Cardinality(B) =< BatchFiles
        /\ Cardinality(B) < BatchFiles => B = ledger.due}

\* The rows apply_batch indexes, every removed path among them; it acknowledges
\* the other rows of a batch.
ToIndex(B) ==
    {f \in B : f \notin excluded /\ (disk[f] \in Absent \/ NeedsUpdate(f))}

\* Watcher hints, memory discovery, scan and apply_batch, in this order.
Gathering == pc \in {"gather", "scan"}

\* Mutant: the flag an earlier pass raised is forgotten.
ChangedOnly == changed

\* The flag discover() leaves behind when no source failed.
DirtyAfterRefresh == wasDirty \/ changed

\* Paths the change group has attempted.
Attempted == group \ left

\* Mutant: publication does not look for interrupted rows.
AlwaysComplete == TRUE

\* ensure_complete_files: no live row of an interrupted generation.
CatalogComplete == \A f \in Files : catalog[f].ver \in Absent \/ catalog[f].done

\* Mutant: only the first publication builds a snapshot.
FirstPublication == pointer = 0

\* publish() builds a snapshot only for unpublished work.
MustPublish == ledger.dirty \/ pointer = 0

\* A generation directory is never rebuilt: the one that exists is kept.
StagedSnapshot ==
    IF gen \in dirs THEN snap[gen] ELSE [content |-> catalog, state |-> ledger]

\* The standalone checkpoint if it was written for exactly the current
\* pointer, otherwise the state sealed inside the snapshot.
RecoveredLedger ==
    IF shared.stamp = pointer THEN shared ELSE snap[pointer].state

\* Mutant: the oldest generations are kept.
KeptOldest == {g \in dirs : Cardinality({h \in dirs : h < g}) < Retain}

\* prune_generations: the newest Retain (at least one) and the active one stay.
Kept == {g \in dirs : \/ g = pointer
                      \/ Cardinality({h \in dirs : h > g}) < Retain
                      \/ \A h \in dirs : h =< g}

-----------------------------------------------------------------------------
(* Budgets and frames.                                                     *)

Fault == faults < MaxFaults /\ faults' = faults + 1 /\ UNCHANGED crashes
Died == crashes < MaxCrashes /\ crashes' = crashes + 1 /\ UNCHANGED faults
NoFault == UNCHANGED <<crashes, faults>>

\* The loop goes from one phase to the next and changes no stored state.
Goto(from, to) ==
    /\ pc = from
    /\ pc' = to
    /\ UNCHANGED <<world, index, ledger, publication, batch, refresh>>

\* What the process held in memory is gone.
Forget ==
    /\ files' = {} /\ group' = {} /\ left' = {} /\ bad' = {} /\ torn' = {}
    /\ wasDirty' = FALSE /\ changed' = FALSE

-----------------------------------------------------------------------------
(* The world.                                                              *)

\* A path is created, written or removed.
Edit(f) ==
    /\ disk[f] < MaxVer
    /\ disk' = [disk EXCEPT ![f] = @ + 1]
    /\ UNCHANGED <<excluded, carries, said, inbox>>
    /\ UNCHANGED <<index, ledger, publication, pc, batch, refresh>>
    /\ NoFault

\* An ignore rule comes to cover f.
Exclude(f) ==
    /\ f \in Excludable \ excluded
    /\ excluded' = excluded \cup {f}
    /\ UNCHANGED <<disk, carries, said, inbox>>
    /\ UNCHANGED <<index, ledger, publication, pc, batch, refresh>>
    /\ NoFault

\* `awi enqueue`: one JSON file, written aside and renamed into the inbox.
Enqueue(n, P) ==
    /\ carries[n] = {}
    /\ P # {}
    /\ carries' = [carries EXCEPT ![n] = P]
    /\ said' = [said EXCEPT ![n] = [f \in Files |-> IF f \in P THEN disk[f] ELSE 0]]
    /\ inbox' = inbox \cup {n}
    /\ UNCHANGED <<disk, excluded>>
    /\ UNCHANGED <<index, ledger, publication, pc, batch, refresh>>
    /\ NoFault

\* The retry time of a deferred row passes.
BackoffElapses(f) ==
    /\ f \in ledger.rows \ ledger.due
    /\ ledger' = [ledger EXCEPT !.due = @ \cup {f}]
    /\ UNCHANGED <<world, index, publication, pc, batch, refresh>>
    /\ NoFault

-----------------------------------------------------------------------------
(* Starting, crashing and losing the worker.                               *)

\* run() takes both leases, then bootstrap(): a catalog that exists is kept; a
\* new worker starts empty, or from the snapshot current.json names.
Start ==
    /\ pc = "down"
    /\ local' = TRUE
    /\ IF local \/ pointer = 0
       THEN pc' = "events" /\ UNCHANGED <<catalog, gen>>
       ELSE /\ pc' = "restoring"
            /\ catalog' = snap[pointer].content
            /\ gen' = pointer
    /\ UNCHANGED <<world, ledger, publication, batch, refresh>>
    /\ NoFault

\* bootstrap() copies the producer state next to the renamed index.
Restore ==
    /\ pc = "restoring"
    /\ ledger' = RecoveredLedger
    /\ pc' = "events"
    /\ UNCHANGED <<world, index, publication, batch, refresh>>
    /\ NoFault

\* The process dies between two durable writes; files on both volumes stay.
Crash ==
    /\ pc \notin {"down", "restoring"}
    /\ Died
    /\ pc' = "down"
    /\ Forget
    /\ UNCHANGED <<world, index, ledger, publication>>

LoseLocalIndex ==
    /\ local
    /\ Died
    /\ pc' = "down"
    /\ local' = FALSE
    /\ catalog' = EmptyCatalog
    /\ gen' = 0
    /\ ledger' = EmptyLedger
    /\ Forget
    /\ UNCHANGED <<world, publication>>

\* The worker is lost with its local index while no generation directory
\* newer than current.json is left behind ...
WorkerLoss == (\A g \in dirs : g =< pointer) /\ LoseLocalIndex

\* ... or while one is: its pointer flip failed or was never reached.
WorkerLossLeavingOrphan == (\E g \in dirs : g > pointer) /\ LoseLocalIndex

\* The process dies inside bootstrap(), after the index was renamed into place
\* and before the newest producer state was copied beside it.
CrashDuringRestore ==
    /\ pc = "restoring"
    /\ Died
    /\ ledger' \in {EmptyLedger, snap[pointer].state}
    /\ pc' = "down"
    /\ UNCHANGED <<world, index, publication, batch, refresh>>

-----------------------------------------------------------------------------
(* Gathering work: inbox, watcher hints, scans and memory discovery.       *)

\* ingest: rows and receipt commit in one transaction.
Ingest(n) ==
    /\ pc = "events"
    /\ n \in Unseen \ Rejected
    /\ ledger' = [Enqueued(ledger, carries[n]) EXCEPT !.receipts = @ \cup {n}]
    /\ UNCHANGED <<world, index, publication, pc, batch, refresh>>
    /\ NoFault

\* An event that ingest rejects ends the whole pass.
IngestBails == Unseen \cap Rejected # {} /\ Goto("events", "gather") /\ NoFault

IngestDone == Unseen = {} /\ Goto("events", "gather") /\ NoFault

\* A watcher hint names f, or scan_batch reaches it in a directory listing or a
\* catalog page.  A hint for a file the catalog holds would only be acked.
Discover(f) ==
    /\ Gathering
    /\ f \notin excluded
    /\ NeedsUpdate(f)
    /\ f \notin ledger.due
    /\ ledger' = Enqueued(ledger, {f})
    /\ UNCHANGED <<world, index, publication, pc, batch, refresh>>
    /\ NoFault

\* discover(): the dirty flag is raised before the first index write.
MemoryBegin ==
    /\ pc = "gather"
    /\ Memory # {}
    /\ pc' = "memory"
    /\ wasDirty' = ledger.dirty
    /\ left' = Memory
    /\ ledger' = [ledger EXCEPT !.dirty = TRUE]
    /\ UNCHANGED <<world, index, publication, files, group, bad, torn, changed>>
    /\ NoFault

\* One memory source is reconciled in a generation of its own (the number a
\* generation without changes takes is left out).
MemoryIndex(f) ==
    /\ pc = "memory"
    /\ f \in left
    /\ left' = left \ {f}
    /\ IF NeedsUpdate(f)
       THEN /\ gen < MaxGen
            /\ gen' = gen + 1
            /\ catalog' = [catalog EXCEPT ![f] = [ver |-> disk[f], done |-> TRUE]]
            /\ changed' = TRUE
       ELSE UNCHANGED <<gen, catalog, changed>>
    /\ UNCHANGED <<world, local, ledger, publication, pc, files, group, bad, torn, wasDirty>>
    /\ NoFault

\* A source fails: its rows may be written, its generation is not completed,
\* and discover() returns with the dirty flag still raised.
MemoryFails(f) ==
    /\ pc = "memory"
    /\ f \in left
    /\ Fault
    /\ gen < MaxGen
    /\ gen' = gen + 1
    /\ catalog' \in {catalog, [catalog EXCEPT ![f] = Indexed(f)]}
    /\ pc' = "scan"
    /\ Forget
    /\ UNCHANGED <<world, local, ledger, publication>>

\* The flag goes down again only if it was down and nothing changed.
MemoryEnd ==
    /\ pc = "memory"
    /\ left = {}
    /\ ledger' = [ledger EXCEPT !.dirty = DirtyAfterRefresh]
    /\ pc' = "scan"
    /\ Forget
    /\ UNCHANGED <<world, index, publication>>
    /\ NoFault

-----------------------------------------------------------------------------
(* apply_batch and apply_change_group.                                     *)

Classified(B) ==
    /\ Gathering
    /\ files' = ToIndex(B)
    /\ ledger' = Acked(ledger, B \ ToIndex(B))
    /\ pc' = "groups"
    /\ UNCHANGED <<world, index, publication, group, left, bad, torn, refresh>>

\* Rows are classified one by one; each ack is durable by itself, and a crash
\* between two of them leaves what a batch cut by its budget leaves.
ApplyBatch == NoFault /\ \E B \in Batches : Classified(B)

\* The batch budget is spent after the first rows were classified.
ApplyPartOfBatch ==
    Fault /\ \E B \in Batches : \E C \in (SUBSET B) \ {{}, B} : Classified(C)

\* The stat of f fails other than with ENOENT.
ClassifyFails(f) ==
    /\ Gathering
    /\ f \in ledger.due
    /\ Fault
    /\ ledger' = Deferred(ledger, {f})
    /\ UNCHANGED <<world, index, publication, pc, batch, refresh>>

\* apply_change_group: the dirty flag is raised before either index is written,
\* then notify_paths_budgeted starts a generation.  Explicit events and scanned
\* files of a batch are two groups.
GroupBegin(G) ==
    /\ pc = "groups"
    /\ G # {} /\ G \subseteq files
    /\ gen < MaxGen
    /\ gen' = gen + 1
    /\ ledger' = [ledger EXCEPT !.dirty = TRUE]
    /\ group' = G
    /\ left' = G
    /\ files' = files \ G
    /\ pc' = "index"
    /\ UNCHANGED <<world, local, catalog, publication, bad, torn, refresh>>
    /\ NoFault

GroupsDone == files = {} /\ Goto("groups", "tick") /\ NoFault

\* notify_root_inner attempts one path of the group.
IndexFile(f) ==
    /\ pc = "index"
    /\ f \in left
    /\ left' = left \ {f}
    /\ catalog' = IF NeedsUpdate(f) THEN [catalog EXCEPT ![f] = Indexed(f)] ELSE catalog
    /\ UNCHANGED <<world, local, gen, ledger, publication, pc, files, group, bad, torn, refresh>>
    /\ NoFault

\* Reading or parsing f fails, or what is written after its row does: the failure
\* is recorded and the loop goes on.  Metadata of an agent file that cannot be
\* parsed counts as a failure too, but the file is indexed.
IndexFails(f) ==
    /\ pc = "index"
    /\ f \in left
    /\ Fault
    /\ left' = left \ {f}
    /\ bad' = bad \cup {f}
    /\ \/ UNCHANGED <<catalog, torn>>
       \/ /\ NeedsUpdate(f) /\ disk[f] \notin Absent
          /\ catalog' = [catalog EXCEPT ![f] = Indexed(f)]
          /\ torn' = torn \cup {f}
    /\ UNCHANGED <<world, local, gen, ledger, publication, pc, files, group, refresh>>

\* complete_generation: the rows this generation wrote become visible, those of
\* failed paths among them.
Completed == [f \in Files |-> IF f \in (Attempted \ bad) \cup torn
                              THEN [catalog[f] EXCEPT !.done = TRUE]
                              ELSE catalog[f]]

\* All paths were attempted, or the budget is spent.
GroupCommits ==
    /\ pc = "index"
    /\ bad = {}
    /\ IF left = {} THEN NoFault ELSE Fault
    /\ catalog' = Completed
    /\ group' = Attempted
    /\ left' = {}
    /\ pc' = "acking"
    /\ UNCHANGED <<world, local, gen, ledger, publication, files, bad, torn, refresh>>

\* A path failed: the generation completes for the others, but the whole group
\* is retried and the second group is not reached.
GroupCommitsWithFailures ==
    /\ pc = "index"
    /\ bad # {}
    /\ IF left = {} THEN NoFault ELSE Fault
    /\ catalog' = Completed
    /\ ledger' = Deferred(ledger, group)
    /\ pc' = "tick"
    /\ Forget
    /\ UNCHANGED <<world, local, gen, publication>>

\* The semantic or text index rejects the changes: rows already written stay
\* incomplete, nothing is acknowledged.
GroupFails ==
    /\ pc = "index"
    /\ Fault
    /\ pc' = "tick"
    /\ ledger' = Deferred(ledger, group)
    /\ Forget
    /\ UNCHANGED <<world, index, publication>>

AckGroup ==
    /\ pc = "acking"
    /\ ledger' = Acked(ledger, group)
    /\ group' = {}
    /\ pc' = "groups"
    /\ UNCHANGED <<world, index, publication, files, left, bad, torn, refresh>>
    /\ NoFault

-----------------------------------------------------------------------------
(* publish().                                                              *)

\* The publication interval has not passed.
Sleep == Goto("tick", "events") /\ NoFault

\* prepare_checkpoint_generation opens a fresh completed generation, and the
\* ledger is saved beside the catalog.
Seal ==
    /\ pc = "tick"
    /\ MustPublish
    /\ CatalogComplete
    /\ gen < MaxGen
    /\ gen' = gen + 1
    /\ pc' = "sealed"
    /\ UNCHANGED <<world, local, catalog, ledger, publication, batch, refresh>>
    /\ NoFault

SealRefused == MustPublish /\ ~CatalogComplete /\ Goto("tick", "events") /\ NoFault

\* snapshot::publish up to the rename of the staging directory.
Stage ==
    /\ pc = "sealed"
    /\ pc' = "staged"
    /\ dirs' = dirs \cup {gen}
    /\ snap' = [snap EXCEPT ![gen] = StagedSnapshot]
    /\ UNCHANGED <<world, index, ledger, pointer, shared, batch, refresh>>
    /\ NoFault

\* publish_pointer: current.json is replaced atomically.
Flip ==
    /\ pc = "staged"
    /\ pc' = "flipped"
    /\ pointer' = gen
    /\ UNCHANGED <<world, index, ledger, dirs, snap, shared, batch, refresh>>
    /\ NoFault

\* The flag goes down, then old generations are pruned.
ClearDirty ==
    /\ pc = "flipped"
    /\ pc' = "stamp"
    /\ ledger' = [ledger EXCEPT !.dirty = FALSE]
    /\ dirs' = Kept
    /\ snap' = [g \in Generations |-> IF g \in Kept THEN snap[g] ELSE NoSnapshot]
    /\ UNCHANGED <<world, index, pointer, shared, batch, refresh>>
    /\ NoFault

NothingToPublish == ~MustPublish /\ Goto("tick", "stamp") /\ NoFault

\* The ledger is stamped with the pointer, vacuumed into a local file and
\* renamed onto the shared checkpoint.
Checkpoint ==
    /\ pc = "stamp"
    /\ pc' = "drain"
    /\ ledger' = [ledger EXCEPT !.stamp = pointer]
    /\ shared' = [ledger EXCEPT !.stamp = pointer]
    /\ UNCHANGED <<world, index, dirs, snap, pointer, batch, refresh>>
    /\ NoFault

\* For each receipt: first the inbox file, then the receipt.
RemoveInbox(n) ==
    /\ pc = "drain"
    /\ n \in ledger.receipts \cap inbox
    /\ inbox' = inbox \ {n}
    /\ UNCHANGED <<disk, excluded, carries, said>>
    /\ UNCHANGED <<index, ledger, publication, pc, batch, refresh>>
    /\ NoFault

DeleteReceipt(n) ==
    /\ pc = "drain"
    /\ n \in ledger.receipts \ inbox
    /\ ledger' = [ledger EXCEPT !.receipts = @ \ {n}]
    /\ UNCHANGED <<world, index, publication, pc, batch, refresh>>
    /\ NoFault

DrainDone == ledger.receipts = {} /\ Goto("drain", "events") /\ NoFault

\* A step of publish() fails: the error is logged and the loop goes on.
PublishFails ==
    /\ \E p \in {"sealed", "staged", "flipped", "stamp", "drain"} : Goto(p, "events")
    /\ Fault

-----------------------------------------------------------------------------
(* Specifications.                                                         *)

Loop ==   \* what the running (or restarted) process does by itself
    \/ Start \/ Restore
    \/ \E n \in Names : Ingest(n)
    \/ IngestBails \/ IngestDone
    \/ \E f \in Files : Discover(f)
    \/ MemoryBegin
    \/ \E f \in Files : MemoryIndex(f)
    \/ MemoryEnd
    \/ ApplyBatch
    \/ \E G \in SUBSET Files : GroupBegin(G)
    \/ GroupsDone
    \/ \E f \in Files : IndexFile(f)
    \/ GroupCommits \/ GroupCommitsWithFailures
    \/ AckGroup
    \/ Sleep \/ Seal \/ SealRefused \/ NothingToPublish
    \/ Stage \/ Flip \/ ClearDirty \/ Checkpoint
    \/ \E n \in Names : RemoveInbox(n)
    \/ \E n \in Names : DeleteReceipt(n)
    \/ DrainDone

Environment ==
    \/ \E f \in Files : Edit(f)
    \/ \E f \in Files : Exclude(f)
    \/ \E n \in Names, P \in SUBSET Files : Enqueue(n, P)
    \/ \E f \in Files : BackoffElapses(f)

Failures ==
    \/ Crash \/ WorkerLoss
    \/ \E f \in Files : MemoryFails(f)
    \/ \E f \in Files : ClassifyFails(f)
    \/ ApplyPartOfBatch
    \/ \E f \in Files : IndexFails(f)
    \/ GroupFails \/ PublishFails

Next == Loop \/ Environment \/ Failures

Spec == Init /\ [][Next]_vars

\* The two losses Spec leaves out: NoEventLost holds for neither.
SpecRestoreCrash == Init /\ [][Next \/ CrashDuringRestore]_vars
SpecOrphan == Init /\ [][Next \/ WorkerLossLeavingOrphan]_vars

\* The process is restarted when it is down and its loop never blocks.  Timers
\* do pass: publication, memory discovery and each retry come due again and
\* again; the periodic scan comes back to every path.
Fairness ==
    /\ WF_vars(Loop)
    /\ SF_vars(Seal \/ NothingToPublish)
    /\ SF_vars(MemoryBegin)
    /\ \A f \in Files : WF_vars(BackoffElapses(f)) /\ SF_vars(Discover(f))

LiveSpec == Spec /\ Fairness

-----------------------------------------------------------------------------
(* Properties.                                                             *)

Published == snap[pointer].content

\* Version p shows at least what f was at version a: it is as new, or both are
\* "no such file" with respect to a state f has had since.
Fresh(f, p, a) ==
    \/ p >= a
    \/ p \in Absent /\ \E v \in a..disk[f] : v \in Absent

\* Every path of every issued event is shown by the catalog content c, or
\* queued in the ledger l, or its event is still to be ingested by l.
Covered(c, l) ==
    \A n \in Names : \A f \in carries[n] \ excluded :
        \/ Fresh(f, c[f].ver, said[n][f])
        \/ f \in l.rows
        \/ n \in inbox \ l.receipts

\* No event is lost: if the worker and its local index vanished now, a
\* replacement that restores from shared storage would still publish or already
\* shows every change an event announced.  (run, bootstrap, ingest and the
\* order of writes in publish: producer.rs)
NoEventLost == Covered(Published, RecoveredLedger)

\* While the dirty flag is down the catalog is exactly what is published, so
\* skipping the snapshot loses nothing.  (publish, apply_change_group, discover)
CleanMeansPublished ==
    (local /\ pc # "restoring" /\ ~ledger.dirty) => catalog = Published

\* current.json always names a directory that is still there and holds no row
\* of an interrupted generation.  (ensure_complete_files, prune_generations)
PublishedComplete ==
    pointer # 0 =>
        /\ pointer \in dirs
        /\ \A f \in Files : Published[f].ver \in Absent \/ Published[f].done

\* No step makes readers see an older version of a file than before, through
\* crashes and replaced workers.  (bootstrap, publish)
PublishedNeverRegresses ==
    [][\A f \in Files : Published'[f].ver >= Published[f].ver]_vars

\* Every event ingest accepts is eventually published and its file removed from
\* the inbox.
EventsDelivered ==
    \A n \in Names \ Rejected :
        n \in inbox ~> /\ n \notin inbox
                       /\ \A f \in carries[n] \ excluded :
                            Fresh(f, Published[f].ver, said[n][f])

\* Once the world stops changing, readers end up with its state, whether or not
\* events announced the changes.
Converges ==
    \A f \in Files : <>[](f \in excluded \/ Fresh(f, Published[f].ver, disk[f]))

\* A row an interrupted or failed generation left behind is redone.
InterruptedRowsRedone ==
    \A f \in Files : ~catalog[f].done ~> (~local \/ catalog[f].done)

-----------------------------------------------------------------------------
(* The inductive invariant behind the safety properties.                   *)

\* Versions move forward: disk, then catalog, then what is published.
Versioned ==
    /\ \A n \in Names : \A f \in Files : said[n][f] =< disk[f]
    /\ \A f \in Files : Published[f].ver =< disk[f] /\ catalog[f].ver =< disk[f]
    /\ local => \A f \in Files : Published[f].ver =< catalog[f].ver

\* An event that was not issued yet is not known anywhere.
Unissued ==
    \A n \in Names : carries[n] = {} =>
        /\ n \notin inbox /\ n \notin ledger.receipts /\ n \notin shared.receipts
        /\ \A g \in Generations : n \notin snap[g].state.receipts

\* A worker without a local index holds nothing; one that is up has it.
Local ==
    /\ ~local => /\ pc = "down" /\ catalog = EmptyCatalog
                 /\ ledger = EmptyLedger /\ gen = 0
    /\ pc = "restoring" => pointer # 0 /\ gen = pointer /\ catalog = Published

\* Generation numbers: directories never outrun the catalog that makes them.
Numbered ==
    /\ snap[0] = NoSnapshot
    /\ shared.stamp =< pointer /\ (shared.stamp = 0 => shared = EmptyLedger)
    /\ local => pointer =< gen
    /\ \A g \in dirs : g # 0 /\ g =< (IF local THEN gen ELSE pointer)
    /\ pc = "sealed" => pointer < gen /\ gen \notin dirs
    /\ pc = "staged" => pointer < gen /\ gen \in dirs
    /\ pc = "flipped" => pointer = gen /\ gen # 0

\* The dirty flag is up while the catalog is being written and down after the
\* catalog was published.
Flagged ==
    /\ pc \in {"memory", "index"} => ledger.dirty
    /\ (pc = "memory" /\ ~wasDirty /\ ~changed) => catalog = Published
    /\ pc \in {"stamp", "drain"} => ~ledger.dirty /\ pointer # 0

\* What is being published is the complete local state.
Sealed ==
    /\ pc \in {"sealed", "staged", "flipped"} => CatalogComplete
    /\ pc \in {"staged", "flipped"} =>
           /\ snap[gen].content = catalog
           /\ snap[gen].state.rows = ledger.rows
           /\ snap[gen].state.receipts = ledger.receipts

\* Inbox files go away only for receipts the shared checkpoint holds.
Checkpointed ==
    pc = "drain" => shared.stamp = pointer /\ ledger.receipts \subseteq shared.receipts

\* What the local ledger may forget, the local catalog holds.
LocalCovered == (local /\ pc # "restoring") => Covered(catalog, ledger)

\* The paths a group is about to acknowledge are indexed, for every event that
\* is not in the inbox waiting for ingest.
GroupCovered ==
    /\ pc \in {"index", "acking"} =>
           \A n \in Names : \A f \in (carries[n] \cap Attempted) \ bad :
               Fresh(f, catalog[f].ver, said[n][f]) \/ n \in inbox \ ledger.receipts
    /\ pc = "acking" => left = {} /\ bad = {}

\* The inductive invariant: the producer's stored state is consistent at every
\* point at which the process or the worker may vanish.
IInv ==
    /\ TypeOK /\ Versioned /\ Unissued /\ Local /\ Numbered /\ Flagged /\ Sealed
    /\ Checkpointed /\ LocalCovered /\ GroupCovered
    /\ NoEventLost /\ CleanMeansPublished /\ PublishedComplete

=============================================================================
