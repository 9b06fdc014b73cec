--------------------------- MODULE WatchPublisher ---------------------------
(***************************************************************************)
(* The publisher behind `awi watch` (src/src/publisher.rs) and the scan it *)
(* runs, index_root (src/src/workspace.rs): a cycle reconciles the         *)
(* registered memory files, the local roots and, on the periodic tick, the *)
(* remote roots with the disk, and publishes a snapshot if it counted any  *)
(* change.  A scan writes the catalog row by row, then the semantic index, *)
(* then the lexical one, and only then marks the rows it wrote as          *)
(* completed; it may fail, or the process may die, between any two of      *)
(* these.                                                                  *)
(*                                                                         *)
(* There is one root of each kind.  A file is its version, 0 when it does  *)
(* not exist; content is not modelled.  The semantic index is configured;  *)
(* it holds every file but memory files.                                   *)
(***************************************************************************)
EXTENDS Naturals, FiniteSets

CONSTANTS
    MemoryFiles, LocalFiles, RemoteFiles,   \* the files below each root
    MaxEdits,     \* bound: edits of files
    MaxFaults,    \* bound: errors
    MaxCrashes    \* bound: deaths of the process

Files == MemoryFiles \cup LocalFiles \cup RemoteFiles

ASSUME WatchAssumption ==
    /\ MaxEdits \in Nat /\ MaxFaults \in Nat /\ MaxCrashes \in Nat
    /\ MemoryFiles \cap LocalFiles = {} /\ MemoryFiles \cap RemoteFiles = {}
    /\ LocalFiles \cap RemoteFiles = {}

VARIABLES
    disk,       \* version of each file
    edits,      \* how often a file was edited
    event,      \* the watcher's channel holds an event
    \* the index directory
    row,        \* catalog: version, generation_completed and deleted
    lex,        \* version of the document in the lexical index, 0 for none
    sem,        \* rows of the semantic index: of this row, of an older one, none
    failures,   \* the files in index_failures
    \* the publication
    pub,        \* version that readers see of each file, 0 for none
    published,  \* current.json exists
    \* the process
    pc,
    scope,      \* which roots this cycle covers: local, or all of them
    root,       \* the root being scanned
    left,       \* files the walk has not reached
    seen,       \* last_seen_generation is this generation
    touched,    \* index_generation is this generation
    documents,  \* the files whose documents were collected
    swept,      \* deleted_paths
    failed,     \* report.failed > 0
    changed,    \* changed_files + deleted_files > 0
    faults, crashes

world == <<disk, edits, event>>
index == <<row, lex, sem, failures>>
publication == <<pub, published>>
scan == <<left, seen, touched, documents, swept, failed>>
cycle == <<scope, root, changed>>
budgets == <<faults, crashes>>
vars == <<world, index, publication, pc, scan, cycle, budgets>>

-----------------------------------------------------------------------------

Versions == 0..MaxEdits
Roots == {"memory", "local", "remote"}

Below(r) ==
    CASE r = "memory" -> MemoryFiles
      [] r = "local"  -> LocalFiles
      [] r = "remote" -> RemoteFiles

Phases == {"off", "idle", "next", "walk", "semantic", "lexical", "complete", "publish"}

TypeOK ==
    /\ disk \in [Files -> Versions]
    /\ edits \in 0..MaxEdits
    /\ event \in BOOLEAN
    /\ row \in [Files -> [ver : Versions, done : BOOLEAN, gone : BOOLEAN]]
    /\ lex \in [Files -> Versions]
    /\ sem \in [Files -> {"none", "stale", "current"}]
    /\ failures \subseteq Files
    /\ pub \in [Files -> Versions]
    /\ published \in BOOLEAN
    /\ pc \in Phases
    /\ scope \in {"local", "all"}
    /\ root \in Roots
    /\ left \subseteq Files /\ seen \subseteq Files
    /\ documents \subseteq touched /\ touched \subseteq Files /\ swept \subseteq Files
    /\ failed \in BOOLEAN /\ changed \in BOOLEAN
    /\ faults \in 0..MaxFaults /\ crashes \in 0..MaxCrashes

NoRow == [ver |-> 0, done |-> FALSE, gone |-> TRUE]

Init ==
    /\ disk = [f \in Files |-> 0] /\ edits = 0 /\ event = FALSE
    /\ row = [f \in Files |-> NoRow]
    /\ lex = [f \in Files |-> 0] /\ sem = [f \in Files |-> "none"] /\ failures = {}
    /\ pub = [f \in Files |-> 0] /\ published = FALSE
    /\ pc = "off" /\ scope = "all" /\ root = "memory"
    /\ left = {} /\ seen = {} /\ touched = {} /\ documents = {} /\ swept = {}
    /\ failed = FALSE /\ changed = FALSE
    /\ faults = 0 /\ crashes = 0

-----------------------------------------------------------------------------

\* What readers of the catalog may see of a file (current_files_by_ids).
Visible(f) == row[f].done /\ ~row[f].gone

\* Mutant: the rows of an interrupted generation count as indexed.
TakesInterrupted(f) == row[f].gone \/ row[f].ver # disk[f]

\* existing_file finds no row, an interrupted one or one of another version.
NeedsIndexing(f) == ~Visible(f) \/ row[f].ver # disk[f]

SemanticFiles == Files \ MemoryFiles

\* current_semantic_files: the rows the semantic index must hold.
Expected == {f \in SemanticFiles : Visible(f)}

Covered == \A f \in Expected : sem[f] = "current"

\* seal removes what no visible row accounts for.
Sealed == [f \in Files |-> IF f \in Expected THEN sem[f] ELSE "none"]

Fault == faults < MaxFaults /\ faults' = faults + 1 /\ UNCHANGED crashes

\* The roots of a cycle in turn; then it publishes.
NextRoot ==
    CASE root = "memory" -> root' = "local" /\ pc' = "next"
      [] root = "local" /\ scope = "all" -> root' = "remote" /\ pc' = "next"
      [] OTHER -> root' = "memory" /\ pc' = "publish"

ScanOver ==
    /\ left' = {} /\ seen' = {} /\ touched' = {} /\ documents' = {} /\ swept' = {}
    /\ failed' = FALSE

\* The cycle ends, after an error too: run_cycle reports it, the loop goes on.
CycleOver ==
    /\ pc' = "idle"
    /\ root' = "memory" /\ scope' = "all" /\ changed' = FALSE
    /\ ScanOver

CycleStarts(s) ==
    /\ pc' = "next"
    /\ scope' = s
    /\ UNCHANGED <<root, changed, scan, index, publication>>

-----------------------------------------------------------------------------
(* The loop.                                                               *)

\* watch reconciles every root once at startup.
Start ==
    /\ pc = "off"
    /\ CycleStarts("all")
    /\ UNCHANGED <<world, budgets>>

\* An event arrived: everything in the channel is drained before the cycle.
EventTick ==
    /\ pc = "idle" /\ event
    /\ CycleStarts("local")
    /\ event' = FALSE
    /\ UNCHANGED <<disk, edits, budgets>>

\* recv_timeout times out only when nothing arrived for the whole interval.
IntervalTick ==
    /\ pc = "idle" /\ ~event
    /\ CycleStarts("all")
    /\ UNCHANGED <<world, budgets>>

\* The root cannot be resolved, or the catalog fails.
RootFails ==
    /\ pc \in {"next", "walk", "complete"}
    /\ Fault
    /\ CycleOver
    /\ UNCHANGED <<world, index, publication>>

StartGeneration ==
    /\ pc = "next"
    /\ pc' = "walk"
    /\ left' = Below(root)
    /\ UNCHANGED <<world, index, publication, seen, touched, documents, swept, failed>>
    /\ UNCHANGED <<cycle, budgets>>

-----------------------------------------------------------------------------
(* index_root_inner.                                                       *)

Reached(f) ==
    /\ pc = "walk" /\ f \in left
    /\ left' = left \ {f}
    /\ UNCHANGED <<world, lex, publication, pc, swept, cycle>>

\* The walk comes to a place where there is no file.
Absent(f) ==
    /\ Reached(f)
    /\ disk[f] = 0
    /\ UNCHANGED <<row, sem, failures, seen, touched, documents, failed, budgets>>

Unchanged(f) ==
    /\ Reached(f)
    /\ disk[f] # 0 /\ ~NeedsIndexing(f)
    /\ seen' = seen \cup {f}
    /\ UNCHANGED <<row, sem, failures, touched, documents, failed, budgets>>

\* upsert_file: semantic rows of the file now belong to an older row.
Upserted(f) ==
    /\ disk[f] # 0 /\ NeedsIndexing(f)
    /\ seen' = seen \cup {f}
    /\ touched' = touched \cup {f}
    /\ row' = [row EXCEPT ![f] = [ver |-> disk[f], done |-> FALSE, gone |-> FALSE]]
    /\ sem' = [sem EXCEPT ![f] = IF @ = "none" THEN "none" ELSE "stale"]

\* The document waits for the end of the walk.
IndexFile(f) ==
    /\ Reached(f)
    /\ Upserted(f)
    /\ documents' = documents \cup {f}
    /\ UNCHANGED <<failures, failed, budgets>>

RecordFailure(f) ==
    /\ Fault
    /\ failures' = failures \cup {f}
    /\ failed' = TRUE
    /\ UNCHANGED documents

\* A file that cannot be read keeps its row.
ReadFails(f) ==
    /\ Reached(f)
    /\ disk[f] # 0
    /\ RecordFailure(f)
    /\ seen' = IF row[f].gone THEN seen ELSE seen \cup {f}
    /\ UNCHANGED <<row, sem, touched>>

\* The row was written, what belongs to it (symbols, profile) was not.
RowFails(f) ==
    /\ Reached(f)
    /\ Upserted(f)
    /\ RecordFailure(f)

\* A directory that cannot be read: its files are not seen.
WalkFails ==
    /\ pc = "walk" /\ root # "memory"
    /\ Fault
    /\ \E hidden \in (SUBSET left) \ {{}} : left' = left \ hidden
    /\ failed' = TRUE
    /\ UNCHANGED <<world, index, publication, pc, seen, touched, documents, swept, cycle>>

\* mark_missing_deleted, in a transaction of its own.
Sweep ==
    /\ pc = "walk" /\ left = {}
    /\ pc' = "semantic"
    /\ swept' = {f \in Below(root) : ~row[f].gone /\ f \notin seen}
    /\ row' = [f \in Files |-> IF f \in swept' THEN [row[f] EXCEPT !.gone = TRUE] ELSE row[f]]
    /\ UNCHANGED <<world, lex, sem, failures, publication>>
    /\ UNCHANGED <<left, seen, touched, documents, failed, cycle, budgets>>

\* The replaced paths are removed first, then the documents added in batches.
\* Retiring a memory file does not touch the semantic index.
SemanticFor(applied) ==
    [f \in Files |-> IF f \in applied \cap SemanticFiles THEN "current"
                     ELSE IF f \in documents \cup swept THEN "none"
                     ELSE sem[f]]

ApplySemantic ==
    /\ pc = "semantic"
    /\ pc' = "lexical"
    /\ sem' = SemanticFor(documents)
    /\ UNCHANGED <<world, row, lex, failures, publication, scan, cycle, budgets>>

SemanticFails ==
    /\ pc = "semantic"
    /\ documents \cup (swept \cap SemanticFiles) # {}
    /\ Fault
    /\ \/ UNCHANGED sem
       \/ \E applied \in SUBSET documents : sem' = SemanticFor(applied)
    /\ CycleOver
    /\ UNCHANGED <<world, row, lex, failures, publication>>

Lexical ==
    [f \in Files |-> IF f \in documents THEN row[f].ver
                     ELSE IF f \in swept THEN 0
                     ELSE lex[f]]

ApplySearch ==
    /\ pc = "lexical"
    /\ pc' = "complete"
    /\ lex' = Lexical
    /\ UNCHANGED <<world, row, sem, failures, publication, scan, cycle, budgets>>

\* The index of memory files is committed after the one of the others.
SearchFails ==
    /\ pc = "lexical"
    /\ Fault
    /\ lex' \in {lex, Lexical}
    /\ CycleOver
    /\ UNCHANGED <<world, row, sem, failures, publication>>

\* Mutant: all rows are marked, not those of this generation.
AllCompleted == [f \in Files |-> [row[f] EXCEPT !.done = TRUE]]

Completed == [f \in Files |-> [row[f] EXCEPT !.done = @ \/ f \in touched]]

\* Mutant: deletions are not counted.
CountsUpdates == changed \/ documents # {}

\* changed_files + deleted_files: a file that failed after its row was written is
\* not among them, though its row is completed.
Counted == changed \/ documents # {} \/ swept # {}

\* complete_generation; a memory file that failed ends the cycle even so.
CompleteGeneration ==
    /\ pc = "complete"
    /\ row' = Completed
    /\ IF root = "memory" /\ failed
       THEN CycleOver
       ELSE NextRoot /\ changed' = Counted /\ ScanOver /\ UNCHANGED scope
    /\ UNCHANGED <<world, lex, sem, failures, publication, budgets>>

-----------------------------------------------------------------------------
(* The end of a cycle.                                                     *)

\* publish_snapshot, when something changed or nothing was published ever.
Publish ==
    /\ pc = "publish"
    /\ changed \/ ~published
    /\ Covered
    /\ sem' = Sealed
    /\ pub' = [f \in Files |-> IF Visible(f) THEN row[f].ver ELSE 0]
    /\ published' = TRUE
    /\ CycleOver
    /\ UNCHANGED <<world, row, lex, failures, budgets>>

\* seal_semantic_generation.
NothingToPublish ==
    /\ pc = "publish"
    /\ ~changed /\ published
    /\ Covered
    /\ sem' = Sealed
    /\ CycleOver
    /\ UNCHANGED <<world, row, lex, failures, publication, budgets>>

\* "semantic coverage missing".
SealFails ==
    /\ pc = "publish"
    /\ ~Covered
    /\ CycleOver
    /\ UNCHANGED <<world, index, publication, budgets>>

\* Copying or the pointer fails.
PublishFails ==
    /\ pc = "publish"
    /\ Fault
    /\ sem' \in (IF Covered THEN {sem, Sealed} ELSE {sem})
    /\ CycleOver
    /\ UNCHANGED <<world, row, lex, failures, publication>>

-----------------------------------------------------------------------------

\* Somebody writes, removes or creates a file.  The watcher reports changes of
\* local files, except in directories it does not know yet and append-heavy
\* kinds.
Edit(f) ==
    /\ edits < MaxEdits
    /\ edits' = edits + 1
    /\ \E v \in {edits + 1, 0} : v # disk[f] /\ disk' = [disk EXCEPT ![f] = v]
    /\ event' \in (IF f \in LocalFiles /\ pc # "off" THEN {TRUE, event} ELSE {event})
    /\ UNCHANGED <<index, publication, pc, scan, cycle, budgets>>

Crash ==
    /\ pc # "off"
    /\ crashes < MaxCrashes
    /\ crashes' = crashes + 1
    /\ pc' = "off"
    /\ root' = "memory" /\ scope' = "all" /\ changed' = FALSE
    /\ ScanOver
    /\ event' = FALSE
    /\ UNCHANGED <<disk, edits, index, publication, faults>>

Loop ==
    \/ EventTick \/ IntervalTick \/ RootFails \/ StartGeneration
    \/ \E f \in Files : Absent(f) \/ Unchanged(f) \/ IndexFile(f) \/ ReadFails(f) \/ RowFails(f)
    \/ WalkFails \/ Sweep \/ ApplySemantic \/ SemanticFails \/ ApplySearch \/ SearchFails
    \/ CompleteGeneration \/ Publish \/ NothingToPublish \/ SealFails \/ PublishFails

Next == Start \/ Loop \/ Crash \/ \E f \in Files : Edit(f)

Spec == Init /\ [][Next]_vars

\* The loop never stops by itself; nothing starts it again.
LiveSpec == Spec /\ WF_vars(Loop)

-----------------------------------------------------------------------------
(* Properties.                                                             *)

\* A row that readers may see has its document of this version in the lexical
\* index and its rows in the semantic one, although every store is written by
\* itself and a scan may end after any of them; or the catalog says that the
\* file failed.  (index_root_inner, complete_generation, record_failure)
IndexesAgree ==
    \A f \in Files : Visible(f) =>
        \/ lex[f] = row[f].ver /\ (f \in SemanticFiles => sem[f] = "current")
        \/ f \in failures

\* The inductive invariant behind it: rows of this generation stay hidden until
\* both indexes have their documents.
ScanInv ==
    /\ TypeOK
    /\ IndexesAgree
    /\ \A f \in touched : ~row[f].done /\ f \in documents \cup failures
    /\ \A f \in swept : row[f].gone
    /\ swept # {} => pc \in {"semantic", "lexical", "complete"}
    /\ pc \in {"lexical", "complete"} =>
           \A f \in documents \cap SemanticFiles : sem[f] = "current"
    /\ pc = "complete" => \A f \in documents : lex[f] = row[f].ver

\* Unfinished work is always done again: while the publisher runs, the catalog
\* keeps coming back to the disk, through errors, crashes and files that a walk
\* could not see.  (index_file, mark_missing_deleted)
CatalogCatchesUp ==
    []<>(pc = "off" \/ \A f \in Files : IF disk[f] = 0 THEN row[f].gone
                                        ELSE Visible(f) /\ row[f].ver = disk[f])

Shown == \A f \in Files : pub[f] = disk[f]

\* As long as no cycle fails and the process lives, readers end up with what is
\* on disk.  (publish_once, watch)
ShownUnlessFailed ==
    [](faults = 0 /\ crashes = 0) => (<>(pc # "off") => <>[]Shown)

=============================================================================
