---- MODULE Mcp ----
(***************************************************************************)
(* The MCP adapters of one user (src/src/mcp.rs) and the audit trail they  *)
(* share (src/src/mcp_audit.rs).  Every agent client has an adapter of its *)
(* own; each asks the daemon behind the socket or, when nobody listens,    *)
(* opens an index directory itself; each appends one record per call to    *)
(* one log under one lock file, and the log is rotated to one older file.  *)
(* The calls of an adapter overlap while they wait for an answer; what     *)
(* follows, the record and the reply, runs on its only thread.             *)
(***************************************************************************)
EXTENDS Integers, Sequences, FiniteSets, SequencesExt

CONSTANTS
    Adapters,     \* the adapter processes
    Tools,        \* the tools called, of search, inspect and query
    None,         \* no adapter, no call
    LogLimit,     \* pieces the log holds (DEFAULT_MAX_LOG_BYTES)
    MaxCalls,     \* bound: calls of all clients together
    MaxFaults     \* bound: kills of an adapter and failed writes

ASSUME McpAssumption ==
    /\ Tools \subseteq {"search", "inspect", "query"} /\ "search" \in Tools
    /\ None \notin Adapters \cup (1..MaxCalls)
    /\ LogLimit \in Nat \ {0}
    /\ MaxCalls \in Nat /\ MaxFaults \in Nat

Ids == 1..MaxCalls
Results == {"pending", "ok", "error"}   \* of a search

(* Where a call is: asked of an index, asked of one again for its diagnostics, answered by
   it (ready), then the steps of its record, and its end.  A refused one never reached the
   tool.                                                                                *)
Stages == {"free", "asked", "probing", "ready", "rotate", "removed", "append",
           "unlock", "answered", "refused", "lost"}
Recording == {"rotate", "removed", "append", "unlock"}

(* What a write leaves in the log: a whole line, only a part of one, or a line glued to the
   part before it, which then is no record that can be read.  Of the calls of adapters
   that ran before, none is told from another.                                          *)
Pieces == [of : Ids \cup {None}, as : {"whole", "glued", "part"}]

VARIABLES
    alive,       \* the adapters that run
    call,        \* every call
    log, old,    \* the pieces of the log file and of the one before it
    lock,        \* the adapter that holds the lock file
    written,     \* ghost: every piece ever appended, in order
    unlogged,    \* ghost: calls whose record could not be written
    budget       \* what the bounds leave

vars == << alive, call, log, old, lock, written, unlogged, budget >>

NoCall == [stage |-> "free", by |-> None, tool |-> "search", parent |-> None,
           result |-> "pending"]

\* The log is new, or full of the records of other days.
Init ==
    /\ alive = Adapters
    /\ call = [i \in Ids |-> NoCall]
    /\ \E n \in {0, LogLimit} : log = [k \in 1..n |-> [of |-> None, as |-> "whole"]]
    /\ old = << >> /\ lock = None
    /\ written = log /\ unlogged = {}
    /\ budget = MaxFaults

To(i, stage) == call' = [call EXCEPT ![i].stage = stage]
At(i, stage) == call[i].stage = stage

---------------------------------------------------------------------------
\* A bug the checks must see.
KnownAtOnce(a) == { j \in Ids : call[j].by = a /\ call[j].tool = "search" /\ call[j].result = "ok" }

\* A client knows the search ids of the answers it got.
Known(a) == { j \in Ids : /\ call[j].by = a /\ call[j].tool = "search"
                          /\ At(j, "answered") /\ call[j].result = "ok" }

\* The first call that was not made yet is made now.
Fresh(a, i) == /\ a \in alive /\ At(i, "free")
               /\ \A j \in Ids : j < i => ~At(j, "free")

\* A bug the checks must see.
CallUnaudited(a, i, tool, parent, valid) ==
    /\ Fresh(a, i)
    /\ parent \in Known(a) \cup {None}
    /\ tool # "inspect" => parent = None
    /\ call' = [call EXCEPT ![i] =
                  [NoCall EXCEPT !.by = a, !.tool = tool, !.parent = parent,
                                 !.stage = IF valid THEN "asked" ELSE "answered",
                                 !.result = IF valid \/ tool # "search" THEN "pending" ELSE "error"]]
    /\ UNCHANGED << alive, log, old, lock, written, unlogged, budget >>

(* A tool is called.  The values of the arguments are checked before anything is asked. *)
Call(a, i, tool, parent, valid) ==
    /\ Fresh(a, i)
    /\ parent \in Known(a) \cup {None}
    /\ tool # "inspect" => parent = None
    /\ call' = [call EXCEPT ![i] =
                  [NoCall EXCEPT !.by = a, !.tool = tool, !.parent = parent,
                                 !.stage = IF valid THEN "asked" ELSE "ready",
                                 !.result = IF valid \/ tool # "search" THEN "pending" ELSE "error"]]
    /\ UNCHANGED << alive, log, old, lock, written, unlogged, budget >>

(* Arguments that are not of the tool's shape never reach it: rmcp answers for the tool,
   and there is no record.                                                               *)
Malformed(a, i, tool) ==
    /\ Fresh(a, i)
    /\ call' = [call EXCEPT ![i] = [NoCall EXCEPT !.by = a, !.tool = tool, !.stage = "refused"]]
    /\ UNCHANGED << alive, log, old, lock, written, unlogged, budget >>

(* execute_request: what the daemon finds, or without a listener the index directory that
   the adapter then opens itself.                                                        *)
Finds == {"nothing", "hits", "too_much"}

(* A search that found nothing, or leaves a file it names unmatched, is diagnosed; a list
   that is too long for an answer becomes an error.                                      *)
Search(i, found, unmatched) ==
    /\ At(i, "asked") /\ call[i].tool = "search"
    /\ call' = [call EXCEPT ![i].result = IF found = "too_much" THEN "error" ELSE "ok",
                  ![i].stage = IF found = "nothing" \/ unmatched THEN "probing" ELSE "ready"]
    /\ UNCHANGED << alive, log, old, lock, written, unlogged, budget >>

(* The daemon answers with an error, closes or is silent for too long, and the search is
   diagnosed; or its answer cannot be read, and it is not.                               *)
SearchFails(i, readable) ==
    /\ At(i, "asked") /\ call[i].tool = "search"
    /\ call' = [call EXCEPT ![i].result = "error",
                  ![i].stage = IF readable THEN "probing" ELSE "ready"]
    /\ UNCHANGED << alive, log, old, lock, written, unlogged, budget >>

(* A file of the index is shown, or the path is unknown, the index gone, the answer too
   long or not to be read.  Only the results of searches are told apart.                 *)
Inspect(i) ==
    /\ At(i, "asked") /\ call[i].tool = "inspect"
    /\ To(i, "ready")
    /\ UNCHANGED << alive, log, old, lock, written, unlogged, budget >>

\* The same for SQL over files of a registered root.
Query(i) ==
    /\ At(i, "asked") /\ call[i].tool = "query"
    /\ To(i, "ready")
    /\ UNCHANGED << alive, log, old, lock, written, unlogged, budget >>

\* The diagnosis is asked of whoever is there now, and does not change the outcome.
Probe(i) ==
    /\ At(i, "probing")
    /\ To(i, "ready")
    /\ UNCHANGED << alive, log, old, lock, written, unlogged, budget >>

---------------------------------------------------------------------------
(* audited: the record, then the reply. *)

Busy(a) == \E j \in Ids : call[j].by = a /\ call[j].stage \in Recording

\* A bug the checks must see.
LockShared(i) ==
    /\ At(i, "ready") /\ ~Busy(call[i].by)
    /\ lock' = call[i].by
    /\ To(i, "rotate")
    /\ UNCHANGED << alive, log, old, written, unlogged, budget >>

Lock(i) ==
    /\ At(i, "ready") /\ ~Busy(call[i].by) /\ lock = None
    /\ lock' = call[i].by
    /\ To(i, "rotate")
    /\ UNCHANGED << alive, log, old, written, unlogged, budget >>

\* rotate_if_needed: make room by taking the older file away ...
Rotate(i) ==
    /\ At(i, "rotate")
    /\ IF Len(log) # 0 /\ Len(log) + 1 > LogLimit
       THEN To(i, "removed") /\ old' = << >>
       ELSE To(i, "append") /\ UNCHANGED old
    /\ UNCHANGED << alive, log, lock, written, unlogged, budget >>

\* A bug the checks must see.
RenameCopies(i) ==
    /\ At(i, "removed")
    /\ old' = log
    /\ To(i, "append")
    /\ UNCHANGED << alive, log, lock, written, unlogged, budget >>

\* ... and giving its name to the full one.
Rename(i) ==
    /\ At(i, "removed")
    /\ old' = log /\ log' = << >>
    /\ To(i, "append")
    /\ UNCHANGED << alive, lock, written, unlogged, budget >>

\* The log ends in the part of a line that a write did not finish.
Torn == log # << >> /\ log[Len(log)].as = "part"

Add(i, as) == LET piece == [of |-> i, as |-> as]
              IN  log' = Append(log, piece) /\ written' = Append(written, piece)

AppendRecord(i) ==
    /\ At(i, "append")
    /\ Add(i, IF Torn THEN "glued" ELSE "whole")
    /\ To(i, "unlock")
    /\ UNCHANGED << alive, old, lock, unlogged, budget >>

\* A bug the checks must see.
RecordFailsUnderLock(i) ==
    /\ call[i].stage \in {"rotate", "removed", "append"}
    /\ budget > 0 /\ budget' = budget - 1
    /\ unlogged' = unlogged \cup {i}
    /\ To(i, "answered")
    /\ UNCHANGED << alive, log, old, lock, written >>

(* Whatever fails is told on stderr, though part of the line may be in the log; the call is
   answered all the same.                                                                *)
RecordFails(i) ==
    /\ call[i].stage \in {"rotate", "removed", "append"}
    /\ budget > 0 /\ budget' = budget - 1
    /\ unlogged' = unlogged \cup {i}
    /\ To(i, "unlock")
    /\ \/ UNCHANGED << log, written >>
       \/ At(i, "append") /\ Add(i, "part")
    /\ UNCHANGED << alive, old, lock >>

\* The lock file is unlocked, whatever came of the write, and the response returned.
Reply(i) ==
    /\ At(i, "unlock")
    /\ lock' = IF lock = call[i].by THEN None ELSE lock
    /\ To(i, "answered")
    /\ UNCHANGED << alive, log, old, written, unlogged, budget >>

---------------------------------------------------------------------------
(* The client goes away, or the system ends the adapter: its lock goes with it, and a line
   it was writing may be there in part.                                                  *)
Kill(a) ==
    /\ a \in alive /\ budget > 0 /\ budget' = budget - 1
    /\ alive' = alive \ {a}
    /\ call' = [i \in Ids |-> IF call[i].by = a /\ call[i].stage \notin {"answered", "refused"}
                              THEN [NoCall EXCEPT !.stage = "lost", !.parent = call[i].parent] ELSE call[i]]
    /\ lock' = IF lock = a THEN None ELSE lock
    /\ \/ UNCHANGED << log, written >>
       \/ \E i \in Ids : call[i].by = a /\ At(i, "append") /\ Add(i, "part")
    /\ UNCHANGED << old, unlogged >>

Answer(i) ==
    \/ \E found \in Finds, unmatched \in BOOLEAN : Search(i, found, unmatched)
    \/ \E readable \in BOOLEAN : SearchFails(i, readable)
    \/ Inspect(i) \/ Query(i)
Record(i) == Lock(i) \/ Rotate(i) \/ Rename(i) \/ AppendRecord(i) \/ Reply(i)

Next ==
    \/ \E a \in Adapters : Kill(a)
    \/ \E a \in Adapters, i \in Ids, tool \in Tools, parent \in Ids \cup {None}, valid \in BOOLEAN :
          Call(a, i, tool, parent, valid)
    \/ \E a \in Adapters, i \in Ids, tool \in Tools : Malformed(a, i, tool)
    \/ \E i \in Ids : Answer(i) \/ Probe(i) \/ Record(i) \/ RecordFails(i)

Spec == Init /\ [][Next]_vars

(* The socket has a timeout in both directions and a direct answer needs nobody; the
   blocking threads and the runtime keep running, and flock is given to a waiter.  As the
   calls are finitely many it is enough that some call that can go on does.             *)
Fairness == WF_vars(\E i \in Ids : Answer(i) \/ Probe(i) \/ Record(i))
LiveSpec == Spec /\ Fairness

---------------------------------------------------------------------------
Calls == [stage : Stages, by : Adapters \cup {None}, tool : Tools,
          parent : Ids \cup {None}, result : Results]

(* Every variable stays in its range. *)
TypeOK ==
    /\ alive \subseteq Adapters
    /\ call \in [Ids -> Calls]
    /\ log \in Seq(Pieces) /\ old \in Seq(Pieces) /\ written \in Seq(Pieces)
    /\ lock \in Adapters \cup {None} /\ unlogged \subseteq Ids
    /\ budget \in 0..MaxFaults

(* The two files are the end of everything written, in the order it was written: rotation
   drops the oldest records and nothing in between, whoever rotates, fails or is killed
   halfway (write, rotate_if_needed).                                                    *)
TrailIsSuffix == IsSuffix(old \o log, written)

(* "The active log rotates at 64 MiB and retains one previous file" (README.md:441): no
   file outgrows the limit, and the newest records up to the limit are always there.    *)
TrailBounded ==
    /\ Len(log) <= LogLimit /\ Len(old) <= LogLimit
    /\ Len(old \o log) >= (IF Len(written) < LogLimit THEN Len(written) ELSE LogLimit)

\* The lines of a call, and whether a line can be read.
LinesOf(i) == { k \in DOMAIN written : written[k].of = i /\ written[k].as # "part" }

(* A call that reached its tool has exactly one line in the trail when the client has its
   answer, or its write is known to have failed, for every tool, every outcome and every
   early return (audited); and that line is a record of its own unless the line just before
   it was torn by a write that failed or was killed, so each of those costs at most one
   record more.  A refused call leaves nothing.                                         *)
AnsweredOnRecord ==
    /\ \A i \in Ids : At(i, "answered") =>
           Cardinality(LinesOf(i)) = (IF i \in unlogged THEN 0 ELSE 1)
    /\ \A k \in DOMAIN written :
           /\ written[k].of \in Ids => ~At(written[k].of, "refused")
           /\ written[k].as = "glued" =>
                  /\ k > 1 /\ written[k - 1].as = "part"
                  /\ written[k - 1].of \in unlogged \/ At(written[k - 1].of, "lost")

(* The trail can be joined: an inspection that names a search comes after that search in
   the trail, unless the search could not be recorded (parent_search_id).               *)
ParentFirst ==
    \A i \in Ids, k \in DOMAIN written :
        LET p == call[i].parent
        IN  written[k].of = i /\ p # None => p \in unlogged \/ \E j \in LinesOf(p) : j < k

(* Every call to an adapter that stays alive is answered: a failed write or the death of
   another adapter never leaves the lock taken, and an index that is silent is given up.
   The clients stop calling at the bound, so in the end no call may be on its way.       *)
EveryCallEnds == <>[](\A i \in Ids : call[i].stage \in {"free", "answered", "refused", "lost"})
====
