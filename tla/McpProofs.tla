----------------------------- MODULE McpProofs ------------------------------
(***************************************************************************)
(* The audit trail survives rotation, failed writes and killed adapters:   *)
(* proofs about Mcp, for any number of adapters and calls and any limit.   *)
(***************************************************************************)
EXTENDS Mcp, FiniteSetTheorems, TLAPS

-----------------------------------------------------------------------------
(* The inductive invariant.                                                *)

\* A call has something in the trail, and a whole line of its own.
Begun(i) == \E k \in DOMAIN written : written[k].of = i
Entered(i) == \E k \in DOMAIN written : written[k].of = i /\ written[k].as # "part"

\* One call at a time works on the log, and its adapter has the lock.
Exclusive ==
    /\ \A i \in Ids : call[i].stage \notin {"free", "lost"} => call[i].by \in Adapters
    /\ \A i \in Ids : call[i].stage \in Recording => lock = call[i].by
    /\ \A i, j \in Ids : call[i].stage \in Recording /\ call[j].stage \in Recording => i = j

\* Element by element, the two files are the end of what was written.
TrailEnds ==
    LET n == Len(written) - Len(old) - Len(log)
    IN  /\ n >= 0
        /\ \A k \in 1..Len(old) : old[k] = written[n + k]
        /\ \A k \in 1..Len(log) : log[k] = written[n + Len(old) + k]

\* The older file is only gone while the other is full.
Room ==
    /\ Len(log) =< LogLimit /\ Len(old) =< LogLimit
    /\ Len(old) + Len(log) >= Len(written) \/ Len(old) + Len(log) >= LogLimit
    /\ \A i \in Ids : At(i, "removed") => old = << >> /\ Len(log) = LogLimit
    /\ \A i \in Ids : At(i, "append") => Len(log) < LogLimit

\* A call is entered once, when it comes to that.
Recorded ==
    /\ \A k, m \in DOMAIN written :
           written[k].of \in Ids /\ written[k].of = written[m].of => k = m
    /\ \A i \in Ids : call[i].stage \in Stages \ {"unlock", "answered", "lost"} =>
           ~Begun(i) /\ i \notin unlogged
    /\ \A i \in Ids : call[i].stage \in {"unlock", "answered"} =>
           (Entered(i) <=> i \notin unlogged)

\* A part of a line is what a failed or killed write left, and spoils the next line only.
Spoiled ==
    \A k \in DOMAIN written :
        /\ written[k].as = "part" =>
               written[k].of \in Ids /\ (written[k].of \in unlogged \/ At(written[k].of, "lost"))
        /\ written[k].as = "glued" => k > 1 /\ written[k - 1].as = "part"

\* A search that is named has been answered.
Parents ==
    \A i \in Ids : call[i].parent # None /\ call[i].parent \in Ids =>
                       At(call[i].parent, "answered")

McpInv == TypeOK /\ Exclusive /\ TrailEnds /\ Room /\ Recorded /\ Spoiled /\ Parents /\ ParentFirst

-----------------------------------------------------------------------------

LEMMA StageSet ==
    ASSUME NEW c \in Calls, NEW s \in Stages, NEW r \in Results
    PROVE  /\ [c EXCEPT !.stage = s] \in Calls
           /\ [c EXCEPT !.result = r, !.stage = s] \in Calls
  BY DEF Calls

\* A call that goes on keeps its caller and what it names.
LEMMA Goes ==
    ASSUME call \in [Ids -> Calls], NEW i \in Ids, NEW s \in Stages, To(i, s)
    PROVE  /\ call' \in [Ids -> Calls]
           /\ \A j \in Ids : j # i => call'[j] = call[j]
           /\ call'[i].stage = s
           /\ call'[i].by = call[i].by /\ call'[i].parent = call[i].parent
<1>1. call' = [call EXCEPT ![i] = [call[i] EXCEPT !.stage = s]]
  BY DEF To
<1>2. call[i] \in Calls /\ [call[i] EXCEPT !.stage = s] \in Calls
  <2>1. "ok" \in Results
    BY DEF Results
  <2>. QED
    BY <2>1, StageSet
<1>3. call' \in [Ids -> Calls] /\ call'[i] = [call[i] EXCEPT !.stage = s]
  BY <1>1, <1>2
<1>. QED
  BY <1>1, <1>2, <1>3 DEF Calls

LEMMA Initially == Init => McpInv
<1>. SUFFICES ASSUME Init PROVE McpInv
  OBVIOUS
<1>. USE McpAssumption DEF Init, NoCall
<1>1. PICK n \in {0, LogLimit} : log = [k \in 1..n |-> [of |-> None, as |-> "whole"]]
  OBVIOUS
<1>2. /\ written = log /\ log \in Seq(Pieces) /\ Len(log) = n /\ DOMAIN log = 1..n /\ n \in Nat
      /\ \A k \in 1..n : written[k].of = None /\ written[k].as = "whole"
  BY <1>1 DEF Pieces
<1>3. None \notin Ids
  BY DEF Ids
<1>4. TypeOK
  BY <1>2 DEF TypeOK, Calls, Stages, Results, Pieces
<1>5. Exclusive /\ TrailEnds /\ Room
  BY <1>2 DEF Exclusive, Recording, TrailEnds, Room, At
<1>6. Recorded /\ Spoiled /\ Parents /\ ParentFirst
  BY <1>2, <1>3 DEF At, Recorded, Begun, Entered, Spoiled, Stages, Parents, ParentFirst
<1>. QED
  BY <1>4, <1>5, <1>6 DEF McpInv

\* A call that is new, or refused, leaves the log alone.
LEMMA FreshStep ==
    ASSUME McpInv, NEW a \in Adapters, NEW i \in Ids, Fresh(a, i), NEW c \in Calls,
           call' = [call EXCEPT ![i] = c], c.by = a,
           c.stage \in {"asked", "ready", "refused"}, c.parent \in Known(a) \cup {None},
           UNCHANGED << alive, log, old, lock, written, unlogged, budget >>
    PROVE  McpInv'
<1>. USE McpAssumption DEF McpInv, At
<1>1. /\ \A j \in Ids : j # i => call'[j] = call[j]
      /\ call[i].stage = "free" /\ call'[i] = c /\ call' \in [Ids -> Calls]
  BY DEF TypeOK, Fresh
<1>2. TypeOK'
  BY <1>1 DEF TypeOK
<1>3. Exclusive'
  BY <1>1 DEF Exclusive, Recording
<1>4. TrailEnds' /\ Room'
  BY <1>1 DEF TrailEnds, Room
<1>5. Recorded'
  BY <1>1 DEF Recorded, Begun, Entered, Stages
<1>6. Spoiled'
  BY <1>1 DEF Spoiled
<1>7. Parents'
  BY <1>1 DEF Parents, Known
<1>8. ParentFirst'
  <2>1. ~Begun(i)
    BY <1>1 DEF Recorded, Stages
  <2>. QED
    BY <1>1, <2>1 DEF ParentFirst, LinesOf, Begun
<1>. QED
  BY <1>2, <1>3, <1>4, <1>5, <1>6, <1>7, <1>8

LEMMA CallStep ==
    ASSUME McpInv, NEW a \in Adapters, NEW i \in Ids, NEW tool \in Tools,
           NEW parent \in Ids \cup {None}, NEW valid \in BOOLEAN,
           Call(a, i, tool, parent, valid) \/ Malformed(a, i, tool)
    PROVE  McpInv'
<1>1. CASE Call(a, i, tool, parent, valid)
  <2>. DEFINE c == [NoCall EXCEPT !.by = a, !.tool = tool, !.parent = parent,
                      !.stage = IF valid THEN "asked" ELSE "ready",
                      !.result = IF valid \/ tool # "search" THEN "pending" ELSE "error"]
  <2>1. /\ c \in Calls /\ c.by = a /\ c.parent = parent /\ c.stage \in {"asked", "ready"}
    BY McpAssumption DEF NoCall, Calls, Stages, Results
  <2>2. call' = [call EXCEPT ![i] = c]
    BY <1>1 DEF Call
  <2>. HIDE DEF c
  <2>. QED
    BY <1>1, <2>1, <2>2, FreshStep DEF Call
<1>2. CASE Malformed(a, i, tool)
  <2>. DEFINE c == [NoCall EXCEPT !.by = a, !.tool = tool, !.stage = "refused"]
  <2>1. c \in Calls /\ c.by = a /\ c.parent = None /\ c.stage = "refused"
    BY McpAssumption DEF NoCall, Calls, Stages, Results
  <2>2. call' = [call EXCEPT ![i] = c]
    BY <1>2 DEF Malformed
  <2>. HIDE DEF c
  <2>. QED
    BY <1>2, <2>1, <2>2, FreshStep DEF Malformed
<1>. QED
  BY <1>1, <1>2

LEMMA AnswerStep ==
    ASSUME McpInv, NEW i \in Ids, Answer(i) \/ Probe(i)
    PROVE  McpInv'
<1>. USE McpAssumption DEF McpInv, At, To
<1>1. \E r \in Results, s \in {"probing", "ready"} :
          call' = [call EXCEPT ![i].result = r, ![i].stage = s]
  <2>1. ASSUME NEW found \in Finds, NEW unmatched \in BOOLEAN, Search(i, found, unmatched)
        PROVE  \E r \in Results, s \in {"probing", "ready"} :
                   call' = [call EXCEPT ![i].result = r, ![i].stage = s]
    <3>. DEFINE r == IF found = "too_much" THEN "error" ELSE "ok"
                s == IF found = "nothing" \/ unmatched THEN "probing" ELSE "ready"
    <3>1. call' = [call EXCEPT ![i].result = r, ![i].stage = s]
      BY <2>1 DEF Search
    <3>2. r \in Results /\ s \in {"probing", "ready"}
      BY DEF Results
    <3>. HIDE DEF r, s
    <3>. QED
      BY <3>1, <3>2
  <2>2. ASSUME NEW readable \in BOOLEAN, SearchFails(i, readable)
        PROVE  \E r \in Results, s \in {"probing", "ready"} :
                   call' = [call EXCEPT ![i].result = r, ![i].stage = s]
    <3>. DEFINE s == IF readable THEN "probing" ELSE "ready"
    <3>1. call' = [call EXCEPT ![i].result = "error", ![i].stage = s]
      BY <2>2 DEF SearchFails
    <3>2. "error" \in Results /\ s \in {"probing", "ready"}
      BY DEF Results
    <3>. HIDE DEF s
    <3>. QED
      BY <3>1, <3>2
  <2>3. CASE Inspect(i) \/ Query(i) \/ Probe(i)
    <3>1. call' = [call EXCEPT ![i].result = call[i].result, ![i].stage = "ready"]
      BY <2>3 DEF Inspect, Query, Probe, TypeOK, Calls
    <3>. QED
      BY <3>1 DEF TypeOK, Calls
  <2>. QED
    BY <2>1, <2>2, <2>3 DEF Answer
<1>2. /\ call[i].stage \in {"asked", "probing"}
      /\ alive' = alive /\ log' = log /\ old' = old /\ lock' = lock
      /\ written' = written /\ unlogged' = unlogged /\ budget' = budget
  BY DEF Answer, Search, SearchFails, Inspect, Query, Probe
<1>3. PICK r \in Results, s \in {"probing", "ready"} :
          call' = [call EXCEPT ![i].result = r, ![i].stage = s]
  BY <1>1
<1>4. call' \in [Ids -> Calls]
  <2>1. s \in Stages
    BY DEF Stages
  <2>2. call[i] \in Calls /\ [call[i] EXCEPT !.result = r, !.stage = s] \in Calls
    BY <2>1, StageSet DEF TypeOK
  <2>. QED
    BY <1>3, <2>2 DEF TypeOK
<1>5. TypeOK'
  BY <1>2, <1>4 DEF TypeOK
<1>6. /\ \A j \in Ids : j # i => call'[j] = call[j]
      /\ call'[i].stage \in {"probing", "ready"}
      /\ call'[i].by = call[i].by /\ call'[i].parent = call[i].parent
  BY <1>3 DEF TypeOK, Calls
<1>7. Exclusive'
  BY <1>2, <1>6 DEF Exclusive, Recording
<1>8. TrailEnds'
  BY <1>2 DEF TrailEnds
<1>9. Room'
  BY <1>2, <1>6 DEF Room
<1>10. Recorded'
  BY <1>2, <1>6 DEF Recorded, Begun, Entered, Stages
<1>11. Parents' /\ Spoiled'
  BY <1>2, <1>6 DEF Parents, Spoiled
<1>12. ParentFirst'
  BY <1>2, <1>6 DEF ParentFirst, LinesOf
<1>. QED
  BY <1>5, <1>7, <1>8, <1>9, <1>10, <1>11, <1>12

\* The lock is only given to a call that is alone.
LEMMA LockStep ==
    ASSUME McpInv, NEW i \in Ids, Lock(i)
    PROVE  McpInv'
<1>. USE McpAssumption DEF McpInv, Lock, At
<1>1. /\ \A j \in Ids : j # i => call'[j] = call[j]
      /\ call[i].stage = "ready" /\ call'[i].stage = "rotate"
      /\ call'[i].by = call[i].by /\ call'[i].parent = call[i].parent
      /\ lock' = call[i].by /\ call' \in [Ids -> Calls]
  <2>1. "rotate" \in Stages
    BY DEF Stages
  <2>. QED
    BY <2>1, Goes DEF TypeOK
<1>2. /\ alive' = alive /\ log' = log /\ old' = old /\ lock = None
      /\ written' = written /\ unlogged' = unlogged /\ budget' = budget
  OBVIOUS
<1>3. TypeOK'
  <2>1. call[i].by \in Adapters
    BY <1>1 DEF Exclusive
  <2>. QED
    BY <1>1, <1>2, <2>1 DEF TypeOK
<1>4. Exclusive'
  <2>1. \A j \in Ids : call[j].stage \notin Recording
    BY <1>2 DEF Exclusive, Recording
  <2>. QED
    BY <1>1, <2>1 DEF Exclusive, Recording
<1>5. TrailEnds' /\ Room' /\ Recorded' /\ Spoiled' /\ Parents' /\ ParentFirst'
  <2>1. TrailEnds'
    BY <1>2 DEF TrailEnds
  <2>2. Room'
    BY <1>1, <1>2 DEF Room
  <2>3. Recorded'
    BY <1>1, <1>2 DEF Recorded, Begun, Entered, Stages
  <2>4. Parents' /\ Spoiled'
    BY <1>1, <1>2 DEF Parents, Spoiled
  <2>5. ParentFirst'
    <3>1. \A j \in Ids : call'[j].parent = call[j].parent
      BY <1>1
    <3>. QED
      BY <1>2, <3>1 DEF ParentFirst, LinesOf
  <2>. QED
    BY <2>1, <2>2, <2>3, <2>4, <2>5
<1>. QED
  BY <1>3, <1>4, <1>5

LEMMA RotateStep ==
    ASSUME McpInv, NEW i \in Ids, Rotate(i)
    PROVE  McpInv'
<1>. USE McpAssumption DEF McpInv, At
<1>1. /\ call[i].stage = "rotate" /\ alive' = alive /\ log' = log /\ lock' = lock
      /\ written' = written /\ unlogged' = unlogged /\ budget' = budget
  BY DEF Rotate
<1>2. PICK s \in {"removed", "append"} : To(i, s)
  BY DEF Rotate
<1>3. /\ \A j \in Ids : j # i => call'[j] = call[j]
      /\ call'[i].stage = s
      /\ call'[i].by = call[i].by /\ call'[i].parent = call[i].parent
      /\ call' \in [Ids -> Calls]
  <2>1. s \in Stages
    BY DEF Stages
  <2>. QED
    BY <1>2, <2>1, Goes DEF TypeOK
<1>4. Exclusive'
  BY <1>1, <1>3 DEF Exclusive, Recording
<1>5. Recorded'
  BY <1>1, <1>3 DEF Recorded, Begun, Entered, Stages
<1>6. Parents' /\ Spoiled'
  BY <1>1, <1>3 DEF Parents, Spoiled
<1>7. ParentFirst'
  BY <1>1, <1>3 DEF ParentFirst, LinesOf
<1>8. \A j \in Ids : j # i => call[j].stage \notin Recording
  BY <1>1 DEF Exclusive, Recording
<1>9. CASE Len(log) # 0 /\ Len(log) + 1 > LogLimit
  <2>1. old' = << >> /\ To(i, "removed")
    BY <1>9 DEF Rotate
  <2>2. call'[i].stage = "removed"
    BY <2>1, Goes DEF TypeOK, Stages
  <2>3. Len(log) = LogLimit
    BY <1>9 DEF TypeOK, Room
  <2>4. TypeOK'
    BY <1>1, <1>3, <2>1 DEF TypeOK
  <2>5. TrailEnds'
    BY <1>1, <2>1 DEF TrailEnds, TypeOK
  <2>6. Room'
    BY <1>1, <1>3, <1>8, <2>1, <2>2, <2>3 DEF Room, Recording
  <2>. QED
    BY <1>4, <1>5, <1>6, <1>7, <2>4, <2>5, <2>6
<1>10. CASE ~(Len(log) # 0 /\ Len(log) + 1 > LogLimit)
  <2>1. old' = old /\ To(i, "append")
    BY <1>10 DEF Rotate
  <2>2. call'[i].stage = "append"
    BY <2>1, Goes DEF TypeOK, Stages
  <2>3. Len(log) < LogLimit
    BY <1>10 DEF TypeOK, Room
  <2>4. TypeOK'
    BY <1>1, <1>3, <2>1 DEF TypeOK
  <2>5. TrailEnds'
    BY <1>1, <2>1 DEF TrailEnds
  <2>6. Room'
    BY <1>1, <1>3, <2>1, <2>2, <2>3 DEF Room
  <2>. QED
    BY <1>4, <1>5, <1>6, <1>7, <2>4, <2>5, <2>6
<1>. QED
  BY <1>9, <1>10

\* Renaming leaves what the two files hold together as it was.
LEMMA RenameStep ==
    ASSUME McpInv, NEW i \in Ids, Rename(i)
    PROVE  McpInv'
<1>. USE McpAssumption DEF McpInv, At
<1>1. /\ call[i].stage = "removed" /\ alive' = alive /\ lock' = lock
      /\ written' = written /\ unlogged' = unlogged /\ budget' = budget
      /\ old' = log /\ log' = << >>
  BY DEF Rename
<1>2. /\ \A j \in Ids : j # i => call'[j] = call[j]
      /\ call'[i].stage = "append"
      /\ call'[i].by = call[i].by /\ call'[i].parent = call[i].parent
      /\ call' \in [Ids -> Calls]
  <2>1. "append" \in Stages /\ To(i, "append")
    BY DEF Stages, Rename
  <2>. QED
    BY <2>1, Goes DEF TypeOK
<1>3. old = << >> /\ Len(log) = LogLimit /\ Len(log') = 0
  BY <1>1 DEF Room
<1>4. TypeOK'
  BY <1>1, <1>2 DEF TypeOK
<1>5. Exclusive'
  BY <1>1, <1>2 DEF Exclusive, Recording
<1>6. TrailEnds'
  BY <1>1, <1>3 DEF TrailEnds, TypeOK
<1>7. Room'
  <2>1. \A j \in Ids : j # i => call[j].stage \notin Recording
    BY <1>1 DEF Exclusive, Recording
  <2>. QED
    BY <1>1, <1>2, <1>3, <2>1 DEF Room, Recording
<1>8. Recorded'
  BY <1>1, <1>2 DEF Recorded, Begun, Entered, Stages
<1>9. Parents' /\ Spoiled'
  BY <1>1, <1>2 DEF Parents, Spoiled
<1>10. ParentFirst'
  <2>1. \A j \in Ids : call'[j].parent = call[j].parent
    BY <1>2
  <2>. QED
    BY <1>1, <2>1 DEF ParentFirst, LinesOf
<1>. QED
  BY <1>4, <1>5, <1>6, <1>7, <1>8, <1>9, <1>10

-----------------------------------------------------------------------------
(* The steps that write.                                                   *)

\* A piece comes to the end of the log, and of everything written.
Grows(i, as) ==
    /\ log' \in Seq(Pieces) /\ written' \in Seq(Pieces)
    /\ Len(log') = Len(log) + 1 /\ Len(written') = Len(written) + 1
    /\ \A k \in 1..Len(log) : log'[k] = log[k]
    /\ \A k \in 1..Len(written) : written'[k] = written[k]
    /\ log'[Len(log) + 1] = written'[Len(written) + 1]
    /\ written'[Len(written) + 1].of = i /\ written'[Len(written) + 1].as = as
    /\ DOMAIN written = 1..Len(written) /\ DOMAIN written' = 1..(Len(written) + 1)
    /\ Len(written) \in Nat /\ Len(log) \in Nat /\ Len(old) \in Nat

LEMMA AddGrows ==
    ASSUME TypeOK, NEW i \in Ids, NEW as \in {"whole", "glued", "part"}, Add(i, as)
    PROVE  Grows(i, as)
<1>. DEFINE piece == [of |-> i, as |-> as]
<1>1. piece \in Pieces /\ piece.of = i /\ piece.as = as
  BY DEF Pieces
<1>2. /\ log \in Seq(Pieces) /\ written \in Seq(Pieces) /\ old \in Seq(Pieces)
      /\ log' = Append(log, piece) /\ written' = Append(written, piece)
  BY DEF TypeOK, Add
<1>. HIDE DEF piece
<1>3. /\ log' \in Seq(Pieces) /\ Len(log') = Len(log) + 1
      /\ \A k \in 1..Len(log) : log'[k] = log[k]
      /\ log'[Len(log) + 1] = piece
  BY <1>1, <1>2
<1>4. /\ written' \in Seq(Pieces) /\ Len(written') = Len(written) + 1
      /\ \A k \in 1..Len(written) : written'[k] = written[k]
      /\ written'[Len(written) + 1] = piece
  BY <1>1, <1>2
<1>5. /\ DOMAIN written = 1..Len(written) /\ DOMAIN written' = 1..(Len(written) + 1)
      /\ Len(written) \in Nat /\ Len(log) \in Nat /\ Len(old) \in Nat
  BY <1>2, <1>4
<1>. QED
  BY <1>1, <1>3, <1>4, <1>5 DEF Grows

LEMMA TrailGrows ==
    ASSUME TrailEnds, NEW i, NEW as, Grows(i, as), old' = old
    PROVE  TrailEnds'
<1>. DEFINE n == Len(written) - Len(old) - Len(log)
<1>1. /\ n \in Nat /\ Len(old) \in Nat /\ Len(log) \in Nat
      /\ Len(written) = n + Len(old) + Len(log)
      /\ Len(written') - Len(old') - Len(log') = n
  BY DEF TrailEnds, Grows
<1>2. \A k \in 1..Len(old) : old[k] = written[n + k]
  BY DEF TrailEnds
<1>3. \A k \in 1..Len(log) : log[k] = written[n + Len(old) + k]
  BY DEF TrailEnds
<1>. HIDE DEF n
<1>4. ASSUME NEW k \in 1..Len(old)  PROVE old[k] = written'[n + k]
  <2>1. n + k \in 1..Len(written)
    BY <1>1
  <2>. QED
    BY <1>2, <2>1 DEF Grows
<1>5. ASSUME NEW k \in 1..(Len(log) + 1)  PROVE log'[k] = written'[n + Len(old) + k]
  <2>1. CASE k = Len(log) + 1
    <3>1. n + Len(old) + k = Len(written) + 1
      BY <1>1, <2>1
    <3>. QED
      BY <2>1, <3>1 DEF Grows
  <2>2. CASE k \in 1..Len(log)
    <3>1. n + Len(old) + k \in 1..Len(written)
      BY <1>1, <2>2
    <3>. QED
      BY <1>3, <2>2, <3>1 DEF Grows
  <2>. QED
    BY <1>1, <2>1, <2>2
<1>6. \A k \in 1..Len(old') : old'[k] = written'[n + k]
  BY <1>4
<1>7. \A k \in 1..Len(log') : log'[k] = written'[n + Len(old') + k]
  BY <1>5 DEF Grows
<1>8. n >= 0
  BY <1>1
<1>. QED
  BY <1>1, <1>6, <1>7, <1>8 DEF TrailEnds

\* One more piece fits, as only one call is at the log.
LEMMA RoomGrows ==
    ASSUME McpInv, NEW i \in Ids, At(i, "append"), NEW as, Grows(i, as), old' = old,
           \A j \in Ids : j # i => call'[j].stage \in {call[j].stage, "lost"},
           call'[i].stage \in {"unlock", "lost"}
    PROVE  Room'
<1>1. \A j \in Ids : j # i => call[j].stage \notin Recording
  BY DEF McpInv, Exclusive, Recording, At
<1>2. \A j \in Ids : call'[j].stage \notin {"removed", "append"}
  BY <1>1 DEF Recording
<1>3. Len(log) < LogLimit
  BY DEF McpInv, Room
<1>4. Len(log') =< LogLimit /\ Len(old') =< LogLimit
  BY <1>3, McpAssumption DEF McpInv, Room, Grows
<1>5. \/ Len(old') + Len(log') >= Len(written')
      \/ Len(old') + Len(log') >= LogLimit
  BY McpAssumption DEF McpInv, Room, Grows
<1>. QED
  BY <1>2, <1>4, <1>5 DEF Room, At

\* Each call writes at most once, and nothing written before changes.
LEMMA PiecesGrow ==
    ASSUME McpInv, NEW i \in Ids, At(i, "append"), NEW as, Grows(i, as)
    PROVE  /\ \A k, m \in DOMAIN written' :
                 written'[k].of \in Ids /\ written'[k].of = written'[m].of => k = m
           /\ \A j \in Ids : j # i => (Begun(j)' <=> Begun(j)) /\ (Entered(j)' <=> Entered(j))
           /\ Entered(i)' <=> as # "part"
<1>1. ~Begun(i)
  BY DEF McpInv, Recorded, At, Stages
<1>2. \A k \in 1..Len(written) : written'[k] = written[k] /\ written[k].of # i
  BY <1>1 DEF Begun, Grows
<1>3. \A k \in DOMAIN written' : k \in 1..Len(written) \/ k = Len(written) + 1
  BY DEF Grows
<1>4. ASSUME NEW k \in DOMAIN written', NEW m \in DOMAIN written',
             written'[k].of \in Ids, written'[k].of = written'[m].of
      PROVE  k = m
  <2>1. CASE k \in 1..Len(written) /\ m \in 1..Len(written)
    BY <1>2, <1>4, <2>1 DEF McpInv, Recorded, Grows
  <2>2. CASE ~(k \in 1..Len(written) /\ m \in 1..Len(written))
    BY <1>2, <1>3, <1>4, <2>2 DEF Grows
  <2>. QED
    BY <2>1, <2>2
<1>5. ASSUME NEW j \in Ids, j # i
      PROVE  (Begun(j)' <=> Begun(j)) /\ (Entered(j)' <=> Entered(j))
  <2>1. Begun(j)' => Begun(j)
    BY <1>2, <1>3, <1>5 DEF Begun, Grows
  <2>2. Begun(j) => Begun(j)'
    BY <1>2, <1>5 DEF Begun, Grows
  <2>3. Entered(j)' => Entered(j)
    BY <1>2, <1>3, <1>5 DEF Entered, Grows
  <2>4. Entered(j) => Entered(j)'
    BY <1>2, <1>5 DEF Entered, Grows
  <2>. QED
    BY <2>1, <2>2, <2>3, <2>4
<1>6. Entered(i)' <=> as # "part"
  <2>1. as # "part" => Entered(i)'
    <3>1. Len(written) + 1 \in DOMAIN written'
      BY DEF Grows
    <3>. QED
      BY <3>1 DEF Entered, Grows
  <2>2. Entered(i)' => as # "part"
    BY <1>2, <1>3 DEF Entered, Grows
  <2>. QED
    BY <2>1, <2>2
<1>. QED
  BY <1>4, <1>5, <1>6

\* A record comes after the search it names, and a part is one of a search that names none.
LEMMA ParentsGrow ==
    ASSUME McpInv, NEW i \in Ids, At(i, "append"), NEW as, Grows(i, as),
           unlogged \subseteq unlogged', \A j \in Ids : call'[j].parent = call[j].parent
    PROVE  ParentFirst'
<1>. SUFFICES ASSUME NEW j \in Ids, NEW k \in DOMAIN written', NEW p, p = call[j].parent,
                     written'[k].of = j, p # None, p \notin unlogged
              PROVE  \E m \in DOMAIN written' :
                         written'[m].of = p /\ written'[m].as # "part" /\ m < k
  BY DEF ParentFirst, LinesOf
<1>1. CASE k \in 1..Len(written)
  <2>1. written[k].of = j /\ k \in DOMAIN written
    BY <1>1 DEF Grows
  <2>2. PICK m \in DOMAIN written : written[m].of = p /\ written[m].as # "part" /\ m < k
    BY <2>1 DEF McpInv, ParentFirst, LinesOf
  <2>3. m \in DOMAIN written' /\ written'[m] = written[m]
    BY <2>2 DEF Grows
  <2>. QED
    BY <2>2, <2>3
<1>2. CASE k = Len(written) + 1
  <2>1. j = i
    BY <1>2 DEF Grows
  <2>2. p \in Ids
    BY <2>1 DEF McpInv, TypeOK, Calls
  <2>3. Entered(p)
    BY <2>1, <2>2 DEF McpInv, Parents, Recorded, At
  <2>4. PICK m \in DOMAIN written : written[m].of = p /\ written[m].as # "part"
    BY <2>3 DEF Entered
  <2>5. m \in DOMAIN written' /\ written'[m] = written[m] /\ m < k
    BY <1>2, <2>4 DEF Grows
  <2>. QED
    BY <2>4, <2>5
<1>. QED
  BY <1>1, <1>2 DEF Grows

\* What is spoiled was torn by the write before.
LEMMA SpoiledGrows ==
    ASSUME McpInv, NEW i \in Ids, At(i, "append"), NEW as, Grows(i, as),
           as = "glued" => Torn,
           as = "part" => i \in unlogged' \/ At(i, "lost")',
           unlogged \subseteq unlogged',
           \A j \in Ids : At(j, "lost") => At(j, "lost")'
    PROVE  Spoiled'
<1>. SUFFICES ASSUME NEW k \in DOMAIN written'
              PROVE  /\ written'[k].as = "part" =>
                            /\ written'[k].of \in Ids
                            /\ \/ written'[k].of \in unlogged'
                               \/ call'[written'[k].of].stage = "lost"
                     /\ written'[k].as = "glued" => k > 1 /\ written'[k - 1].as = "part"
  BY DEF Spoiled, At
<1>1. CASE k \in 1..Len(written)
  <2>1. written'[k] = written[k] /\ k \in DOMAIN written
    BY <1>1 DEF Grows
  <2>2. written[k].as = "part" =>
            /\ written[k].of \in Ids
            /\ written[k].of \in unlogged' \/ call'[written[k].of].stage = "lost"
    BY <2>1 DEF McpInv, Spoiled, At
  <2>3. written[k].as = "glued" => k > 1 /\ written[k - 1].as = "part"
    BY <2>1 DEF McpInv, Spoiled
  <2>4. k > 1 => written'[k - 1] = written[k - 1]
    BY <1>1 DEF Grows
  <2>. QED
    BY <2>1, <2>2, <2>3, <2>4
<1>2. CASE k = Len(written) + 1
  <2>1. written'[k].of = i /\ written'[k].as = as
    BY <1>2 DEF Grows
  <2>2. as = "glued" => Len(written) > 0 /\ written[Len(written)].as = "part"
    <3>1. SUFFICES ASSUME as = "glued"
                   PROVE  Len(written) > 0 /\ written[Len(written)].as = "part"
      OBVIOUS
    <3>2. Len(log) > 0 /\ log[Len(log)].as = "part"
      BY <3>1 DEF Torn, McpInv, TypeOK
    <3>3. Len(log) \in 1..Len(log) /\ Len(log) =< Len(written)
      BY <3>2 DEF McpInv, TrailEnds, Grows
    <3>4. log[Len(log)] = written[Len(written) - Len(old) - Len(log) + Len(old) + Len(log)]
      BY <3>3 DEF McpInv, TrailEnds
    <3>. QED
      BY <3>2, <3>3, <3>4 DEF Grows
  <2>3. as = "glued" => k > 1 /\ written'[k - 1].as = "part"
    BY <1>2, <2>2 DEF Grows
  <2>. QED
    BY <2>1, <2>3 DEF At
<1>. QED
  BY <1>1, <1>2 DEF Grows

\* The record is written where there is room, once, and after the record of the
\* search it names.
LEMMA AppendStep ==
    ASSUME McpInv, NEW i \in Ids, AppendRecord(i)
    PROVE  McpInv'
<1>1. /\ At(i, "append") /\ alive' = alive /\ lock' = lock
      /\ unlogged' = unlogged /\ budget' = budget /\ old' = old
  BY DEF AppendRecord
<1>2. /\ \A j \in Ids : j # i => call'[j] = call[j]
      /\ call'[i].stage = "unlock"
      /\ call'[i].by = call[i].by /\ call'[i].parent = call[i].parent
      /\ call' \in [Ids -> Calls]
  <2>1. "unlock" \in Stages /\ To(i, "unlock")
    BY DEF Stages, AppendRecord
  <2>. QED
    BY <2>1, Goes DEF McpInv, TypeOK
<1>3. PICK as \in {"whole", "glued"} : Add(i, as) /\ (as = "glued" => Torn)
  BY DEF AppendRecord
<1>4. Grows(i, as)
  BY <1>3, AddGrows DEF McpInv
<1>5. TypeOK'
  BY <1>1, <1>2, <1>4 DEF McpInv, TypeOK, Grows
<1>6. Exclusive'
  BY <1>1, <1>2 DEF McpInv, Exclusive, Recording, At
<1>7. TrailEnds'
  BY <1>1, <1>4, TrailGrows DEF McpInv
<1>8. Room'
  BY <1>1, <1>2, <1>4, RoomGrows
<1>9. Recorded'
  BY <1>1, <1>2, <1>3, <1>4, PiecesGrow DEF McpInv, Recorded, At, Stages
<1>10. Spoiled'
  <2>1. \A j \in Ids : At(j, "lost") => At(j, "lost")'
    BY <1>1, <1>2 DEF At
  <2>. QED
    BY <1>1, <1>3, <1>4, <2>1, SpoiledGrows
<1>11. Parents'
  BY <1>1, <1>2 DEF McpInv, Parents, At
<1>12. ParentFirst'
  BY <1>1, <1>2, <1>4, ParentsGrow
<1>. QED
  BY <1>5, <1>6, <1>7, <1>8, <1>9, <1>10, <1>11, <1>12 DEF McpInv

\* A record that cannot be written is known not to be there, though a part of it may be.
LEMMA FailStep ==
    ASSUME McpInv, NEW i \in Ids, RecordFails(i)
    PROVE  McpInv'
<1>1. /\ call[i].stage \in {"rotate", "removed", "append"}
      /\ alive' = alive /\ lock' = lock /\ old' = old
      /\ unlogged' = unlogged \cup {i} /\ budget > 0 /\ budget' = budget - 1
  BY DEF RecordFails
<1>2. /\ \A j \in Ids : j # i => call'[j] = call[j]
      /\ call'[i].stage = "unlock"
      /\ call'[i].by = call[i].by /\ call'[i].parent = call[i].parent
      /\ call' \in [Ids -> Calls]
  <2>1. "unlock" \in Stages /\ To(i, "unlock")
    BY DEF Stages, RecordFails
  <2>. QED
    BY <2>1, Goes DEF McpInv, TypeOK
<1>3. Exclusive'
  BY <1>1, <1>2 DEF McpInv, Exclusive, Recording
<1>4. Parents'
  BY <1>1, <1>2 DEF McpInv, Parents, At
<1>5. \A j \in Ids : At(j, "lost") => At(j, "lost")'
  BY <1>1, <1>2 DEF At
<1>6. \A j \in Ids : call'[j].parent = call[j].parent
  BY <1>2
<1>7. ~Begun(i) /\ ~Entered(i) /\ i \notin unlogged
  BY <1>1 DEF McpInv, Recorded, Stages, Begun, Entered
<1>8. CASE UNCHANGED << log, written >>
  <2>1. TypeOK'
    BY <1>1, <1>2, <1>8, McpAssumption DEF McpInv, TypeOK
  <2>2. TrailEnds'
    BY <1>1, <1>8 DEF McpInv, TrailEnds
  <2>3. Room'
    BY <1>1, <1>2, <1>8 DEF McpInv, Room, At
  <2>4. Recorded'
    <3>1. \A j \in Ids : (Entered(j)' <=> Entered(j)) /\ (Begun(j)' <=> Begun(j))
      BY <1>8 DEF Entered, Begun
    <3>. QED
      BY <1>1, <1>2, <1>7, <1>8, <3>1 DEF McpInv, Recorded, Stages
  <2>5. Spoiled'
    BY <1>1, <1>5, <1>8 DEF McpInv, Spoiled, At
  <2>6. ParentFirst'
    BY <1>1, <1>6, <1>8 DEF McpInv, ParentFirst, LinesOf
  <2>. QED
    BY <1>3, <1>4, <2>1, <2>2, <2>3, <2>4, <2>5, <2>6 DEF McpInv
<1>9. CASE At(i, "append") /\ Add(i, "part")
  <2>1. Grows(i, "part")
    BY <1>9, AddGrows DEF McpInv
  <2>2. TypeOK'
    BY <1>1, <1>2, <2>1, McpAssumption DEF McpInv, TypeOK, Grows
  <2>3. TrailEnds'
    BY <1>1, <2>1, TrailGrows DEF McpInv
  <2>4. Room'
    BY <1>1, <1>2, <1>9, <2>1, RoomGrows
  <2>5. Recorded'
    BY <1>1, <1>2, <1>9, <2>1, PiecesGrow DEF McpInv, Recorded, At, Stages
  <2>6. Spoiled'
    BY <1>1, <1>5, <1>9, <2>1, SpoiledGrows
  <2>7. ParentFirst'
    BY <1>1, <1>6, <1>9, <2>1, ParentsGrow
  <2>. QED
    BY <1>3, <1>4, <2>2, <2>3, <2>4, <2>5, <2>6, <2>7 DEF McpInv
<1>. QED
  BY <1>8, <1>9 DEF RecordFails

LEMMA ReplyStep ==
    ASSUME McpInv, NEW i \in Ids, Reply(i)
    PROVE  McpInv'
<1>. USE McpAssumption DEF McpInv, At
<1>1. /\ call[i].stage = "unlock"
      /\ alive' = alive /\ written' = written /\ unlogged' = unlogged /\ budget' = budget
      /\ old' = old /\ log' = log /\ lock' \in {lock, None}
  BY DEF Reply
<1>2. /\ \A j \in Ids : j # i => call'[j] = call[j]
      /\ call'[i].stage = "answered"
      /\ call'[i].by = call[i].by /\ call'[i].parent = call[i].parent
      /\ call' \in [Ids -> Calls]
  <2>1. "answered" \in Stages /\ To(i, "answered")
    BY DEF Stages, Reply
  <2>. QED
    BY <2>1, Goes DEF TypeOK
<1>3. TypeOK'
  BY <1>1, <1>2 DEF TypeOK
<1>4. Exclusive'
  <2>1. \A j \in Ids : j # i => call[j].stage \notin Recording
    BY <1>1 DEF Exclusive, Recording
  <2>. QED
    BY <1>1, <1>2, <2>1 DEF Exclusive, Recording
<1>5. TrailEnds'
  BY <1>1 DEF TrailEnds
<1>6. Room'
  BY <1>1, <1>2 DEF Room
<1>7. Recorded'
  BY <1>1, <1>2 DEF Recorded, Begun, Entered, Stages
<1>8. Parents' /\ Spoiled'
  BY <1>1, <1>2 DEF Parents, Spoiled
<1>9. ParentFirst'
  <2>1. \A j \in Ids : call'[j].parent = call[j].parent
    BY <1>2
  <2>. QED
    BY <1>1, <2>1 DEF ParentFirst, LinesOf
<1>. QED
  BY <1>3, <1>4, <1>5, <1>6, <1>7, <1>8, <1>9

\* The calls of an adapter that is killed are lost, with the lock it held.
LEMMA KillStep ==
    ASSUME McpInv, NEW a \in Adapters, Kill(a)
    PROVE  McpInv'
<1>1. /\ alive' = alive \ {a} /\ budget > 0 /\ budget' = budget - 1
      /\ lock' = IF lock = a THEN None ELSE lock
      /\ old' = old /\ unlogged' = unlogged
  BY DEF Kill
<1>2. ASSUME NEW i \in Ids
      PROVE  /\ call'[i] \in Calls
             /\ call'[i].parent = call[i].parent
             /\ call'[i].stage \in {call[i].stage, "lost"}
             /\ call'[i].stage # "lost" =>
                    /\ call'[i] = call[i]
                    /\ call[i].by # a \/ call[i].stage \in {"answered", "refused"}
             /\ call[i].stage = "answered" => call'[i].stage = "answered"
             /\ call[i].by = a /\ call[i].stage = "append" => call'[i].stage = "lost"
  <2>1. call[i] \in Calls
    BY DEF McpInv, TypeOK
  <2>2. CASE call[i].by = a /\ call[i].stage \notin {"answered", "refused"}
    <3>1. call'[i] = [NoCall EXCEPT !.stage = "lost", !.parent = call[i].parent]
      BY <2>2 DEF Kill
    <3>. QED
      BY <2>1, <2>2, <3>1, McpAssumption DEF NoCall, Calls, Stages, Results
  <2>3. CASE ~(call[i].by = a /\ call[i].stage \notin {"answered", "refused"})
    <3>1. call'[i] = call[i]
      BY <2>3 DEF Kill
    <3>. QED
      BY <2>1, <2>3, <3>1
  <2>. QED
    BY <2>2, <2>3
<1>3. call' \in [Ids -> Calls]
  <2>1. call' = [i \in Ids |-> call'[i]]
    BY DEF Kill
  <2>. QED
    BY <1>2, <2>1
<1>4. Exclusive'
  BY <1>1, <1>2 DEF McpInv, Exclusive, Recording
<1>5. Parents'
  BY <1>1, <1>2 DEF McpInv, Parents, At
<1>6. \A j \in Ids : At(j, "lost") => At(j, "lost")'
  BY <1>1, <1>2 DEF At
<1>7. \A j \in Ids : call'[j].parent = call[j].parent
  BY <1>2
<1>8. CASE UNCHANGED << log, written >>
  <2>1. TypeOK'
    BY <1>1, <1>3, <1>8, McpAssumption DEF McpInv, TypeOK
  <2>2. TrailEnds'
    BY <1>1, <1>8 DEF McpInv, TrailEnds
  <2>3. Room'
    BY <1>1, <1>2, <1>8 DEF McpInv, Room, At
  <2>4. Recorded'
    <3>1. \A j \in Ids : (Entered(j)' <=> Entered(j)) /\ (Begun(j)' <=> Begun(j))
      BY <1>8 DEF Entered, Begun
    <3>. QED
      BY <1>1, <1>2, <1>8, <3>1 DEF McpInv, Recorded, Stages
  <2>5. Spoiled'
    BY <1>1, <1>6, <1>8 DEF McpInv, Spoiled, At
  <2>6. ParentFirst'
    BY <1>1, <1>7, <1>8 DEF McpInv, ParentFirst, LinesOf
  <2>. QED
    BY <1>4, <1>5, <2>1, <2>2, <2>3, <2>4, <2>5, <2>6 DEF McpInv
<1>9. ASSUME NEW i \in Ids, call[i].by = a, At(i, "append"), Add(i, "part")
      PROVE  McpInv'
  <2>1. Grows(i, "part")
    BY <1>9, AddGrows DEF McpInv
  <2>2. call'[i].stage = "lost"
    BY <1>2, <1>9 DEF At
  <2>3. TypeOK'
    BY <1>1, <1>3, <2>1, McpAssumption DEF McpInv, TypeOK, Grows
  <2>4. TrailEnds'
    BY <1>1, <2>1, TrailGrows DEF McpInv
  <2>5. Room'
    BY <1>1, <1>2, <1>9, <2>1, <2>2, RoomGrows
  <2>6. Recorded'
    BY <1>1, <1>2, <1>9, <2>1, <2>2, PiecesGrow DEF McpInv, Recorded, Stages
  <2>7. Spoiled'
    BY <1>1, <1>6, <1>9, <2>1, <2>2, SpoiledGrows DEF At
  <2>8. ParentFirst'
    BY <1>1, <1>7, <1>9, <2>1, ParentsGrow
  <2>. QED
    BY <1>4, <1>5, <2>3, <2>4, <2>5, <2>6, <2>7, <2>8 DEF McpInv
<1>. QED
  BY <1>8, <1>9 DEF Kill

-----------------------------------------------------------------------------
(* The theorems.                                                           *)

\* The inductive invariant: one call at a time works on the log, there is room
\* for what it adds, and each call is entered at most once.  (write, audited)
THEOREM McpInvariance == Spec => []McpInv
<1>1. Init => McpInv
  BY Initially
<1>2. McpInv /\ [Next]_vars => McpInv'
  <2>. SUFFICES ASSUME McpInv, [Next]_vars PROVE McpInv'
    OBVIOUS
  <2>1. CASE UNCHANGED vars
    BY <2>1 DEF vars, McpInv, TypeOK, Exclusive, TrailEnds, Room, Recorded, Begun, Entered,
                Spoiled, Parents, ParentFirst, LinesOf, At
  <2>2. CASE Next
    BY <2>2, CallStep, AnswerStep, LockStep, RotateStep, RenameStep, AppendStep, FailStep,
       ReplyStep, KillStep DEF Next, Record
  <2>. QED
    BY <2>1, <2>2
<1>. QED
  BY <1>1, <1>2, PTL DEF Spec

\* Every variable stays in its range.
THEOREM McpTypes == Spec => []TypeOK
<1>1. McpInv => TypeOK
  BY DEF McpInv
<1>. QED
  BY <1>1, McpInvariance, PTL

\* The suffix of a sequence, element by element.
LEMMA SuffixByElement ==
    ASSUME NEW S, NEW s \in Seq(S), NEW t \in Seq(S), Len(s) =< Len(t),
           \A k \in 1..Len(s) : s[k] = t[Len(t) - Len(s) + k]
    PROVE  IsSuffix(s, t)
<1>1. /\ Reverse(s) \in Seq(S) /\ Len(Reverse(s)) = Len(s)
      /\ Reverse(t) \in Seq(S) /\ Len(Reverse(t)) = Len(t)
  BY DEF Reverse
<1>2. \A k \in 1..Len(s) : Reverse(s)[k] = Reverse(t)[k]
  <2>. SUFFICES ASSUME NEW k \in 1..Len(s) PROVE Reverse(s)[k] = Reverse(t)[k]
    OBVIOUS
  <2>1. Reverse(s)[k] = s[Len(s) - k + 1] /\ Reverse(t)[k] = t[Len(t) - k + 1]
    BY DEF Reverse
  <2>2. Len(s) - k + 1 \in 1..Len(s) /\ Len(t) - Len(s) + (Len(s) - k + 1) = Len(t) - k + 1
    OBVIOUS
  <2>. QED
    BY <2>1, <2>2
<1>3. SubSeq(Reverse(s), 1, Len(s)) = SubSeq(Reverse(t), 1, Len(s))
  BY <1>1, <1>2
<1>. QED
  BY <1>1, <1>3 DEF IsSuffix, IsPrefix

\* Nothing but the oldest records is ever lost, whoever rotates, fails or is
\* killed halfway.  (write, rotate_if_needed)
THEOREM TrailSurvives == Spec => []TrailIsSuffix
<1>1. McpInv => TrailIsSuffix
  <2>. SUFFICES ASSUME McpInv PROVE TrailIsSuffix
    OBVIOUS
  <2>. DEFINE t == old \o log
  <2>1. /\ old \in Seq(Pieces) /\ log \in Seq(Pieces) /\ written \in Seq(Pieces)
        /\ Len(old) + Len(log) =< Len(written)
    BY DEF McpInv, TypeOK, TrailEnds
  <2>2. /\ t \in Seq(Pieces) /\ Len(t) = Len(old) + Len(log)
        /\ \A k \in 1..Len(t) : t[k] = IF k =< Len(old) THEN old[k] ELSE log[k - Len(old)]
    BY <2>1
  <2>3. \A k \in 1..Len(t) : t[k] = written[Len(written) - Len(t) + k]
    <3>. SUFFICES ASSUME NEW k \in 1..Len(t) PROVE t[k] = written[Len(written) - Len(t) + k]
      OBVIOUS
    <3>1. CASE k =< Len(old)
      BY <2>1, <2>2, <3>1 DEF McpInv, TrailEnds
    <3>2. CASE k > Len(old)
      <4>1. k - Len(old) \in 1..Len(log)
        BY <2>1, <2>2, <3>2
      <4>2. log[k - Len(old)] =
                written[Len(written) - Len(old) - Len(log) + Len(old) + (k - Len(old))]
        BY <4>1 DEF McpInv, TrailEnds
      <4>. QED
        BY <2>1, <2>2, <3>2, <4>1, <4>2
    <3>. QED
      BY <2>1, <2>2, <3>1, <3>2
  <2>. HIDE DEF t
  <2>4. IsSuffix(t, written)
    BY <2>1, <2>2, <2>3, SuffixByElement
  <2>. QED
    BY <2>4 DEF TrailIsSuffix, t
<1>. QED
  BY <1>1, McpInvariance, PTL

\* No file outgrows the limit and the newest records up to it are there.
\* (rotate_if_needed)
THEOREM TrailIsBounded == Spec => []TrailBounded
<1>1. McpInv => TrailBounded
  BY McpAssumption DEF McpInv, TypeOK, Room, TrailEnds, TrailBounded
<1>. QED
  BY <1>1, McpInvariance, PTL

\* Every call that reached its tool has one line when its client has the answer, unless
\* writing it failed, and only a part that was left just before it spoils that line; a
\* refused call leaves nothing.  (audited, write)
THEOREM AnswersAreOnRecord == Spec => []AnsweredOnRecord
<1>1. McpInv => AnsweredOnRecord
  <2>. SUFFICES ASSUME McpInv PROVE AnsweredOnRecord
    OBVIOUS
  <2>1. ASSUME NEW i \in Ids, At(i, "answered")
        PROVE  Cardinality(LinesOf(i)) = (IF i \in unlogged THEN 0 ELSE 1)
    <3>1. CASE i \in unlogged
      <4>1. LinesOf(i) = {}
        BY <2>1, <3>1 DEF McpInv, Recorded, Entered, LinesOf, At
      <4>. QED
        BY <3>1, <4>1, FS_EmptySet
    <3>2. CASE i \notin unlogged
      <4>1. PICK m \in DOMAIN written : written[m].of = i /\ written[m].as # "part"
        BY <2>1, <3>2 DEF McpInv, Recorded, Entered, At
      <4>2. LinesOf(i) = {m}
        BY <4>1 DEF McpInv, Recorded, LinesOf
      <4>. QED
        BY <3>2, <4>2, FS_Singleton
    <3>. QED
      BY <3>1, <3>2
  <2>2. ASSUME NEW k \in DOMAIN written
        PROVE  /\ written[k].of \in Ids => ~At(written[k].of, "refused")
               /\ written[k].as = "glued" =>
                      /\ k > 1 /\ written[k - 1].as = "part"
                      /\ written[k - 1].of \in unlogged \/ At(written[k - 1].of, "lost")
    <3>1. written[k].of \in Ids => ~At(written[k].of, "refused")
      BY DEF McpInv, Recorded, Begun, At, Stages
    <3>2. SUFFICES ASSUME written[k].as = "glued"
                   PROVE  /\ k > 1 /\ written[k - 1].as = "part"
                          /\ written[k - 1].of \in unlogged \/ At(written[k - 1].of, "lost")
      BY <3>1
    <3>3. k > 1 /\ written[k - 1].as = "part"
      BY <3>2 DEF McpInv, Spoiled
    <3>4. k - 1 \in DOMAIN written
      BY <3>3 DEF McpInv, TypeOK
    <3>. QED
      BY <3>3, <3>4 DEF McpInv, Spoiled
  <2>. QED
    BY <2>1, <2>2 DEF AnsweredOnRecord
<1>. QED
  BY <1>1, McpInvariance, PTL

\* An inspection comes after the search it names.  (parent_search_id)
THEOREM ParentsComeFirst == Spec => []ParentFirst
<1>1. McpInv => ParentFirst
  BY DEF McpInv
<1>. QED
  BY <1>1, McpInvariance, PTL

=============================================================================
