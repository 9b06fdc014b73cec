---------------------------- MODULE DaemonProofs ----------------------------
(***************************************************************************)
(* The daemon's books balance and it leaves in order: proofs about Daemon, *)
(* for any number of daemons, workers, clients and panics.                 *)
(***************************************************************************)
EXTENDS Daemon, FiniteSetTheorems, SequenceTheorems, TLAPS

-----------------------------------------------------------------------------
(* The inductive invariant.                                                *)

Busy(w) == worker[w] \in Clients
Ended == {w \in Workers : worker[w] = "exited" /\ step[w] = "none"}
In(s, c) == \E i \in 1..Len(s) : s[i] = c
Once(s) == \A i, j \in 1..Len(s) : s[i] = s[j] => i = j

\* A connection that waits for a worker or has one.
Pending(c) == In(backlog, c) \/ In(queue, c) \/ held = c \/ \E w \in Workers : worker[w] = c

\* From the lock to its release a daemon is alone.
Owned ==
    \A d \in Daemons :
        state[d] \in {"locked", "cleared", "booting", "serving", "joining", "unlocking"}
            => lock = d

\* A connection is held exactly between accept and the end of try_send.
Held == turn \in {"count", "send", "reject"} <=> held # Nobody

\* A worker has a connection from the queue to the response.
Stages ==
    \A w \in Workers :
        /\ Busy(w) <=> step[w] \in {"taken", "dequeued", "handling"}
        /\ step[w] = "leaving" => worker[w] = "exited"

\* Nothing is left of the daemon before; only one that serves has work.
Clean ==
    /\ \A d \in Daemons : state[d] = "booting" =>
           queue = <<>> /\ held = Nobody /\ stops = 0 /\ \A w \in Workers : worker[w] = "idle"
    /\ (\E w \in Workers : step[w] # "none") => Serving

Distinct ==
    /\ Once(backlog) /\ Once(queue)
    /\ \A c \in Clients : ~(In(backlog, c) /\ In(queue, c))
    /\ held # Nobody => ~In(backlog, held) /\ ~In(queue, held)
    /\ \A w \in Workers : Busy(w) =>
           ~In(backlog, worker[w]) /\ ~In(queue, worker[w]) /\ held # worker[w]
    /\ \A v, w \in Workers : Busy(v) /\ worker[v] = worker[w] => v = w

\* Who waits is connected to the daemon that listens, and was told nothing.
Hosted ==
    \A d \in Daemons : Listening(d) =>
        \A c \in Clients : Pending(c) => at[c] = d /\ answer[c] = "none"

\* A worker left the queue for good only after a Shutdown.
Drained ==
    /\ (\E d \in Daemons : state[d] = "serving") \/ queue # <<>> =>
           Cardinality(Ended) =< stops
    /\ \A d \in Daemons : state[d] = "unlocking" =>
           \/ queue = <<>>
           \/ \A w \in Workers : worker[w] \in {"exited", "panicked"} /\ step[w] = "none"

\* The accept loop hears of a Shutdown after its client did.
Told ==
    \A d \in Daemons : state[d] = "serving"
            /\ (stops > 0 \/ \E w \in Workers : worker[w] = "exited") =>
        \E c \in Clients : at[c] = d /\ answer[c] = "stopping"

DaemonInv ==
    /\ TypeOK /\ Accounted /\ Owned /\ Held /\ Stages /\ Clean
    /\ Distinct /\ Hosted /\ Drained /\ Told

-----------------------------------------------------------------------------
(* Sequences without repetition, and counting workers.                     *)

LEMMA HeadTail ==
    ASSUME NEW S, NEW s \in Seq(S), s # <<>>
    PROVE  /\ Head(s) \in S /\ Tail(s) \in Seq(S) /\ Len(Tail(s)) = Len(s) - 1 /\ Len(s) >= 1
           /\ In(s, Head(s))
           /\ \A c : In(Tail(s), c) => In(s, c)
           /\ Once(s) => Once(Tail(s)) /\ ~In(Tail(s), Head(s))
<1>1. /\ Head(s) = s[1] /\ Tail(s) \in Seq(S) /\ Len(Tail(s)) = Len(s) - 1 /\ Len(s) >= 1
      /\ Len(s) \in Nat /\ \A i \in 1..Len(Tail(s)) : Tail(s)[i] = s[i + 1]
      /\ s[1] \in S
  OBVIOUS
<1>2. \A i \in 1..Len(Tail(s)) : i + 1 \in 1..Len(s) /\ i + 1 # 1
  BY <1>1
<1>3. In(s, Head(s)) /\ \A c : In(Tail(s), c) => In(s, c)
  BY <1>1, <1>2 DEF In
<1>4. ASSUME Once(s) PROVE Once(Tail(s)) /\ ~In(Tail(s), Head(s))
  <2>1. Once(Tail(s))
    BY <1>1, <1>2, <1>4 DEF Once
  <2>2. ~In(Tail(s), Head(s))
    BY <1>1, <1>2, <1>4 DEF Once, In
  <2>. QED
    BY <2>1, <2>2
<1>. QED
  BY <1>1, <1>3, <1>4

LEMMA AtTheEnd ==
    ASSUME NEW S, NEW s \in Seq(S), NEW x \in S
    PROVE  /\ Append(s, x) \in Seq(S) /\ Len(Append(s, x)) = Len(s) + 1
           /\ Append(s, x) # <<>>
           /\ \A c : In(Append(s, x), c) <=> In(s, c) \/ c = x
           /\ Once(s) /\ ~In(s, x) => Once(Append(s, x))
<1>1. /\ Append(s, x) \in Seq(S) /\ Len(Append(s, x)) = Len(s) + 1 /\ Len(s) \in Nat
      /\ \A i \in 1..Len(s) : Append(s, x)[i] = s[i]
      /\ Append(s, x)[Len(s) + 1] = x
  OBVIOUS
<1>2. 1..(Len(s) + 1) = 1..Len(s) \cup {Len(s) + 1}
  BY <1>1
<1>3. \A c : In(Append(s, x), c) <=> In(s, c) \/ c = x
  BY <1>1, <1>2 DEF In
<1>4. Once(s) /\ ~In(s, x) => Once(Append(s, x))
  BY <1>1, <1>2 DEF Once, In
<1>. QED
  BY <1>1, <1>3, <1>4

LEMMA Joined ==
    ASSUME NEW S, NEW s \in Seq(S), NEW t \in Seq(S)
    PROVE  /\ s \o t \in Seq(S)
           /\ \A c : In(s \o t, c) => In(s, c) \/ In(t, c)
           /\ Once(s) /\ Once(t) /\ (\A c \in S : ~(In(s, c) /\ In(t, c))) => Once(s \o t)
<1>. DEFINE u == s \o t
<1>1. /\ u \in Seq(S) /\ Len(s) \in Nat /\ Len(t) \in Nat
      /\ Len(u) = Len(s) + Len(t)
      /\ \A i \in 1..Len(u) : u[i] = IF i =< Len(s) THEN s[i] ELSE t[i - Len(s)]
      /\ \A i \in 1..Len(s) : s[i] \in S
  BY ConcatProperties
<1>. HIDE DEF u
<1>2. \A i \in 1..Len(u) :
          \/ i \in 1..Len(s) /\ u[i] = s[i]
          \/ i - Len(s) \in 1..Len(t) /\ i > Len(s) /\ u[i] = t[i - Len(s)]
  BY <1>1
<1>3. \A c : In(u, c) => In(s, c) \/ In(t, c)
  BY <1>2 DEF In
<1>4. ASSUME Once(s), Once(t), \A c \in S : ~(In(s, c) /\ In(t, c)) PROVE Once(u)
  <2>. SUFFICES ASSUME NEW i \in 1..Len(u), NEW j \in 1..Len(u), u[i] = u[j]
                PROVE  i = j
    BY DEF Once
  <2>1. CASE i \in 1..Len(s) /\ j \in 1..Len(s)
    BY <1>1, <1>2, <1>4, <2>1 DEF Once
  <2>2. CASE i \notin 1..Len(s) /\ j \notin 1..Len(s)
    <3>1. i - Len(s) = j - Len(s)
      BY <1>2, <1>4, <2>2 DEF Once
    <3>. QED
      BY <1>1, <3>1
  <2>3. \A k, l \in 1..Len(u) : k \in 1..Len(s) /\ l \notin 1..Len(s) => u[k] # u[l]
    <3>. SUFFICES ASSUME NEW k \in 1..Len(u), NEW l \in 1..Len(u),
                         k \in 1..Len(s), l \notin 1..Len(s), u[k] = u[l]
                  PROVE  FALSE
      OBVIOUS
    <3>1. l - Len(s) \in 1..Len(t) /\ u[l] = t[l - Len(s)]
      BY <1>2
    <3>2. u[k] = s[k] /\ u[k] \in S
      BY <1>1, <1>2
    <3>3. In(s, u[k]) /\ In(t, u[k])
      BY <3>1, <3>2 DEF In
    <3>. QED
      BY <1>4, <3>2, <3>3
  <2>. QED
    BY <2>1, <2>2, <2>3
<1>. QED
  BY <1>1, <1>3, <1>4 DEF u

\* A worker that enters or leaves a group of workers.
LEMMA OneMore ==
    ASSUME NEW A, NEW B, A \subseteq Workers, NEW w \in Workers, w \notin A, B = A \cup {w}
    PROVE  /\ Cardinality(A) \in Nat /\ Cardinality(B) = Cardinality(A) + 1
           /\ Cardinality(B) \in Nat /\ Cardinality(B) >= 1
<1>1. IsFiniteSet(A)
  BY DaemonAssumption, FS_Subset
<1>2. Cardinality(A) \in Nat
  BY <1>1, FS_CardinalityType
<1>3. Cardinality(A \cup {w}) = Cardinality(A) + 1
  BY <1>1, FS_AddElement
<1>. QED
  BY <1>2, <1>3

\* A worker that goes from one step to another: how many are at which.
LEMMA Counts ==
    ASSUME NEW S, NEW w \in Workers, NEW t,
           DOMAIN step = Workers, step' = [step EXCEPT ![w] = t]
    PROVE  /\ AtStep(S) \in Nat /\ AtStep(S)' \in Nat
           /\ step[w] \in S /\ t \notin S => AtStep(S) = AtStep(S)' + 1 /\ AtStep(S) >= 1
           /\ step[w] \notin S /\ t \in S => AtStep(S)' = AtStep(S) + 1
           /\ (step[w] \in S <=> t \in S) => AtStep(S)' = AtStep(S)
<1>. DEFINE A == {v \in Workers : step[v] \in S}
            B == {v \in Workers : step'[v] \in S}
<1>1. step'[w] = t /\ \A v \in Workers : v # w => step'[v] = step[v]
  OBVIOUS
<1>2. /\ A \subseteq Workers /\ B \subseteq Workers
      /\ step[w] \in S /\ t \notin S => w \notin B /\ A = B \cup {w}
      /\ step[w] \notin S /\ t \in S => w \notin A /\ B = A \cup {w}
      /\ (step[w] \in S <=> t \in S) => A = B
  BY <1>1
<1>3. AtStep(S) = Cardinality(A) /\ AtStep(S)' = Cardinality(B)
  BY DEF AtStep
<1>. HIDE DEF A, B
<1>4. Cardinality(A) \in Nat /\ Cardinality(B) \in Nat
  BY <1>2, DaemonAssumption, FS_Subset, FS_CardinalityType
<1>5. step[w] \in S /\ t \notin S => Cardinality(A) = Cardinality(B) + 1 /\ Cardinality(A) >= 1
  BY <1>2, OneMore
<1>6. step[w] \notin S /\ t \in S => Cardinality(B) = Cardinality(A) + 1
  BY <1>2, OneMore
<1>. QED
  BY <1>2, <1>3, <1>4, <1>5, <1>6

\* The three groups of workers the metrics depend on.
Taking == AtStep({"taken"})
Handling == AtStep({"handling", "answered"})
Between == AtStep({"dequeued", "inactive"})

LEMMA Moves ==
    ASSUME NEW w \in Workers, NEW t, DOMAIN step = Workers, step' = [step EXCEPT ![w] = t]
    PROVE  /\ {Taking, Handling, Between, Taking', Handling', Between'} \subseteq Nat
           /\ step[w] = "taken" /\ t # "taken" => Taking = Taking' + 1
           /\ step[w] # "taken" /\ t = "taken" => Taking' = Taking + 1
           /\ step[w] # "taken" /\ t # "taken" => Taking' = Taking
           /\ step[w] \in {"handling", "answered"} /\ t \notin {"handling", "answered"} =>
                  Handling = Handling' + 1
           /\ step[w] \notin {"handling", "answered"} /\ t \in {"handling", "answered"} =>
                  Handling' = Handling + 1
           /\ (step[w] \in {"handling", "answered"} <=> t \in {"handling", "answered"}) =>
                  Handling' = Handling
           /\ step[w] \in {"dequeued", "inactive"} /\ t \notin {"dequeued", "inactive"} =>
                  Between = Between' + 1
           /\ step[w] \notin {"dequeued", "inactive"} /\ t \in {"dequeued", "inactive"} =>
                  Between' = Between + 1
           /\ (step[w] \in {"dequeued", "inactive"} <=> t \in {"dequeued", "inactive"}) =>
                  Between' = Between
<1>1. /\ Taking \in Nat /\ Taking' \in Nat
      /\ step[w] \in {"taken"} /\ t \notin {"taken"} => Taking = Taking' + 1
      /\ step[w] \notin {"taken"} /\ t \in {"taken"} => Taking' = Taking + 1
      /\ (step[w] \in {"taken"} <=> t \in {"taken"}) => Taking' = Taking
  BY Counts DEF Taking
<1>2. /\ Handling \in Nat /\ Handling' \in Nat
      /\ step[w] \in {"handling", "answered"} /\ t \notin {"handling", "answered"} =>
             Handling = Handling' + 1
      /\ step[w] \notin {"handling", "answered"} /\ t \in {"handling", "answered"} =>
             Handling' = Handling + 1
      /\ (step[w] \in {"handling", "answered"} <=> t \in {"handling", "answered"}) =>
             Handling' = Handling
  BY Counts DEF Handling
<1>3. /\ Between \in Nat /\ Between' \in Nat
      /\ step[w] \in {"dequeued", "inactive"} /\ t \notin {"dequeued", "inactive"} =>
             Between = Between' + 1
      /\ step[w] \notin {"dequeued", "inactive"} /\ t \in {"dequeued", "inactive"} =>
             Between' = Between + 1
      /\ (step[w] \in {"dequeued", "inactive"} <=> t \in {"dequeued", "inactive"}) =>
             Between' = Between
  BY Counts DEF Between
<1>. QED
  BY <1>1, <1>2, <1>3

LEMMA Sizes == Taking \in Nat /\ Handling \in Nat /\ Between \in Nat
<1>1. \A S : AtStep(S) \in Nat
  BY DaemonAssumption, FS_Subset, FS_CardinalityType DEF AtStep
<1>. QED
  BY <1>1 DEF Taking, Handling, Between

\* The books, with the terms named.
Books ==
    /\ queued = Len(queue) + InTurn({"send"}) + Taking
    /\ active = Handling
    /\ accepted = queued + active + completed + rejected + InTurn({"count", "reject"}) + Between

LEMMA SameBooks == (Accounted <=> Books) /\ (Accounted' <=> Books')
  BY DEF Accounted, Books, Taking, Handling, Between

\* The sum of the books, and the same sum with a connection moved to its last term.
Sum6(a, b, c, d, e, f) == a + b + c + d + e + f
Same(x, y) == x = y

LEMMA OneAcross ==
    \A a, b, c, d, e, f \in Nat :
        /\ Same(Sum6(a + 1, b, c, d, e, f), Sum6(a, b, c, d, e, f + 1))
        /\ Same(Sum6(a, b + 1, c, d, e, f), Sum6(a, b, c, d, e, f + 1))
  BY DEF Same, Sum6

\* The four updates of a worker keep the books.
LEMMA Rebooked ==
    ASSUME Books, accepted \in Nat, queued \in Nat, active \in Nat, completed \in Nat,
           rejected \in Nat, Len(queue) \in Nat, Taking \in Nat, Handling \in Nat,
           Between \in Nat, Taking' \in Nat, Handling' \in Nat, Between' \in Nat,
           turn' = turn, Len(queue') = Len(queue), accepted' = accepted, rejected' = rejected
    PROVE  \/ /\ queued' = queued - 1 /\ active' = active /\ completed' = completed
              /\ Taking = Taking' + 1 /\ Handling' = Handling /\ Between' = Between + 1
           \/ /\ queued' = queued /\ active' = active + 1 /\ completed' = completed
              /\ Taking' = Taking /\ Handling' = Handling + 1 /\ Between = Between' + 1
           \/ /\ queued' = queued /\ active' = active - 1 /\ completed' = completed
              /\ Taking' = Taking /\ Handling = Handling' + 1 /\ Between' = Between + 1
           \/ /\ queued' = queued /\ active' = active /\ completed' = completed + 1
              /\ Taking' = Taking /\ Handling' = Handling /\ Between = Between' + 1
           => Books' /\ queued' \in Nat /\ active' \in Nat /\ completed' \in Nat
<1>. DEFINE I == InTurn({"send"})
            J == InTurn({"count", "reject"})
<1>1. I \in Nat /\ I' = I /\ J \in Nat /\ J' = J
  BY DEF InTurn
<1>2. queued = Len(queue) + I + Taking /\ active = Handling
  BY DEF Books
<1>7. accepted = queued + active + completed + rejected + J + Between
  BY DEF Books
<1>. HIDE DEF I, J
<1>3. CASE /\ queued' = queued - 1 /\ active' = active /\ completed' = completed
         /\ Taking = Taking' + 1 /\ Handling' = Handling /\ Between' = Between + 1
  <2>1. queued' = Len(queue') + I' + Taking'
    BY <1>1, <1>2, <1>3
  <2>2. active' = Handling' /\ queued' \in Nat /\ active' \in Nat /\ completed' \in Nat
    BY <1>1, <1>2, <1>3, <2>1
  <2>3. /\ queued' \in Nat /\ active' \in Nat /\ completed' \in Nat
        /\ queued = queued' + 1 /\ active' = active
        /\ completed' = completed /\ Between' = Between + 1
    BY <1>2, <1>3, <2>2
  <2>6. J' \in Nat /\ rejected' \in Nat
    BY <1>1
  <2>7. Same(Sum6(queued' + 1, active', completed', rejected', J', Between),
             Sum6(queued', active', completed', rejected', J', Between + 1))
    BY <2>3, <2>6, OneAcross, Zenon
  <2>4. accepted' = queued' + active' + completed' + rejected' + J' + Between'
    BY <1>1, <1>7, <2>3, <2>7, Zenon DEF Same, Sum6
  <2>. QED
    BY <2>1, <2>2, <2>4 DEF Books, I, J
<1>4. CASE /\ queued' = queued /\ active' = active + 1 /\ completed' = completed
         /\ Taking' = Taking /\ Handling' = Handling + 1 /\ Between = Between' + 1
  <2>1. queued' = Len(queue') + I' + Taking'
    BY <1>1, <1>2, <1>4
  <2>2. active' = Handling' /\ queued' \in Nat /\ active' \in Nat /\ completed' \in Nat
    BY <1>1, <1>2, <1>4, <2>1
  <2>3. /\ queued' \in Nat /\ active' \in Nat /\ completed' \in Nat
        /\ queued' = queued /\ active' = active + 1
        /\ completed' = completed /\ Between = Between' + 1
    BY <1>2, <1>4, <2>2
  <2>4. accepted' = queued' + active' + completed' + rejected' + J' + Between'
    BY <1>1, <1>7, <2>3
  <2>. QED
    BY <2>1, <2>2, <2>4 DEF Books, I, J
<1>5. CASE /\ queued' = queued /\ active' = active - 1 /\ completed' = completed
         /\ Taking' = Taking /\ Handling = Handling' + 1 /\ Between' = Between + 1
  <2>1. queued' = Len(queue') + I' + Taking'
    BY <1>1, <1>2, <1>5
  <2>8. active = Handling' + 1
    BY <1>2, <1>5, Zenon
  <2>9. active' = Handling'
    <3>1. (Handling' + 1) - 1 = Handling'
      <4>1. \A a \in Nat : (a + 1) - 1 = a
        OBVIOUS
      <4>. QED
        BY <4>1
    <3>. QED
      BY <1>5, <2>8, <3>1, Zenon
  <2>2. active' = Handling' /\ queued' \in Nat /\ active' \in Nat /\ completed' \in Nat
    BY <1>5, <2>9
  <2>3. /\ queued' \in Nat /\ active' \in Nat /\ completed' \in Nat
        /\ queued' = queued /\ active = active' + 1
        /\ completed' = completed /\ Between' = Between + 1
    BY <1>2, <1>5, <2>2
  <2>6. J' \in Nat /\ rejected' \in Nat
    BY <1>1
  <2>7. Same(Sum6(queued', active' + 1, completed', rejected', J', Between),
             Sum6(queued', active', completed', rejected', J', Between + 1))
    BY <2>3, <2>6, OneAcross, Zenon
  <2>4. accepted' = queued' + active' + completed' + rejected' + J' + Between'
    BY <1>1, <1>7, <2>3, <2>7, Zenon DEF Same, Sum6
  <2>. QED
    BY <2>1, <2>2, <2>4 DEF Books, I, J
<1>6. CASE /\ queued' = queued /\ active' = active /\ completed' = completed + 1
         /\ Taking' = Taking /\ Handling' = Handling /\ Between = Between' + 1
  <2>1. queued' = Len(queue') + I' + Taking'
    BY <1>1, <1>2, <1>6
  <2>2. active' = Handling' /\ queued' \in Nat /\ active' \in Nat /\ completed' \in Nat
    BY <1>1, <1>2, <1>6, <2>1
  <2>3. /\ queued' \in Nat /\ active' \in Nat /\ completed' \in Nat
        /\ queued' = queued /\ active' = active
        /\ completed' = completed + 1 /\ Between = Between' + 1
    BY <1>2, <1>6, <2>2
  <2>4. accepted' = queued' + active' + completed' + rejected' + J' + Between'
    BY <1>1, <1>7, <2>3
  <2>. QED
    BY <2>1, <2>2, <2>4 DEF Books, I, J
<1>. QED
  BY <1>3, <1>4, <1>5, <1>6

LEMMA NobodyAtStep ==
    ASSUME NEW S, "none" \notin S
    PROVE  /\ (\A w \in Workers : step[w] = "none") => AtStep(S) = 0
           /\ (\A w \in Workers : step'[w] = "none") => AtStep(S)' = 0
<1>1. (\A w \in Workers : step[w] = "none") => {w \in Workers : step[w] \in S} = {}
  OBVIOUS
<1>2. (\A w \in Workers : step'[w] = "none") => {w \in Workers : step'[w] \in S} = {}
  OBVIOUS
<1>. QED
  BY <1>1, <1>2, FS_EmptySet DEF AtStep

LEMMA SameSteps ==
    ASSUME step' = step
    PROVE  /\ \A S : AtStep(S)' = AtStep(S)
           /\ Taking' = Taking /\ Handling' = Handling /\ Between' = Between
  BY DEF AtStep, Taking, Handling, Between

-----------------------------------------------------------------------------
(* Facts the steps share.                                                  *)

\* The daemon inside the lock is the only one.
Inside(d) ==
    state[d] \in {"locked", "cleared", "booting", "serving", "joining", "unlocking"}

LEMMA Alone ==
    ASSUME DaemonInv, NEW d \in Daemons, NEW e \in Daemons, Inside(d), Inside(e)
    PROVE  d = e
  BY DEF DaemonInv, Owned, Inside

\* The metrics of a daemon nobody has connected to.
LEMMA NothingCounted ==
    ASSUME Len(queue) = 0, turn = "check", \A w \in Workers : step[w] = "none",
           accepted = 0, queued = 0, active = 0, completed = 0, rejected = 0
    PROVE  Accounted
<1>1. /\ AtStep({"taken"}) = 0 /\ AtStep({"handling", "answered"}) = 0
      /\ AtStep({"dequeued", "inactive"}) = 0
  BY NobodyAtStep
<1>. QED
  BY <1>1 DEF Accounted, InTurn

\* A fresh pool.
LEMMA Fresh ==
    ASSUME Reset
    PROVE  /\ Accounted' /\ Held' /\ Distinct' /\ Stages'
           /\ \A c \in Clients : ~Pending(c)'
           /\ \A w \in Workers : ~Busy(w)' /\ worker'[w] = "idle" /\ step'[w] = "none"
<1>. USE DaemonAssumption DEF Reset
<1>1. \A w \in Workers : ~Busy(w)' /\ worker'[w] = "idle" /\ step'[w] = "none"
  BY DEF Busy
<1>2. Len(queue') = 0
  OBVIOUS
<1>3. Accounted'
  <2>1. /\ AtStep({"taken"})' = 0 /\ AtStep({"handling", "answered"})' = 0
        /\ AtStep({"dequeued", "inactive"})' = 0
    BY <1>1, NobodyAtStep
  <2>. QED
    BY <1>2, <2>1 DEF Accounted, InTurn
<1>4. Held' /\ Distinct' /\ Stages'
  BY <1>1, <1>2 DEF Held, Distinct, Stages, Once, In
<1>5. \A c \in Clients : ~Pending(c)'
  BY <1>1, <1>2 DEF Pending, In, Busy
<1>. QED
  BY <1>1, <1>3, <1>4, <1>5

-----------------------------------------------------------------------------

LEMMA Initially == Init => DaemonInv
<1>. SUFFICES ASSUME Init PROVE DaemonInv
  OBVIOUS
<1>. USE DaemonAssumption DEF Init
<1>1. TypeOK
  BY DEF TypeOK, Kinds
<1>2. Accounted
  BY NothingCounted
<1>3. Owned /\ Held /\ Stages /\ Clean
  BY DEF Owned, Held, Stages, Clean, Busy, Serving
<1>4. Distinct
  BY DEF Distinct, Once, In, Busy
<1>5. Hosted /\ Told
  BY DEF Hosted, Listening, Told
<1>6. Drained
  BY DEF Drained
<1>. QED
  BY <1>1, <1>2, <1>3, <1>4, <1>5, <1>6 DEF DaemonInv


\* A step of one daemon that leaves the pool and the clients alone.
LEMMA DoorStep ==
    ASSUME DaemonInv, NEW d \in Daemons,
           AcquireLock(d) \/ RemoveStale(d) \/ Unlock(d) \/ RemoveSocket(d)
             \/ (Kill(d) /\ ~Listening(d))
    PROVE  DaemonInv'
<1>. USE DaemonAssumption DEF DaemonInv
<1>1. /\ pool' = pool /\ metrics' = metrics /\ clients' = clients
      /\ panics' \in {panics, panics + 1} /\ panics' \in 0..MaxPanics
      /\ \E s \in {"locked", "cleared", "exited", "unlinking"} :
             /\ Goto(d, s)
             /\ state[d] \in {"new", "locked", "cleared", "unlocking", "unlinking"}
             /\ s = "locked" => lock = Nobody /\ lock' = d
             /\ s = "cleared" => lock' = lock /\ state[d] = "locked"
             /\ s = "unlinking" => state[d] = "unlocking" /\ lock' = Nobody
             /\ s = "exited" => lock' = lock \/ (lock = d /\ lock' = Nobody)
      /\ lock' \in {lock, d, Nobody} /\ sock' \in {sock, Nobody}
  <2>. USE DEF pool, metrics, clients
  <2>1. panics \in 0..MaxPanics /\ MaxPanics \in Nat
    BY DEF TypeOK
  <2>2. CASE AcquireLock(d) \/ RemoveStale(d) \/ Unlock(d) \/ RemoveSocket(d)
    BY <2>1, <2>2 DEF AcquireLock, RemoveStale, Unlock, RemoveSocket
  <2>3. CASE Kill(d) /\ ~Listening(d)
    <3>1. state[d] \in {"locked", "cleared", "unlocking", "unlinking"}
      BY <2>3 DEF Kill, Listening, TypeOK
    <3>. QED
      BY <2>1, <2>3, <3>1 DEF Kill
  <2>. QED
    BY <2>2, <2>3
<1>2. PICK s \in {"locked", "cleared", "exited", "unlinking"} :
          /\ Goto(d, s)
          /\ state[d] \in {"new", "locked", "cleared", "unlocking", "unlinking"}
          /\ s = "locked" => lock = Nobody /\ lock' = d
          /\ s = "cleared" => lock' = lock /\ state[d] = "locked"
          /\ s = "unlinking" => state[d] = "unlocking" /\ lock' = Nobody
          /\ s = "exited" => lock' = lock \/ (lock = d /\ lock' = Nobody)
  BY <1>1
<1>3. state' = [state EXCEPT ![d] = s] /\ state'[d] = s
      /\ \A e \in Daemons : e # d => state'[e] = state[e]
  BY <1>2 DEF Goto, TypeOK
<1>4. /\ turn' = turn /\ backlog' = backlog /\ held' = held /\ queue' = queue /\ stops' = stops
      /\ worker' = worker /\ step' = step
      /\ kind' = kind /\ at' = at /\ answer' = answer /\ gone' = gone
      /\ accepted' = accepted /\ queued' = queued /\ active' = active
      /\ completed' = completed /\ rejected' = rejected
  BY <1>1 DEF pool, metrics, clients
<1>5. TypeOK'
  BY <1>1, <1>3, <1>4 DEF TypeOK
<1>6. Accounted' /\ Held' /\ Distinct' /\ Stages'
  BY <1>4, SameSteps DEF Accounted, InTurn, Held, Distinct, Stages, Busy, In, Once
<1>7. Owned'
  BY <1>1, <1>2, <1>3 DEF Owned
<1>8. Clean'
  BY <1>2, <1>3, <1>4 DEF Clean, Serving, TypeOK
<1>9. Hosted'
  BY <1>2, <1>3, <1>4 DEF Hosted, Listening, Pending, In
<1>10. Drained'
  BY <1>2, <1>3, <1>4 DEF Drained, Ended
<1>11. Told'
  BY <1>2, <1>3, <1>4 DEF Told
<1>. QED
  BY <1>5, <1>6, <1>7, <1>8, <1>9, <1>10, <1>11

\* A step that empties the pool: the socket is bound, or the process killed.
LEMMA ResetStep ==
    ASSUME DaemonInv, NEW d \in Daemons, Bind(d) \/ (Kill(d) /\ Listening(d))
    PROVE  DaemonInv'
<1>. USE DaemonAssumption DEF DaemonInv
<1>1. Reset /\ Inside(d)
  BY DEF Bind, Kill, Listening, Inside
<1>2. PICK s \in {"booting", "exited"} :
          Goto(d, s) /\ (s = "booting" => lock' = lock)
  BY DEF Bind, Kill
<1>3. /\ kind' = kind /\ at' = at /\ gone' = gone /\ panics' \in 0..MaxPanics
      /\ sock' \in {sock, d} /\ lock' \in {lock, Nobody}
      /\ answer' \in [Clients -> {"none", "local", "closed", "server_busy", "result",
                                  "error", "stopping"}]
  <2>1. panics \in 0..MaxPanics /\ answer \in [Clients -> {"none", "local", "closed",
            "server_busy", "result", "error", "stopping"}]
    BY DEF TypeOK
  <2>2. CASE Bind(d)
    BY <2>1, <2>2 DEF Bind, clients
  <2>3. CASE Kill(d) /\ Listening(d)
    BY <2>1, <2>3 DEF Kill, Dropped, Connected
  <2>. QED
    BY <2>2, <2>3
<1>4. state' = [state EXCEPT ![d] = s] /\ state'[d] = s
      /\ \A e \in Daemons : e # d => state'[e] = state[e] /\ ~Inside(e)
  BY <1>1, <1>2, Alone DEF Goto, TypeOK
<1>5. lock = d
  BY <1>1 DEF Owned, Inside
<1>6. /\ Accounted' /\ Held' /\ Distinct' /\ Stages'
      /\ \A c \in Clients : ~Pending(c)'
      /\ \A w \in Workers : ~Busy(w)' /\ worker'[w] = "idle" /\ step'[w] = "none"
  BY <1>1, Fresh
<1>7. TypeOK'
  <2>1. /\ turn' = "check" /\ backlog' \in Seq(Clients)
        /\ held' \in Clients \cup {Nobody} /\ queue' \in Seq(Clients) /\ stops' \in Nat
        /\ worker' \in [Workers -> Clients \cup {"idle", "exited", "panicked"}]
        /\ step' \in [Workers -> {"none", "taken", "dequeued", "handling", "answered",
                                  "inactive", "leaving"}]
        /\ {accepted', queued', active', completed', rejected'} \subseteq Nat
    BY <1>1 DEF Reset
  <2>. QED
    BY <1>3, <1>4, <2>1 DEF TypeOK
<1>8. Owned'
  BY <1>2, <1>4, <1>5 DEF Owned, Inside
<1>9. Clean'
  BY <1>1, <1>6 DEF Clean, Reset
<1>10. Hosted'
  BY <1>6 DEF Hosted
<1>11. Drained'
  <2>1. queue' = <<>> /\ \A e \in Daemons : state'[e] # "serving"
    BY <1>1, <1>4 DEF Reset, Inside
  <2>. QED
    BY <2>1 DEF Drained
<1>12. Told'
  BY <1>1, <1>6 DEF Told, Reset
<1>. QED
  BY <1>6, <1>7, <1>8, <1>9, <1>10, <1>11, <1>12

\* A daemon inside the lock that moves on with its pool as it was.
LEMMA PhaseStep ==
    ASSUME DaemonInv, NEW d \in Daemons,
           \/ Bootstrap(d) \/ BootFails(d) \/ Join(d) \/ CheckShutdown(d) \/ WouldBlock(d)
           \/ Interrupted(d) \/ AcceptFails(d)
    PROVE  DaemonInv'
<1>. USE DaemonAssumption DEF DaemonInv
<1>1. /\ lock' = lock /\ sock' = sock /\ backlog' = backlog /\ held' = held /\ queue' = queue
      /\ stops' = stops /\ worker' = worker /\ step' = step
      /\ accepted' = accepted /\ queued' = queued /\ active' = active
      /\ completed' = completed /\ rejected' = rejected
      /\ kind' = kind /\ at' = at /\ gone' = gone
  BY DEF Bootstrap, BootFails, Join, CheckShutdown, WouldBlock, Interrupted, AcceptFails,
         process, pool, metrics, clients
<1>2. PICK s \in {"serving", "joining", "unlocking"} :
          /\ state' = [state EXCEPT ![d] = s] /\ Listening(d)
          /\ s # "unlocking" => answer' = answer
          /\ state[d] = "booting" => s # "joining"
          /\ state[d] = "joining" => s = "unlocking"
          /\ s = "unlocking" =>
                 \/ state[d] = "booting"
                 \/ \A w \in Workers : worker[w] \in {"exited", "panicked"} /\ step[w] = "none"
  <2>1. \A x : state[d] = x => [state EXCEPT ![d] = x] = state
    BY DEF TypeOK
  <2>2. CASE Bootstrap(d)
    BY <2>2 DEF Bootstrap, Goto, Listening, clients
  <2>3. CASE BootFails(d)
    BY <2>3 DEF BootFails, Goto, Listening
  <2>4. CASE Join(d)
    BY <2>4 DEF Join, Goto, Listening
  <2>5. CASE CheckShutdown(d)
    BY <2>1, <2>5 DEF CheckShutdown, Goto, Listening, clients
  <2>6. CASE WouldBlock(d) \/ Interrupted(d)
    BY <2>1, <2>6 DEF WouldBlock, Interrupted, Listening, process, clients
  <2>7. CASE AcceptFails(d)
    BY <2>7 DEF AcceptFails, Goto, Listening, clients
  <2>. QED
    BY <2>2, <2>3, <2>4, <2>5, <2>6, <2>7
<1>3. /\ turn' = turn \/ {turn, turn'} \subseteq {"check", "accept"}
      /\ turn' \in {"check", "accept", "count", "send", "reject"}
      /\ panics' \in 0..MaxPanics
      /\ answer' \in [Clients -> {"none", "local", "closed", "server_busy", "result",
                                  "error", "stopping"}]
  <2>1. /\ panics \in 0..MaxPanics /\ MaxPanics \in Nat
        /\ turn \in {"check", "accept", "count", "send", "reject"}
        /\ answer \in [Clients -> {"none", "local", "closed",
            "server_busy", "result", "error", "stopping"}]
    BY DEF TypeOK
  <2>2. CASE Bootstrap(d) \/ CheckShutdown(d) \/ WouldBlock(d)
    BY <2>1, <2>2 DEF Bootstrap, CheckShutdown, WouldBlock, clients, pool
  <2>3. CASE BootFails(d) \/ Join(d)
    BY <2>1, <2>3 DEF BootFails, Join, Dropped, Connected, pool
  <2>4. CASE Interrupted(d) \/ AcceptFails(d)
    BY <2>1, <2>4 DEF Interrupted, AcceptFails, clients
  <2>. QED
    BY <2>2, <2>3, <2>4
<1>4. Inside(d) /\ state'[d] = s
      /\ \A e \in Daemons : e # d => state'[e] = state[e] /\ ~Inside(e)
  BY <1>2, Alone DEF Listening, Inside, TypeOK
<1>5. TypeOK'
  BY <1>1, <1>2, <1>3 DEF TypeOK
<1>6. Accounted' /\ Distinct' /\ Held' /\ Stages'
  <2>1. Accounted' /\ Held'
    BY <1>1, <1>3, SameSteps DEF Accounted, InTurn, Held
  <2>2. Distinct' /\ Stages'
    BY <1>1 DEF Distinct, Stages, Busy
  <2>. QED
    BY <2>1, <2>2
<1>7. Owned'
  BY <1>1, <1>4 DEF Owned, Inside
<1>8. Clean'
  <2>1. \A e \in Daemons : state'[e] # "booting"
    BY <1>4 DEF Inside
  <2>2. ASSUME NEW w \in Workers, step'[w] # "none" PROVE Serving'
    <3>1. step[w] # "none" /\ Serving
      BY <1>1, <2>2 DEF Clean
    <3>2. state[d] \in {"serving", "joining"}
      BY <1>4, <3>1 DEF Serving, Inside
    <3>. QED
      BY <1>2, <1>4, <3>1, <3>2 DEF Serving
  <2>. QED
    BY <2>1, <2>2 DEF Clean
<1>9. Hosted'
  <2>1. ASSUME NEW e \in Daemons, Listening(e)' PROVE e = d /\ answer' = answer
    BY <1>2, <1>4, <2>1 DEF Listening, Inside
  <2>2. \A c \in Clients : Pending(c)' <=> Pending(c)
    BY <1>1 DEF Pending
  <2>. QED
    BY <1>1, <1>2, <2>1, <2>2 DEF Hosted
<1>10. Drained'
  <2>1. ASSUME state[d] = "booting" PROVE Cardinality(Ended) = 0 /\ stops = 0 /\ queue = <<>>
    <3>1. Ended = {}
      BY <2>1 DEF Clean, Ended
    <3>. QED
      BY <2>1, <3>1, FS_EmptySet DEF Clean
  <2>2. Ended' = Ended /\ stops' = stops /\ queue' = queue
    BY <1>1 DEF Ended
  <2>3. (\E e \in Daemons : state'[e] = "serving") =>
            state[d] = "booting" \/ \E e \in Daemons : state[e] = "serving"
    BY <1>2, <1>4 DEF Listening, Inside
  <2>4. \A e \in Daemons : state'[e] = "unlocking" => e = d /\ s = "unlocking"
    BY <1>4 DEF Inside
  <2>. QED
    BY <1>1, <1>2, <2>1, <2>2, <2>3, <2>4 DEF Drained
<1>11. Told'
  <2>1. ASSUME NEW e \in Daemons, state'[e] = "serving",
               stops' > 0 \/ \E w \in Workers : worker'[w] = "exited"
        PROVE e = d /\ state[d] = "serving" /\ answer' = answer
    BY <1>1, <1>2, <1>4, <2>1 DEF Inside, Clean, Listening
  <2>. QED
    BY <1>1, <2>1 DEF Told
<1>. QED
  BY <1>5, <1>6, <1>7, <1>8, <1>9, <1>10, <1>11

\* A connection leaves the backlog for the hand of the accept loop.
LEMMA AcceptStep ==
    ASSUME DaemonInv, NEW d \in Daemons, Accept(d)
    PROVE  DaemonInv'
<1>. USE DaemonAssumption DEF DaemonInv
<1>1. /\ state' = state /\ lock' = lock /\ sock' = sock /\ queue' = queue /\ stops' = stops
      /\ worker' = worker /\ step' = step /\ queued' = queued /\ active' = active
      /\ completed' = completed /\ rejected' = rejected
      /\ kind' = kind /\ at' = at /\ answer' = answer
      /\ gone' = gone /\ panics' = panics
      /\ accepted' = accepted + 1 /\ turn = "accept" /\ turn' = "count"
      /\ held' = Head(backlog) /\ backlog' = Tail(backlog)
  BY DEF Accept, Following, process, clients
<1>2. held = Nobody
  BY <1>1 DEF Held
<1>3. backlog \in Seq(Clients) /\ backlog # <<>>
  BY DEF Accept, TypeOK
<1>4. /\ held' \in Clients /\ backlog' \in Seq(Clients)
      /\ In(backlog, held') /\ \A c : In(backlog', c) => In(backlog, c)
      /\ Once(backlog') /\ ~In(backlog', held')
  BY <1>1, <1>3, HeadTail DEF Distinct
<1>5. TypeOK'
  <2>1. accepted' \in Nat
    BY <1>1 DEF TypeOK
  <2>. QED
    BY <1>1, <1>4, <2>1 DEF TypeOK
<1>6. Accounted'
  <2>1. /\ accepted \in Nat /\ queued \in Nat /\ active \in Nat /\ completed \in Nat
        /\ rejected \in Nat
    BY DEF TypeOK
  <2>. QED
    BY <1>1, <2>1, Sizes, SameSteps, SameBooks DEF Books, InTurn
<1>7. Owned' /\ Held' /\ Stages' /\ Drained' /\ Told'
  BY <1>1, <1>4 DEF Owned, Held, Stages, Busy, Drained, Told, Ended
<1>8. Clean'
  BY <1>1, Alone DEF Clean, Serving, Accept, Inside
<1>9. Distinct'
  <2>1. ~In(queue, held') /\ \A w \in Workers : Busy(w) => worker[w] # held'
    BY <1>4 DEF Distinct
  <2>. QED
    BY <1>1, <1>4, <2>1 DEF Distinct, Busy
<1>10. Hosted'
  <2>1. \A c \in Clients : Pending(c)' => Pending(c)
    BY <1>1, <1>4 DEF Pending
  <2>. QED
    BY <1>1, <2>1 DEF Hosted, Listening
<1>. QED
  BY <1>5, <1>6, <1>7, <1>8, <1>9, <1>10

\* The connection in hand is counted, or counted out again as the queue is full.
LEMMA CountStep ==
    ASSUME DaemonInv, NEW d \in Daemons, CountQueued(d) \/ Full(d)
    PROVE  DaemonInv'
<1>. USE DaemonAssumption DEF DaemonInv
<1>1. /\ state' = state /\ lock' = lock /\ sock' = sock /\ queue' = queue /\ stops' = stops
      /\ backlog' = backlog /\ held' = held
      /\ worker' = worker /\ step' = step /\ accepted' = accepted /\ active' = active
      /\ completed' = completed /\ rejected' = rejected
      /\ kind' = kind /\ at' = at /\ answer' = answer
      /\ gone' = gone /\ panics' = panics
      /\ \/ turn = "count" /\ turn' = "send" /\ queued' = queued + 1
         \/ turn = "send" /\ turn' = "reject" /\ queued' = queued - 1
  BY DEF CountQueued, Full, Following, process, clients
<1>2. /\ accepted \in Nat /\ queued \in Nat /\ active \in Nat /\ completed \in Nat
      /\ rejected \in Nat /\ Len(queue) \in Nat /\ DOMAIN step = Workers
  BY DEF TypeOK
<1>4. turn = "send" => queued >= 1
  BY <1>2, Sizes, SameBooks DEF Books, InTurn
<1>5. TypeOK'
  <2>1. queued' \in Nat
    BY <1>1, <1>2, <1>4
  <2>. QED
    BY <1>1, <2>1 DEF TypeOK
<1>6. Accounted'
  <2>1. CASE turn = "count" /\ turn' = "send" /\ queued' = queued + 1
    BY <1>1, <1>2, <2>1, Sizes, SameSteps, SameBooks DEF Books, InTurn
  <2>2. CASE turn = "send" /\ turn' = "reject" /\ queued' = queued - 1
    BY <1>1, <1>2, <2>2, Sizes, SameSteps, SameBooks DEF Books, InTurn
  <2>. QED
    BY <1>1, <2>1, <2>2
<1>7. Owned' /\ Held' /\ Stages' /\ Clean' /\ Drained' /\ Told'
  BY <1>1 DEF Owned, Held, Stages, Busy, Clean, Serving, Drained, Told, Ended
<1>8. Distinct' /\ Hosted'
  BY <1>1 DEF Distinct, Busy, Hosted, Listening, Pending
<1>. QED
  BY <1>5, <1>6, <1>7, <1>8

\* The connection in hand is queued.
LEMMA SendStep ==
    ASSUME DaemonInv, NEW d \in Daemons, TrySend(d)
    PROVE  DaemonInv'
<1>. USE DaemonAssumption DEF DaemonInv
<1>1. /\ state' = state /\ lock' = lock /\ sock' = sock /\ backlog' = backlog
      /\ stops' = stops /\ worker' = worker /\ step' = step
      /\ accepted' = accepted /\ queued' = queued /\ active' = active
      /\ completed' = completed /\ rejected' = rejected /\ answer' = answer
      /\ kind' = kind /\ at' = at /\ gone' = gone /\ panics' = panics
      /\ turn = "send" /\ turn' = "check" /\ held' = Nobody /\ queue' = Append(queue, held)
      /\ state[d] = "serving"
  BY DEF TrySend, Following, process, metrics, clients
<1>2. held \in Clients /\ queue \in Seq(Clients)
  BY <1>1 DEF Held, TypeOK
<1>3. /\ queue' \in Seq(Clients) /\ Len(queue') = Len(queue) + 1 /\ Len(queue) \in Nat
      /\ \A c : In(queue', c) <=> In(queue, c) \/ c = held
      /\ Once(queue) /\ ~In(queue, held) => Once(queue')
  BY <1>1, <1>2, AtTheEnd
<1>4. Serving /\ Serving' /\ \A e \in Daemons : state[e] # "booting" /\ state[e] # "unlocking"
  BY <1>1, Alone DEF Serving, Inside
<1>5. TypeOK'
  BY <1>1, <1>3 DEF TypeOK
<1>6. Accounted'
  <2>1. queued \in Nat
    BY DEF TypeOK
  <2>. QED
    BY <1>1, <1>3, <2>1, Sizes, SameSteps, SameBooks DEF Books, InTurn
<1>7. Owned' /\ Held' /\ Stages' /\ Clean' /\ Told'
  BY <1>1, <1>4 DEF Owned, Held, Stages, Clean, Busy, Told
<1>8. Drained'
  <2>1. Ended' = Ended /\ Cardinality(Ended) =< stops
    BY <1>1 DEF Ended, Drained
  <2>. QED
    BY <1>1, <1>4, <2>1 DEF Drained
<1>9. Distinct'
  BY <1>1, <1>2, <1>3 DEF Distinct, Busy
<1>10. Hosted'
  <2>1. \A c \in Clients : Pending(c)' => Pending(c)
    BY <1>1, <1>3 DEF Pending
  <2>. QED
    BY <1>1, <2>1 DEF Hosted, Listening
<1>. QED
  BY <1>5, <1>6, <1>7, <1>8, <1>9, <1>10

\* The connection in hand is told that the server is busy.
LEMMA RejectStep ==
    ASSUME DaemonInv, NEW d \in Daemons, Reject(d)
    PROVE  DaemonInv'
<1>. USE DaemonAssumption DEF DaemonInv
<1>1. /\ state' = state /\ lock' = lock /\ sock' = sock /\ backlog' = backlog
      /\ queue' = queue /\ stops' = stops /\ worker' = worker /\ step' = step
      /\ accepted' = accepted /\ queued' = queued /\ active' = active
      /\ completed' = completed /\ rejected' = rejected + 1
      /\ kind' = kind /\ at' = at /\ gone' = gone /\ panics' = panics
      /\ turn = "reject" /\ turn' = "check" /\ held' = Nobody
      /\ Tell(held, "server_busy") /\ state[d] = "serving"
  BY DEF Reject, process
<1>2. /\ held \in Clients /\ rejected \in Nat
      /\ answer \in [Clients -> {"none", "local", "closed", "server_busy", "result",
                                 "error", "stopping"}]
  BY <1>1 DEF Held, TypeOK
<1>3. /\ answer[held] = "none"
      /\ \A c \in Clients : Pending(c) => at[c] = d /\ answer[c] = "none"
  <2>1. Pending(held) /\ Listening(d)
    BY <1>1 DEF Pending, Listening
  <2>. QED
    BY <1>2, <2>1 DEF Hosted
<1>4. /\ answer' \in [Clients -> {"none", "local", "closed", "server_busy", "result",
                                  "error", "stopping"}]
      /\ \A c \in Clients : c # held => answer'[c] = answer[c]
  BY <1>1, <1>2 DEF Tell
<1>5. TypeOK'
  BY <1>1, <1>2, <1>4 DEF TypeOK
<1>6. Accounted'
  <2>1. accepted \in Nat /\ queued \in Nat /\ active \in Nat /\ completed \in Nat
    BY DEF TypeOK
  <2>. QED
    BY <1>1, <1>2, <2>1, Sizes, SameSteps, SameBooks DEF Books, InTurn
<1>7. Owned' /\ Held' /\ Stages' /\ Clean' /\ Drained'
  BY <1>1 DEF Owned, Held, Stages, Busy, Clean, Serving, Drained, Ended
<1>8. Distinct'
  BY <1>1 DEF Distinct, Busy
<1>9. \A c \in Clients : Pending(c)' => Pending(c) /\ c # held
  BY <1>1, <1>2 DEF Pending, In, Distinct, Busy
<1>10. Hosted' /\ Told'
  BY <1>1, <1>3, <1>4, <1>9 DEF Hosted, Listening, Told
<1>. QED
  BY <1>5, <1>6, <1>7, <1>8, <1>10

\* What every step of a worker keeps, whichever of its variables it changes.
LEMMA WorkerServes ==
    ASSUME DaemonInv, NEW w \in Workers, step[w] # "none" \/ Joining \/ Serving
    PROVE  \E d \in Daemons : /\ state[d] \in {"serving", "joining"}
                              /\ \A e \in Daemons : Inside(e) => e = d
<1>1. PICK d \in Daemons : state[d] \in {"serving", "joining"}
  BY DEF DaemonInv, Clean, Serving, Joining
<1>. QED
  BY <1>1, Alone DEF Inside

\* A worker takes the connection at the head of the queue.
LEMMA ReceiveStep ==
    ASSUME DaemonInv, NEW w \in Workers, Receive(w)
    PROVE  DaemonInv'
<1>. USE DaemonAssumption DEF DaemonInv
<1>1. /\ state' = state /\ lock' = lock /\ sock' = sock /\ backlog' = backlog /\ held' = held
      /\ stops' = stops /\ turn' = turn
      /\ accepted' = accepted /\ queued' = queued /\ active' = active
      /\ completed' = completed /\ rejected' = rejected /\ kind' = kind /\ at' = at
      /\ answer' = answer /\ gone' = gone /\ panics' = panics
      /\ queue' = Tail(queue) /\ step' = [step EXCEPT ![w] = "taken"]
      /\ worker' = [worker EXCEPT ![w] = Head(queue)]
      /\ worker[w] = "idle" /\ step[w] = "none" /\ Serving
  BY DEF Receive, Free, Step, process, metrics, clients
<1>2. /\ queued \in Nat /\ Len(queue) \in Nat /\ queue \in Seq(Clients) /\ queue # <<>>
      /\ worker \in [Workers -> Clients \cup {"idle", "exited", "panicked"}]
      /\ step \in [Workers -> {"none", "taken", "dequeued", "handling", "answered",
                               "inactive", "leaving"}]
  BY DEF TypeOK, Receive
<1>3. /\ Head(queue) \in Clients /\ queue' \in Seq(Clients)
      /\ Len(queue') = Len(queue) - 1 /\ Len(queue) >= 1
      /\ In(queue, Head(queue)) /\ \A c : In(queue', c) => In(queue, c)
      /\ Once(queue') /\ ~In(queue', Head(queue))
  BY <1>1, <1>2, HeadTail DEF Distinct
<1>4. /\ worker'[w] = Head(queue) /\ step'[w] = "taken"
      /\ \A v \in Workers : v # w => worker'[v] = worker[v] /\ step'[v] = step[v]
  BY <1>1, <1>2
<1>5. TypeOK'
  BY <1>1, <1>2, <1>3 DEF TypeOK
<1>6. Accounted'
  <2>1. /\ DOMAIN step = Workers /\ step' = [step EXCEPT ![w] = "taken"]
        /\ step[w] # "taken" /\ {step[w], "taken"} \cap {"handling", "answered"} = {}
        /\ {step[w], "taken"} \cap {"dequeued", "inactive"} = {}
    BY <1>1, <1>2
  <2>2. Taking' = Taking + 1 /\ Handling' = Handling /\ Between' = Between
    BY <2>1, Moves
  <2>3. /\ queued = Len(queue) + InTurn({"send"}) + Taking /\ active = Handling
        /\ accepted = queued + active + completed + rejected
                          + InTurn({"count", "reject"}) + Between
        /\ InTurn({"send"}) \in Nat /\ InTurn({"send"})' = InTurn({"send"})
        /\ InTurn({"count", "reject"})' = InTurn({"count", "reject"})
    BY <1>1, SameBooks DEF Books, InTurn
  <2>4. queued' = Len(queue') + InTurn({"send"})' + Taking'
    BY <1>1, <1>2, <1>3, <2>2, <2>3, Sizes
  <2>5. /\ active' = Handling'
        /\ accepted' = queued' + active' + completed' + rejected'
                          + InTurn({"count", "reject"})' + Between'
    BY <1>1, <2>2, <2>3
  <2>. QED
    BY <2>4, <2>5, SameBooks DEF Books
<1>7. Owned' /\ Held' /\ Stages'
  BY <1>1, <1>3, <1>4 DEF Owned, Held, Stages, Busy
<1>8. Told'
  BY <1>1, <1>3, <1>4 DEF Told
<1>9. PICK d \in Daemons : /\ state[d] \in {"serving", "joining"}
                           /\ \A e \in Daemons : Inside(e) => e = d
  BY <1>1, WorkerServes
<1>10. Clean'
  BY <1>1, <1>9 DEF Clean, Serving, Inside
<1>11. Distinct'
  BY <1>1, <1>3, <1>4 DEF Distinct, Busy
<1>12. \A c \in Clients : Pending(c)' => Pending(c)
  BY <1>1, <1>3, <1>4 DEF Pending
<1>13. Hosted'
  BY <1>1, <1>12 DEF Hosted, Listening
<1>14. Drained'
  <2>1. \A e \in Daemons : state[e] # "unlocking"
    BY <1>9 DEF Inside
  <2>2. Ended' = Ended
    BY <1>1, <1>3, <1>4 DEF Ended
  <2>. QED
    BY <1>1, <1>2, <2>1, <2>2 DEF Drained
<1>. QED
  BY <1>5, <1>6, <1>7, <1>8, <1>10, <1>11, <1>13, <1>14

\* A worker raises or lowers one metric.
LEMMA CounterStep ==
    ASSUME DaemonInv, NEW w \in Workers,
           LowerQueued(w) \/ RaiseActive(w) \/ LowerActive(w) \/ RaiseCompleted(w)
    PROVE  DaemonInv'
<1>. USE DaemonAssumption DEF DaemonInv
<1>1. /\ state' = state /\ lock' = lock /\ sock' = sock /\ backlog' = backlog /\ held' = held
      /\ queue' = queue /\ turn' = turn /\ stops' = stops /\ worker' = worker
      /\ accepted' = accepted /\ rejected' = rejected
      /\ kind' = kind /\ at' = at /\ answer' = answer /\ gone' = gone /\ panics' = panics
  BY DEF LowerQueued, RaiseActive, LowerActive, RaiseCompleted, process, clients
<1>2. /\ accepted \in Nat /\ queued \in Nat /\ active \in Nat /\ completed \in Nat
      /\ rejected \in Nat /\ Len(queue) \in Nat
      /\ step \in [Workers -> {"none", "taken", "dequeued", "handling", "answered",
                               "inactive", "leaving"}]
  BY DEF TypeOK
<1>3. PICK t \in {"dequeued", "handling", "inactive", "none", "leaving"} :
          /\ step' = [step EXCEPT ![w] = t]
          /\ \/ /\ step[w] = "taken" /\ t = "dequeued" /\ queued' = queued - 1
                /\ active' = active /\ completed' = completed
             \/ /\ step[w] = "dequeued" /\ t = "handling" /\ active' = active + 1
                /\ queued' = queued /\ completed' = completed
             \/ /\ step[w] = "answered" /\ t = "inactive" /\ active' = active - 1
                /\ queued' = queued /\ completed' = completed
             \/ /\ step[w] = "inactive" /\ completed' = completed + 1
                /\ t = IF worker[w] = "exited" THEN "leaving" ELSE "none"
                /\ queued' = queued /\ active' = active
  BY DEF LowerQueued, RaiseActive, LowerActive, RaiseCompleted, Step
<1>4. /\ step'[w] = t /\ \A v \in Workers : v # w => step'[v] = step[v]
      /\ step' \in [Workers -> {"none", "taken", "dequeued", "handling", "answered",
                                "inactive", "leaving"}]
  BY <1>2, <1>3
<1>5. Accounted' /\ queued' \in Nat /\ active' \in Nat /\ completed' \in Nat
  <2>1. /\ Taking \in Nat /\ Handling \in Nat /\ Between \in Nat
        /\ Taking' \in Nat /\ Handling' \in Nat /\ Between' \in Nat
    BY <1>2, <1>3, Moves
  <2>2. /\ step[w] = "taken" =>
               Taking = Taking' + 1 /\ Handling' = Handling /\ Between' = Between + 1
        /\ step[w] = "dequeued" =>
               Taking' = Taking /\ Handling' = Handling + 1 /\ Between = Between' + 1
        /\ step[w] = "answered" =>
               Taking' = Taking /\ Handling = Handling' + 1 /\ Between' = Between + 1
        /\ step[w] = "inactive" =>
               Taking' = Taking /\ Handling' = Handling /\ Between = Between' + 1
    BY <1>2, <1>3, Moves
  <2>3. Books /\ turn' = turn /\ Len(queue') = Len(queue)
    BY <1>1, SameBooks
  <2>. QED
    BY <1>1, <1>2, <1>3, <2>1, <2>2, <2>3, SameBooks, Rebooked
<1>6. TypeOK'
  BY <1>1, <1>2, <1>4, <1>5 DEF TypeOK
<1>7. Owned' /\ Held' /\ Told'
  BY <1>1 DEF Owned, Held, Told
<1>8. Stages'
  BY <1>1, <1>3, <1>4 DEF Stages, Busy
<1>9. Ended' = Ended
  BY <1>1, <1>3, <1>4 DEF Ended
<1>10. PICK d \in Daemons : /\ state[d] \in {"serving", "joining"}
                            /\ \A e \in Daemons : Inside(e) => e = d
  BY <1>3, WorkerServes
<1>11. Clean' /\ Drained'
  BY <1>1, <1>9, <1>10 DEF Clean, Serving, Drained, Inside
<1>12. Distinct' /\ Hosted'
  BY <1>1 DEF Distinct, Busy, Hosted, Listening, Pending
<1>. QED
  BY <1>5, <1>6, <1>7, <1>8, <1>11, <1>12

\* An idle worker ends once the accept loop has gone and the queue is empty.
LEMMA DisconnectedStep ==
    ASSUME DaemonInv, NEW w \in Workers, Disconnected(w)
    PROVE  DaemonInv'
<1>. USE DaemonAssumption DEF DaemonInv
<1>1. /\ state' = state /\ lock' = lock /\ sock' = sock /\ backlog' = backlog /\ held' = held
      /\ queue' = queue /\ stops' = stops /\ turn' = turn /\ step' = step
      /\ accepted' = accepted /\ queued' = queued /\ active' = active
      /\ completed' = completed /\ rejected' = rejected /\ kind' = kind /\ at' = at
      /\ answer' = answer /\ gone' = gone /\ panics' = panics /\ queue = <<>>
      /\ worker' = [worker EXCEPT ![w] = "exited"] /\ worker[w] = "idle" /\ Joining
      /\ step[w] = "none"
  BY DEF Disconnected, Free, process, metrics, clients
<1>2. /\ worker'[w] = "exited" /\ \A v \in Workers : v # w => worker'[v] = worker[v]
      /\ worker' \in [Workers -> Clients \cup {"idle", "exited", "panicked"}]
  BY <1>1 DEF TypeOK
<1>3. \A v \in Workers : Busy(v)' <=> Busy(v)
  BY <1>1, <1>2 DEF Busy
<1>4. TypeOK'
  BY <1>1, <1>2 DEF TypeOK
<1>5. Accounted' /\ Stages'
  BY <1>1, <1>2, <1>3, SameSteps DEF Accounted, InTurn, Stages
<1>6. Owned' /\ Held'
  BY <1>1 DEF Owned, Held
<1>7. \A e \in Daemons : state[e] \notin {"booting", "serving", "unlocking"}
  BY <1>1, Alone DEF Joining, Inside
<1>8. Clean' /\ Drained' /\ Told'
  BY <1>1, <1>7 DEF Clean, Serving, Drained, Told
<1>9. Distinct'
  BY <1>1, <1>2 DEF Distinct, Busy
<1>10. \A c \in Clients : Pending(c)' => Pending(c)
  BY <1>1, <1>2 DEF Pending
<1>11. Hosted'
  BY <1>1, <1>10 DEF Hosted, Listening
<1>. QED
  BY <1>4, <1>5, <1>6, <1>8, <1>9, <1>11

\* A worker is done with its connection: it was answered, or it timed out, or
\* the worker panicked.
LEMMA FinishStep ==
    ASSUME DaemonInv, NEW w \in Workers, Handle(w) \/ ReadTimesOut(w) \/ Panic(w)
    PROVE  DaemonInv'
<1>. USE DaemonAssumption DEF DaemonInv
<1>. DEFINE c == worker[w]
<1>1. /\ state' = state /\ lock' = lock /\ sock' = sock /\ backlog' = backlog /\ held' = held
      /\ queue' = queue /\ turn' = turn /\ stops' = stops
      /\ accepted' = accepted /\ queued' = queued /\ active' = active
      /\ completed' = completed /\ rejected' = rejected
      /\ kind' = kind /\ at' = at /\ gone' = gone
      /\ step[w] = "handling" /\ step' = [step EXCEPT ![w] = "answered"]
  BY DEF Handle, ReadTimesOut, Panic, Step, process, metrics
<1>2. /\ panics \in 0..MaxPanics /\ c \in Clients
      /\ worker \in [Workers -> Clients \cup {"idle", "exited", "panicked"}]
      /\ step \in [Workers -> {"none", "taken", "dequeued", "handling", "answered",
                               "inactive", "leaving"}]
      /\ answer \in [Clients -> {"none", "local", "closed", "server_busy", "result",
                                 "error", "stopping"}]
  BY <1>1 DEF TypeOK, Stages, Busy
<1>3. PICK d \in Daemons : /\ state[d] \in {"serving", "joining"}
                           /\ \A e \in Daemons : Inside(e) => e = d
  BY <1>1, WorkerServes
<1>4. at[c] = d /\ answer[c] = "none"
  BY <1>2, <1>3 DEF Hosted, Listening, Pending
<1>5. PICK next \in {"idle", "exited", "panicked"} :
          /\ worker' = [worker EXCEPT ![w] = next]
          /\ next = "exited" => answer'[c] = "stopping"
  <2>1. CASE Handle(w)
    <3>. DEFINE stopping == kind[c] = "stop" /\ c \notin gone
    <3>1. /\ \E a \in Answers(kind[c]) : Tell(c, a)
          /\ worker' = [worker EXCEPT ![w] = IF stopping THEN "exited" ELSE "idle"]
      BY <2>1 DEF Handle
    <3>2. CASE stopping
      <4>1. Answers(kind[c]) = {"stopping"}
        BY <3>2 DEF Answers
      <4>2. answer'[c] = "stopping"
        BY <1>2, <3>1, <3>2, <4>1 DEF Tell
      <4>. QED
        BY <3>1, <3>2, <4>2
    <3>3. CASE ~stopping
      BY <3>1, <3>3
    <3>. QED
      BY <3>2, <3>3
  <2>2. CASE ReadTimesOut(w) \/ Panic(w)
    BY <2>2 DEF ReadTimesOut, Panic
  <2>. QED
    BY <2>1, <2>2
<1>6. /\ answer' \in [Clients -> {"none", "local", "closed", "server_busy", "result",
                                  "error", "stopping"}]
      /\ \A b \in Clients : b # c => answer'[b] = answer[b]
  <2>1. CASE Handle(w)
    <3>1. PICK a \in Answers(kind[c]) : Tell(c, a)
      BY <2>1 DEF Handle
    <3>2. a \in {"result", "error", "stopping"}
      BY <3>1 DEF Answers
    <3>. QED
      BY <1>2, <3>1, <3>2 DEF Tell
  <2>2. CASE ReadTimesOut(w) \/ Panic(w)
    BY <1>2, <2>2 DEF ReadTimesOut, Panic, Dropped
  <2>. QED
    BY <2>1, <2>2
<1>7. panics' \in 0..MaxPanics
  BY <1>2 DEF Handle, ReadTimesOut, Panic
<1>8. /\ worker'[w] = next /\ step'[w] = "answered"
      /\ \A v \in Workers : v # w => worker'[v] = worker[v] /\ step'[v] = step[v]
      /\ worker' \in [Workers -> Clients \cup {"idle", "exited", "panicked"}]
      /\ step' \in [Workers -> {"none", "taken", "dequeued", "handling", "answered",
                                "inactive", "leaving"}]
  BY <1>1, <1>2, <1>5
<1>9. \A v \in Workers : Busy(v)' => Busy(v) /\ v # w /\ worker'[v] = worker[v]
  BY <1>8 DEF Busy
<1>10. TypeOK'
  BY <1>1, <1>6, <1>7, <1>8 DEF TypeOK
<1>11. Accounted'
  <2>1. /\ DOMAIN step = Workers /\ {step[w], "answered"} \subseteq {"handling", "answered"}
        /\ step[w] # "taken" /\ {step[w], "answered"} \cap {"dequeued", "inactive"} = {}
        /\ step' = [step EXCEPT ![w] = "answered"] /\ "answered" # "taken"
    BY <1>1, <1>2
  <2>2. Taking' = Taking /\ Handling' = Handling /\ Between' = Between
    BY <2>1, Moves
  <2>. QED
    BY <1>1, <2>2, SameBooks DEF Books, InTurn
<1>12. Owned' /\ Held'
  BY <1>1 DEF Owned, Held
<1>13. Stages'
  BY <1>8 DEF Stages, Busy
<1>14. Clean'
  BY <1>1, <1>3 DEF Clean, Serving, Inside
<1>15. Distinct'
  BY <1>1, <1>8, <1>9 DEF Distinct, Busy
<1>16. \A b \in Clients : Pending(b)' => Pending(b) /\ b # c
  <2>1. ~In(backlog, c) /\ ~In(queue, c) /\ held # c
        /\ \A v \in Workers : worker[v] = c => v = w
    BY <1>2 DEF Distinct, Busy
  <2>. QED
    BY <1>1, <1>8, <2>1 DEF Pending
<1>17. Hosted'
  BY <1>1, <1>6, <1>16 DEF Hosted, Listening
<1>18. Drained'
  <2>1. Ended' = Ended
    BY <1>1, <1>8 DEF Ended
  <2>2. \A e \in Daemons : state[e] # "unlocking"
    BY <1>3 DEF Inside
  <2>. QED
    BY <1>1, <2>1, <2>2 DEF Drained
<1>19. Told'
  <2>1. ASSUME NEW e \in Daemons, state'[e] = "serving",
               stops' > 0 \/ \E v \in Workers : worker'[v] = "exited"
        PROVE \E b \in Clients : at'[b] = e /\ answer'[b] = "stopping"
    <3>1. e = d
      BY <1>1, <1>3, <2>1 DEF Inside
    <3>2. CASE next = "exited"
      BY <1>1, <1>2, <1>4, <1>5, <3>1, <3>2
    <3>3. CASE next # "exited"
      <4>1. PICK b \in Clients : at[b] = e /\ answer[b] = "stopping"
        BY <1>1, <1>8, <2>1, <3>3 DEF Told
      <4>. QED
        BY <1>1, <1>4, <1>6, <4>1
    <3>. QED
      BY <3>2, <3>3
  <2>. QED
    BY <2>1 DEF Told
<1>. QED
  BY <1>10, <1>11, <1>12, <1>13, <1>14, <1>15, <1>17, <1>18, <1>19

\* The worker that answered a Shutdown tells the accept loop and ends.
LEMMA StopStep ==
    ASSUME DaemonInv, NEW w \in Workers, Stop(w)
    PROVE  DaemonInv'
<1>. USE DaemonAssumption DEF DaemonInv
<1>1. /\ state' = state /\ lock' = lock /\ sock' = sock /\ backlog' = backlog /\ held' = held
      /\ queue' = queue /\ turn' = turn /\ worker' = worker /\ stops' = stops + 1
      /\ accepted' = accepted /\ queued' = queued /\ active' = active
      /\ completed' = completed /\ rejected' = rejected /\ panics' = panics
      /\ kind' = kind /\ at' = at /\ answer' = answer /\ gone' = gone
      /\ step[w] = "leaving" /\ step' = [step EXCEPT ![w] = "none"]
  BY DEF Stop, Step, process, metrics, clients
<1>2. /\ stops \in Nat /\ worker[w] = "exited"
      /\ step \in [Workers -> {"none", "taken", "dequeued", "handling", "answered",
                               "inactive", "leaving"}]
  BY <1>1 DEF TypeOK, Stages
<1>3. /\ step'[w] = "none" /\ \A v \in Workers : v # w => step'[v] = step[v]
      /\ step' \in [Workers -> {"none", "taken", "dequeued", "handling", "answered",
                                "inactive", "leaving"}]
  BY <1>1, <1>2
<1>4. TypeOK'
  BY <1>1, <1>2, <1>3 DEF TypeOK
<1>5. Accounted'
  <2>1. /\ DOMAIN step = Workers /\ {step[w], "none"} \cap {"handling", "answered"} = {}
        /\ step[w] # "taken" /\ {step[w], "none"} \cap {"dequeued", "inactive"} = {}
        /\ step' = [step EXCEPT ![w] = "none"] /\ "none" # "taken"
    BY <1>1, <1>2
  <2>2. Taking' = Taking /\ Handling' = Handling /\ Between' = Between
    BY <2>1, Moves
  <2>. QED
    BY <1>1, <2>2, SameBooks DEF Books, InTurn
<1>6. Owned' /\ Held'
  BY <1>1 DEF Owned, Held
<1>7. Stages'
  BY <1>1, <1>2, <1>3 DEF Stages, Busy
<1>8. PICK d \in Daemons : /\ state[d] \in {"serving", "joining"}
                           /\ \A e \in Daemons : Inside(e) => e = d
  BY <1>1, WorkerServes
<1>9. Clean'
  BY <1>1, <1>8 DEF Clean, Serving, Inside
<1>10. Drained'
  <2>1. Ended \subseteq Workers /\ w \notin Ended /\ Ended' = Ended \cup {w}
    BY <1>1, <1>2, <1>3 DEF Ended
  <2>2. Cardinality(Ended) \in Nat /\ Cardinality(Ended') = Cardinality(Ended) + 1
    BY <2>1, OneMore
  <2>3. \A e \in Daemons : state[e] # "unlocking"
    BY <1>8 DEF Inside
  <2>. QED
    BY <1>1, <1>2, <2>2, <2>3 DEF Drained
<1>11. Told'
  BY <1>1, <1>2 DEF Told
<1>12. Distinct' /\ Hosted'
  BY <1>1 DEF Distinct, Busy, Hosted, Listening, Pending
<1>. QED
  BY <1>4, <1>5, <1>6, <1>7, <1>9, <1>10, <1>11, <1>12

\* A client connects, or answers itself.
LEMMA ConnectStep ==
    ASSUME DaemonInv, NEW c \in Clients, Connect(c)
    PROVE  DaemonInv'
<1>. USE DaemonAssumption DEF DaemonInv
<1>1. /\ state' = state /\ lock' = lock /\ sock' = sock /\ held' = held
      /\ queue' = queue /\ turn' = turn /\ stops' = stops /\ worker' = worker /\ step' = step
      /\ accepted' = accepted /\ queued' = queued /\ active' = active
      /\ completed' = completed /\ rejected' = rejected /\ gone' = gone /\ panics' = panics
      /\ at[c] = Nobody /\ answer[c] = "none"
  BY DEF Connect, process, metrics
<1>2. Accounted' /\ Owned' /\ Held' /\ Stages' /\ Clean' /\ Drained'
  BY <1>1, SameSteps
     DEF Accounted, InTurn, Owned, Held, Stages, Clean, Busy, Serving, Drained, Ended
<1>3. /\ backlog \in Seq(Clients) /\ kind \in [Clients -> Kinds]
      /\ at \in [Clients -> Daemons \cup {Nobody}]
      /\ answer \in [Clients -> {"none", "local", "closed", "server_busy", "result",
                                 "error", "stopping"}]
  BY DEF TypeOK
<1>4. CASE /\ sock # Nobody /\ Listening(sock) /\ at' = [at EXCEPT ![c] = sock]
           /\ \E k \in Wants[c] : kind' = [kind EXCEPT ![c] = k]
           /\ backlog' = Append(backlog, c) /\ answer' = answer
  <2>1. sock \in Daemons
    BY <1>4 DEF TypeOK
  <2>2. ~Pending(c)
    BY <1>1, <1>4, <2>1 DEF Hosted
  <2>3. /\ backlog' \in Seq(Clients) /\ \A b : In(backlog', b) <=> In(backlog, b) \/ b = c
        /\ Once(backlog) /\ ~In(backlog, c) => Once(backlog')
    BY <1>3, <1>4, AtTheEnd
  <2>4. /\ at' \in [Clients -> Daemons \cup {Nobody}] /\ kind' \in [Clients -> Kinds]
        /\ at'[c] = sock /\ \A b \in Clients : b # c => at'[b] = at[b]
    <3>1. \A k \in Wants[c] : k \in Kinds
      OBVIOUS
    <3>. QED
      BY <1>3, <1>4, <2>1, <3>1
  <2>5. TypeOK'
    BY <1>1, <1>4, <2>3, <2>4 DEF TypeOK
  <2>6. Distinct'
    BY <1>1, <2>2, <2>3 DEF Distinct, Pending, Busy
  <2>7. \A b \in Clients : Pending(b)' => Pending(b) \/ b = c
    BY <1>1, <2>3 DEF Pending
  <2>8. Hosted'
    <3>1. ASSUME NEW e \in Daemons, Listening(e) PROVE e = sock
      BY <1>4, <2>1, <3>1, Alone DEF Listening, Inside
    <3>. QED
      BY <1>1, <1>4, <2>4, <2>7, <3>1 DEF Hosted, Listening
  <2>9. Told'
    BY <1>1, <1>4, <2>4 DEF Told
  <2>. QED
    BY <1>2, <2>5, <2>6, <2>8, <2>9
<1>5. CASE /\ answer' = [answer EXCEPT ![c] = "local"] /\ at' = at /\ kind' = kind
           /\ backlog' = backlog
  <2>1. /\ answer' \in [Clients -> {"none", "local", "closed", "server_busy", "result",
                                    "error", "stopping"}]
        /\ \A b \in Clients : b # c => answer'[b] = answer[b]
    BY <1>3, <1>5
  <2>2. TypeOK'
    BY <1>1, <1>5, <2>1 DEF TypeOK
  <2>3. Distinct'
    BY <1>1, <1>5 DEF Distinct, Busy
  <2>4. \A b \in Clients : Pending(b)' <=> Pending(b)
    BY <1>1, <1>5 DEF Pending
  <2>5. Hosted'
    BY <1>1, <1>5, <2>1, <2>4 DEF Hosted, Listening
  <2>6. Told'
    BY <1>1, <1>5, <2>1 DEF Told
  <2>. QED
    BY <1>2, <2>2, <2>3, <2>5, <2>6
<1>. QED
  BY <1>4, <1>5 DEF Connect

\* A client closes its end.
LEMMA GiveUpStep ==
    ASSUME DaemonInv, NEW c \in Clients, GiveUp(c)
    PROVE  DaemonInv'
<1>. USE DEF DaemonInv
<1>1. /\ process' = process /\ pool' = pool /\ metrics' = metrics /\ panics' = panics
      /\ kind' = kind /\ at' = at /\ answer' = answer /\ gone' = gone \cup {c}
  BY DEF GiveUp
<1>2. /\ state' = state /\ lock' = lock /\ sock' = sock
      /\ turn' = turn /\ backlog' = backlog /\ held' = held /\ queue' = queue /\ stops' = stops
      /\ worker' = worker /\ step' = step
      /\ accepted' = accepted /\ queued' = queued /\ active' = active
      /\ completed' = completed /\ rejected' = rejected
  BY <1>1 DEF process, pool, metrics
<1>3. TypeOK'
  BY <1>1, <1>2 DEF TypeOK
<1>4. Accounted' /\ Owned' /\ Held' /\ Stages' /\ Clean' /\ Drained' /\ Distinct'
  BY <1>2, SameSteps
     DEF Accounted, InTurn, Owned, Held, Stages, Clean, Busy, Serving, Drained, Ended,
         Distinct, In, Once
<1>5. Hosted' /\ Told'
  BY <1>1, <1>2 DEF Hosted, Listening, Pending, In, Told
<1>. QED
  BY <1>3, <1>4, <1>5

LEMMA Stuttering ==
    ASSUME DaemonInv, UNCHANGED vars
    PROVE  DaemonInv'
<1>. USE DEF DaemonInv, vars, process, pool, metrics, clients
<1>1. TypeOK'
  BY DEF TypeOK
<1>2. Accounted' /\ Owned' /\ Held' /\ Stages' /\ Clean' /\ Drained' /\ Distinct'
  BY SameSteps
     DEF Accounted, InTurn, Owned, Held, Stages, Clean, Busy, Serving, Drained, Ended,
         Distinct, In, Once
<1>3. Hosted' /\ Told'
  BY DEF Hosted, Listening, Pending, In, Told
<1>. QED
  BY <1>1, <1>2, <1>3

-----------------------------------------------------------------------------
(* The theorems.                                                           *)

\* The strengthened invariant holds in every state of every daemon, whatever
\* the number of daemons, workers and clients.
THEOREM DaemonInvariance == Spec => []DaemonInv
<1>1. Init => DaemonInv
  BY Initially
<1>2. DaemonInv /\ [Next]_vars => DaemonInv'
  <2>. SUFFICES ASSUME DaemonInv, [Next]_vars PROVE DaemonInv'
    OBVIOUS
  <2>1. ASSUME NEW d \in Daemons,
               \/ AcquireLock(d) \/ Boot(d) \/ BootFails(d) \/ Loop(d) \/ Interrupted(d)
               \/ AcceptFails(d) \/ Leave(d) \/ Kill(d)
        PROVE  DaemonInv'
    BY <2>1, DoorStep, ResetStep, PhaseStep, AcceptStep, CountStep, SendStep, RejectStep
       DEF Boot, Loop, Leave
  <2>2. ASSUME NEW w \in Workers, Work(w) \/ Panic(w)
        PROVE  DaemonInv'
    BY <2>2, ReceiveStep, CounterStep, DisconnectedStep, FinishStep, StopStep DEF Work
  <2>3. ASSUME NEW c \in Clients, Connect(c) \/ GiveUp(c)
        PROVE  DaemonInv'
    BY <2>3, ConnectStep, GiveUpStep
  <2>. QED
    BY <2>1, <2>2, <2>3, Stuttering DEF Next
<1>. QED
  BY <1>1, <1>2, PTL DEF Spec

\* The daemon's variables keep their types; no gauge goes below zero.
THEOREM DaemonTypes == Spec => []TypeOK
<1>1. DaemonInv => TypeOK
  BY DEF DaemonInv
<1>. QED
  BY <1>1, DaemonInvariance, PTL

\* At every moment between the single updates of the accept loop and the workers
\* the gauges count what is queued and served, and the counters miss only those
\* connections that are between two updates; through any rejections, time-outs,
\* panics and restarts.
THEOREM BooksBalance == Spec => []Accounted
<1>1. DaemonInv => Accounted
  BY DEF DaemonInv
<1>. QED
  BY <1>1, DaemonInvariance, PTL

\* A daemon stops serving only after it has told one of its own clients that it
\* is stopping, unless it is killed or accept() fails.
THEOREM StopsInOrder == Spec => StopsOnlyWhenTold
<1>1. DaemonInv /\ [Next]_vars =>
          [\A d \in Daemons : state[d] = "serving" /\ state'[d] # "serving" /\ panics' = panics
             => \E c \in Clients : at[c] = d /\ answer[c] = "stopping"]_vars
  <2>. SUFFICES ASSUME DaemonInv, Next, NEW d \in Daemons,
                       state[d] = "serving", state'[d] # "serving", panics' = panics
                PROVE  \E c \in Clients : at[c] = d /\ answer[c] = "stopping"
    OBVIOUS
  <2>1. TypeOK /\ Told /\ panics + 1 # panics
    BY DEF DaemonInv, TypeOK
  <2>2. state' # state
    OBVIOUS
  <2>3. PICK e \in Daemons : AcquireLock(e) \/ Boot(e) \/ Loop(e) \/ Leave(e)
    <3>1. ASSUME NEW e \in Daemons,
                 BootFails(e) \/ Kill(e) \/ Interrupted(e) \/ AcceptFails(e)
          PROVE FALSE
      BY <2>1, <3>1 DEF BootFails, Kill, Interrupted, AcceptFails
    <3>2. ASSUME NEW w \in Workers, Work(w) \/ Panic(w) PROVE FALSE
      BY <2>2, <3>2
         DEF Work, Receive, LowerQueued, RaiseActive, Disconnected, Handle, ReadTimesOut,
             Panic, LowerActive, RaiseCompleted, Stop, process
    <3>3. ASSUME NEW c \in Clients, Connect(c) \/ GiveUp(c) PROVE FALSE
      BY <2>2, <3>3 DEF Connect, GiveUp, process
    <3>. QED
      BY <3>1, <3>2, <3>3 DEF Next
  <2>4. e = d
    BY <2>1, <2>2, <2>3
       DEF AcquireLock, Boot, RemoveStale, Bind, Bootstrap, Loop, CheckShutdown, Accept,
           CountQueued, WouldBlock, TrySend, Full, Reject, Leave, Join, Unlock,
           RemoveSocket, Goto, process, TypeOK
  <2>5. CheckShutdown(d) /\ stops > 0
    BY <2>1, <2>2, <2>3, <2>4
       DEF AcquireLock, Boot, RemoveStale, Bind, Bootstrap, Loop, CheckShutdown, Accept,
           CountQueued, WouldBlock, TrySend, Full, Reject, Leave, Join, Unlock,
           RemoveSocket, Goto, process, TypeOK
  <2>. QED
    BY <2>1, <2>5 DEF Told
<1>. QED
  BY <1>1, DaemonInvariance, PTL DEF Spec, StopsOnlyWhenTold

\* Nobody is in two places, served twice, or answered while waiting.
THEOREM InOnePlace == Spec => []HeldOnce
<1>1. DaemonInv => HeldOnce
  <2>. SUFFICES ASSUME DaemonInv PROVE HeldOnce
    OBVIOUS
  <2>. USE DaemonAssumption DEF DaemonInv
  <2>. DEFINE hand == IF held = Nobody THEN <<>> ELSE <<held>>
              places == backlog \o queue \o hand
  <2>1. backlog \in Seq(Clients) /\ queue \in Seq(Clients) /\ hand \in Seq(Clients)
    BY DEF TypeOK
  <2>2. /\ \A c : In(hand, c) => c = held /\ held \in Clients /\ held # Nobody
        /\ Once(hand)
    BY DEF In, Once, TypeOK
  <2>. HIDE DEF hand
  <2>3. /\ backlog \o queue \in Seq(Clients) /\ Once(backlog \o queue)
        /\ \A c : In(backlog \o queue, c) => In(backlog, c) \/ In(queue, c)
    BY <2>1, Joined DEF Distinct
  <2>4. \A c \in Clients : ~(In(backlog \o queue, c) /\ In(hand, c))
    BY <2>2, <2>3 DEF Distinct
  <2>5. /\ Once(places) /\ places \in Seq(Clients)
        /\ \A c : In(places, c) => In(backlog, c) \/ In(queue, c) \/ (held = c /\ In(hand, c))
    BY <2>1, <2>2, <2>3, <2>4, Joined
  <2>. HIDE DEF places
  <2>6. \A i \in 1..Len(places) : places[i] \in Clients /\ In(places, places[i])
    BY <2>5 DEF In
  <2>7. \A i \in 1..Len(places) : \A w \in Workers : worker[w] # places[i]
    BY <2>5, <2>6 DEF Distinct, Busy
  <2>8. Joining \/ Serving => \A i \in 1..Len(places) : answer[places[i]] = "none"
    BY <2>5, <2>6 DEF Joining, Serving, Hosted, Listening, Pending
  <2>. QED
    BY <2>5, <2>7, <2>8 DEF HeldOnce, Once, places, hand
<1>. QED
  BY <1>1, DaemonInvariance, PTL

\* A queue is abandoned only by workers who all stopped at a Shutdown of their
\* own or panicked.
THEOREM QueueIsDrained == Spec => []DrainsQueue
<1>1. DaemonInv => DrainsQueue
  <2>. SUFFICES ASSUME DaemonInv, NEW d \in Daemons, state[d] = "unlocking", queue # <<>>
                PROVE  stops + Cardinality({w \in Workers : worker[w] = "panicked"})
                           >= Cardinality(Workers)
    BY DEF DrainsQueue
  <2>. DEFINE P == {w \in Workers : worker[w] = "panicked"}
  <2>1. /\ \A w \in Workers : worker[w] \in {"exited", "panicked"} /\ step[w] = "none"
        /\ Cardinality(Ended) =< stops /\ stops \in Nat
    BY DEF DaemonInv, Drained, TypeOK
  <2>2. Workers = Ended \cup P /\ Ended \cap P = {}
    BY <2>1 DEF Ended
  <2>3. IsFiniteSet(Ended) /\ IsFiniteSet(P)
    BY DaemonAssumption, FS_Subset DEF Ended
  <2>. HIDE DEF P
  <2>4. Cardinality(Workers) = Cardinality(Ended) + Cardinality(P) - Cardinality({})
    BY <2>2, <2>3, FS_Union
  <2>5. Cardinality({}) = 0 /\ Cardinality(Ended) \in Nat /\ Cardinality(P) \in Nat
    BY <2>3, FS_EmptySet, FS_CardinalityType
  <2>6. stops + Cardinality(P) >= Cardinality(Workers)
    BY <2>1, <2>4, <2>5
  <2>. QED
    BY <2>6 DEF P
<1>. QED
  BY <1>1, DaemonInvariance, PTL

=============================================================================
