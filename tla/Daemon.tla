------------------------------- MODULE Daemon -------------------------------
(***************************************************************************)
(* The query daemon (src/src/daemon.rs): its start behind daemon.lock, the *)
(* accept loop and its bounded queue, the pool of query workers, the       *)
(* Shutdown request, and the way out through the socket guard; and its     *)
(* clients (try_request), who connect to the socket path, wait at most     *)
(* their I/O timeout, and answer from the local index if nobody listens.   *)
(*                                                                         *)
(* Daemons are started by clients' wrappers at any time, on one index      *)
(* directory and one socket path, and serve published snapshots.  Only the *)
(* daemon that holds the lock has a pool, so there is one pool.  What a    *)
(* worker reads is the subject of ReaderCache.                             *)
(***************************************************************************)
EXTENDS Naturals, Integers, FiniteSets, Sequences

CONSTANTS
    Clients,    \* each makes one request
    Wants,      \* the kinds of request each client may make
    Daemons,    \* processes, each started once
    Workers,    \* AWI_DAEMON_QUERY_WORKERS
    Capacity,   \* AWI_DAEMON_QUERY_QUEUE_CAPACITY
    MaxPanics   \* bound: workers that panic, accepts that are interrupted or
                \* fail, daemons that cannot boot or are killed

Nobody == "nobody"
\* A mute client sends nothing; a trickling one sends a byte now and then and
\* never the end of its line.
Kinds == {"query", "mute", "stop", "trickle"}

ASSUME DaemonAssumption ==
    /\ Nobody \notin Daemons \cup Clients
    /\ Wants \in [Clients -> SUBSET Kinds]
    /\ {"idle", "exited", "panicked"} \cap Clients = {} /\ IsFiniteSet(Workers)
    /\ Capacity \in Nat \ {0} /\ MaxPanics \in Nat

VARIABLES
    \* processes
    state,      \* of each daemon
    lock,       \* holder of daemon.lock
    sock,       \* the daemon whose socket is at the path, dead or alive
    \* the daemon that serves
    turn,       \* where its accept loop is
    backlog,    \* connections nobody has accepted
    held,       \* the connection between accept and try_send
    queue,      \* the channel to the workers
    stops,      \* messages in the shutdown channel
    worker,     \* the connection it handles, or what it does once it is through
                \* with one: "idle", "exited", "panicked"
    step,       \* which update of the metrics it has yet to make
    accepted, queued, active, completed, rejected,   \* its metrics
    \* clients
    kind,       \* of request
    at,         \* the daemon it is connected to
    answer,     \* what it was told
    gone,       \* clients that closed their end
    panics

process == <<state, lock, sock>>
pool == <<turn, backlog, held, queue, stops, worker, step>>
metrics == <<accepted, queued, active, completed, rejected>>
clients == <<kind, at, answer, gone>>
vars == <<process, pool, metrics, clients, panics>>

Listening(d) == state[d] \in {"booting", "serving", "joining"}
Reset ==
    /\ turn' = "check" /\ backlog' = <<>> /\ held' = Nobody /\ queue' = <<>>
    /\ stops' = 0 /\ worker' = [w \in Workers |-> "idle"]
    /\ step' = [w \in Workers |-> "none"]
    /\ accepted' = 0 /\ queued' = 0 /\ active' = 0 /\ completed' = 0 /\ rejected' = 0

Init ==
    /\ state = [d \in Daemons |-> "new"] /\ lock = Nobody /\ sock = Nobody
    /\ turn = "check" /\ backlog = <<>> /\ held = Nobody /\ queue = <<>>
    /\ stops = 0 /\ worker = [w \in Workers |-> "idle"]
    /\ step = [w \in Workers |-> "none"]
    /\ accepted = 0 /\ queued = 0 /\ active = 0 /\ completed = 0 /\ rejected = 0
    /\ kind = [c \in Clients |-> "query"] /\ at = [c \in Clients |-> Nobody]
    /\ answer = [c \in Clients |-> "none"] /\ gone = {}
    /\ panics = 0

-----------------------------------------------------------------------------
(* Start: the lock, the stale socket, the new one, the first snapshot.     *)

Goto(d, s) == state' = [state EXCEPT ![d] = s]

AcquireLock(d) ==
    /\ state[d] = "new"
    /\ IF lock = Nobody THEN lock' = d /\ Goto(d, "locked")
                        ELSE Goto(d, "exited") /\ UNCHANGED lock
    /\ UNCHANGED <<sock, pool, metrics, clients, panics>>

RemoveStale(d) ==
    /\ state[d] = "locked"
    /\ sock' = Nobody
    /\ Goto(d, "cleared")
    /\ UNCHANGED <<lock, pool, metrics, clients, panics>>

\* Binding fails if the path exists again; the lock is then dropped.
Bind(d) ==
    /\ state[d] = "cleared"
    /\ IF sock = Nobody
       THEN sock' = d /\ Goto(d, "booting") /\ UNCHANGED lock
       ELSE Goto(d, "exited") /\ lock' = Nobody /\ UNCHANGED sock
    /\ Reset
    /\ UNCHANGED <<clients, panics>>

Bootstrap(d) ==
    /\ state[d] = "booting"
    /\ Goto(d, "serving")
    /\ UNCHANGED <<lock, sock, pool, metrics, clients, panics>>

\* Connections the process still had are closed with it.
Dropped(S) == answer' = [c \in Clients |->
    IF c \in S /\ answer[c] = "none" THEN "closed" ELSE answer[c]]
Connected(d) == {c \in Clients : at[c] = d}

\* The first snapshot cannot be opened.
BootFails(d) ==
    /\ state[d] = "booting" /\ panics < MaxPanics
    /\ panics' = panics + 1
    /\ Goto(d, "unlocking")
    /\ Dropped(Connected(d))
    /\ UNCHANGED <<lock, sock, pool, metrics, kind, at, gone>>

-----------------------------------------------------------------------------
(* The accept loop: a look at the shutdown channel, then one connection.   *)
(* Each metric is an atomic of its own: every update is a step of its own. *)

CheckShutdown(d) ==
    /\ state[d] = "serving" /\ turn = "check"
    /\ IF stops > 0 THEN Goto(d, "joining") /\ UNCHANGED turn
                    ELSE turn' = "accept" /\ UNCHANGED state
    /\ UNCHANGED <<lock, sock, backlog, held, queue, stops, worker, step, metrics,
                   clients, panics>>

\* Mutant: a connection is counted as queued after it was sent.
CountedLate(t) ==
    CASE t = "accept" -> "send" [] t = "send" -> "count" [] OTHER -> "check"

\* A connection is counted as queued before it is sent.
Following(t) ==
    CASE t = "accept" -> "count" [] t = "count" -> "send" [] OTHER -> "check"

Accept(d) ==
    /\ state[d] = "serving" /\ turn = "accept" /\ backlog # <<>>
    /\ held' = Head(backlog) /\ backlog' = Tail(backlog)
    /\ turn' = Following("accept")
    /\ accepted' = accepted + 1
    /\ UNCHANGED <<process, queue, stops, worker, step, queued, active, completed,
                   rejected, clients, panics>>

WouldBlock(d) ==
    /\ state[d] = "serving" /\ turn = "accept" /\ backlog = <<>>
    /\ turn' = "check"
    /\ UNCHANGED <<process, backlog, held, queue, stops, worker, step, metrics,
                   clients, panics>>

\* accept() is interrupted; the loop goes round.
Interrupted(d) ==
    /\ state[d] = "serving" /\ turn = "accept" /\ panics < MaxPanics
    /\ panics' = panics + 1
    /\ turn' = "check"
    /\ UNCHANGED <<process, backlog, held, queue, stops, worker, step, metrics, clients>>

\* accept() fails otherwise: no descriptor is left, or the connection was
\* aborted.  The loop ends, and the workers are joined as at a Shutdown.
AcceptFails(d) ==
    /\ state[d] = "serving" /\ turn = "accept" /\ panics < MaxPanics
    /\ panics' = panics + 1
    /\ Goto(d, "joining") /\ turn' = "check"
    /\ UNCHANGED <<lock, sock, backlog, held, queue, stops, worker, step, metrics, clients>>

CountQueued(d) ==
    /\ state[d] = "serving" /\ turn = "count"
    /\ queued' = queued + 1 /\ turn' = Following("count")
    /\ UNCHANGED <<process, backlog, held, queue, stops, worker, step, accepted, active,
                   completed, rejected, clients, panics>>

\* The channel has room: the workers have the connection.
TrySend(d) ==
    /\ state[d] = "serving" /\ turn = "send" /\ Len(queue) < Capacity
    /\ queue' = Append(queue, held) /\ held' = Nobody
    /\ turn' = Following("send")
    /\ UNCHANGED <<process, backlog, stops, worker, step, metrics, clients, panics>>

Full(d) ==
    /\ state[d] = "serving" /\ turn = "send" /\ Len(queue) >= Capacity
    /\ queued' = queued - 1 /\ turn' = "reject"
    /\ UNCHANGED <<process, backlog, held, queue, stops, worker, step, accepted, active,
                   completed, rejected, clients, panics>>

\* A client that has closed its end is told nothing.
Tell(c, a) == answer' = [answer EXCEPT ![c] = IF c \in gone THEN @ ELSE a]

Reject(d) ==
    /\ state[d] = "serving" /\ turn = "reject"
    /\ rejected' = rejected + 1 /\ Tell(held, "server_busy")
    /\ held' = Nobody /\ turn' = "check"
    /\ UNCHANGED <<process, backlog, queue, stops, worker, step, accepted, queued, active,
                   completed, kind, at, gone, panics>>

-----------------------------------------------------------------------------
(* The workers.                                                            *)

Serving == \E d \in Daemons : state[d] \in {"serving", "joining"}
Joining == \E d \in Daemons : state[d] = "joining"

Step(w, s) == step' = [step EXCEPT ![w] = s]
Free(w) == worker[w] = "idle" /\ step[w] = "none"

Receive(w) ==
    /\ Serving /\ Free(w) /\ queue # <<>>
    /\ worker' = [worker EXCEPT ![w] = Head(queue)]
    /\ queue' = Tail(queue)
    /\ Step(w, "taken")
    /\ UNCHANGED <<process, turn, backlog, held, stops, metrics, clients, panics>>

LowerQueued(w) ==
    /\ step[w] = "taken"
    /\ queued' = queued - 1 /\ Step(w, "dequeued")
    /\ UNCHANGED <<process, turn, backlog, held, queue, stops, worker, accepted, active,
                   completed, rejected, clients, panics>>

RaiseActive(w) ==
    /\ step[w] = "dequeued"
    /\ active' = active + 1 /\ Step(w, "handling")
    /\ UNCHANGED <<process, turn, backlog, held, queue, stops, worker, accepted, queued,
                   completed, rejected, clients, panics>>

\* Mutant: a worker leaves as soon as the accept loop has.
LeavesEarly(w) ==
    /\ Joining /\ Free(w)
    /\ worker' = [worker EXCEPT ![w] = "exited"]
    /\ UNCHANGED <<process, turn, backlog, held, queue, stops, step, metrics, clients,
                   panics>>

\* The channel is empty and its sender dropped.
Disconnected(w) ==
    /\ Joining /\ Free(w) /\ queue = <<>>
    /\ worker' = [worker EXCEPT ![w] = "exited"]
    /\ UNCHANGED <<process, turn, backlog, held, queue, stops, step, metrics, clients,
                   panics>>

\* What dispatch makes of a request.  An error stands for a failed request, a
\* mutation of a served snapshot, another protocol version and what cannot be
\* decoded or is too large.
Answers(k) ==
    CASE k = "query" -> {"result", "error"}
      [] k = "stop" -> {"stopping"}
      [] k = "trickle" -> {"error"}
      [] OTHER -> {}

\* A trickling client's line ends when it closes its end.
Complete(c) == kind[c] # "trickle" \/ c \in gone

\* Mutant: a Shutdown counts even if its client cannot be told.
HandleUntold(w) ==
    /\ step[w] = "handling"
    /\ LET c == worker[w] IN
       /\ Complete(c)
       /\ \E a \in Answers(kind[c]) : Tell(c, a)
       /\ worker' = [worker EXCEPT ![w] = IF kind[c] = "stop" THEN "exited" ELSE "idle"]
    /\ Step(w, "answered")
    /\ UNCHANGED <<process, turn, backlog, held, queue, stops, metrics, kind, at, gone,
                   panics>>

\* One request and its response.  The worker ends only if the response to
\* Shutdown could be written.
Handle(w) ==
    /\ step[w] = "handling"
    /\ LET c == worker[w] IN
       /\ Complete(c)
       /\ \E a \in Answers(kind[c]) : Tell(c, a)
       /\ worker' = [worker EXCEPT ![w] =
              IF kind[c] = "stop" /\ c \notin gone THEN "exited" ELSE "idle"]
    /\ Step(w, "answered")
    /\ UNCHANGED <<process, turn, backlog, held, queue, stops, metrics, kind, at, gone,
                   panics>>

\* Mutant: the stream has no read timeout.
NoTimeout(w) == FALSE

\* Nothing arrives within IO_TIMEOUT: the stream is dropped.  The time runs for
\* each read: whoever trickles is never timed out.
ReadTimesOut(w) ==
    /\ step[w] = "handling" /\ kind[worker[w]] = "mute"
    /\ Dropped({worker[w]})
    /\ worker' = [worker EXCEPT ![w] = "idle"] /\ Step(w, "answered")
    /\ UNCHANGED <<process, turn, backlog, held, queue, stops, metrics, kind, at, gone,
                   panics>>

\* A panic ends the thread; nobody replaces it.
Panic(w) ==
    /\ step[w] = "handling" /\ panics < MaxPanics
    /\ panics' = panics + 1
    /\ Dropped({worker[w]})
    /\ worker' = [worker EXCEPT ![w] = "panicked"] /\ Step(w, "answered")
    /\ UNCHANGED <<process, turn, backlog, held, queue, stops, metrics, kind, at, gone>>

\* ActiveRequest is dropped, by a panic too.
LowerActive(w) ==
    /\ step[w] = "answered"
    /\ active' = active - 1 /\ Step(w, "inactive")
    /\ UNCHANGED <<process, turn, backlog, held, queue, stops, worker, accepted, queued,
                   completed, rejected, clients, panics>>

RaiseCompleted(w) ==
    /\ step[w] = "inactive"
    /\ completed' = completed + 1
    /\ Step(w, IF worker[w] = "exited" THEN "leaving" ELSE "none")
    /\ UNCHANGED <<process, turn, backlog, held, queue, stops, worker, accepted, queued,
                   active, rejected, clients, panics>>

\* The accept loop hears of a Shutdown from the worker that ends at it.
Stop(w) ==
    /\ step[w] = "leaving"
    /\ stops' = stops + 1 /\ Step(w, "none")
    /\ UNCHANGED <<process, turn, backlog, held, queue, worker, metrics, clients, panics>>

-----------------------------------------------------------------------------
(* The way out.  The listener and the channel are dropped when the workers *)
(* have ended, then the lock, then the socket guard, declared before it.   *)

\* Mutant: a worker that panicked is waited for.
JoinAllExited(d) ==
    /\ state[d] = "joining"
    /\ \A w \in Workers : worker[w] = "exited" /\ step[w] = "none"
    /\ Goto(d, "unlocking")
    /\ Dropped(Connected(d))
    /\ UNCHANGED <<lock, sock, pool, metrics, kind, at, gone, panics>>

Join(d) ==
    /\ state[d] = "joining"
    /\ \A w \in Workers : worker[w] \in {"exited", "panicked"} /\ step[w] = "none"
    /\ Goto(d, "unlocking")
    /\ Dropped(Connected(d))
    /\ UNCHANGED <<lock, sock, pool, metrics, kind, at, gone, panics>>

Unlock(d) ==
    /\ state[d] = "unlocking"
    /\ lock' = Nobody
    /\ Goto(d, "unlinking")
    /\ UNCHANGED <<sock, pool, metrics, clients, panics>>

RemoveSocket(d) ==
    /\ state[d] = "unlinking"
    /\ sock' = Nobody
    /\ Goto(d, "exited")
    /\ UNCHANGED <<lock, pool, metrics, clients, panics>>

\* A signal ends the process: no guard runs.
Kill(d) ==
    /\ state[d] \notin {"new", "exited"} /\ panics < MaxPanics
    /\ panics' = panics + 1
    /\ Goto(d, "exited")
    /\ lock' = IF lock = d THEN Nobody ELSE lock
    /\ IF Listening(d) THEN Dropped(Connected(d)) /\ Reset
                       ELSE UNCHANGED <<answer, pool, metrics>>
    /\ UNCHANGED <<sock, kind, at, gone>>

-----------------------------------------------------------------------------
(* Clients.                                                                *)

Connect(c) ==
    /\ at[c] = Nobody /\ answer[c] = "none"
    /\ IF sock # Nobody /\ Listening(sock)
       THEN /\ at' = [at EXCEPT ![c] = sock]
            /\ \E k \in Wants[c] : kind' = [kind EXCEPT ![c] = k]
            /\ backlog' = Append(backlog, c)
            /\ UNCHANGED answer
       ELSE /\ answer' = [answer EXCEPT ![c] = "local"]
            /\ UNCHANGED <<at, kind, backlog>>
    /\ UNCHANGED <<process, turn, held, queue, stops, worker, step, metrics, gone, panics>>

\* The client's own I/O timeout, or its end.
GiveUp(c) ==
    /\ at[c] # Nobody /\ answer[c] = "none" /\ c \notin gone
    /\ gone' = gone \cup {c}
    /\ UNCHANGED <<process, pool, metrics, kind, at, answer, panics>>

-----------------------------------------------------------------------------
Loop(d) ==
    \/ CheckShutdown(d) \/ Accept(d) \/ CountQueued(d) \/ TrySend(d)
    \/ Full(d) \/ Reject(d) \/ WouldBlock(d)
Leave(d) == Join(d) \/ Unlock(d) \/ RemoveSocket(d)
Boot(d) == RemoveStale(d) \/ Bind(d) \/ Bootstrap(d)
Work(w) ==
    \/ Receive(w) \/ LowerQueued(w) \/ RaiseActive(w) \/ Disconnected(w)
    \/ Handle(w) \/ ReadTimesOut(w) \/ LowerActive(w) \/ RaiseCompleted(w) \/ Stop(w)

Next ==
    \/ \E d \in Daemons :
         \/ AcquireLock(d) \/ Boot(d) \/ BootFails(d) \/ Loop(d) \/ Interrupted(d)
         \/ AcceptFails(d) \/ Leave(d) \/ Kill(d)
    \/ \E w \in Workers : Work(w) \/ Panic(w)
    \/ \E c \in Clients : Connect(c) \/ GiveUp(c)

Spec == Init /\ [][Next]_vars

\* The threads run and their reads time out; clients and starts are free.
LiveSpec == /\ Spec
            /\ \A d \in Daemons : WF_vars(Boot(d) \/ Loop(d) \/ Leave(d))
            /\ \A w \in Workers : WF_vars(Work(w))
-----------------------------------------------------------------------------
TypeOK ==
    /\ state \in [Daemons -> {"new", "locked", "cleared", "booting", "serving",
                              "joining", "unlocking", "unlinking", "exited"}]
    /\ lock \in Daemons \cup {Nobody} /\ sock \in Daemons \cup {Nobody}
    /\ turn \in {"check", "accept", "count", "send", "reject"}
    /\ backlog \in Seq(Clients) /\ held \in Clients \cup {Nobody}
    /\ queue \in Seq(Clients) /\ stops \in Nat
    /\ worker \in [Workers -> Clients \cup {"idle", "exited", "panicked"}]
    /\ step \in [Workers -> {"none", "taken", "dequeued", "handling", "answered",
                             "inactive", "leaving"}]
    /\ {accepted, queued, active, completed, rejected} \subseteq Nat
    /\ kind \in [Clients -> Kinds] /\ at \in [Clients -> Daemons \cup {Nobody}]
    /\ answer \in [Clients -> {"none", "local", "closed", "server_busy", "result",
                               "error", "stopping"}]
    /\ gone \subseteq Clients /\ panics \in 0..MaxPanics

AtStep(S) == Cardinality({w \in Workers : step[w] \in S})
InTurn(S) == IF turn \in S THEN 1 ELSE 0

\* Between any two updates of the accept loop and the workers, through rejections,
\* panics and clients that left, the gauges are what the pool holds, never below
\* zero, and the counters are short of `accepted` by those connections only that
\* are between two updates.  (A Metrics request reads the five one after the
\* other: each value it gets is right, their sum need not be.)
Accounted ==
    /\ queued = Len(queue) + InTurn({"send"}) + AtStep({"taken"})
    /\ active = AtStep({"handling", "answered"})
    /\ accepted = queued + active + completed + rejected
                    + InTurn({"count", "reject"}) + AtStep({"dequeued", "inactive"})

\* A connection is in one place only: nobody is served twice, and nobody who was
\* answered is still waited for.
HeldOnce ==
    LET places == backlog \o queue \o (IF held = Nobody THEN <<>> ELSE <<held>>) IN
    /\ \A i, j \in 1..Len(places) : places[i] = places[j] => i = j
    /\ \A i \in 1..Len(places) : \A w \in Workers : worker[w] # places[i]
    /\ Joining \/ Serving =>
         \A i \in 1..Len(places) : answer[places[i]] = "none"

\* A daemon leaves its queue unanswered only if no worker is left to drain it:
\* each of them stopped at a Shutdown of its own or panicked.
DrainsQueue ==
    \A d \in Daemons : state[d] = "unlocking" /\ queue # <<>> =>
        stops + Cardinality({w \in Workers : worker[w] = "panicked"})
            >= Cardinality(Workers)

\* README.md: "An individual client disconnect or write failure is logged
\* without terminating the shared daemon."  It stops serving only after it told
\* a client so, unless it is killed or its listener fails.
StopsOnlyWhenTold ==
    [][\A d \in Daemons : state[d] = "serving" /\ state'[d] # "serving" /\ panics' = panics
          => \E c \in Clients : at[c] = d /\ answer[c] = "stopping"]_vars

\* A worker whose client trickles: no read of it ever times out.
Stuck(w) == step[w] = "handling" /\ ~Complete(worker[w])

\* A daemon that told a client it is stopping ends and gives up the lock,
\* whatever the other clients do: only one that trickles can hold it up.
ShutdownHonoured ==
    <>[](\A c \in Clients : answer[c] = "stopping" =>
            \/ state[at[c]] = "exited" /\ lock # at[c]
            \/ \E w \in Workers : Stuck(w))

\* Trickling clients have every worker that did not panic, or hold up the end.
Starved ==
    \/ \A w \in Workers : Stuck(w) \/ worker[w] = "panicked"
    \/ Joining /\ \E w \in Workers : Stuck(w)

\* Whoever gets a connection and completes its request, or sends nothing, is
\* answered, or sees it closed, or gives up: mute clients, full queues, a panic
\* and trickling clients do not starve it while a worker is left.
EveryoneHears ==
    <>[](\A c \in Clients : at[c] # Nobody =>
            answer[c] # "none" \/ ~Complete(c) \/ c \in gone \/ Starved)

\* A daemon that serves can be reached: README.md, the wrapper "starts or reuses
\* one local snapshot daemon".
Reachable == \A d \in Daemons : state[d] = "serving" => sock = d
=============================================================================
