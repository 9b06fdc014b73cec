------------------------------- MODULE Fence -------------------------------
(***************************************************************************)
(* Failover of one shard between two writers: the supervisor on the worker *)
(* (supervise), the monitor on the master that launches a fallback         *)
(* producer (monitor), both in src/scripts/producer_supervisor.py, and the *)
(* commit guard of the two producer processes (src/src/fence.rs, called    *)
(* from publish_pointer in src/src/snapshot.rs).                           *)
(*                                                                         *)
(* The fence file names the current term and its owner.  Claims replace it *)
(* under an flock on a sibling file; a producer takes the same lock,       *)
(* compares the fence with the term it was launched with, renames          *)
(* current.json and lets go.  Supervisor, monitor and producers die        *)
(* independently, and the worker may be cut off from shared storage at any *)
(* moment, a pending commit included; storage then drops the lease of its  *)
(* producer.  That it may drop the lock of a pending commit too is kept    *)
(* apart (LockLapses).                                                     *)
(*                                                                         *)
(* What the producers publish is not modelled here, only on whose behalf   *)
(* the pointer was moved last.  The owner token is the name of the writer. *)
(***************************************************************************)
EXTENDS Naturals

CONSTANTS
    Prompt,       \* polls of a running supervisor are shorter than ticks and grace
    ClaimsFail,   \* the supervisor's claim may fail
    MaxTerm,      \* bound: fence generations
    MaxRestarts,  \* bound: starts of the worker's supervisor
    MaxCuts,      \* bound: partitions
    MaxDeaths,    \* bound: deaths of producers, of the monitor and of the worker
    MaxOrphans    \* bound: deaths that leave a producer nobody knows of

ASSUME BoundsAssumption ==
    /\ Prompt \in BOOLEAN /\ ClaimsFail \in BOOLEAN
    /\ MaxTerm \in Nat /\ MaxRestarts \in Nat /\ MaxCuts \in Nat
    /\ MaxDeaths \in Nat /\ MaxOrphans \in Nat

VARIABLES
    \* shared storage
    fence,      \* fence.json: generation and owner; 0 when the file is missing
    caslock,    \* the producer that holds fence.json.caslock
    lease,      \* the producer that holds the publication's producer.lock
    shown,      \* generation on whose behalf current.json was renamed last
    \* the worker
    cut,        \* it does not reach shared storage
    sup,        \* its supervisor
    supTerm,    \* supervise: fence_gen, 0 for None
    fresh,      \* its shared status is younger than the monitor's timeout
    \* the monitor
    mon,        \* where its tick is
    monTerm,    \* the generation it just claimed
    rec,        \* persisted generation of its fallback, 0 when there is none
    grace,      \* how long the worker has been unreachable
    \* the producers
    child,      \* their phase
    term,       \* AWI_FENCE_GEN of each
    owned,      \* the ones their supervisor or monitor knows of
    restarts, cuts, deaths, orphans   \* spent budgets

shard == <<fence, caslock, lease, shown>>
worker == <<cut, sup, supTerm, fresh>>
monitor == <<mon, monTerm, rec, grace>>
producers == <<child, term, owned>>
budgets == <<restarts, cuts, deaths, orphans>>
vars == <<shard, worker, monitor, producers, budgets>>

-----------------------------------------------------------------------------

Writers == {"worker", "fallback"}
None == "none"
Terms == 0..MaxTerm

TypeOK ==
    /\ fence \in [gen : Terms, owner : Writers \cup {None}]
    /\ caslock \in Writers \cup {None}
    /\ lease \in Writers \cup {None}
    /\ shown \in Terms
    /\ cut \in BOOLEAN
    /\ sup \in {"off", "on", "fenced"}
    /\ supTerm \in Terms
    /\ fresh \in BOOLEAN
    /\ mon \in {"off", "on", "claiming", "launched", "draining"}
    /\ monTerm \in Terms
    /\ rec \in Terms
    /\ grace \in {"none", "counting", "past"}
    /\ child \in [Writers -> {"none", "up", "locked", "checked"}]
    /\ term \in [Writers -> Terms]
    /\ owned \in SUBSET Writers
    /\ restarts \in 0..MaxRestarts /\ cuts \in 0..MaxCuts
    /\ deaths \in 0..MaxDeaths /\ orphans \in 0..MaxOrphans

Init ==
    /\ fence = [gen |-> 0, owner |-> None]
    /\ caslock = None /\ lease = None /\ shown = 0
    /\ cut = FALSE /\ sup = "off" /\ supTerm = 0 /\ fresh = FALSE
    /\ mon = "off" /\ monTerm = 0 /\ rec = 0 /\ grace = "none"
    /\ child = [w \in Writers |-> "none"]
    /\ term = [w \in Writers |-> 0]
    /\ owned = {}
    /\ restarts = 0 /\ cuts = 0 /\ deaths = 0 /\ orphans = 0

-----------------------------------------------------------------------------

Reaches(w) == w = "worker" => ~cut

Alive(w) == child[w] # "none"

\* check: the fence names exactly this producer's generation and owner.
Holds(w) == term[w] # 0 /\ fence = [gen |-> term[w], owner |-> w]

\* cas_bump_fence once the lock is free: what it reads and writes under the
\* lock is one step, because every other writer of the file takes the lock too.
Claimed(owner) ==
    /\ caslock = None
    /\ fence.gen < MaxTerm
    /\ fence' = [gen |-> fence.gen + 1, owner |-> owner]
    /\ UNCHANGED <<caslock, shown>>

\* A process that ends, or that storage forgets, gives its locks back.
Released(lock, w) == IF lock = w THEN None ELSE lock

Gone(w) ==
    /\ child' = [child EXCEPT ![w] = "none"]
    /\ owned' = owned \ {w}
    /\ caslock' = Released(caslock, w)
    /\ lease' = Released(lease, w)
    /\ UNCHANGED <<fence, shown, term>>

\* A producer that finds its local or the publication lock taken exits at once.
Launched(w, t) ==
    IF Alive(w) \/ lease # None \/ ~Reaches(w)
    THEN UNCHANGED <<producers, lease>>
    ELSE /\ child' = [child EXCEPT ![w] = "up"]
         /\ term' = [term EXCEPT ![w] = t]
         /\ owned' = owned \cup {w}
         /\ lease' = w

Dies == deaths < MaxDeaths /\ deaths' = deaths + 1 /\ UNCHANGED <<restarts, cuts, orphans>>

-----------------------------------------------------------------------------
(* The worker and its supervisor.                                          *)

\* supervise() claims a fresh generation; main() holds the supervisor's lease.
SupStart ==
    /\ sup # "on" /\ ~cut
    /\ restarts < MaxRestarts
    /\ restarts' = restarts + 1
    /\ Claimed("worker")
    /\ sup' = "on"
    /\ supTerm' = fence.gen + 1
    /\ UNCHANGED <<lease, cut, fresh, monitor, producers, cuts, deaths, orphans>>

\* The lock cannot be opened twenty times in a row: the supervisor goes on
\* without a generation.
SupStartUnclaimed ==
    /\ ClaimsFail
    /\ sup # "on" /\ ~cut
    /\ restarts < MaxRestarts
    /\ restarts' = restarts + 1
    /\ sup' = "on"
    /\ supTerm' = 0
    /\ UNCHANGED <<shard, cut, fresh, monitor, producers, cuts, deaths, orphans>>

\* (Re)start the child with the generation claimed at the start.
SupLaunch ==
    /\ sup = "on"
    /\ ~Alive("worker")
    /\ Launched("worker", supTerm)
    /\ UNCHANGED <<fence, caslock, shown, worker, monitor, budgets>>

\* fence_lost, for a supervisor that has a generation.
Lost == supTerm # 0 /\ fence.gen > supTerm

\* A poll of the inner loop writes the shared status.
SupReport ==
    /\ sup = "on" /\ ~cut /\ ~Lost
    /\ fresh' = TRUE
    /\ UNCHANGED <<shard, cut, sup, supTerm, monitor, producers, budgets>>

\* A poll that finds the fence lost stops the child and exits for good.
SupFenced ==
    /\ sup = "on" /\ ~cut /\ Lost
    /\ fresh' = TRUE
    /\ sup' = "fenced"
    /\ IF "worker" \in owned THEN Gone("worker") ELSE UNCHANGED <<shard, producers>>
    /\ UNCHANGED <<cut, supTerm, monitor, budgets>>

\* The supervisor dies alone; its child has a session of its own and lives on.
SupDies ==
    /\ sup = "on"
    /\ orphans < MaxOrphans
    /\ orphans' = orphans + 1
    /\ sup' = "off"
    /\ owned' = owned \ {"worker"}
    /\ UNCHANGED <<shard, cut, supTerm, fresh, monitor, child, term>>
    /\ UNCHANGED <<restarts, cuts, deaths>>

\* The worker dies with both.
WorkerDies ==
    /\ sup = "on" \/ Alive("worker")
    /\ Dies
    /\ sup' = "off"
    /\ Gone("worker")
    /\ UNCHANGED <<cut, supTerm, fresh, monitor>>

\* The worker is cut off from storage, be it between the check of the fence and
\* the rename: what its producer was about to do there waits until Heal.
Cut ==
    /\ ~cut
    /\ cuts < MaxCuts
    /\ cuts' = cuts + 1
    /\ cut' = TRUE
    /\ lease' = Released(lease, "worker")
    /\ UNCHANGED <<fence, caslock, shown, sup, supTerm, fresh, monitor, producers>>
    /\ UNCHANGED <<restarts, deaths, orphans>>

\* Storage drops the lock of a commit that is pending on the other side.
LockLapses ==
    /\ cut /\ caslock = "worker"
    /\ caslock' = None
    /\ UNCHANGED <<fence, lease, shown, worker, monitor, producers, budgets>>

Heal ==
    /\ cut
    /\ cut' = FALSE
    /\ UNCHANGED <<shard, sup, supTerm, fresh, monitor, producers, budgets>>

\* Nothing refreshed the shared status for the monitor's timeout.
StatusAges ==
    /\ fresh
    /\ cut \/ sup # "on"
    /\ fresh' = FALSE
    /\ UNCHANGED <<shard, cut, sup, supTerm, monitor, producers, budgets>>

-----------------------------------------------------------------------------
(* The monitor on the master.                                              *)

\* Mutant: the monitor looks at the worker's status only.
StatusOnly == FALSE

\* The generation moved above the one of our fallback.
LeadershipLost == rec # 0 /\ fence.gen > rec

FallbackKnown == Alive("fallback") /\ "fallback" \in owned

\* Reattach to the persisted fallback if its process is alive.
MonStart ==
    /\ mon = "off"
    /\ mon' = "on"
    /\ rec' = IF FallbackKnown THEN rec ELSE 0
    /\ UNCHANGED <<shard, worker, monTerm, grace, producers, budgets>>

\* A supervisor that runs and reaches storage has reported in the meantime.
Unreported == Prompt => cut \/ sup # "on"

MonNotice ==
    /\ mon = "on" /\ ~fresh /\ ~LeadershipLost
    /\ grace = "none"
    /\ grace' = "counting"
    /\ UNCHANGED <<shard, worker, mon, monTerm, rec, producers, budgets>>

GraceElapses ==
    /\ grace = "counting" /\ Unreported
    /\ grace' = "past"
    /\ UNCHANGED <<shard, worker, mon, monTerm, rec, producers, budgets>>

\* A tick decides to take over from what it has read ...
MonDecide ==
    /\ mon = "on" /\ ~fresh /\ ~LeadershipLost
    /\ grace = "past" /\ Unreported
    /\ ~FallbackKnown
    /\ mon' = "claiming"
    /\ UNCHANGED <<shard, worker, monTerm, rec, grace, producers, budgets>>

\* ... claims the fence, unless it moved on since, and launches the fallback.
MonClaim ==
    /\ mon = "claiming"
    /\ rec \in {0, fence.gen}
    /\ Claimed("fallback")
    /\ Launched("fallback", fence.gen + 1)
    /\ monTerm' = fence.gen + 1
    /\ mon' = "launched"
    /\ UNCHANGED <<worker, rec, grace, budgets>>

MonContention ==
    /\ mon = "claiming"
    /\ rec \notin {0, fence.gen}
    /\ mon' = "on"
    /\ UNCHANGED <<shard, worker, monTerm, rec, grace, producers, budgets>>

MonPersist ==
    /\ mon = "launched"
    /\ rec' = monTerm
    /\ mon' = "on"
    /\ UNCHANGED <<shard, worker, monTerm, grace, producers, budgets>>

\* The worker is back, or somebody claimed a newer generation.
MonRecover ==
    /\ mon = "on"
    /\ fresh \/ LeadershipLost
    /\ mon' = IF rec # 0 \/ FallbackKnown THEN "draining" ELSE "on"
    /\ grace' = "none"
    /\ UNCHANGED <<shard, worker, monTerm, rec, producers, budgets>>

\* Mutant: the record of the drained fallback is kept.
RecordKept ==
    /\ mon = "draining"
    /\ mon' = "on"
    /\ IF "fallback" \in owned THEN Gone("fallback") ELSE UNCHANGED <<shard, producers>>
    /\ UNCHANGED <<worker, monTerm, rec, grace, budgets>>

\* SIGTERM, and SIGKILL after the drain time: the fallback is gone either way.
MonDrained ==
    /\ mon = "draining"
    /\ mon' = "on"
    /\ rec' = 0
    /\ IF "fallback" \in owned THEN Gone("fallback") ELSE UNCHANGED <<shard, producers>>
    /\ UNCHANGED <<worker, monTerm, grace, budgets>>

\* The monitor dies, between any two of its steps.
MonEnds ==
    /\ mon' = "off"
    /\ grace' = "none"
    /\ UNCHANGED <<shard, worker, monTerm, rec, child, term>>

MonDies == mon \in {"on", "claiming", "draining"} /\ Dies /\ MonEnds /\ UNCHANGED owned

\* After it launched a fallback and before it wrote that down.
MonDiesUnpersisted ==
    /\ mon = "launched"
    /\ orphans < MaxOrphans
    /\ orphans' = orphans + 1
    /\ MonEnds
    /\ owned' = owned \ {"fallback"}
    /\ UNCHANGED <<restarts, cuts, deaths>>

-----------------------------------------------------------------------------
(* The producers' commit guard, around the rename of current.json.         *)

\* Mutant: the fence is compared without the lock.
GuardUnlocked(w) ==
    /\ child[w] = "up" /\ Reaches(w)
    /\ term[w] # 0
    /\ child' = [child EXCEPT ![w] = "locked"]
    /\ UNCHANGED <<shard, worker, monitor, term, owned, budgets>>

GuardLock(w) ==
    /\ child[w] = "up" /\ Reaches(w)
    /\ term[w] # 0
    /\ caslock = None
    /\ caslock' = w
    /\ child' = [child EXCEPT ![w] = "locked"]
    /\ UNCHANGED <<fence, lease, shown, worker, monitor, term, owned, budgets>>

GuardCheck(w) ==
    /\ child[w] = "locked" /\ Reaches(w)
    /\ Holds(w)
    /\ child' = [child EXCEPT ![w] = "checked"]
    /\ UNCHANGED <<shard, worker, monitor, term, owned, budgets>>

\* The guard refuses: the fence names somebody else, or could not be read in time.
\* An orphan's report of that goes to a pipe nobody reads any more, which ends the
\* process.
GuardRefuse(w) ==
    /\ child[w] = "locked" /\ Reaches(w)
    /\ IF w = "worker" /\ w \notin owned
       THEN Gone(w)
       ELSE /\ child' = [child EXCEPT ![w] = "up"]
            /\ caslock' = Released(caslock, w)
            /\ UNCHANGED <<fence, lease, shown, term, owned>>
    /\ UNCHANGED <<worker, monitor, budgets>>

\* current.json is renamed; the guard is dropped when publish_pointer returns.
Rename(w) ==
    /\ child[w] = "checked" /\ Reaches(w)
    /\ shown' = term[w]
    /\ child' = [child EXCEPT ![w] = "up"]
    /\ caslock' = Released(caslock, w)
    /\ UNCHANGED <<fence, lease, worker, monitor, term, owned, budgets>>

ProducerDies(w) ==
    /\ Alive(w)
    /\ Dies
    /\ Gone(w)
    /\ UNCHANGED <<worker, monitor>>

-----------------------------------------------------------------------------

Supervising == SupStart \/ SupStartUnclaimed \/ SupLaunch \/ SupReport \/ SupFenced

Monitoring ==
    \/ MonStart \/ MonNotice \/ GraceElapses \/ MonDecide \/ MonClaim
    \/ MonContention \/ MonPersist \/ MonRecover \/ MonDrained

Publishing ==
    \E w \in Writers : GuardLock(w) \/ GuardCheck(w) \/ GuardRefuse(w) \/ Rename(w)

Disturbance ==
    \/ SupDies \/ WorkerDies \/ Cut \/ Heal \/ StatusAges
    \/ MonDies \/ MonDiesUnpersisted
    \/ \E w \in Writers : ProducerDies(w)

Next == Supervising \/ Monitoring \/ Publishing \/ Disturbance

Spec == Init /\ [][Next]_vars

\* What Spec leaves out: OnlyTheLeaderPublishes does not hold for it.
SpecLapse == Init /\ [][Next \/ LockLapses]_vars

\* Each loop keeps running, partitions end, and the lock is granted in turn.
\* Nothing makes the worker's supervisor start again.
Fairness ==
    /\ WF_vars(SupLaunch) /\ WF_vars(SupReport) /\ WF_vars(SupFenced)
    /\ WF_vars(Monitoring) /\ SF_vars(MonClaim)
    /\ WF_vars(Heal) /\ WF_vars(StatusAges)
    /\ \A w \in Writers :
           /\ SF_vars(GuardLock(w))
           /\ WF_vars(GuardCheck(w) \/ GuardRefuse(w) \/ Rename(w))

LiveSpec == Spec /\ Fairness

-----------------------------------------------------------------------------
(* Properties.                                                             *)

\* The pointer only moves on behalf of the newest claim, and claims only move
\* forward, although the check and the rename are separate steps and deaths,
\* claims and partitions may fall between them.
\* (commit_guard_at, publish_pointer, cas_bump_fence)
L == INSTANCE Leadership WITH term <- fence.gen, shown <- shown

OnlyTheLeaderPublishes == L!Spec

\* A producer that has passed the check still holds the fence, so that nobody
\* takes over before its rename.  (commit_guard_at)
CheckedStillHolds ==
    \A w \in Writers : child[w] = "checked" => Holds(w) /\ caslock = w

\* Two producers that are alive never run at the same generation.
\* (cas_bump_fence, supervise, monitor)
TermsUnique ==
    (Alive("worker") /\ Alive("fallback") /\ term["worker"] # 0) =>
        term["worker"] # term["fallback"]

\* The inductive invariant behind OnlyTheLeaderPublishes and TermsUnique: locks
\* are held by the producers that rely on them, and nobody runs at a generation
\* that was never claimed.
FenceInv ==
    /\ TypeOK
    /\ CheckedStillHolds
    /\ \A w \in Writers : child[w] = "locked" => caslock = w
    /\ shown =< fence.gen /\ supTerm =< fence.gen
    /\ \A w \in Writers : term[w] =< fence.gen
    /\ Alive("fallback") => lease = "fallback"
    /\ (Alive("worker") /\ Alive("fallback")) => term["worker"] < term["fallback"]

\* Again and again there is a producer that may publish.  (supervise, monitor)
ShardServed == []<>(\E w \in Writers : Alive(w) /\ Reaches(w) /\ Holds(w))

\* A producer that lost the fence is stopped.  (fence_lost, monitor)
SupersededStops ==
    \A w \in Writers : (Alive(w) /\ ~Holds(w)) ~> (~Alive(w) \/ Holds(w))

=============================================================================
