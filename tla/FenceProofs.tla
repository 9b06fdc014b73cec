---------------------------- MODULE FenceProofs ----------------------------
(***************************************************************************)
(* The commit guard works for any number of claims, deaths and partitions: *)
(* proofs about Fence.                                                     *)
(***************************************************************************)
EXTENDS Fence, TLAPS

LEMMA Initially == Init => FenceInv
<1>. SUFFICES ASSUME Init PROVE FenceInv
  OBVIOUS
<1>1. cut \in BOOLEAN /\ fresh \in BOOLEAN
  BY Zenon DEF Init
<1>2. TypeOK
  BY <1>1, BoundsAssumption DEF Init, TypeOK, Writers, None, Terms
<1>3. /\ shown =< fence.gen /\ supTerm =< fence.gen
      /\ \A w \in Writers : term[w] =< fence.gen /\ child[w] = "none"
  BY DEF Init
<1>. QED
  BY <1>2, <1>3 DEF FenceInv, CheckedStillHolds, Writers, Alive

\* What the worker, its supervisor and the partition do.
LEMMA WorkerStep ==
    ASSUME FenceInv,
           \/ SupStart \/ SupStartUnclaimed \/ SupLaunch \/ SupReport \/ SupFenced
           \/ SupDies \/ WorkerDies \/ Cut \/ Heal \/ StatusAges
    PROVE  FenceInv'
<1>. USE DEF FenceInv, TypeOK, CheckedStillHolds, Writers, None, Terms,
         Alive, Holds, shard, worker, monitor, producers, budgets
<1>1. CASE SupStart
  BY <1>1, BoundsAssumption DEF SupStart, Claimed
<1>10. CASE SupStartUnclaimed
  <2>1. cut' \in BOOLEAN /\ fresh' \in BOOLEAN
    BY <1>10, Zenon DEF SupStartUnclaimed
  <2>2. /\ UNCHANGED <<shard, monitor, producers, cuts, deaths, orphans>>
        /\ sup' = "on" /\ supTerm' = 0 /\ restarts' \in 0..MaxRestarts
    BY <1>10, BoundsAssumption DEF SupStartUnclaimed
  <2>. QED
    BY <2>1, <2>2, BoundsAssumption
<1>2. CASE SupLaunch
  <2>1. UNCHANGED <<fence, caslock, shown, worker, monitor, budgets>>
    BY <1>2 DEF SupLaunch
  <2>2. CASE UNCHANGED <<producers, lease>>
    BY <2>1, <2>2
  <2>3. CASE /\ ~Alive("worker") /\ lease = None
             /\ child' = [child EXCEPT !["worker"] = "up"]
             /\ term' = [term EXCEPT !["worker"] = supTerm]
             /\ owned' = owned \cup {"worker"}
             /\ lease' = "worker"
    BY <2>1, <2>3
  <2>. QED
    BY <1>2, <2>2, <2>3 DEF SupLaunch, Launched
<1>3. CASE SupReport
  BY <1>3, BoundsAssumption DEF SupReport
<1>4. CASE SupFenced
  <2>1. CASE Gone("worker") /\ sup' = "fenced" /\ fresh' = TRUE
    BY <1>4, <2>1, BoundsAssumption DEF SupFenced, Gone, Released
  <2>2. CASE UNCHANGED <<shard, producers>>
    BY <1>4, <2>2, BoundsAssumption DEF SupFenced
  <2>. QED
    BY <1>4, <2>1, <2>2 DEF SupFenced
<1>5. CASE SupDies
  BY <1>5, BoundsAssumption DEF SupDies
<1>6. CASE WorkerDies
  BY <1>6, BoundsAssumption DEF WorkerDies, Gone, Released, Dies
<1>7. CASE Cut
  BY <1>7, BoundsAssumption DEF Cut, Released
<1>8. CASE Heal
  <2>1. cut' \in BOOLEAN /\ fresh' \in BOOLEAN
    BY <1>8, Zenon DEF Heal
  <2>2. UNCHANGED <<shard, sup, supTerm, monitor, producers, budgets>>
    BY <1>8 DEF Heal
  <2>. QED
    BY <2>1, <2>2
<1>9. CASE StatusAges
  <2>1. fresh' \in BOOLEAN
    BY <1>9, Zenon DEF StatusAges
  <2>2. UNCHANGED <<shard, cut, sup, supTerm, monitor, producers, budgets>>
    BY <1>9 DEF StatusAges
  <2>. QED
    BY <2>1, <2>2
<1>. QED
  BY <1>1, <1>2, <1>3, <1>4, <1>5, <1>6, <1>7, <1>8, <1>9, <1>10

\* What the monitor does.
LEMMA MonitorStep ==
    ASSUME FenceInv, Monitoring \/ MonDies \/ MonDiesUnpersisted
    PROVE  FenceInv'
<1>. USE DEF FenceInv, TypeOK, CheckedStillHolds, Writers, None, Terms,
         Alive, Holds, shard, worker, monitor, producers, budgets
<1>1. CASE MonStart
  BY <1>1, BoundsAssumption DEF MonStart
<1>2. CASE MonNotice \/ GraceElapses \/ MonDecide \/ MonContention
  <2>1. UNCHANGED <<shard, worker, monTerm, rec, producers, budgets>>
    BY <1>2 DEF MonNotice, GraceElapses, MonDecide, MonContention
  <2>2. /\ mon' \in {"off", "on", "claiming", "launched", "draining"}
        /\ grace' \in {"none", "counting", "past"}
    BY <1>2 DEF MonNotice, GraceElapses, MonDecide, MonContention
  <2>. QED
    BY <2>1, <2>2
<1>3. CASE MonClaim
  <2>1. /\ UNCHANGED <<caslock, shown, worker, rec, grace, budgets>>
        /\ caslock = None
        /\ fence' = [gen |-> fence.gen + 1, owner |-> "fallback"]
        /\ mon' = "launched"
    BY <1>3 DEF MonClaim, Claimed
  <2>2. fence.gen + 1 \in Terms /\ monTerm' = fence.gen + 1
    BY <1>3, BoundsAssumption DEF MonClaim, Claimed
  <2>3. CASE UNCHANGED <<producers, lease>>
    BY <2>1, <2>2, <2>3
  <2>4. CASE /\ ~Alive("fallback") /\ lease = None
             /\ child' = [child EXCEPT !["fallback"] = "up"]
             /\ term' = [term EXCEPT !["fallback"] = fence.gen + 1]
             /\ owned' = owned \cup {"fallback"}
             /\ lease' = "fallback"
    BY <2>1, <2>2, <2>4
  <2>. QED
    BY <1>3, <2>3, <2>4 DEF MonClaim, Launched
<1>4. CASE MonPersist
  BY <1>4, BoundsAssumption DEF MonPersist
<1>5. CASE MonRecover
  BY <1>5, BoundsAssumption DEF MonRecover
<1>6. CASE MonDrained
  <2>1. mon' = "on" /\ rec' = 0 /\ UNCHANGED <<worker, monTerm, grace, budgets>>
    BY <1>6 DEF MonDrained
  <2>2. CASE UNCHANGED <<shard, producers>>
    BY <2>1, <2>2, BoundsAssumption
  <2>3. CASE Gone("fallback")
    BY <2>1, <2>3, BoundsAssumption DEF Gone, Released
  <2>. QED
    BY <1>6, <2>2, <2>3 DEF MonDrained
<1>7. CASE MonDies
  BY <1>7, BoundsAssumption DEF MonDies, MonEnds, Dies
<1>8. CASE MonDiesUnpersisted
  BY <1>8, BoundsAssumption DEF MonDiesUnpersisted, MonEnds
<1>. QED
  BY <1>1, <1>2, <1>3, <1>4, <1>5, <1>6, <1>7, <1>8 DEF Monitoring

\* What a producer does around its rename.
LEMMA ProducerStep ==
    ASSUME FenceInv, NEW w \in Writers,
           GuardLock(w) \/ GuardCheck(w) \/ GuardRefuse(w) \/ Rename(w) \/ ProducerDies(w)
    PROVE  FenceInv'
<1>. USE DEF FenceInv, TypeOK, CheckedStillHolds, Writers, None, Terms,
         Alive, Holds, shard, worker, monitor, producers, budgets
<1>1. CASE GuardLock(w)
  BY <1>1, BoundsAssumption DEF GuardLock
<1>2. CASE GuardCheck(w)
  BY <1>2, BoundsAssumption DEF GuardCheck
<1>3. CASE GuardRefuse(w)
  <2>1. child[w] = "locked" /\ UNCHANGED <<worker, monitor, budgets>>
    BY <1>3 DEF GuardRefuse
  <2>2. CASE Gone(w)
    BY <2>1, <2>2 DEF Gone, Released
  <2>3. CASE /\ child' = [child EXCEPT ![w] = "up"]
             /\ caslock' = Released(caslock, w)
             /\ UNCHANGED <<fence, lease, shown, term, owned>>
    BY <2>1, <2>3 DEF Released
  <2>. QED
    BY <1>3, <2>2, <2>3 DEF GuardRefuse
<1>4. CASE Rename(w)
  BY <1>4, BoundsAssumption DEF Rename, Released
<1>5. CASE ProducerDies(w)
  BY <1>5, BoundsAssumption DEF ProducerDies, Gone, Released, Dies
<1>. QED
  BY <1>1, <1>2, <1>3, <1>4, <1>5

\* The inductive invariant holds in every reachable state of the failover.
THEOREM FenceInvariance == Spec => []FenceInv
<1>1. Init => FenceInv
  BY Initially
<1>2. FenceInv /\ [Next]_vars => FenceInv'
  <2>. SUFFICES ASSUME FenceInv, [Next]_vars PROVE FenceInv'
    OBVIOUS
  <2>1. CASE UNCHANGED vars
    BY <2>1 DEF vars, shard, worker, monitor, producers, budgets, FenceInv, TypeOK,
                CheckedStillHolds, Alive, Holds
  <2>2. CASE Next
    BY <2>2, WorkerStep, MonitorStep, ProducerStep
       DEF Next, Supervising, Publishing, Disturbance
  <2>. QED
    BY <2>1, <2>2
<1>. QED
  BY <1>1, <1>2, PTL DEF Spec

\* A producer that passed the check holds the fence until its rename is done, even
\* if the worker is cut off in between, as long as storage keeps the lock of a
\* commit that is pending (Spec has no LockLapses).  (commit_guard_at)
THEOREM GuardIsTight == Spec => []CheckedStillHolds
<1>1. FenceInv => CheckedStillHolds
  BY DEF FenceInv
<1>. QED
  BY <1>1, FenceInvariance, PTL

\* Two live producers never share a generation.  (cas_bump_fence)
THEOREM NobodySharesATerm == Spec => []TermsUnique
<1>1. FenceInv => TermsUnique
  BY DEF FenceInv, TermsUnique, TypeOK, Terms, Writers
<1>. QED
  BY <1>1, FenceInvariance, PTL

\* Every step of the failover is a claim, a publication by the newest claim, or
\* invisible to readers: Fence implements Leadership.
THEOREM ImplementsLeadership == Spec => OnlyTheLeaderPublishes
<1>1. Init => L!Init
  BY DEF Init, L!Init
<1>2. FenceInv /\ [Next]_vars => [L!Next]_<<fence.gen, shown>>
  <2>. SUFFICES ASSUME FenceInv, [Next]_vars PROVE [L!Next]_<<fence.gen, shown>>
    OBVIOUS
  <2>. USE DEF L!Next, L!Claim, L!Publish, shard
  <2>1. CASE SupStart \/ MonClaim
    BY <2>1 DEF SupStart, MonClaim, Claimed
  <2>2. ASSUME NEW w \in Writers, Rename(w) PROVE [L!Next]_<<fence.gen, shown>>
    BY <2>2 DEF Rename, FenceInv, CheckedStillHolds, Holds
  <2>3. ASSUME UNCHANGED <<fence, shown>> PROVE [L!Next]_<<fence.gen, shown>>
    BY <2>3
  <2>4. CASE SupStartUnclaimed \/ SupLaunch \/ SupReport \/ SupFenced
    BY <2>3, <2>4 DEF SupStartUnclaimed, SupLaunch, SupReport, SupFenced, Gone
  <2>5. CASE SupDies \/ WorkerDies \/ Cut \/ Heal \/ StatusAges
    BY <2>3, <2>5 DEF SupDies, WorkerDies, Gone, Cut, Heal, StatusAges
  <2>6. CASE MonStart \/ MonNotice \/ GraceElapses \/ MonDecide \/ MonContention
             \/ MonPersist \/ MonRecover \/ MonDrained \/ MonDies \/ MonDiesUnpersisted
    BY <2>3, <2>6 DEF MonStart, MonNotice, GraceElapses, MonDecide, MonContention,
       MonPersist, MonRecover, MonDrained, Gone, MonDies, MonDiesUnpersisted, MonEnds
  <2>7. ASSUME NEW w \in Writers,
               GuardLock(w) \/ GuardCheck(w) \/ GuardRefuse(w) \/ ProducerDies(w)
        PROVE [L!Next]_<<fence.gen, shown>>
    BY <2>3, <2>7 DEF GuardLock, GuardCheck, GuardRefuse, ProducerDies, Gone
  <2>8. CASE UNCHANGED vars
    BY <2>3, <2>8 DEF vars
  <2>. QED
    BY <2>1, <2>2, <2>4, <2>5, <2>6, <2>7, <2>8
       DEF Next, Supervising, Monitoring, Publishing, Disturbance
<1>. QED
  BY <1>1, <1>2, FenceInvariance, PTL DEF Spec, L!Spec, OnlyTheLeaderPublishes

=============================================================================
