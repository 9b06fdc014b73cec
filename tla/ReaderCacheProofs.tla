-------------------------- MODULE ReaderCacheProofs --------------------------
(***************************************************************************)
(* The cache of a serving daemon never takes a set away from its readers,  *)
(* stays bounded, and never shows a reader an older generation: proofs     *)
(* about ReaderCache, for any shards, workers, publications, edits of the  *)
(* collection, failed opens and deaths of the daemon.                      *)
(***************************************************************************)
EXTENDS ReaderCache, FiniteSetTheorems, SequenceTheorems, TLAPS

-----------------------------------------------------------------------------
(* The inductive invariant.                                                *)

\* Nobody serves anything before the accept loop runs; while it runs its own
\* set is the one whose path it hands out.
Serving ==
    /\ path = Active
    /\ up => Active # NoSet
    /\ ~up => /\ lease = [r \in Readers |-> NoSet] /\ scratch = {}
              /\ asked = [r \in Followers |-> NoSet] /\ touched = {}
    /\ scratch \subseteq Followers
    /\ \A r \in touched : asked[r] # NoSet

\* Every set of the lists occurs once, and the newest is the one just pinned.
Listed ==
    /\ IsFiniteSet(dirs)
    /\ IsInjective(recent) /\ IsInjective(todo)
    /\ pc \in {"prune", "done"} => recent # <<>> /\ recent[1] = pinned

\* What the refresh has pinned and copied by each of its steps.
Copied ==
    /\ \A s \in Shards : pointer[s] <= published + 1
    /\ pc = "idle" => pinned = NoSet
    /\ pc \in {"idle", "pin"} => ready = {}
    /\ pc = "pin" => want # {}
    /\ pc \in {"copy", "describe", "prune", "done"} => pinned \in Sets /\ DOMAIN pinned = want
    /\ pc \in {"copy", "describe"} => \A s \in ready : <<s, pinned[s]>> \in whole
    /\ pc = "describe" => ready = want

\* The part of the invariant LeasedStaysWhole needs: a described set is whole, a
\* lease is on a described set.
DescribedWhole == \A set \in Described : Contents(set) \subseteq whole
LeaseDescribed ==
    \A r \in Readers : lease[r] # NoSet /\ r \notin scratch => lease[r] \in Described

\* How far a prune has got: it keeps the copies of exactly the sets it has passed
\* and kept, it takes the described sets first, and it never touches the newest.
Pruning ==
    /\ pc = "prune" =>
        /\ \A set \in Described : set \in ToSet(todo) \/ Contents(set) \subseteq retained
        /\ retained \subseteq UNION {Contents(set) : set \in Described \ ToSet(todo)}
        /\ \A i, j \in DOMAIN todo : i < j /\ todo[j] \in Described => todo[i] \in Described
        /\ \A i \in DOMAIN recent : i <= rank /\ i <= Keep => recent[i] \notin ToSet(todo)
        /\ rank < Keep => \A i \in DOMAIN todo :
               rank + i <= Len(recent) => todo[i] = recent[rank + i]
    /\ pc = "done" /\ todo = <<>> =>
        whole \cup broken \subseteq UNION {Contents(set) : set \in Described}

CacheInv ==
    /\ TypeOK /\ Serving /\ Listed /\ Copied /\ DescribedWhole /\ LeaseDescribed /\ Pruning

-----------------------------------------------------------------------------
(* What NeverScratch needs on top of it.                                   *)

\* A set that is among the first n of a list.
Among(list, set, n) == \E i \in DOMAIN list : i <= n /\ list[i] = set

\* A follower's path moves down by a place with each prune.
Near ==
    misses = 0 =>
        /\ scratch = {}
        /\ up => Among(recent, Active, IF pc \in {"prune", "done"} THEN 2 ELSE 1)
        /\ \A r \in Followers : asked[r] # NoSet => Among(recent, asked[r], lag[r] + 2)

-----------------------------------------------------------------------------
(* What CacheBounded needs on top of it.                                   *)

\* What is served now counts as used, and a prune has let nothing pass beyond the
\* newest Keep that is not.
Tracked ==
    /\ pc \in {"prune", "done"} => \A r \in Readers : lease[r] \in used \cup {NoSet}
    /\ pc = "prune" => \A i \in DOMAIN recent :
           i > Keep => recent[i] \in used \/ recent[i] \in ToSet(todo)
    /\ CacheBounded

-----------------------------------------------------------------------------
(* What GenerationsMoveForward needs on top of it.                         *)

\* The generations of the second set are no older than those of the first.
Precedes(old, new) == \A s \in DOMAIN old \cap DOMAIN new : old[s] <= new[s]
Published(at, set) == \A s \in DOMAIN set : set[s] <= at[s]

\* A reader serves what was pinned before what it is about to open, that before
\* what is active, and that before what is being pinned.
Forward ==
    /\ Published(pointer, pinned)
    /\ \A r \in Readers : /\ Published(pointer, lease[r])
                          /\ Precedes(lease[r], Active) /\ Precedes(lease[r], pinned)
    /\ \A r \in Followers : /\ Published(pointer, asked[r]) /\ Precedes(lease[r], asked[r])
                            /\ Precedes(asked[r], Active) /\ Precedes(asked[r], pinned)

-----------------------------------------------------------------------------
(* Lists and sets.                                                         *)

LEMMA NoSetIsEmpty == DOMAIN NoSet = {} /\ NoSet \notin Sets
<1>1. DOMAIN NoSet = {}
  BY DEF NoSet
<1>2. \A set \in Sets : DOMAIN set # {}
  BY DEF Sets
<1> QED
  BY <1>1, <1>2

LEMMA SetIsFunction ==
    ASSUME NEW set \in Sets
    PROVE  /\ DOMAIN set \subseteq Shards /\ DOMAIN set # {}
           /\ \A s \in DOMAIN set : set[s] \in Gens
           /\ Contents(set) \subseteq Copies
  BY DEF Sets, Copies, Contents

\* Where the element was that a list has lost.
LEMMA RemovedAt ==
    ASSUME NEW S, NEW list \in Seq(S), IsInjective(list), NEW e
    PROVE  \/ e \notin ToSet(list) /\ RemoveFirst(list, e) = list
           \/ \E p \in 1..Len(list) :
                /\ list[p] = e
                /\ Len(RemoveFirst(list, e)) = Len(list) - 1
                /\ RemoveFirst(list, e) \in Seq(S)
                /\ \A i \in 1..Len(list) - 1 :
                       RemoveFirst(list, e)[i] = IF i < p THEN list[i] ELSE list[i + 1]
<1>1. CASE e \notin ToSet(list)
  <2>1. e \notin {list[i] : i \in 1..Len(list)}
    BY <1>1 DEF ToSet
  <2> QED
    BY <1>1, <2>1 DEF RemoveFirst, SelectInSeq
<1>2. CASE e \in ToSet(list)
  <2>1. PICK p \in 1..Len(list) : list[p] = e
    BY <1>2 DEF ToSet
  <2>2. {i \in 1..Len(list) : list[i] = e} = {p}
    BY <2>1 DEF IsInjective
  <2>3. Min({p}) = p
    BY <2>1 DEF Min
  <2> DEFINE before == SubSeq(list, 1, p - 1)
             after == SubSeq(list, p + 1, Len(list))
             new == RemoveFirst(list, e)
  <2>4. new = before \o after
    BY <2>1, <2>2, <2>3 DEF RemoveFirst, SelectInSeq, RemoveAt
  <2>5. /\ before \in Seq(S) /\ Len(before) = p - 1
        /\ \A i \in 1..p - 1 : before[i] = list[i]
    BY <2>1
  <2>6. /\ after \in Seq(S) /\ Len(after) = Len(list) - p
        /\ \A i \in 1..Len(list) - p : after[i] = list[p + i]
    BY <2>1
  <2>7. Len(list) \in Nat /\ p \in Nat
    BY <2>1
  <2> HIDE DEF before, after, new
  <2>8. /\ new \in Seq(S) /\ Len(new) = Len(before) + Len(after)
        /\ \A i \in 1..Len(before) + Len(after) :
               new[i] = IF i <= Len(before) THEN before[i] ELSE after[i - Len(before)]
    BY <2>4, <2>5, <2>6, ConcatProperties
  <2>9. Len(new) = Len(list) - 1
    BY <2>5, <2>6, <2>7, <2>8
  <2>10. ASSUME NEW i \in 1..Len(list) - 1
         PROVE  new[i] = IF i < p THEN list[i] ELSE list[i + 1]
    <3>1. /\ i \in 1..Len(before) + Len(after) /\ (i <= Len(before)) = (i < p)
          /\ i < p => i \in 1..p - 1
          /\ ~(i < p) => i - Len(before) \in 1..Len(list) - p /\ p + (i - Len(before)) = i + 1
      BY <2>5, <2>6, <2>7
    <3>2. new[i] = IF i < p THEN before[i] ELSE after[i - Len(before)]
      BY <2>8, <3>1
    <3> QED
      BY <2>5, <2>6, <3>1, <3>2
  <2> QED
    BY <2>1, <2>8, <2>9, <2>10 DEF new
<1> QED
  BY <1>1, <1>2

LEMMA RemovedOnce ==
    ASSUME NEW S, NEW list \in Seq(S), IsInjective(list), NEW e
    PROVE  /\ RemoveFirst(list, e) \in Seq(S) /\ IsInjective(RemoveFirst(list, e))
           /\ ToSet(RemoveFirst(list, e)) = ToSet(list) \ {e}
           /\ Len(RemoveFirst(list, e)) <= Len(list)
<1>1. CASE e \notin ToSet(list) /\ RemoveFirst(list, e) = list
  BY <1>1
<1>2. CASE ~(e \notin ToSet(list) /\ RemoveFirst(list, e) = list)
  <2> DEFINE new == RemoveFirst(list, e)
  <2>1. PICK p \in 1..Len(list) :
          /\ list[p] = e
          /\ Len(new) = Len(list) - 1
          /\ new \in Seq(S)
          /\ \A i \in 1..Len(list) - 1 : new[i] = IF i < p THEN list[i] ELSE list[i + 1]
    BY <1>2, RemovedAt
  <2> HIDE DEF new
  <2> DEFINE was(i) == IF i < p THEN i ELSE i + 1
  <2>0. \A i \in 1..Len(new) :
          was(i) \in 1..Len(list) /\ was(i) # p /\ new[i] = list[was(i)]
    BY <2>1
  <2>2. IsInjective(new)
    <3>1. DOMAIN new = 1..Len(new) /\ DOMAIN list = 1..Len(list)
      BY <2>1
    <3>2. \A i, j \in 1..Len(new) : was(i) = was(j) => i = j
      BY <2>1
    <3> QED
      BY <2>0, <3>1, <3>2 DEF IsInjective
  <2>3. ASSUME NEW x \in ToSet(list), x # e  PROVE x \in ToSet(new)
    <3>1. PICK i \in 1..Len(list) : list[i] = x
      BY DEF ToSet
    <3>2. IF i < p THEN i \in 1..Len(new) /\ new[i] = x
                   ELSE i - 1 \in 1..Len(new) /\ new[i - 1] = x
      BY <2>1, <2>3, <3>1
    <3> QED
      BY <2>1, <3>2 DEF ToSet
  <2>4. ASSUME NEW x \in ToSet(new)  PROVE x \in ToSet(list) /\ x # e
    <3>1. PICK i \in 1..Len(new) : new[i] = x
      BY <2>1 DEF ToSet
    <3>2. list[was(i)] = x /\ was(i) \in DOMAIN list /\ was(i) # p
      BY <2>0, <3>1
    <3> QED
      BY <2>1, <3>2 DEF ToSet, IsInjective
  <2> QED
    BY <2>1, <2>2, <2>3, <2>4 DEF new
<1> QED
  BY <1>1, <1>2

LEMMA ListOfSet ==
    ASSUME NEW S, IsFiniteSet(S)
    PROVE  /\ SetToSeq(S) \in Seq(S) /\ IsInjective(SetToSeq(S))
           /\ ToSet(SetToSeq(S)) = S
<1> DEFINE n == Cardinality(S)
<1>1. PICK f \in Bijection(1..n, S) : TRUE
  BY FS_CardinalityType DEF ExistsBijection
<1>2. f \in [1..n -> S] /\ IsInjective(f)
  BY DEF Bijection, Injection
<1>3. SetToSeq(S) \in [1..n -> S] /\ IsInjective(SetToSeq(S))
  BY <1>2 DEF SetToSeq
<1>4. SetToSeq(S) \in Injection(1..n, S)
  BY <1>3 DEF Injection
<1>5. n \in Nat /\ IsFiniteSet(1..n) /\ Cardinality(1..n) = n
  BY FS_CardinalityType, FS_Interval
<1>6. SetToSeq(S) \in Surjection(1..n, S)
  BY <1>4, <1>5, FS_Injection
<1> QED
  BY <1>3, <1>5, <1>6 DEF Surjection, ToSet, Range

\* A list without repetitions made of two that share nothing.
Together(S, list, other, both) ==
    /\ both \in Seq(S) /\ IsInjective(both)
    /\ Len(both) = Len(list) + Len(other)
    /\ ToSet(both) = ToSet(list) \cup ToSet(other)
    /\ \A i \in 1..Len(list) : both[i] = list[i]
    /\ \A i \in 1..Len(other) : both[Len(list) + i] = other[i]

LEMMA Joined ==
    ASSUME NEW S, NEW list \in Seq(S), NEW other \in Seq(S),
           IsInjective(list), IsInjective(other), ToSet(list) \cap ToSet(other) = {}
    PROVE  Together(S, list, other, list \o other)
<1> DEFINE both == list \o other
<1>1. /\ both \in Seq(S) /\ Len(both) = Len(list) + Len(other)
      /\ \A i \in 1..Len(list) + Len(other) :
             both[i] = IF i <= Len(list) THEN list[i] ELSE other[i - Len(list)]
  BY ConcatProperties
<1>2. /\ Len(list) \in Nat /\ Len(other) \in Nat
      /\ DOMAIN list = 1..Len(list) /\ DOMAIN other = 1..Len(other) /\ DOMAIN both = 1..Len(both)
  BY <1>1
<1> HIDE DEF both
<1>3. \A i \in 1..Len(list) : i \in DOMAIN both /\ both[i] = list[i]
  BY <1>1, <1>2
<1>4. ASSUME NEW i \in 1..Len(other)
      PROVE  Len(list) + i \in DOMAIN both /\ both[Len(list) + i] = other[i]
  <2>1. /\ Len(list) + i \in 1..Len(list) + Len(other) /\ ~(Len(list) + i <= Len(list))
        /\ (Len(list) + i) - Len(list) = i
    BY <1>2
  <2> QED
    BY <1>1, <1>2, <2>1
<1>5. ASSUME NEW i \in DOMAIN both
      PROVE  \/ i \in 1..Len(list) /\ both[i] = list[i] /\ list[i] \in ToSet(list)
             \/ i - Len(list) \in 1..Len(other) /\ both[i] = other[i - Len(list)]
                /\ other[i - Len(list)] \in ToSet(other)
  <2>1. CASE i <= Len(list)
    BY <1>1, <1>2, <2>1 DEF ToSet
  <2>2. CASE ~(i <= Len(list))
    <3>1. i - Len(list) \in 1..Len(other) /\ both[i] = other[i - Len(list)]
      BY <1>1, <1>2, <2>2
    <3> QED
      BY <1>2, <3>1 DEF ToSet
  <2> QED
    BY <2>1, <2>2
<1>6. ToSet(both) = ToSet(list) \cup ToSet(other)
  <2>1. ToSet(both) \subseteq ToSet(list) \cup ToSet(other)
    BY <1>5 DEF ToSet
  <2>2. ToSet(list) \subseteq ToSet(both)
    BY <1>2, <1>3 DEF ToSet
  <2>3. ToSet(other) \subseteq ToSet(both)
    BY <1>2, <1>4 DEF ToSet
  <2> QED
    BY <2>1, <2>2, <2>3
<1>7. ASSUME NEW i \in DOMAIN both, NEW j \in DOMAIN both, both[i] = both[j]  PROVE i = j
  <2>1. CASE i \in 1..Len(list) /\ j \in 1..Len(list) /\ list[i] = list[j]
    BY <1>2, <2>1 DEF IsInjective
  <2>2. CASE /\ i - Len(list) \in 1..Len(other) /\ j - Len(list) \in 1..Len(other)
             /\ other[i - Len(list)] = other[j - Len(list)]
    <3>1. i - Len(list) = j - Len(list)
      BY <1>2, <2>2 DEF IsInjective
    <3> QED
      BY <1>2, <3>1
  <2> QED
    BY <1>5, <1>7, <2>1, <2>2
<1>8. IsInjective(both)
  BY <1>7 DEF IsInjective
<1> QED
  BY <1>1, <1>3, <1>4, <1>6, <1>8 DEF both, Together

\* A list with an element moved to its front, and the place the others have then.
Moved(S, list, e, new) ==
    /\ new \in Seq(S) /\ IsInjective(new) /\ new # <<>> /\ new[1] = e
    /\ ToSet(new) = ToSet(list) \cup {e}
    /\ Len(new) <= Len(list) + 1
    /\ \A i \in 1..Len(list) : \E j \in 1..Len(new) : j <= i + 1 /\ new[j] = list[i]

LEMMA MovedToFront ==
    ASSUME NEW S, NEW list \in Seq(S), IsInjective(list), NEW e \in S
    PROVE  Moved(S, list, e, <<e>> \o RemoveFirst(list, e))
<1> DEFINE rest == RemoveFirst(list, e)
<1>0. PICK new : new = <<e>> \o rest
  OBVIOUS
<1>1. /\ rest \in Seq(S) /\ IsInjective(rest) /\ ToSet(rest) = ToSet(list) \ {e}
      /\ Len(rest) <= Len(list)
  BY RemovedOnce
<1>2. /\ <<e>> \in Seq(S) /\ IsInjective(<<e>>) /\ ToSet(<<e>>) = {e} /\ Len(<<e>>) = 1
  BY DEF IsInjective, ToSet
<1>3. ASSUME NEW i \in 1..Len(list), list[i] # e
      PROVE  \E j \in 1..Len(rest) : j <= i /\ rest[j] = list[i]
  <2>1. CASE e \notin ToSet(list) /\ rest = list
    BY <2>1
  <2>2. CASE ~(e \notin ToSet(list) /\ rest = list)
    <3>1. PICK p \in 1..Len(list) :
            /\ list[p] = e
            /\ Len(rest) = Len(list) - 1
            /\ \A k \in 1..Len(list) - 1 : rest[k] = IF k < p THEN list[k] ELSE list[k + 1]
      BY <2>2, RemovedAt
    <3> HIDE DEF rest
    <3>2. CASE i < p
      BY <3>1, <3>2
    <3>3. CASE ~(i < p)
      <4>1. i \in Int /\ p \in Int /\ i # p /\ p < i /\ Len(list) \in Nat
        BY <1>3, <3>1, <3>3
      <4>2. i - 1 \in 1..Len(list) - 1 /\ ~(i - 1 < p) /\ (i - 1) + 1 = i
        BY <3>1, <4>1
      <4>3. rest[i - 1] = list[i]
        BY <3>1, <4>2
      <4> QED
        BY <3>1, <4>1, <4>2, <4>3
    <3> QED
      BY <3>2, <3>3
  <2> QED
    BY <2>1, <2>2
<1> HIDE DEF rest
<1>4. /\ new \in Seq(S) /\ IsInjective(new) /\ Len(new) = 1 + Len(rest)
      /\ ToSet(new) = {e} \cup ToSet(rest)
      /\ new[1] = e /\ \A i \in 1..Len(rest) : new[1 + i] = rest[i]
  <2>1. PICK first : first = <<e>>
    OBVIOUS
  <2>2. first \in Seq(S) /\ IsInjective(first) /\ ToSet(first) = {e} /\ Len(first) = 1 /\ first[1] = e
    BY <1>2, <2>1
  <2>3. ToSet(first) \cap ToSet(rest) = {}
    BY <1>1, <2>2
  <2>4. PICK other : other = rest
    OBVIOUS
  <2>5. other \in Seq(S) /\ IsInjective(other) /\ ToSet(first) \cap ToSet(other) = {}
    BY <1>1, <2>3, <2>4
  <2>6. first \in Seq(S) /\ IsInjective(first)
    BY <2>2
  <2>7. Together(S, first, other, first \o other)
    BY <2>5, <2>6, Joined
  <2>8. new = first \o other
    BY <1>0, <2>1, <2>4
  <2>9. Together(S, first, other, new)
    BY <2>7, <2>8
  <2>10. /\ new \in Seq(S) /\ IsInjective(new) /\ ToSet(new) = ToSet(first) \cup ToSet(other)
         /\ Len(new) = Len(first) + Len(other)
    BY <2>9 DEF Together
  <2>11. \A i \in 1..Len(first) : new[i] = first[i]
    BY <2>9 DEF Together
  <2>12. \A i \in 1..Len(other) : new[Len(first) + i] = other[i]
    BY <2>9 DEF Together
  <2>13. first[1] = e /\ Len(first) = 1 /\ 1 \in 1..Len(first)
    BY <2>2
  <2>14. new[1] = e
    BY <2>11, <2>13
  <2>15. \A i \in 1..Len(rest) : new[1 + i] = rest[i]
    BY <2>4, <2>12, <2>13
  <2> QED
    BY <2>2, <2>4, <2>10, <2>13, <2>14, <2>15
<1>5. ASSUME NEW i \in 1..Len(list)
      PROVE  \E j \in 1..Len(new) : j <= i + 1 /\ new[j] = list[i]
  <2>1. CASE list[i] = e
    BY <1>1, <1>4, <2>1
  <2>2. CASE list[i] # e
    <3>1. PICK j \in 1..Len(rest) : j <= i /\ rest[j] = list[i]
      BY <1>3, <2>2
    <3>2. 1 + j \in 1..Len(new) /\ 1 + j <= i + 1 /\ new[1 + j] = list[i]
      BY <1>1, <1>4, <3>1
    <3> QED
      BY <3>2
  <2> QED
    BY <2>1, <2>2
<1>6. new # <<>> /\ Len(new) <= Len(list) + 1
  BY <1>1, <1>4
<1>7. Moved(S, list, e, new)
  BY <1>1, <1>4, <1>5, <1>6 DEF Moved
<1> QED
  BY <1>0, <1>7 DEF rest

LEMMA TailOfList ==
    ASSUME NEW S, NEW list \in Seq(S), IsInjective(list), list # <<>>
    PROVE  /\ Head(list) \in S /\ Tail(list) \in Seq(S) /\ IsInjective(Tail(list))
           /\ Head(list) = list[1] /\ Len(Tail(list)) = Len(list) - 1
           /\ \A i \in 1..Len(list) - 1 : Tail(list)[i] = list[i + 1]
           /\ ToSet(Tail(list)) = ToSet(list) \ {Head(list)}
<1>1. /\ Head(list) \in S /\ Tail(list) \in Seq(S) /\ Head(list) = list[1]
      /\ Len(list) \in Nat \ {0} /\ Len(Tail(list)) = Len(list) - 1
      /\ \A i \in 1..Len(list) - 1 : Tail(list)[i] = list[i + 1]
  OBVIOUS
<1>2. IsInjective(Tail(list))
  BY <1>1 DEF IsInjective
<1>3. ASSUME NEW x \in ToSet(list), x # Head(list)  PROVE x \in ToSet(Tail(list))
  <2>1. PICK i \in 1..Len(list) : list[i] = x
    BY DEF ToSet
  <2>2. i - 1 \in 1..Len(list) - 1 /\ Tail(list)[i - 1] = x
    BY <1>1, <1>3, <2>1
  <2>3. DOMAIN Tail(list) = 1..Len(list) - 1
    BY <1>1
  <2> QED
    BY <2>2, <2>3 DEF ToSet
<1>4. ASSUME NEW x \in ToSet(Tail(list))  PROVE x \in ToSet(list) /\ x # Head(list)
  <2>1. PICK i \in 1..Len(list) - 1 : Tail(list)[i] = x
    BY <1>1 DEF ToSet
  <2>2. list[i + 1] = x /\ i + 1 \in 1..Len(list) /\ 1 \in 1..Len(list) /\ i + 1 # 1
    BY <1>1, <2>1
  <2> QED
    BY <1>1, <2>2 DEF ToSet, IsInjective
<1> QED
  BY <1>1, <1>2, <1>3, <1>4

-----------------------------------------------------------------------------
(* The steps outside the refresh.                                          *)

LEMMA InitCache == Init => CacheInv
<1> SUFFICES ASSUME Init PROVE CacheInv
  OBVIOUS
<1> USE ReaderAssumption
<1>1. ToSet(<<>>) = {} /\ IsInjective(<<>>) /\ <<>> \in Seq(Sets) /\ IsFiniteSet({})
  BY FS_EmptySet DEF ToSet, IsInjective
<1>2. TypeOK
  <2>1. pointer \in [Shards -> Gens] /\ conf \in (SUBSET Shards) \ {{}}
    BY DEF Init, Gens
  <2>2. /\ lag \in [Followers -> 0..MaxLag]
        /\ faults \in 0..MaxFaults /\ misses \in 0..faults
        /\ published \in 0..MaxPublish /\ reconfs \in 0..MaxReconf
    BY DEF Init
  <2> QED
    BY <1>1, <2>1, <2>2, NoSetIsEmpty DEF Init, TypeOK
<1>3. Serving /\ Listed
  BY <1>1 DEF Init, Serving, Listed, Active, Readers
<1>4. Copied
  BY DEF Init, Copied
<1>5. DescribedWhole /\ LeaseDescribed /\ Pruning
  BY <1>1 DEF Init, DescribedWhole, LeaseDescribed, Pruning, Described
<1> QED
  BY <1>2, <1>3, <1>4, <1>5 DEF CacheInv

\* A step that leaves the cache, the leases and the refresh alone keeps most of it.
LEMMA WorldStep ==
    ASSUME CacheInv, (\E s \in Shards : Publish(s)) \/ Reconfigure
    PROVE  CacheInv'
<1> USE ReaderAssumption DEF CacheInv
<1>1. UNCHANGED <<cache, up, path, serving, opening, refresh, faulty>>
  BY DEF Publish, Reconfigure
<1>2. TypeOK' /\ (\A s \in Shards : pointer[s] <= published + 1)'
  <2>1. CASE Reconfigure
    BY <2>1 DEF Reconfigure, TypeOK, cache, serving, opening, refresh, faulty, Copied
  <2>2. ASSUME NEW s \in Shards, Publish(s)
        PROVE  TypeOK' /\ (\A t \in Shards : pointer[t] <= published + 1)'
    <3>1. pointer' \in [Shards -> Gens] /\ \A t \in Shards : pointer'[t] <= published' + 1
      <4>1. /\ MaxPublish \in Nat /\ published \in Nat /\ published < MaxPublish
            /\ published' = published + 1 /\ pointer' = [pointer EXCEPT ![s] = @ + 1]
            /\ pointer \in [Shards -> Gens] /\ \A t \in Shards : pointer[t] <= published + 1
        BY <2>2 DEF Publish, TypeOK, Copied
      <4> QED
        BY <4>1 DEF Gens
    <3>2. published' \in 0..MaxPublish
      BY <2>2 DEF Publish, TypeOK
    <3>3. conf' = conf /\ reconfs' = reconfs
      BY <2>2 DEF Publish
    <3>4. TypeOK'
      BY <1>1, <3>1, <3>2, <3>3 DEF TypeOK, cache, serving, opening, refresh, faulty
    <3> QED
      BY <3>1, <3>4
  <2> QED
    BY <2>1, <2>2
<1>3. Serving' /\ Listed'
  BY <1>1 DEF Serving, Listed, Active, cache, serving, opening, refresh
<1>4. Copied'
  BY <1>1, <1>2 DEF Copied, cache, refresh
<1>5. DescribedWhole' /\ LeaseDescribed' /\ Pruning'
  BY <1>1 DEF DescribedWhole, LeaseDescribed, Pruning, Described, cache, serving, refresh
<1> QED
  BY <1>2, <1>3, <1>4, <1>5

LEMMA ReadPathStep ==
    ASSUME CacheInv, NEW r \in Followers, ReadPath(r)
    PROVE  CacheInv'
<1> USE ReaderAssumption DEF CacheInv
<1>1. UNCHANGED <<source, cache, up, path, serving, touched, used, refresh, faulty>>
  BY DEF ReadPath
<1>2. /\ asked' = [asked EXCEPT ![r] = path] /\ lag' = [lag EXCEPT ![r] = 0]
      /\ path \in Sets
  BY NoSetIsEmpty DEF ReadPath, Serving, TypeOK
<1>3. TypeOK'
  BY <1>1, <1>2 DEF TypeOK, source, cache, serving, refresh, faulty
<1>4. Serving'
  BY <1>1, <1>2, NoSetIsEmpty DEF ReadPath, Serving, Active, TypeOK, serving
<1>5. Listed' /\ Copied' /\ DescribedWhole' /\ LeaseDescribed' /\ Pruning'
  BY <1>1 DEF Listed, Copied, DescribedWhole, LeaseDescribed, Pruning, Described,
              source, cache, serving, refresh
<1> QED
  BY <1>3, <1>4, <1>5

LEMMA TouchStep ==
    ASSUME CacheInv, NEW r \in Followers, Touch(r)
    PROVE  CacheInv'
<1> USE ReaderAssumption DEF CacheInv
<1>1. UNCHANGED <<source, whole, broken, recent, up, path, serving, asked, lag, used, refresh, faulty>>
  BY DEF Touch
<1>2. /\ dirs' = dirs \cup {asked[r]} /\ touched' = touched \cup {r}
      /\ asked[r] \in Sets /\ asked[r] # NoSet
  BY DEF Touch, TypeOK
<1>3. TypeOK'
  BY <1>1, <1>2 DEF TypeOK, source, serving, refresh, faulty
<1>4. Serving'
  BY <1>1, <1>2 DEF Serving, Active, TypeOK, serving
<1>5. Listed'
  BY <1>1, <1>2, FS_AddElement DEF Listed, refresh
<1>6. Copied' /\ DescribedWhole' /\ LeaseDescribed' /\ Pruning'
  BY <1>1 DEF Copied, DescribedWhole, LeaseDescribed, Pruning, Described,
              source, serving, refresh
<1> QED
  BY <1>3, <1>4, <1>5, <1>6

LEMMA OpenStep ==
    ASSUME CacheInv, NEW r \in Followers, Open(r) \/ OpenFails(r)
    PROVE  CacheInv'
<1> USE ReaderAssumption DEF CacheInv
<1>1. UNCHANGED <<source, cache, up, path, refresh, misses>>
  BY DEF Open, OpenFails, faulty
<1>2. /\ r \in touched /\ Opened(r) /\ up /\ r # Main /\ faults' \in 0..MaxFaults
      /\ misses' \in 0..faults'
  BY DEF Open, OpenFails, Serving, TypeOK, faulty
<1>3. /\ lease' \in [Readers -> Sets \cup {NoSet}] /\ scratch' \subseteq Followers
      /\ lease'[Main] = lease[Main]
      /\ \A q \in Readers : lease'[q] # NoSet /\ q \notin scratch' => lease'[q] \in Described
  <2>1. CASE Open(r)
    BY <2>1, <1>2 DEF Open, TypeOK, Serving, LeaseDescribed, Readers
  <2>2. CASE OpenFails(r)
    BY <2>2, <1>2 DEF OpenFails, TypeOK, Serving, LeaseDescribed, Readers
  <2> QED
    BY <2>1, <2>2
<1>4. TypeOK'
  <2>1. /\ asked' \in [Followers -> Sets \cup {NoSet}] /\ touched' \subseteq Followers
        /\ lag' \in [Followers -> 0..MaxLag]
    BY <1>2 DEF TypeOK, Opened
  <2>2. used' \subseteq Sets \cup {NoSet}
    <3>1. used' = used \/ used' = used \cup {asked[r]}
      BY DEF Open, OpenFails
    <3> QED
      BY <3>1 DEF TypeOK
  <2> QED
    BY <1>1, <1>2, <1>3, <2>1, <2>2 DEF TypeOK, source, cache, refresh, Readers
<1>5. Serving'
  BY <1>1, <1>2, <1>3 DEF Serving, Opened, Active, TypeOK
<1>6. Listed' /\ Copied' /\ DescribedWhole' /\ Pruning'
  BY <1>1 DEF Listed, Copied, DescribedWhole, Pruning, Described, source, cache, refresh
<1>7. LeaseDescribed'
  BY <1>1, <1>3 DEF LeaseDescribed, Described, cache
<1> QED
  BY <1>4, <1>5, <1>6, <1>7

-----------------------------------------------------------------------------
(* The steps of the refresh that leave the lists alone.                    *)

LEMMA PollStep ==
    ASSUME CacheInv, Poll
    PROVE  CacheInv'
<1> USE ReaderAssumption DEF CacheInv
<1>1. /\ UNCHANGED <<source, cache, up, path, serving, opening, pinned, ready, todo, rank,
                     retained, faulty>>
      /\ pc = "idle" /\ pc' = "pin" /\ want' = conf /\ conf # {} /\ conf \subseteq Shards
  BY DEF Poll, TypeOK
<1>2. pinned = NoSet /\ ready = {}
  BY <1>1 DEF Copied
<1>3. TypeOK'
  BY <1>1, <1>2, NoSetIsEmpty DEF TypeOK, source, cache, serving, opening, faulty
<1>4. Serving' /\ DescribedWhole' /\ LeaseDescribed'
  BY <1>1 DEF Serving, Active, DescribedWhole, LeaseDescribed, Described, cache, serving, opening
<1>5. Listed' /\ Pruning'
  BY <1>1 DEF Listed, Pruning, cache
<1>6. Copied'
  BY <1>1 DEF Copied, source
<1> QED
  BY <1>3, <1>4, <1>5, <1>6

LEMMA PinStep ==
    ASSUME CacheInv, NEW s \in Shards, Pin(s)
    PROVE  CacheInv'
<1> USE ReaderAssumption DEF CacheInv
<1>1. /\ UNCHANGED <<source, cache, up, path, serving, opening, pc, want, ready, todo, rank,
                     retained, faulty>>
      /\ pc = "pin" /\ s \in want /\ s \notin DOMAIN pinned
      /\ pinned' = [t \in DOMAIN pinned \cup {s} |-> IF t = s THEN pointer[s] ELSE pinned[t]]
  BY DEF Pin
<1>2. /\ DOMAIN pinned \subseteq want /\ want \subseteq Shards /\ pointer[s] \in Gens
      /\ \A t \in DOMAIN pinned : pinned[t] \in Gens
  BY SetIsFunction, NoSetIsEmpty DEF TypeOK
<1>3. pinned' \in Sets /\ DOMAIN pinned' \subseteq want
  <2>1. pinned' \in [DOMAIN pinned \cup {s} -> Gens]
    BY <1>1, <1>2
  <2>2. DOMAIN pinned \cup {s} \in (SUBSET Shards) \ {{}}
    BY <1>2
  <2> QED
    BY <1>1, <1>2, <2>1, <2>2 DEF Sets
<1>4. TypeOK'
  BY <1>1, <1>3 DEF TypeOK, source, cache, serving, opening, faulty
<1>5. Serving' /\ DescribedWhole' /\ LeaseDescribed'
  BY <1>1 DEF Serving, Active, DescribedWhole, LeaseDescribed, Described, cache, serving, opening
<1>6. Listed' /\ Pruning'
  BY <1>1 DEF Listed, Pruning, cache
<1>7. Copied'
  BY <1>1 DEF Copied, source
<1> QED
  BY <1>4, <1>5, <1>6, <1>7

\* Going back to idle forgets what was pinned, and nothing else the invariant is about.
LEMMA IdleKeeps ==
    ASSUME CacheInv, Idle, UNCHANGED <<source, recent, whole, serving>>, dirs' = dirs
    PROVE  Listed' /\ Copied' /\ DescribedWhole' /\ LeaseDescribed' /\ Pruning'
<1> USE DEF CacheInv
<1>1. IsInjective(<<>>)
  BY DEF IsInjective
<1>2. /\ pc' = "idle" /\ pinned' = NoSet /\ ready' = {} /\ todo' = <<>>
      /\ UNCHANGED <<source, recent, whole, serving, dirs>>
  BY DEF Idle
<1> QED
  BY <1>1, <1>2 DEF Listed, Copied, DescribedWhole, LeaseDescribed, Described, Pruning,
                    source, serving

LEMMA IdleTypes ==
    ASSUME CacheInv, Idle
    PROVE  /\ pc' \in {"idle", "pin", "copy", "describe", "prune", "done"}
           /\ want' \subseteq Shards /\ ready' \subseteq want'
           /\ pinned' \in Sets \cup {NoSet} /\ DOMAIN pinned' \subseteq want'
           /\ todo' \in Seq(Sets) /\ rank' \in Nat /\ retained' \subseteq Copies
  BY NoSetIsEmpty DEF Idle

LEMMA PinnedStep ==
    ASSUME CacheInv, Pinned
    PROVE  CacheInv'
<1> USE ReaderAssumption DEF CacheInv
<1>1. /\ UNCHANGED <<source, cache, up, path, serving, opening, faulty>>
      /\ pc = "pin" /\ DOMAIN pinned = want
  BY DEF Pinned
<1>2. Serving'
  BY <1>1 DEF Serving, Active, serving, opening
<1>3. CASE Idle
  <2>1. TypeOK'
    BY <1>1, <1>3, IdleTypes DEF TypeOK, source, cache, serving, opening, faulty
  <2> QED
    BY <1>1, <1>2, <1>3, <2>1, IdleKeeps DEF cache
<1>4. CASE pc' = "copy" /\ UNCHANGED <<want, pinned, ready, todo, rank, retained>>
  <2>1. pinned \in Sets
    BY <1>1, NoSetIsEmpty DEF TypeOK, Copied
  <2>2. TypeOK'
    BY <1>1, <1>4 DEF TypeOK, source, cache, serving, opening, faulty
  <2>3. Listed'
    BY <1>1, <1>4 DEF Listed, cache
  <2>6. Pruning'
    BY <1>1, <1>4 DEF Pruning, cache
  <2>5. DescribedWhole' /\ LeaseDescribed'
    BY <1>1 DEF DescribedWhole, LeaseDescribed, Described, cache, serving
  <2>4. Copied'
    BY <1>1, <1>4, <2>1 DEF Copied, source, cache
  <2> QED
    BY <1>2, <2>2, <2>3, <2>4, <2>5, <2>6
<1> QED
  BY <1>3, <1>4 DEF Pinned

LEMMA MaterializeStep ==
    ASSUME CacheInv, NEW s \in Shards, Materialize(s)
    PROVE  CacheInv'
<1> USE ReaderAssumption DEF CacheInv
<1> DEFINE c == <<s, pinned[s]>>
<1>1. /\ UNCHANGED <<source, dirs, recent, up, path, serving, opening, faulty>>
      /\ pc = "copy" /\ s \in want
  BY DEF Materialize
<1>2. /\ pinned \in Sets /\ DOMAIN pinned = want /\ c \in Copies
  BY <1>1, SetIsFunction DEF Copied, Copies
<1>3. Serving'
  BY <1>1 DEF Serving, Active, serving, opening
<1>4. CASE Idle /\ UNCHANGED <<whole, broken>>
  <2>1. TypeOK'
    BY <1>1, <1>4, IdleTypes DEF TypeOK, source, serving, opening, faulty
  <2> QED
    BY <1>1, <1>3, <1>4, <2>1, IdleKeeps
<1>5. CASE /\ ready' = ready \cup {s} /\ UNCHANGED <<pc, want, pinned, todo, rank, retained>>
           /\ whole \subseteq whole' /\ whole' \subseteq Copies /\ broken' \subseteq broken
           /\ c \in whole'
  <2> HIDE DEF c
  <2>1. TypeOK'
    BY <1>1, <1>2, <1>5 DEF TypeOK, source, serving, opening, faulty
  <2>2. Listed' /\ Pruning' /\ DescribedWhole' /\ LeaseDescribed'
    BY <1>1, <1>5 DEF Listed, Pruning, DescribedWhole, LeaseDescribed, Described, serving
  <2>3. Copied'
    BY <1>1, <1>5 DEF Copied, source, c
  <2> QED
    BY <1>3, <2>1, <2>2, <2>3
<1>6. CASE Reusable(s) /\ ready' = ready \cup {s} /\ UNCHANGED <<whole, broken, pc, want, pinned, todo, rank, retained>>
  <2>1. Active \in Described /\ <<s, Active[s]>> \in Contents(Active) /\ Active[s] = pinned[s]
    BY <1>6 DEF Reusable, Serving, LeaseDescribed, Active, Readers, Contents
  <2>2. c \in whole
    BY <2>1 DEF DescribedWhole
  <2> QED
    BY <1>5, <1>6, <2>2 DEF TypeOK
<1>7. CASE /\ IF Verified(c) THEN UNCHANGED <<whole, broken>> ELSE Fetched(c)
           /\ ready' = ready \cup {s} /\ UNCHANGED <<pc, want, pinned, todo, rank, retained>>
  <2>1. whole \subseteq Copies /\ broken \subseteq Copies
    BY DEF TypeOK
  <2>2. whole \subseteq whole' /\ whole' \subseteq Copies /\ broken' \subseteq broken /\ c \in whole'
    BY <1>2, <1>7, <2>1 DEF Verified, Fetched
  <2> QED
    BY <1>5, <1>7, <2>2
<1> QED
  BY <1>4, <1>6, <1>7 DEF Materialize

LEMMA MakeSetStep ==
    ASSUME CacheInv, MakeSet
    PROVE  CacheInv'
<1> USE ReaderAssumption DEF CacheInv
<1>1. /\ UNCHANGED <<source, whole, broken, recent, up, path, serving, opening, want, pinned, ready,
                     todo, rank, retained, faulty>>
      /\ pc = "copy" /\ ready = want /\ dirs' = dirs \cup {pinned} /\ pc' = "describe"
  BY DEF MakeSet
<1>2. pinned \in Sets
  BY <1>1 DEF Copied
<1>3. TypeOK'
  BY <1>1, <1>2 DEF TypeOK, source, serving, opening, faulty
<1>4. Serving'
  BY <1>1 DEF Serving, Active, serving, opening
<1>5. Listed'
  BY <1>1, FS_AddElement DEF Listed
<1>6. Copied'
  BY <1>1 DEF Copied, source
<1>7. DescribedWhole' /\ LeaseDescribed' /\ Pruning'
  BY <1>1 DEF DescribedWhole, LeaseDescribed, Described, Pruning, serving
<1> QED
  BY <1>3, <1>4, <1>5, <1>6, <1>7

-----------------------------------------------------------------------------
(* The accept loop takes the result.                                       *)

LEMMA ActivateStep ==
    ASSUME CacheInv, Activate
    PROVE  CacheInv'
<1> USE ReaderAssumption DEF CacheInv
<1>1. /\ UNCHANGED <<source, cache, scratch, asked, touched, lag, faulty>> /\ Idle /\ used' = {}
      /\ pc = "done" /\ path' = pinned /\ up' = TRUE
      /\ lease' = IF up THEN [lease EXCEPT ![Main] = pinned] ELSE [r \in Readers |-> pinned]
  BY DEF Activate
<1>2. pinned \in Sets /\ pinned # NoSet
  BY <1>1, NoSetIsEmpty DEF Copied
<1>3. pinned \in Described
  <2>1. recent \in Seq(Sets) /\ recent # <<>> /\ recent[1] = pinned
    BY <1>1 DEF Listed, TypeOK
  <2>2. 1 \in DOMAIN recent
    BY <2>1
  <2> QED
    BY <2>1, <2>2 DEF Described, ToSet
<1>4. /\ lease' \in [Readers -> Sets \cup {NoSet}] /\ lease'[Main] = pinned
      /\ \A r \in Readers : lease'[r] \in {lease[r], pinned}
  BY <1>1, <1>2 DEF TypeOK, Readers
<1>5. TypeOK'
  BY <1>1, <1>2, <1>4, IdleTypes DEF TypeOK, source, cache, faulty
<1>6. Serving'
  BY <1>1, <1>2, <1>4 DEF Serving, Active
<1>7. LeaseDescribed'
  BY <1>1, <1>3, <1>4 DEF LeaseDescribed, Described, cache
<1>8. Listed' /\ Copied' /\ DescribedWhole' /\ Pruning'
  <2>1. IsInjective(<<>>)
    BY DEF IsInjective
  <2> QED
    BY <1>1, <2>1 DEF Idle, Listed, Copied, DescribedWhole, Described, Pruning, source, cache
<1> QED
  BY <1>5, <1>6, <1>7, <1>8

LEMMA ActivateFailsStep ==
    ASSUME CacheInv, ActivateFails
    PROVE  CacheInv'
<1> USE ReaderAssumption DEF CacheInv
<1>1. /\ UNCHANGED <<source, cache, up, path, serving, asked, touched, lag>> /\ Idle /\ used' = {}
      /\ faults' \in 0..MaxFaults /\ misses' \in 0..faults'
  BY DEF ActivateFails, TypeOK
<1>2. TypeOK'
  BY <1>1, IdleTypes DEF TypeOK, source, cache, serving
<1>3. Serving'
  BY <1>1 DEF Serving, Active, serving
<1> QED
  BY <1>1, <1>2, <1>3, IdleKeeps DEF cache

\* The daemon dies, possibly while it removes a copy that no kept set names.
LEMMA CrashStep ==
    ASSUME CacheInv, Crash
    PROVE  CacheInv'
<1> USE ReaderAssumption DEF CacheInv
<1>1. /\ UNCHANGED <<source, dirs, recent, misses>> /\ Idle
      /\ faults' = faults + 1 /\ faults < MaxFaults
      /\ up' = FALSE /\ path' = NoSet
      /\ lease' = [r \in Readers |-> NoSet] /\ scratch' = {}
      /\ asked' = [r \in Followers |-> NoSet] /\ touched' = {}
      /\ lag' = [r \in Followers |-> 0] /\ used' = {}
  BY DEF Crash
<1>2. /\ whole' \subseteq whole /\ broken' \subseteq Copies
      /\ \A set \in Described : Contents(set) \subseteq whole'
  <2>1. CASE UNCHANGED <<whole, broken>>
    BY <2>1 DEF TypeOK, DescribedWhole
  <2>2. CASE /\ pc = "prune" /\ todo = <<>>
             /\ \E c \in Doomed : whole' = whole \ {c} /\ broken' = broken \cup {c}
    <3>1. ToSet(todo) = {}
      BY <2>2 DEF ToSet
    <3>2. PICK c \in Doomed : whole' = whole \ {c} /\ broken' = broken \cup {c}
      BY <2>2
    <3>3. \A set \in Described : c \notin Contents(set)
      BY <2>2, <3>1 DEF Pruning, Doomed
    <3> QED
      BY <3>2, <3>3 DEF TypeOK, DescribedWhole, Doomed
  <2> QED
    BY <2>1, <2>2 DEF Crash
<1>3. TypeOK'
  <2>1. faults' \in 0..MaxFaults /\ misses' \in 0..faults' /\ lag' \in [Followers -> 0..MaxLag]
    BY <1>1 DEF TypeOK
  <2> QED
    BY <1>1, <1>2, <2>1, IdleTypes DEF TypeOK, source
<1>4. Serving'
  BY <1>1 DEF Serving, Active, Readers
<1>5. Listed' /\ Copied' /\ Pruning'
  <2>1. IsInjective(<<>>)
    BY DEF IsInjective
  <2> QED
    BY <1>1, <2>1 DEF Idle, Listed, Copied, Pruning, source
<1>6. DescribedWhole' /\ LeaseDescribed'
  BY <1>1, <1>2 DEF DescribedWhole, LeaseDescribed, Described
<1> QED
  BY <1>3, <1>4, <1>5, <1>6

-----------------------------------------------------------------------------
(* The steps of the refresh that change the lists.                         *)

LEMMA DescribeStep ==
    ASSUME CacheInv, Describe
    PROVE  CacheInv'
<1> USE ReaderAssumption DEF CacheInv
<1>1. /\ UNCHANGED <<source, whole, broken, dirs, up, path, serving, asked, touched,
                     want, pinned, ready, faulty>>
      /\ pc = "describe" /\ pc' = "prune" /\ rank' = 0 /\ retained' = {}
      /\ recent' = <<pinned>> \o RemoveFirst(recent, pinned)
      /\ todo' = recent' \o SetToSeq(dirs \ ToSet(recent'))
      /\ lag' = [r \in Followers |-> IF asked[r] = NoSet THEN 0 ELSE lag[r] + 1]
      /\ \A r \in Followers : lag'[r] <= MaxLag
  BY DEF Describe
<1>2. /\ pinned \in Sets /\ DOMAIN pinned = want /\ ready = want
      /\ Contents(pinned) \subseteq whole
  BY <1>1 DEF Copied, Contents
<1>3. /\ recent' \in Seq(Sets) /\ IsInjective(recent') /\ recent' # <<>> /\ recent'[1] = pinned
      /\ ToSet(recent') = ToSet(recent) \cup {pinned}
  <2>1. recent \in Seq(Sets) /\ IsInjective(recent)
    BY DEF TypeOK, Listed
  <2>2. Moved(Sets, recent, pinned, recent')
    BY <1>1, <1>2, <2>1, MovedToFront
  <2> QED
    BY <2>2 DEF Moved
<1> DEFINE stray == SetToSeq(dirs \ ToSet(recent'))
<1>4. stray \in Seq(Sets) /\ IsInjective(stray) /\ ToSet(stray) = dirs \ ToSet(recent')
  <2> DEFINE left == dirs \ ToSet(recent')
  <2>1. left \subseteq dirs /\ IsFiniteSet(left) /\ left \subseteq Sets
    BY FS_Subset DEF Listed, TypeOK
  <2> HIDE DEF left
  <2>2. SetToSeq(left) \in Seq(left) /\ IsInjective(SetToSeq(left)) /\ ToSet(SetToSeq(left)) = left
    BY <2>1, ListOfSet
  <2>3. SetToSeq(left) \in Seq(Sets)
    BY <2>1, <2>2
  <2> QED
    BY <2>2, <2>3 DEF left
<1> HIDE DEF stray
<1>5. ToSet(recent') \cap ToSet(stray) = {} /\ todo' = recent' \o stray
  BY <1>1, <1>4 DEF stray
<1>16. Together(Sets, recent', stray, todo')
  BY <1>3, <1>4, <1>5, Joined
<1>6. todo' \in Seq(Sets) /\ Len(todo') = Len(recent') + Len(stray)
  BY <1>16 DEF Together
<1>7. IsInjective(todo')
  BY <1>16 DEF Together
<1>8. ToSet(todo') = ToSet(recent') \cup ToSet(stray)
  BY <1>16 DEF Together
<1>9. \A i \in 1..Len(recent') : todo'[i] = recent'[i]
  BY <1>16 DEF Together
<1>10. \A i \in 1..Len(stray) : todo'[Len(recent') + i] = stray[i]
  BY <1>16 DEF Together
<1>11. TypeOK'
  <2>1. lag' \in [Followers -> 0..MaxLag]
    BY <1>1 DEF TypeOK
  <2>2. used' \subseteq Sets \cup {NoSet}
    BY DEF TypeOK, Describe
  <2> QED
    BY <1>1, <1>3, <1>6, <2>1, <2>2 DEF TypeOK, source, serving, faulty
<1>12. Serving'
  BY <1>1 DEF Serving, Active, serving
<1>13. Listed' /\ Copied'
  BY <1>1, <1>2, <1>3, <1>7 DEF Listed, Copied, source
<1>14. DescribedWhole' /\ LeaseDescribed'
  BY <1>1, <1>2, <1>3 DEF DescribedWhole, LeaseDescribed, Described, serving
<1>15. Pruning'
  <2>1. Described' \subseteq ToSet(todo')
    BY <1>8 DEF Described
  <2>2. ASSUME NEW i \in DOMAIN todo', NEW j \in DOMAIN todo', i < j, todo'[j] \in Described'
        PROVE  todo'[i] \in Described'
    <3>1. /\ DOMAIN todo' = 1..Len(recent') + Len(stray) /\ Len(recent') \in Nat /\ Len(stray) \in Nat
          /\ DOMAIN recent' = 1..Len(recent') /\ DOMAIN stray = 1..Len(stray)
      BY <1>3, <1>4, <1>6
    <3>2. CASE i <= Len(recent')
      <4>1. i \in 1..Len(recent')
        BY <3>1, <3>2
      <4> QED
        BY <1>9, <3>1, <4>1 DEF Described, ToSet
    <3>3. CASE ~(i <= Len(recent'))
      <4>1. j - Len(recent') \in 1..Len(stray) /\ Len(recent') + (j - Len(recent')) = j
        BY <2>2, <3>1, <3>3
      <4>2. todo'[j] \in ToSet(stray)
        BY <1>10, <3>1, <4>1 DEF ToSet
      <4> QED
        BY <1>5, <2>2, <4>2 DEF Described
    <3> QED
      BY <3>2, <3>3
  <2>3. \A i \in DOMAIN recent' : ~(i <= rank')
    BY <1>1, <1>3
  <2>4. \A i \in DOMAIN todo' : rank' + i <= Len(recent') => todo'[i] = recent'[rank' + i]
    <3>1. DOMAIN todo' = 1..Len(todo') /\ Len(todo') \in Nat /\ Len(recent') \in Nat
      BY <1>3, <1>6
    <3>2. \A i \in DOMAIN todo' : rank' + i = i
      BY <1>1, <3>1
    <3> QED
      BY <1>9, <3>1, <3>2
  <2>5. retained' = {} /\ pc' = "prune"
    BY <1>1
  <2> QED
    BY <2>1, <2>2, <2>3, <2>4, <2>5 DEF Pruning
<1> QED
  BY <1>11, <1>12, <1>13, <1>14, <1>15

\* Both outcomes for the next set: it leaves the head of the list.
LEMMA Passed ==
    ASSUME CacheInv, pc = "prune", todo # <<>>
    PROVE  /\ Head(todo) \in Sets /\ Head(todo) = todo[1] /\ 1 \in DOMAIN todo
           /\ Tail(todo) \in Seq(Sets) /\ IsInjective(Tail(todo))
           /\ ToSet(Tail(todo)) = ToSet(todo) \ {Head(todo)} /\ Head(todo) \in ToSet(todo)
           /\ DOMAIN todo \subseteq Nat
           /\ \A i \in DOMAIN Tail(todo) : i + 1 \in DOMAIN todo /\ Tail(todo)[i] = todo[i + 1]
<1>1. todo \in Seq(Sets) /\ IsInjective(todo) /\ todo # <<>>
  BY DEF CacheInv, TypeOK, Listed
<1>2. /\ Head(todo) \in Sets /\ Tail(todo) \in Seq(Sets) /\ IsInjective(Tail(todo))
      /\ Head(todo) = todo[1] /\ Len(Tail(todo)) = Len(todo) - 1
      /\ \A i \in 1..Len(todo) - 1 : Tail(todo)[i] = todo[i + 1]
      /\ ToSet(Tail(todo)) = ToSet(todo) \ {Head(todo)}
  BY <1>1, TailOfList
<1>3. 1 \in DOMAIN todo /\ DOMAIN todo = 1..Len(todo) /\ Len(todo) \in Nat
  BY <1>1
<1>4. DOMAIN Tail(todo) = 1..Len(todo) - 1
  BY <1>1
<1>5. \A i \in DOMAIN Tail(todo) : i + 1 \in DOMAIN todo /\ Tail(todo)[i] = todo[i + 1]
  BY <1>2, <1>3, <1>4
<1>6. Head(todo) \in ToSet(todo)
  BY <1>2, <1>3 DEF ToSet
<1> QED
  BY <1>2, <1>3, <1>5, <1>6

\* A set that is removed is beyond the newest Keep, which keep their places; those
\* behind it move up by one.
LEMMA RemovedBeyond ==
    ASSUME CacheInv, PruneSet, ~Protected(Head(todo)), ~Leased(Head(todo))
    PROVE  /\ recent' \in Seq(Sets) /\ IsInjective(recent')
           /\ ToSet(recent') = ToSet(recent) \ {Head(todo)} /\ Len(recent') <= Len(recent)
           /\ recent' # <<>> /\ recent'[1] = pinned
           /\ \A i \in DOMAIN recent : i <= Keep => i \in DOMAIN recent' /\ recent'[i] = recent[i]
           /\ \A i \in DOMAIN recent' : \/ i \in DOMAIN recent /\ recent'[i] = recent[i]
                                        \/ i + 1 \in DOMAIN recent /\ recent'[i] = recent[i + 1]
           /\ DOMAIN recent' \subseteq DOMAIN recent
<1> USE ReaderAssumption DEF CacheInv
<1> DEFINE set == Head(todo)
<1>1. pc = "prune" /\ todo # <<>> /\ recent' = RemoveFirst(recent, set)
  BY DEF PruneSet
<1>2. set \in ToSet(todo)
  BY <1>1, Passed
<1>3. set # pinned /\ ~(rank < Keep) /\ rank \in Nat /\ Keep \in Nat
  BY DEF Protected, TypeOK
<1>4. recent \in Seq(Sets) /\ IsInjective(recent) /\ recent # <<>> /\ recent[1] = pinned
  BY <1>1 DEF TypeOK, Listed
<1> HIDE DEF set
<1>5. /\ recent' \in Seq(Sets) /\ IsInjective(recent') /\ ToSet(recent') = ToSet(recent) \ {set}
      /\ Len(recent') <= Len(recent)
  BY <1>1, <1>4, RemovedOnce
<1>6. ASSUME NEW i \in DOMAIN recent, i <= Keep  PROVE recent[i] # set
  <2>1. i \in Nat
    BY <1>4
  <2>2. i <= rank
    BY <1>3, <1>6, <2>1
  <2>3. recent[i] \notin ToSet(todo)
    BY <1>1, <1>6, <2>2 DEF Pruning
  <2> QED
    BY <1>2, <2>3
<1>7. CASE set \notin ToSet(recent) /\ recent' = recent
  BY <1>4, <1>5, <1>7 DEF set
<1>8. CASE ~(set \notin ToSet(recent) /\ recent' = recent)
  <2>1. PICK p \in 1..Len(recent) :
          /\ recent[p] = set /\ Len(recent') = Len(recent) - 1
          /\ \A i \in 1..Len(recent) - 1 :
                 recent'[i] = IF i < p THEN recent[i] ELSE recent[i + 1]
    BY <1>1, <1>4, <1>8, RemovedAt
  <2>2. /\ Len(recent) \in Nat /\ DOMAIN recent = 1..Len(recent)
        /\ DOMAIN recent' = 1..Len(recent) - 1
    BY <1>4, <1>5, <2>1
  <2>3. p # 1 /\ ~(p <= Keep) /\ p \in Nat
    BY <1>3, <1>4, <1>6, <2>1, <2>2
  <2>4. 1 \in 1..Len(recent) - 1 /\ 1 < p
    BY <2>1, <2>2, <2>3
  <2>5. recent' # <<>> /\ recent'[1] = pinned
    BY <1>4, <1>5, <2>1, <2>2, <2>4
  <2>6. ASSUME NEW i \in DOMAIN recent, i <= Keep
        PROVE  i \in DOMAIN recent' /\ recent'[i] = recent[i]
    <3>1. i \in 1..Len(recent) - 1 /\ i < p
      BY <1>3, <2>1, <2>2, <2>3, <2>6
    <3> QED
      BY <2>1, <2>2, <3>1
  <2>7. ASSUME NEW i \in DOMAIN recent'
        PROVE  \/ i \in DOMAIN recent /\ recent'[i] = recent[i]
               \/ i + 1 \in DOMAIN recent /\ recent'[i] = recent[i + 1]
    <3>1. i \in 1..Len(recent) - 1 /\ i \in 1..Len(recent) /\ i + 1 \in 1..Len(recent)
      BY <2>2
    <3> QED
      BY <2>1, <2>2, <3>1
  <2>8. DOMAIN recent' \subseteq DOMAIN recent
    BY <2>2
  <2> QED
    BY <1>5, <2>5, <2>6, <2>7, <2>8 DEF set
<1> QED
  BY <1>7, <1>8

LEMMA RemoveSetStep ==
    ASSUME CacheInv, PruneSet, ~Protected(Head(todo)), ~Leased(Head(todo))
    PROVE  CacheInv'
<1> USE ReaderAssumption DEF CacheInv
<1> DEFINE set == Head(todo)
<1>1. /\ UNCHANGED <<source, whole, broken, up, path, serving, opening, want, pinned, ready,
                     faulty, retained, pc>>
      /\ pc = "prune" /\ todo # <<>> /\ dirs' = dirs \ {set} /\ recent' = RemoveFirst(recent, set)
      /\ todo' = Tail(todo) /\ rank' = rank + 1
  BY DEF PruneSet
<1>2. /\ set \in Sets /\ set = todo[1] /\ 1 \in DOMAIN todo
      /\ todo' \in Seq(Sets) /\ IsInjective(todo') /\ ToSet(todo') = ToSet(todo) \ {set}
      /\ set \in ToSet(todo) /\ DOMAIN todo \subseteq Nat
      /\ \A i \in DOMAIN todo' : i + 1 \in DOMAIN todo /\ todo'[i] = todo[i + 1]
  BY <1>1, Passed
<1>3. set # pinned /\ ~(rank < Keep) /\ \A r \in Readers : lease[r] # set
  BY DEF Protected, Leased
<1>4. /\ recent' \in Seq(Sets) /\ IsInjective(recent') /\ ToSet(recent') = ToSet(recent) \ {set}
      /\ recent' # <<>> /\ recent'[1] = pinned
      /\ \A i \in DOMAIN recent' : i \in DOMAIN recent
      /\ \A i \in DOMAIN recent : i <= Keep => recent'[i] = recent[i]
  BY RemovedBeyond DEF Protected
<1> HIDE DEF set
<1>5. recent \in Seq(Sets)
  BY DEF TypeOK
<1>8. TypeOK'
  <2>1. rank' \in Nat /\ dirs' \subseteq Sets
    BY <1>1 DEF TypeOK
  <2> QED
    BY <1>1, <1>2, <1>4, <2>1 DEF TypeOK, source, serving, opening, faulty
<1>9. Serving'
  BY <1>1 DEF Serving, Active, serving, opening
<1>10. Listed' /\ Copied'
  BY <1>1, <1>2, <1>4, FS_RemoveElement DEF Listed, Copied, source
<1>11. DescribedWhole' /\ LeaseDescribed'
  BY <1>1, <1>3, <1>4 DEF DescribedWhole, LeaseDescribed, Described, serving
<1>12. Pruning'
  <2>1. Described' = Described \ {set}
    BY <1>4 DEF Described
  <2>2. \A x \in Described' : x \in ToSet(todo') \/ Contents(x) \subseteq retained'
    BY <1>1, <1>2, <2>1 DEF Pruning
  <2>3. retained' \subseteq UNION {Contents(x) : x \in Described' \ ToSet(todo')}
    <3>1. Described' \ ToSet(todo') = Described \ ToSet(todo)
      BY <1>2, <2>1
    <3> QED
      BY <1>1, <3>1 DEF Pruning
  <2>4. ASSUME NEW i \in DOMAIN todo', NEW j \in DOMAIN todo', i < j, todo'[j] \in Described'
        PROVE  todo'[i] \in Described'
    <3>1. todo[i + 1] \in Described
      <4>1. i + 1 \in DOMAIN todo /\ j + 1 \in DOMAIN todo /\ todo[j + 1] \in Described
        BY <1>2, <2>1, <2>4
      <4>2. i + 1 < j + 1
        <5>1. DOMAIN todo' = 1..Len(todo') /\ Len(todo') \in Nat
          BY <1>2
        <5> QED
          BY <2>4, <5>1
      <4> QED
        BY <1>1, <4>1, <4>2 DEF Pruning
    <3>2. todo[i + 1] # set
      <4>1. i + 1 # 1 /\ i + 1 \in DOMAIN todo
        <5>1. DOMAIN todo' = 1..Len(todo') /\ Len(todo') \in Nat
          BY <1>2
        <5> QED
          BY <1>2, <5>1
      <4> QED
        BY <1>2, <4>1 DEF Listed, IsInjective
    <3> QED
      BY <1>2, <2>1, <3>1, <3>2
  <2>5. \A i \in DOMAIN recent' : i <= rank' /\ i <= Keep => recent'[i] \notin ToSet(todo')
    <3>1. ASSUME NEW i \in DOMAIN recent', i <= Keep  PROVE recent'[i] \notin ToSet(todo')
      <4>1. i \in DOMAIN recent /\ recent'[i] = recent[i] /\ i \in Nat
        BY <1>4, <1>5, <3>1
      <4>2. i <= rank
        BY <1>3, <3>1, <4>1 DEF TypeOK
      <4> QED
        BY <1>1, <1>2, <3>1, <4>1, <4>2 DEF Pruning
    <3> QED
      BY <3>1
  <2>6. ~(rank' < Keep)
    BY <1>1, <1>3 DEF TypeOK
  <2> QED
    BY <1>1, <2>2, <2>3, <2>4, <2>5, <2>6 DEF Pruning
<1> QED
  BY <1>8, <1>9, <1>10, <1>11, <1>12

\* A set that is kept has its copies named, or the prune gives up.
LEMMA KeepSetStep ==
    ASSUME CacheInv, PruneSet, Protected(Head(todo)) \/ Leased(Head(todo)), dirs' = dirs, recent' = recent
    PROVE  CacheInv'
<1> USE ReaderAssumption DEF CacheInv
<1> DEFINE set == Head(todo)
<1>1. /\ UNCHANGED <<source, whole, broken, up, path, serving, opening, want, pinned, ready, faulty>>
      /\ pc = "prune" /\ todo # <<>>
  BY DEF PruneSet
<1>2. /\ set \in Sets /\ set = todo[1] /\ 1 \in DOMAIN todo /\ set \in ToSet(todo)
      /\ Tail(todo) \in Seq(Sets) /\ IsInjective(Tail(todo)) /\ ToSet(Tail(todo)) = ToSet(todo) \ {set}
      /\ DOMAIN todo \subseteq Nat
      /\ \A i \in DOMAIN Tail(todo) : i + 1 \in DOMAIN todo /\ Tail(todo)[i] = todo[i + 1]
  BY <1>1, Passed
<1> HIDE DEF set
<1>3. Serving'
  BY <1>1 DEF Serving, Active, serving, opening
<1>4. DescribedWhole' /\ LeaseDescribed'
  BY <1>1 DEF DescribedWhole, LeaseDescribed, Described, serving
<1>5. CASE pc' = "done" /\ UNCHANGED <<todo, rank, retained>>
  <2>1. TypeOK'
    BY <1>1, <1>5 DEF TypeOK, source, serving, opening, faulty
  <2>2. Listed' /\ Copied'
    BY <1>1, <1>5 DEF Listed, Copied, source
  <2>3. Pruning'
    BY <1>1, <1>5 DEF Pruning
  <2> QED
    BY <1>3, <1>4, <2>1, <2>2, <2>3
<1>6. CASE /\ set \in Described /\ retained' = retained \cup Contents(set)
           /\ todo' = Tail(todo) /\ rank' = rank + 1 /\ pc' = pc
  <2>1. TypeOK'
    <3>1. rank' \in Nat /\ retained' \subseteq Copies
      BY <1>2, <1>6, SetIsFunction DEF TypeOK
    <3> QED
      BY <1>1, <1>2, <1>6, <3>1 DEF TypeOK, source, serving, opening, faulty
  <2>2. Listed' /\ Copied'
    BY <1>1, <1>2, <1>6 DEF Listed, Copied, source
  <2>3. Pruning'
    <3>0. Described' = Described /\ ToSet(todo') = ToSet(todo) \ {set}
      BY <1>2, <1>6 DEF Described
    <3>1. \A x \in Described' : x \in ToSet(todo') \/ Contents(x) \subseteq retained'
      BY <1>1, <1>6, <3>0 DEF Pruning
    <3>2. retained' \subseteq UNION {Contents(x) : x \in Described' \ ToSet(todo')}
      <4>1. set \in Described' \ ToSet(todo') /\ Described \ ToSet(todo) \subseteq Described' \ ToSet(todo')
        BY <1>6, <3>0
      <4>2. retained \subseteq UNION {Contents(x) : x \in Described \ ToSet(todo)}
        BY <1>1 DEF Pruning
      <4> QED
        BY <1>6, <4>1, <4>2
    <3>3. ASSUME NEW i \in DOMAIN todo', NEW j \in DOMAIN todo', i < j, todo'[j] \in Described'
          PROVE  todo'[i] \in Described'
      <4>1. i + 1 \in DOMAIN todo /\ j + 1 \in DOMAIN todo /\ todo[j + 1] \in Described
        BY <1>2, <1>6, <3>0, <3>3
      <4>2. i + 1 < j + 1
        <5>1. todo' \in Seq(Sets)
          BY <1>2, <1>6
        <5>2. DOMAIN todo' = 1..Len(todo') /\ Len(todo') \in Nat
          BY <5>1
        <5> QED
          BY <3>3, <5>2
      <4>3. todo[i + 1] \in Described
        BY <1>1, <4>1, <4>2 DEF Pruning
      <4> QED
        BY <1>2, <1>6, <3>0, <4>3
    <3>4. recent \in Seq(Sets) /\ rank \in Nat /\ Keep \in Nat
      BY DEF TypeOK
    <3>5. ASSUME NEW i \in DOMAIN recent, i <= rank + 1, i <= Keep
          PROVE  recent[i] \notin ToSet(todo')
      <4>1. i \in Nat /\ i <= Len(recent)
        BY <3>4
      <4>2. CASE i <= rank
        BY <1>1, <3>0, <3>5, <4>2 DEF Pruning
      <4>3. CASE ~(i <= rank)
        <5>1. i = rank + 1 /\ rank < Keep
          BY <3>4, <3>5, <4>1, <4>3
        <5>2. recent[i] = set
          BY <1>1, <1>2, <4>1, <5>1 DEF Pruning
        <5> QED
          BY <3>0, <5>2
      <4> QED
        BY <4>2, <4>3
    <3>6. ASSUME rank + 1 < Keep, NEW i \in DOMAIN todo', rank + 1 + i <= Len(recent)
          PROVE  todo'[i] = recent[rank + 1 + i]
      <4>1. i + 1 \in DOMAIN todo /\ todo'[i] = todo[i + 1] /\ i \in Nat
        <5>1. todo' \in Seq(Sets)
          BY <1>2, <1>6
        <5>2. DOMAIN todo' = 1..Len(todo') /\ Len(todo') \in Nat
          BY <5>1
        <5> QED
          BY <1>2, <1>6, <5>2
      <4>2. rank < Keep /\ rank + (i + 1) = rank + 1 + i
        BY <3>4, <3>6, <4>1
      <4>3. todo[i + 1] = recent[rank + (i + 1)]
        BY <1>1, <3>6, <4>1, <4>2 DEF Pruning
      <4> QED
        BY <4>1, <4>2, <4>3
    <3> QED
      BY <1>1, <1>6, <3>1, <3>2, <3>3, <3>5, <3>6 DEF Pruning
  <2> QED
    BY <1>3, <1>4, <2>1, <2>2, <2>3
<1> QED
  BY <1>5, <1>6 DEF PruneSet, set

LEMMA PruneSetStep ==
    ASSUME CacheInv, PruneSet
    PROVE  CacheInv'
<1>1. CASE ~Protected(Head(todo)) /\ ~Leased(Head(todo))
  BY <1>1, RemoveSetStep
<1>2. CASE Protected(Head(todo)) \/ Leased(Head(todo))
  <2>1. dirs' = dirs /\ recent' = recent
    BY <1>2 DEF PruneSet
  <2> QED
    BY <1>2, <2>1, KeepSetStep
<1> QED
  BY <1>1, <1>2

LEMMA PruneCopyStep ==
    ASSUME CacheInv, PruneCopy
    PROVE  CacheInv'
<1> USE ReaderAssumption DEF CacheInv
<1>1. /\ UNCHANGED <<source, dirs, recent, up, path, serving, opening, want, pinned,
                     ready, todo, rank, retained, faulty>>
      /\ pc = "prune" /\ todo = <<>> /\ ToSet(todo) = {}
  BY DEF PruneCopy, ToSet
<1>2. /\ \A set \in Described : Contents(set) \subseteq retained
      /\ retained \subseteq UNION {Contents(set) : set \in Described}
  BY <1>1 DEF Pruning
<1>3. Serving'
  BY <1>1 DEF Serving, Active, serving, opening
<1>4. LeaseDescribed'
  BY <1>1 DEF LeaseDescribed, Described, serving
<1>5. ASSUME NEW c \in Doomed, whole' = whole \ {c}, broken' = broken \ {c}, pc' = pc
      PROVE  CacheInv'
  <2>1. TypeOK'
    BY <1>1, <1>5 DEF TypeOK, source, serving, opening, faulty
  <2>2. Listed' /\ Copied'
    BY <1>1, <1>5 DEF Listed, Copied, source
  <2>3. DescribedWhole'
    BY <1>1, <1>2, <1>5 DEF DescribedWhole, Described, Doomed
  <2>4. Pruning'
    BY <1>1, <1>5 DEF Pruning, Described
  <2> QED
    BY <1>3, <1>4, <2>1, <2>2, <2>3, <2>4
<1>6. CASE Doomed = {} /\ pc' = "done" /\ UNCHANGED <<whole, broken>>
  <2>1. TypeOK'
    BY <1>1, <1>6 DEF TypeOK, source, serving, opening, faulty
  <2>2. Listed' /\ Copied'
    BY <1>1, <1>6 DEF Listed, Copied, source
  <2>3. DescribedWhole'
    BY <1>1, <1>6 DEF DescribedWhole, Described
  <2>4. Pruning'
    BY <1>1, <1>2, <1>6 DEF Pruning, Described, Doomed
  <2> QED
    BY <1>3, <1>4, <2>1, <2>2, <2>3, <2>4
<1> QED
  BY <1>5, <1>6 DEF PruneCopy

-----------------------------------------------------------------------------
(* The invariant, and what follows from it.                                *)

\* No step of anybody breaks it.
LEMMA NextIsConsistent == CacheInv /\ [Next]_vars => CacheInv'
<1> SUFFICES ASSUME CacheInv, [Next]_vars PROVE CacheInv'
  OBVIOUS
<1>1. CASE \E s \in Shards : Pin(s) \/ Materialize(s)
  BY <1>1, PinStep, MaterializeStep
<1>2. CASE Refresh /\ ~(\E s \in Shards : Pin(s) \/ Materialize(s))
  BY <1>2, PollStep, PinnedStep, MakeSetStep, DescribeStep, PruneSetStep, PruneCopyStep,
     ActivateStep DEF Refresh
<1>3. CASE (\E s \in Shards : Publish(s)) \/ Reconfigure
  BY <1>3, WorldStep
<1>4. CASE ActivateFails \/ Crash
  BY <1>4, ActivateFailsStep, CrashStep
<1>5. CASE \E r \in Followers : Follow(r) \/ OpenFails(r)
  BY <1>5, ReadPathStep, TouchStep, OpenStep DEF Follow
<1>6. CASE UNCHANGED vars
  BY <1>6 DEF CacheInv, TypeOK, Serving, Listed, Copied, DescribedWhole, LeaseDescribed, Pruning,
              Described, Active, vars, source, cache, serving, opening, refresh, faulty
<1> QED
  BY <1>1, <1>2, <1>3, <1>4, <1>5, <1>6 DEF Next

\* What is described, activated, leased and being put together agrees, at every moment
\* between any two steps of the readers, the refresh, its prune and the producers.
THEOREM CacheInvariance == Spec => []CacheInv
<1>1. CacheInv /\ [Next]_vars => CacheInv'
  BY NextIsConsistent
<1> QED
  BY InitCache, <1>1, PTL DEF Spec

\* The types are those of TypeOK.
THEOREM CacheTypes == Spec => []TypeOK
<1>1. CacheInv => TypeOK
  BY DEF CacheInv
<1> QED
  BY CacheInvariance, <1>1, PTL

\* "GC never removes an in-flight version" (collection.rs:187): however the
\* readers, the refresh, the prune and the producers interleave, a set somebody
\* serves keeps its descriptor and every copy in it.
THEOREM NothingIsTakenAway == Spec => []LeasedStaysWhole
<1>1. CacheInv => LeasedStaysWhole
  BY DEF CacheInv, LeasedStaysWhole, DescribedWhole, LeaseDescribed
<1> QED
  BY CacheInvariance, <1>1, PTL

-----------------------------------------------------------------------------
(* A follower that opens its path in time finds the set there.  The newest *)
(* Keep sets are safe whoever serves them, and a path was the newest, or   *)
(* the one before it, when it was read: MaxLag prunes later it is still    *)
(* among the newest MaxLag + 2.                                            *)

\* Steps that change neither the list nor what Near says of it.
LEMMA NearStays ==
    ASSUME Near, UNCHANGED <<recent, up, asked, lag, scratch, misses>>, Active' = Active,
           pc' = pc \/ {pc, pc'} \cap {"prune", "done"} = {} \/ {pc, pc'} \subseteq {"prune", "done"}
    PROVE  Near'
<1>1. (IF pc' \in {"prune", "done"} THEN 2 ELSE 1) = IF pc \in {"prune", "done"} THEN 2 ELSE 1
  OBVIOUS
<1> DEFINE places == IF pc \in {"prune", "done"} THEN 2 ELSE 1
           places2 == IF pc' \in {"prune", "done"} THEN 2 ELSE 1
<1>2. Near <=> (misses = 0 => /\ scratch = {} /\ (up => Among(recent, Active, places))
                              /\ \A r \in Followers : asked[r] # NoSet => Among(recent, asked[r], lag[r] + 2))
  BY DEF Near
<1>3. Near' <=> (misses' = 0 => /\ scratch' = {} /\ (up' => Among(recent', Active', places2))
                                /\ \A r \in Followers : asked'[r] # NoSet => Among(recent', asked'[r], lag'[r] + 2))
  BY DEF Near
<1>4. places2 = places
  BY <1>1
<1> HIDE DEF places, places2
<1> QED
  BY <1>2, <1>3, <1>4

LEMMA NearDescribe ==
    ASSUME CacheInv, Near, Describe
    PROVE  Near'
<1> USE ReaderAssumption DEF CacheInv
<1>1. /\ UNCHANGED <<up, lease, scratch, asked, misses>> /\ pc = "describe" /\ pc' = "prune"
      /\ recent' = <<pinned>> \o RemoveFirst(recent, pinned)
      /\ lag' = [r \in Followers |-> IF asked[r] = NoSet THEN 0 ELSE lag[r] + 1]
  BY DEF Describe, serving, faulty
<1>2. recent \in Seq(Sets) /\ IsInjective(recent) /\ pinned \in Sets
  BY <1>1 DEF TypeOK, Listed, Copied
<1>3. Moved(Sets, recent, pinned, recent')
  BY <1>1, <1>2, MovedToFront
<1>8. recent' \in Seq(Sets) /\ \A i \in 1..Len(recent) : \E j \in 1..Len(recent') : j <= i + 1 /\ recent'[j] = recent[i]
  BY <1>3 DEF Moved
<1>4. ASSUME NEW set, NEW n \in Nat, Among(recent, set, n)  PROVE Among(recent', set, n + 1)
  <2>1. PICK i \in DOMAIN recent : i <= n /\ recent[i] = set
    BY <1>4 DEF Among
  <2>2. i \in 1..Len(recent) /\ i \in Nat
    BY <1>2
  <2>3. PICK j \in 1..Len(recent') : j <= i + 1 /\ recent'[j] = recent[i]
    BY <1>8, <2>2
  <2>4. j \in DOMAIN recent' /\ j <= n + 1
    BY <1>8, <2>1, <2>2, <2>3
  <2> QED
    BY <2>1, <2>3, <2>4 DEF Among
<1>5. ASSUME misses = 0, up  PROVE Among(recent', Active, 2)
  <2>1. Among(recent, Active, 1)
    BY <1>1, <1>5 DEF Near
  <2>2. Among(recent', Active, 1 + 1)
    BY <1>4, <2>1
  <2> QED
    BY <2>2
<1>6. ASSUME misses = 0, NEW r \in Followers, asked[r] # NoSet
      PROVE  Among(recent', asked[r], lag'[r] + 2)
  <2>1. Among(recent, asked[r], lag[r] + 2) /\ lag[r] \in Nat /\ lag'[r] = lag[r] + 1
    BY <1>1, <1>6 DEF Near, TypeOK
  <2>2. Among(recent', asked[r], (lag[r] + 2) + 1) /\ (lag[r] + 2) + 1 = lag'[r] + 2
    BY <1>4, <2>1
  <2> QED
    BY <2>2
<1>7. Active' = Active
  BY <1>1 DEF Active
<1> QED
  BY <1>1, <1>5, <1>6, <1>7 DEF Near

\* Whatever is removed is behind the places that paths still waited for are in.
LEMMA NearPruneSet ==
    ASSUME CacheInv, Near, MaxLag + 2 <= Keep, PruneSet
    PROVE  Near'
<1> USE ReaderAssumption DEF CacheInv
<1>1. /\ UNCHANGED <<up, lease, scratch, asked, lag, misses>> /\ Active' = Active
      /\ pc = "prune" /\ pc' \in {"prune", "done"}
  BY DEF PruneSet, serving, opening, faulty, Active
<1>2. CASE recent' = recent
  BY <1>1, <1>2 DEF Near
<1>3. CASE ~Protected(Head(todo)) /\ ~Leased(Head(todo))
  <2>1. recent \in Seq(Sets)
    BY DEF TypeOK
  <2>2. \A i \in DOMAIN recent : i <= Keep => i \in DOMAIN recent' /\ recent'[i] = recent[i]
    BY <1>3, RemovedBeyond
  <2>3. ASSUME NEW set, NEW n \in Nat, n <= Keep, Among(recent, set, n)  PROVE Among(recent', set, n)
    <3>1. PICK i \in DOMAIN recent : i <= n /\ recent[i] = set
      BY <2>3 DEF Among
    <3>2. i <= Keep
      BY <2>1, <2>3, <3>1
    <3> QED
      BY <2>2, <3>1, <3>2 DEF Among
  <2>4. ASSUME misses = 0, up  PROVE Among(recent', Active, 2)
    <3>1. Among(recent, Active, 2) /\ 2 <= Keep
      BY <1>1, <2>4 DEF Near
    <3> QED
      BY <2>3, <3>1
  <2>5. ASSUME misses = 0, NEW r \in Followers, asked[r] # NoSet
        PROVE  Among(recent', asked[r], lag[r] + 2)
    <3>1. Among(recent, asked[r], lag[r] + 2) /\ lag[r] \in 0..MaxLag
      BY <2>5 DEF Near, TypeOK
    <3>2. lag[r] + 2 \in Nat /\ lag[r] + 2 <= Keep
      BY <3>1
    <3> QED
      BY <2>3, <3>1, <3>2
  <2> QED
    BY <1>1, <2>4, <2>5 DEF Near
<1> QED
  BY <1>2, <1>3 DEF PruneSet

LEMMA NearActivate ==
    ASSUME CacheInv, Near, Activate
    PROVE  Near'
<1> USE ReaderAssumption DEF CacheInv
<1>1. /\ UNCHANGED <<recent, scratch, asked, lag, misses>> /\ pc = "done" /\ pc' = "idle"
      /\ lease' = IF up THEN [lease EXCEPT ![Main] = pinned] ELSE [r \in Readers |-> pinned]
  BY DEF Activate, Idle, cache, opening, faulty
<1>2. Active' = pinned
  BY <1>1 DEF Active, TypeOK, Readers
<1>3. recent \in Seq(Sets) /\ recent # <<>> /\ recent[1] = pinned
  BY <1>1 DEF TypeOK, Listed
<1>4. 1 \in DOMAIN recent
  BY <1>3
<1>5. Among(recent, pinned, 1)
  BY <1>3, <1>4 DEF Among
<1> QED
  BY <1>1, <1>2, <1>5 DEF Near

LEMMA NearFollow ==
    ASSUME CacheInv, Near, NEW r \in Followers, ReadPath(r) \/ Open(r) \/ OpenFails(r)
    PROVE  Near'
<1> USE ReaderAssumption DEF CacheInv
<1>1. UNCHANGED <<recent, up, pc, misses>> /\ up
  BY DEF ReadPath, Open, OpenFails, Serving, cache, refresh, faulty
<1>2. CASE ReadPath(r)
  <2>1. /\ UNCHANGED <<scratch, lease>> /\ Active' = Active
        /\ asked' = [asked EXCEPT ![r] = Active] /\ lag' = [lag EXCEPT ![r] = 0]
    BY <1>2 DEF ReadPath, Serving, Active, serving
  <2>2. \A n \in {1, 2} : Among(recent, Active, n) => Among(recent, Active, 2)
    <3>1. recent \in Seq(Sets)
      BY DEF TypeOK
    <3> QED
      BY <3>1 DEF Among
  <2>3. asked \in [Followers -> Sets \cup {NoSet}] /\ lag \in [Followers -> 0..MaxLag]
    BY DEF TypeOK
  <2>4. misses = 0 => Among(recent, Active, 2)
    BY <1>1, <2>2 DEF Near
  <2>5. ASSUME misses = 0, NEW q \in Followers, asked'[q] # NoSet
        PROVE  Among(recent, asked'[q], lag'[q] + 2)
    BY <2>1, <2>3, <2>4, <2>5 DEF Near
  <2> QED
    BY <1>1, <2>1, <2>5 DEF Near
<1>3. CASE Open(r) \/ OpenFails(r)
  <2>1. /\ Active' = Active /\ Opened(r) /\ r \in touched
        /\ scratch' \subseteq scratch \/ (scratch' = scratch \cup {r} /\ asked[r] \notin Described)
    BY <1>3 DEF Open, OpenFails, Active, TypeOK, Readers
  <2>2. misses = 0 => asked[r] \in Described
    BY <2>1 DEF Serving, Near, Among, Described, ToSet
  <2>3. asked \in [Followers -> Sets \cup {NoSet}] /\ lag \in [Followers -> 0..MaxLag]
    BY DEF TypeOK
  <2>4. \A q \in Followers : asked'[q] # NoSet => asked'[q] = asked[q] /\ lag'[q] = lag[q]
    BY <2>1, <2>3 DEF Opened
  <2>5. misses = 0 => scratch' = {}
    BY <2>1, <2>2 DEF Near
  <2> QED
    BY <1>1, <2>1, <2>4, <2>5 DEF Near
<1> QED
  BY <1>2, <1>3

LEMMA NearNext == MaxLag + 2 <= Keep /\ CacheInv /\ Near /\ [Next]_vars => Near'
<1> SUFFICES ASSUME MaxLag + 2 <= Keep, CacheInv, Near, [Next]_vars PROVE Near'
  OBVIOUS
<1>1. CASE UNCHANGED vars \/ Reconfigure \/ \E s \in Shards : Publish(s)
  BY <1>1, NearStays DEF Reconfigure, Publish, Active, vars, cache, serving, opening, refresh, faulty
<1>2. CASE Poll \/ Pinned \/ MakeSet
  BY <1>2, NearStays DEF Poll, Pinned, MakeSet, Idle, Active, cache, serving, opening, faulty
<1>3. ASSUME NEW s \in Shards, Pin(s) \/ Materialize(s)  PROVE Near'
  BY <1>3, NearStays DEF Pin, Materialize, Idle, Active, cache, serving, opening, faulty
<1>4. CASE PruneCopy
  BY <1>4, NearStays DEF PruneCopy, Active, serving, opening, faulty
<1>5. CASE ActivateFails
  <2>1. misses' = misses + 1 /\ misses \in Nat
    BY <1>5 DEF ActivateFails, CacheInv, TypeOK
  <2> QED
    BY <2>1 DEF Near
<1>6. CASE Crash
  BY <1>6 DEF Crash, Near
<1>7. ASSUME NEW r \in Followers, Touch(r)  PROVE Near'
  BY <1>7, NearStays DEF Touch, Active, serving, refresh, faulty
<1> QED
  BY <1>1, <1>2, <1>3, <1>4, <1>5, <1>6, <1>7, NearDescribe, NearPruneSet, NearActivate, NearFollow
     DEF Next, Refresh, Follow

\* Nobody serves an empty index in place of a set that was removed, provided a
\* follower opens a path within Keep - 2 prunes of reading it: with the 3 of the
\* code, the prune under way when it read the path and the next one may both end
\* before it has the lock.
THEOREM NobodyServesScratch == MaxLag + 2 <= Keep => (Spec => []NeverScratch)
<1> SUFFICES ASSUME MaxLag + 2 <= Keep PROVE Spec => []NeverScratch
  OBVIOUS
<1>1. Init => Near
  BY DEF Init, Near
<1>2. CacheInv /\ Near /\ [Next]_vars => Near'
  BY NearNext
<1>3. Near => NeverScratch
  BY DEF Near, NeverScratch
<1> QED
  BY CacheInvariance, <1>1, <1>2, <1>3, PTL DEF Spec

-----------------------------------------------------------------------------
(* Nobody goes back to an older generation.  What a follower serves, what   *)
(* it is about to open, what is active and what is being pinned were        *)
(* pinned in that order, and a pointer is read after everything that was    *)
(* pinned before.                                                           *)

LEMMA GensAreNaturals ==
    ASSUME TypeOK
    PROVE  /\ \A s \in Shards : pointer[s] \in Nat
           /\ \A set \in Sets \cup {NoSet} : DOMAIN set \subseteq Shards /\ \A s \in DOMAIN set : set[s] \in Nat
<1>1. Gens \subseteq Nat
  BY ReaderAssumption DEF Gens
<1>2. \A s \in Shards : pointer[s] \in Nat
  BY <1>1 DEF TypeOK
<1>3. \A set \in Sets : DOMAIN set \subseteq Shards /\ \A s \in DOMAIN set : set[s] \in Nat
  BY <1>1, SetIsFunction
<1> QED
  BY <1>2, <1>3, NoSetIsEmpty

LEMMA PrecedesItself ==
    ASSUME TypeOK, NEW set \in Sets \cup {NoSet}
    PROVE  Precedes(set, set)
  BY GensAreNaturals DEF Precedes

\* Nothing is older than what nobody has.
LEMMA NoSetPrecedes ==
    /\ \A at : Published(at, NoSet)
    /\ \A set : Precedes(NoSet, set) /\ Precedes(set, NoSet)
  BY NoSetIsEmpty DEF Published, Precedes

LEMMA ForwardStays ==
    ASSUME CacheInv, Forward, UNCHANGED <<pointer, lease, asked>>, pinned' \in {pinned, NoSet}
    PROVE  Forward'
<1>1. Active' = Active
  BY DEF Active
<1> QED
  BY <1>1, NoSetPrecedes DEF Forward

LEMMA ForwardPublish ==
    ASSUME CacheInv, Forward, NEW s \in Shards, Publish(s)
    PROVE  Forward'
<1> USE ReaderAssumption DEF CacheInv
<1>1. UNCHANGED <<pinned, lease, asked>> /\ pointer' = [pointer EXCEPT ![s] = @ + 1] /\ Active' = Active
  BY DEF Publish, serving, opening, refresh, Active
<1>2. /\ pinned \in Sets \cup {NoSet} /\ \A r \in Readers : lease[r] \in Sets \cup {NoSet}
      /\ \A r \in Followers : asked[r] \in Sets \cup {NoSet}
  BY DEF TypeOK
<1>3. ASSUME NEW set \in Sets \cup {NoSet}, Published(pointer, set)  PROVE Published(pointer', set)
  <2>1. \A t \in DOMAIN set : t \in Shards /\ pointer[t] \in Nat /\ set[t] \in Nat /\ set[t] <= pointer[t]
    BY <1>3, GensAreNaturals DEF Published
  <2>2. \A t \in Shards : pointer'[t] = IF t = s THEN pointer[s] + 1 ELSE pointer[t]
    BY <1>1 DEF TypeOK
  <2> QED
    BY <2>1, <2>2 DEF Published
<1> QED
  BY <1>1, <1>2, <1>3 DEF Forward

LEMMA ForwardPin ==
    ASSUME CacheInv, Forward, NEW s \in Shards, Pin(s)
    PROVE  Forward'
<1> USE ReaderAssumption DEF CacheInv
<1>1. /\ UNCHANGED <<pointer, lease, asked>> /\ Active' = Active
      /\ pinned' = [t \in DOMAIN pinned \cup {s} |-> IF t = s THEN pointer[s] ELSE pinned[t]]
  BY DEF Pin, source, serving, opening, Active
<1>2. /\ DOMAIN pinned' = DOMAIN pinned \cup {s} /\ pinned'[s] = pointer[s]
      /\ \A t \in DOMAIN pinned : t # s => pinned'[t] = pinned[t]
  BY <1>1
<1>3. pointer[s] \in Nat
  BY GensAreNaturals
<1>4. Published(pointer, pinned')
  BY <1>2, <1>3 DEF Forward, Published
<1>5. ASSUME NEW set, Published(pointer, set), Precedes(set, pinned)  PROVE Precedes(set, pinned')
  BY <1>2, <1>5 DEF Published, Precedes
<1> QED
  BY <1>1, <1>4, <1>5 DEF Forward

LEMMA ForwardActivate ==
    ASSUME CacheInv, Forward, Activate
    PROVE  Forward' /\ \A r \in Readers : Precedes(lease[r], lease'[r])
<1> USE ReaderAssumption DEF CacheInv
<1>1. /\ UNCHANGED <<pointer, asked>> /\ pinned' = NoSet /\ pinned \in Sets
      /\ lease' = IF up THEN [lease EXCEPT ![Main] = pinned] ELSE [r \in Readers |-> pinned]
  BY DEF Activate, Idle, source, opening, Copied
<1>2. Active' = pinned
  BY <1>1 DEF Active, TypeOK, Readers
<1>3. Precedes(pinned, pinned)
  BY <1>1, PrecedesItself
<1>4. CASE up
  <2>1. \A r \in Readers : lease'[r] = IF r = Main THEN pinned ELSE lease[r]
    BY <1>1, <1>4 DEF TypeOK
  <2>2. \A r \in Followers : r # Main /\ r \in Readers
    BY DEF Readers
  <2>3. \A r \in Readers : Precedes(lease[r], lease[r])
    BY PrecedesItself DEF TypeOK
  <2> QED
    BY <1>1, <1>2, <1>3, <2>1, <2>2, <2>3, NoSetPrecedes DEF Forward
<1>5. CASE ~up
  <2>1. \A r \in Readers : lease'[r] = pinned
    BY <1>1, <1>5
  <2>2. \A r \in Followers : asked[r] = NoSet
    BY <1>5 DEF Serving
  <2> QED
    BY <1>1, <1>2, <1>3, <2>1, <2>2, NoSetPrecedes DEF Forward
<1> QED
  BY <1>4, <1>5

LEMMA ForwardFollow ==
    ASSUME CacheInv, Forward, NEW r \in Followers, ReadPath(r) \/ Open(r) \/ OpenFails(r)
    PROVE  Forward' /\ \A q \in Readers : Precedes(lease[q], lease'[q])
<1> USE ReaderAssumption DEF CacheInv
<1>1. UNCHANGED <<pointer, pinned>> /\ r # Main /\ r \in Readers /\ Main \in Readers
  BY DEF ReadPath, Open, OpenFails, source, refresh, Readers
<1>2. \A q \in Readers : Precedes(lease[q], lease[q])
  BY PrecedesItself DEF TypeOK
<1>3. asked \in [Followers -> Sets \cup {NoSet}] /\ lease \in [Readers -> Sets \cup {NoSet}]
  BY DEF TypeOK
<1>4. CASE ReadPath(r)
  <2>1. lease' = lease /\ Active' = Active /\ asked' = [asked EXCEPT ![r] = Active]
    BY <1>4 DEF ReadPath, Serving, Active, serving
  <2>2. \A q \in Followers : asked'[q] = IF q = r THEN Active ELSE asked[q]
    BY <1>3, <2>1
  <2>3. /\ Published(pointer, Active) /\ Precedes(Active, Active) /\ Precedes(Active, pinned)
        /\ \A q \in Followers : q \in Readers /\ Precedes(lease[q], Active)
    BY <1>1, <1>2 DEF Forward, Active, Readers
  <2> QED
    BY <1>1, <1>2, <2>1, <2>2, <2>3 DEF Forward
<1>5. CASE Open(r) \/ OpenFails(r)
  <2>1. /\ \A q \in Readers : lease'[q] = lease[q] \/ (q = r /\ lease'[q] \in {asked[r], NoSet})
        /\ \A q \in Followers : asked'[q] = IF q = r THEN NoSet ELSE asked[q]
    <3>1. Opened(r) /\ \/ lease' = [lease EXCEPT ![r] = asked[r]]
                       \/ lease' = [lease EXCEPT ![r] = NoSet]
                       \/ lease' = lease
      BY <1>5 DEF Open, OpenFails
    <3>2. \A q \in Followers : asked'[q] = IF q = r THEN NoSet ELSE asked[q]
      BY <1>3, <3>1 DEF Opened
    <3>3. \A q \in Readers : lease'[q] = lease[q] \/ (q = r /\ lease'[q] \in {asked[r], NoSet})
      <4>1. PICK v \in {asked[r], NoSet} : lease' = [lease EXCEPT ![r] = v] \/ lease' = lease
        BY <3>1
      <4>2. DOMAIN lease = Readers
        BY <1>3
      <4>3. \A q \in Readers : lease'[q] = lease[q] \/ (q = r /\ lease'[q] = v)
        BY <4>1, <4>2
      <4> QED
        BY <4>1, <4>3
    <3> QED
      BY <3>2, <3>3
  <2>2. Active' = Active
    BY <1>1, <2>1 DEF Active
  <2>3. \A q \in Followers : q \in Readers
    BY DEF Readers
  <2>4. /\ \A q \in Readers : /\ Published(pointer, lease'[q]) /\ Precedes(lease'[q], Active)
                              /\ Precedes(lease'[q], pinned) /\ Precedes(lease[q], lease'[q])
    BY <1>2, <2>1, NoSetPrecedes DEF Forward
  <2>5. \A q \in Followers :
            /\ Published(pointer, asked'[q]) /\ Precedes(lease'[q], asked'[q])
            /\ Precedes(asked'[q], Active) /\ Precedes(asked'[q], pinned)
    BY <2>1, <2>3, NoSetPrecedes DEF Forward
  <2> QED
    BY <1>1, <2>2, <2>4, <2>5 DEF Forward
<1> QED
  BY <1>4, <1>5

LEMMA ForwardNext ==
    ASSUME CacheInv, Forward, [Next]_vars
    PROVE  Forward' /\ \A r \in Readers : Precedes(lease[r], lease'[r])
<1>0. \A r \in Readers : Precedes(lease[r], lease[r])
  BY PrecedesItself DEF CacheInv, TypeOK
<1>1. CASE UNCHANGED vars \/ Reconfigure \/ Poll \/ Pinned \/ MakeSet \/ Describe \/ PruneSet
           \/ PruneCopy \/ ActivateFails \/ \E s \in Shards : Materialize(s)
  <2>1. UNCHANGED <<pointer, lease, asked>> /\ pinned' \in {pinned, NoSet}
    <3>1. CASE UNCHANGED vars \/ Reconfigure \/ Poll \/ MakeSet \/ Describe
      BY <3>1 DEF Reconfigure, Poll, MakeSet, Describe, vars, source, serving, opening, refresh
    <3>2. CASE PruneSet \/ PruneCopy
      BY <3>2 DEF PruneSet, PruneCopy, source, serving, opening
    <3>3. CASE Pinned \/ ActivateFails
      BY <3>3 DEF Pinned, ActivateFails, Idle, source, serving, opening
    <3>4. ASSUME NEW s \in Shards, Materialize(s)
          PROVE  UNCHANGED <<pointer, lease, asked>> /\ pinned' \in {pinned, NoSet}
      BY <3>4 DEF Materialize, Idle, source, serving, opening
    <3> QED
      BY <1>1, <3>1, <3>2, <3>3, <3>4
  <2> QED
    BY <1>0, <2>1, ForwardStays
<1>2. ASSUME NEW r \in Followers, Touch(r)  PROVE Forward' /\ \A q \in Readers : Precedes(lease[q], lease'[q])
  <2>1. UNCHANGED <<pointer, lease, asked, pinned>>
    BY <1>2 DEF Touch, source, serving, refresh
  <2> QED
    BY <1>0, <2>1, ForwardStays
<1>3. ASSUME NEW s \in Shards, Publish(s) \/ Pin(s)
      PROVE  Forward' /\ \A q \in Readers : Precedes(lease[q], lease'[q])
  <2>1. lease' = lease
    BY <1>3 DEF Publish, Pin, serving
  <2> QED
    BY <1>0, <1>3, <2>1, ForwardPublish, ForwardPin
<1>4. CASE Crash
  <2>1. /\ lease' = [r \in Readers |-> NoSet] /\ asked' = [r \in Followers |-> NoSet]
        /\ pinned' = NoSet
    BY <1>4 DEF Crash, Idle
  <2>2. Active' = NoSet
    BY <2>1 DEF Active, Readers
  <2> QED
    BY <2>1, <2>2, NoSetPrecedes DEF Forward
<1> QED
  BY <1>1, <1>2, <1>3, <1>4, ForwardActivate, ForwardFollow DEF Next, Refresh, Follow

\* A reader that goes from one set to the next finds each shard at the same
\* generation or a later one, whatever the order in which pointers are read, paths
\* handed out and opened late, and failed opens: never an older one.
THEOREM ReadersNeverGoBack == Spec => GenerationsMoveForward
<1>1. Init => Forward
  <2>1. ASSUME Init  PROVE Forward
    <3>1. /\ pinned = NoSet /\ Active = NoSet /\ \A r \in Readers : lease[r] = NoSet
          /\ \A r \in Followers : asked[r] = NoSet
      BY <2>1 DEF Init, Active, Readers
    <3> QED
      BY <3>1, NoSetPrecedes DEF Forward
  <2> QED
    BY <2>1
<1>2. CacheInv /\ Forward /\ [Next]_vars => Forward'
  BY ForwardNext
<1>3. ASSUME CacheInv, Forward, [Next]_vars
      PROVE  [\A r \in Readers : \A s \in DOMAIN lease[r] \cap DOMAIN lease'[r] :
                  lease'[r][s] >= lease[r][s]]_vars
  <2>1. \A r \in Readers : Precedes(lease[r], lease'[r])
    BY <1>3, ForwardNext
  <2>2. CacheInv'
    BY <1>3, NextIsConsistent
  <2>3. \A r \in Readers : \A s \in DOMAIN lease[r] : lease[r][s] \in Nat
    BY <1>3, GensAreNaturals DEF CacheInv, TypeOK
  <2>4. \A r \in Readers : \A s \in DOMAIN lease'[r] : lease'[r][s] \in Nat
    <3>1. /\ \A r \in Readers : lease'[r] \in Sets \cup {NoSet}
      BY <2>2 DEF CacheInv, TypeOK
    <3> QED
      BY <1>3, <3>1, GensAreNaturals DEF CacheInv
  <2> QED
    BY <2>1, <2>3, <2>4 DEF Precedes
<1> QED
  BY CacheInvariance, <1>1, <1>2, <1>3, PTL DEF Spec, GenerationsMoveForward

-----------------------------------------------------------------------------
(* The cache stays bounded.  A prune passes over a set beyond the newest     *)
(* Keep only if somebody serves it, and whoever serves something is on       *)
(* record from the moment the prune lists the sets.                          *)

\* Steps outside the prune.
LEMMA TrackedOutside ==
    ASSUME pc' \notin {"prune", "done"}
    PROVE  Tracked'
BY DEF Tracked, CacheBounded

\* Steps that change neither the lists nor the copies; what somebody comes to
\* serve is recorded.
LEMMA TrackedStays ==
    ASSUME Tracked, UNCHANGED <<recent, todo, pc, whole, broken>>, used \subseteq used',
           pc \in {"prune", "done"} =>
               \A r \in Readers : lease'[r] = lease[r] \/ lease'[r] \in used' \cup {NoSet}
    PROVE  Tracked'
<1>1. CacheBounded'
  BY DEF Tracked, CacheBounded, Described
<1> QED
  BY <1>1 DEF Tracked

LEMMA TrackedDescribe ==
    ASSUME CacheInv, Describe
    PROVE  Tracked'
<1>1. /\ pc' = "prune" /\ used' = {lease[r] : r \in Readers} /\ lease' = lease
      /\ todo' = recent' \o SetToSeq(dirs \ ToSet(recent'))
      /\ recent' = <<pinned>> \o RemoveFirst(recent, pinned)
  BY DEF Describe, serving
<1>2. CacheInv'
  BY DescribeStep
<1>3. \A set \in Described' : set \in ToSet(todo') \/ Contents(set) \subseteq retained'
  BY <1>1, <1>2 DEF CacheInv, Pruning
<1>4. recent' \in Seq(Sets) /\ todo' \in Seq(Sets)
  BY <1>2 DEF CacheInv, TypeOK
<1>5. \A i \in DOMAIN recent' : recent'[i] \in ToSet(todo')
  <2>1. SetToSeq(dirs \ ToSet(recent')) \in Seq(Sets)
    <3> DEFINE left == dirs \ ToSet(recent')
    <3>1. left \subseteq dirs /\ IsFiniteSet(left) /\ left \subseteq Sets
      BY FS_Subset DEF CacheInv, Listed, TypeOK
    <3> HIDE DEF left
    <3>2. SetToSeq(left) \in Seq(left)
      BY <3>1, ListOfSet
    <3>3. SetToSeq(left) \in Seq(Sets)
      BY <3>1, <3>2
    <3> QED
      BY <3>3 DEF left
  <2>2. ASSUME NEW stray \in Seq(Sets), todo' = recent' \o stray, NEW i \in DOMAIN recent'
        PROVE  recent'[i] \in ToSet(todo')
    <3>1. i \in DOMAIN todo' /\ todo'[i] = recent'[i]
      BY <1>4, <2>2
    <3> QED
      BY <3>1 DEF ToSet
  <2> QED
    BY <1>1, <2>1, <2>2
<1> QED
  BY <1>1, <1>5 DEF Tracked, CacheBounded

LEMMA TrackedPruneSet ==
    ASSUME CacheInv, Tracked, PruneSet
    PROVE  Tracked'
<1> USE ReaderAssumption DEF CacheInv
<1> DEFINE set == Head(todo)
<1>1. /\ UNCHANGED <<whole, broken, lease, used, pinned, up>>
      /\ pc = "prune" /\ todo # <<>>
  BY DEF PruneSet, serving, opening
<1>2. /\ set \in Sets /\ set = todo[1] /\ 1 \in DOMAIN todo /\ set \in ToSet(todo)
      /\ ToSet(Tail(todo)) = ToSet(todo) \ {set}
      /\ DOMAIN todo \subseteq Nat
  BY <1>1, Passed
<1>3. recent \in Seq(Sets) /\ IsInjective(recent) /\ rank \in Nat /\ Keep \in Nat
      /\ Len(recent) \in Nat /\ DOMAIN recent = 1..Len(recent)
      /\ recent # <<>> /\ recent[1] = pinned
  BY <1>1 DEF TypeOK, Listed
<1>4. /\ \A r \in Readers : lease[r] \in used \cup {NoSet}
      /\ \A i \in DOMAIN recent : i > Keep => recent[i] \in used \/ recent[i] \in ToSet(todo)
  BY <1>1 DEF Tracked
<1>5. Leased(set) \/ (up /\ set = Active) => set \in used
  BY <1>2, <1>4, NoSetIsEmpty DEF Leased, Active, Readers
<1>6. Described = {recent[i] : i \in DOMAIN recent}
  BY <1>3 DEF Described, ToSet
<1>7. ASSUME rank < Keep, ~(rank + 1 <= Len(recent)), NEW i \in DOMAIN recent  PROVE ~(i > Keep)
  BY <1>3, <1>7
<1>8. ASSUME rank < Keep, rank + 1 <= Len(recent)
      PROVE  set = recent[rank + 1] /\ rank + 1 \in DOMAIN recent /\ rank + 1 <= Keep
  BY <1>1, <1>2, <1>3, <1>8 DEF Pruning
<1> HIDE DEF set
<1>9. CASE ~Protected(set) /\ ~Leased(set)
  <2>1. /\ todo' = Tail(todo) /\ pc' = pc
        /\ \A i \in DOMAIN recent' : \/ i \in DOMAIN recent /\ recent'[i] = recent[i]
                                     \/ i + 1 \in DOMAIN recent /\ recent'[i] = recent[i + 1]
        /\ ToSet(recent') = ToSet(recent) \ {set} /\ recent' \in Seq(Sets)
    BY <1>9, RemovedBeyond DEF PruneSet, set
  <2>2. ASSUME NEW i \in DOMAIN recent', i > Keep
        PROVE  recent'[i] \in used' \/ recent'[i] \in ToSet(todo')
    <3>1. i \in Nat /\ i + 1 > Keep
      BY <1>3, <2>1, <2>2
    <3>2. recent'[i] \in used \/ recent'[i] \in ToSet(todo)
      BY <1>4, <2>1, <2>2, <3>1
    <3>3. recent'[i] # set
      BY <2>1, <2>2 DEF ToSet
    <3> QED
      BY <1>1, <1>2, <2>1, <3>2, <3>3
  <2> QED
    BY <1>1, <1>4, <2>1, <2>2 DEF Tracked, CacheBounded
<1>10. CASE Protected(set) \/ Leased(set)
  <2>1. recent' = recent
    BY <1>10 DEF PruneSet, set
  <2>2. CASE set \in Described
    <3>1. todo' = Tail(todo) /\ pc' = pc
      BY <1>10, <2>2 DEF PruneSet, set
    <3>2. ASSUME NEW i \in DOMAIN recent, i > Keep, recent[i] = set  PROVE set \in used
      <4>1. ~(i <= Keep) /\ i \in Nat /\ i # 1
        BY <1>3, <3>2
      <4>2. set # pinned
        BY <1>3, <3>2, <4>1 DEF IsInjective
      <4>3. ~(rank < Keep)
        <5>1. CASE rank < Keep /\ rank + 1 <= Len(recent)
          <6>1. recent[i] = recent[rank + 1] /\ rank + 1 \in DOMAIN recent /\ rank + 1 <= Keep
            BY <1>8, <3>2, <5>1
          <6>2. i = rank + 1
            BY <1>3, <3>2, <6>1 DEF IsInjective
          <6> QED
            BY <4>1, <6>1, <6>2
        <5>2. CASE rank < Keep /\ ~(rank + 1 <= Len(recent))
          BY <1>7, <3>2, <5>2
        <5> QED
          BY <5>1, <5>2
      <4> QED
        BY <1>5, <1>10, <4>2, <4>3 DEF Protected
    <3>3. ASSUME NEW i \in DOMAIN recent, i > Keep
          PROVE  recent[i] \in used \/ recent[i] \in ToSet(todo')
      BY <1>2, <1>4, <3>1, <3>2, <3>3
    <3> QED
      BY <1>1, <1>4, <2>1, <3>1, <3>3 DEF Tracked, CacheBounded
  <2>3. CASE set \notin Described
    <3>1. UNCHANGED <<todo, pc>> \/ (pc' = "done" /\ todo' = todo)
      BY <1>10, <2>3 DEF PruneSet, set
    <3>2. pc' = "done" /\ todo' = todo
      BY <1>1, <1>10, <2>3 DEF PruneSet, set
    <3>3. ASSUME NEW x \in ToSet(todo)  PROVE x \notin Described
      <4>1. PICK j \in DOMAIN todo : todo[j] = x
        <5>1. todo \in Seq(Sets)
          BY DEF TypeOK
        <5> QED
          BY <5>1 DEF ToSet
      <4>2. CASE j = 1
        BY <1>2, <2>3, <4>1, <4>2
      <4>3. CASE j # 1
        <5>1. 1 < j
          <6>1. todo \in Seq(Sets)
            BY DEF TypeOK
          <6> QED
            BY <4>1, <4>3, <6>1
        <5> QED
          BY <1>1, <1>2, <2>3, <4>1, <5>1 DEF Pruning
      <4> QED
        BY <4>2, <4>3
    <3>4. \A i \in DOMAIN recent : i > Keep => recent[i] \in used
      BY <1>4, <1>6, <3>3
    <3>5. Len(recent) < Keep \/ set \in used
      <4>1. set # pinned
        BY <1>3, <1>6, <2>3
      <4>2. CASE rank < Keep
        <5>1. ~(rank + 1 <= Len(recent))
          BY <1>6, <1>8, <2>3, <4>2
        <5> QED
          BY <1>3, <4>2, <5>1
      <4>3. CASE ~(rank < Keep)
        BY <1>5, <1>10, <4>1, <4>3 DEF Protected
      <4> QED
        BY <4>2, <4>3
    <3>6. CacheBounded'
      BY <1>1, <2>1, <3>2, <3>4, <3>5 DEF CacheBounded, set
    <3> QED
      BY <1>1, <1>4, <3>2, <3>6 DEF Tracked
  <2> QED
    BY <2>2, <2>3
<1> QED
  BY <1>9, <1>10

LEMMA TrackedPruneCopy ==
    ASSUME CacheInv, Tracked, PruneCopy
    PROVE  Tracked'
<1>1. /\ UNCHANGED <<recent, todo, lease, used>> /\ pc = "prune" /\ todo = <<>>
      /\ pc' \in {"prune", "done"}
  BY DEF PruneCopy, serving, opening
<1>2. ToSet(todo) = {}
  BY <1>1 DEF ToSet
<1>3. \A i \in DOMAIN recent : i > Keep => recent[i] \in used
  BY <1>1, <1>2 DEF Tracked
<1>4. CacheInv'
  BY PruneCopyStep
<1>5. CacheBounded'
  BY <1>1, <1>3, <1>4 DEF CacheBounded, CacheInv, Pruning
<1> QED
  BY <1>1, <1>3, <1>5 DEF Tracked

LEMMA TrackedNext == CacheInv /\ Tracked /\ [Next]_vars => Tracked'
<1> SUFFICES ASSUME CacheInv, Tracked, [Next]_vars PROVE Tracked'
  OBVIOUS
<1>1. ASSUME UNCHANGED <<recent, todo, pc, whole, broken, used, lease>>  PROVE Tracked'
  BY <1>1, TrackedStays
<1>2. CASE Reconfigure \/ UNCHANGED vars
  BY <1>1, <1>2 DEF Reconfigure, vars, cache, serving, opening, refresh
<1>3. ASSUME NEW s \in Shards, Publish(s) \/ Pin(s) \/ Materialize(s)  PROVE Tracked'
  <2>1. CASE Publish(s)
    BY <1>1, <2>1 DEF Publish, cache, serving, opening, refresh
  <2>2. CASE Pin(s)
    BY <2>2, TrackedOutside DEF Pin
  <2>3. CASE Materialize(s)
    <3>1. pc' \in {"copy", "idle"}
      BY <2>3 DEF Materialize, Idle
    <3> QED
      BY <3>1, TrackedOutside
  <2> QED
    BY <1>3, <2>1, <2>2, <2>3
<1>4. CASE Poll \/ Pinned \/ MakeSet \/ Activate \/ ActivateFails \/ Crash
  <2>1. pc' \in {"pin", "idle", "copy", "describe"}
    BY <1>4 DEF Poll, Pinned, MakeSet, Activate, ActivateFails, Crash, Idle
  <2> QED
    BY <2>1, TrackedOutside
<1>5. ASSUME NEW r \in Followers, ReadPath(r) \/ Touch(r)  PROVE Tracked'
  BY <1>1, <1>5 DEF ReadPath, Touch, cache, serving, refresh
<1>6. ASSUME NEW r \in Followers, Open(r)  PROVE Tracked'
  <2>1. /\ UNCHANGED <<recent, todo, pc, whole, broken>> /\ used \subseteq used'
        /\ lease' = [lease EXCEPT ![r] = asked[r]]
        /\ pc \in {"prune", "done"} => asked[r] \in used'
    BY <1>6 DEF Open, cache, refresh
  <2>2. \A q \in Readers : lease'[q] = lease[q] \/ lease'[q] = asked[r]
    BY <2>1 DEF CacheInv, TypeOK
  <2> QED
    BY <2>1, <2>2, TrackedStays
<1>7. ASSUME NEW r \in Followers, OpenFails(r)  PROVE Tracked'
  <2>1. /\ UNCHANGED <<recent, todo, pc, whole, broken, used>>
        /\ lease' = IF r = Status THEN [lease EXCEPT ![r] = NoSet] ELSE lease
    BY <1>7 DEF OpenFails, cache, refresh
  <2> QED
    BY <2>1, TrackedStays
<1> QED
  BY <1>2, <1>3, <1>4, <1>5, <1>6, <1>7, TrackedDescribe, TrackedPruneSet, TrackedPruneCopy
     DEF Next, Refresh, Follow

\* However many generations are published, and whoever opens, fails or dies in
\* between: a prune that is done leaves, beyond the newest Keep, only sets served
\* while it ran, and no copy that no set names unless it gave up.
THEOREM CacheIsBounded == Spec => []CacheBounded
<1>1. Init => Tracked
  <2>1. ASSUME Init  PROVE Tracked
    <3>1. pc = "idle"
      BY <2>1 DEF Init
    <3> QED
      BY <3>1 DEF Tracked, CacheBounded
  <2> QED
    BY <2>1
<1>2. CacheInv /\ Tracked /\ [Next]_vars => Tracked'
  BY TrackedNext
<1>3. Tracked => CacheBounded
  BY DEF Tracked
<1> QED
  BY CacheInvariance, <1>1, <1>2, <1>3, PTL DEF Spec
=============================================================================
