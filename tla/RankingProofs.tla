---------------------------- MODULE RankingProofs ----------------------------
(***************************************************************************)
(* Proofs about Ranking, for any files, shards, windows and sizes of the   *)
(* cache: no answer outlives what it was taken from, nothing a shard may   *)
(* not show is shown, what is inside of a child scope or asked for by name *)
(* is found, and instructions that apply and files asked for by their      *)
(* literal names come first.                                               *)
(***************************************************************************)
EXTENDS Ranking, FiniteSetTheorems, NaturalsInduction, WellFoundedInduction, SequenceTheorems, TLAPS

-----------------------------------------------------------------------------
(* The inductive invariant.                                                *)

Lookups ==
    [raw : [Docs -> Nat], near : [Docs -> Nat], covered : [Docs -> 0..CoverageMost],
     named : SUBSET { d \in Docs : d.kind = "source" }, literal : SUBSET Docs]

\* What a shard may give some day for a request.
Possible ==
    { ShardHits(w, Hidden[s], r, answers) :
        w \in Lookups, s \in Shards, r \in Requests, answers \in BOOLEAN }

Entries == [key : Nat \X Requests, hits : Possible]

\* What the shard would give now, with or without the embedding process.
Current(s, r, hits) ==
    \E answers \in BOOLEAN : hits = ShardHits(world[s], Hidden[s], r, answers)

\* An answer is remembered with the generation it was taken from, and is right for it.
Kept(s, entry) ==
    /\ entry \in Entries
    /\ entry.key[1] <= generation[s]
    /\ entry.key[1] = generation[s] => Current(s, entry.key[2], entry.hits)

CacheRight ==
    \A s \in Shards : /\ cache[s] \in Seq(Entries)
                      /\ Len(cache[s]) <= CacheSize
                      /\ \A i \in DOMAIN cache[s] : Kept(s, cache[s][i])

Typed ==
    /\ world \in [Shards -> Lookups]
    /\ generation \in [Shards -> Nat]
    /\ last.request \in Requests \cup {None}
    /\ last.of \in [Shards -> Nat]
    /\ \A s \in Shards : last.of[s] <= generation[s]

RankingInv == Typed /\ CacheRight /\ AnswersCurrent

-----------------------------------------------------------------------------
(* What Remember leaves in a cache.                                        *)

LEMMA RemovedAt ==
    ASSUME NEW S, NEW c \in Seq(S), NEW i \in DOMAIN c
    PROVE  /\ RemoveAt(c, i) \in Seq(S)
           /\ Len(RemoveAt(c, i)) = Len(c) - 1
           /\ \A j \in DOMAIN RemoveAt(c, i) : \E k \in DOMAIN c : RemoveAt(c, i)[j] = c[k]
<1> DEFINE left == SubSeq(c, 1, i - 1)
           right == SubSeq(c, i + 1, Len(c))
<1>1. i \in 1..Len(c) /\ Len(c) \in Nat
  OBVIOUS
<1>2. left \in Seq(S) /\ Len(left) = i - 1 /\ \A j \in 1..(i - 1) : left[j] = c[j]
  BY <1>1
<1>3. right \in Seq(S) /\ Len(right) = Len(c) - i /\ \A j \in 1..(Len(c) - i) : right[j] = c[i + j]
  BY <1>1
<1>4. RemoveAt(c, i) = left \o right
  BY DEF RemoveAt
<1> HIDE DEF left, right
<1>5. /\ left \o right \in Seq(S) /\ Len(left \o right) = Len(c) - 1
      /\ \A j \in 1..(Len(c) - 1) : (left \o right)[j] = IF j <= i - 1 THEN left[j] ELSE right[j - (i - 1)]
  <2>1. /\ left \o right \in Seq(S) /\ Len(left \o right) = Len(left) + Len(right)
        /\ \A j \in 1..(Len(left) + Len(right)) :
              (left \o right)[j] = IF j <= Len(left) THEN left[j] ELSE right[j - Len(left)]
    BY <1>2, <1>3, ConcatProperties
  <2>2. Len(left) + Len(right) = Len(c) - 1
    BY <1>1, <1>2, <1>3
  <2> QED
    BY <1>2, <2>1, <2>2
<1>6. ASSUME NEW j \in 1..(Len(c) - 1)  PROVE \E k \in DOMAIN c : (left \o right)[j] = c[k]
  <2>1. CASE j <= i - 1
    <3>1. j \in 1..(i - 1) /\ j \in DOMAIN c
      BY <1>1, <2>1
    <3> QED
      BY <1>2, <1>5, <2>1, <3>1
  <2>2. CASE ~(j <= i - 1)
    <3>1. j - (i - 1) \in 1..(Len(c) - i) /\ i + (j - (i - 1)) = j + 1 /\ j + 1 \in DOMAIN c
      BY <1>1, <2>2
    <3> QED
      BY <1>3, <1>5, <2>2, <3>1
  <2> QED
    BY <2>1, <2>2
<1>7. DOMAIN (left \o right) = 1..(Len(c) - 1)
  BY <1>5
<1> QED
  BY <1>4, <1>5, <1>6, <1>7

\* Nothing is remembered that was not there before or is new, and not too much.
LEMMA Remembers ==
    ASSUME NEW S, NEW c \in Seq(S), Len(c) <= CacheSize, NEW entry \in S
    PROVE  /\ Remember(c, entry) \in Seq(S)
           /\ Len(Remember(c, entry)) <= CacheSize
           /\ \A j \in DOMAIN Remember(c, entry) :
                Remember(c, entry)[j] = entry \/ \E k \in DOMAIN c : Remember(c, entry)[j] = c[k]
<1> DEFINE same == { i \in DOMAIN c : c[i].key = entry.key }
           rest == IF same = {} THEN c ELSE RemoveAt(c, CHOOSE i \in same : TRUE)
           all == Append(rest, entry)
<1>1. /\ rest \in Seq(S) /\ Len(rest) <= CacheSize
      /\ \A j \in DOMAIN rest : \E k \in DOMAIN c : rest[j] = c[k]
  <2>1. CASE same = {}
    BY <2>1
  <2>2. CASE same # {}
    <3>1. PICK i \in DOMAIN c : rest = RemoveAt(c, i)
      BY <2>2
    <3> HIDE DEF rest, same
    <3> QED
      BY <3>1, RemovedAt, WindowsArePositive
  <2> QED
    BY <2>1, <2>2
<1>2. Remember(c, entry) = IF Len(all) > CacheSize THEN Tail(all) ELSE all
  BY DEF Remember
<1> HIDE DEF rest
<1>3. /\ all \in Seq(S) /\ Len(all) = Len(rest) + 1 /\ DOMAIN all = 1..(Len(rest) + 1)
      /\ Len(rest) \in Nat /\ DOMAIN rest = 1..Len(rest) /\ CacheSize \in Nat \ {0}
      /\ \A j \in 1..Len(rest) : all[j] = rest[j]
      /\ all[Len(rest) + 1] = entry
  BY <1>1, WindowsArePositive
<1>4. \A j \in DOMAIN all : all[j] = entry \/ \E k \in DOMAIN c : all[j] = c[k]
  <2>1. \A j \in DOMAIN all : j \in 1..Len(rest) \/ j = Len(rest) + 1
    BY <1>3
  <2> QED
    BY <1>1, <1>3, <2>1
<1> HIDE DEF all
<1>5. CASE Len(all) > CacheSize
  <2>1. /\ Tail(all) \in Seq(S) /\ Len(Tail(all)) = Len(rest)
        /\ \A j \in DOMAIN Tail(all) : j + 1 \in DOMAIN all /\ Tail(all)[j] = all[j + 1]
    BY <1>3
  <2> QED
    BY <1>1, <1>2, <1>4, <1>5, <2>1
<1>6. CASE ~(Len(all) > CacheSize)
  BY <1>2, <1>3, <1>4, <1>6
<1> QED
  BY <1>5, <1>6

-----------------------------------------------------------------------------
(* What the hits of a shard and of an answer are about.                    *)

Held(w, d) == w.raw[d] > 0 \/ w.near[d] > 0 \/ d \in w.named \/ d \in w.literal

LEMMA BestIsPart ==
    ASSUME NEW f, NEW S, NEW n
    PROVE  Best(f, S, n) \subseteq S
BY DEF Best

\* A lookup keeps only what its index found.
LEMMA LookupFinds ==
    ASSUME NEW w, NEW hidden, NEW r, NEW memory, NEW d \in Lookup(w, hidden, r, memory).kept
    PROVE  d \in Docs /\ Held(w, d)
<1> DEFINE found == { e \in Docs \ hidden : Confined(e, r) /\ (e.kind = "memory") = memory }
           lanes == [l \in Lanes |-> Best(w.raw, { e \in found : InLane(w, e, l, r) }, Window)]
           ranks == [e \in UNION { lanes[l] : l \in Lanes } |->
                       Fused([l \in { l \in Lanes : e \in lanes[l] } |->
                                Weight(l, e, r) \div (60 + Rank(w.raw, lanes[l], e))])]
           path == [e \in DOMAIN ranks |-> Path(w, e, e \in lanes["exact_path"], r)]
           score == [e \in DOMAIN ranks |-> ranks[e] + path[e]]
<1>1. Lookup(w, hidden, r, memory).kept = Best(score, DOMAIN score, Window)
  BY DEF Lookup, FusedLanes
<1>2. DOMAIN score = UNION { lanes[l] : l \in Lanes }
  <2>1. DOMAIN ranks = UNION { lanes[l] : l \in Lanes }
    OBVIOUS
  <2> HIDE DEF ranks, path
  <2> QED
    BY <2>1
<1> HIDE DEF score
<1>3. d \in UNION { lanes[l] : l \in Lanes }
  BY <1>1, <1>2, BestIsPart
<1>4. PICK l \in Lanes : d \in lanes[l]
  BY <1>3
<1>5. d \in { e \in found : InLane(w, e, l, r) }
  BY <1>4, BestIsPart
<1> QED
  BY <1>5 DEF InLane, Held

LEMMA NearestFinds ==
    ASSUME NEW w, NEW r, NEW d \in Nearest(w, r)
    PROVE  d \in Docs /\ w.near[d] > 0
BY BestIsPart DEF Nearest

\* A shard hands over what it holds and may show.
-----------------------------------------------------------------------------
(* The recursion of Spread, by induction over the places of an answer.     *)

Less == { pair \in Nat \X Nat : pair[1] < pair[2] }

LEMMA SetInduction ==
    ASSUME NEW T, 0 \in T, \A n \in Nat : n \in T => n + 1 \in T
    PROVE  Nat \subseteq T
<1>1. SUFFICES ASSUME Nat \ T # {} PROVE FALSE
  OBVIOUS
<1>2. IsWellFoundedOn(Less, Nat)
  BY NatLessThanWellFounded DEF Less, OpToRel
<1>3. PICK n \in Nat \ T : \A m \in Nat \ T : << m, n >> \notin Less
  BY <1>1, <1>2, WFMin
<1>4. n # 0 /\ n - 1 \in Nat /\ << n - 1, n >> \in Less
  BY <1>3 DEF Less
<1> QED
  BY <1>3, <1>4

LEMMA SetAsSequence ==
    ASSUME NEW S, IsFiniteSet(S)
    PROVE  SetToSeq(S) \in Seq(S) /\ Len(SetToSeq(S)) = Cardinality(S)
<1> DEFINE N == Cardinality(S)
<1>1. PICK f \in Bijection(1..N, S) : TRUE
  BY FS_CardinalityType DEF ExistsBijection
<1>2. f \in [1..N -> S] /\ IsInjective(f)
  BY DEF Bijection, Injection
<1>3. SetToSeq(S) \in [1..N -> S]
  BY <1>2 DEF SetToSeq
<1>4. N \in Nat
  BY FS_CardinalityType
<1> QED
  BY <1>3, <1>4

\* A list of outputs for files of S.
ListOf(list, S) == \E A : list \in Seq(A) /\ \A a \in A : a.doc \in S

\* The output of the next place, after those already chosen.
More(f, S, penalty, sofar) ==
    LET left == S \ { sofar[i].doc : i \in DOMAIN sofar }
        worth == [d \in left |-> f[d] - Discount(sofar, d, penalty)]
    IN  sofar \o SetToSeq({ [doc |-> d, score |-> worth[d]] : d \in Best(worth, left, 1) })

LEMMA MoreOf ==
    ASSUME NEW f, NEW S, IsFiniteSet(S), NEW penalty, NEW sofar, ListOf(sofar, S)
    PROVE  ListOf(More(f, S, penalty, sofar), S)
<1> DEFINE left == S \ { sofar[i].doc : i \in DOMAIN sofar }
           worth == [d \in left |-> f[d] - Discount(sofar, d, penalty)]
           best == Best(worth, left, 1)
           new == { [doc |-> d, score |-> worth[d]] : d \in best }
<1>1. More(f, S, penalty, sofar) = sofar \o SetToSeq(new)
  BY DEF More
<1> HIDE DEF worth
<1>2. best \subseteq S
  BY BestIsPart
<1> HIDE DEF best
<1>3. IsFiniteSet(new)
  <2> DEFINE F == [d \in best |-> [doc |-> d, score |-> worth[d]]]
  <2>1. IsFiniteSet(best)
    BY <1>2, FS_Subset
  <2>2. new = { F[d] : d \in best }
    OBVIOUS
  <2>3. F \in Surjection(best, new)
    BY <2>2 DEF Surjection
  <2> QED
    BY <2>1, <2>3, FS_Surjection
<1>4. \A a \in new : a.doc \in S
  BY <1>2
<1> HIDE DEF new
<1>5. PICK A : sofar \in Seq(A) /\ \A a \in A : a.doc \in S
  BY DEF ListOf
<1>6. sofar \o SetToSeq(new) \in Seq(A \cup new)
  BY <1>3, <1>5, SetAsSequence
<1> QED
  BY <1>1, <1>4, <1>5, <1>6 DEF ListOf

Chooses(f, S, penalty, list, k) ==
    /\ list = [n \in 0..k |-> list[n]]
    /\ list[0] = << >>
    /\ \A n \in 1..k : list[n] = More(f, S, penalty, list[n - 1])

\* There is a choice for every number of places.
LEMMA ChoicesExist ==
    ASSUME NEW f, NEW S, NEW penalty, NEW limit \in Nat
    PROVE  \E g : Chooses(f, S, penalty, g, limit)
<1> DEFINE T == { k \in Nat : \E g : Chooses(f, S, penalty, g, k) }
<1>1. 0 \in T
  <2> DEFINE g == [n \in 0..0 |-> << >>]
  <2>1. Chooses(f, S, penalty, g, 0)
    BY DEF Chooses
  <2> QED
    BY <2>1
<1>2. ASSUME NEW k \in Nat, k \in T  PROVE k + 1 \in T
  <2>1. PICK g : Chooses(f, S, penalty, g, k)
    BY <1>2
  <2> DEFINE next == More(f, S, penalty, g[k])
             h == [n \in 0..(k + 1) |-> IF n = k + 1 THEN next ELSE g[n]]
  <2>2. h = [n \in 0..(k + 1) |-> h[n]] /\ h[k + 1] = next /\ \A n \in 0..k : h[n] = g[n]
    OBVIOUS
  <2>3. next = More(f, S, penalty, h[k])
    BY <2>2
  <2> HIDE DEF h, next
  <2>4. \A n \in 1..(k + 1) : (n \in 1..k /\ n \in 0..k /\ n - 1 \in 0..k) \/ (n = k + 1 /\ n - 1 = k)
    OBVIOUS
  <2>5. h[0] = << >>
    BY <2>1, <2>2 DEF Chooses
  <2>6. \A n \in 1..(k + 1) : h[n] = More(f, S, penalty, h[n - 1])
    BY <2>1, <2>2, <2>3, <2>4 DEF Chooses
  <2>7. Chooses(f, S, penalty, h, k + 1)
    BY <2>2, <2>5, <2>6 DEF Chooses
  <2> QED
    BY <2>7
<1> HIDE DEF T
<1>3. limit \in T
  BY <1>1, <1>2, SetInduction
<1> QED
  BY <1>3 DEF T

SpreadBy(f, S, limit, penalty, chosen) ==
    /\ Spread(f, S, limit, penalty) = chosen[limit]
    /\ chosen[0] = << >>
    /\ \A n \in 1..limit : chosen[n] = More(f, S, penalty, chosen[n - 1])

LEMMA SpreadSteps ==
    ASSUME NEW f, NEW S, NEW limit \in Nat, NEW penalty
    PROVE  \E chosen : SpreadBy(f, S, limit, penalty, chosen)
<1>1. PICK g : Chooses(f, S, penalty, g, limit)
  BY ChoicesExist
<1> DEFINE Fixed(h) == h = [n \in 0..limit |-> IF n = 0 THEN << >> ELSE More(f, S, penalty, h[n - 1])]
           chosen == CHOOSE h : Fixed(h)
<1>2. Spread(f, S, limit, penalty) = chosen[limit]
  BY DEF Spread, More
<1>3. Fixed(g)
  <2>1. ASSUME NEW n \in 0..limit  PROVE g[n] = IF n = 0 THEN << >> ELSE More(f, S, penalty, g[n - 1])
    <3>1. g[0] = << >> /\ \A m \in 1..limit : g[m] = More(f, S, penalty, g[m - 1])
      BY <1>1 DEF Chooses
    <3>2. n = 0 \/ (n # 0 /\ n \in 1..limit)
      OBVIOUS
    <3> QED
      BY <3>1, <3>2
  <2>2. g = [n \in 0..limit |-> g[n]]
    BY <1>1 DEF Chooses
  <2>3. [n \in 0..limit |-> g[n]] = [n \in 0..limit |-> IF n = 0 THEN << >> ELSE More(f, S, penalty, g[n - 1])]
    BY <2>1, Zenon
  <2>4. g = [n \in 0..limit |-> IF n = 0 THEN << >> ELSE More(f, S, penalty, g[n - 1])]
    BY <2>2, <2>3
  <2> QED
    BY <2>4
<1>4. Fixed(chosen)
  BY <1>3
<1> HIDE DEF chosen
<1>5. chosen[0] = << >> /\ \A n \in 1..limit : chosen[n] = More(f, S, penalty, chosen[n - 1])
  <2>1. \A n \in 1..limit : n \in 0..limit /\ n # 0
    OBVIOUS
  <2> QED
    BY <1>4, <2>1
<1> QED
  BY <1>2, <1>5 DEF SpreadBy

\* An answer spreads the files it was given, and invents none.
LEMMA SpreadOf ==
    ASSUME NEW f, NEW S, IsFiniteSet(S), NEW limit \in Nat, NEW penalty
    PROVE  ListOf(Spread(f, S, limit, penalty), S)
<1>1. PICK chosen : SpreadBy(f, S, limit, penalty, chosen)
  BY SpreadSteps
<1> DEFINE U == { k \in Nat : k \in 0..limit => ListOf(chosen[k], S) }
<1>2. 0 \in U
  <2>1. << >> \in Seq({d \in S : FALSE}) /\ \A a \in {d \in S : FALSE} : a.doc \in S
    OBVIOUS
  <2>2. \E A : << >> \in Seq(A) /\ \A a \in A : a.doc \in S
    <3> WITNESS {d \in S : FALSE}
    <3> QED
      BY <2>1
  <2> QED
    BY <1>1, <2>2 DEF ListOf, SpreadBy
<1>3. ASSUME NEW k \in Nat, k \in U  PROVE k + 1 \in U
  <2>1. SUFFICES ASSUME k + 1 \in 0..limit PROVE ListOf(chosen[k + 1], S)
    OBVIOUS
  <2>2. k + 1 \in 1..limit /\ (k + 1) - 1 = k /\ k \in 0..limit
    BY <2>1
  <2>3. chosen[k + 1] = More(f, S, penalty, chosen[k])
    BY <1>1, <2>2 DEF SpreadBy
  <2> QED
    BY <1>3, <2>2, <2>3, MoreOf
<1> HIDE DEF U
<1>4. limit \in U
  BY <1>2, <1>3, SetInduction
<1> QED
  BY <1>1, <1>4 DEF U, SpreadBy

LEMMA AnswerOf ==
    ASSUME NEW hits, { h.doc : h \in hits } \subseteq Docs, NEW r \in Requests
    PROVE  ListOf(Answer(hits, r), { h.doc : h \in hits })
<1> DEFINE docs == { h.doc : h \in hits }
           score == Ranked(hits, r)
           kept == Originals(score, hits, r)
           penalty == Max({Same} \cup { x \div 10 : x \in { score[d] : d \in { d \in DOMAIN score : score[d] < Unit \div 2 } } })
<1>1. Answer(hits, r) = Spread(score, kept, r.limit, penalty)
  BY DEF Answer
<1>2. DOMAIN score = docs
  BY DEF Ranked
<1>3. kept \subseteq docs
  BY <1>2 DEF Originals
<1> HIDE DEF score, kept, docs, penalty
<1>4. IsFiniteSet(kept)
  BY <1>3, FS_Subset, CollectionIsFinite DEF docs
<1>5. r.limit \in Nat
  BY WindowsArePositive
<1>6. ListOf(Answer(hits, r), kept)
  BY <1>1, <1>4, <1>5, SpreadOf
<1> QED
  BY <1>3, <1>6 DEF ListOf, docs

-----------------------------------------------------------------------------
(* The steps.                                                              *)

LEMMA InitRanking == Init => RankingInv
<1> SUFFICES ASSUME Init PROVE RankingInv
  OBVIOUS
<1>1. /\ world \in [Shards -> Lookups]
      /\ generation = [s \in Shards |-> 0] /\ cache = [s \in Shards |-> << >>]
      /\ last.request = None /\ last.of = generation
  BY WorldsAreOfShards DEF Init, NoAnswer, Lookups
<1>2. Typed
  BY <1>1 DEF Typed
<1>3. CacheRight
  BY <1>1, WindowsArePositive DEF CacheRight
<1>4. AnswersCurrent
  BY <1>1 DEF AnswersCurrent, Fresh
<1> QED
  BY <1>2, <1>3, <1>4 DEF RankingInv

LEMMA RefuseStep ==
    ASSUME RankingInv, NEW r \in Requests, Refuse(r)
    PROVE  RankingInv'
<1>1. /\ UNCHANGED << world, generation, cache >>
      /\ last'.request = None /\ last'.of = generation
  BY DEF Refuse, NoAnswer
<1>2. Typed'
  BY <1>1 DEF RankingInv, Typed
<1>3. CacheRight'
  BY <1>1 DEF RankingInv, CacheRight, Kept, Current
<1>4. AnswersCurrent'
  BY <1>1 DEF AnswersCurrent, Fresh
<1> QED
  BY <1>2, <1>3, <1>4 DEF RankingInv

\* An answer from the cache is one the shard would give.
LEMMA RememberedIsCurrent ==
    ASSUME RankingInv, NEW s \in Shards, NEW r \in Requests, NEW i \in Remembered(s, r)
    PROVE  Current(s, r, cache[s][i].hits)
<1>1. Kept(s, cache[s][i]) /\ cache[s][i].key = << generation[s], r >>
  BY DEF RankingInv, CacheRight, Remembered, Key
<1> QED
  BY <1>1 DEF Kept

LEMMA AskStep ==
    ASSUME RankingInv, NEW r \in Requests, NEW answering \in SUBSET Shards, Ask(r, answering)
    PROVE  RankingInv'
<1> DEFINE part == [s \in Shards |->
                      IF Remembered(s, r) # {}
                      THEN cache[s][CHOOSE i \in Remembered(s, r) : TRUE].hits
                      ELSE ShardHits(world[s], Hidden[s], r, s \in answering)]
           entry(s) == [key |-> Key(s, r), hits |-> part[s]]
<1>1. /\ last' = [request |-> r, hits |-> Answer(UNION { part[s] : s \in Shards }, r), of |-> generation]
      /\ cache' = [s \in Shards |-> Remember(cache[s], entry(s))]
      /\ UNCHANGED << world, generation >>
  BY DEF Ask
<1>2. ASSUME NEW s \in Shards  PROVE Current(s, r, part[s])
  <2>1. CASE Remembered(s, r) # {}
    BY <2>1, RememberedIsCurrent
  <2>2. CASE Remembered(s, r) = {}
    <3>1. part[s] = ShardHits(world[s], Hidden[s], r, s \in answering) /\ (s \in answering) \in BOOLEAN
      BY <2>2
    <3> QED
      BY <3>1 DEF Current
  <2> QED
    BY <2>1, <2>2
<1> HIDE DEF part
<1>3. Typed'
  BY <1>1 DEF RankingInv, Typed
<1>4. CacheRight'
  <2>1. ASSUME NEW s \in Shards
        PROVE  /\ cache'[s] \in Seq(Entries)
               /\ Len(cache'[s]) <= CacheSize
               /\ \A i \in DOMAIN cache'[s] : Kept(s, cache'[s][i])
    <3>1. entry(s) \in Entries /\ entry(s).key[1] = generation[s] /\ entry(s).key[2] = r
      <4>1. part[s] \in Possible
        BY <1>2 DEF Current, Possible, RankingInv, Typed
      <4> QED
        BY <4>1 DEF Entries, Key, RankingInv, Typed
    <3>2. Kept(s, entry(s))
      BY <1>2, <3>1 DEF Kept, RankingInv, Typed
    <3> HIDE DEF entry
    <3>3. PICK e : cache'[s] = Remember(cache[s], e) /\ e \in Entries /\ Kept(s, e)
      BY <1>1, <3>1, <3>2
    <3>4. /\ cache[s] \in Seq(Entries) /\ Len(cache[s]) <= CacheSize
          /\ \A i \in DOMAIN cache[s] : Kept(s, cache[s][i])
      BY DEF RankingInv, CacheRight
    <3> HIDE DEF part
    <3>5. /\ cache'[s] \in Seq(Entries) /\ Len(cache'[s]) <= CacheSize
          /\ \A j \in DOMAIN cache'[s] : cache'[s][j] = e \/ \E k \in DOMAIN cache[s] : cache'[s][j] = cache[s][k]
      BY <3>3, <3>4, Remembers
    <3>6. ASSUME NEW j \in DOMAIN cache'[s]  PROVE Kept(s, cache'[s][j])
      BY <3>3, <3>4, <3>5, Zenon
    <3> QED
      BY <3>5, <3>6
  <2>2. ASSUME NEW s \in Shards, NEW x  PROVE Kept(s, x)' <=> Kept(s, x)
    BY <1>1 DEF Kept, Current
  <2> QED
    BY <2>1, <2>2 DEF CacheRight
<1>5. AnswersCurrent'
  <2> DEFINE now == { s \in Shards : part[s] = ShardHits(world[s], Hidden[s], r, TRUE) }
  <2>1. ASSUME NEW s \in Shards  PROVE part[s] = ShardHits(world[s], Hidden[s], r, s \in now)
    <3>1. PICK answers \in BOOLEAN : part[s] = ShardHits(world[s], Hidden[s], r, answers)
      BY <1>2 DEF Current
    <3>2. CASE s \in now
      <4>1. (s \in now) = TRUE
        BY <3>2
      <4> QED
        BY <3>2, <4>1
    <3>3. CASE s \notin now
      <4>1. part[s] # ShardHits(world[s], Hidden[s], r, TRUE)
        BY <3>3
      <4>2. CASE answers = TRUE
        BY <3>1, <4>1, <4>2
      <4>3. CASE answers = FALSE
        <5> HIDE DEF now
        <5>1. (s \in now) = FALSE
          BY <3>3
        <5>2. part[s] = ShardHits(world[s], Hidden[s], r, FALSE)
          BY <3>1, <4>3
        <5> QED
          BY <5>1, <5>2
      <4> QED
        BY <4>2, <4>3
    <3> QED
      BY <3>2, <3>3
  <2>2. { part[s] : s \in Shards } = { ShardHits(world[s], Hidden[s], r, s \in now) : s \in Shards }
    BY <2>1
  <2>3. now \in SUBSET Shards
    OBVIOUS
  <2> HIDE DEF now
  <2>4. last'.hits = Answer(UNION { ShardHits(world[s], Hidden[s], r, s \in now) : s \in Shards }, r)
    BY <1>1, <2>2
  <2>5. last'.request = r /\ world' = world
    BY <1>1
  <2>6. \E some \in SUBSET Shards :
          last'.hits = Answer(UNION { ShardHits(world'[s], Hidden[s], last'.request, s \in some) : s \in Shards }, last'.request)
    BY <2>3, <2>4, <2>5
  <2> QED
    BY <2>6 DEF AnswersCurrent
<1> QED
  BY <1>3, <1>4, <1>5 DEF RankingInv

LEMMA PublishStep ==
    ASSUME RankingInv, NEW s \in Shards, NEW d \in Docs, NEW gone \in BOOLEAN, Publish(s, d, gone)
    PROVE  RankingInv'
<1>1. /\ generation' = [generation EXCEPT ![s] = @ + 1]
      /\ generation \in [Shards -> Nat] /\ world \in [Shards -> Lookups]
      /\ UNCHANGED << cache, last >>
      /\ \A t \in Shards : t # s => world'[t] = world[t]
  BY DEF Publish, RankingInv, Typed
<1>2. world' \in [Shards -> Lookups]
  <2> DEFINE next == [raw |-> [world[s].raw EXCEPT ![d] = IF gone THEN 0 ELSE 3],
                      near |-> IF gone THEN [world[s].near EXCEPT ![d] = 0] ELSE world[s].near,
                      covered |-> world[s].covered,
                      named |-> IF gone THEN world[s].named \ {d} ELSE world[s].named,
                      literal |-> IF gone THEN world[s].literal \ {d} ELSE world[s].literal]
  <2>1. world' = [world EXCEPT ![s] = next]
    BY DEF Publish
  <2>2. next \in Lookups
    BY <1>1 DEF Lookups
  <2> QED
    BY <1>1, <2>1, <2>2
<1>3. Typed'
  <2>1. /\ last.request \in Requests \cup {None} /\ last.of \in [Shards -> Nat]
        /\ \A t \in Shards : last.of[t] <= generation[t]
    BY DEF RankingInv, Typed
  <2>2. /\ generation' \in [Shards -> Nat]
        /\ \A t \in Shards : generation[t] <= generation'[t]
    BY <1>1
  <2>3. \A t \in Shards : last.of[t] <= generation'[t]
    BY <1>1, <2>1, <2>2
  <2> QED
    BY <1>1, <1>2, <2>1, <2>2, <2>3 DEF Typed
<1>4. CacheRight'
  <2>1. ASSUME NEW t \in Shards, NEW i \in DOMAIN cache[t]  PROVE Kept(t, cache[t][i])'
    <3>1. Kept(t, cache[t][i])
      BY <2>1 DEF RankingInv, CacheRight
    <3> DEFINE e == cache[t][i]
    <3>2. e \in Entries /\ e.key[1] \in Nat
      BY <3>1 DEF Kept, Entries
    <3>3. cache' = cache
      BY <1>1
    <3>4. CASE t = s
      BY <1>1, <3>1, <3>2, <3>3, <3>4 DEF Kept
    <3>5. CASE t # s
      BY <1>1, <3>1, <3>3, <3>5 DEF Kept, Current
    <3> QED
      BY <3>4, <3>5
  <2> QED
    BY <1>1, <2>1 DEF RankingInv, CacheRight
<1>5. AnswersCurrent'
  <2>1. last'.of # generation'
    BY <1>1 DEF RankingInv, Typed
  <2> QED
    BY <2>1 DEF AnswersCurrent, Fresh
<1> QED
  BY <1>3, <1>4, <1>5 DEF RankingInv

LEMMA NextRanking ==
    ASSUME RankingInv, [Next]_vars
    PROVE  RankingInv'
<1>1. CASE UNCHANGED vars
  <2>1. UNCHANGED << world, generation, cache, last >>
    BY <1>1 DEF vars
  <2>2. Typed'
    BY <2>1 DEF RankingInv, Typed
  <2>3. CacheRight'
    BY <2>1 DEF RankingInv, CacheRight, Kept, Current
  <2>4. AnswersCurrent'
    BY <2>1 DEF RankingInv, AnswersCurrent, Fresh
  <2> QED
    BY <2>2, <2>3, <2>4 DEF RankingInv
<1>2. CASE Next
  BY <1>2, RefuseStep, AskStep, PublishStep DEF Next
<1> QED
  BY <1>1, <1>2

\* A cached answer is remembered with the generation of the snapshot it was taken from, is
\* right for it, and no cache outgrows its size.
THEOREM RankingInvariance == Spec => []RankingInv
<1>1. RankingInv /\ [Next]_vars => RankingInv'
  BY NextRanking
<1> QED
  BY InitRanking, <1>1, PTL DEF Spec

\* No answer outlives what it was taken from: while no shard publishes, what a search gave
\* is what the shards would give now, some of them without the embedding process.
THEOREM AnswersStayCurrent == Spec => []AnswersCurrent
<1>1. RankingInv => AnswersCurrent
  BY DEF RankingInv
<1> QED
  BY <1>1, RankingInvariance, PTL

-----------------------------------------------------------------------------
(* Numbers, orders and windows.                                            *)

\* A set of numbers has a least.
LEMMA Least ==
    ASSUME NEW T, T \subseteq Nat, T # {}
    PROVE  \E n \in T : \A m \in T : n <= m
<1>1. IsWellFoundedOn(Less, Nat)
  BY NatLessThanWellFounded DEF Less, OpToRel
<1>2. PICK n \in T : \A m \in T : << m, n >> \notin Less
  BY <1>1, WFMin
<1>3. n \in Nat /\ \A m \in T : m \in Nat
  OBVIOUS
<1>4. \A m \in Nat : m < n => << m, n >> \in Less
  BY <1>3 DEF Less
<1>5. ASSUME NEW m \in T  PROVE n <= m
  <2>1. ~(m < n)
    BY <1>2, <1>3, <1>4
  <2> QED
    BY <1>3, <2>1
<1> QED
  BY <1>5

\* In a finite set under a strict order there is one that no other precedes.
LEMMA Undominated ==
    ASSUME NEW S, IsFiniteSet(S), S # {}, NEW R,
           \A x \in S : << x, x >> \notin R,
           \A x, y, z \in S : << x, y >> \in R /\ << y, z >> \in R => << x, z >> \in R
    PROVE  \E x \in S : \A y \in S : << y, x >> \notin R
<1> DEFINE Above(x) == { y \in S : << y, x >> \in R }
           T == { Cardinality(Above(x)) : x \in S }
<1>1. ASSUME NEW x \in S  PROVE IsFiniteSet(Above(x)) /\ Cardinality(Above(x)) \in Nat
  BY FS_Subset, FS_CardinalityType
<1>2. T \subseteq Nat /\ T # {}
  <2> HIDE DEF Above
  <2> QED
    BY <1>1
<1>3. PICK n \in T : \A m \in T : n <= m
  BY <1>2, Least
<1>4. PICK x \in S : n = Cardinality(Above(x))
  OBVIOUS
<1>5. ASSUME NEW y \in S, << y, x >> \in R  PROVE FALSE
  <2>1. Above(y) \subseteq Above(x) /\ y \in Above(x) /\ y \notin Above(y)
    BY <1>5
  <2> HIDE DEF Above
  <2>2. Cardinality(Above(y)) <= Cardinality(Above(x)) /\ Cardinality(Above(y)) # Cardinality(Above(x))
    BY <1>1, <2>1, FS_Subset
  <2>3. Cardinality(Above(x)) <= Cardinality(Above(y))
    BY <1>3, <1>4
  <2> QED
    BY <1>1, <2>2, <2>3
<1> QED
  BY <1>5

\* A finite set of integers has a greatest.
LEMMA Greatest ==
    ASSUME NEW T, T \subseteq Int, IsFiniteSet(T), T # {}
    PROVE  \E m \in T : \A x \in T : m >= x
<1> DEFINE R == { p \in T \X T : p[1] > p[2] }
<1>1. PICK m \in T : \A y \in T : << y, m >> \notin R
  <2>1. \A x \in T : << x, x >> \notin R
    OBVIOUS
  <2>2. \A x, y, z \in T : << x, y >> \in R /\ << y, z >> \in R => << x, z >> \in R
    OBVIOUS
  <2> HIDE DEF R
  <2> QED
    BY <2>1, <2>2, Undominated
<1>2. ASSUME NEW x \in T  PROVE m >= x
  <2>1. ~(x > m)
    BY <1>1
  <2> QED
    BY <2>1
<1> QED
  BY <1>2

\* The files of S have scores.
Scored(f, S) == S \subseteq Docs /\ \A d \in S : f[d] \in Int

\* Sorting by score, ties by path, is by a total order.
LEMMA BetterIsAnOrder ==
    ASSUME NEW f, NEW S, Scored(f, S)
    PROVE  /\ \A d \in S : ~Better(f, d, d)
           /\ \A d, e \in S : d # e => Better(f, d, e) \/ Better(f, e, d)
           /\ \A d, e \in S : ~(Better(f, d, e) /\ Better(f, e, d))
           /\ \A d, e, g \in S : Better(f, d, e) /\ Better(f, e, g) => Better(f, d, g)
           /\ IsFiniteSet(S)
<1>1. \A d \in S : f[d] \in Int /\ d.path \in Int
  BY FilesAreNumbered DEF Scored
<1>2. \A d, e \in S : d.path = e.path => d = e
  BY PathsAreDistinct DEF Scored
<1>3. IsFiniteSet(S)
  BY CollectionIsFinite, FS_Subset DEF Scored
<1> QED
  BY <1>1, <1>2, <1>3 DEF Better

\* Ranks count from 1.
LEMMA RankIsPositive ==
    ASSUME NEW f, NEW S, IsFiniteSet(S), NEW d
    PROVE  Rank(f, S, d) \in Nat \ {0}
<1>1. Cardinality({ e \in S : Better(f, e, d) }) \in Nat
  BY FS_Subset, FS_CardinalityType
<1> QED
  BY <1>1 DEF Rank

\* No two files have the same rank.
LEMMA RanksAreDistinct ==
    ASSUME NEW f, NEW S, Scored(f, S), NEW d \in S, NEW e \in S, Rank(f, S, d) = Rank(f, S, e)
    PROVE  d = e
<1> DEFINE Above(x) == { y \in S : Better(f, y, x) }
<1>1. ASSUME NEW x \in S, NEW y \in S, Better(f, x, y)  PROVE Rank(f, S, x) # Rank(f, S, y)
  <2>1. Above(x) \subseteq Above(y) /\ x \in Above(y) /\ x \notin Above(x)
    BY <1>1, BetterIsAnOrder
  <2>2. IsFiniteSet(Above(y)) /\ IsFiniteSet(Above(x))
    BY BetterIsAnOrder, FS_Subset
  <2>3. Rank(f, S, x) = 1 + Cardinality(Above(x)) /\ Rank(f, S, y) = 1 + Cardinality(Above(y))
    BY DEF Rank
  <2> HIDE DEF Above
  <2>4. Cardinality(Above(x)) \in Nat /\ Cardinality(Above(y)) \in Nat /\ Cardinality(Above(y)) # Cardinality(Above(x))
    BY <2>1, <2>2, FS_Subset, FS_CardinalityType
  <2> QED
    BY <2>3, <2>4
<1> QED
  BY <1>1, BetterIsAnOrder

\* A window that is large enough cuts nothing.
LEMMA BestIsAll ==
    ASSUME NEW f, NEW S, Scored(f, S), NEW n \in Int, Cardinality(S) <= n
    PROVE  Best(f, S, n) = S
<1>1. IsFiniteSet(S)
  BY BetterIsAnOrder
<1>2. ASSUME NEW d \in S  PROVE Rank(f, S, d) <= n
  <2> DEFINE above == { e \in S : Better(f, e, d) }
  <2>1. above \subseteq S /\ d \notin above
    BY BetterIsAnOrder
  <2>2. Rank(f, S, d) = 1 + Cardinality(above)
    BY DEF Rank
  <2> HIDE DEF above
  <2>3. Cardinality(above) <= Cardinality(S) /\ Cardinality(above) # Cardinality(S)
    BY <1>1, <2>1, FS_Subset
  <2>4. Cardinality(above) \in Nat /\ Cardinality(S) \in Nat
    BY <1>1, <2>1, FS_Subset, FS_CardinalityType
  <2> QED
    BY <2>2, <2>3, <2>4
<1> QED
  BY <1>2 DEF Best

\* A window holds no more than its size.
LEMMA BestIsBounded ==
    ASSUME NEW f, NEW S, Scored(f, S), NEW n \in Nat
    PROVE  IsFiniteSet(Best(f, S, n)) /\ Cardinality(Best(f, S, n)) <= n
<1> DEFINE B == Best(f, S, n)
           rank == [d \in B |-> Rank(f, S, d)]
<1>1. B \subseteq S /\ \A d \in B : Rank(f, S, d) <= n
  BY DEF Best
<1>2. IsFiniteSet(S)
  BY BetterIsAnOrder
<1> HIDE DEF B
<1>3. rank \in [B -> 1..n]
  BY <1>1, <1>2, RankIsPositive
<1>4. \A d, e \in B : rank[d] = rank[e] => d = e
  BY <1>1, RanksAreDistinct
<1>5. rank \in Injection(B, 1..n)
  BY <1>3, <1>4 DEF Injection, IsInjective
<1>6. IsFiniteSet(1..n) /\ Cardinality(1..n) = n
  BY FS_Interval
<1> QED
  BY <1>5, <1>6, FS_Injection DEF B

\* One file is the best, and every window has it.
LEMMA BestOfAll ==
    ASSUME NEW f, NEW S, Scored(f, S), S # {}
    PROVE  \E d \in S : /\ \A e \in S : e = d \/ Better(f, d, e)
                        /\ Best(f, S, 1) = {d}
                        /\ \A n \in Nat \ {0} : d \in Best(f, S, n)
<1> DEFINE R == { p \in S \X S : Better(f, p[1], p[2]) }
<1>1. PICK d \in S : \A e \in S : << e, d >> \notin R
  <2>1. /\ \A x \in S : << x, x >> \notin R
        /\ \A x, y, z \in S : << x, y >> \in R /\ << y, z >> \in R => << x, z >> \in R
    BY BetterIsAnOrder
  <2>2. IsFiniteSet(S)
    BY BetterIsAnOrder
  <2> HIDE DEF R
  <2> QED
    BY <2>1, <2>2, Undominated
<1>2. \A e \in S : ~Better(f, e, d)
  BY <1>1
<1>3. \A e \in S : e = d \/ Better(f, d, e)
  BY <1>2, BetterIsAnOrder
<1>4. Rank(f, S, d) = 1
  <2>1. { e \in S : Better(f, e, d) } = {}
    BY <1>2
  <2> QED
    BY <2>1, FS_EmptySet DEF Rank
<1>5. ASSUME NEW e \in S, e # d  PROVE ~(Rank(f, S, e) <= 1)
  <2>1. Rank(f, S, e) \in Nat \ {0} /\ Rank(f, S, e) # 1
    BY <1>4, <1>5, RanksAreDistinct, RankIsPositive, BetterIsAnOrder
  <2> QED
    BY <2>1
<1>6. Best(f, S, 1) = {d}
  BY <1>4, <1>5 DEF Best
<1>7. \A n \in Nat \ {0} : d \in Best(f, S, n)
  BY <1>4 DEF Best
<1> QED
  BY <1>3, <1>6, <1>7

-----------------------------------------------------------------------------
(* Ranks add little.                                                       *)

\* Bounds of what one lane, all lanes, the embedding process and all of them add.
LaneMost == 2131
LanesMost == 8524
NearMost == 1639
FusedMost == 10163

Small(n, most) == n \in Nat /\ n <= most

LEMMA Quotient ==
    ASSUME NEW x \in Nat, NEW y \in Nat, y > 0
    PROVE  x \div y \in Nat /\ y * (x \div y) <= x
BY SMT

LEMMA Product ==
    ASSUME NEW x \in Nat, NEW y \in Nat, NEW q \in Nat, y >= x
    PROVE  y * q >= x * q
BY SMT

\* A weight over a rank is small, whatever the rank.
LEMMA Share ==
    ASSUME NEW x \in Nat, NEW n \in Nat, n > 0, NEW k \in Nat, x < 61 * (k + 1)
    PROVE  x \div (60 + n) \in Nat /\ x \div (60 + n) <= k
<1> DEFINE q == x \div (60 + n)
<1>1. 60 + n \in Nat /\ 60 + n >= 61 /\ 60 + n > 0
  BY SMT
<1>2. q \in Nat /\ (60 + n) * q <= x
  BY <1>1, Quotient, SMT
<1> HIDE DEF q
<1>3. (60 + n) * q >= 61 * q
  BY <1>1, <1>2, Product, SMT
<1>4. (60 + n) * q \in Nat
  BY <1>2, SMT
<1> DEFINE p == (60 + n) * q
<1> HIDE DEF p
<1>5. p \in Nat /\ p <= x /\ p >= 61 * q
  BY <1>2, <1>3, <1>4, SMT DEF p
<1>6. q <= k
  BY <1>2, <1>5, SMT
<1> QED
  BY <1>2, <1>6, SMT DEF q

LEMMA WeightType ==
    ASSUME NEW l, NEW d, NEW r
    PROVE  Weight(l, d, r) \in Nat /\ Weight(l, d, r) <= 130000
<1> DEFINE w == IF l = "agent" THEN 130 ELSE IF l = "memory" THEN 115 ELSE 100
           k == IF d.kind = "memory" /\ r.kind = None THEN 1000 ELSE 100
<1>1. Weight(l, d, r) = (w * Unit) \div k
  BY DEF Weight
<1>2. w \in Nat /\ w <= 130 /\ k \in Nat /\ k >= 100 /\ k > 0 /\ Unit = 100000
  BY SMT DEF Unit
<1> HIDE DEF w, k
<1>3. w * Unit \in Nat /\ w * Unit <= 13000000
  BY <1>2, SMT
<1> DEFINE x == w * Unit
<1>4. x \div k \in Nat /\ k * (x \div k) <= x
  <2> HIDE DEF x
  <2>1. x \in Nat
    BY <1>3 DEF x
  <2> QED
    BY <1>2, <2>1, Quotient
<1> DEFINE q == x \div k
<1>5. k * q >= 100 * q
  <2> HIDE DEF q
  <2>1. q \in Nat
    BY <1>4 DEF q
  <2> QED
    BY <1>2, <2>1, Product, SMT
<1>6. k * q \in Int
  BY <1>2, <1>4
<1> DEFINE p == k * q
<1>7. Weight(l, d, r) = q
  BY <1>1
<1>8. p \in Int /\ p <= x /\ p >= 100 * q /\ q \in Nat /\ x \in Nat /\ x <= 13000000
  BY <1>3, <1>4, <1>5, <1>6
<1> HIDE DEF p, q, x
<1> QED
  BY <1>7, <1>8, SMT

\* The sum of the lanes is bounded.
LEMMA FusedType ==
    ASSUME NEW c, \A l \in DOMAIN c : c[l] \in Nat /\ c[l] <= LaneMost
    PROVE  Fused(c) \in Nat /\ Fused(c) <= LanesMost
<1> DEFINE from(l) == IF l \in DOMAIN c THEN c[l] ELSE 0
<1>1. \A l : from(l) \in Nat /\ from(l) <= LaneMost
  BY SMT DEF LaneMost
<1>2. Fused(c) = from("content") + from("agent") + from("memory") + from("semantic")
  BY DEF Fused
<1> HIDE DEF from
<1>3. /\ from("content") \in Nat /\ from("content") <= LaneMost /\ from("agent") \in Nat /\ from("agent") <= LaneMost
      /\ from("memory") \in Nat /\ from("memory") <= LaneMost /\ from("semantic") \in Nat /\ from("semantic") <= LaneMost
  BY <1>1
<1> QED
  BY <1>2, <1>3, SMT DEF LaneMost, LanesMost

\* What a path is worth: little, unless the file is asked for by its literal name.
LEMMA PathType ==
    ASSUME NEW w \in Lookups, NEW d \in Docs, NEW exact \in BOOLEAN, NEW r
    PROVE  /\ Path(w, d, exact, r) \in Nat
           /\ ~exact => Path(w, d, exact, r) <= CoverageMost
           /\ exact /\ d.kind # "memory" => Path(w, d, exact, r) >= 2 * Unit
<1> DEFINE x == w.covered[d] + (IF exact THEN 200000 ELSE 0)
           y == IF d.kind = "memory" /\ r.kind = None THEN 10 ELSE 1
<1>1. Path(w, d, exact, r) = x \div y
  BY DEF Path
<1>2. w.covered[d] \in Nat /\ w.covered[d] <= CoverageMost /\ CoverageMost \in Nat
  <2>1. w.covered[d] \in 0..CoverageMost
    BY DEF Lookups
  <2>2. CoverageMost \in Nat
    BY SMT DEF CoverageMost
  <2> QED
    BY <2>1, <2>2, SMT
<1>3. /\ x \in Nat /\ y \in Nat /\ y > 0 /\ y >= 1 /\ (d.kind # "memory" => y = 1)
      /\ (~exact => x <= CoverageMost) /\ (exact => x >= 2 * Unit)
  BY <1>2, SMT DEF Unit
<1> HIDE DEF x, y
<1>4. x \div y \in Nat /\ y * (x \div y) <= x
  BY <1>3, Quotient
<1> DEFINE q == x \div y
           p == y * q
<1>5. q \in Nat
  BY <1>4
<1>6. y = 1 => q = x
  BY <1>3, SMT
<1> HIDE DEF q
<1>7. p >= 1 * q /\ p \in Int
  BY <1>3, <1>5, Product, SMT
<1>8. p <= x
  BY <1>4 DEF q
<1> HIDE DEF p
<1>9. q <= x
  BY <1>3, <1>5, <1>7, <1>8, SMT
<1>10. Path(w, d, exact, r) = q
  BY <1>1 DEF q
<1> QED
  BY <1>2, <1>3, <1>5, <1>6, <1>9, <1>10, SMT DEF Unit

\* What a search over one index of a shard may find, what it finds, and each of its lanes.
FoundBy(hidden, r, memory) == { d \in Docs \ hidden : Confined(d, r) /\ (d.kind = "memory") = memory }
Seen(w, hidden, r, memory) == { d \in FoundBy(hidden, r, memory) : w.raw[d] > 0 \/ d \in w.literal }
LaneOf(w, hidden, r, memory, l) ==
    Best(w.raw, { d \in FoundBy(hidden, r, memory) : InLane(w, d, l, r) }, Window)
InLanes(w, hidden, r, memory) == UNION { LaneOf(w, hidden, r, memory, l) : l \in Lanes }
ScoreIn(w, hidden, r, memory) ==
    [d \in InLanes(w, hidden, r, memory) |->
        Lookup(w, hidden, r, memory).ranks[d] + Lookup(w, hidden, r, memory).path[d]]

\* What is kept of the lanes.
WindowOf(w, hidden, r, memory) ==
    Lookup(w, hidden, r, memory).kept = Best(ScoreIn(w, hidden, r, memory), InLanes(w, hidden, r, memory), Window)

LanesAre(w, hidden, r, memory) ==
    Lookup(w, hidden, r, memory).lanes = [l \in Lanes |-> LaneOf(w, hidden, r, memory, l)]

\* What the path of a file is worth in a lookup.
PathIs(w, hidden, r, memory, d) ==
    Lookup(w, hidden, r, memory).path[d] = Path(w, d, d \in LaneOf(w, hidden, r, memory, "exact_path"), r)

LEMMA LaneFinds ==
    ASSUME NEW w, NEW hidden, NEW r, NEW memory, NEW l
    PROVE  /\ LaneOf(w, hidden, r, memory, l) \subseteq { d \in FoundBy(hidden, r, memory) : InLane(w, d, l, r) }
           /\ LaneOf(w, hidden, r, memory, l) \subseteq Seen(w, hidden, r, memory)
           /\ LaneOf(w, hidden, r, memory, l) \subseteq Docs
<1>1. LaneOf(w, hidden, r, memory, l) \subseteq { d \in FoundBy(hidden, r, memory) : InLane(w, d, l, r) }
  BY BestIsPart DEF LaneOf
<1>2. \A d \in FoundBy(hidden, r, memory) : InLane(w, d, l, r) => d \in Seen(w, hidden, r, memory)
  BY DEF InLane, Seen
<1> QED
  BY <1>1, <1>2 DEF FoundBy

\* The parts of a lookup, each lane by itself.
LEMMA LookupParts ==
    ASSUME NEW w \in Lookups, NEW hidden, NEW r, NEW memory
    PROVE  /\ LanesAre(w, hidden, r, memory)
           /\ WindowOf(w, hidden, r, memory)
           /\ \A d \in InLanes(w, hidden, r, memory) :
                Small(Lookup(w, hidden, r, memory).ranks[d], LanesMost) /\ PathIs(w, hidden, r, memory, d)
           /\ InLanes(w, hidden, r, memory) \subseteq Seen(w, hidden, r, memory)
           /\ InLanes(w, hidden, r, memory) \subseteq Docs
           /\ Scored(ScoreIn(w, hidden, r, memory), InLanes(w, hidden, r, memory))
<1> DEFINE lanes == [l \in Lanes |-> Best(w.raw, { d \in FoundBy(hidden, r, memory) : InLane(w, d, l, r) }, Window)]
           parts(d) == [l \in { l \in Lanes : d \in lanes[l] } |->
                          Weight(l, d, r) \div (60 + Rank(w.raw, lanes[l], d))]
           ranks == [d \in UNION { lanes[l] : l \in Lanes } |-> Fused(parts(d))]
           path == [d \in DOMAIN ranks |-> Path(w, d, d \in lanes["exact_path"], r)]
           score == [d \in DOMAIN ranks |-> ranks[d] + path[d]]
           found == Lookup(w, hidden, r, memory)
<1>1. found = [lanes |-> lanes, ranks |-> ranks, path |-> path, kept |-> Best(score, DOMAIN score, Window)]
  BY DEF Lookup, FusedLanes, FoundBy
<1>2. \A l \in Lanes : lanes[l] = LaneOf(w, hidden, r, memory, l)
  BY DEF LaneOf
<1>3. lanes = [l \in Lanes |-> LaneOf(w, hidden, r, memory, l)]
  BY DEF LaneOf
<1>4. UNION { lanes[l] : l \in Lanes } = InLanes(w, hidden, r, memory)
  BY <1>2 DEF InLanes
<1>5. InLanes(w, hidden, r, memory) \subseteq Seen(w, hidden, r, memory) /\ InLanes(w, hidden, r, memory) \subseteq Docs
  BY LaneFinds DEF InLanes
<1>6. ASSUME NEW d  PROVE Small(Fused(parts(d)), LanesMost)
  <2>1. ASSUME NEW l \in Lanes  PROVE IsFiniteSet(lanes[l])
    <3>1. lanes[l] \subseteq Docs
      BY <1>2, LaneFinds
    <3> QED
      BY <3>1, CollectionIsFinite, FS_Subset
  <2>2. ASSUME NEW l \in Lanes  PROVE Small(Weight(l, d, r) \div (60 + Rank(w.raw, lanes[l], d)), LaneMost)
    <3>1. Weight(l, d, r) \in Nat /\ Weight(l, d, r) < 61 * (LaneMost + 1)
      BY WeightType, SMT DEF LaneMost
    <3>2. Rank(w.raw, lanes[l], d) \in Nat /\ Rank(w.raw, lanes[l], d) > 0
      BY <2>1, RankIsPositive
    <3> QED
      BY <3>1, <3>2, Share, SMT DEF Small, LaneMost
  <2> HIDE DEF lanes
  <2>3. \A l \in DOMAIN parts(d) : Small(parts(d)[l], LaneMost)
    <3>1. SUFFICES ASSUME NEW l \in { l \in Lanes : d \in lanes[l] }
                   PROVE  Small(parts(d)[l], LaneMost)
      BY Zenon
    <3>2. l \in Lanes
      OBVIOUS
    <3> DEFINE F == { m \in Lanes : d \in lanes[m] }
               part(m) == Weight(m, d, r) \div (60 + Rank(w.raw, lanes[m], d))
    <3>3. l \in F /\ parts(d) = [m \in F |-> part(m)]
      BY Zenon
    <3>4. Small(part(l), LaneMost)
      BY <2>2, <3>2, Zenon
    <3> HIDE DEF F, part, parts
    <3>5. parts(d)[l] = part(l)
      BY <3>3, Zenon
    <3> QED
      BY <3>4, <3>5, Zenon
  <2> HIDE DEF parts
  <2> QED
    BY <2>3, FusedType DEF Small
<1>7. lanes["exact_path"] = LaneOf(w, hidden, r, memory, "exact_path")
  BY <1>2 DEF Lanes
<1> HIDE DEF lanes, parts
<1>8. DOMAIN ranks = InLanes(w, hidden, r, memory) /\ \A d \in InLanes(w, hidden, r, memory) : Small(ranks[d], LanesMost)
  BY <1>4, <1>6
<1> HIDE DEF ranks
<1>9. \A d \in InLanes(w, hidden, r, memory) : path[d] = Path(w, d, d \in LaneOf(w, hidden, r, memory, "exact_path"), r)
  BY <1>7, <1>8
<1> HIDE DEF path
<1>10. found.ranks = ranks /\ found.path = path /\ found.lanes = lanes
  BY <1>1
<1> HIDE DEF found
<1>11. score = ScoreIn(w, hidden, r, memory) /\ DOMAIN score = InLanes(w, hidden, r, memory)
  BY <1>8, <1>10 DEF ScoreIn, found
<1>12. \A d \in InLanes(w, hidden, r, memory) : score[d] \in Nat
  <2>1. ASSUME NEW d \in InLanes(w, hidden, r, memory)  PROVE score[d] \in Nat
    <3>1. d \in Docs
      BY <1>5
    <3>2. (d \in LaneOf(w, hidden, r, memory, "exact_path")) \in BOOLEAN
      OBVIOUS
    <3>3. path[d] \in Nat
      BY <1>9, <3>1, <3>2, PathType
    <3>4. ranks[d] \in Nat
      BY <1>8 DEF Small
    <3>5. score[d] = ranks[d] + path[d]
      BY <1>8
    <3> QED
      BY <3>3, <3>4, <3>5
  <2> QED
    BY <2>1
<1> HIDE DEF score
<1>13. Scored(ScoreIn(w, hidden, r, memory), InLanes(w, hidden, r, memory))
  BY <1>5, <1>11, <1>12 DEF Scored
<1>14. WindowOf(w, hidden, r, memory)
  BY <1>1, <1>11 DEF WindowOf, found
<1>15. LanesAre(w, hidden, r, memory)
  BY <1>3, <1>10 DEF LanesAre, found
<1>16. ASSUME NEW d \in InLanes(w, hidden, r, memory)
       PROVE  Small(Lookup(w, hidden, r, memory).ranks[d], LanesMost) /\ PathIs(w, hidden, r, memory, d)
  BY <1>8, <1>9, <1>10 DEF PathIs, found
<1> QED
  BY <1>5, <1>13, <1>14, <1>15, <1>16

-----------------------------------------------------------------------------
(* The hits of a shard, part by part. *)

OfFiles(w, hidden, r) == Lookup(w, hidden, r, FALSE)
OfMemories(w, hidden, r) == IF WantsMemory(r) THEN Lookup(w, hidden, r, TRUE) ELSE [kept |-> {}]
OfMeaning(w, r, answers) == IF answers THEN Nearest(w, r) ELSE {}
RanksOf(w, hidden, r, d) ==
    IF d \in OfFiles(w, hidden, r).kept THEN OfFiles(w, hidden, r).ranks[d]
    ELSE IF d \in OfMemories(w, hidden, r).kept THEN OfMemories(w, hidden, r).ranks[d] ELSE 0
PathOf(w, hidden, r, d) ==
    IF d \in OfFiles(w, hidden, r).kept THEN OfFiles(w, hidden, r).path[d]
    ELSE IF d \in OfMemories(w, hidden, r).kept THEN OfMemories(w, hidden, r).path[d] ELSE 0
AddedOf(w, hidden, r, answers) ==
    [d \in Docs |-> RanksOf(w, hidden, r, d)
        + (IF d \in OfMeaning(w, r, answers) THEN Unit \div (60 + Rank(w.near, OfMeaning(w, r, answers), d)) ELSE 0)]
FusedOf(w, hidden, r, answers) ==
    [d \in Docs |-> AddedOf(w, hidden, r, answers)[d] + PathOf(w, hidden, r, d)]
Candidates(w, hidden, r, answers) ==
    OfFiles(w, hidden, r).kept \cup OfMemories(w, hidden, r).kept \cup OfMeaning(w, r, answers)
Merged(w, hidden, r, answers) ==
    Best(FusedOf(w, hidden, r, answers), Candidates(w, hidden, r, answers),
         IF WantsMemory(r) THEN 3 * Window ELSE 2 * Window)
Evidence(w, hidden, r, answers, d) ==
    IF d \notin Merged(w, hidden, r, answers) THEN {}
    ELSE { l \in Lanes : \/ d \in OfFiles(w, hidden, r).kept /\ d \in OfFiles(w, hidden, r).lanes[l]
                         \/ d \in OfMemories(w, hidden, r).kept /\ d \in OfMemories(w, hidden, r).lanes[l]
                         \/ l = "semantic" /\ d \in OfMeaning(w, r, answers) }
Literally(w, hidden, r, answers, d) == "exact_path" \in Evidence(w, hidden, r, answers, d)
Identified(w, hidden, r, answers, d) == d \in w.named \/ Literally(w, hidden, r, answers, d)
BoostOf(w, hidden, r, answers, d) ==
    Boost(d, w.named, Identified(w, hidden, r, answers, d), r)
        + (IF d \in Merged(w, hidden, r, answers) THEN PathOf(w, hidden, r, d) ELSE 0)
ScoreOf(w, hidden, r, answers) ==
    [d \in Docs |-> BoostOf(w, hidden, r, answers, d)
                    + (IF d \in Merged(w, hidden, r, answers) THEN AddedOf(w, hidden, r, answers)[d] ELSE 0)]
MayShow(w, hidden, r, answers) ==
    { d \in Merged(w, hidden, r, answers) \cup w.named : Shown(d, hidden, r) }
Given(w, hidden, r, answers) ==
    Best(ScoreOf(w, hidden, r, answers),
         Distinct(ScoreOf(w, hidden, r, answers), MayShow(w, hidden, r, answers)), ShardLimit)
HitOf(w, hidden, r, answers, d) ==
    [doc |-> d, lanes |-> Evidence(w, hidden, r, answers, d), raw |-> w.raw[d], near |-> w.near[d],
     boost |-> BoostOf(w, hidden, r, answers, d), identified |-> Identified(w, hidden, r, answers, d),
     score |-> ScoreOf(w, hidden, r, answers)[d]]

\* The hits of a shard are those of the files that it gives.
LEMMA ShardHitsParts ==
    ASSUME NEW w, NEW hidden, NEW r, NEW answers
    PROVE  ShardHits(w, hidden, r, answers) =
             { HitOf(w, hidden, r, answers, d) : d \in Given(w, hidden, r, answers) }
<1> DEFINE files == Lookup(w, hidden, r, FALSE)
           memories == IF WantsMemory(r) THEN Lookup(w, hidden, r, TRUE) ELSE [kept |-> {}]
           near == IF answers THEN Nearest(w, r) ELSE {}
           ranks(d) == IF d \in files.kept THEN files.ranks[d]
                       ELSE IF d \in memories.kept THEN memories.ranks[d] ELSE 0
           path(d) == IF d \in files.kept THEN files.path[d]
                      ELSE IF d \in memories.kept THEN memories.path[d] ELSE 0
           added == [d \in Docs |-> ranks(d) + (IF d \in near THEN Unit \div (60 + Rank(w.near, near, d)) ELSE 0)]
           fused == [d \in Docs |-> added[d] + path(d)]
           merged == Best(fused, files.kept \cup memories.kept \cup near,
                          IF WantsMemory(r) THEN 3 * Window ELSE 2 * Window)
           evidence(d) == IF d \notin merged THEN {}
                          ELSE { l \in Lanes : \/ d \in files.kept /\ d \in files.lanes[l]
                                               \/ d \in memories.kept /\ d \in memories.lanes[l]
                                               \/ l = "semantic" /\ d \in near }
           identified(d) == d \in w.named \/ "exact_path" \in evidence(d)
           boost(d) == Boost(d, w.named, identified(d), r) + (IF d \in merged THEN path(d) ELSE 0)
           score == [d \in Docs |-> boost(d) + (IF d \in merged THEN added[d] ELSE 0)]
           shown == { d \in merged \cup w.named : Shown(d, hidden, r) }
           hit(d) == [doc |-> d, lanes |-> evidence(d), raw |-> w.raw[d], near |-> w.near[d],
                      boost |-> boost(d), identified |-> identified(d), score |-> score[d]]
<1>1. ShardHits(w, hidden, r, answers) = { hit(d) : d \in Best(score, Distinct(score, shown), ShardLimit) }
  BY DEF ShardHits, HitsOf
<1>2. files = OfFiles(w, hidden, r) /\ memories = OfMemories(w, hidden, r) /\ near = OfMeaning(w, r, answers)
  BY DEF OfFiles, OfMemories, OfMeaning
<1> HIDE DEF files, memories, near
<1>3. \A d : ranks(d) = RanksOf(w, hidden, r, d) /\ path(d) = PathOf(w, hidden, r, d)
  BY <1>2 DEF RanksOf, PathOf
<1> HIDE DEF ranks, path
<1>4. added = AddedOf(w, hidden, r, answers)
  BY <1>2, <1>3 DEF AddedOf
<1> HIDE DEF added
<1>5. fused = FusedOf(w, hidden, r, answers)
  BY <1>3, <1>4 DEF FusedOf
<1> HIDE DEF fused
<1>6. merged = Merged(w, hidden, r, answers)
  BY <1>2, <1>5 DEF Merged, Candidates
<1> HIDE DEF merged
<1>7. \A d : evidence(d) = Evidence(w, hidden, r, answers, d)
  BY <1>2, <1>6 DEF Evidence
<1> HIDE DEF evidence
<1>8. \A d : identified(d) = Identified(w, hidden, r, answers, d)
  BY <1>7 DEF Identified, Literally
<1> HIDE DEF identified
<1>9. \A d : boost(d) = BoostOf(w, hidden, r, answers, d)
  BY <1>3, <1>6, <1>8 DEF BoostOf
<1> HIDE DEF boost
<1>10. score = ScoreOf(w, hidden, r, answers)
  BY <1>4, <1>6, <1>9 DEF ScoreOf
<1> HIDE DEF score
<1>11. shown = MayShow(w, hidden, r, answers)
  BY <1>6 DEF MayShow
<1> HIDE DEF shown
<1>12. \A d : hit(d) = HitOf(w, hidden, r, answers, d)
  BY <1>7, <1>8, <1>9, <1>10 DEF HitOf
<1> HIDE DEF hit
<1>13. Best(score, Distinct(score, shown), ShardLimit) = Given(w, hidden, r, answers)
  BY <1>10, <1>11 DEF Given
<1> QED
  BY <1>1, <1>12, <1>13

\* What a lookup keeps: no more than a window of files, each with its ranks and its path.
KeptWell(w, hidden, r, memory) ==
    /\ Lookup(w, hidden, r, memory).kept \subseteq Docs
    /\ Cardinality(Lookup(w, hidden, r, memory).kept) <= Window
    /\ \A d \in Lookup(w, hidden, r, memory).kept :
         /\ Small(Lookup(w, hidden, r, memory).ranks[d], LanesMost)
         /\ Lookup(w, hidden, r, memory).path[d]
              = Path(w, d, d \in Lookup(w, hidden, r, memory).lanes["exact_path"], r)
    /\ Lookup(w, hidden, r, memory).lanes["exact_path"] \subseteq w.literal

LEMMA LookupKept ==
    ASSUME NEW w \in Lookups, NEW hidden, NEW r, NEW memory
    PROVE  KeptWell(w, hidden, r, memory)
<1>1. WindowOf(w, hidden, r, memory) /\ LanesAre(w, hidden, r, memory)
  BY LookupParts, Zenon
<1>2. Scored(ScoreIn(w, hidden, r, memory), InLanes(w, hidden, r, memory)) /\ InLanes(w, hidden, r, memory) \subseteq Docs
  BY LookupParts, Zenon
<1>3. \A d \in InLanes(w, hidden, r, memory) :
        Small(Lookup(w, hidden, r, memory).ranks[d], LanesMost) /\ PathIs(w, hidden, r, memory, d)
  BY LookupParts, Zenon
<1> DEFINE kept == Lookup(w, hidden, r, memory).kept
           score == ScoreIn(w, hidden, r, memory)
           lanes == InLanes(w, hidden, r, memory)
<1>4. kept = Best(score, lanes, Window) /\ Scored(score, lanes) /\ lanes \subseteq Docs
  BY <1>1, <1>2, Zenon DEF WindowOf
<1>5. Lookup(w, hidden, r, memory).lanes["exact_path"] = LaneOf(w, hidden, r, memory, "exact_path")
  BY <1>1 DEF LanesAre, Lanes
<1>6. LaneOf(w, hidden, r, memory, "exact_path") \subseteq w.literal
  BY LaneFinds DEF InLane
<1> HIDE DEF kept, score, lanes
<1>7. kept \subseteq lanes
  BY <1>4, BestIsPart
<1>8. Window \in Nat
  BY WindowsArePositive
<1>9. Cardinality(kept) <= Window
  BY <1>4, <1>8, BestIsBounded
<1>10. \A d \in kept : Small(Lookup(w, hidden, r, memory).ranks[d], LanesMost) /\ PathIs(w, hidden, r, memory, d)
  BY <1>3, <1>7, Zenon DEF lanes
<1>11. kept \subseteq Docs
  BY <1>4, <1>7
<1> QED
  BY <1>5, <1>6, <1>9, <1>10, <1>11, Zenon DEF kept, KeptWell, PathIs

LEMMA FilesKept ==
    ASSUME NEW w \in Lookups, NEW hidden, NEW r
    PROVE  /\ OfFiles(w, hidden, r).kept \subseteq Docs
           /\ Cardinality(OfFiles(w, hidden, r).kept) <= Window
           /\ \A d \in OfFiles(w, hidden, r).kept :
                /\ Small(OfFiles(w, hidden, r).ranks[d], LanesMost)
                /\ OfFiles(w, hidden, r).path[d] = Path(w, d, d \in OfFiles(w, hidden, r).lanes["exact_path"], r)
           /\ OfFiles(w, hidden, r).lanes["exact_path"] \subseteq w.literal
<1>1. OfFiles(w, hidden, r) = Lookup(w, hidden, r, FALSE)
  BY DEF OfFiles
<1>2. KeptWell(w, hidden, r, FALSE)
  BY LookupKept
<1> QED
  BY <1>1, <1>2 DEF KeptWell

LEMMA MemoriesKept ==
    ASSUME NEW w \in Lookups, NEW hidden, NEW r
    PROVE  /\ OfMemories(w, hidden, r).kept \subseteq Docs
           /\ Cardinality(OfMemories(w, hidden, r).kept) <= Window
           /\ \A d \in OfMemories(w, hidden, r).kept :
                /\ Small(OfMemories(w, hidden, r).ranks[d], LanesMost)
                /\ OfMemories(w, hidden, r).path[d] = Path(w, d, d \in OfMemories(w, hidden, r).lanes["exact_path"], r)
                /\ OfMemories(w, hidden, r).lanes["exact_path"] \subseteq w.literal
<1>1. CASE WantsMemory(r)
  <2>1. OfMemories(w, hidden, r) = Lookup(w, hidden, r, TRUE)
    BY <1>1 DEF OfMemories
  <2>2. KeptWell(w, hidden, r, TRUE)
    BY LookupKept
  <2> QED
    BY <2>1, <2>2 DEF KeptWell
<1>2. CASE ~WantsMemory(r)
  <2>1. OfMemories(w, hidden, r).kept = {}
    BY <1>2 DEF OfMemories
  <2>2. Cardinality({}) = 0 /\ Window \in Nat
    BY FS_EmptySet, WindowsArePositive
  <2>3. Cardinality({}) <= Window
    BY <2>2
  <2> QED
    BY <2>1, <2>3, Zenon
<1> QED
  BY <1>1, <1>2

\* The path of a file is worth little, unless it is found by its literal name.
LEMMA PathOfFile ==
    ASSUME NEW w \in Lookups, NEW hidden, NEW r, NEW answers, NEW d \in Docs
    PROVE  /\ PathOf(w, hidden, r, d) \in Nat
           /\ d \in Merged(w, hidden, r, answers) /\ ~Literally(w, hidden, r, answers, d) =>
                PathOf(w, hidden, r, d) <= CoverageMost
           /\ Literally(w, hidden, r, answers, d) => d \in w.literal
<1>1. Literally(w, hidden, r, answers, d) => d \in w.literal
  BY FilesKept, MemoriesKept DEF Literally, Evidence
<1>2. CASE d \in OfFiles(w, hidden, r).kept
  <2> DEFINE exact == d \in OfFiles(w, hidden, r).lanes["exact_path"]
  <2>1. PathOf(w, hidden, r, d) = Path(w, d, exact, r)
    BY <1>2, FilesKept DEF PathOf
  <2>2. exact \in BOOLEAN
    OBVIOUS
  <2>3. d \in Merged(w, hidden, r, answers) /\ exact => Literally(w, hidden, r, answers, d)
    BY <1>2 DEF Literally, Evidence, Lanes
  <2> HIDE DEF exact
  <2> QED
    BY <2>1, <2>2, <2>3, PathType, <1>1
<1>3. CASE d \notin OfFiles(w, hidden, r).kept /\ d \in OfMemories(w, hidden, r).kept
  <2> DEFINE exact == d \in OfMemories(w, hidden, r).lanes["exact_path"]
  <2>1. PathOf(w, hidden, r, d) = Path(w, d, exact, r)
    BY <1>3, MemoriesKept DEF PathOf
  <2>2. exact \in BOOLEAN
    OBVIOUS
  <2>3. d \in Merged(w, hidden, r, answers) /\ exact => Literally(w, hidden, r, answers, d)
    BY <1>3 DEF Literally, Evidence, Lanes
  <2> HIDE DEF exact
  <2> QED
    BY <2>1, <2>2, <2>3, PathType, <1>1
<1>4. CASE d \notin OfFiles(w, hidden, r).kept /\ d \notin OfMemories(w, hidden, r).kept
  <2>1. PathOf(w, hidden, r, d) = 0
    BY <1>4 DEF PathOf
  <2> QED
    BY <2>1, <1>1, SMT DEF CoverageMost
<1> QED
  BY <1>2, <1>3, <1>4

\* A candidate is of the files and has a score.
LEMMA CandidatesAreScored ==
    ASSUME NEW w \in Lookups, NEW hidden, NEW r, NEW answers
    PROVE  /\ Candidates(w, hidden, r, answers) \subseteq Docs
           /\ \A d \in Docs : Small(AddedOf(w, hidden, r, answers)[d], FusedMost)
           /\ Scored(FusedOf(w, hidden, r, answers), Candidates(w, hidden, r, answers))
           /\ Cardinality(OfFiles(w, hidden, r).kept) <= Window
           /\ Cardinality(OfMemories(w, hidden, r).kept) <= Window
           /\ Cardinality(OfMeaning(w, r, answers)) <= Window
<1>2. OfFiles(w, hidden, r).kept \subseteq Docs /\ Cardinality(OfFiles(w, hidden, r).kept) <= Window
  BY FilesKept
<1>3. OfMemories(w, hidden, r).kept \subseteq Docs /\ Cardinality(OfMemories(w, hidden, r).kept) <= Window
  BY MemoriesKept
<1>4. OfMeaning(w, r, answers) \subseteq Docs /\ Cardinality(OfMeaning(w, r, answers)) <= Window
  <2> DEFINE like == { d \in Docs : /\ w.near[d] > 0 /\ InScope(d, r) /\ InPrefix(d, r)
                                    /\ r.kind \in {None, d.kind} }
  <2>1. Nearest(w, r) = Best(w.near, like, Window)
    BY DEF Nearest
  <2>2. Scored(w.near, like)
    BY DEF Scored, Lookups
  <2> HIDE DEF like
  <2>3. Cardinality(Nearest(w, r)) <= Window
    BY <2>1, <2>2, BestIsBounded, WindowsArePositive
  <2>4. Nearest(w, r) \subseteq Docs
    BY NearestFinds
  <2> QED
    BY <2>3, <2>4, FS_EmptySet, WindowsArePositive DEF OfMeaning
<1>5. ASSUME NEW d \in Docs  PROVE Small(AddedOf(w, hidden, r, answers)[d], FusedMost)
  <2>1. Small(RanksOf(w, hidden, r, d), LanesMost)
    <3>1. CASE d \in OfFiles(w, hidden, r).kept
      <4>1. Small(OfFiles(w, hidden, r).ranks[d], LanesMost)
        BY <3>1, FilesKept
      <4> QED
        BY <3>1, <4>1 DEF RanksOf
    <3>2. CASE d \notin OfFiles(w, hidden, r).kept /\ d \in OfMemories(w, hidden, r).kept
      <4>3. Small(OfMemories(w, hidden, r).ranks[d], LanesMost)
        BY <3>2, MemoriesKept
      <4> QED
        BY <3>2, <4>3 DEF RanksOf
    <3>3. CASE d \notin OfFiles(w, hidden, r).kept /\ d \notin OfMemories(w, hidden, r).kept
      BY <3>3, SMT DEF RanksOf, Small, LanesMost
    <3> QED
      BY <3>1, <3>2, <3>3
  <2> DEFINE n == Rank(w.near, OfMeaning(w, r, answers), d)
             share == Unit \div (60 + n)
  <2>2. Small(share, NearMost)
    <3>1. n \in Nat \ {0}
      BY <1>4, RankIsPositive, CollectionIsFinite, FS_Subset
    <3> HIDE DEF n
    <3>2. Unit \in Nat /\ Unit < 61 * (NearMost + 1) /\ n \in Nat /\ n > 0
      BY <3>1, SMT DEF Unit, NearMost
    <3> QED
      BY <3>2, Share, SMT DEF Small, NearMost
  <2> DEFINE more == IF d \in OfMeaning(w, r, answers) THEN share ELSE 0
  <2>3. AddedOf(w, hidden, r, answers)[d] = RanksOf(w, hidden, r, d) + more
    BY DEF AddedOf
  <2> HIDE DEF share
  <2>4. Small(more, NearMost)
    BY <2>2, SMT DEF Small, NearMost
  <2> HIDE DEF more
  <2> QED
    BY <2>1, <2>3, <2>4, SMT DEF Small, LanesMost, NearMost, FusedMost
<1>6. Candidates(w, hidden, r, answers) \subseteq Docs
  BY <1>2, <1>3, <1>4, Zenon DEF Candidates
<1>7. \A d \in Docs : FusedOf(w, hidden, r, answers)[d] \in Int
  <2>1. ASSUME NEW d \in Docs  PROVE FusedOf(w, hidden, r, answers)[d] \in Int
    <3>1. FusedOf(w, hidden, r, answers)[d] = AddedOf(w, hidden, r, answers)[d] + PathOf(w, hidden, r, d)
      BY DEF FusedOf
    <3>2. AddedOf(w, hidden, r, answers)[d] \in Nat
      BY <1>5 DEF Small
    <3>3. PathOf(w, hidden, r, d) \in Nat
      BY PathOfFile
    <3> QED
      BY <3>1, <3>2, <3>3
  <2> QED
    BY <2>1
<1> QED
  <2>1. Scored(FusedOf(w, hidden, r, answers), Candidates(w, hidden, r, answers))
    BY <1>6, <1>7 DEF Scored
  <2> QED
    BY <1>2, <1>3, <1>4, <1>5, <1>6, <2>1

-----------------------------------------------------------------------------
(* What a shard hands over.                                                *)

LEMMA ImageIsFinite ==
    ASSUME NEW f, IsFiniteSet(DOMAIN f)
    PROVE  IsFiniteSet({ f[x] : x \in DOMAIN f })
<1> DEFINE g == [x \in DOMAIN f |-> f[x]]
           T == { f[x] : x \in DOMAIN f }
<1>1. g \in Surjection(DOMAIN f, T)
  BY DEF Surjection
<1> HIDE DEF g
<1> QED
  BY <1>1, FS_Surjection

\* What favours are worth at most to a file that is neither an instruction that applies nor
\* asked for, and to one that is not asked for by its literal name.
FavourMost == 13000
PlainMost == 180000

\* Instructions that apply, and definitions that were asked for.
Called(d, named, r) == d \in named \/ (d.kind = "instructions" /\ Applicable(d, r))

\* What is called for has a boost that nothing else reaches but a literal name.
LEMMA BoostParts ==
    ASSUME NEW d \in Docs, NEW named, NEW identified \in BOOLEAN, NEW r
    PROVE  /\ Boost(d, named, identified, r) \in Nat
           /\ Called(d, named, r) => Boost(d, named, identified, r) >= Unit
           /\ ~Called(d, named, r) /\ ~identified => Boost(d, named, identified, r) <= 8000
           /\ (d \in named => d.kind = "source") /\ ~Deep(d) => Boost(d, named, identified, r) <= 175000
<1> DEFINE applies == IF d.kind = "instructions" /\ Applicable(d, r) THEN 100000 + 100 * d.depth ELSE 0
           x == IF d.about # None /\ Applicable(d, r) THEN 8000 ELSE 1000
           y == IF r.kind = None THEN 10 ELSE 1
           memory == IF d.kind = "memory" THEN x \div y ELSE 0
           asked == IF d \in named THEN 150000 ELSE 0
           near == IF identified /\ d.kind = "source" /\ r.context # None /\ Within(d.dir, r.context) THEN 15000 ELSE 0
<1>1. Boost(d, named, identified, r) = applies + memory + asked + near
  BY SMT DEF Boost
<1>2. d.depth \in Nat
  BY FilesAreNumbered
<1>3. applies \in Nat /\ (applies = 0 \/ applies >= 100000)
  BY <1>2, SMT
<1>4. d.kind = "instructions" /\ Applicable(d, r) => applies >= 100000
  BY <1>2, SMT
<1>5. ~(d.kind = "instructions" /\ Applicable(d, r)) => applies = 0
  BY SMT
<1>6. x \in Nat /\ x <= 8000 /\ y \in Nat /\ y >= 1 /\ y > 0
  BY SMT
<1>7. x \div y \in Nat /\ x \div y <= 8000
  <2> HIDE DEF x, y
  <2>1. x \div y \in Nat /\ y * (x \div y) <= x
    BY <1>6, Quotient, SMT
  <2> DEFINE q == x \div y
             p == y * q
  <2>2. q \in Nat
    BY <2>1, SMT
  <2> HIDE DEF q
  <2>3. p >= 1 * q /\ p \in Int
    BY <1>6, <2>2, Product, SMT
  <2>4. p <= x
    BY <2>1, SMT DEF q
  <2> HIDE DEF p
  <2>5. q <= 8000
    BY <1>6, <2>2, <2>3, <2>4, SMT
  <2> QED
    BY <2>2, <2>5, SMT DEF q
<1>8. memory \in Nat /\ memory <= 8000
  <2> HIDE DEF x, y
  <2> QED
    BY <1>7, SMT
<1>9. asked \in Nat /\ near \in Nat /\ asked <= 150000 /\ near <= 15000
  BY SMT
<1>10. d \in named => asked >= 100000
  BY SMT
<1>11. /\ d \notin named => asked = 0
       /\ ~identified => near = 0
       /\ d.kind # "source" => near = 0
  BY SMT
<1>12. ~Deep(d) => applies <= 175000
  BY <1>2, SMT DEF Deep
<1>13. d.kind # "memory" => memory = 0
  BY SMT
<1> HIDE DEF applies, memory, asked, near
<1>14. Boost(d, named, identified, r) \in Nat
  BY <1>1, <1>3, <1>8, <1>9, SMT
<1>15. Called(d, named, r) => Boost(d, named, identified, r) >= Unit
  BY <1>1, <1>3, <1>4, <1>8, <1>9, <1>10, SMT DEF Called, Unit
<1>16. ~Called(d, named, r) /\ ~identified => Boost(d, named, identified, r) <= 8000
  BY <1>1, <1>5, <1>8, <1>11, SMT DEF Called
<1>17. ASSUME d \in named => d.kind = "source", ~Deep(d)  PROVE Boost(d, named, identified, r) <= 175000
  <2>1. CASE d.kind = "source"
    <3>1. applies = 0 /\ memory = 0
      BY <1>5, <1>13, <2>1
    <3> QED
      BY <1>1, <1>9, <3>1, SMT
  <2>2. CASE d.kind # "source"
    <3>1. asked = 0 /\ near = 0
      BY <1>11, <1>17, <2>2
    <3>2. CASE d.kind = "memory"
      <4>1. applies = 0
        BY <1>5, <3>2
      <4> QED
        BY <1>1, <1>8, <3>1, <4>1, SMT
    <3>3. CASE d.kind # "memory"
      <4>1. memory = 0
        BY <1>13, <3>3
      <4> QED
        BY <1>1, <1>3, <1>12, <1>17, <3>1, <4>1, SMT
    <3> QED
      BY <3>2, <3>3
  <2> QED
    BY <2>1, <2>2
<1> QED
  BY <1>14, <1>15, <1>16, <1>17, SMT

\* So it is with what a shard adds for the path.
LEMMA BoostOfFile ==
    ASSUME NEW w \in Lookups, NEW hidden, NEW r, NEW answers, NEW d \in Docs
    PROVE  /\ BoostOf(w, hidden, r, answers, d) \in Nat
           /\ Called(d, w.named, r) => BoostOf(w, hidden, r, answers, d) >= Unit
           /\ ~Called(d, w.named, r) /\ d \notin w.literal => BoostOf(w, hidden, r, answers, d) <= FavourMost
           /\ ~Deep(d) /\ d \notin w.literal => BoostOf(w, hidden, r, answers, d) <= PlainMost
           /\ d \in Merged(w, hidden, r, answers) => BoostOf(w, hidden, r, answers, d) >= PathOf(w, hidden, r, d)
<1> DEFINE identified == Identified(w, hidden, r, answers, d)
           boost == Boost(d, w.named, identified, r)
           path == PathOf(w, hidden, r, d)
           more == IF d \in Merged(w, hidden, r, answers) THEN path ELSE 0
<1>1. BoostOf(w, hidden, r, answers, d) = boost + more
  BY DEF BoostOf
<1>2. identified \in BOOLEAN
  BY DEF Identified
<1>3. d \notin w.literal => ~Literally(w, hidden, r, answers, d)
  BY PathOfFile
<1>4. ~Called(d, w.named, r) /\ d \notin w.literal => ~identified
  BY <1>3 DEF Called, Identified
<1>5. d \in w.named => d.kind = "source"
  BY DEF Lookups
<1> HIDE DEF identified
<1>6. /\ boost \in Nat
      /\ Called(d, w.named, r) => boost >= Unit
      /\ ~Called(d, w.named, r) /\ d \notin w.literal => boost <= 8000
      /\ ~Deep(d) => boost <= 175000
  BY <1>2, <1>4, <1>5, BoostParts
<1>7. path \in Nat /\ (d \in Merged(w, hidden, r, answers) /\ d \notin w.literal => path <= CoverageMost)
  BY <1>3, PathOfFile
<1> HIDE DEF boost, path
<1>8. /\ more \in Nat
      /\ d \notin w.literal => more <= CoverageMost
      /\ d \in Merged(w, hidden, r, answers) => more = path
  BY <1>7, SMT DEF CoverageMost
<1> HIDE DEF more
<1>9. boost + more \in Nat /\ boost + more >= boost /\ boost + more >= more
  BY <1>6, <1>8, SMT
<1>10. Called(d, w.named, r) => boost + more >= Unit
  BY <1>6, <1>8, SMT DEF Unit
<1>11. ~Called(d, w.named, r) /\ d \notin w.literal => boost + more <= FavourMost
  BY <1>6, <1>8, SMT DEF FavourMost, CoverageMost
<1>12. ~Deep(d) /\ d \notin w.literal => boost + more <= PlainMost
  BY <1>6, <1>8, SMT DEF PlainMost, CoverageMost
<1>13. d \in Merged(w, hidden, r, answers) => boost + more >= path
  BY <1>8, <1>9
<1> QED
  BY <1>1, <1>9, <1>10, <1>11, <1>12, <1>13 DEF path

\* The score of a shard is the boost and a little more.
LEMMA ScoreParts ==
    ASSUME NEW w \in Lookups, NEW hidden, NEW r, NEW answers, NEW d \in Docs
    PROVE  /\ ScoreOf(w, hidden, r, answers)[d] \in Nat
           /\ ScoreOf(w, hidden, r, answers)[d] >= BoostOf(w, hidden, r, answers, d)
           /\ ScoreOf(w, hidden, r, answers)[d] <= BoostOf(w, hidden, r, answers, d) + FusedMost
<1> DEFINE more == IF d \in Merged(w, hidden, r, answers) THEN AddedOf(w, hidden, r, answers)[d] ELSE 0
           boost == BoostOf(w, hidden, r, answers, d)
<1>1. ScoreOf(w, hidden, r, answers)[d] = boost + more
  BY DEF ScoreOf
<1>2. boost \in Nat
  BY BoostOfFile
<1>3. Small(AddedOf(w, hidden, r, answers)[d], FusedMost)
  BY CandidatesAreScored
<1>4. more \in Nat /\ more <= FusedMost
  BY <1>3, SMT DEF Small, FusedMost
<1>5. FusedMost \in Nat
  BY SMT DEF FusedMost
<1> HIDE DEF more, boost
<1> QED
  BY <1>1, <1>2, <1>4, <1>5, SMT DEF boost

\* Folding equal texts drops none but the worse, so the best file of all stays.
LEMMA DistinctKeepsBest ==
    ASSUME NEW f, NEW S, Scored(f, S), S # {}
    PROVE  \E d \in S : /\ \A e \in S : e = d \/ Better(f, d, e)
                        /\ \A n \in Nat \ {0} : d \in Best(f, Distinct(f, S), n)
<1>1. PICK d \in S : \A e \in S : e = d \/ Better(f, d, e)
  BY BestOfAll
<1>2. Distinct(f, S) \subseteq S
  BY DEF Distinct
<1>3. d \in Distinct(f, S)
  <2>1. \A e \in S : ~Better(f, e, d)
    BY <1>1, BetterIsAnOrder
  <2> QED
    BY <2>1 DEF Distinct
<1>4. Scored(f, Distinct(f, S))
  BY <1>2 DEF Scored
<1>5. PICK b \in Distinct(f, S) : /\ \A e \in Distinct(f, S) : e = b \/ Better(f, b, e)
                                 /\ \A n \in Nat \ {0} : b \in Best(f, Distinct(f, S), n)
  BY <1>3, <1>4, BestOfAll
<1>6. b = d
  BY <1>1, <1>2, <1>3, <1>5, BetterIsAnOrder
<1> QED
  BY <1>1, <1>5, <1>6

\* Two finite sets together are no larger than their sizes.
LEMMA UnionIsBounded ==
    ASSUME NEW S, IsFiniteSet(S), NEW T, IsFiniteSet(T)
    PROVE  /\ IsFiniteSet(S \cup T) /\ Cardinality(S \cup T) \in Nat
           /\ Cardinality(S \cup T) <= Cardinality(S) + Cardinality(T)
<1>1. IsFiniteSet(S \cap T)
  BY FS_Intersection
<1>2. IsFiniteSet(S \cup T) /\ Cardinality(S \cup T) = Cardinality(S) + Cardinality(T) - Cardinality(S \cap T)
  BY FS_Union
<1>3. /\ Cardinality(S) \in Nat /\ Cardinality(T) \in Nat /\ Cardinality(S \cap T) \in Nat
      /\ Cardinality(S \cup T) \in Nat
  BY <1>1, <1>2, FS_CardinalityType
<1> QED
  BY <1>2, <1>3

\* The windows of the union are the sum of the windows of the lookups: nothing is cut there.
LEMMA MergedIsAll ==
    ASSUME NEW w \in Lookups, NEW hidden, NEW r, NEW answers
    PROVE  Merged(w, hidden, r, answers) = Candidates(w, hidden, r, answers)
<1> DEFINE A == OfFiles(w, hidden, r).kept
           M == OfMemories(w, hidden, r).kept
           N == OfMeaning(w, r, answers)
           room == IF WantsMemory(r) THEN 3 * Window ELSE 2 * Window
<1>1. /\ Candidates(w, hidden, r, answers) \subseteq Docs
      /\ Scored(FusedOf(w, hidden, r, answers), Candidates(w, hidden, r, answers))
      /\ Cardinality(A) <= Window /\ Cardinality(M) <= Window /\ Cardinality(N) <= Window
  BY CandidatesAreScored
<1>2. Candidates(w, hidden, r, answers) = (A \cup M) \cup N
  BY DEF Candidates
<1>3. ~WantsMemory(r) => M = {}
  BY DEF OfMemories
<1> HIDE DEF A, M, N
<1>4. IsFiniteSet(A) /\ IsFiniteSet(M) /\ IsFiniteSet(N)
  BY <1>1, <1>2, CollectionIsFinite, FS_Subset
<1>5. Cardinality(A) \in Nat /\ Cardinality(M) \in Nat /\ Cardinality(N) \in Nat
  BY <1>4, FS_CardinalityType
<1>6. Cardinality(A \cup M) <= Cardinality(A) + Cardinality(M) /\ IsFiniteSet(A \cup M) /\ Cardinality(A \cup M) \in Nat
  BY <1>4, UnionIsBounded
<1>7. Cardinality((A \cup M) \cup N) <= Cardinality(A \cup M) + Cardinality(N) /\ Cardinality((A \cup M) \cup N) \in Nat
  BY <1>4, <1>6, UnionIsBounded
<1>8. Cardinality({}) = 0
  BY FS_EmptySet
<1>9. Window \in Nat
  BY WindowsArePositive
<1>10. Cardinality((A \cup M) \cup N) <= room /\ room \in Int
  <2>1. CASE WantsMemory(r)
    BY <1>1, <1>5, <1>6, <1>7, <1>9, <2>1
  <2>2. CASE ~WantsMemory(r)
    <3>1. A \cup M = A
      BY <1>3, <2>2
    <3> QED
      BY <1>1, <1>5, <1>7, <1>9, <2>2, <3>1
  <2> QED
    BY <2>1, <2>2
<1> HIDE DEF room
<1>11. Best(FusedOf(w, hidden, r, answers), Candidates(w, hidden, r, answers), room) = Candidates(w, hidden, r, answers)
  BY <1>1, <1>2, <1>10, BestIsAll
<1> QED
  BY <1>11 DEF Merged, room

\* A window that holds all that an index finds cuts none of it.
LEMMA WindowHolds ==
    ASSUME NEW w \in Lookups, NEW hidden, NEW r, NEW memory,
           Cardinality(Seen(w, hidden, r, memory)) <= Window,
           NEW d \in FoundBy(hidden, r, memory), NEW l \in Lanes, InLane(w, d, l, r)
    PROVE  d \in Lookup(w, hidden, r, memory).kept
<1> DEFINE found == Seen(w, hidden, r, memory)
           lanes == InLanes(w, hidden, r, memory)
           lane == { e \in FoundBy(hidden, r, memory) : InLane(w, e, l, r) }
           score == ScoreIn(w, hidden, r, memory)
<1>1. found \subseteq Docs /\ IsFiniteSet(found) /\ Window \in Nat /\ Cardinality(found) \in Nat
  BY CollectionIsFinite, FS_Subset, FS_CardinalityType, WindowsArePositive DEF Seen, FoundBy
<1>2. ASSUME NEW S \in SUBSET found  PROVE Cardinality(S) <= Window /\ IsFiniteSet(S)
  <2>1. IsFiniteSet(S) /\ Cardinality(S) <= Cardinality(found) /\ Cardinality(S) \in Nat
    BY <1>1, FS_Subset, FS_CardinalityType
  <2> HIDE DEF found
  <2>2. Cardinality(found) <= Window
    BY DEF found
  <2> QED
    BY <1>1, <2>1, <2>2
<1>3. lane \subseteq found
  BY DEF InLane, Seen
<1> HIDE DEF found
<1>4. Best(w.raw, lane, Window) = lane
  <2>1. Scored(w.raw, lane)
    BY <1>1, <1>3 DEF Scored, Lookups
  <2>2. Cardinality(lane) <= Window
    BY <1>2, <1>3
  <2> HIDE DEF lane
  <2> QED
    BY <1>1, <2>1, <2>2, BestIsAll
<1>5. LaneOf(w, hidden, r, memory, l) = Best(w.raw, lane, Window)
  BY DEF LaneOf
<1>6. d \in lane
  OBVIOUS
<1>7. d \in lanes
  <2> HIDE DEF lane
  <2> QED
    BY <1>4, <1>5, <1>6 DEF InLanes
<1>8. lanes \subseteq found
  BY LookupParts, Zenon DEF found
<1>9. Scored(score, lanes)
  BY LookupParts, Zenon
<1>10. WindowOf(w, hidden, r, memory)
  BY LookupParts, Zenon
<1>11. Lookup(w, hidden, r, memory).kept = Best(score, lanes, Window)
  BY <1>10 DEF WindowOf
<1> HIDE DEF lanes, score
<1>12. Best(score, lanes, Window) = lanes
  <2>1. Cardinality(lanes) <= Window
    BY <1>2, <1>8
  <2> QED
    BY <1>1, <1>9, <2>1, BestIsAll
<1> QED
  BY <1>7, <1>11, <1>12

\* What a shard may show is scored, held and within its limit if that fits.
LEMMA ShownIsScored ==
    ASSUME NEW w \in Lookups, NEW hidden, NEW r, NEW answers
    PROVE  /\ Scored(ScoreOf(w, hidden, r, answers), MayShow(w, hidden, r, answers))
           /\ MayShow(w, hidden, r, answers) \subseteq { d \in Docs : Held(w, d) /\ Shown(d, hidden, r) }
<1>1. Merged(w, hidden, r, answers) \subseteq { d \in Docs : Held(w, d) }
  <2>1. SUFFICES ASSUME NEW d \in Candidates(w, hidden, r, answers)  PROVE d \in Docs /\ Held(w, d)
    BY MergedIsAll
  <2>2. CASE d \in OfFiles(w, hidden, r).kept
    BY <2>2, LookupFinds DEF Held, OfFiles
  <2>3. CASE d \in OfMemories(w, hidden, r).kept
    <3>1. d \in Lookup(w, hidden, r, TRUE).kept
      BY <2>3 DEF OfMemories
    <3> QED
      BY <3>1, LookupFinds DEF Held
  <2>4. CASE d \in OfMeaning(w, r, answers)
    <3>1. d \in Nearest(w, r)
      BY <2>4 DEF OfMeaning
    <3> QED
      BY <3>1, NearestFinds DEF Held
  <2> QED
    BY <2>1, <2>2, <2>3, <2>4 DEF Candidates
<1>2. w.named \subseteq { d \in Docs : Held(w, d) }
  BY DEF Held, Lookups
<1>3. MayShow(w, hidden, r, answers) \subseteq { d \in Docs : Held(w, d) /\ Shown(d, hidden, r) }
  BY <1>1, <1>2 DEF MayShow
<1>4. \A d \in Docs : ScoreOf(w, hidden, r, answers)[d] \in Int
  <2>1. \A d \in Docs : ScoreOf(w, hidden, r, answers)[d] \in Nat
    BY ScoreParts
  <2> QED
    BY <2>1
<1> QED
  BY <1>3, <1>4 DEF Scored

\* A file that is no instruction and no memory is handed over where all fits.
LEMMA GivenWhereItFits ==
    ASSUME NEW w \in Lookups, NEW hidden, NEW r, NEW answers,
           Cardinality({ d \in Docs : Held(w, d) /\ Shown(d, hidden, r) }) <= ShardLimit,
           NEW d \in MayShow(w, hidden, r, answers), d.kind \notin {"instructions", "memory"}
    PROVE  d \in Given(w, hidden, r, answers)
<1> DEFINE score == ScoreOf(w, hidden, r, answers)
           shown == MayShow(w, hidden, r, answers)
           most == { e \in Docs : Held(w, e) /\ Shown(e, hidden, r) }
           D == Distinct(score, shown)
<1>1. d \in D
  BY DEF Distinct
<1>2. D \subseteq shown /\ Scored(score, shown) /\ shown \subseteq most
  BY ShownIsScored DEF Distinct
<1>3. IsFiniteSet(most) /\ Cardinality(most) \in Nat /\ Cardinality(most) <= ShardLimit /\ ShardLimit \in Nat
  <2>1. most \subseteq Docs
    OBVIOUS
  <2>2. Cardinality(most) <= ShardLimit
    OBVIOUS
  <2> HIDE DEF most
  <2> QED
    BY <2>1, <2>2, CollectionIsFinite, FS_Subset, FS_CardinalityType, WindowsArePositive
<1> HIDE DEF score, shown, most, D
<1>4. Scored(score, D)
  BY <1>2 DEF Scored
<1>5. Cardinality(D) <= ShardLimit
  <2>1. Cardinality(D) <= Cardinality(most) /\ Cardinality(D) \in Nat
    BY <1>2, <1>3, FS_Subset, FS_CardinalityType
  <2> QED
    BY <1>3, <2>1
<1>6. Best(score, D, ShardLimit) = D
  BY <1>3, <1>4, <1>5, BestIsAll
<1> QED
  BY <1>1, <1>6 DEF Given, score, shown, D

-----------------------------------------------------------------------------
(* What the reader makes of the hits of the shards.                        *)

HitsRight(hits) ==
    /\ IsFiniteSet(hits)
    /\ \A h \in hits : h.doc \in Docs /\ h.boost \in Nat /\ h.score \in Nat

DocsOf(hits) == { h.doc : h \in hits }

\* The hit that is kept of those for one path.
KeptHit(hits, h) == h \in hits /\ \A g \in hits : g.doc = h.doc => h.score >= g.score
HitFor(hits, d) == CHOOSE h \in hits : h.doc = d /\ \A g \in hits : g.doc = d => h.score >= g.score

\* There is a best hit for each path.
LEMMA HitForPath ==
    ASSUME NEW hits, HitsRight(hits), NEW d \in DocsOf(hits)
    PROVE  KeptHit(hits, HitFor(hits, d)) /\ HitFor(hits, d).doc = d
<1> DEFINE own == { h \in hits : h.doc = d }
           score == [h \in own |-> h.score]
           scores == { score[h] : h \in DOMAIN score }
<1>1. IsFiniteSet(own) /\ DOMAIN score = own /\ own # {}
  BY FS_Subset DEF HitsRight, DocsOf
<1>2. scores \subseteq Nat /\ scores # {}
  BY <1>1 DEF HitsRight
<1>3. IsFiniteSet(scores)
  <2> HIDE DEF score
  <2> QED
    BY <1>1, ImageIsFinite
<1>4. PICK m \in scores : \A x \in scores : m >= x
  <2>1. scores \subseteq Int
    BY <1>2
  <2> HIDE DEF scores
  <2> QED
    BY <1>2, <1>3, <2>1, Greatest
<1>5. PICK h \in own : h.score = m
  BY <1>1
<1>6. \A g \in hits : g.doc = d => g.score \in scores
  OBVIOUS
<1>7. \E k \in hits : k.doc = d /\ \A g \in hits : g.doc = d => k.score >= g.score
  <2>1. \A g \in hits : g.doc = d => h.score >= g.score
    BY <1>4, <1>5, <1>6
  <2>2. h \in hits /\ h.doc = d
    OBVIOUS
  <2> QED
    BY <2>1, <2>2
<1>8. /\ HitFor(hits, d) \in hits /\ HitFor(hits, d).doc = d
      /\ \A g \in hits : g.doc = d => HitFor(hits, d).score >= g.score
  BY <1>7 DEF HitFor
<1> QED
  BY <1>8 DEF KeptHit

\* What all lanes together give a file in the union of the hits.
FusedIn(hits, r, d) ==
    Fused([l \in HitFor(hits, d).lanes |->
        Weight(l, d, r) \div (60 + Rank(IF l = "semantic" THEN [e \in DocsOf(hits) |-> HitFor(hits, e).near]
                                        ELSE [e \in DocsOf(hits) |-> HitFor(hits, e).raw],
                                        { e \in DocsOf(hits) : l \in HitFor(hits, e).lanes }, d))])

RankedAs(f, hits, r) == f = [d \in DocsOf(hits) |-> HitFor(hits, d).boost + FusedIn(hits, r, d)]

\* The reader adds to the boost what the lanes of the union give.
LEMMA RankedIs ==
    ASSUME NEW hits, NEW r
    PROVE  RankedAs(Ranked(hits, r), hits, r)
<1> DEFINE docs == { h.doc : h \in hits }
           hit == [d \in docs |-> CHOOSE h \in hits : h.doc = d /\ \A g \in hits : g.doc = d => h.score >= g.score]
           raw == [d \in docs |-> hit[d].raw]
           near == [d \in docs |-> hit[d].near]
           lane(l) == { d \in docs : l \in hit[d].lanes }
           part(d, l) == Weight(l, d, r) \div (60 + Rank(IF l = "semantic" THEN near ELSE raw, lane(l), d))
           from(d) == [l \in hit[d].lanes |-> part(d, l)]
<1>1. Ranked(hits, r) = [d \in docs |-> hit[d].boost + Fused(from(d))]
  BY DEF Ranked
<1>2. docs = DocsOf(hits)
  BY DEF DocsOf
<1>3. \A d \in docs : hit[d] = HitFor(hits, d)
  BY DEF HitFor
<1> HIDE DEF docs, hit
<1>4. /\ near = [e \in DocsOf(hits) |-> HitFor(hits, e).near]
      /\ raw = [e \in DocsOf(hits) |-> HitFor(hits, e).raw]
      /\ \A l : lane(l) = { e \in DocsOf(hits) : l \in HitFor(hits, e).lanes }
  BY <1>2, <1>3
<1> HIDE DEF near, raw, lane
<1>5. ASSUME NEW d \in docs  PROVE Fused(from(d)) = FusedIn(hits, r, d)
  BY <1>3, <1>4 DEF FusedIn
<1> HIDE DEF from
<1>6. [d \in docs |-> hit[d].boost + Fused(from(d))]
        = [d \in DocsOf(hits) |-> HitFor(hits, d).boost + FusedIn(hits, r, d)]
  BY <1>2, <1>3, <1>5
<1> QED
  BY <1>1, <1>6 DEF RankedAs

LEMMA RankedParts ==
    ASSUME NEW hits, NEW r
    PROVE  /\ DOMAIN Ranked(hits, r) = DocsOf(hits)
           /\ \A d \in DocsOf(hits) : Ranked(hits, r)[d] = HitFor(hits, d).boost + FusedIn(hits, r, d)
<1>1. RankedAs(Ranked(hits, r), hits, r)
  BY RankedIs
<1> DEFINE f == Ranked(hits, r)
<1> HIDE DEF f
<1>2. f = [d \in DocsOf(hits) |-> HitFor(hits, d).boost + FusedIn(hits, r, d)]
  BY <1>1 DEF RankedAs, f
<1>3. DOMAIN f = DocsOf(hits) /\ \A d \in DocsOf(hits) : f[d] = HitFor(hits, d).boost + FusedIn(hits, r, d)
  BY <1>2
<1> QED
  BY <1>3 DEF f

\* The lanes of the union add little, too.
LEMMA FusedInType ==
    ASSUME NEW hits, HitsRight(hits), NEW r, NEW d
    PROVE  Small(FusedIn(hits, r, d), LanesMost)
<1> DEFINE near == [e \in DocsOf(hits) |-> HitFor(hits, e).near]
           raw == [e \in DocsOf(hits) |-> HitFor(hits, e).raw]
           lane(l) == { e \in DocsOf(hits) : l \in HitFor(hits, e).lanes }
           rank(l) == Rank(IF l = "semantic" THEN near ELSE raw, lane(l), d)
           part(l) == Weight(l, d, r) \div (60 + rank(l))
           L == HitFor(hits, d).lanes
           c == [l \in L |-> part(l)]
<1>1. FusedIn(hits, r, d) = Fused(c)
  BY DEF FusedIn
<1>2. ASSUME NEW l  PROVE Small(part(l), LaneMost)
  <2>1. IsFiniteSet(lane(l))
    <3>1. lane(l) \subseteq Docs
      BY DEF DocsOf, HitsRight
    <3> HIDE DEF lane
    <3> QED
      BY <3>1, CollectionIsFinite, FS_Subset
  <2> HIDE DEF lane, near, raw
  <2>2. rank(l) \in Nat /\ rank(l) > 0
    <3>1. rank(l) \in Nat \ {0}
      BY <2>1, RankIsPositive
    <3> HIDE DEF rank
    <3> QED
      BY <3>1
  <2> HIDE DEF rank
  <2>3. Weight(l, d, r) \in Nat /\ Weight(l, d, r) < 61 * (LaneMost + 1) /\ LaneMost \in Nat
    BY WeightType, SMT DEF LaneMost
  <2> QED
    BY <2>2, <2>3, Share, SMT DEF Small
<1>3. \A l \in DOMAIN c : c[l] \in Nat /\ c[l] <= LaneMost
  <2> HIDE DEF part, L
  <2>1. \A l \in L : c[l] = part(l)
    OBVIOUS
  <2> QED
    BY <1>2, <2>1 DEF Small
<1> HIDE DEF c
<1> QED
  BY <1>1, <1>3, FusedType DEF Small

\* The score of the reader is the boost of the best hit and a little more.
LEMMA RankedScored ==
    ASSUME NEW hits, HitsRight(hits), NEW r
    PROVE  /\ DOMAIN Ranked(hits, r) = DocsOf(hits) /\ DocsOf(hits) \subseteq Docs
           /\ Scored(Ranked(hits, r), DocsOf(hits))
           /\ \A d \in DocsOf(hits) : /\ Ranked(hits, r)[d] \in Nat
                                      /\ Ranked(hits, r)[d] >= HitFor(hits, d).boost
                                      /\ Ranked(hits, r)[d] <= HitFor(hits, d).boost + LanesMost
<1>1. DocsOf(hits) \subseteq Docs
  BY DEF DocsOf, HitsRight
<1>2. ASSUME NEW d \in DocsOf(hits)
      PROVE  /\ Ranked(hits, r)[d] \in Nat
             /\ Ranked(hits, r)[d] >= HitFor(hits, d).boost
             /\ Ranked(hits, r)[d] <= HitFor(hits, d).boost + LanesMost
  <2>1. Ranked(hits, r)[d] = HitFor(hits, d).boost + FusedIn(hits, r, d)
    BY RankedParts
  <2>2. HitFor(hits, d).boost \in Nat
    BY HitForPath DEF KeptHit, HitsRight
  <2>3. Small(FusedIn(hits, r, d), LanesMost)
    BY FusedInType
  <2>4. LanesMost \in Nat
    BY SMT DEF LanesMost
  <2> QED
    BY <2>1, <2>2, <2>3, <2>4, SMT DEF Small
<1>3. Scored(Ranked(hits, r), DocsOf(hits))
  BY <1>1, <1>2 DEF Scored
<1> QED
  BY <1>1, <1>2, <1>3, RankedParts

\* A file is among the originals, or one of the same name and text is.
Stands(e, d) == e = d \/ (e.name = d.name /\ e.text = d.text)

Defines(hits, r) == { h.doc : h \in { h \in hits : h.identified /\ h.doc.kind = "source" /\ r.context # None } }

\* Every file is among the originals, or a copy of it is.
LEMMA OriginalsStand ==
    ASSUME NEW hits, NEW f, DOMAIN f = DocsOf(hits), Scored(f, DocsOf(hits)), NEW r, NEW d \in DocsOf(hits)
    PROVE  \E e \in Originals(f, hits, r) : Stands(e, d)
<1> DEFINE defines == Defines(hits, r)
<1>1. Originals(f, hits, r) =
        { e \in DocsOf(hits) : e \in defines /\ e.text # None =>
            ~\E g \in defines : g.name = e.name /\ g.text = e.text /\ Better(f, g, e) }
  BY DEF Originals, Defines
<1>2. defines \subseteq DocsOf(hits)
  BY DEF Defines, DocsOf
<1> HIDE DEF defines
<1>3. CASE d \in Originals(f, hits, r)
  BY <1>3 DEF Stands
<1>4. CASE d \notin Originals(f, hits, r)
  <2> DEFINE class == { g \in defines : g.name = d.name /\ g.text = d.text }
  <2>1. d \in class
    BY <1>1, <1>4
  <2>2. Scored(f, class)
    BY <1>2 DEF Scored
  <2>3. PICK e \in class : \A g \in class : g = e \/ Better(f, e, g)
    <3> HIDE DEF class
    <3> QED
      BY <2>1, <2>2, BestOfAll
  <2>4. \A g \in class : ~Better(f, g, e)
    <3> HIDE DEF class
    <3> QED
      BY <2>2, <2>3, BetterIsAnOrder
  <2>5. e \in Originals(f, hits, r)
    BY <1>1, <1>2, <2>4
  <2> QED
    BY <2>5 DEF Stands
<1> QED
  BY <1>3, <1>4

\* Folding copies drops none but the worse, so the best file of all stays.
LEMMA OriginalsKeepBest ==
    ASSUME NEW hits, NEW f, DOMAIN f = DocsOf(hits), Scored(f, DocsOf(hits)), NEW r, hits # {}
    PROVE  \E d \in Originals(f, hits, r) : \A e \in DocsOf(hits) : e = d \/ Better(f, d, e)
<1>1. DocsOf(hits) # {}
  BY DEF DocsOf
<1>2. PICK d \in DocsOf(hits) : \A e \in DocsOf(hits) : e = d \/ Better(f, d, e)
  BY <1>1, BestOfAll
<1>3. \A e \in DocsOf(hits) : ~Better(f, e, d)
  BY <1>2, BetterIsAnOrder
<1>4. Defines(hits, r) \subseteq DocsOf(hits)
  BY DEF Defines, DocsOf
<1>5. d \in Originals(f, hits, r)
  BY <1>3, <1>4 DEF Originals, Defines
<1> QED
  BY <1>2, <1>5

LEMMA OriginalsAreFound ==
    ASSUME NEW hits, NEW f, DOMAIN f = DocsOf(hits), NEW r
    PROVE  Originals(f, hits, r) \subseteq DocsOf(hits)
BY DEF Originals

-----------------------------------------------------------------------------
(* What an answer leaves out.                                              *)

PlacesOf(list) == { list[i].doc : i \in DOMAIN list }

\* What an output pays for its neighbours is a number.
LEMMA DiscountType ==
    ASSUME NEW A, NEW list \in Seq(A), NEW d, NEW penalty \in Int
    PROVE  Discount(list, d, penalty) \in Int
<1> DEFINE neighbours == Cardinality({ i \in DOMAIN list : list[i].doc.dir = d.dir })
<1>1. neighbours \in Nat
  <2>1. DOMAIN list = 1..Len(list) /\ Len(list) \in Nat
    OBVIOUS
  <2>2. IsFiniteSet(1..Len(list))
    BY <2>1, FS_Interval
  <2>3. IsFiniteSet({ i \in DOMAIN list : list[i].doc.dir = d.dir })
    BY <2>1, <2>2, FS_Subset
  <2> QED
    BY <2>3, FS_CardinalityType
<1>2. Discount(list, d, penalty) =
        IF d.kind = "output" THEN penalty * neighbours ELSE IF neighbours = 0 THEN 0 ELSE Same
  BY DEF Discount
<1> HIDE DEF neighbours
<1>3. penalty * neighbours \in Int /\ Same \in Int
  BY <1>1 DEF Same
<1> QED
  BY <1>2, <1>3

\* A place more is taken by a file that had none, as long as there is one; the first by
\* the best.
LEMMA MoreAdds ==
    ASSUME NEW f, NEW S, Scored(f, S), NEW penalty \in Int, NEW sofar, ListOf(sofar, S)
    PROVE  \/ S \subseteq PlacesOf(sofar) /\ More(f, S, penalty, sofar) = sofar
           \/ \E d \in S : /\ Len(More(f, S, penalty, sofar)) = Len(sofar) + 1
                           /\ PlacesOf(sofar) \subseteq PlacesOf(More(f, S, penalty, sofar))
                           /\ sofar = << >> =>
                                /\ More(f, S, penalty, sofar)[1].doc = d
                                /\ \A e \in S : e = d \/ Better(f, d, e)
                           /\ sofar # << >> => More(f, S, penalty, sofar)[1] = sofar[1]
<1> DEFINE left == S \ PlacesOf(sofar)
           worth == [d \in left |-> f[d] - Discount(sofar, d, penalty)]
           best == Best(worth, left, 1)
           new == { [doc |-> d, score |-> worth[d]] : d \in best }
<1>1. More(f, S, penalty, sofar) = sofar \o SetToSeq(new)
  BY DEF More, PlacesOf
<1>2. PICK A : sofar \in Seq(A) /\ \A a \in A : a.doc \in S
  BY DEF ListOf
<1>3. \A d \in left : worth[d] = f[d] - Discount(sofar, d, penalty) /\ worth[d] \in Int
  <2>1. \A d \in left : f[d] \in Int /\ Discount(sofar, d, penalty) \in Int
    BY <1>2, DiscountType DEF Scored
  <2> QED
    BY <2>1
<1> HIDE DEF worth
<1>4. Scored(worth, left)
  BY <1>3 DEF Scored
<1>5. CASE left = {}
  <2>1. best = {}
    BY <1>5, BestIsPart
  <2>2. new = {}
    BY <2>1
  <2>3. SetToSeq({}) \in Seq({}) /\ Len(SetToSeq({})) = 0
    BY SetAsSequence, FS_EmptySet
  <2>4. SetToSeq({}) = << >>
    BY <2>3
  <2>5. sofar \o << >> = sofar
    BY <1>2
  <2> QED
    BY <1>1, <1>5, <2>2, <2>4, <2>5
<1>6. CASE left # {}
  <2>1. PICK d \in left : best = {d} /\ \A e \in left : e = d \/ Better(worth, d, e)
    <3> HIDE DEF left
    <3> QED
      BY <1>4, <1>6, BestOfAll
  <2> DEFINE one == [doc |-> d, score |-> worth[d]]
  <2>2. new = {one}
    BY <2>1
  <2>3. one.doc = d
    OBVIOUS
  <2> HIDE DEF one
  <2>4. SetToSeq({one}) \in Seq({one}) /\ Len(SetToSeq({one})) = 1
    BY SetAsSequence, FS_Singleton
  <2>5. SetToSeq({one})[1] = one
    BY <2>4
  <2> DEFINE more == sofar \o SetToSeq({one})
  <2>6. more = More(f, S, penalty, sofar)
    BY <1>1, <2>2
  <2>7. /\ more \in Seq(A \cup {one}) /\ Len(more) = Len(sofar) + 1
        /\ \A i \in 1..Len(sofar) : more[i] = sofar[i]
        /\ more[Len(sofar) + 1] = one
    <3> DEFINE new1 == SetToSeq({one})
    <3> HIDE DEF new1
    <3>1. new1 \in Seq(A \cup {one}) /\ Len(new1) = 1 /\ new1[1] = one /\ sofar \in Seq(A \cup {one})
      BY <1>2, <2>4, <2>5 DEF new1
    <3>2. more = sofar \o new1
      BY DEF new1
    <3> HIDE DEF more
    <3>3. Len(sofar) \in Nat
      BY <1>2
    <3>4. /\ more \in Seq(A \cup {one}) /\ Len(more) = Len(sofar) + Len(new1)
          /\ \A i \in 1..(Len(sofar) + Len(new1)) : more[i] = IF i <= Len(sofar) THEN sofar[i] ELSE new1[i - Len(sofar)]
      BY <3>1, <3>2, ConcatProperties
    <3>5. \A i \in 1..Len(sofar) : more[i] = sofar[i]
      BY <3>1, <3>3, <3>4
    <3>6. more[Len(sofar) + 1] = one
      <4>1. (Len(sofar) + 1) - Len(sofar) = 1 /\ Len(sofar) + 1 \in 1..(Len(sofar) + 1) /\ ~(Len(sofar) + 1 <= Len(sofar))
        BY <3>3
      <4> QED
        BY <3>1, <3>4, <4>1
    <3> QED
      BY <3>1, <3>4, <3>5, <3>6
  <2> HIDE DEF more
  <2>8. PlacesOf(sofar) \subseteq PlacesOf(more)
    <3>1. DOMAIN sofar = 1..Len(sofar) /\ DOMAIN more = 1..(Len(sofar) + 1) /\ Len(sofar) \in Nat
      BY <1>2, <2>7
    <3>2. \A i \in DOMAIN sofar : i \in DOMAIN more /\ sofar[i] = more[i]
      BY <2>7, <3>1
    <3> QED
      BY <3>2 DEF PlacesOf
  <2>9. ASSUME sofar = << >>
        PROVE  more[1].doc = d /\ \A e \in S : e = d \/ Better(f, d, e)
    <3>1. more[1].doc = d
      BY <2>3, <2>7, <2>9
    <3>2. left = S
      BY <2>9 DEF PlacesOf
    <3>3. ASSUME NEW e \in S  PROVE worth[e] = f[e]
      <4>1. { i \in DOMAIN sofar : sofar[i].doc.dir = e.dir } = {}
        BY <2>9
      <4>2. Cardinality({}) = 0
        BY FS_EmptySet
      <4> DEFINE n == Cardinality({ i \in DOMAIN sofar : sofar[i].doc.dir = e.dir })
      <4>3. n = 0
        BY <4>1, <4>2
      <4>4. Discount(sofar, e, penalty) = IF e.kind = "output" THEN penalty * n ELSE IF n = 0 THEN 0 ELSE Same
        BY DEF Discount
      <4> HIDE DEF n
      <4>5. Discount(sofar, e, penalty) = 0
        BY <4>3, <4>4
      <4> QED
        BY <1>3, <3>2, <4>5 DEF Scored
    <3>4. \A e \in S : e = d \/ Better(worth, d, e)
      BY <2>1, <3>2
    <3>5. \A e \in S : Better(worth, d, e) => Better(f, d, e)
      BY <3>2, <3>3 DEF Better
    <3> QED
      BY <3>1, <3>4, <3>5
  <2>10. sofar # << >> => more[1] = sofar[1]
    <3>1. sofar # << >> => 1 \in 1..Len(sofar)
      BY <1>2
    <3> QED
      BY <2>7, <3>1
  <2> QED
    BY <2>6, <2>7, <2>8, <2>9, <2>10
<1> QED
  BY <1>5, <1>6

\* The places are filled, or nothing is left out; and the first is the best.
Covers(f, S, list, n) ==
    /\ Len(list) = n \/ (S \subseteq PlacesOf(list) /\ (S # {} => list # << >>))
    /\ list # << >> => \E d \in S : list[1].doc = d /\ \A e \in S : e = d \/ Better(f, d, e)

\* Spreading fills the places as long as there are files.
LEMMA SpreadCovers ==
    ASSUME NEW f, NEW S, Scored(f, S), NEW limit \in Nat, NEW penalty \in Int
    PROVE  Covers(f, S, Spread(f, S, limit, penalty), limit)
<1>1. PICK chosen : SpreadBy(f, S, limit, penalty, chosen)
  BY SpreadSteps
<1> DEFINE U == { k \in Nat : k \in 0..limit => ListOf(chosen[k], S) /\ Covers(f, S, chosen[k], k) }
<1>2. 0 \in U
  <2>1. << >> \in Seq({d \in S : FALSE}) /\ \A a \in {d \in S : FALSE} : a.doc \in S
    OBVIOUS
  <2>2. \E A : << >> \in Seq(A) /\ \A a \in A : a.doc \in S
    <3> WITNESS {d \in S : FALSE}
    <3> QED
      BY <2>1
  <2>3. Covers(f, S, << >>, 0)
    BY DEF Covers
  <2> QED
    BY <1>1, <2>2, <2>3 DEF ListOf, SpreadBy
<1>3. ASSUME NEW k \in Nat, k \in U  PROVE k + 1 \in U
  <2>1. SUFFICES ASSUME k + 1 \in 0..limit
                 PROVE  ListOf(chosen[k + 1], S) /\ Covers(f, S, chosen[k + 1], k + 1)
    OBVIOUS
  <2>2. k + 1 \in 1..limit /\ (k + 1) - 1 = k /\ k \in 0..limit
    BY <2>1
  <2>3. chosen[k + 1] = More(f, S, penalty, chosen[k])
    BY <1>1, <2>2 DEF SpreadBy
  <2>4. ListOf(chosen[k], S) /\ Covers(f, S, chosen[k], k)
    BY <1>3, <2>2
  <2>5. IsFiniteSet(S)
    BY BetterIsAnOrder
  <2>6. ListOf(chosen[k + 1], S)
    BY <2>3, <2>4, <2>5, MoreOf
  <2> DEFINE old == chosen[k]
             new == chosen[k + 1]
  <2>7. Len(old) \in Nat /\ Len(new) \in Nat /\ (old = << >> <=> Len(old) = 0) /\ (new = << >> <=> Len(new) = 0)
    BY <2>4, <2>6 DEF ListOf
  <2>8. CASE S \subseteq PlacesOf(old) /\ new = old
    <3>1. S # {} => old # << >>
      BY <2>8 DEF PlacesOf
    <3> QED
      BY <2>4, <2>6, <2>8, <3>1 DEF Covers
  <2>9. CASE \E d \in S : /\ Len(new) = Len(old) + 1
                          /\ PlacesOf(old) \subseteq PlacesOf(new)
                          /\ old = << >> => /\ new[1].doc = d
                                            /\ \A e \in S : e = d \/ Better(f, d, e)
                          /\ old # << >> => new[1] = old[1]
    <3> HIDE DEF old, new
    <3>1. Covers(f, S, old, k) /\ ListOf(new, S)
      BY <2>4, <2>6 DEF old, new
    <3>2. Len(old) = k => Len(new) = k + 1
      BY <2>7, <2>9
    <3>3. new # << >>
      BY <2>7, <2>9
    <3>4. Covers(f, S, new, k + 1)
      BY <2>9, <3>1, <3>2, <3>3 DEF Covers
    <3> QED
      BY <3>1, <3>4 DEF new
  <2> QED
    BY <2>3, <2>4, <2>8, <2>9, MoreAdds
<1> HIDE DEF U
<1>4. limit \in U
  BY <1>2, <1>3, SetInduction
<1> QED
  BY <1>1, <1>4 DEF U, SpreadBy

\* An answer is full, or nothing that was given is missing; and the best comes first.
LEMMA AnswerCovers ==
    ASSUME NEW hits, HitsRight(hits), NEW r \in Requests
    PROVE  /\ \/ Len(Answer(hits, r)) = r.limit
              \/ \A d \in DocsOf(hits) : \E e \in PlacesOf(Answer(hits, r)) : Stands(e, d)
           /\ hits # {} =>
                /\ Answer(hits, r) # << >>
                /\ Answer(hits, r)[1].doc \in DocsOf(hits)
                /\ \A e \in DocsOf(hits) : Ranked(hits, r)[Answer(hits, r)[1].doc] >= Ranked(hits, r)[e]
<1> DEFINE score == Ranked(hits, r)
           kept == Originals(score, hits, r)
           low == { d \in DOMAIN score : score[d] < Unit \div 2 }
           ordinary == { score[d] : d \in low }
           all == {Same} \cup { x \div 10 : x \in ordinary }
           penalty == Max(all)
           list == Answer(hits, r)
<1>1. list = Spread(score, kept, r.limit, penalty)
  BY DEF Answer
<1>2. /\ DOMAIN score = DocsOf(hits) /\ Scored(score, DocsOf(hits)) /\ DocsOf(hits) \subseteq Docs
      /\ \A d \in DocsOf(hits) : score[d] \in Nat
  BY RankedScored
<1>3. penalty \in Int
  <2> HIDE DEF score
  <2> DEFINE tenth == [d \in low |-> score[d] \div 10]
             tenths == { tenth[d] : d \in DOMAIN tenth }
  <2>1. IsFiniteSet(DOMAIN tenth)
    BY <1>2, CollectionIsFinite, FS_Subset
  <2>2. IsFiniteSet(tenths)
    <3> HIDE DEF tenth
    <3> QED
      BY <2>1, ImageIsFinite
  <2>3. tenths \subseteq Int
    BY <1>2
  <2>4. all = {Same} \cup tenths
    OBVIOUS
  <2> HIDE DEF all, tenth, tenths
  <2>5. IsFiniteSet(all)
    BY <2>2, <2>4, FS_Singleton, FS_Union
  <2>6. all \subseteq Int /\ all # {}
    BY <2>3, <2>4 DEF Same
  <2>7. \E m \in all : \A x \in all : m >= x
    BY <2>5, <2>6, Greatest
  <2>8. Max(all) \in all
    BY <2>7 DEF Max
  <2> QED
    BY <2>6, <2>8
<1>4. kept \subseteq DocsOf(hits)
  BY <1>2, OriginalsAreFound
<1>5. Scored(score, kept)
  BY <1>2, <1>4 DEF Scored
<1>6. r.limit \in Nat /\ r.limit > 0
  BY WindowsArePositive
<1> HIDE DEF penalty, list
<1>7. Covers(score, kept, list, r.limit)
  <2> HIDE DEF score, kept
  <2> QED
    BY <1>1, <1>3, <1>5, <1>6, SpreadCovers
<1>8. ASSUME Len(list) # r.limit, NEW d \in DocsOf(hits)
      PROVE  \E e \in PlacesOf(list) : Stands(e, d)
  <2> HIDE DEF score
  <2>1. kept \subseteq PlacesOf(list)
    BY <1>7, <1>8 DEF Covers
  <2>2. PICK e \in kept : Stands(e, d)
    BY <1>2, OriginalsStand
  <2> QED
    BY <2>1, <2>2
<1>9. ASSUME hits # {}
      PROVE  list # << >> /\ list[1].doc \in DocsOf(hits) /\ \A e \in DocsOf(hits) : score[list[1].doc] >= score[e]
  <2> HIDE DEF score
  <2>1. PICK b \in kept : \A e \in DocsOf(hits) : e = b \/ Better(score, b, e)
    BY <1>2, <1>9, OriginalsKeepBest
  <2>2. list # << >>
    BY <1>6, <1>7, <2>1 DEF Covers
  <2>3. PICK d \in kept : list[1].doc = d /\ \A e \in kept : e = d \/ Better(score, d, e)
    BY <1>7, <2>2 DEF Covers
  <2>4. b = d
    <3> HIDE DEF kept
    <3> QED
      BY <1>2, <1>4, <2>1, <2>3, BetterIsAnOrder
  <2>5. \A e \in DocsOf(hits) : score[d] >= score[e]
    BY <1>2, <1>4, <2>1, <2>4 DEF Better
  <2> QED
    BY <1>4, <2>2, <2>3, <2>5
<1> QED
  BY <1>8, <1>9 DEF list

-----------------------------------------------------------------------------
(* What the last answer was made of.                                       *)

PartOf(s, answering) == ShardHits(world[s], Hidden[s], last.request, s \in answering)
UnionOf(answering) == UNION { PartOf(s, answering) : s \in Shards }

\* A hit of a shard tells what the shard gives.
HandsOver(hits, w, hidden, r, answers) ==
    /\ \A d \in Given(w, hidden, r, answers) :
         \E h \in hits : h.doc = d /\ h.score = ScoreOf(w, hidden, r, answers)[d]
    /\ \A h \in hits :
         /\ h.doc \in Given(w, hidden, r, answers) /\ h.doc \in Docs
         /\ h.boost = BoostOf(w, hidden, r, answers, h.doc) /\ h.boost \in Nat
         /\ h.score \in Nat /\ h.score <= h.boost + FusedMost
    /\ IsFiniteSet(hits)

\* A shard hands over what it gives, with its score and boost.
LEMMA HitOfShard ==
    ASSUME NEW w \in Lookups, NEW hidden, NEW r, NEW answers
    PROVE  HandsOver(ShardHits(w, hidden, r, answers), w, hidden, r, answers)
<1> DEFINE given == Given(w, hidden, r, answers)
           score == ScoreOf(w, hidden, r, answers)
           boost(d) == BoostOf(w, hidden, r, answers, d)
           hit == [d \in given |-> HitOf(w, hidden, r, answers, d)]
           hits == ShardHits(w, hidden, r, answers)
<1>1. \A d : /\ HitOf(w, hidden, r, answers, d).doc = d /\ HitOf(w, hidden, r, answers, d).score = score[d]
             /\ HitOf(w, hidden, r, answers, d).boost = boost(d)
  BY DEF HitOf
<1>2. hits = { hit[d] : d \in DOMAIN hit }
  BY ShardHitsParts
<1>3. given \subseteq Docs
  <2>1. given \subseteq MayShow(w, hidden, r, answers)
    BY BestIsPart DEF Given, Distinct
  <2> QED
    BY <2>1, ShownIsScored
<1>4. DOMAIN hit = given /\ \A d \in given : hit[d].doc = d /\ hit[d].score = score[d] /\ hit[d].boost = boost(d)
  BY <1>1
<1>5. IsFiniteSet(DOMAIN hit)
  BY <1>3, <1>4, CollectionIsFinite, FS_Subset
<1>6. \A d \in given : score[d] \in Nat /\ score[d] <= boost(d) + FusedMost /\ boost(d) \in Nat
  BY <1>3, ScoreParts, BoostOfFile
<1> HIDE DEF hit, given, score, hits, boost
<1>7. IsFiniteSet(hits)
  BY <1>2, <1>5, ImageIsFinite
<1>8. \A d \in given : \E h \in hits : h.doc = d /\ h.score = score[d]
  BY <1>2, <1>4
<1>9. \A h \in hits : /\ h.doc \in given /\ h.doc \in Docs
                      /\ h.boost = boost(h.doc) /\ h.boost \in Nat
                      /\ h.score \in Nat /\ h.score <= h.boost + FusedMost
  BY <1>2, <1>3, <1>4, <1>6
<1> QED
  BY <1>7, <1>8, <1>9 DEF hits, given, score, boost, HandsOver

\* A shard hands over what it holds and may show.
LEMMA HitsMayBeShown ==
    ASSUME NEW w \in Lookups, NEW hidden, NEW r, NEW answers,
           NEW h \in ShardHits(w, hidden, r, answers)
    PROVE  h.doc \in Docs /\ h.doc \notin hidden /\ Held(w, h.doc)
<1>1. h.doc \in Given(w, hidden, r, answers)
  BY HitOfShard DEF HandsOver
<1>2. Given(w, hidden, r, answers) \subseteq MayShow(w, hidden, r, answers)
  BY BestIsPart DEF Given, Distinct
<1>3. h.doc \in Docs /\ Held(w, h.doc) /\ Shown(h.doc, hidden, r)
  BY <1>1, <1>2, ShownIsScored
<1> QED
  BY <1>3 DEF Shown

\* So does the union of all shards.
LEMMA UnionIsRight ==
    ASSUME world \in [Shards -> Lookups], NEW answering
    PROVE  /\ HitsRight(UnionOf(answering))
           /\ \A h \in UnionOf(answering) : \E s \in Shards : h \in PartOf(s, answering)
<1>1. ASSUME NEW s \in Shards
      PROVE  /\ IsFiniteSet(PartOf(s, answering))
             /\ \A h \in PartOf(s, answering) : h.doc \in Docs /\ h.boost \in Nat /\ h.score \in Nat
  <2>1. world[s] \in Lookups
    OBVIOUS
  <2> QED
    BY <2>1, HitOfShard DEF PartOf, HandsOver
<1> DEFINE part == [s \in Shards |-> PartOf(s, answering)]
           parts == { part[s] : s \in DOMAIN part }
<1>2. UnionOf(answering) = UNION parts
  BY DEF UnionOf
<1>3. DOMAIN part = Shards /\ \A s \in Shards : part[s] = PartOf(s, answering)
  OBVIOUS
<1> HIDE DEF part
<1>4. IsFiniteSet(parts)
  BY <1>3, CollectionIsFinite, ImageIsFinite
<1>5. \A T \in parts : IsFiniteSet(T)
  BY <1>1, <1>3
<1>6. IsFiniteSet(UNION parts)
  <2> HIDE DEF parts
  <2> QED
    BY <1>4, <1>5, FS_UNION
<1>7. \A h \in UNION parts : \E s \in Shards : h \in PartOf(s, answering)
  BY <1>3
<1> HIDE DEF parts
<1> QED
  BY <1>1, <1>2, <1>6, <1>7 DEF HitsRight

\* The last answer is one of the union of what the shards give now.
LEMMA LastAnswer ==
    ASSUME RankingInv, Fresh
    PROVE  /\ last.request \in Requests /\ world \in [Shards -> Lookups]
           /\ \E answering \in SUBSET Shards : last.hits = Answer(UnionOf(answering), last.request)
<1>1. last.request \in Requests /\ world \in [Shards -> Lookups]
  BY DEF RankingInv, Typed, Fresh
<1>2. PICK answering \in SUBSET Shards :
        last.hits = Answer(UNION { ShardHits(world[s], Hidden[s], last.request, s \in answering) : s \in Shards }, last.request)
  BY DEF RankingInv, AnswersCurrent
<1>3. last.hits = Answer(UnionOf(answering), last.request)
  BY <1>2 DEF UnionOf, PartOf
<1> QED
  BY <1>1, <1>3

\* What a shard may not show is not shown on its word, by whichever lookup it was found, and
\* is not among what the shard hands over, be it worked out or remembered.
THEOREM HiddenNeverShown == Spec => []HiddenStaysHidden
<1>1. ASSUME RankingInv, Fresh, NEW d \in Hits
      PROVE  \E s \in Shards : d \in Holds(s) \ Hidden[s]
  <2>1. /\ last.request \in Requests /\ world \in [Shards -> Lookups]
        /\ \E answering \in SUBSET Shards : last.hits = Answer(UnionOf(answering), last.request)
    BY <1>1, LastAnswer
  <2>2. PICK answering \in SUBSET Shards : last.hits = Answer(UnionOf(answering), last.request)
    BY <2>1
  <2> DEFINE hits == UnionOf(answering)
  <2>3. HitsRight(hits) /\ \A h \in hits : \E s \in Shards : h \in PartOf(s, answering)
    BY <2>1, UnionIsRight
  <2> HIDE DEF hits
  <2>4. { h.doc : h \in hits } \subseteq Docs
    BY <2>3 DEF HitsRight
  <2>5. ListOf(last.hits, { h.doc : h \in hits })
    BY <2>1, <2>2, <2>4, AnswerOf DEF hits
  <2>6. d \in { h.doc : h \in hits }
    BY <1>1, <2>5 DEF Hits, ListOf
  <2>7. PICK h \in hits : d = h.doc
    BY <2>6
  <2>8. PICK s \in Shards : h \in ShardHits(world[s], Hidden[s], last.request, s \in answering)
    BY <2>3 DEF PartOf
  <2>9. world[s] \in Lookups
    BY <2>1
  <2>10. h.doc \notin Hidden[s] /\ h.doc \in Docs /\ Held(world[s], h.doc)
    BY <2>8, <2>9, HitsMayBeShown
  <2> QED
    BY <2>7, <2>10 DEF Held, Holds
<1>2. ASSUME RankingInv, NEW s \in Shards, NEW i \in DOMAIN cache[s], cache[s][i].key[1] = generation[s],
             NEW h \in cache[s][i].hits
      PROVE  h.doc \notin Hidden[s]
  <2>1. Kept(s, cache[s][i]) /\ world[s] \in Lookups
    BY <1>2 DEF RankingInv, CacheRight, Typed
  <2>2. PICK answers \in BOOLEAN : cache[s][i].hits = ShardHits(world[s], Hidden[s], cache[s][i].key[2], answers)
    BY <1>2, <2>1 DEF Kept, Current
  <2> QED
    BY <1>2, <2>1, <2>2, HitsMayBeShown
<1>3. RankingInv => HiddenStaysHidden
  BY <1>1, <1>2 DEF HiddenStaysHidden
<1> QED
  BY <1>3, RankingInvariance, PTL

\* What every shard hands over with or without the embedding process is in the answer.
LEMMA GivenIsAnswered ==
    ASSUME RankingInv, Fresh, ~Full, NEW s \in Shards, NEW d,
           \A answers : d \in Given(world[s], Hidden[s], last.request, answers)
    PROVE  \E e \in Hits : e = d \/ (e.name = d.name /\ e.text = d.text)
<1>1. /\ last.request \in Requests /\ world \in [Shards -> Lookups]
      /\ \E answering \in SUBSET Shards : last.hits = Answer(UnionOf(answering), last.request)
  BY LastAnswer
<1>2. PICK answering \in SUBSET Shards : last.hits = Answer(UnionOf(answering), last.request)
  BY <1>1
<1> DEFINE hits == UnionOf(answering)
           r == last.request
<1>3. HitsRight(hits)
  BY <1>1, UnionIsRight
<1>4. d \in DocsOf(hits)
  <2>1. world[s] \in Lookups /\ d \in Given(world[s], Hidden[s], r, s \in answering)
    BY <1>1
  <2>2. \E h \in ShardHits(world[s], Hidden[s], r, s \in answering) : h.doc = d
    BY <2>1, HitOfShard DEF HandsOver
  <2>3. PICK h \in PartOf(s, answering) : h.doc = d
    BY <2>2 DEF PartOf
  <2>4. h \in hits
    BY DEF UnionOf
  <2> QED
    BY <2>3, <2>4 DEF DocsOf
<1>5. Len(last.hits) # r.limit
  BY DEF Full
<1> HIDE DEF hits, r
<1>6. \/ Len(Answer(hits, r)) = r.limit
      \/ \A x \in DocsOf(hits) : \E e \in PlacesOf(Answer(hits, r)) : Stands(e, x)
  BY <1>1, <1>3, AnswerCovers DEF r
<1>7. last.hits = Answer(hits, r)
  BY <1>2 DEF hits, r
<1>8. PICK e \in PlacesOf(last.hits) : Stands(e, d)
  BY <1>4, <1>5, <1>6, <1>7
<1> QED
  BY <1>8 DEF Hits, PlacesOf, Stands

-----------------------------------------------------------------------------

LEMMA FitsIsHeld ==
    ASSUME NEW s \in Shards, Fits(s)
    PROVE  Cardinality({ d \in Docs : Held(world[s], d) /\ Shown(d, Hidden[s], last.request) }) <= ShardLimit
<1>1. { d \in Docs : Held(world[s], d) /\ Shown(d, Hidden[s], last.request) }
        = { d \in Holds(s) : Shown(d, Hidden[s], last.request) }
  BY DEF Held, Holds
<1> QED
  BY <1>1 DEF Fits

\* A definition that is asked for by its name is found whatever the windows hold, and each
\* different text of it is shown: the name is looked up beside the windows, its hits are
\* not cut, and only a copy takes its place.
THEOREM NamedAreFound == Spec => []NamedFound
<1>1. RankingInv => NamedFound
  <2> DEFINE r == last.request
  <2>1. SUFFICES ASSUME RankingInv, Fresh, ~Full, NEW s \in Shards, NEW d \in world[s].named \ Hidden[s],
                        d.kind = "source", r.kind \in {None, "source"}, InScope(d, r), InPrefix(d, r), Fits(s)
                 PROVE  \E e \in Hits : e = d \/ (e.name = d.name /\ e.text = d.text)
    BY DEF NamedFound
  <2>2. world[s] \in Lookups /\ d \in Docs
    BY <2>1, LastAnswer DEF Lookups
  <2>3. Shown(d, Hidden[s], r)
    BY <2>1 DEF Shown
  <2>4. d.kind \notin {"instructions", "memory"}
    BY <2>1
  <2> HIDE DEF r
  <2>5. ASSUME NEW answers  PROVE d \in Given(world[s], Hidden[s], r, answers)
    <3>1. d \in MayShow(world[s], Hidden[s], r, answers)
      BY <2>1, <2>3 DEF MayShow
    <3>2. Cardinality({ e \in Docs : Held(world[s], e) /\ Shown(e, Hidden[s], r) }) <= ShardLimit
      BY <2>1, FitsIsHeld DEF r
    <3> QED
      BY <2>2, <2>4, <3>1, <3>2, GivenWhereItFits
  <2> QED
    BY <2>1, <2>5, GivenIsAnswered DEF r
<1> QED
  BY <1>1, RankingInvariance, PTL

\* Child scopes filter candidates before the windows: what lies outside of a child scope,
\* however relevant, takes no place from a file inside that a lookup can see.
THEOREM ScopesFilterFirst == Spec => []ScopeBeforeWindow
<1>1. RankingInv => ScopeBeforeWindow
  <2> DEFINE r == last.request
             visible(s) == { e \in Docs \ Hidden[s] :
                               /\ world[s].raw[e] > 0 \/ e \in world[s].literal
                               /\ InScope(e, r) \/ e.kind \in {"instructions", "memory"} }
  <2>1. SUFFICES ASSUME RankingInv, Fresh, Child(r), ~Full, NEW s \in Shards, NEW d \in Docs,
                        d \in visible(s), Cardinality(visible(s)) <= Window, Fits(s),
                        d.kind \in {"source", "output"}, r.kind \in {None, d.kind},
                        InScope(d, r), InPrefix(d, r)
                 PROVE  \E e \in Hits : e = d \/ (e.name = d.name /\ e.text = d.text)
    BY DEF ScopeBeforeWindow
  <2>2. world[s] \in Lookups
    BY <2>1, LastAnswer
  <2>3. d.kind \notin {"instructions", "memory"}
    BY <2>1
  <2>4. d \in Docs \ Hidden[s] /\ (world[s].raw[d] > 0 \/ d \in world[s].literal)
    BY <2>1
  <2>5. Shown(d, Hidden[s], r)
    BY <2>1, <2>3, <2>4 DEF Shown
  <2> HIDE DEF r
  <2> DEFINE found == Seen(world[s], Hidden[s], r, FALSE)
  <2>6. found \subseteq visible(s)
    BY <2>1 DEF Seen, FoundBy, Confined, Child, InScope
  <2>7. d \in FoundBy(Hidden[s], r, FALSE)
    BY <2>1, <2>3, <2>4 DEF FoundBy, Confined, Child, InScope
  <2>8. Cardinality(found) <= Window
    <3>1. IsFiniteSet(visible(s)) /\ Window \in Nat
      BY CollectionIsFinite, FS_Subset, WindowsArePositive
    <3>2. Cardinality(visible(s)) <= Window
      BY <2>1
    <3> HIDE DEF visible, found
    <3>3. Cardinality(found) <= Cardinality(visible(s)) /\ Cardinality(found) \in Nat /\ Cardinality(visible(s)) \in Nat
      BY <2>6, <3>1, FS_Subset, FS_CardinalityType
    <3> QED
      BY <3>1, <3>2, <3>3
  <2>9. PICK l \in Lanes : InLane(world[s], d, l, r)
    BY <2>3, <2>4 DEF InLane, Lanes
  <2>10. d \in OfFiles(world[s], Hidden[s], r).kept
    BY <2>2, <2>7, <2>8, <2>9, WindowHolds DEF OfFiles
  <2> HIDE DEF found, visible
  <2>11. ASSUME NEW answers  PROVE d \in Given(world[s], Hidden[s], r, answers)
    <3>1. d \in Merged(world[s], Hidden[s], r, answers)
      BY <2>2, <2>10, MergedIsAll DEF Candidates
    <3>2. d \in MayShow(world[s], Hidden[s], r, answers)
      BY <2>5, <3>1 DEF MayShow
    <3>3. Cardinality({ e \in Docs : Held(world[s], e) /\ Shown(e, Hidden[s], r) }) <= ShardLimit
      BY <2>1, FitsIsHeld DEF r
    <3> QED
      BY <2>2, <2>3, <3>2, <3>3, GivenWhereItFits
  <2> QED
    BY <2>1, <2>11, GivenIsAnswered DEF r
<1> QED
  BY <1>1, RankingInvariance, PTL

-----------------------------------------------------------------------------
(* Boosts and ranks.                                                       *)

\* Whatever a shard may show, its best hit has the score of that and more.
LEMMA ShownIsGiven ==
    ASSUME NEW w \in Lookups, NEW hidden, NEW r, NEW answers,
           NEW d \in MayShow(w, hidden, r, answers)
    PROVE  \E h \in ShardHits(w, hidden, r, answers) :
             h.score \in Nat /\ h.score >= BoostOf(w, hidden, r, answers, d)
<1> DEFINE score == ScoreOf(w, hidden, r, answers)
           shown == MayShow(w, hidden, r, answers)
           boost == BoostOf(w, hidden, r, answers, d)
<1>1. Scored(score, shown) /\ shown \subseteq Docs
  BY ShownIsScored
<1>2. ShardLimit \in Nat \ {0}
  BY WindowsArePositive
<1>3. PICK b \in shown : (\A e \in shown : e = b \/ Better(score, b, e)) /\ b \in Best(score, Distinct(score, shown), ShardLimit)
  <2> HIDE DEF score, shown
  <2>1. shown # {}
    BY DEF shown
  <2> QED
    BY <1>1, <1>2, <2>1, DistinctKeepsBest
<1>4. b \in Given(w, hidden, r, answers)
  BY <1>3 DEF Given
<1>5. PICK h \in ShardHits(w, hidden, r, answers) : h.doc = b /\ h.score = score[b]
  BY <1>4, HitOfShard DEF HandsOver
<1>6. boost \in Nat /\ score[d] >= boost /\ score[d] \in Nat /\ score[b] \in Nat
  BY <1>1, BoostOfFile, ScoreParts
<1>7. score[b] >= score[d]
  <2> HIDE DEF score, shown, boost
  <2>1. b = d \/ Better(score, b, d)
    BY <1>3 DEF shown
  <2> QED
    BY <1>6, <2>1 DEF Better
<1> HIDE DEF score, boost
<1>8. score[b] >= boost
  BY <1>6, <1>7
<1> QED
  BY <1>5, <1>6, <1>8 DEF boost

\* What the first hit was boosted by where it came from.
Boosted(top, least, answering) ==
    \E s \in Shards : BoostOf(world[s], Hidden[s], last.request, s \in answering, top) + FusedMost + LanesMost >= least

\* Whatever the ranks give, they make up for no boost: the first hit has one about as large
\* as the best score of any shard.
LEMMA FirstIsBoosted ==
    ASSUME world \in [Shards -> Lookups], NEW answering, last.request \in Requests,
           NEW h \in UnionOf(answering)
    PROVE  /\ Answer(UnionOf(answering), last.request) # << >>
           /\ Answer(UnionOf(answering), last.request)[1].doc \in Docs
           /\ Boosted(Answer(UnionOf(answering), last.request)[1].doc, h.score, answering)
<1> DEFINE hits == UnionOf(answering)
           r == last.request
           list == Answer(hits, r)
           score == Ranked(hits, r)
<1>1. HitsRight(hits) /\ \A g \in hits : \E s \in Shards : g \in PartOf(s, answering)
  BY UnionIsRight
<1>2. list # << >> /\ list[1].doc \in DocsOf(hits) /\ \A e \in DocsOf(hits) : score[list[1].doc] >= score[e]
  BY <1>1, AnswerCovers
<1>3. ASSUME NEW g \in hits
      PROVE  \E s \in Shards : /\ g.boost = BoostOf(world[s], Hidden[s], r, s \in answering, g.doc)
                               /\ g.boost \in Nat /\ g.doc \in Docs
                               /\ g.score \in Nat /\ g.score <= g.boost + FusedMost
  <2>1. PICK s \in Shards : g \in ShardHits(world[s], Hidden[s], r, s \in answering)
    BY <1>1, <1>3 DEF PartOf
  <2>2. world[s] \in Lookups
    OBVIOUS
  <2> QED
    BY <2>1, <2>2, HitOfShard DEF HandsOver
<1>4. \A d \in DocsOf(hits) : /\ score[d] \in Nat /\ score[d] >= HitFor(hits, d).boost
                              /\ score[d] <= HitFor(hits, d).boost + LanesMost
                              /\ HitFor(hits, d) \in hits /\ HitFor(hits, d).doc = d
                              /\ \A g \in hits : g.doc = d => HitFor(hits, d).score >= g.score
  BY <1>1, RankedScored, HitForPath DEF KeptHit
<1> HIDE DEF hits, r, list, score
<1> DEFINE k == HitFor(hits, h.doc)
           top == list[1].doc
           t == HitFor(hits, top)
<1>5. h \in hits /\ h.doc \in DocsOf(hits) /\ h.score \in Nat
  BY <1>3 DEF hits, DocsOf
<1>6. k \in hits /\ k.score >= h.score /\ score[h.doc] >= k.boost /\ score[h.doc] \in Nat
  BY <1>4, <1>5
<1>7. t \in hits /\ t.doc = top /\ score[top] <= t.boost + LanesMost /\ score[top] \in Nat /\ score[top] >= score[h.doc]
  BY <1>2, <1>4, <1>5
<1>8. k.score \in Nat /\ k.boost \in Nat /\ k.score <= k.boost + FusedMost
  BY <1>3, <1>6
<1>9. PICK s \in Shards : /\ t.boost = BoostOf(world[s], Hidden[s], r, s \in answering, top)
                          /\ t.boost \in Nat /\ top \in Docs
  BY <1>3, <1>7
<1> HIDE DEF k, t, top
<1>10. t.boost + FusedMost + LanesMost >= h.score
  BY <1>5, <1>6, <1>7, <1>8, <1>9, SMT DEF FusedMost, LanesMost
<1>11. Boosted(top, h.score, answering)
  BY <1>9, <1>10 DEF Boosted, r
<1> QED
  BY <1>2, <1>9, <1>11 DEF top, list, hits, r

\* What a boost of each size says of the first hit.
LEMMA BoostTells ==
    ASSUME world \in [Shards -> Lookups], NEW answering, NEW top \in Docs, NEW least \in Nat,
           Boosted(top, least, answering)
    PROVE  /\ least >= Unit => \E s \in Shards : Called(top, world[s].named, last.request) \/ top \in world[s].literal
           /\ least >= 2 * Unit => Deep(top) \/ \E s \in Shards : top \in world[s].literal
<1>1. PICK s \in Shards : BoostOf(world[s], Hidden[s], last.request, s \in answering, top) + FusedMost + LanesMost >= least
  BY DEF Boosted
<1> DEFINE boost == BoostOf(world[s], Hidden[s], last.request, s \in answering, top)
<1>2. world[s] \in Lookups
  OBVIOUS
<1>3. /\ boost \in Nat /\ boost + FusedMost + LanesMost >= least
      /\ ~Called(top, world[s].named, last.request) /\ top \notin world[s].literal => boost <= FavourMost
      /\ ~Deep(top) /\ top \notin world[s].literal => boost <= PlainMost
  BY <1>1, <1>2, BoostOfFile
<1> HIDE DEF boost
<1>4. least >= Unit => ~(boost <= FavourMost)
  BY <1>3, SMT DEF Unit, FusedMost, LanesMost, FavourMost
<1>5. least >= 2 * Unit => ~(boost <= PlainMost)
  BY <1>3, SMT DEF Unit, FusedMost, LanesMost, PlainMost
<1> QED
  BY <1>3, <1>4, <1>5

\* Where instructions apply to the place the question comes from and a lookup can see them,
\* the first hit is such an instruction, the definition asked for, or a file asked for by its
\* literal name: the boost outweighs whatever the ranks of all lanes add, in the shard and in
\* the reader.
THEOREM ApplicableComesFirst == Spec => []ApplicableFirst
<1>1. RankingInv => ApplicableFirst
  <2> DEFINE r == last.request
             applies == { d \in Docs : d.kind = "instructions" /\ Applicable(d, r) }
  <2>1. SUFFICES ASSUME RankingInv, Fresh, r.context # None, r.kind = None, NEW s \in Shards, NEW d \in applies,
                        d \notin Hidden[s], world[s].raw[d] > 0, Cardinality(Holds(s)) <= Window
                 PROVE  /\ last.hits # << >>
                        /\ \/ last.hits[1].doc \in applies
                           \/ \E t \in Shards : last.hits[1].doc \in world[t].named \cup world[t].literal
    BY DEF ApplicableFirst
  <2>2. /\ last.request \in Requests /\ world \in [Shards -> Lookups]
        /\ \E answering \in SUBSET Shards : last.hits = Answer(UnionOf(answering), last.request)
    BY <2>1, LastAnswer
  <2>3. PICK answering \in SUBSET Shards : last.hits = Answer(UnionOf(answering), last.request)
    BY <2>2
  <2>4. world[s] \in Lookups
    BY <2>2
  <2>5. d \in Docs /\ d.kind = "instructions" /\ Applicable(d, r)
    BY <2>1
  <2>6. Shown(d, Hidden[s], r)
    BY <2>1, <2>5 DEF Shown
  <2> DEFINE found == Seen(world[s], Hidden[s], r, FALSE)
  <2>7. d \in FoundBy(Hidden[s], r, FALSE)
    BY <2>1, <2>5 DEF FoundBy, Confined
  <2>8. found \subseteq Holds(s)
    BY DEF Seen, FoundBy, Holds
  <2>9. Cardinality(found) <= Window
    <3>1. IsFiniteSet(Holds(s)) /\ Window \in Nat
      BY CollectionIsFinite, FS_Subset, WindowsArePositive DEF Holds
    <3>2. Cardinality(Holds(s)) <= Window
      BY <2>1
    <3> HIDE DEF found
    <3>3. Cardinality(found) <= Cardinality(Holds(s)) /\ Cardinality(found) \in Nat /\ Cardinality(Holds(s)) \in Nat
      BY <2>8, <3>1, FS_Subset, FS_CardinalityType
    <3> QED
      BY <3>1, <3>2, <3>3
  <2>10. InLane(world[s], d, "agent", r) /\ "agent" \in Lanes
    BY <2>1, <2>5 DEF InLane, Lanes, WantsAgents
  <2>11. d \in OfFiles(world[s], Hidden[s], r).kept
    BY <2>4, <2>7, <2>9, <2>10, WindowHolds DEF OfFiles
  <2>12. Called(d, world[s].named, r)
    BY <2>5 DEF Called
  <2> HIDE DEF found
  <2> DEFINE boost == BoostOf(world[s], Hidden[s], r, s \in answering, d)
  <2>13. boost \in Nat /\ boost >= Unit
    BY <2>4, <2>5, <2>12, BoostOfFile
  <2>14. PICK h \in PartOf(s, answering) : h.score \in Nat /\ h.score >= boost
    <3>1. d \in Merged(world[s], Hidden[s], r, s \in answering)
      BY <2>4, <2>11, MergedIsAll DEF Candidates
    <3>2. d \in MayShow(world[s], Hidden[s], r, s \in answering)
      BY <2>6, <3>1 DEF MayShow
    <3> QED
      BY <2>4, <3>2, ShownIsGiven DEF PartOf
  <2>15. h \in UnionOf(answering)
    BY <2>14 DEF UnionOf
  <2> DEFINE top == last.hits[1].doc
  <2>16. last.hits # << >> /\ top \in Docs /\ Boosted(top, h.score, answering)
    BY <2>2, <2>3, <2>15, FirstIsBoosted
  <2> HIDE DEF boost, top
  <2>17. h.score \in Nat /\ h.score >= Unit
    BY <2>13, <2>14, SMT DEF Unit
  <2>18. PICK t \in Shards : Called(top, world[t].named, r) \/ top \in world[t].literal
    BY <2>2, <2>16, <2>17, BoostTells
  <2> QED
    BY <2>16, <2>18 DEF Called, top
<1> QED
  BY <1>1, RankingInvariance, PTL

\* A file asked for by its literal name keeps its place in the lookup, however many files are
\* more relevant.
LEMMA LiteralIsKept ==
    ASSUME NEW w \in Lookups, NEW hidden, NEW r,
           Cardinality({ e \in w.literal \ hidden : e.kind # "memory" /\ Confined(e, r) }) <= Window,
           NEW d \in w.literal \ hidden, d.kind # "memory", Confined(d, r)
    PROVE  /\ d \in OfFiles(w, hidden, r).kept
           /\ PathOf(w, hidden, r, d) >= 2 * Unit
<1> DEFINE asked == { e \in w.literal \ hidden : e.kind # "memory" /\ Confined(e, r) }
           lane == { e \in FoundBy(hidden, r, FALSE) : InLane(w, e, "exact_path", r) }
           lanes == InLanes(w, hidden, r, FALSE)
           score == ScoreIn(w, hidden, r, FALSE)
           ranks == Lookup(w, hidden, r, FALSE).ranks
           path == Lookup(w, hidden, r, FALSE).path
<1>1. asked \subseteq Docs /\ IsFiniteSet(asked) /\ Window \in Nat /\ Cardinality(asked) \in Nat /\ Cardinality(asked) <= Window
  <2>1. asked \subseteq Docs
    BY DEF Lookups
  <2>2. Cardinality(asked) <= Window
    OBVIOUS
  <2> HIDE DEF asked
  <2> QED
    BY <2>1, <2>2, CollectionIsFinite, FS_Subset, FS_CardinalityType, WindowsArePositive
<1>2. lane = asked
  BY DEF InLane, FoundBy, Lookups
<1>3. d \in asked
  OBVIOUS
<1> HIDE DEF asked
<1>4. LaneOf(w, hidden, r, FALSE, "exact_path") = Best(w.raw, asked, Window)
  BY <1>2 DEF LaneOf
<1> HIDE DEF lane
<1>5. Best(w.raw, asked, Window) = asked
  <2>1. Scored(w.raw, asked)
    BY <1>1 DEF Scored, Lookups
  <2> QED
    BY <1>1, <2>1, BestIsAll
<1>6. LaneOf(w, hidden, r, FALSE, "exact_path") = asked
  BY <1>4, <1>5
<1>7. asked \subseteq lanes
  BY <1>6 DEF InLanes, Lanes
<1>8. /\ \A e \in lanes : Small(ranks[e], LanesMost) /\ path[e] = Path(w, e, e \in asked, r)
      /\ lanes \subseteq Docs /\ lanes \subseteq Seen(w, hidden, r, FALSE)
      /\ Scored(score, lanes)
  <2>1. \A e \in lanes : Small(ranks[e], LanesMost) /\ PathIs(w, hidden, r, FALSE, e)
    BY LookupParts, Zenon
  <2>2. lanes \subseteq Docs /\ lanes \subseteq Seen(w, hidden, r, FALSE) /\ Scored(score, lanes)
    BY LookupParts, Zenon
  <2> QED
    BY <1>6, <2>1, <2>2 DEF PathIs
<1>9. Lookup(w, hidden, r, FALSE).kept = Best(score, lanes, Window)
  BY LookupParts, Zenon DEF WindowOf
<1>10. \A e \in lanes : score[e] = ranks[e] + path[e]
  BY DEF ScoreIn
<1> HIDE DEF lanes, score, ranks, path
<1>11. \A e \in lanes : e.kind # "memory"
  BY <1>8 DEF Seen, FoundBy
<1>12. ASSUME NEW e \in lanes
       PROVE  /\ score[e] \in Nat
              /\ e \in asked => score[e] >= 2 * Unit /\ path[e] >= 2 * Unit
              /\ e \notin asked => score[e] < 2 * Unit
  <2>1. e \in Docs /\ e.kind # "memory" /\ (e \in asked) \in BOOLEAN
    BY <1>8, <1>11
  <2>2. /\ path[e] \in Nat
        /\ e \notin asked => path[e] <= CoverageMost
        /\ e \in asked => path[e] >= 2 * Unit
    BY <1>8, <2>1, PathType
  <2>3. ranks[e] \in Nat /\ ranks[e] <= LanesMost /\ score[e] = ranks[e] + path[e]
    BY <1>8, <1>10 DEF Small
  <2> QED
    BY <2>2, <2>3, SMT DEF Unit, LanesMost, CoverageMost
<1> DEFINE better == { e \in lanes : Better(score, e, d) }
<1>13. d \in lanes
  BY <1>3, <1>7
<1>14. better \subseteq asked \ {d}
  <2>1. ASSUME NEW e \in lanes, Better(score, e, d)  PROVE e \in asked /\ e # d
    <3>1. score[e] >= score[d] /\ score[d] >= 2 * Unit /\ score[e] \in Nat /\ score[d] \in Nat
      BY <1>3, <1>12, <1>13, <2>1 DEF Better
    <3>2. e \in asked
      <4>1. ~(score[e] < 2 * Unit)
        BY <3>1, SMT DEF Unit
      <4> QED
        BY <1>12, <4>1
    <3>3. e # d
      BY <1>8, <2>1, BetterIsAnOrder
    <3> QED
      BY <3>2, <3>3
  <2> QED
    BY <2>1
<1>15. Cardinality(asked \ {d}) = Cardinality(asked) - 1 /\ IsFiniteSet(asked \ {d})
  BY <1>1, <1>3, FS_RemoveElement
<1>16. Rank(score, lanes, d) <= Window
  <2>1. Cardinality(better) <= Cardinality(asked \ {d}) /\ Cardinality(better) \in Nat
    <3> HIDE DEF better
    <3> QED
      BY <1>14, <1>15, FS_Subset, FS_CardinalityType
  <2>2. Rank(score, lanes, d) = 1 + Cardinality(better)
    BY DEF Rank
  <2> HIDE DEF better
  <2> QED
    BY <1>1, <1>15, <2>1, <2>2
<1>17. d \in OfFiles(w, hidden, r).kept
  BY <1>9, <1>13, <1>16 DEF Best, OfFiles
<1>18. PathOf(w, hidden, r, d) = path[d]
  BY <1>17 DEF PathOf, OfFiles, path
<1> QED
  BY <1>3, <1>12, <1>13, <1>17, <1>18

\* A file asked for by its literal name comes first, however many files the windows hold and
\* whatever instructions and definitions there are.
THEOREM LiteralComesFirst == Spec => []LiteralFirst
<1>1. RankingInv => LiteralFirst
  <2> DEFINE r == last.request
             literal(s) == { d \in world[s].literal \ Hidden[s] : d.kind # "memory" /\ Confined(d, r) }
  <2>1. SUFFICES ASSUME RankingInv, Fresh, NEW s \in Shards, Cardinality(literal(s)) <= Window,
                        NEW d \in literal(s), Shown(d, Hidden[s], r)
                 PROVE  /\ last.hits # << >>
                        /\ \/ \E t \in Shards : last.hits[1].doc \in world[t].literal
                           \/ Deep(last.hits[1].doc)
    BY DEF LiteralFirst
  <2>2. /\ last.request \in Requests /\ world \in [Shards -> Lookups]
        /\ \E answering \in SUBSET Shards : last.hits = Answer(UnionOf(answering), last.request)
    BY <2>1, LastAnswer
  <2>3. PICK answering \in SUBSET Shards : last.hits = Answer(UnionOf(answering), last.request)
    BY <2>2
  <2>4. world[s] \in Lookups /\ d \in Docs
    BY <2>1, <2>2 DEF Lookups
  <2>5. d \in OfFiles(world[s], Hidden[s], r).kept /\ PathOf(world[s], Hidden[s], r, d) >= 2 * Unit
    BY <2>1, <2>4, LiteralIsKept
  <2> HIDE DEF literal
  <2>6. d \in Merged(world[s], Hidden[s], r, s \in answering)
    BY <2>4, <2>5, MergedIsAll DEF Candidates
  <2>7. d \in MayShow(world[s], Hidden[s], r, s \in answering)
    BY <2>1, <2>6 DEF MayShow
  <2> DEFINE boost == BoostOf(world[s], Hidden[s], r, s \in answering, d)
             path == PathOf(world[s], Hidden[s], r, d)
  <2>8. boost \in Nat /\ boost >= path /\ path \in Nat
    BY <2>4, <2>6, BoostOfFile, PathOfFile
  <2>9. PICK h \in PartOf(s, answering) : h.score \in Nat /\ h.score >= boost
    BY <2>4, <2>7, ShownIsGiven DEF PartOf
  <2>10. h \in UnionOf(answering)
    BY <2>9 DEF UnionOf
  <2> DEFINE top == last.hits[1].doc
  <2>11. last.hits # << >> /\ top \in Docs /\ Boosted(top, h.score, answering)
    BY <2>2, <2>3, <2>10, FirstIsBoosted
  <2>12. path >= 2 * Unit
    BY <2>5
  <2> HIDE DEF boost, top, path
  <2>13. h.score \in Nat /\ h.score >= 2 * Unit
    BY <2>8, <2>9, <2>12, SMT DEF Unit
  <2>14. Deep(top) \/ \E t \in Shards : top \in world[t].literal
    BY <2>2, <2>11, <2>13, BoostTells
  <2> QED
    BY <2>11, <2>14 DEF top
<1> QED
  BY <1>1, RankingInvariance, PTL

=============================================================================
