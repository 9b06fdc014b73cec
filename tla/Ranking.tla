---- MODULE Ranking ----
(***************************************************************************)
(* One search over a collection: every shard is asked on a thread of its   *)
(* own (workspace.rs search_in_scope_stages) for what its full-text,       *)
(* memory, semantic and symbol lookups find (search.rs, semantic.rs), its  *)
(* catalog says which of it may be shown, and the reader ranks the union   *)
(* again (reader.rs search_filtered_stages), folds copies and spreads the  *)
(* directories.  Answers of a shard are cached until it publishes again.   *)
(* The lookups read leased, immutable snapshots, so a shard's part of a    *)
(* search is one step; what changes between two searches is the world.     *)
(***************************************************************************)
EXTENDS Integers, Sequences, FiniteSets, Functions, SequencesExt, FiniteSetsExt

CONSTANTS
    Docs,          \* the files: [path, dir, kind, about, depth, name, text]
    Shards,
    Hidden,        \* the files each shard may not show (collection descriptor)
    Worlds,        \* what the lookups of each shard find, at the start
    Requests,      \* [scope, prefix, context, kind, limit]
    None,          \* no request, no text
    Window,        \* candidates taken from one lookup (overfetch)
    ShardLimit,    \* hits a shard hands over (200)
    CacheSize,     \* answers a shard remembers (SEARCH_CACHE_CAPACITY)
    Revisited,     \* bound: the worlds that are searched more than once
    MaxAsks,       \* bound: searches of one of those
    MaxPublished   \* bound: publications of all shards together

\* What the part of the question's words that a path holds is worth (PATH_COVERAGE_WEIGHT).
CoverageMost == 5000

ASSUME CollectionIsFinite == IsFiniteSet(Docs) /\ IsFiniteSet(Shards)
ASSUME FilesAreNumbered == \A d \in Docs : d.path \in Nat /\ d.depth \in Nat
ASSUME WorldsAreOfShards ==
    Worlds \subseteq [Shards -> [raw : [Docs -> Nat], near : [Docs -> Nat], covered : [Docs -> 0..CoverageMost],
                                named : SUBSET { d \in Docs : d.kind = "source" }, literal : SUBSET Docs]]
ASSUME PathsAreDistinct == \A d, e \in Docs : d.path = e.path => d = e
ASSUME WindowsArePositive ==
    /\ Window \in Nat \ {0} /\ ShardLimit \in Nat \ {0} /\ CacheSize \in Nat \ {0}
    /\ \A r \in Requests : r.limit \in Nat \ {0}

VARIABLES
    world,        \* per shard: raw and near, the relevance the lookups give; covered, what is given
                  \*   for words in the path; named and literal, the files whose symbol or whose
                  \*   name was asked for (of the 1000 best whose names have the same words)
    generation,   \* per shard: which publication its snapshot is of
    cache,        \* per shard: [key, hits], the least recently used first
    last,         \* the last search: its request, its hits, what they were taken from
    asks          \* bound: searches left

vars == << world, generation, cache, last, asks >>

---------------------------------------------------------------------------
(* Scores are in units of 1/100000.  Ties are broken by path, so that every sort is by *)
(* one total order and its result depends on nothing but the set that is sorted.       *)

Unit == 100000
Better(f, d, e) == f[d] > f[e] \/ (f[d] = f[e] /\ d.path < e.path)
Rank(f, S, d) == 1 + Cardinality({ e \in S : Better(f, e, d) })
Best(f, S, n) == { d \in S : Rank(f, S, d) <= n }

\* Directories: "top" is the root that is registered, "out" lies outside of it.
Within(x, y) == x = y \/ (y = "top" /\ x # "out")

Child(r) == r.scope \notin {None, "top"}
InScope(d, r) == r.scope = None \/ Within(d.dir, r.scope)
InPrefix(d, r) == r.prefix = None \/ Within(d.dir, r.prefix)

WantsMemory(r) == r.kind \in {None, "memory"}
WantsAgents(r) == r.kind \in {None, "instructions"} \/ r.context # None

---------------------------------------------------------------------------
(* The lookups of one shard. *)

Lanes == {"content", "agent", "memory", "semantic", "exact_path"}

(* In a search over every kind a memory weighs a tenth (DEFAULT_MEMORY_SCORE_WEIGHT). *)
Weight(l, d, r) ==
    LET w == IF l = "agent" THEN 130 ELSE IF l = "memory" THEN 115 ELSE 100
    IN  (w * Unit) \div (IF d.kind = "memory" /\ r.kind = None THEN 1000 ELSE 100)

\* The rank in the lane of literal names weighs nothing.
Fused(contributions) ==
    LET from(l) == IF l \in DOMAIN contributions THEN contributions[l] ELSE 0
    IN  from("content") + from("agent") + from("memory") + from("semantic")

InLane(w, d, l, r) ==
    \/ /\ w.raw[d] > 0
       /\ \/ l = "content" /\ d.kind # "instructions"
          \/ l = "agent" /\ d.kind = "instructions" /\ WantsAgents(r)
          \/ l = "memory" /\ d.kind = "memory"
    \/ l = "exact_path" /\ d \in w.literal

\* A bug the checks must see.
PathOfWords(w, d, exact, r) == w.covered[d] \div (IF d.kind = "memory" /\ r.kind = None THEN 10 ELSE 1)

(* What a file's path is worth: the words it covers, and EXACT_PATH_BOOST if it is asked for
   literally.  A memory's whole score is weighed.                                          *)
Path(w, d, exact, r) ==
    (w.covered[d] + (IF exact THEN 200000 ELSE 0)) \div (IF d.kind = "memory" /\ r.kind = None THEN 10 ELSE 1)

\* A bug the checks must see.
UnconfinedBeforeWindow(d, r) == TRUE

(* A child scope confines a lookup before its window; what is bound to a scope of its own
   is judged by the catalog later.                                                       *)
Confined(d, r) == Child(r) => Within(d.dir, r.scope) \/ d.kind \in {"instructions", "memory"}

(* The lanes of an index are fused by rank; what the paths are worth is added. *)
FusedLanes(w, r, lanes) ==
    LET ranks == [d \in UNION { lanes[l] : l \in Lanes } |->
                    Fused([l \in { l \in Lanes : d \in lanes[l] } |->
                             Weight(l, d, r) \div (60 + Rank(w.raw, lanes[l], d))])]
        path == [d \in DOMAIN ranks |-> Path(w, d, d \in lanes["exact_path"], r)]
        score == [d \in DOMAIN ranks |-> ranks[d] + path[d]]
    IN  [lanes |-> lanes, ranks |-> ranks, path |-> path, kept |-> Best(score, DOMAIN score, Window)]

\* Memories have an index of their own.
Lookup(w, hidden, r, memory) ==
    LET found == { d \in Docs \ hidden : Confined(d, r) /\ (d.kind = "memory") = memory }
    IN  FusedLanes(w, r, [l \in Lanes |-> Best(w.raw, { d \in found : InLane(w, d, l, r) }, Window)])

(* The embedding process knows scopes, kinds and prefixes, but not what a shard hides. *)
Nearest(w, r) ==
    Best(w.near, { d \in Docs : /\ w.near[d] > 0 /\ InScope(d, r) /\ InPrefix(d, r)
                               /\ r.kind \in {None, d.kind} }, Window)

---------------------------------------------------------------------------
(* What the catalog says of a candidate. *)

Applicable(d, r) ==
    \/ d.kind = "instructions" /\ r.context # None /\ Within(r.context, d.about)
    \/ /\ d.kind = "memory"
       /\ \/ d.about = None
          \/ /\ r.context = None \/ Within(r.context, d.about)
             /\ r.scope = None \/ Within(d.about, r.scope) \/ Within(r.scope, d.about)

\* A bug the checks must see.
ShownUnseen(d, hidden, r) ==
    /\ r.kind \in {None, d.kind}
    /\ d.kind = "instructions" /\ r.context # None => Applicable(d, r)
    /\ d.kind = "memory" /\ (r.scope # None \/ r.context # None) => Applicable(d, r)
    /\ InScope(d, r) \/ Applicable(d, r)
    /\ InPrefix(d, r) \/ (d.kind = "instructions" /\ Applicable(d, r))

Shown(d, hidden, r) ==
    /\ d \notin hidden /\ r.kind \in {None, d.kind}
    /\ d.kind = "instructions" /\ r.context # None => Applicable(d, r)
    /\ d.kind = "memory" /\ (r.scope # None \/ r.context # None) => Applicable(d, r)
    /\ InScope(d, r) \/ Applicable(d, r)
    /\ InPrefix(d, r) \/ (d.kind = "instructions" /\ Applicable(d, r))

\* A bug the checks must see.
BoostDepthOnly(d, named, identified, r) == IF d \in named THEN 150000 ELSE 0

(* What is added to the fused ranks: instructions that apply, and deeper ones more; a
   memory of this project; a definition of the name asked for; a source identified by its
   symbol or its name, in the checkout the question comes from.                        *)
Boost(d, named, identified, r) ==
    (IF d.kind = "instructions" /\ Applicable(d, r) THEN 100000 + 100 * d.depth ELSE 0)
    + (IF d.kind = "memory"
       THEN (IF d.about # None /\ Applicable(d, r) THEN 8000 ELSE 1000) \div (IF r.kind = None THEN 10 ELSE 1)
       ELSE 0)
    + (IF d \in named THEN 150000 ELSE 0)
    + (IF identified /\ d.kind = "source" /\ r.context # None /\ Within(d.dir, r.context) THEN 15000 ELSE 0)

\* Instructions and memories of the same text are shown once.
Distinct(f, S) ==
    { d \in S : d.kind \in {"instructions", "memory"} /\ d.text # None =>
                   ~\E e \in S : e.kind = d.kind /\ e.text = d.text /\ Better(f, e, d) }

(* What a shard makes of its two lookups and of what is near in meaning.  Of a candidate's
   score the reader takes the ranks off again: what its path is worth stays, like the boost. *)
HitsOf(w, hidden, r, files, memories, near) ==
    LET ranks(d) == IF d \in files.kept THEN files.ranks[d]
                    ELSE IF d \in memories.kept THEN memories.ranks[d] ELSE 0
        path(d) == IF d \in files.kept THEN files.path[d]
                   ELSE IF d \in memories.kept THEN memories.path[d] ELSE 0
        added == [d \in Docs |-> ranks(d) + (IF d \in near THEN Unit \div (60 + Rank(w.near, near, d)) ELSE 0)]
        fused == [d \in Docs |-> added[d] + path(d)]
        merged == Best(fused, files.kept \cup memories.kept \cup near,
                       IF WantsMemory(r) THEN 3 * Window ELSE 2 * Window)
        evidence(d) == IF d \notin merged THEN {}
                       ELSE { l \in Lanes : \/ d \in files.kept /\ d \in files.lanes[l]
                                            \/ d \in memories.kept /\ d \in memories.lanes[l]
                                            \/ l = "semantic" /\ d \in near }
        identified(d) == d \in w.named \/ "exact_path" \in evidence(d)
        boost(d) == Boost(d, w.named, identified(d), r) + (IF d \in merged THEN path(d) ELSE 0)
        score == [d \in Docs |-> boost(d) + (IF d \in merged THEN added[d] ELSE 0)]
        found == merged \cup w.named
        shown == { d \in found : Shown(d, hidden, r) }
    IN  { [doc |-> d, lanes |-> evidence(d), raw |-> w.raw[d], near |-> w.near[d],
           boost |-> boost(d), identified |-> identified(d), score |-> score[d]] :
          d \in Best(score, Distinct(score, shown), ShardLimit) }

ShardHits(w, hidden, r, answers) ==
    HitsOf(w, hidden, r, Lookup(w, hidden, r, FALSE),
           IF WantsMemory(r) THEN Lookup(w, hidden, r, TRUE) ELSE [kept |-> {}],
           IF answers THEN Nearest(w, r) ELSE {})

---------------------------------------------------------------------------
(* The reader: the union of the hits is ranked anew. *)

\* A bug the checks must see.
RankedLocally(hits, r) == [d \in { h.doc : h \in hits } |-> (CHOOSE h \in hits : h.doc = d).score]

(* Of the hits for one path the best is kept, then every lane ranks all that are left: the
   ranks a hit had in its own shard say nothing about the others.                        *)
Ranked(hits, r) ==
    LET docs == { h.doc : h \in hits }
        hit == [d \in docs |-> CHOOSE h \in hits : h.doc = d /\ \A g \in hits : g.doc = d => h.score >= g.score]
        raw == [d \in docs |-> hit[d].raw]
        near == [d \in docs |-> hit[d].near]
        lane(l) == { d \in docs : l \in hit[d].lanes }
    IN  [d \in docs |-> hit[d].boost +
            Fused([l \in hit[d].lanes |->
                Weight(l, d, r) \div (60 + Rank(IF l = "semantic" THEN near ELSE raw, lane(l), d))])]

\* A bug the checks must see.
OriginalsByName(f, hits, r) ==
    LET defines == { h.doc : h \in { h \in hits : h.identified /\ h.doc.kind = "source" /\ r.context # None } }
    IN  { d \in DOMAIN f : d \in defines =>
            ~\E e \in defines : e.name = d.name /\ Better(f, e, d) }

(* Copies of a source asked for by a symbol or by its name become alternatives of the best. *)
Originals(f, hits, r) ==
    LET defines == { h.doc : h \in { h \in hits : h.identified /\ h.doc.kind = "source" /\ r.context # None } }
    IN  { d \in DOMAIN f : d \in defines /\ d.text # None =>
            ~\E e \in defines : e.name = d.name /\ e.text = d.text /\ Better(f, e, d) }

Same == 125    \* SAME_DIRECTORY_MMR_PENALTY

(* Each neighbour already chosen costs an output more; other files pay once. *)
Discount(chosen, d, penalty) ==
    LET neighbours == Cardinality({ i \in DOMAIN chosen : chosen[i].doc.dir = d.dir })
    IN  IF d.kind = "output" THEN penalty * neighbours
        ELSE IF neighbours = 0 THEN 0 ELSE Same

Spread(f, S, limit, penalty) ==
    LET chosen[n \in 0..limit] ==
            IF n = 0 THEN << >>
            ELSE LET sofar == chosen[n - 1]
                     left == S \ { sofar[i].doc : i \in DOMAIN sofar }
                     worth == [d \in left |-> f[d] - Discount(sofar, d, penalty)]
                 IN  sofar \o SetToSeq({ [doc |-> d, score |-> worth[d]] : d \in Best(worth, left, 1) })
    IN  chosen[limit]

Answer(hits, r) ==
    LET score == Ranked(hits, r)
        kept == Originals(score, hits, r)
        ordinary == { score[d] : d \in { d \in DOMAIN score : score[d] < Unit \div 2 } }
    IN  Spread(score, kept, r.limit, Max({Same} \cup { x \div 10 : x \in ordinary }))

---------------------------------------------------------------------------
NoAnswer == [request |-> None, hits |-> << >>, of |-> generation]

Init ==
    /\ world \in Worlds
    /\ generation = [s \in Shards |-> 0]
    /\ cache = [s \in Shards |-> << >>]
    /\ last = NoAnswer
    /\ asks = IF world \in Revisited THEN MaxAsks ELSE 1

\* A bug the checks must see.
KeyOfAnyGeneration(s, r) == << 0, r >>

\* Snapshot and generation are part of the key, as is the whole request.
Key(s, r) == << generation[s], r >>

Remembered(s, r) == { i \in DOMAIN cache[s] : cache[s][i].key = Key(s, r) }

(* Whatever is asked becomes the most recent; beyond the size the oldest goes. *)
Remember(c, entry) ==
    LET same == { i \in DOMAIN c : c[i].key = entry.key }
        all == Append(IF same = {} THEN c ELSE RemoveAt(c, CHOOSE i \in same : TRUE), entry)
    IN  IF Len(all) > CacheSize THEN Tail(all) ELSE all

Outside(r) == r.scope = "out" \/ r.context = "out"

(* A scope or a context outside of every registered root is refused. *)
Refuse(r) ==
    /\ asks > 0 /\ asks' = asks - 1
    /\ Outside(r)
    /\ last' = NoAnswer
    /\ UNCHANGED << world, generation, cache >>

(* Each shard answers from its cache or from its lookups; the embedding process answers
   some of them, the others make do with the rest, and both kinds are remembered.       *)
Ask(r, answering) ==
    /\ asks > 0 /\ asks' = asks - 1
    /\ ~Outside(r)
    /\ LET part == [s \in Shards |->
                       IF Remembered(s, r) # {}
                       THEN cache[s][CHOOSE i \in Remembered(s, r) : TRUE].hits
                       ELSE ShardHits(world[s], Hidden[s], r, s \in answering)]
       IN  /\ last' = [request |-> r, hits |-> Answer(UNION { part[s] : s \in Shards }, r), of |-> generation]
           /\ cache' = [s \in Shards |-> Remember(cache[s], [key |-> Key(s, r), hits |-> part[s]])]
    /\ UNCHANGED << world, generation >>

Holds(s) == { d \in Docs : \/ world[s].raw[d] > 0 \/ world[s].near[d] > 0
                           \/ d \in world[s].named \/ d \in world[s].literal }

\* A shard publishes: a file has gone, or its words say more than they did.
Publish(s, d, gone) ==
    /\ asks > 0 /\ last.request # None /\ SumFunction(generation) < MaxPublished
    /\ d \in Holds(s)
    /\ generation' = [generation EXCEPT ![s] = @ + 1]
    /\ world' = [world EXCEPT ![s] =
                   [raw |-> [@.raw EXCEPT ![d] = IF gone THEN 0 ELSE 3],
                    near |-> IF gone THEN [@.near EXCEPT ![d] = 0] ELSE @.near,
                    covered |-> @.covered,
                    named |-> IF gone THEN @.named \ {d} ELSE @.named,
                    literal |-> IF gone THEN @.literal \ {d} ELSE @.literal]]
    /\ UNCHANGED << cache, last, asks >>

Next ==
    \/ \E r \in Requests : Refuse(r)
    \/ \E r \in Requests, answering \in SUBSET Shards : Ask(r, answering)
    \/ \E s \in Shards, d \in Docs, gone \in BOOLEAN : Publish(s, d, gone)

Spec == Init /\ [][Next]_vars

---------------------------------------------------------------------------
(* Every variable stays in its range, and no cache outgrows its size. *)
TypeOK ==
    /\ world \in [Shards -> [raw : [Docs -> 0..3], near : [Docs -> 0..3], covered : [Docs -> 0..CoverageMost],
                             named : SUBSET Docs, literal : SUBSET Docs]]
    /\ generation \in [Shards -> 0..MaxPublished] /\ asks \in 0..MaxAsks
    /\ \A s \in Shards : Len(cache[s]) <= CacheSize
    /\ last.request \in Requests \cup {None}
    /\ \A i \in DOMAIN last.hits : last.hits[i].doc \in Docs

\* The last answer is about what the shards hold now.
Fresh == last.request # None /\ last.of = generation
Hits == { last.hits[i].doc : i \in DOMAIN last.hits }
Full == Len(last.hits) = last.request.limit

\* What a shard may show of what it holds is no more than it hands over.
Fits(s) == Cardinality({ d \in Holds(s) : Shown(d, Hidden[s], last.request) }) <= ShardLimit

(* What a shard may not show, because a newer shard is responsible for it, is not shown on
   its word, by whichever lookup it was found: it is not among what the shard hands over,
   be it worked out or remembered, even if another shard shows a newer copy of it
   (Visibility::allows).                                                                 *)
HiddenStaysHidden ==
    /\ Fresh => \A d \in Hits : \E s \in Shards : d \in Holds(s) \ Hidden[s]
    /\ \A s \in Shards : \A i \in DOMAIN cache[s] :
          cache[s][i].key[1] = generation[s] => \A h \in cache[s][i].hits : h.doc \notin Hidden[s]

(* "Child scopes filter candidates before Top-K" (README.md:402): however many files outside of
   a child scope are more relevant, each file inside that a lookup can see is among the
   hits, as itself or as a copy, or the hits are as many as were asked for.  What a shard
   hands over is limited before copies are folded (Fits).                                *)
ScopeBeforeWindow ==
    Fresh /\ Child(last.request) /\ ~Full =>
        \A s \in Shards, d \in Docs :
            LET r == last.request
                visible == { e \in Docs \ Hidden[s] :
                               /\ world[s].raw[e] > 0 \/ e \in world[s].literal
                               /\ InScope(e, r) \/ e.kind \in {"instructions", "memory"} }
            IN  /\ d \in visible /\ Cardinality(visible) <= Window /\ Fits(s)
                /\ d.kind \in {"source", "output"} /\ r.kind \in {None, d.kind}
                /\ InScope(d, r) /\ InPrefix(d, r)
                => \E e \in Hits : e = d \/ (e.name = d.name /\ e.text = d.text)

(* A definition that is asked for by its name is found whatever the windows hold, and each
   different text of it is shown.                                                        *)
NamedFound ==
    Fresh /\ ~Full =>
        \A s \in Shards : \A d \in world[s].named \ Hidden[s] :
            LET r == last.request
            IN  /\ d.kind = "source" /\ r.kind \in {None, "source"} /\ InScope(d, r) /\ InPrefix(d, r) /\ Fits(s)
                => \E e \in Hits : e = d \/ (e.name = d.name /\ e.text = d.text)

(* Where instructions apply to the place the question comes from and a lookup can see them,
   the first hit is such an instruction, the definition asked for, or a file asked for by
   its literal name: copies of the instructions for other places do not stand in.        *)
ApplicableFirst ==
    Fresh /\ last.request.context # None /\ last.request.kind = None =>
        LET r == last.request
            applies == { d \in Docs : d.kind = "instructions" /\ Applicable(d, r) }
        IN  (\E s \in Shards, d \in applies :
                d \notin Hidden[s] /\ world[s].raw[d] > 0 /\ Cardinality(Holds(s)) <= Window)
            => /\ last.hits # << >>
               /\ \/ last.hits[1].doc \in applies
                  \/ \E s \in Shards : last.hits[1].doc \in world[s].named \cup world[s].literal

\* So deep that a thousandth for each directory outweighs a literal name.
Deep(d) == d.depth > 750

(* "Literal filename/path queries prioritize exact matches" (README.md:411): where a shard may
   show a file whose literal name was asked for, however many files the windows hold and
   whatever instructions and definitions there are, such a file is the first hit.        *)
LiteralFirst ==
    Fresh =>
        LET r == last.request
            literal(s) == { d \in world[s].literal \ Hidden[s] : d.kind # "memory" /\ Confined(d, r) }
        IN  (\E s \in Shards : /\ Cardinality(literal(s)) <= Window
                               /\ \E d \in literal(s) : Shown(d, Hidden[s], r))
            => /\ last.hits # << >>
               /\ \/ \E s \in Shards : last.hits[1].doc \in world[s].literal
                  \/ Deep(last.hits[1].doc)

(* "Summing already-fused shard scores promotes every shard's local rank-one result, and small
   shards can crowd out stronger evidence" (reader.rs:249): a source that was found by less
   relevant words alone does not come before one found by more relevant words in any other
   shard, unless a neighbour of that one came before both.                               *)
NoCrowdingOut ==
    Fresh => \A i \in DOMAIN last.hits, s \in Shards, d \in Docs :
        LET r == last.request
            e == last.hits[i].doc
        IN  /\ d.kind = "source" /\ e.kind = "source"
            /\ d \in Holds(s) /\ Shown(d, Hidden[s], r) /\ Fits(s) /\ Cardinality(Holds(s)) <= Window
            /\ Confined(d, r)
            /\ \A t \in Shards : /\ {d, e} \cap (world[t].named \cup world[t].literal) = {}
                                 /\ world[t].near[e] = 0 /\ world[t].covered[e] <= world[t].covered[d]
                                 /\ d \in Holds(t) => \A u \in Shards : world[t].raw[d] > world[u].raw[e]
            => \E k \in 1..(i - 1) : last.hits[k].doc.dir = d.dir

(* No answer outlives what it was taken from: it is one the shards would give now, for some
   of them without the embedding process (the cache key).                                *)
AnswersCurrent ==
    Fresh => \E answering \in SUBSET Shards :
        last.hits = Answer(UNION { ShardHits(world[s], Hidden[s], last.request, s \in answering) : s \in Shards },
                           last.request)

====
