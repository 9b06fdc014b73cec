---- MODULE MCRanking ----
(* A small collection: two shards over one root with a checkout a and a directory b. *)
EXTENDS Ranking

CONSTANTS s1, s2

Doc(path, dir, kind, about, depth, name, text) ==
    [path |-> path, dir |-> dir, kind |-> kind, about |-> about, depth |-> depth, name |-> name, text |-> text]

A1 == Doc(1, "a", "source", None, 0, "x", "t1")
A2 == Doc(2, "a", "output", None, 0, "y", None)
A3 == Doc(3, "a", "output", None, 0, "z", None)
B1 == Doc(4, "b", "source", None, 0, "x", "t1")
I1 == Doc(6, "b", "instructions", "b", 1, "agents", "t3")
M1 == Doc(7, "top", "memory", "a", 0, "memory", "t4")
I2 == Doc(8, "a", "instructions", "a", 1, "agents", "t3")
B2 == Doc(5, "b", "source", None, 0, "x", "t2")

MCDocs == {A1, A2, A3, B1, B2, I1, I2, M1}
MCHidden == [s \in Shards |-> IF s = s1 THEN {B2} ELSE {}]

Request(scope, prefix, context, kind, limit) ==
    [scope |-> scope, prefix |-> prefix, context |-> context, kind |-> kind, limit |-> limit]

MCRequests == {
    Request(None, None, None, None, 4),
    Request("b", None, None, None, 4),
    Request("top", None, "b", None, 3),
    Request(None, "a", "a", None, 5),
    Request(None, None, "b", "source", 3),
    Request("out", None, None, None, 4)}

(* Which shard holds what, how relevant the words and the meaning of each file are, and
   whether a symbol or a literal name was asked for.  The first shard holds what is not in
   the second.  A word of the question is the name of the directory b.                    *)
World(second, both, raw, near, asked) ==
    [s \in Shards |->
        LET here == { d \in MCDocs : d \in both \/ (d \in second) = (s = s2) }
        IN  [raw |-> [d \in MCDocs |-> IF d \in here THEN raw[d] ELSE 0],
             near |-> [d \in MCDocs |-> IF d \in here THEN near[d] ELSE 0],
             covered |-> [d \in MCDocs |-> IF d.dir = "b" THEN 2500 ELSE 0],
             named |-> here \cap asked[1], literal |-> here \cap asked[2]]]

Raws == { [d \in MCDocs |-> CASE d = A1 -> x [] d = A2 -> y [] d = A3 -> 2 [] d = B1 -> z
                              [] d = B2 -> 1 [] d \in {I1, I2} -> i [] d = M1 -> m] :
          x \in 0..2, y \in {0, 2}, z \in {0, 2}, i \in 0..1, m \in 0..1 }
Nears == { [d \in MCDocs |-> 0],
           [d \in MCDocs |-> IF d = B2 THEN 2 ELSE IF d \in {A1, A3} THEN 1 ELSE 0] }

Asked == { << {}, {} >>, << {A1, B1, B2}, {} >>, << {A1, B1}, {B2} >> }

MCWorlds == { World(second, both, raw, near, asked) :
                second \in { {B2, I1}, {A1, A3, M1}, {A1, A2, A3, B1, B2} }, both \in { {}, {B1, B2} },
                raw \in Raws, near \in Nears, asked \in Asked }

MCRevisited == { World({B2, I1}, {B1, B2}, raw, near, << {A1, B1, B2}, {} >>) :
                   raw \in { r \in Raws : r[A2] = 2 /\ r[B1] = 2 /\ r[M1] = 1 }, near \in Nears }
====
