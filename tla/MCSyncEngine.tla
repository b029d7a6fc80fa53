---------------------------- MODULE MCSyncEngine ----------------------------
(***************************************************************************)
(* Instances of the engine for TLC: graphs of three vertices, words of two *)
(* bits (so the vertices fill one word and half of the next), and two      *)
(* vertex programs on small integers.                                      *)
(***************************************************************************)
EXTENDS SyncEngineRefinement, Functions

\* 0 -> 1 -> 2 -> 0 and 0 -> 2: a cycle with a short cut, so a vertex may be
\* signalled by two others in one superstep.
Chord       == 1 .. 4
ChordSource == <<0, 1, 2, 0>>
ChordTarget == <<1, 2, 0, 2>>

\* A self loop at 0, a path 0 -> 1 -> 2.
Loop       == 1 .. 3
LoopSource == <<0, 0, 1>>
LoopTarget == <<0, 1, 2>>

AllIn  == [v \in Vertex |-> "IN_EDGES"]
AllOut == [v \in Vertex |-> "OUT_EDGES"]

\* Directions that differ from vertex to vertex.
MixedGather  == [v \in Vertex |-> CASE v = 0 -> "ALL_EDGES"
                                    [] v = 1 -> "OUT_EDGES"
                                    [] OTHER -> "IN_EDGES"]
MixedScatter == [v \in Vertex |-> CASE v = 0 -> "OUT_EDGES"
                                    [] v = 1 -> "ALL_EDGES"
                                    [] OTHER -> "NO_EDGES"]

Number(a) == IF a = NoValue THEN 0 ELSE a

SumOf(acc) == LET n == [x \in DOMAIN acc |-> Number(acc[x])] IN SumFunction(n)

\* pagerank's apply with integers: it damps the sum, adds a constant, and
\* settles.  No rank is above RankMax.
RankMax == 2
Rank    == 0 .. RankMax
Ones    == {[v \in Vertex |-> 1]}
RankApply(v, old, acc) == LET r == 1 + (2 * SumOf(acc)) \div 3
                          IN IF r > RankMax THEN RankMax ELSE r

\* A program that never settles and for which applying twice, or on data of
\* the wrong superstep, shows: it adds what it gathered to its data, modulo 3.
Residue  == 0 .. 2
\* Vertex 1 changes by two in the first superstep, which 0, already gathered
\* or not, must hear of; the first start has it settle, the second not.
Starts   == {[v \in Vertex |-> (v + 2) % 3], [v \in Vertex |-> IF v = 2 THEN 1 ELSE 0]}
AddApply(v, old, acc) == (old + SumOf(acc) + v) % 3

AnyChange(old, new) == old # new

\* |new - old| > TOLERANCE with a tolerance of one.
BigChange(old, new) == old - new > 1 \/ new - old > 1

=============================================================================
