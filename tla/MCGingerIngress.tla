--------------------------- MODULE MCGingerIngress ---------------------------
(***************************************************************************)
(* One process or two; the hash spreads the vertices over both.            *)
(***************************************************************************)
EXTENDS GingerIngress

CONSTANTS v1, v2, v3

SpreadHash == [v \in VertexId |-> IF v = v2 THEN 1 ELSE 0]

\* An edge to a source placed at a process is worth as much as one vertex
\* and one edge of balance.
IntScore(degree, balance) == 2 * degree - balance
=============================================================================
