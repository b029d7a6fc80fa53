----------------------------- MODULE MCLoopyBP -----------------------------
(***************************************************************************)
(* A path 0 -> 1 -> 2 with a self loop at 2.                               *)
(* Messages are 0, 1 and 2; only 0 and 2 differ by more than the tolerance,*)
(* so two changes that are each below it make one above it.                *)
(***************************************************************************)
EXTENDS LoopyBP

CONSTANTS e0, e1, e2

PathEdges  == {e0, e1, e2}
PathSource == [e \in PathEdges |-> CASE e = e0 -> 0 [] e = e1 -> 1 [] e = e2 -> 2]
PathTarget == [e \in PathEdges |-> CASE e = e0 -> 1 [] e = e1 -> 2 [] e = e2 -> 2]
PathOut   == [v \in 0 .. 2 |-> CASE v = 0 -> <<<<1, e0>>>>
                                 [] v = 1 -> <<<<2, e1>>>>
                                 [] v = 2 -> <<<<2, e2>>>>]
PathIn    == [v \in 0 .. 2 |-> CASE v = 0 -> <<>>
                                 [] v = 1 -> <<<<0, e0>>>>
                                 [] v = 2 -> <<<<1, e1>>, <<2, e2>>>>]

FarApart(x, y) == x - y > 1 \/ y - x > 1
=============================================================================
