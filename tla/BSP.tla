-------------------------------- MODULE BSP --------------------------------
(***************************************************************************)
(* What the synchronous engine promises: bulk-synchronous supersteps.      *)
(*                                                                         *)
(* In one superstep every active vertex gathers from the data of the end   *)
(* of the previous superstep, all of them apply at once, and the vertices  *)
(* active in the next superstep are exactly those signalled by a vertex    *)
(* whose data changed significantly (the comment at sync.cpp:19-31 draws   *)
(* it as G G G, A A A, S S S under a loop over iterations).  The threads,  *)
(* the shared counter, the words of the bitset and the two bitsets do not  *)
(* exist here: they are how SyncEngine implements it.                      *)
(***************************************************************************)
EXTENDS VertexProgram

CONSTANT MaxIterations

VARIABLES data,         \* the data of every vertex
          active,       \* the vertices signalled for the next superstep
          iteration,    \* supersteps started so far
          status        \* "idle", "running" or "exited"

vars == <<data, active, iteration, status>>

NewData == [v \in Vertex |-> IF v \in active
                             THEN ApplyTo(v, data[v], GatherOf(v, data))
                             ELSE data[v]]

Changed == {v \in active : Significant(data[v], NewData[v])}

Signalled == {u \in Vertex : \E v \in Changed : \E x \in ScatterVisits[v] :
                 Other(x) = u}

Init == /\ data \in InitData
        /\ active = {}
        /\ iteration = 0
        /\ status = "idle"

Signal(v) == /\ status = "idle"
             /\ active' = active \cup {v}
             /\ UNCHANGED <<data, iteration, status>>

SignalAll == /\ status = "idle"
             /\ active' = Vertex
             /\ UNCHANGED <<data, iteration, status>>

Run == /\ status = "idle"
       /\ status' = "running"
       /\ UNCHANGED <<data, active, iteration>>

Superstep == /\ status = "running"
             /\ iteration < MaxIterations
             /\ active # {}
             /\ data' = NewData
             /\ active' = Signalled
             /\ iteration' = iteration + 1
             /\ UNCHANGED status

\* run() returns only when nobody is active or the iterations are used up.
Return == /\ status = "running"
          /\ active = {} \/ iteration >= MaxIterations
          /\ status' = "idle"
          /\ UNCHANGED <<data, active, iteration>>

\* A thread could not be created: the program exits.
Exit == /\ status = "running"
        /\ status' = "exited"
        /\ UNCHANGED <<data, active, iteration>>

Next == \/ \E v \in Vertex : Signal(v)
        \/ SignalAll
        \/ Run
        \/ Superstep
        \/ Return
        \/ Exit

\* Supersteps follow each other until run() returns.
Fairness == WF_vars(Superstep \/ Return)

Safety == Init /\ [][Next]_vars

Spec == Safety /\ Fairness
=============================================================================
