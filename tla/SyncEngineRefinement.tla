------------------------ MODULE SyncEngineRefinement ------------------------
(***************************************************************************)
(* The threaded engine implements the supersteps of BSP.                   *)
(*                                                                         *)
(* A superstep of BSP happens when run() moves the signalled vertices to   *)
(* the active bitset (BeginSuperstep): from then on its outcome is         *)
(* settled, whatever the workers do.  The mapping computes that outcome    *)
(* from how far the phases have come, so every later step of the superstep *)
(* maps to a stutter.                                                      *)
(***************************************************************************)
EXTENDS SyncEngine

InSuperstep == phase # "none"

\* v is active in this superstep and apply has not reached it.
NotApplied(v) ==
    /\ v \in current_active_superstep
    /\ phase = "gather" \/ (phase = "apply" /\ Pending(v))

\* What apply will be given for such a vertex.
AccumAtApply(v) == IF phase = "gather" THEN GatherOf(v, vdata)
                                       ELSE gather_accum[v]

AbstractData ==
    [v \in Vertex |-> IF InSuperstep /\ NotApplied(v)
                      THEN ApplyTo(v, vdata[v], AccumAtApply(v))
                      ELSE vdata[v]]

\* Scatter will signal, or has signalled, the neighbours of v.
WillSignal(v) ==
    IF NotApplied(v) THEN Significant(vdata[v], AbstractData[v])
                     ELSE last_change[v]

AbstractActive ==
    IF InSuperstep
    THEN LET signallers == {v \in current_active_superstep : WillSignal(v)}
         IN  {u \in Vertex : \E v \in signallers :
                \E x \in ScatterVisits[v] : Other(x) = u}
    ELSE next_active_superstep

AbstractStatus == CASE mpc = "idle"   -> "idle"
                    [] mpc = "exited" -> "exited"
                    [] OTHER          -> "running"

Abstract == INSTANCE BSP WITH
    data <- AbstractData,
    active <- AbstractActive,
    iteration <- iteration_counter + (IF InSuperstep THEN 1 ELSE 0),
    status <- AbstractStatus

\* The engine, with its threads, its shared counter and its two bitsets,
\* behaves as bulk-synchronous supersteps: each active vertex is applied
\* exactly once per superstep, on data of the previous superstep only, and
\* exactly the significant changes activate vertices (sync.cpp:101-240).
ImplementsSupersteps == Abstract!Safety

\* ... and, under the fairness of the threads, supersteps follow each other
\* until run() returns: no phase waits for ever for its workers.
ImplementsBSP == Abstract!Spec
=============================================================================
