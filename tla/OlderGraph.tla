----------------------------- MODULE OlderGraph -----------------------------
(***************************************************************************)
(* The older graph (graph/graph.1.hpp) and what its two programs make of   *)
(* it.  It is GraphStore's class with two differences: load ends with      *)
(* init_matrix_flag, which gives the scheduler its flags and its queue,    *)
(* and finalize adds no vertices, so that those there are come from        *)
(* add_vertex.  apps/main.cpp loads a graph and starts the scheduler       *)
(* (VertexScheduler); apps/lbp/main.cpp loads the edges, loads the data of *)
(* the vertices, finalizes, initialises the messages of the edges and      *)
(* starts belief propagation (LoopyBP).                                    *)
(***************************************************************************)
EXTENDS GraphStore

CONSTANT MaxLoads       \* bound on the calls of load

ASSUME OlderAssumption == MaxLoads \in Nat

VARIABLES
    matrix_flag,        \* the widths of its rows; no flag is set yet
    activate_vertexes,  \* the queue
    loads,              \* history: calls of load that have ended
    scheduled           \* history: the ids there were when the matrix got
                        \* its first row

scheduler == <<matrix_flag, activate_vertexes, loads, scheduled>>
allVars   == <<vars, scheduler>>

OlderInit == /\ Init
             /\ matrix_flag = <<>>
             /\ activate_vertexes = <<>>
             /\ loads = 0
             /\ scheduled = 0

\* A line of load, or a call of add_edge.
LoadLine(g, h) == (AddEdge(g, h) \/ LoadUndirected(g, h)) /\ UNCHANGED scheduler

NumIds == current_local_id + 1

\* The number of rows init_matrix_flag appends, their width, and the number of
\* vertices it queues.  (Wrong: current_local_id, as in the code that is
\* commented out at graph.1.hpp:266.)
OneIdShort == IF current_local_id < 0 THEN 0 ELSE current_local_id
MatrixSize == NumIds

\* The file of load ends: init_matrix_flag.  Nothing is cleared before.
EndLoad ==
    /\ loads < MaxLoads
    /\ matrix_flag' = matrix_flag \o [i \in 1 .. MatrixSize |-> MatrixSize]
    /\ activate_vertexes' = activate_vertexes \o [i \in 1 .. MatrixSize |-> i - 1]
    /\ loads' = loads + 1
    /\ scheduled' = IF scheduled = 0 THEN NumIds ELSE scheduled
    /\ UNCHANGED vars

\* A line of load_vdata: the data of a vertex.
LoadVertex(g, d) == AddVertex(g, d) /\ UNCHANGED scheduler

\* The vertices after finalize: those that were loaded.
OlderFinalize == BuildStorage /\ UNCHANGED <<vertices, scheduler>>

OlderNext == \/ \E g, h \in GlobalId : LoadLine(g, h)
             \/ EndLoad
             \/ \E g \in GlobalId, d \in VertexData : LoadVertex(g, d)
             \/ OlderFinalize

OlderSpec == OlderInit /\ [][OlderNext]_allVars

-----------------------------------------------------------------------------
(* What the two programs read.                                             *)

\* The cells <<row, column>> of the matrix that are there.
Cells == {cell \in (0 .. Len(matrix_flag) - 1) \X (0 .. NumIds) :
             cell[2] < At(matrix_flag, cell[1])}

\* The cells get_vertex_to_run looks at and sets for vertex v.
CellsOf(v) == {<<i, v>> : i \in 0 .. NumIds - 1} \cup {<<v, i>> : i \in 0 .. NumIds - 1}

\* The calls of edge::initialize by lbp's main: for each vertex, each of its
\* out-edges, with the two ends.  (Wrong: the last vertex is left out.)
AllButLast      == 0 .. NumVertices - 2
InitialVertices == 0 .. NumVertices - 1
Initialized ==
    UNION {{<<OutEdges(v)[i][2], v, OutEdges(v)[i][1]>> : i \in DOMAIN OutEdges(v)} :
              v \in InitialVertices}

\* lbp's queue before its main loop.
InitialRun == [i \in 1 .. NumVertices |-> i - 1]
-----------------------------------------------------------------------------
(* Properties.                                                             *)

\* The scheduler stays within its matrix exactly as long as every id is one
\* that the first load to find any already knew: a second load appends rows to
\* the old ones, which stay as short as they were, and add_vertex none at all
\* (graph.1.hpp:254-273, 284-305).
SchedulerInBounds ==
    activate_vertexes # <<>> =>
        ((\A v \in Range(activate_vertexes) : CellsOf(v) \subseteq Cells)
            <=> NumIds = scheduled)

\* The data file has a line for every id.
AllData == \A l \in LocalId : l < NumVertices /\ At(vertices, l) # Zero

\* finalize came after every edge and every new id.
FinalizedLast == finalized = 1 /\ built = Len(added) /\ DOMAIN local_id2gloabl_id = LocalId

\* What LoopyBP starts from: each edge has both of its directions set to zero,
\* once, under the ids of its real ends, both of which are in the queue, and
\* the queue is all the ids, which save_pred can name.  It is so when there is
\* an edge and every id of the edge file has a line in the vertex file, in
\* whatever order the two are loaded (lbp/main.cpp:105-106, 137-152,
\* graph.1.hpp:101-169).
LoopyBPReady ==
    FinalizedLast /\ built > 0 /\ AllData =>
        /\ Initialized = {<<e, BuiltEdge(e)[1], BuiltEdge(e)[2]>> : e \in BuiltEdges}
        /\ built = MapThenSumSet(LAMBDA v : Len(OutEdges(v)), InitialVertices)
        /\ \A x \in Initialized : {x[2], x[3]} \subseteq Range(InitialRun)
        /\ Range(InitialRun) = DOMAIN local_id2gloabl_id
=============================================================================
