--------------------------- MODULE VertexProgram ---------------------------
(***************************************************************************)
(* What the synchronous engine is given: a finalized graph and a vertex    *)
(* program (gather, apply, scatter).                                       *)
(*                                                                         *)
(* The engine asks the graph for the in-edges and the out-edges of a       *)
(* vertex (sync.cpp:145-166, 212-233) and calls the program on each.  One  *)
(* such call is a "visit": <<"in", e>> when e is met among the in-edges of *)
(* its target, <<"out", e>> when it is met among the out-edges of its      *)
(* source.  A self loop of a vertex that asks for ALL_EDGES is visited     *)
(* twice, as in the code.                                                  *)
(*                                                                         *)
(* A gather visit contributes the data of the vertex at the other end (in  *)
(* pagerank.cpp:41-49 weighted by a constant of that vertex).  The         *)
(* accumulator is kept as the function from visits to the values read,     *)
(* NoValue standing for a contribution that was not added: `accum += ...'  *)
(* is commutative, so the function determines the sum and says more.       *)
(* A scatter visit may signal the other end of the edge                    *)
(* (pagerank.cpp:71-82).                                                   *)
(***************************************************************************)
EXTENDS Integers

CONSTANTS
    NVerts,             \* graph.num_vertices()
    Edges,              \* the edge ids
    Source, Target,     \* the end points of an edge
    GatherDir,          \* what gather_edges returns for a vertex
    ScatterDir,         \* what scatter_edges returns for a vertex
    Val,                \* vertex_data_type
    NoValue,            \* not a value: no contribution
    InitData,           \* the vertex data the engine may start from
    Apply(_, _, _),     \* new data of a vertex, from its id, its data and
                        \* what its gather visits read
    Significant(_, _)   \* fabs(new - old) > TOLERANCE

Vertex == 0 .. NVerts - 1

EdgeDir == {"NO_EDGES", "IN_EDGES", "OUT_EDGES", "ALL_EDGES"}

Visit == {"in", "out"} \X Edges

\* The end of the edge at which a visit is made, and the far one.
Near(x)  == IF x[1] = "in" THEN Target[x[2]] ELSE Source[x[2]]
Other(x) == IF x[1] = "in" THEN Source[x[2]] ELSE Target[x[2]]

\* The tests `dir == IN_EDGES || dir == ALL_EDGES' and its OUT_EDGES twin.
Covers(dir, x) == \/ dir = "ALL_EDGES"
                  \/ dir = "IN_EDGES"  /\ x[1] = "in"
                  \/ dir = "OUT_EDGES" /\ x[1] = "out"

GatherVisits ==
    [v \in Vertex |-> {x \in Visit : Near(x) = v /\ Covers(GatherDir[v], x)}]

ScatterVisits ==
    [v \in Vertex |-> {x \in Visit : Near(x) = v /\ Covers(ScatterDir[v], x)}]

MaybeVal == Val \cup {NoValue}
Accum    == [Visit -> MaybeVal]

\* gather_type(), the accumulator nothing was added to.
NoAccum == [x \in Visit |-> NoValue]

\* The accumulator of a vertex all of whose gather visits read data.
GatherOf(v, data) ==
    [x \in Visit |-> IF x \in GatherVisits[v] THEN data[Other(x)] ELSE NoValue]

\* vprog.apply, which sees the accumulator of its own vertex only.
ApplyTo(v, old, acc) == Apply(v, old, [x \in GatherVisits[v] |-> acc[x]])

ASSUME GraphAssumption ==
    /\ NVerts \in Nat
    /\ Source \in [Edges -> Vertex]
    /\ Target \in [Edges -> Vertex]

ASSUME ProgramAssumption ==
    /\ GatherDir \in [Vertex -> EdgeDir]
    /\ ScatterDir \in [Vertex -> EdgeDir]
    /\ InitData \subseteq [Vertex -> Val]
    /\ \A v \in Vertex, old \in Val : \A acc \in [GatherVisits[v] -> MaybeVal] :
          Apply(v, old, acc) \in Val
    /\ \A old, new \in Val : Significant(old, new) \in BOOLEAN
=============================================================================
