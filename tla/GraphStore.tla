----------------------------- MODULE GraphStore -----------------------------
(***************************************************************************)
(* parallelgraph::graph (graph/graph.hpp): vertices and edges are added    *)
(* under global ids, finalize() builds the rows (_csr_storage: out-edges)  *)
(* and the columns (_csc_storage: in-edges), and the engine then reads     *)
(* them under local ids.  The calls come in any order: the class does not  *)
(* restrict them, and what depends on the order is said in the properties. *)
(***************************************************************************)
EXTENDS CountingSort, FiniteSets, Functions

CONSTANTS GlobalId,         \* the ids of the input
          VertexData,       \* VertexData, without the 1 finalize pushes
          MaxEdges,         \* bound on the lines loaded and edges added
          MaxVertexCalls,   \* bound on the calls of add_vertex
          MaxFinalize       \* bound on the calls of finalize

ASSUME StoreAssumption ==
    /\ MaxEdges \in Nat /\ MaxVertexCalls \in Nat /\ MaxFinalize \in Nat

VARIABLES
    directed,               \* set by the program before it loads anything
    global_id2local_id,
    current_local_id,       \* -1 before the first id
    local_id2gloabl_id,
    edge_buffer,            \* source_arr, target_arr and data
    vertices,
    edges,
    csr, csc,               \* the rows and the columns
    added,                  \* history: the edges added, in order
    built,                  \* history: how many of them the last finalize saw
    finalized,              \* history: calls of finalize
    early_calls,            \* history: calls of add_vertex before the last one
    vertex_calls            \* history: calls of add_vertex

ids     == <<global_id2local_id, current_local_id>>
history == <<added, built, finalized, early_calls, vertex_calls>>
vars    == <<directed, ids, local_id2gloabl_id, edge_buffer, vertices, edges,
             csr, csc, history>>

\* vertices.push_back(1), and what resize puts into a new element.
One  == "one"
Zero == "zero"

NoStorage == [values |-> <<>>, value_ptrs |-> <<>>]

Init == /\ directed \in BOOLEAN
        /\ global_id2local_id = <<>>
        /\ current_local_id = -1
        /\ local_id2gloabl_id = <<>>
        /\ edge_buffer = [source_arr |-> <<>>, target_arr |-> <<>>, data |-> <<>>]
        /\ vertices = <<>>
        /\ edges = <<>>
        /\ csr = NoStorage
        /\ csc = NoStorage
        /\ added = <<>>
        /\ built = 0
        /\ finalized = 0
        /\ early_calls = 0
        /\ vertex_calls = 0

\* The two ids and the counter after get_local_id(g), from a table and counter.
\* (Wrong: the counter is moved on for an id that is known.)
AlwaysNewId(table, g) ==
    [map  |-> [h \in DOMAIN table.map \cup {g} |->
                  IF h \in DOMAIN table.map THEN table.map[h] ELSE table.last + 1],
     last |-> table.last + 1]
GetLocalId(table, g) ==
    IF g \in DOMAIN table.map THEN table
    ELSE [map  |-> [h \in DOMAIN table.map \cup {g} |->
                       IF h = g THEN table.last + 1 ELSE table.map[h]],
          last |-> table.last + 1]

IdTable == [map |-> global_id2local_id, last |-> current_local_id]

SetIds(table) == /\ global_id2local_id' = table.map
                 /\ current_local_id' = table.last

Buffered(buffer, s, t, d) == [source_arr |-> Append(buffer.source_arr, s),
                              target_arr |-> Append(buffer.target_arr, t),
                              data       |-> Append(buffer.data, d)]

\* The data of the next edge: a number, so that it tells the edges apart.
NextData == Len(added)

\* add_edge(source, target, data), called by the program or for a line load
\* reads on a directed graph: the source gets its id first.
AddEdge(g, h) ==
    /\ Len(added) < MaxEdges
    /\ LET table == GetLocalId(GetLocalId(IdTable, g), h)
       IN /\ SetIds(table)
          /\ edge_buffer' = Buffered(edge_buffer, table.map[g], table.map[h], NextData)
    /\ added' = Append(added, <<g, h, NextData>>)
    /\ UNCHANGED <<directed, local_id2gloabl_id, vertices, edges, csr, csc,
                   built, finalized, early_calls, vertex_calls>>

\* The second edge of such a line.  (Wrong: the same way twice.)
SameWay(buffer, s, t, d)  == Buffered(buffer, s, t, d)
OtherWay(buffer, s, t, d) == Buffered(buffer, t, s, d)

\* A line of the file read by load on an undirected graph: an edge each way.
LoadUndirected(g, h) ==
    /\ ~directed
    /\ Len(added) + 2 <= MaxEdges
    /\ LET table == GetLocalId(GetLocalId(IdTable, g), h)
           once  == Buffered(edge_buffer, table.map[g], table.map[h], NextData)
       IN /\ SetIds(table)
          /\ edge_buffer' = OtherWay(once, table.map[g], table.map[h], NextData)
    /\ added' = added \o <<<<g, h, NextData>>, <<h, g, NextData>>>>
    /\ UNCHANGED <<directed, local_id2gloabl_id, vertices, edges, csr, csc,
                   built, finalized, early_calls, vertex_calls>>

\* vertices.resize(vid + 1) when it is shorter.
Grown(vec, n) == [i \in 1 .. IF n > Len(vec) THEN n ELSE Len(vec) |->
                     IF i <= Len(vec) THEN vec[i] ELSE Zero]

AddVertex(g, d) ==
    /\ vertex_calls < MaxVertexCalls
    /\ LET table == GetLocalId(IdTable, g)
           vid   == table.map[g]
       IN /\ SetIds(table)
          /\ vertices' = [Grown(vertices, vid + 1) EXCEPT ![vid + 1] = d]
    /\ vertex_calls' = vertex_calls + 1
    /\ UNCHANGED <<directed, local_id2gloabl_id, edge_buffer, edges, csr, csc,
                   added, built, finalized, early_calls>>

\* The pairs of the other end of an edge and its id, in the order of a
\* permutation of the edge ids.  (Wrong: the ends in the order they were added.)
UnpermutedStorage(ends, sorted) ==
    [values     |-> [k \in 1 .. Len(sorted.permute) |->
                        <<ends[k], sorted.permute[k]>>],
     value_ptrs |-> sorted.prefix]
Storage(ends, sorted) ==
    [values     |-> [k \in 1 .. Len(sorted.permute) |->
                        <<At(ends, sorted.permute[k]), sorted.permute[k]>>],
     value_ptrs |-> sorted.prefix]

\* The largest local id; 0 when there is none.
MaxVal == IF current_local_id < 0 THEN 0 ELSE current_local_id

\* The vertices finalize pushes.  (Wrong: i < max_val.)
OneVertexShort == [i \in 1 .. MaxVal |-> One]
PushedVertices == [i \in 1 .. MaxVal + 1 |-> One]

\* finalize() down to its last loop.  The buffer keeps its end points and takes
\* the old edge data.
BuildStorage ==
    /\ finalized < MaxFinalize
    /\ local_id2gloabl_id' =
          [l \in DOMAIN local_id2gloabl_id \cup Range(global_id2local_id) |->
              IF l \in Range(global_id2local_id)
              THEN CHOOSE g \in DOMAIN global_id2local_id : global_id2local_id[g] = l
              ELSE local_id2gloabl_id[l]]
    /\ csr' = Storage(edge_buffer.target_arr, Sorted(edge_buffer.source_arr, MaxVal))
    /\ csc' = Storage(edge_buffer.source_arr, Sorted(edge_buffer.target_arr, MaxVal))
    /\ edges' = edge_buffer.data
    /\ edge_buffer' = [edge_buffer EXCEPT !.data = edges]
    /\ built' = Len(added)
    /\ finalized' = finalized + 1
    /\ early_calls' = vertex_calls
    /\ UNCHANGED <<directed, ids, added, vertex_calls>>

\* finalize(), with a vertex for every id at its end.
Finalize == BuildStorage /\ vertices' = vertices \o PushedVertices

Next == \/ \E g, h \in GlobalId : AddEdge(g, h) \/ LoadUndirected(g, h)
        \/ \E g \in GlobalId, d \in VertexData : AddVertex(g, d)
        \/ Finalize

Spec == Init /\ [][Next]_vars

-----------------------------------------------------------------------------
(* What the engine reads.                                                  *)

NumVertices == Len(vertices)
NumEdges    == Len(edges)

\* Row or column v: the values from value_ptrs[v] to value_ptrs[v + 1] - 1.
Slice(storage, v) == SubSeq(storage.values, At(storage.value_ptrs, v) + 1,
                                            At(storage.value_ptrs, v + 1))
OutEdges(v)    == Slice(csr, v)
InEdges(v)     == Slice(csc, v)
NumOutEdges(v) == At(csr.value_ptrs, v + 1) - At(csr.value_ptrs, v)
NumInEdges(v)  == At(csc.value_ptrs, v + 1) - At(csc.value_ptrs, v)
-----------------------------------------------------------------------------
(* Properties.                                                             *)

LocalId == 0 .. current_local_id

EdgeId   == 0 .. MaxEdges - 1
EdgeData == 0 .. MaxEdges - 1

TypeOK ==
    /\ directed \in BOOLEAN
    /\ current_local_id \in -1 .. Cardinality(GlobalId) - 1
    /\ DOMAIN global_id2local_id \subseteq GlobalId
    /\ Range(global_id2local_id) \subseteq LocalId
    /\ Range(edge_buffer.source_arr) \subseteq LocalId
    /\ Range(edge_buffer.target_arr) \subseteq LocalId
    /\ Range(edge_buffer.data) \subseteq EdgeData
    /\ Range(vertices) \subseteq VertexData \cup {One, Zero}
    /\ Range(edges) \subseteq EdgeData
    /\ Range(csr.values) \cup Range(csc.values) \subseteq LocalId \X EdgeId
    /\ Range(csr.value_ptrs) \cup Range(csc.value_ptrs) \subseteq 0 .. MaxEdges

\* Local ids are 0, 1, 2, ... without a gap and no two global ids share one,
\* however get_local_id is reached, from edges or from vertices
\* (graph.hpp:338-354); after finalize the inverse map is the inverse.
IdsBijective ==
    /\ Cardinality(DOMAIN global_id2local_id) = current_local_id + 1
    /\ Range(global_id2local_id) = LocalId
    /\ \A l \in DOMAIN local_id2gloabl_id :
          global_id2local_id[local_id2gloabl_id[l]] = l

\* The counting sort of graph.hpp:248-250, with the max_val finalize computes,
\* sorts both ends of the buffer stably and its prefix sums delimit the
\* values, whatever was loaded (counting_sort.hpp:7-49).
SortsEdges ==
    \A vals \in {edge_buffer.source_arr, edge_buffer.target_arr} :
        LET sorted == Sorted(vals, MaxVal)
        IN /\ IsStableSort(vals, sorted.permute)
           /\ HasPrefixSums(vals, MaxVal, sorted.permute, sorted.prefix)

\* The edges the last finalize saw, as <<source, target, data>> in local ids.
BuiltEdge(e) == <<global_id2local_id[added[e + 1][1]],
                  global_id2local_id[added[e + 1][2]], added[e + 1][3]>>
BuiltEdges == 0 .. built - 1

\* The vertices finalize had rows for.
Rows == 0 .. Len(csr.value_ptrs) - 2

\* Row v lists the out-edges of v and column v its in-edges, each edge once
\* with its id and its other end, by increasing id, and the sizes agree: the
\* engine's gather and scatter see every edge of the input exactly once
\* (graph.hpp:248-266, 274-310).  It holds after any calls, also when edges
\* were added after finalize (they are not in the rows yet) and when finalize
\* is called again.
RowsAndColumns ==
    \A v \in Rows :
        LET out == {e \in BuiltEdges : BuiltEdge(e)[1] = v}
            in  == {e \in BuiltEdges : BuiltEdge(e)[2] = v}
        IN /\ Range(OutEdges(v)) = {<<BuiltEdge(e)[2], e>> : e \in out}
           /\ Range(InEdges(v)) = {<<BuiltEdge(e)[1], e>> : e \in in}
           /\ Len(OutEdges(v)) = NumOutEdges(v) /\ NumOutEdges(v) = Cardinality(out)
           /\ Len(InEdges(v)) = NumInEdges(v) /\ NumInEdges(v) = Cardinality(in)
           /\ \A i, j \in 1 .. Len(OutEdges(v)) :
                 i < j => OutEdges(v)[i][2] < OutEdges(v)[j][2]

\* pagerank's use of the class: load everything, then finalize, once.
LoadedThenFinalized == finalized = 1 /\ vertex_calls = 0 /\ built = Len(added)

\* What Engine's constructor and workers take for granted (sync.cpp:64-68,
\* 142-153): there is a vertex for every id and no other, a row and a column
\* for every vertex, every end of an edge is a vertex, and the id of an edge
\* finds its data.
EngineCanRun ==
    /\ NumVertices = Cardinality(DOMAIN global_id2local_id)
    /\ Rows = 0 .. NumVertices - 1
    /\ Len(csc.value_ptrs) = NumVertices + 1
    /\ \A v \in Rows : \A pair \in Range(OutEdges(v)) \cup Range(InEdges(v)) :
          pair[1] < NumVertices /\ pair[2] < NumEdges
    /\ NumEdges = built
    /\ \A e \in BuiltEdges : At(edges, e) = BuiltEdge(e)[3]

\* Of all the orders in which the class may be called, those after which it
\* can be given to an engine are the ones with one finalize, an edge or more
\* and no add_vertex before it, and no new id after it: finalize appends a
\* vertex for every id to those there are, and without an edge it makes a
\* vertex that has no row (graph.hpp:229, 248-271).
ReadyForEngine ==
    finalized > 0 =>
        (EngineCanRun <=> /\ finalized = 1
                          /\ built > 0
                          /\ early_calls = 0
                          /\ DOMAIN local_id2gloabl_id = LocalId)

\* Only whole lines were loaded, two edges each.
OnlyLoaded ==
    \A e \in BuiltEdges : e % 2 = 0 =>
        /\ e + 1 < built
        /\ added[e + 1][1] = added[e + 2][2]
        /\ added[e + 1][2] = added[e + 2][1]

\* An undirected graph has each edge in both directions (graph.hpp:101-104):
\* after loading, the row and the column of a vertex name the same neighbours,
\* each as often.
UndirectedIsSymmetric ==
    ~directed /\ LoadedThenFinalized /\ OnlyLoaded =>
        \A v \in Rows : \A u \in Rows :
            Cardinality({i \in DOMAIN OutEdges(v) : OutEdges(v)[i][1] = u})
              = Cardinality({i \in DOMAIN InEdges(v) : InEdges(v)[i][1] = u})
=============================================================================
