------------------------ MODULE GingerMastersProofs ------------------------
(***************************************************************************)
(* Proofs about what the first finalization of the hybrid Ginger ingress   *)
(* agrees on, for any cluster, input, hash, threshold and score: one       *)
(* master per vertex, edges placed by it, data spread from it.             *)
(*                                                                         *)
(* The processes go from barrier to barrier in lockstep (Together), which  *)
(* says what each exchange may hold when (Emptied).  The masters are a     *)
(* function M that no process has: Spread says how far each has learnt it, *)
(* Cut, Data and Recording what has been done by it, each under the        *)
(* condition on where a process is that makes it so.                       *)
(*                                                                         *)
(* From the masters follow the degrees and the counters.  All replicas of  *)
(* a vertex send what they gathered to one master, and no edge is in two   *)
(* local graphs, so the sum is the degree; the replicas of the vertices,   *)
(* counted process by process, are those counted vertex by vertex.         *)
(***************************************************************************)
EXTENDS GingerIngressProofs

-----------------------------------------------------------------------------
(* Where the processes are.                                                *)

\* Between two barriers.
Loading   == {"load", "flush"}
Deciding  == {"alone", "collect", "assign", "sync", "mht_flush"}
Learning  == {"mht_recv", "edge_flush"}
Placing   == {"place", "resend_flush"}
Receiving == {"receive_high", "full_barrier"}
Building  == {"build", "vertex_flush"}
Naming    == {"vertices", "vid_flush"}
Meeting   == {"handshake", "sync_meta"}
Typing    == {"degree_type", "gather_counts"}
Segments  == {Loading, Deciding, Learning, Placing, Receiving, Building, Naming, Meeting, Typing}

Together(S) == \A p \in Proc : pc[p] \in S

\* The processes are between the same two barriers, and one that takes the
\* way of a cluster of one is alone.
Lockstep ==
    /\ \E S \in Segments : Together(S)
    /\ \A p \in Proc : pc[p] = "alone" => Proc = {p}
    /\ round = 0 => Together(Loading)

\* What a step of p does to its position.
Moves(p) ==
    \/ pc[p] = "alone" /\ pc'[p] = "full_barrier" /\ CollectAll(p)
    \/ pc[p] = "collect" /\ pc'[p] = "assign" /\ CollectEdges(p)
    \/ /\ pc[p] = "assign" /\ pc'[p] \in {"assign", "sync"}
       /\ \E t \in Targets(raw_map[p]) : AssignHigh(p, t) \/ AssignLow(p, t)
    \/ pc[p] = "sync" /\ pc'[p] = "assign" /\ SyncHeuristic(p)
    \/ pc[p] = "assign" /\ pc'[p] = "mht_flush" /\ AssignEnds(p)
    \/ pc[p] = "mht_recv" /\ pc'[p] = "edge_flush" /\ LastSynchronize(p)
    \/ pc[p] = "place" /\ pc'[p] = "resend_flush" /\ PlaceEdges(p)
    \/ pc[p] = "receive_high" /\ pc'[p] = "full_barrier" /\ ReceiveHigh(p)
    \/ pc[p] = "build" /\ pc'[p] = "vertex_flush" /\ BuildLocalGraph(p)
    \/ pc[p] = "vertices" /\ pc'[p] = "vid_flush" /\ ReceiveVertices(p)
    \/ pc[p] = "handshake" /\ pc'[p] = "sync_meta" /\ Handshake(p)
    \/ pc[p] = "degree_type" /\ pc'[p] = "gather_counts" /\ SetDegreeType(p)

LEMMA StepMoves ==
  ASSUME TypeInv, NEW p \in Proc, Step(p)
  PROVE  /\ \A q \in Proc : q # p => pc'[q] = pc[q]
         /\ UNCHANGED input
         /\ Moves(p)
<1>0. \A l : pc' = [pc EXCEPT ![p] = l] => pc'[p] = l /\ \A q \in Proc : q # p => pc'[q] = pc[q]
  BY DEF TypeInv, Types, ControlTypes
<1>1. CASE CollectAll(p) \/ CollectEdges(p)
  BY <1>0, <1>1 DEF CollectAll, CollectEdges, Goto, Moves
<1>2. ASSUME NEW t \in Targets(raw_map[p]), AssignHigh(p, t) \/ AssignLow(p, t)
      PROVE  /\ \A q \in Proc : q # p => pc'[q] = pc[q]
             /\ UNCHANGED input
             /\ Moves(p)
  <2>1. pc[p] = "assign" /\ UNCHANGED input /\ AfterTarget(p)
    BY <1>2 DEF AssignHigh, AssignLow
  <2> QED
    BY <1>0, <1>2, <2>1 DEF AfterTarget, Moves
<1>3. CASE SyncHeuristic(p)
  BY <1>0, <1>3 DEF SyncHeuristic, Goto, Moves
<1>4. CASE AssignEnds(p) \/ LastSynchronize(p)
  BY <1>0, <1>4 DEF AssignEnds, LastSynchronize, Goto, Moves
<1>5. CASE PlaceEdges(p) \/ ReceiveHigh(p)
  BY <1>0, <1>5 DEF PlaceEdges, ReceiveHigh, Goto, Moves
<1>6. CASE BuildLocalGraph(p)
  BY <1>0, <1>6 DEF BuildLocalGraph, Goto, Moves
<1>7. CASE ReceiveVertices(p)
  BY <1>0, <1>7 DEF ReceiveVertices, Goto, Moves
<1>8. CASE Handshake(p) \/ SetDegreeType(p)
  BY <1>0, <1>8 DEF Handshake, SetDegreeType, Goto, Moves
<1> QED
  BY <1>1, <1>2, <1>3, <1>4, <1>5, <1>6, <1>7, <1>8 DEF Step

LEMMA LoadMoves ==
  ASSUME TypeInv, NEW p \in Proc, Load(p)
  PROVE  /\ pc[p] = "load" /\ pc'[p] \in Loading
         /\ \A q \in Proc : q # p => pc'[q] = pc[q]
         /\ UNCHANGED round
  BY DEF Load, AddEdge, AddVertex, CallFinalize, Goto, TypeInv, Types, ControlTypes, input, Loading

\* The steps all take together.
CollectiveMoves ==
    \/ /\ \A q \in Proc : pc[q] = "flush" /\ pc'[q] = "load"
       /\ UNCHANGED round /\ BeginFinalize
    \/ /\ \A q \in Proc : pc[q] = "flush" /\ pc'[q] = IF nprocs = 1 THEN "alone" ELSE "collect"
       /\ round' = round + 1 /\ BeginFinalize
    \/ /\ UNCHANGED round
       /\ \E l \in DOMAIN After : Barrier(l) /\ \A q \in Proc : pc[q] = l /\ pc'[q] = After[l]
    \/ UNCHANGED round /\ SyncMeta /\ \A q \in Proc : pc[q] = "sync_meta" /\ pc'[q] = "degree_type"
    \/ UNCHANGED round /\ GatherCounts /\ \A q \in Proc : pc[q] = "gather_counts" /\ pc'[q] = "load"

LEMMA CollectiveMove ==
  ASSUME TypeInv, Collective
  PROVE  CollectiveMoves
<1>1. CASE BeginFinalize
  <2>1. PICK p \in Proc : TRUE
    BY Cluster DEF TypeInv, Types, ControlTypes, Proc
  <2>2. \A q \in Proc : Changed(q) <=> Changed(p)
    BY DEF Changed
  <2> QED
    BY <1>1, <2>1, <2>2 DEF BeginFinalize, CollectiveMoves, AllAt, standalone
<1>2. CASE \E l \in DOMAIN After : Barrier(l)
  BY <1>2 DEF Barrier, CollectiveMoves, AllAt, input
<1>3. CASE SyncMeta \/ GatherCounts
  BY <1>3 DEF SyncMeta, GatherCounts, CollectiveMoves, AllAt, input
<1> QED
  BY <1>1, <1>2, <1>3 DEF Collective

LEMMA NextLockstep ==
  ASSUME TypeInv, Lockstep, Next
  PROVE  Lockstep'
<1>0. Proc' = Proc /\ Proc # {}
  BY SameCluster, Cluster DEF Next, TypeInv, Types, ControlTypes, Proc
<1>1. PICK S \in Segments : Together(S)
  BY DEF Lockstep
<1> USE DEF Together
<1>2. ASSUME NEW p \in Proc, Load(p) PROVE Lockstep'
  <2>1. S = Loading
    BY <1>1, <1>2, LoadMoves DEF Segments, Loading, Deciding, Learning, Placing, Receiving,
                                 Building, Naming, Meeting, Typing
  <2>2. Together(Loading)'
    BY <1>0, <1>1, <1>2, <2>1, LoadMoves
  <2> QED
    BY <1>0, <2>2 DEF Lockstep, Segments, Loading
<1>3. ASSUME NEW p \in Proc, Step(p) PROVE Lockstep'
  <2>1. Moves(p) /\ (\A q \in Proc : q # p => pc'[q] = pc[q]) /\ UNCHANGED round
    BY <1>3, StepMoves DEF input
  <2>2. pc'[p] # "alone" /\ pc[p] \notin Loading
    BY <2>1 DEF Moves, Loading
  <2>3. round # 0
    BY <1>0, <2>2 DEF Lockstep
  <2>4. CASE pc[p] = "alone"
    <3>1. pc'[p] = "full_barrier" /\ Proc = {p}
      BY <2>1, <2>4 DEF Moves, Lockstep
    <3>2. Together(Receiving)'
      BY <1>0, <3>1 DEF Receiving
    <3> QED
      BY <1>0, <2>1, <2>2, <2>3, <3>1, <3>2 DEF Lockstep, Segments
  <2>5. CASE pc[p] # "alone"
    <3>1. pc'[p] \in S
      BY <1>1, <2>1, <2>5 DEF Moves, Segments, Loading, Deciding, Learning, Placing, Receiving,
                              Building, Naming, Meeting, Typing
    <3>2. Together(S)'
      BY <1>0, <1>1, <2>1, <3>1
    <3> QED
      BY <1>0, <2>1, <2>2, <2>3, <3>2 DEF Lockstep
  <2> QED
    BY <2>4, <2>5
<1>4. CASE Collective
  <2>1. CollectiveMoves
    BY <1>4, CollectiveMove
  <2>2. \E T \in Segments : \A q \in Proc : pc'[q] \in T
    BY <2>1 DEF CollectiveMoves, After, Segments, Loading, Deciding, Learning, Placing, Receiving,
                Building, Naming, Meeting, Typing
  <2>3. \A q \in Proc : pc'[q] = "alone" => nprocs = 1
    BY <2>1 DEF CollectiveMoves, After
  <2>4. nprocs = 1 => \A q \in Proc : Proc = {q}
    BY DEF Proc
  <2>5. round' = 0 => Together(Loading)'
    <3>1. round \in Nat
      BY DEF TypeInv, Types, ControlTypes
    <3>2. \A q \in Proc : round' = 0 => round = 0 /\ pc[q] \in Loading
      BY <1>0, <2>1, <3>1 DEF CollectiveMoves, Lockstep
    <3> QED
      BY <1>0, <2>1, <3>1, <3>2 DEF CollectiveMoves, After, Loading
  <2> QED
    BY <1>0, <2>2, <2>3, <2>4, <2>5 DEF Lockstep
<1> QED
  BY <1>2, <1>3, <1>4 DEF Next

-----------------------------------------------------------------------------
(* What the exchanges hold, and when.                                      *)

HighLowEmpty == \A p \in Proc :
    pc[p] \notin {"collect", "assign", "sync", "mht_flush", "place"} \cup Learning =>
        high_edge_exchange[p] = {} /\ low_edge_exchange[p] = {}
LoadedEmpty == \A p \in Proc :
    pc[p] \notin {"alone", "collect", "receive_high"} \cup Loading \cup Placing =>
        hybrid_edge_exchange[p] = {}
PlacedEmpty == \A p \in Proc :
    pc[p] \notin {"resend_flush", "build"} \cup Receiving => hybrid_edges[p] = {}
PairsEmpty == \A p \in Proc :
    pc[p] \notin {"collect", "assign", "sync", "mht_flush", "mht_recv"} => mht_exchange[p] = {}
ResendEmpty == \A p \in Proc :
    pc[p] \notin {"vertices"} \cup Building => resend_vertex_exchange[p] = {}
BufferEmpty == \A p \in Proc :
    pc[p] \notin {"vertex_flush", "handshake"} \cup Naming => vid2lvid_buffer[p] = {}
VidsEmpty == \A p \in Proc :
    pc[p] \notin {"handshake"} \cup Naming => vid_buffer[p] = {}

Emptied == /\ HighLowEmpty /\ LoadedEmpty /\ PlacedEmpty /\ PairsEmpty
           /\ ResendEmpty /\ BufferEmpty /\ VidsEmpty

\* Which steps write what.
LEMMA StepWrites ==
  ASSUME NEW p \in Proc, Step(p)
  PROVE  /\ UNCHANGED <<edges_added, vertices_added, round>>
         /\ \/ UNCHANGED <<high_edge_exchange, low_edge_exchange>>
            \/ (\E t \in Targets(raw_map[p]) : AssignHigh(p, t) \/ AssignLow(p, t)) \/ PlaceEdges(p)
         /\ \/ UNCHANGED hybrid_edge_exchange
            \/ CollectAll(p) \/ CollectEdges(p) \/ PlaceEdges(p) \/ ReceiveHigh(p)
         /\ \/ UNCHANGED hybrid_edges
            \/ CollectAll(p) \/ PlaceEdges(p) \/ ReceiveHigh(p) \/ BuildLocalGraph(p)
         /\ \/ UNCHANGED mht_exchange
            \/ (\E t \in Targets(raw_map[p]) : AssignLow(p, t)) \/ SyncHeuristic(p) \/ LastSynchronize(p)
         /\ \/ UNCHANGED mht
            \/ (\E t \in Targets(raw_map[p]) : AssignLow(p, t)) \/ SyncHeuristic(p) \/ LastSynchronize(p)
            \/ PlaceEdges(p) \/ ReceiveHigh(p) \/ BuildLocalGraph(p) \/ ReceiveVertices(p)
         /\ \/ UNCHANGED raw_map
            \/ CollectEdges(p) \/ \E t \in Targets(raw_map[p]) : AssignHigh(p, t) \/ AssignLow(p, t)
         /\ UNCHANGED <<resend_vertex_exchange, local_data>> \/ BuildLocalGraph(p) \/ ReceiveVertices(p)
         /\ UNCHANGED hybrid_vertex_exchange \/ BuildLocalGraph(p)
         /\ UNCHANGED local_edges \/ BuildLocalGraph(p)
         /\ UNCHANGED vid2lvid_buffer \/ BuildLocalGraph(p) \/ ReceiveVertices(p) \/ Handshake(p)
         /\ UNCHANGED vid_buffer \/ ReceiveVertices(p) \/ Handshake(p)
         /\ UNCHANGED vid2lvid \/ Handshake(p)
         /\ UNCHANGED lvid2record \/ ReceiveVertices(p) \/ Handshake(p) \/ SetDegreeType(p)
<1> USE DEF input, ingress, edgeExch, masters, assigning, building, localg
<1>1. CASE CollectAll(p)
  BY <1>1 DEF CollectAll
<1>2. CASE CollectEdges(p)
  BY <1>2 DEF CollectEdges
<1>3. ASSUME NEW t \in Targets(raw_map[p]), AssignHigh(p, t)
      PROVE  UNCHANGED <<input, ingress, masters, building>>
  BY <1>3 DEF AssignHigh
<1>4. ASSUME NEW t \in Targets(raw_map[p]), AssignLow(p, t)
      PROVE  UNCHANGED <<input, ingress, building>>
  BY <1>4 DEF AssignLow
<1>5. CASE SyncHeuristic(p)
  <2>1. UNCHANGED <<input, ingress, edgeExch, assigning, building>>
    BY <1>5 DEF SyncHeuristic
  <2> QED
    BY <1>5, <2>1
<1>6. CASE AssignEnds(p)
  BY <1>6 DEF AssignEnds
<1>7. CASE LastSynchronize(p)
  <2>1. UNCHANGED <<input, ingress, edgeExch, assigning, building>>
    BY <1>7 DEF LastSynchronize
  <2> QED
    BY <1>7, <2>1
<1>8. CASE PlaceEdges(p)
  <2>1. UNCHANGED <<input, hybrid_vertex_exchange, mht_exchange, assigning,
                    resend_vertex_exchange, vid_buffer, localg, counts>>
    BY <1>8 DEF PlaceEdges
  <2> QED
    BY <1>8, <2>1
<1>9. CASE ReceiveHigh(p)
  <2>1. UNCHANGED <<input, hybrid_vertex_exchange, edgeExch, mht_exchange, assigning,
                    resend_vertex_exchange, vid_buffer, localg, counts>>
    BY <1>9 DEF ReceiveHigh
  <2> QED
    BY <1>9, <2>1
<1>10. CASE BuildLocalGraph(p)
  <2>1. UNCHANGED <<input, hybrid_edge_exchange, edgeExch, mht_exchange, assigning,
                    vid_buffer, local_data, vid2lvid, lvid2record, counts>>
    BY <1>10 DEF BuildLocalGraph
  <2> QED
    BY <1>10, <2>1
<1>11. CASE ReceiveVertices(p)
  <2>1. UNCHANGED <<input, ingress, edgeExch, mht_exchange, assigning, hybrid_edges,
                    local_edges, vid2lvid, counts>>
    BY <1>11 DEF ReceiveVertices
  <2> QED
    BY <1>11, <2>1
<1>12. CASE Handshake(p)
  <2>1. UNCHANGED <<input, ingress, edgeExch, masters, assigning,
                    resend_vertex_exchange, hybrid_edges, local_edges, local_data, counts>>
    BY <1>12 DEF Handshake
  <2> QED
    BY <1>12, <2>1
<1>13. CASE SetDegreeType(p)
  <2>1. UNCHANGED <<input, ingress, edgeExch, masters, assigning, resend_vertex_exchange, vid_buffer,
                    hybrid_edges, local_edges, local_data, vid2lvid, vid2lvid_buffer>>
    BY <1>13 DEF SetDegreeType
  <2> QED
    BY <1>13, <2>1
<1> QED
  BY <1>1, <1>2, <1>3, <1>4, <1>5, <1>6, <1>7, <1>8, <1>9, <1>10, <1>11, <1>12, <1>13 DEF Step

\* What the other steps leave alone.
LEMMA LoadWrites ==
  ASSUME NEW p \in Proc, Load(p)
  PROVE  /\ UNCHANGED <<high_edge_exchange, low_edge_exchange, raw_map, mht, mht_exchange,
                        resend_vertex_exchange, vid_buffer, hybrid_edges, local_edges, local_data,
                        vid2lvid, vid2lvid_buffer, lvid2record>>
         /\ \/ UNCHANGED <<edges_added, hybrid_edge_exchange>>
            \/ \E s, t \in VertexId : AddEdge(p, s, t)
         /\ \/ UNCHANGED <<vertices_added, hybrid_vertex_exchange>>
            \/ \E v \in VertexId : AddVertex(p, v)
<1> USE DEF input, ingress, edgeExch, masters, assigning, building, localg
<1>1. ASSUME NEW s \in VertexId, NEW t \in VertexId, AddEdge(p, s, t)
      PROVE  UNCHANGED <<vertices_added, round, hybrid_vertex_exchange, edgeExch, masters, assigning, building>>
  BY <1>1 DEF AddEdge
<1>2. ASSUME NEW v \in VertexId, AddVertex(p, v)
      PROVE  UNCHANGED <<edges_added, round, hybrid_edge_exchange, edgeExch, masters, assigning, building>>
  BY <1>2 DEF AddVertex
<1>3. CASE CallFinalize(p)
  BY <1>3 DEF CallFinalize
<1> QED
  BY <1>1, <1>2, <1>3 DEF Load

LEMMA CollectiveWrites ==
  ASSUME Collective
  PROVE  /\ UNCHANGED <<edges_added, vertices_added, hybrid_edge_exchange, hybrid_vertex_exchange,
                        high_edge_exchange, low_edge_exchange, raw_map, mht, mht_exchange,
                        resend_vertex_exchange, vid_buffer, hybrid_edges, local_edges,
                        vid2lvid, vid2lvid_buffer>>
         /\ UNCHANGED <<local_data, lvid2record>> \/ SyncMeta
<1> USE DEF input, ingress, edgeExch, masters, assigning, building, localg
<1>1. CASE BeginFinalize
  BY <1>1 DEF BeginFinalize
<1>2. CASE \E l \in DOMAIN After : Barrier(l)
  BY <1>2 DEF Barrier
<1>3. CASE SyncMeta
  <2>1. UNCHANGED <<input, ingress, edgeExch, masters, assigning,
                    resend_vertex_exchange, vid_buffer, hybrid_edges, local_edges,
                    vid2lvid, vid2lvid_buffer, counts>>
    BY <1>3 DEF SyncMeta
  <2> QED
    BY <1>3, <2>1
<1>4. CASE GatherCounts
  <2>1. UNCHANGED <<input, ingress, edgeExch, masters, assigning,
                    resend_vertex_exchange, vid_buffer, hybrid_edges, localg>>
    BY <1>4 DEF GatherCounts
  <2> QED
    BY <2>1
<1> QED
  BY <1>1, <1>2, <1>3, <1>4 DEF Collective

\* Where one process is tells where the others are.
LEMMA AllTogether ==
  ASSUME Lockstep, NEW S \in Segments, NEW p \in Proc, pc[p] \in S
  PROVE  Together(S)
<1>1. PICK T \in Segments : Together(T)
  BY DEF Lockstep
<1>2. pc[p] \in T
  BY <1>1 DEF Together
<1>3. S = T
  BY <1>2 DEF Segments, Loading, Deciding, Learning, Placing, Receiving, Building, Naming, Meeting, Typing
<1> QED
  BY <1>1, <1>3

\* A process that assigns is not alone.
LEMMA AllAssign ==
  ASSUME Lockstep, NEW p \in Proc, pc[p] \in {"assign", "sync", "mht_flush", "collect"}
  PROVE  \A q \in Proc : pc[q] \in {"assign", "sync", "mht_flush", "collect"}
<1>1. Together(Deciding)
  BY AllTogether DEF Segments, Deciding
<1> QED
  BY <1>1 DEF Together, Deciding, Lockstep

LEMMA HighLowEmpties ==
  ASSUME TypeInv, Lockstep, HighLowEmpty, Next
  PROVE  HighLowEmpty'
<1>0. Proc' = Proc /\ Types
  BY SameCluster DEF Next, TypeInv
<1>1. ASSUME UNCHANGED <<high_edge_exchange, low_edge_exchange>>,
             \A q \in Proc : pc'[q] \in {"collect", "assign", "sync", "mht_flush", "place"} \cup Learning
                             \/ pc[q] \notin {"collect", "assign", "sync", "mht_flush", "place"} \cup Learning
      PROVE  HighLowEmpty'
  BY <1>0, <1>1 DEF HighLowEmpty
<1>2. ASSUME NEW p \in Proc, Load(p) PROVE HighLowEmpty'
  BY <1>1, <1>2, LoadMoves, LoadWrites DEF Learning
<1>3. CASE Collective
  <2>1. CollectiveMoves
    BY <1>3, CollectiveMove
  <2> QED
    BY <1>1, <1>3, <2>1, CollectiveWrites DEF CollectiveMoves, After, Learning
<1>4. ASSUME NEW p \in Proc, Step(p) PROVE HighLowEmpty'
  <2>0. Moves(p) /\ \A q \in Proc : q # p => pc'[q] = pc[q]
    BY <1>4, StepMoves
  <2>1. CASE UNCHANGED <<high_edge_exchange, low_edge_exchange>> /\ ~PlaceEdges(p)
    BY <1>1, <2>0, <2>1 DEF Moves, Learning
  <2>2. CASE \E t \in Targets(raw_map[p]) : AssignHigh(p, t) \/ AssignLow(p, t)
    <3>1. pc[p] = "assign" /\ AfterTarget(p)
      BY <2>2 DEF AssignHigh, AssignLow
    <3>2. pc'[p] \in {"assign", "sync"}
      BY <1>0, <3>1 DEF AfterTarget, Types, ControlTypes
    <3>3. \A q \in Proc : pc'[q] \in {"collect", "assign", "sync", "mht_flush"}
      BY <2>0, <3>1, <3>2, AllAssign
    <3> QED
      BY <1>0, <3>3 DEF HighLowEmpty
  <2>3. CASE PlaceEdges(p)
    BY <1>0, <2>0, <2>3 DEF PlaceEdges, HighLowEmpty, Types, EdgeTypes
  <2> QED
    BY <1>4, <2>1, <2>2, <2>3, StepWrites
<1> QED
  BY <1>2, <1>3, <1>4 DEF Next

LEMMA LoadedEmpties ==
  ASSUME TypeInv, Lockstep, LoadedEmpty, Next
  PROVE  LoadedEmpty'
<1> DEFINE X == {"alone", "collect", "receive_high"} \cup Loading \cup Placing
<1>0. Proc' = Proc /\ Types
  BY SameCluster DEF Next, TypeInv
<1>1. ASSUME UNCHANGED hybrid_edge_exchange, \A q \in Proc : pc'[q] \in X \/ pc[q] \notin X
      PROVE  LoadedEmpty'
  BY <1>0, <1>1 DEF LoadedEmpty
<1>2. ASSUME NEW p \in Proc, Load(p) PROVE LoadedEmpty'
  <2>1. Together(Loading) /\ \A q \in Proc : pc'[q] \in Loading \/ pc'[q] = pc[q]
    BY <1>2, LoadMoves, AllTogether DEF Segments, Loading
  <2> QED
    BY <1>0, <2>1 DEF LoadedEmpty, Together
<1>3. CASE Collective
  <2>1. CollectiveMoves
    BY <1>3, CollectiveMove
  <2>2. \A q \in Proc : pc'[q] \in X \/ pc[q] \notin X
    BY <2>1 DEF CollectiveMoves, After, Loading, Placing
  <2> QED
    BY <1>1, <1>3, <2>2, CollectiveWrites
<1>4. ASSUME NEW p \in Proc, Step(p) PROVE LoadedEmpty'
  <2>0. Moves(p) /\ \A q \in Proc : q # p => pc'[q] = pc[q]
    BY <1>4, StepMoves
  <2>1. CASE CollectAll(p) \/ CollectEdges(p) \/ ReceiveHigh(p)
    <3>1. hybrid_edge_exchange' = [hybrid_edge_exchange EXCEPT ![p] = {}]
      BY <2>1 DEF CollectAll, CollectEdges, ReceiveHigh
    <3> QED
      BY <1>0, <2>0, <3>1 DEF LoadedEmpty, Types, EdgeTypes
  <2>2. CASE PlaceEdges(p)
    <3>1. pc[p] = "place" /\ pc'[p] = "resend_flush"
      BY <1>0, <2>2 DEF PlaceEdges, Goto, Types, ControlTypes
    <3>2. Together(Placing)
      BY <3>1, AllTogether DEF Segments, Placing
    <3>3. \A q \in Proc : pc'[q] \in Placing
      BY <2>0, <3>1, <3>2 DEF Together, Placing
    <3> QED
      BY <1>0, <3>3 DEF LoadedEmpty
  <2>3. CASE UNCHANGED hybrid_edge_exchange /\ ~(CollectAll(p) \/ CollectEdges(p) \/ ReceiveHigh(p))
    <3>1. \A q \in Proc : pc'[q] \in X \/ pc[q] \notin X
      BY <2>0, <2>3 DEF Moves, Loading, Placing
    <3> QED
      BY <1>1, <2>3, <3>1
  <2> QED
    BY <1>4, <2>1, <2>2, <2>3, StepWrites
<1> QED
  BY <1>2, <1>3, <1>4 DEF Next

LEMMA PlacedEmpties ==
  ASSUME TypeInv, Lockstep, PlacedEmpty, Next
  PROVE  PlacedEmpty'
<1> DEFINE X == {"resend_flush", "build"} \cup Receiving
<1>0. Proc' = Proc /\ Types
  BY SameCluster DEF Next, TypeInv
<1>1. ASSUME UNCHANGED hybrid_edges, \A q \in Proc : pc'[q] \in X \/ pc[q] \notin X
      PROVE  PlacedEmpty'
  BY <1>0, <1>1 DEF PlacedEmpty
<1>2. ASSUME NEW p \in Proc, Load(p) PROVE PlacedEmpty'
  <2>1. \A q \in Proc : pc'[q] \in X \/ pc[q] \notin X
    BY <1>2, LoadMoves DEF Receiving
  <2> QED
    BY <1>1, <1>2, <2>1, LoadWrites
<1>3. CASE Collective
  <2>1. CollectiveMoves
    BY <1>3, CollectiveMove
  <2>2. \A q \in Proc : pc'[q] \in X \/ pc[q] \notin X
    BY <2>1 DEF CollectiveMoves, After, Receiving
  <2> QED
    BY <1>1, <1>3, <2>2, CollectiveWrites
<1>4. ASSUME NEW p \in Proc, Step(p) PROVE PlacedEmpty'
  <2>0. Moves(p) /\ \A q \in Proc : q # p => pc'[q] = pc[q]
    BY <1>4, StepMoves
  <2>1. CASE CollectAll(p) \/ PlaceEdges(p) \/ ReceiveHigh(p)
    <3>1. pc'[p] \in X
      BY <1>0, <2>1 DEF CollectAll, PlaceEdges, ReceiveHigh, Goto, Receiving, Types, ControlTypes
    <3>2. \A q \in Proc : q # p => hybrid_edges'[q] = hybrid_edges[q]
      BY <1>0, <2>1 DEF CollectAll, PlaceEdges, ReceiveHigh, Types, EdgeTypes
    <3> QED
      BY <1>0, <2>0, <3>1, <3>2 DEF PlacedEmpty
  <2>2. CASE BuildLocalGraph(p)
    BY <1>0, <2>0, <2>2 DEF BuildLocalGraph, PlacedEmpty, Types, EdgeTypes
  <2>3. CASE UNCHANGED hybrid_edges /\ ~(CollectAll(p) \/ PlaceEdges(p) \/ ReceiveHigh(p) \/ BuildLocalGraph(p))
    <3>1. \A q \in Proc : pc'[q] \in X \/ pc[q] \notin X
      BY <2>0, <2>3 DEF Moves, Receiving
    <3> QED
      BY <1>1, <2>3, <3>1
  <2> QED
    BY <1>4, <2>1, <2>2, <2>3, StepWrites
<1> QED
  BY <1>2, <1>3, <1>4 DEF Next

LEMMA PairsEmpties ==
  ASSUME TypeInv, Lockstep, PairsEmpty, Next
  PROVE  PairsEmpty'
<1> DEFINE X == {"collect", "assign", "sync", "mht_flush", "mht_recv"}
<1>0. Proc' = Proc /\ Types
  BY SameCluster DEF Next, TypeInv
<1>1. ASSUME UNCHANGED mht_exchange, \A q \in Proc : pc'[q] \in X \/ pc[q] \notin X
      PROVE  PairsEmpty'
  BY <1>0, <1>1 DEF PairsEmpty
<1>2. ASSUME NEW p \in Proc, Load(p) PROVE PairsEmpty'
  <2>1. \A q \in Proc : pc'[q] \in X \/ pc[q] \notin X
    BY <1>2, LoadMoves
  <2> QED
    BY <1>1, <1>2, <2>1, LoadWrites
<1>3. CASE Collective
  <2>1. CollectiveMoves
    BY <1>3, CollectiveMove
  <2>2. \A q \in Proc : pc'[q] \in X \/ pc[q] \notin X
    BY <2>1 DEF CollectiveMoves, After
  <2> QED
    BY <1>1, <1>3, <2>2, CollectiveWrites
<1>4. ASSUME NEW p \in Proc, Step(p) PROVE PairsEmpty'
  <2>0. Moves(p) /\ \A q \in Proc : q # p => pc'[q] = pc[q]
    BY <1>4, StepMoves
  <2>1. CASE (\E t \in Targets(raw_map[p]) : AssignLow(p, t)) \/ SyncHeuristic(p)
    <3>1. pc[p] \in {"assign", "sync"} /\ pc'[p] \in {"assign", "sync"}
      BY <1>0, <2>1 DEF AssignLow, AfterTarget, SyncHeuristic, Goto, Types, ControlTypes
    <3>2. \A q \in Proc : pc'[q] \in X
      BY <2>0, <3>1, AllAssign
    <3> QED
      BY <1>0, <3>2 DEF PairsEmpty
  <2>2. CASE LastSynchronize(p)
    BY <1>0, <2>0, <2>2 DEF LastSynchronize, PairsEmpty, Types, MasterTypes
  <2>3. CASE UNCHANGED mht_exchange /\ ~LastSynchronize(p)
    <3>1. \A q \in Proc : pc'[q] \in X \/ pc[q] \notin X
      BY <2>0, <2>3 DEF Moves
    <3> QED
      BY <1>1, <2>3, <3>1
  <2> QED
    BY <1>4, <2>1, <2>2, <2>3, StepWrites
<1> QED
  BY <1>2, <1>3, <1>4 DEF Next

LEMMA ResendEmpties ==
  ASSUME TypeInv, Lockstep, ResendEmpty, Next
  PROVE  ResendEmpty'
<1> DEFINE X == {"vertices"} \cup Building
<1>0. Proc' = Proc /\ Types
  BY SameCluster DEF Next, TypeInv
<1>1. ASSUME UNCHANGED resend_vertex_exchange, \A q \in Proc : pc'[q] \in X \/ pc[q] \notin X
      PROVE  ResendEmpty'
  BY <1>0, <1>1 DEF ResendEmpty
<1>2. ASSUME NEW p \in Proc, Load(p) PROVE ResendEmpty'
  <2>1. \A q \in Proc : pc'[q] \in X \/ pc[q] \notin X
    BY <1>2, LoadMoves DEF Building
  <2> QED
    BY <1>1, <1>2, <2>1, LoadWrites
<1>3. CASE Collective
  <2>1. CollectiveMoves
    BY <1>3, CollectiveMove
  <2>2. \A q \in Proc : pc'[q] \in X \/ pc[q] \notin X
    BY <2>1 DEF CollectiveMoves, After, Building
  <2> QED
    BY <1>1, <1>3, <2>2, CollectiveWrites
<1>4. ASSUME NEW p \in Proc, Step(p) PROVE ResendEmpty'
  <2>0. Moves(p) /\ \A q \in Proc : q # p => pc'[q] = pc[q]
    BY <1>4, StepMoves
  <2>1. CASE BuildLocalGraph(p)
    <3>1. pc[p] = "build" /\ pc'[p] = "vertex_flush"
      BY <1>0, <2>1 DEF BuildLocalGraph, Goto, Types, ControlTypes
    <3>2. Together(Building)
      BY <3>1, AllTogether DEF Segments, Building
    <3>3. \A q \in Proc : pc'[q] \in Building
      BY <2>0, <3>1, <3>2 DEF Together, Building
    <3> QED
      BY <1>0, <3>3 DEF ResendEmpty
  <2>2. CASE ReceiveVertices(p)
    BY <1>0, <2>0, <2>2 DEF ReceiveVertices, ResendEmpty, Types, VertexTypes
  <2>3. CASE UNCHANGED resend_vertex_exchange /\ ~ReceiveVertices(p)
    <3>1. \A q \in Proc : pc'[q] \in X \/ pc[q] \notin X
      BY <2>0, <2>3 DEF Moves, Building
    <3> QED
      BY <1>1, <2>3, <3>1
  <2> QED
    BY <1>4, <2>1, <2>2, <2>3, StepWrites
<1> QED
  BY <1>2, <1>3, <1>4 DEF Next

LEMMA BufferEmpties ==
  ASSUME TypeInv, Lockstep, BufferEmpty, Next
  PROVE  BufferEmpty'
<1> DEFINE X == {"vertex_flush", "handshake"} \cup Naming
<1>0. Proc' = Proc /\ Types
  BY SameCluster DEF Next, TypeInv
<1>1. ASSUME UNCHANGED vid2lvid_buffer, \A q \in Proc : pc'[q] \in X \/ pc[q] \notin X
      PROVE  BufferEmpty'
  BY <1>0, <1>1 DEF BufferEmpty
<1>2. ASSUME NEW p \in Proc, Load(p) PROVE BufferEmpty'
  <2>1. \A q \in Proc : pc'[q] \in X \/ pc[q] \notin X
    BY <1>2, LoadMoves DEF Naming
  <2> QED
    BY <1>1, <1>2, <2>1, LoadWrites
<1>3. CASE Collective
  <2>1. CollectiveMoves
    BY <1>3, CollectiveMove
  <2>2. \A q \in Proc : pc'[q] \in X \/ pc[q] \notin X
    BY <2>1 DEF CollectiveMoves, After, Naming
  <2> QED
    BY <1>1, <1>3, <2>2, CollectiveWrites
<1>4. ASSUME NEW p \in Proc, Step(p) PROVE BufferEmpty'
  <2>0. Moves(p) /\ \A q \in Proc : q # p => pc'[q] = pc[q]
    BY <1>4, StepMoves
  <2>1. CASE BuildLocalGraph(p) \/ ReceiveVertices(p)
    <3>1. pc'[p] \in X
      BY <1>0, <2>1 DEF BuildLocalGraph, ReceiveVertices, Goto, Naming, Types, ControlTypes
    <3>2. \A q \in Proc : q # p => vid2lvid_buffer'[q] = vid2lvid_buffer[q]
      BY <1>0, <2>1 DEF BuildLocalGraph, ReceiveVertices, Types, GraphTypes
    <3> QED
      BY <1>0, <2>0, <3>1, <3>2 DEF BufferEmpty
  <2>2. CASE Handshake(p)
    BY <1>0, <2>0, <2>2 DEF Handshake, BufferEmpty, Types, GraphTypes
  <2>3. CASE UNCHANGED vid2lvid_buffer /\ ~Handshake(p)
    <3>1. \A q \in Proc : pc'[q] \in X \/ pc[q] \notin X
      BY <2>0, <2>3 DEF Moves, Naming
    <3> QED
      BY <1>1, <2>3, <3>1
  <2> QED
    BY <1>4, <2>1, <2>2, <2>3, StepWrites
<1> QED
  BY <1>2, <1>3, <1>4 DEF Next

LEMMA VidsEmpties ==
  ASSUME TypeInv, Lockstep, VidsEmpty, Next
  PROVE  VidsEmpty'
<1> DEFINE X == {"handshake"} \cup Naming
<1>0. Proc' = Proc /\ Types
  BY SameCluster DEF Next, TypeInv
<1>1. ASSUME UNCHANGED vid_buffer, \A q \in Proc : pc'[q] \in X \/ pc[q] \notin X
      PROVE  VidsEmpty'
  BY <1>0, <1>1 DEF VidsEmpty
<1>2. ASSUME NEW p \in Proc, Load(p) PROVE VidsEmpty'
  <2>1. \A q \in Proc : pc'[q] \in X \/ pc[q] \notin X
    BY <1>2, LoadMoves DEF Naming
  <2> QED
    BY <1>1, <1>2, <2>1, LoadWrites
<1>3. CASE Collective
  <2>1. CollectiveMoves
    BY <1>3, CollectiveMove
  <2>2. \A q \in Proc : pc'[q] \in X \/ pc[q] \notin X
    BY <2>1 DEF CollectiveMoves, After, Naming
  <2> QED
    BY <1>1, <1>3, <2>2, CollectiveWrites
<1>4. ASSUME NEW p \in Proc, Step(p) PROVE VidsEmpty'
  <2>0. Moves(p) /\ \A q \in Proc : q # p => pc'[q] = pc[q]
    BY <1>4, StepMoves
  <2>1. CASE ReceiveVertices(p)
    <3>1. pc[p] = "vertices" /\ pc'[p] = "vid_flush"
      BY <1>0, <2>1 DEF ReceiveVertices, Goto, Types, ControlTypes
    <3>2. Together(Naming)
      BY <3>1, AllTogether DEF Segments, Naming
    <3>3. \A q \in Proc : pc'[q] \in Naming
      BY <2>0, <3>1, <3>2 DEF Together, Naming
    <3> QED
      BY <1>0, <3>3 DEF VidsEmpty
  <2>2. CASE Handshake(p)
    BY <1>0, <2>0, <2>2 DEF Handshake, VidsEmpty, Types, GraphTypes
  <2>3. CASE UNCHANGED vid_buffer /\ ~Handshake(p)
    <3>1. \A q \in Proc : pc'[q] \in X \/ pc[q] \notin X
      BY <2>0, <2>3 DEF Moves, Naming
    <3> QED
      BY <1>1, <2>3, <3>1
  <2> QED
    BY <1>4, <2>1, <2>2, <2>3, StepWrites
<1> QED
  BY <1>2, <1>3, <1>4 DEF Next

LEMMA NextEmptied ==
  ASSUME TypeInv, Lockstep, Emptied, Next
  PROVE  Emptied'
  BY HighLowEmpties, LoadedEmpties, PlacedEmpties, PairsEmpties, ResendEmpties, BufferEmpties,
     VidsEmpties DEF Emptied

-----------------------------------------------------------------------------
(* The first finalization.                                                 *)

\* How far p is in it.
Unread(p)   == round = 0 \/ pc[p] \in {"alone", "collect"}
Finished(p) == round = 1 /\ pc[p] \in Loading
Done(p)     == pc[p] \in Typing \/ Finished(p)
Met(p)      == pc[p] = "sync_meta" \/ Done(p)
Recorded(p) == pc[p] \in {"vid_flush", "handshake"} \/ Met(p)
Built(p)    == pc[p] \in {"vertex_flush", "vertices"} \/ Recorded(p)

\* Until then a process has no local graph.
LocalEmpty == \A p \in Proc : /\ ~Built(p) => local_edges[p] = {}
                              /\ ~Met(p) => vid2lvid[p] = {}

LEMMA NextRound ==
  ASSUME TypeInv, Next
  PROVE  round' \in {round, round + 1}
  BY StepMoves, LoadMoves, CollectiveMove DEF Next, CollectiveMoves, input

\* A step of a process leaves the others as far as they are, and takes it on
\* by three steps only.
LEMMA StepProgress ==
  ASSUME TypeInv, Lockstep, NEW p \in Proc, Step(p)
  PROVE  \A q \in Proc :
           /\ Unread(q)'   <=> Unread(q) /\ ~(q = p /\ (CollectAll(p) \/ CollectEdges(p)))
           /\ Built(q)'    <=> Built(q) \/ (q = p /\ BuildLocalGraph(p))
           /\ Recorded(q)' <=> Recorded(q) \/ (q = p /\ ReceiveVertices(p))
           /\ Met(q)'      <=> Met(q) \/ (q = p /\ Handshake(p))
           /\ Done(q)'     <=> Done(q)
           /\ Finished(q)' <=> Finished(q)
<1>1. Moves(p) /\ (\A q \in Proc : q # p => pc'[q] = pc[q]) /\ UNCHANGED round
  BY StepMoves DEF input
<1>2. round # 0
  BY <1>1 DEF Lockstep, Together, Moves, Loading
<1>3. /\ CollectAll(p) \/ CollectEdges(p) => pc[p] \in {"alone", "collect"}
      /\ BuildLocalGraph(p) => pc[p] = "build"
      /\ ReceiveVertices(p) => pc[p] = "vertices"
      /\ Handshake(p) => pc[p] = "handshake"
  BY DEF CollectAll, CollectEdges, BuildLocalGraph, ReceiveVertices, Handshake
<1> QED
  BY <1>1, <1>2, <1>3 DEF Moves, Unread, Built, Recorded, Met, Done, Finished, Typing, Loading

LEMMA LoadProgress ==
  ASSUME TypeInv, Lockstep, NEW p \in Proc, Load(p)
  PROVE  /\ Together(Loading)
         /\ \A q \in Proc :
              /\ Unread(q)' <=> Unread(q)
              /\ Built(q)' <=> Built(q)
              /\ Recorded(q)' <=> Recorded(q)
              /\ Met(q)' <=> Met(q)
              /\ Done(q)' <=> Done(q)
              /\ Finished(q)' <=> Finished(q)
<1>1. /\ pc[p] = "load" /\ pc'[p] \in Loading /\ UNCHANGED round
      /\ \A q \in Proc : q # p => pc'[q] = pc[q]
  BY LoadMoves
<1>2. Together(Loading)
  BY <1>1, AllTogether DEF Loading, Segments
<1> QED
  BY <1>1, <1>2 DEF Unread, Built, Recorded, Met, Done, Finished, Typing, Loading

LEMMA CollectiveProgress ==
  ASSUME TypeInv, Lockstep, Collective, round' <= 1
  PROVE  \A q \in Proc :
           /\ Unread(q)' <=> Unread(q)
           /\ Built(q)' <=> Built(q)
           /\ Recorded(q)' <=> Recorded(q)
           /\ Met(q)' <=> Met(q)
           /\ Done(q)' <=> Done(q) \/ SyncMeta
<1>1. CollectiveMoves /\ round \in Nat
  BY CollectiveMove DEF TypeInv, Types, ControlTypes
<1>2. SyncMeta => \A q \in Proc : pc[q] = "sync_meta"
  BY DEF SyncMeta, AllAt
<1>3. \A q \in Proc : round = 0 => pc[q] \in Loading
  BY DEF Lockstep, Together
<1> QED
  BY <1>1, <1>2, <1>3 DEF CollectiveMoves, After, Unread, Built, Recorded, Met, Done, Finished, Typing, Loading

LEMMA LocalEmpties ==
  ASSUME TypeInv, Lockstep, LocalEmpty, Next, round' <= 1
  PROVE  LocalEmpty'
<1>0. Proc' = Proc /\ Types
  BY SameCluster DEF Next, TypeInv
<1>1. ASSUME NEW p \in Proc, Load(p) PROVE LocalEmpty'
  <2>1. UNCHANGED <<local_edges, vid2lvid>>
    BY <1>1, LoadWrites
  <2> QED
    BY <1>0, <1>1, <2>1, LoadProgress DEF LocalEmpty
<1>2. CASE Collective
  <2>1. UNCHANGED <<local_edges, vid2lvid>>
    BY <1>2, CollectiveWrites
  <2> QED
    BY <1>0, <1>2, <2>1, CollectiveProgress DEF LocalEmpty
<1>3. ASSUME NEW p \in Proc, Step(p) PROVE LocalEmpty'
  <2>1. /\ UNCHANGED local_edges \/ BuildLocalGraph(p)
        /\ UNCHANGED vid2lvid \/ Handshake(p)
    BY <1>3, StepWrites
  <2>2. \A q \in Proc : ~Built(q)' => local_edges'[q] = {}
    <3>1. \A q \in Proc : ~Built(q)' => ~Built(q) /\ local_edges'[q] = local_edges[q]
      BY <1>0, <1>3, <2>1, StepProgress DEF BuildLocalGraph, Types, EdgeTypes
    <3> QED
      BY <3>1 DEF LocalEmpty
  <2>3. \A q \in Proc : ~Met(q)' => vid2lvid'[q] = {}
    <3>1. \A q \in Proc : ~Met(q)' => ~Met(q) /\ vid2lvid'[q] = vid2lvid[q]
      BY <1>0, <1>3, <2>1, StepProgress DEF Handshake, Types, GraphTypes
    <3> QED
      BY <3>1 DEF LocalEmpty
  <2> QED
    BY <1>0, <2>2, <2>3 DEF LocalEmpty
<1> QED
  BY <1>1, <1>2, <1>3 DEF Next

InOf(es, t) == {e \in es : e.target = t}

\* Edges are loaded by the hash of their target, all of them.
LoadedByHash ==
    /\ \A p \in Proc : Unread(p) => \A e \in hybrid_edge_exchange[p] : Hash(e.target) = p
    /\ \A e \in edges_added : Unread(Hash(e.target)) => e \in hybrid_edge_exchange[Hash(e.target)]

\* Who assigns a target has all its edges.
MapByHash ==
    \A p \in Proc : \A e \in raw_map[p] :
        Hash(e.target) = p /\ InOf(edges_added, e.target) \subseteq raw_map[p]

LEMMA HashIsProc ==
  ASSUME Types
  PROVE  \A v \in VertexId : Hash(v) \in Proc
  BY Cluster DEF Types, ControlTypes

LEMMA NextLoadedByHash ==
  ASSUME TypeInv, Lockstep, LoadedByHash, Next, round' <= 1
  PROVE  LoadedByHash'
<1>0. Proc' = Proc /\ Types /\ (\A v \in VertexId : Hash(v)' = Hash(v) /\ Hash(v) \in Proc)
  BY SameCluster, HashIsProc DEF Next, TypeInv
<1>00. (\A e \in edges_added : e.target \in VertexId)
       /\ \A p \in Proc : hybrid_edge_exchange[p] \subseteq edges_added
  BY <1>0 DEF Types, EdgeTypes, Edge
<1>1. ASSUME UNCHANGED <<edges_added, hybrid_edge_exchange>>, \A q \in Proc : Unread(q)' => Unread(q)
      PROVE  LoadedByHash'
  BY <1>0, <1>00, <1>1 DEF LoadedByHash
<1>2. ASSUME NEW p \in Proc, Load(p) PROVE LoadedByHash'
  <2>1. ASSUME NEW s \in VertexId, NEW t \in VertexId, AddEdge(p, s, t) PROVE LoadedByHash'
    <3> DEFINE same == {e \in edges_added : e.source = s /\ e.target = t}
               rec  == [source |-> s, target |-> t, id |-> Cardinality(same) + 1]
    <3>1. /\ edges_added' = edges_added \cup {rec}
          /\ hybrid_edge_exchange' = [hybrid_edge_exchange EXCEPT ![Hash(t)] = @ \cup {rec}]
          /\ rec.target = t
      BY <2>1 DEF AddEdge
    <3> HIDE DEF rec
    <3>2. \A q \in Proc : hybrid_edge_exchange'[q] =
                IF q = Hash(t) THEN hybrid_edge_exchange[q] \cup {rec} ELSE hybrid_edge_exchange[q]
      BY <1>0, <3>1 DEF Types, EdgeTypes
    <3>3. \A q \in Proc : Unread(q)' <=> Unread(q)
      BY <1>2, LoadProgress
    <3> QED
      BY <1>0, <1>00, <3>1, <3>2, <3>3 DEF LoadedByHash
  <2> QED
    BY <1>1, <1>2, <2>1, LoadWrites, LoadProgress
<1>3. CASE Collective
  BY <1>1, <1>3, CollectiveWrites, CollectiveProgress
<1>4. ASSUME NEW p \in Proc, Step(p) PROVE LoadedByHash'
  <2>0. UNCHANGED edges_added
    BY <1>4, StepWrites
  <2>1. CASE CollectAll(p) \/ CollectEdges(p)
    <3>1. hybrid_edge_exchange' = [hybrid_edge_exchange EXCEPT ![p] = {}]
      BY <2>1 DEF CollectAll, CollectEdges
    <3>2. \A q \in Proc : Unread(q)' => Unread(q) /\ hybrid_edge_exchange'[q] = hybrid_edge_exchange[q]
      BY <1>0, <1>4, <2>1, <3>1, StepProgress DEF Types, EdgeTypes
    <3> QED
      BY <1>0, <1>00, <2>0, <3>2 DEF LoadedByHash
  <2>2. CASE PlaceEdges(p) \/ ReceiveHigh(p)
    <3>1. pc[p] \in {"place", "receive_high"}
      BY <2>2 DEF PlaceEdges, ReceiveHigh
    <3>2. Together(Placing) \/ Together(Receiving)
      BY <3>1, AllTogether DEF Segments, Placing, Receiving
    <3>3. \A q \in Proc : ~Unread(q)
      BY <3>1, <3>2 DEF Together, Placing, Receiving, Unread, Lockstep, Loading
    <3> QED
      BY <1>0, <1>00, <1>4, <2>0, <3>3, StepProgress DEF LoadedByHash
  <2>3. CASE UNCHANGED hybrid_edge_exchange
    BY <1>1, <1>4, <2>0, <2>3, StepProgress
  <2> QED
    BY <1>4, <2>1, <2>2, <2>3, StepWrites
<1> QED
  BY <1>2, <1>3, <1>4 DEF Next

LEMMA NextMapByHash ==
  ASSUME TypeInv, Lockstep, MapEmpty, LoadedByHash, MapByHash, Next
  PROVE  MapByHash'
<1>0. Proc' = Proc /\ Types /\ (\A v \in VertexId : Hash(v)' = Hash(v) /\ Hash(v) \in Proc)
  BY SameCluster, HashIsProc DEF Next, TypeInv
<1>00. (\A e \in edges_added : e.target \in VertexId)
       /\ (\A p \in Proc : hybrid_edge_exchange[p] \subseteq edges_added /\ raw_map[p] \subseteq edges_added)
  BY <1>0 DEF Types, EdgeTypes, Edge
<1>1. ASSUME UNCHANGED <<edges_added, raw_map>> PROVE MapByHash'
  BY <1>0, <1>00, <1>1 DEF MapByHash, InOf
<1>2. ASSUME NEW p \in Proc, Load(p) PROVE MapByHash'
  <2>1. \A q \in Proc : raw_map'[q] = {}
    BY <1>2, LoadProgress, LoadWrites DEF MapEmpty, Together, Loading
  <2> QED
    BY <1>0, <2>1 DEF MapByHash
<1>3. CASE Collective
  BY <1>1, <1>3, CollectiveWrites
<1>4. ASSUME NEW p \in Proc, Step(p) PROVE MapByHash'
  <2>0. UNCHANGED edges_added
    BY <1>4, StepWrites
  <2>1. CASE CollectEdges(p)
    <3>1. raw_map' = [raw_map EXCEPT ![p] = hybrid_edge_exchange[p]] /\ Unread(p)
      BY <2>1 DEF CollectEdges, Unread
    <3>2. \A q \in Proc : raw_map'[q] = IF q = p THEN hybrid_edge_exchange[p] ELSE raw_map[q]
      BY <1>0, <3>1 DEF Types, EdgeTypes
    <3>3. ASSUME NEW e \in hybrid_edge_exchange[p]
          PROVE  Hash(e.target) = p /\ InOf(edges_added, e.target) \subseteq hybrid_edge_exchange[p]
      <4>1. Hash(e.target) = p
        BY <3>1 DEF LoadedByHash
      <4> QED
        BY <3>1, <4>1 DEF LoadedByHash, InOf
    <3> QED
      BY <1>0, <1>00, <2>0, <3>2, <3>3 DEF MapByHash, InOf
  <2>2. ASSUME NEW t \in Targets(raw_map[p]), AssignHigh(p, t) \/ AssignLow(p, t) PROVE MapByHash'
    <3>1. \A q \in Proc : raw_map'[q] = IF q = p THEN raw_map[p] \ Records(p, t) ELSE raw_map[q]
      BY <1>0, <2>2 DEF AssignHigh, AssignLow, Types, EdgeTypes
    <3>2. ASSUME NEW q \in Proc, NEW e \in raw_map'[q]
          PROVE  Hash(e.target)' = q /\ InOf(edges_added, e.target) \subseteq raw_map'[q]
      <4>1. e \in raw_map[q] /\ (q = p => e.target # t)
        BY <3>1 DEF Records
      <4>2. Hash(e.target) = q /\ InOf(edges_added, e.target) \subseteq raw_map[q]
        BY <4>1 DEF MapByHash
      <4>3. \A f \in InOf(edges_added, e.target) : f.target = e.target
        BY DEF InOf
      <4> QED
        BY <1>0, <1>00, <3>1, <4>1, <4>2, <4>3 DEF Records
    <3> QED
      BY <1>0, <2>0, <3>2 DEF MapByHash, InOf
  <2>3. CASE UNCHANGED raw_map
    BY <1>1, <2>0, <2>3
  <2> QED
    BY <1>4, <2>1, <2>2, <2>3, StepWrites
<1> QED
  BY <1>2, <1>3, <1>4 DEF Next

-----------------------------------------------------------------------------
(* The masters M, and how they get around.                                 *)

IsMasters(M) == M \in [VertexId -> Proc]

\* No process has another master, or has been sent one.
Learnt(M) ==
    \A p \in Proc : /\ \A v \in VertexId : mht[p][v] # NoProc => mht[p][v] = M[v]
                    /\ \A x \in mht_exchange[p] : x.master = M[x.vid]

\* A master that is not the hash's process has been told, or is under way, to
\* every process that still needs it.
Told(M) ==
    \A p \in Proc : ~Recorded(p) =>
        \A v \in VertexId : M[v] # Hash(v) /\ mht[p][v] = NoProc =>
            [vid |-> v, master |-> M[v]] \in mht_exchange[p]

\* The masters of the targets that are not assigned.
Undecided(M, t) ==
    /\ M[t] = Hash(t)
    /\ \A p \in Proc : mht[p][t] = NoProc /\ \A x \in mht_exchange[p] : x.vid # t
UndecidedYet(M) ==
    \A t \in VertexId : Unread(Hash(t)) \/ t \in Targets(raw_map[Hash(t)]) => Undecided(M, t)

Spread(M) == Learnt(M) /\ Told(M) /\ UndecidedYet(M)

\* The vertices of high degree H, and the edges on their way to where the cut
\* puts them.
InGraph == UNION {local_edges[p] : p \in Proc}
HighKnown(H) ==
    \A p \in Proc :
        /\ pc[p] \notin Loading =>
              \A t \in VertexId : t \in H <=> Cardinality(InOf(edges_added, t)) > Threshold
        /\ Done(p) =>
              \A t \in VertexId : t \in H <=> Cardinality(InOf(InGraph, t)) > Threshold
HighLow(M, H) ==
    \A p \in Proc : /\ \A e \in high_edge_exchange[p] : e.target \in H
                    /\ \A e \in low_edge_exchange[p] : e.target \notin H /\ M[e.target] = p
Resent(M, H) ==
    \A p \in Proc : pc[p] \in {"place", "resend_flush", "receive_high"} =>
        \A e \in hybrid_edge_exchange[p] : e.target \in H /\ M[e.source] = p
Placed(M, H, e, p) == M[IF e.target \in H THEN e.source ELSE e.target] = p
PlacedWell(M, H) ==
    \A p \in Proc : \A e \in hybrid_edges[p] \cup local_edges[p] : Placed(M, H, e, p)

Cut(M, H) == HighKnown(H) /\ HighLow(M, H) /\ Resent(M, H) /\ PlacedWell(M, H)

\* What holds of the first finalization whatever the masters.
FirstRound == /\ TypeInv /\ EdgeInv /\ Lockstep /\ Emptied
              /\ LocalEmpty /\ LoadedByHash /\ MapByHash

\* A process that has all its pairs and asks the hash for what it does not
\* have knows the master.
LEMMA KnowsMasters ==
  ASSUME NEW M, Learnt(M), Told(M), NEW p \in Proc, ~Recorded(p), mht_exchange[p] = {}
  PROVE  \A S, v : v \in VertexId \cap S => WithHashes(mht[p], S)[v] = M[v]
  BY DEF Learnt, Told, WithHashes

\* Everybody is past assigning.
LEMMA AllDecided ==
  ASSUME Lockstep, MapEmpty, NEW p \in Proc,
         pc[p] \in Learning \cup Placing \cup Receiving \cup Building \cup Naming \cup Meeting \cup Typing
  PROVE  \A q \in Proc : ~Unread(q) /\ raw_map[q] = {} /\ round # 0
<1>1. PICK S \in Segments : Together(S)
  BY DEF Lockstep
<1>2. pc[p] \in S /\ S # Loading /\ S # Deciding
  BY <1>1 DEF Together, Segments, Loading, Deciding, Learning, Placing, Receiving, Building, Naming,
              Meeting, Typing
<1>3. \A q \in Proc : pc[q] \notin Loading \cup Deciding
  BY <1>1, <1>2 DEF Together, Segments, Loading, Deciding, Learning, Placing, Receiving, Building,
                    Naming, Meeting, Typing
<1> QED
  BY <1>3 DEF Loading, Deciding, MapEmpty, Unread, Lockstep, Together

\* The steps that leave the tables alone.
LEMMA SameTable ==
  ASSUME NEW M, Spread(M), Types, UNCHANGED <<nprocs, mht, mht_exchange>>,
         \A q \in Proc : Recorded(q) => Recorded(q)',
         \A t \in VertexId : Unread(Hash(t))' \/ t \in Targets(raw_map'[Hash(t)]) =>
             Unread(Hash(t)) \/ t \in Targets(raw_map[Hash(t)])
  PROVE  Spread(M)'
<1>0. Proc' = Proc /\ \A v \in VertexId : Hash(v)' = Hash(v) /\ Hash(v) \in Proc
  BY SameCluster, HashIsProc
<1>1. Learnt(M)'
  BY <1>0 DEF Spread, Learnt
<1>2. Told(M)'
  BY <1>0 DEF Spread, Told
<1>3. UndecidedYet(M)'
  BY <1>0 DEF Spread, UndecidedYet, Undecided
<1> QED
  BY <1>1, <1>2, <1>3 DEF Spread

\* One process writes to its own table, when all targets are assigned.
LEMMA OwnTable ==
  ASSUME NEW M, FirstRound, Spread(M), UNCHANGED <<nprocs, mht_exchange, raw_map>>, NEW p \in Proc,
         pc[p] \in Learning \cup Placing \cup Receiving \cup Building \cup Naming \cup Meeting \cup Typing,
         \A q \in Proc : q # p => mht'[q] = mht[q],
         \A v \in VertexId : mht'[p][v] \in {mht[p][v], M[v]} \/ (mht'[p][v] = NoProc /\ Recorded(p)'),
         \A q \in Proc : Recorded(q) => Recorded(q)',
         \A q \in Proc : Unread(q)' => Unread(q)
  PROVE  Spread(M)'
<1>0. Proc' = Proc /\ \A v \in VertexId : Hash(v)' = Hash(v) /\ Hash(v) \in Proc
  BY SameCluster, HashIsProc DEF FirstRound, TypeInv
<1>1. Learnt(M)'
  BY <1>0 DEF Spread, Learnt
<1>2. Told(M)'
  <2> SUFFICES ASSUME NEW q \in Proc, ~Recorded(q)', NEW v \in VertexId, M[v] # Hash(v),
                      mht'[q][v] = NoProc
               PROVE  [vid |-> v, master |-> M[v]] \in mht_exchange'[q]
    BY <1>0 DEF Told
  <2>1. mht[q][v] = NoProc \/ mht[q][v] = M[v]
    BY DEF Spread, Learnt
  <2>2. mht[q][v] = NoProc
    BY <2>1
  <2> QED
    BY <2>2 DEF Spread, Told
<1>3. UndecidedYet(M)'
  <2>1. \A q \in Proc : ~Unread(q)' /\ raw_map'[q] = {}
    BY AllDecided DEF FirstRound, EdgeInv
  <2> QED
    BY <1>0, <2>1 DEF UndecidedYet, Targets
<1> QED
  BY <1>1, <1>2, <1>3 DEF Spread

\* Pairs received.
LEMMA PairsTable ==
  ASSUME NEW M, IsMasters(M), Types, Spread(M), UNCHANGED <<nprocs, raw_map>>, NEW p \in Proc,
         NEW pairs \in SUBSET mht_exchange[p],
         mht' = [mht EXCEPT ![p] = WithPairs(@, pairs)],
         mht_exchange' = [mht_exchange EXCEPT ![p] = @ \ pairs],
         \A q \in Proc : Recorded(q) => Recorded(q)',
         \A q \in Proc : Unread(q)' => Unread(q)
  PROVE  Spread(M)'
<1>0. Proc' = Proc /\ NoProc \notin Proc /\ \A v \in VertexId : Hash(v)' = Hash(v) /\ Hash(v) \in Proc
  BY SameCluster, HashIsProc, Cluster DEF Types, ControlTypes, Proc, NoProc
<1>1. /\ \A q \in Proc : q # p => mht'[q] = mht[q] /\ mht_exchange'[q] = mht_exchange[q]
      /\ mht'[p] = WithPairs(mht[p], pairs) /\ mht_exchange'[p] = mht_exchange[p] \ pairs
  BY DEF Types, MasterTypes
<1>2. ASSUME NEW v \in VertexId
      PROVE  mht'[p][v] = IF \E x \in pairs : x.vid = v THEN M[v] ELSE mht[p][v]
  <2>1. mht'[p][v] = IF \E x \in pairs : x.vid = v THEN (CHOOSE x \in pairs : x.vid = v).master ELSE mht[p][v]
    BY <1>1 DEF WithPairs
  <2>2. ASSUME \E x \in pairs : x.vid = v PROVE (CHOOSE x \in pairs : x.vid = v).master = M[v]
    <3> DEFINE x == CHOOSE x \in pairs : x.vid = v
    <3>1. x \in pairs /\ x.vid = v
      BY <2>2
    <3> QED
      BY <3>1 DEF Spread, Learnt
  <2> QED
    BY <2>1, <2>2
<1>3. Learnt(M)'
  BY <1>0, <1>1, <1>2 DEF Spread, Learnt
<1>4. Told(M)'
  <2> SUFFICES ASSUME NEW q \in Proc, ~Recorded(q)', NEW v \in VertexId, M[v] # Hash(v),
                      mht'[q][v] = NoProc
               PROVE  [vid |-> v, master |-> M[v]] \in mht_exchange'[q]
    BY <1>0 DEF Told
  <2>1. CASE q # p
    BY <1>1, <2>1 DEF Spread, Told
  <2>2. CASE q = p
    <3>1. ~\E x \in pairs : x.vid = v
      BY <1>0, <1>2, <2>2 DEF IsMasters
    <3> QED
      BY <1>1, <1>2, <2>2, <3>1 DEF Spread, Told
  <2> QED
    BY <2>1, <2>2
<1>5. UndecidedYet(M)'
  <2> SUFFICES ASSUME NEW t \in VertexId, Unread(Hash(t))' \/ t \in Targets(raw_map[Hash(t)])
               PROVE  Undecided(M, t)'
    BY <1>0 DEF UndecidedYet
  <2>1. Undecided(M, t)
    BY <1>0 DEF Spread, UndecidedYet
  <2>2. ~\E x \in pairs : x.vid = t
    BY <2>1 DEF Undecided
  <2> QED
    BY <1>0, <1>1, <1>2, <2>1, <2>2 DEF Undecided
<1> QED
  BY <1>3, <1>4, <1>5 DEF Spread

LEMMA StepTable ==
  ASSUME NEW M, NEW H, IsMasters(M), FirstRound, Spread(M), Resent(M, H), UNCHANGED nprocs,
         NEW p \in Proc, Step(p), ~\E t \in Targets(raw_map[p]) : AssignLow(p, t)
  PROVE  Spread(M)'
<1>0. Types /\ TypeInv /\ Lockstep /\ mht \in [Proc -> [VertexId -> MaybeProc]]
  BY DEF FirstRound, TypeInv, Types, MasterTypes
<1>1. /\ \A q \in Proc : Recorded(q) => Recorded(q)'
      /\ \A q \in Proc : Unread(q)' => Unread(q)
  BY <1>0, StepProgress
<1>2. \A t \in VertexId : Hash(t)' = Hash(t) /\ Hash(t) \in Proc
  BY <1>0, SameCluster, HashIsProc
<1>3. CASE UNCHANGED <<mht, mht_exchange>>
  <2>1. CASE UNCHANGED raw_map
    BY <1>0, <1>1, <1>2, <1>3, <2>1, SameTable
  <2>2. CASE CollectEdges(p)
    <3>1. /\ \A q \in Proc : raw_map'[q] = IF q = p THEN hybrid_edge_exchange[p] ELSE raw_map[q]
          /\ Unread(p)
      BY <1>0, <2>2 DEF CollectEdges, Unread, Types, EdgeTypes
    <3>2. \A t \in VertexId : t \in Targets(raw_map'[Hash(t)]) =>
              Unread(Hash(t)) \/ t \in Targets(raw_map[Hash(t)])
      BY <1>2, <3>1
    <3> QED
      BY <1>0, <1>1, <1>2, <1>3, <3>2, SameTable
  <2>3. ASSUME NEW t \in Targets(raw_map[p]), AssignHigh(p, t) PROVE Spread(M)'
    <3>1. \A q \in Proc : raw_map'[q] \subseteq raw_map[q]
      BY <1>0, <2>3 DEF AssignHigh, Types, EdgeTypes
    <3>2. \A q \in Proc : Targets(raw_map'[q]) \subseteq Targets(raw_map[q])
      BY <3>1 DEF Targets
    <3> QED
      BY <1>0, <1>1, <1>2, <1>3, <3>2, SameTable
  <2> QED
    BY <1>3, <2>1, <2>2, <2>3, StepWrites
<1>4. CASE SyncHeuristic(p)
  <2>1. PICK pairs \in SUBSET mht_exchange[p] :
           /\ mht' = [mht EXCEPT ![p] = WithPairs(@, pairs)]
           /\ mht_exchange' = [mht_exchange EXCEPT ![p] = @ \ pairs]
    BY <1>4 DEF SyncHeuristic
  <2>2. UNCHANGED raw_map
    BY <1>4 DEF SyncHeuristic, assigning
  <2> QED
    BY <1>0, <1>1, <2>1, <2>2, PairsTable
<1>5. CASE LastSynchronize(p)
  <2>1. /\ mht' = [mht EXCEPT ![p] = WithPairs(@, mht_exchange[p])]
        /\ mht_exchange' = [mht_exchange EXCEPT ![p] = @ \ mht_exchange[p]]
        /\ UNCHANGED raw_map
    BY <1>5 DEF LastSynchronize, ReceivedPairs, assigning
  <2> QED
    BY <1>0, <1>1, <2>1, PairsTable
<1>6. ASSUME PlaceEdges(p) \/ ReceiveHigh(p) \/ BuildLocalGraph(p) \/ ReceiveVertices(p)
      PROVE  Spread(M)'
  <2>1. /\ UNCHANGED <<mht_exchange, raw_map>>
        /\ pc[p] \in Learning \cup Placing \cup Receiving \cup Building \cup Naming \cup Meeting \cup Typing
        /\ ~Recorded(p) /\ mht_exchange[p] = {}
    <3>1. pc[p] \in {"place", "receive_high", "build", "vertices"}
      BY <1>6 DEF PlaceEdges, ReceiveHigh, BuildLocalGraph, ReceiveVertices
    <3>2. ~Recorded(p) /\ mht_exchange[p] = {}
      BY <3>1 DEF Recorded, Met, Done, Finished, Typing, Loading, FirstRound, Emptied, PairsEmpty
    <3>3. UNCHANGED <<mht_exchange, raw_map>>
      BY <1>6 DEF PlaceEdges, ReceiveHigh, BuildLocalGraph, ReceiveVertices, assigning
    <3> QED
      BY <3>1, <3>2, <3>3 DEF Placing, Receiving, Building, Naming
  <2>2. \A S, v : v \in VertexId => WithHashes(mht[p], S)[v] \in {mht[p][v], M[v]}
    <3>1. \A S, v : v \in VertexId \cap S => WithHashes(mht[p], S)[v] = M[v]
      BY <2>1, KnowsMasters DEF Spread
    <3>2. \A S, v : v \in VertexId /\ v \notin S => WithHashes(mht[p], S)[v] = mht[p][v]
      BY DEF WithHashes
    <3> QED
      BY <3>1, <3>2
  <2>3. /\ \A q \in Proc : q # p => mht'[q] = mht[q]
        /\ \A v \in VertexId : mht'[p][v] \in {mht[p][v], M[v]} \/ (mht'[p][v] = NoProc /\ Recorded(p)')
    <3>1. CASE PlaceEdges(p)
      <4>1. mht' = [mht EXCEPT ![p] = WithHashes(mht[p], Sources(low_edge_exchange[p] \cup high_edge_exchange[p]))]
        BY <3>1 DEF PlaceEdges
      <4> QED
        BY <1>0, <2>2, <4>1
    <3>2. CASE ReceiveHigh(p)
      <4>1. mht' = [mht EXCEPT ![p] = [v \in VertexId |->
                        IF v \in Sources(hybrid_edge_exchange[p]) THEN p ELSE @[v]]]
            /\ pc[p] = "receive_high"
        BY <3>2 DEF ReceiveHigh
      <4>2. \A v \in Sources(hybrid_edge_exchange[p]) : M[v] = p
        BY <4>1 DEF Resent, Sources
      <4> QED
        BY <1>0, <4>1, <4>2
    <3>3. CASE BuildLocalGraph(p)
      <4>1. mht' = [mht EXCEPT ![p] = WithHashes(mht[p], {x.vid : x \in hybrid_vertex_exchange[p]})]
        BY <3>3 DEF BuildLocalGraph
      <4> QED
        BY <1>0, <2>2, <4>1
    <3>4. CASE ReceiveVertices(p)
      <4>1. mht' = [mht EXCEPT ![p] = [v \in VertexId |-> NoProc]]
        BY <3>4 DEF ReceiveVertices
      <4>2. Recorded(p)'
        BY <1>0, <3>4, StepProgress
      <4> QED
        BY <1>0, <4>1, <4>2
    <3> QED
      BY <1>6, <3>1, <3>2, <3>3, <3>4
  <2> QED
    BY <1>1, <2>1, <2>3, OwnTable
<1> QED
  BY <1>3, <1>4, <1>5, <1>6, StepWrites

\* The owner chosen becomes the master.
LEMMA AssignLowTable ==
  ASSUME NEW M, IsMasters(M), FirstRound, Spread(M), UNCHANGED nprocs,
         NEW p \in Proc, NEW t \in Targets(raw_map[p]), AssignLow(p, t), Step(p),
         NEW o \in Proc, o = GingerToProc(p, Records(p, t))
  PROVE  Spread([M EXCEPT ![t] = o])'
<1> DEFINE N == [M EXCEPT ![t] = o]
<1>0. Proc' = Proc /\ Types /\ TypeInv /\ Lockstep /\ NoProc \notin Proc
      /\ \A v \in VertexId : Hash(v)' = Hash(v) /\ Hash(v) \in Proc
  BY SameCluster, HashIsProc, Cluster DEF FirstRound, TypeInv, Types, ControlTypes, Proc, NoProc
<1>1. t \in VertexId /\ Hash(t) = p
  BY <1>0 DEF FirstRound, MapByHash, Targets, Types, EdgeTypes, Edge
<1>2. Undecided(M, t)
  BY <1>1 DEF Spread, UndecidedYet
<1>3. /\ \A q \in Proc : q # p => mht'[q] = mht[q]
      /\ \A v \in VertexId : mht'[p][v] = IF v = t THEN o ELSE mht[p][v]
      /\ \A q \in Proc : mht_exchange'[q] = IF q = p THEN mht_exchange[q]
                                            ELSE mht_exchange[q] \cup {[vid |-> t, master |-> o]}
      /\ \A q \in Proc : raw_map'[q] = IF q = p THEN raw_map[p] \ Records(p, t) ELSE raw_map[q]
      /\ pc[p] = "assign"
  BY <1>0 DEF AssignLow, Types, MasterTypes, EdgeTypes
<1>4. N[t] = o /\ \A v \in VertexId : v # t => N[v] = M[v]
  BY <1>1 DEF IsMasters
<1> HIDE DEF N
<1>5. \A q \in Proc : (Unread(q)' <=> Unread(q)) /\ (Recorded(q) => Recorded(q)')
  <2>1. ~CollectAll(p) /\ ~CollectEdges(p)
    BY <1>3 DEF CollectAll, CollectEdges
  <2> QED
    BY <1>0, <2>1, StepProgress
<1>6. Learnt(N)'
  <2>1. ASSUME NEW q \in Proc, NEW v \in VertexId, mht'[q][v] # NoProc PROVE mht'[q][v] = N[v]
    <3>1. CASE v = t
      BY <1>2, <1>3, <1>4, <2>1, <3>1 DEF Undecided
    <3>2. CASE v # t
      <4>1. mht'[q][v] = mht[q][v]
        BY <1>3, <3>2
      <4> QED
        BY <1>4, <2>1, <3>2, <4>1 DEF Spread, Learnt
    <3> QED
      BY <3>1, <3>2
  <2>2. ASSUME NEW q \in Proc, NEW x \in mht_exchange'[q] PROVE x.master = N[x.vid]
    <3>1. CASE x \in mht_exchange[q]
      <4>1. x.vid \in VertexId /\ x.vid # t /\ x.master = M[x.vid]
        BY <1>0, <1>2, <3>1 DEF Spread, Learnt, Undecided, Types, MasterTypes, MasterPair
      <4> QED
        BY <1>4, <4>1
    <3>2. CASE x \notin mht_exchange[q]
      <4>1. x = [vid |-> t, master |-> o]
        BY <1>3, <2>2, <3>2
      <4> QED
        BY <1>4, <4>1
    <3> QED
      BY <3>1, <3>2
  <2> QED
    BY <1>0, <2>1, <2>2 DEF Learnt
<1>7. Told(N)'
  <2> SUFFICES ASSUME NEW q \in Proc, ~Recorded(q)', NEW v \in VertexId, N[v] # Hash(v),
                      mht'[q][v] = NoProc
               PROVE  [vid |-> v, master |-> N[v]] \in mht_exchange'[q]
    BY <1>0 DEF Told
  <2>1. CASE v = t
    <3>1. q # p
      BY <1>0, <1>3, <2>1
    <3> QED
      BY <1>3, <1>4, <2>1, <3>1
  <2>2. CASE v # t
    BY <1>3, <1>4, <1>5, <2>2 DEF Spread, Told
  <2> QED
    BY <2>1, <2>2
<1>8. UndecidedYet(N)'
  <2> SUFFICES ASSUME NEW v \in VertexId, NEW h \in Proc, h = Hash(v),
                      Unread(h)' \/ v \in Targets(raw_map'[h])
               PROVE  Undecided(N, v)'
    BY <1>0 DEF UndecidedYet
  <2>1. v # t
    <3>1. ~Unread(p)
      BY <1>0, <1>3 DEF Unread, Lockstep, Together, Loading
    <3>2. t \notin Targets(raw_map'[p])
      BY <1>3 DEF Targets, Records
    <3>3. ~Unread(p)' /\ (v = t => h = p)
      BY <1>1, <1>5, <3>1
    <3> QED
      BY <3>2, <3>3
  <2>2. Undecided(M, v)
    <3>1. Unread(h) \/ v \in Targets(raw_map[h])
      BY <1>3, <1>5 DEF Targets
    <3> QED
      BY <3>1 DEF Spread, UndecidedYet
  <2>3. N[v] = Hash(v)
    BY <1>4, <2>1, <2>2 DEF Undecided
  <2>4. \A q \in Proc : mht'[q][v] = NoProc
    BY <1>3, <2>1, <2>2 DEF Undecided
  <2>5. \A q \in Proc : \A x \in mht_exchange'[q] : x.vid # v
    <3> DEFINE y == [vid |-> t, master |-> o]
    <3>1. y.vid # v
      BY <2>1
    <3>2. \A q \in Proc : \A x \in mht_exchange'[q] : x \in mht_exchange[q] \/ x = y
      BY <1>3
    <3> HIDE DEF y
    <3> QED
      BY <2>2, <3>1, <3>2 DEF Undecided
  <2> QED
    BY <1>0, <2>3, <2>4, <2>5 DEF Undecided
<1> QED
  BY <1>6, <1>7, <1>8 DEF Spread, N

\* The steps of loading, and those all take together.
LEMMA OtherSpread ==
  ASSUME NEW M, FirstRound, Spread(M), UNCHANGED nprocs, round' <= 1,
         (\E p \in Proc : Load(p)) \/ Collective
  PROVE  Spread(M)'
<1>0. TypeInv /\ Types /\ Lockstep /\ \A v \in VertexId : Hash(v)' = Hash(v) /\ Hash(v) \in Proc
  BY SameCluster, HashIsProc DEF FirstRound, TypeInv
<1>1. UNCHANGED <<mht, mht_exchange, raw_map>>
  BY LoadWrites, CollectiveWrites
<1>2. \A q \in Proc : (Unread(q)' <=> Unread(q)) /\ (Recorded(q)' <=> Recorded(q))
  <2>1. ASSUME NEW p \in Proc, Load(p)
        PROVE  \A q \in Proc : (Unread(q)' <=> Unread(q)) /\ (Recorded(q)' <=> Recorded(q))
    BY <1>0, <2>1, LoadProgress
  <2>2. CASE Collective
    BY <1>0, <2>2, CollectiveProgress
  <2> QED
    BY <2>1, <2>2
<1> QED
  BY <1>0, <1>1, <1>2, SameTable

-----------------------------------------------------------------------------
(* The cut.                                                                *)

\* What has all the edges of a target is what Records gathers.
LEMMA AllRecords ==
  ASSUME FirstRound, NEW p \in Proc, NEW t \in Targets(raw_map[p])
  PROVE  /\ Records(p, t) = InOf(edges_added, t)
         /\ InOf(edges_added, t) \subseteq raw_map[p]
<1>1. PICK e \in raw_map[p] : e.target = t
  BY DEF Targets
<1>2. raw_map[p] \subseteq edges_added
  BY DEF FirstRound, TypeInv, Types, EdgeTypes
<1> QED
  BY <1>1, <1>2 DEF FirstRound, MapByHash, Records, InOf

\* No process has a local graph before it has built one.
LEMMA StepHighKnown ==
  ASSUME NEW H, FirstRound, HighKnown(H), UNCHANGED nprocs, NEW p \in Proc, Step(p)
  PROVE  HighKnown(H)'
<1>0. Proc' = Proc /\ TypeInv /\ Lockstep
  BY SameCluster DEF FirstRound
<1>1. /\ UNCHANGED edges_added
      /\ \A q \in Proc : (pc'[q] \notin Loading => pc[q] \notin Loading) /\ (Done(q)' => Done(q))
  <2>1. Moves(p) /\ (\A q \in Proc : q # p => pc'[q] = pc[q]) /\ UNCHANGED edges_added
    BY <1>0, StepMoves DEF input
  <2>2. pc[p] \notin Loading
    BY <2>1 DEF Moves, Loading
  <2> QED
    BY <1>0, <2>1, <2>2, StepProgress
<1>2. UNCHANGED local_edges \/ \A q \in Proc : ~Done(q)'
  <2>1. ASSUME BuildLocalGraph(p) PROVE \A q \in Proc : ~Done(q)
    <3>1. Together(Building)
      BY <1>0, <2>1, AllTogether DEF BuildLocalGraph, Segments, Building
    <3> QED
      BY <3>1 DEF Together, Done, Finished, Building, Typing, Loading
  <2> QED
    BY <1>1, <2>1, StepWrites
<1> QED
  BY <1>0, <1>1, <1>2 DEF HighKnown, InGraph

LEMMA StepHighLow ==
  ASSUME NEW M, NEW H, FirstRound, HighKnown(H), HighLow(M, H), UNCHANGED nprocs,
         NEW p \in Proc, Step(p), ~\E t \in Targets(raw_map[p]) : AssignLow(p, t)
  PROVE  HighLow(M, H)'
<1>0. Proc' = Proc /\ Types
  BY SameCluster DEF FirstRound, TypeInv
<1>1. CASE UNCHANGED <<high_edge_exchange, low_edge_exchange>>
  BY <1>0, <1>1 DEF HighLow
<1>2. ASSUME NEW t \in Targets(raw_map[p]), AssignHigh(p, t)
      PROVE  HighLow(M, H)'
  <2>1. /\ \A q \in Proc : high_edge_exchange'[q] \subseteq high_edge_exchange[q] \cup Records(p, t)
        /\ UNCHANGED low_edge_exchange
        /\ pc[p] = "assign" /\ Cardinality(Records(p, t)) > Threshold
    BY <1>0, <1>2 DEF AssignHigh, Types, EdgeTypes
  <2>2. t \in VertexId
    BY <1>0 DEF Targets, Types, EdgeTypes, Edge
  <2>3. t \in H
    BY <2>1, <2>2, AllRecords DEF HighKnown, Loading
  <2> QED
    BY <1>0, <2>1, <2>3 DEF HighLow, Records
<1>3. CASE PlaceEdges(p)
  <2>1. \A q \in Proc : /\ high_edge_exchange'[q] \subseteq high_edge_exchange[q]
                        /\ low_edge_exchange'[q] \subseteq low_edge_exchange[q]
    BY <1>0, <1>3 DEF PlaceEdges, Types, EdgeTypes
  <2> QED
    BY <1>0, <2>1 DEF HighLow
<1> QED
  BY <1>1, <1>2, <1>3, StepWrites

\* What PlaceEdges knows of where to send an edge.
LEMMA SentToMaster ==
  ASSUME NEW M, NEW H, FirstRound, Spread(M), HighLow(M, H), NEW p \in Proc, PlaceEdges(p)
  PROVE  LET m == WithHashes(mht[p], Sources(low_edge_exchange[p] \cup high_edge_exchange[p]))
         IN  \A q : \A e \in SentTo(p, m, q) : e.target \in H /\ M[e.source] = q
<1> DEFINE S == Sources(low_edge_exchange[p] \cup high_edge_exchange[p])
           m == WithHashes(mht[p], S)
<1>1. pc[p] = "place"
  BY DEF PlaceEdges
<1>2. ~Recorded(p) /\ mht_exchange[p] = {}
  BY <1>1 DEF Recorded, Met, Done, Finished, Typing, Loading, FirstRound, Emptied, PairsEmpty, Learning
<1>3. \A v \in VertexId \cap S : m[v] = M[v]
  BY <1>2, KnowsMasters DEF Spread
<1>4. \A e \in high_edge_exchange[p] : e.source \in VertexId \cap S
  BY DEF FirstRound, TypeInv, Types, EdgeTypes, Edge, Sources
<1> HIDE DEF m, S
<1>5. \A q : \A e \in SentTo(p, m, q) : e.target \in H /\ M[e.source] = q
  BY <1>3, <1>4 DEF SentTo, HighOwner, HighLow
<1> QED
  BY <1>5 DEF m, S

LEMMA StepResent ==
  ASSUME NEW M, NEW H, FirstRound, Spread(M), HighLow(M, H), Resent(M, H), UNCHANGED nprocs,
         NEW p \in Proc, Step(p)
  PROVE  Resent(M, H)'
<1> DEFINE X == {"place", "resend_flush", "receive_high"}
<1>0. Proc' = Proc /\ Types /\ TypeInv
  BY SameCluster DEF FirstRound, TypeInv
<1>1. \A q \in Proc : pc'[q] \in X => pc[q] \in X
  BY <1>0, StepMoves DEF Moves
<1>2. ASSUME \A q \in Proc : hybrid_edge_exchange'[q] \subseteq hybrid_edge_exchange[q]
      PROVE  Resent(M, H)'
  BY <1>0, <1>1, <1>2 DEF Resent
<1>3. CASE CollectAll(p) \/ CollectEdges(p) \/ ReceiveHigh(p)
  <2>1. hybrid_edge_exchange' = [hybrid_edge_exchange EXCEPT ![p] = {}]
    BY <1>3 DEF CollectAll, CollectEdges, ReceiveHigh
  <2> QED
    BY <1>0, <1>2, <2>1 DEF Types, EdgeTypes
<1>4. CASE PlaceEdges(p)
  <2> DEFINE m == WithHashes(mht[p], Sources(low_edge_exchange[p] \cup high_edge_exchange[p]))
  <2>1. hybrid_edge_exchange' = [q \in Proc |-> IF q = p THEN hybrid_edge_exchange[q]
                                                ELSE hybrid_edge_exchange[q] \cup SentTo(p, m, q)]
    BY <1>4 DEF PlaceEdges
  <2>2. \A q : \A e \in SentTo(p, m, q) : e.target \in H /\ M[e.source] = q
    BY <1>4, SentToMaster
  <2> HIDE DEF m
  <2>3. \A q \in Proc : hybrid_edge_exchange'[q] \subseteq hybrid_edge_exchange[q] \cup SentTo(p, m, q)
    BY <2>1
  <2> QED
    BY <1>0, <1>1, <2>2, <2>3 DEF Resent
<1>5. CASE UNCHANGED hybrid_edge_exchange
  BY <1>2, <1>5
<1> QED
  BY <1>3, <1>4, <1>5, StepWrites

LEMMA StepPlacedWell ==
  ASSUME NEW M, NEW H, IsMasters(M), FirstRound, Spread(M), HighLow(M, H), Resent(M, H),
         PlacedWell(M, H), UNCHANGED nprocs, NEW p \in Proc, Step(p)
  PROVE  PlacedWell(M, H)'
<1>0. Proc' = Proc /\ Types /\ TypeInv
  BY SameCluster DEF FirstRound, TypeInv
<1>1. ASSUME NEW es,
             \A q \in Proc : hybrid_edges'[q] \cup local_edges'[q] \subseteq
                 hybrid_edges[q] \cup local_edges[q] \cup (IF q = p THEN es ELSE {}),
             \A e \in es : Placed(M, H, e, p)
      PROVE  PlacedWell(M, H)'
  BY <1>0, <1>1 DEF PlacedWell, Placed
<1>2. CASE UNCHANGED <<hybrid_edges, local_edges>>
  BY <1>0, <1>2 DEF PlacedWell, Placed
<1>3. CASE CollectAll(p)
  <2>1. Proc = {p}
    BY <1>3 DEF CollectAll, FirstRound, Lockstep
  <2>2. \A e \in hybrid_edge_exchange[p] : Placed(M, H, e, p)
    BY <1>0, <2>1 DEF Placed, IsMasters, Types, EdgeTypes, Edge
  <2>3. \A q \in Proc : hybrid_edges'[q] = hybrid_edges[q] \cup (IF q = p THEN hybrid_edge_exchange[p] ELSE {})
    BY <1>0, <1>3 DEF CollectAll, Types, EdgeTypes
  <2>4. UNCHANGED local_edges
    BY <1>3 DEF CollectAll, localg
  <2> QED
    BY <1>1, <2>2, <2>3, <2>4
<1>4. CASE PlaceEdges(p)
  <2> DEFINE m == WithHashes(mht[p], Sources(low_edge_exchange[p] \cup high_edge_exchange[p]))
  <2>1. hybrid_edges' = [hybrid_edges EXCEPT ![p] = @ \cup low_edge_exchange[p] \cup SentTo(p, m, p)]
        /\ UNCHANGED local_edges
    BY <1>4 DEF PlaceEdges, Kept, localg
  <2>2. \A q : \A e \in SentTo(p, m, q) : e.target \in H /\ M[e.source] = q
    BY <1>4, SentToMaster
  <2> HIDE DEF m
  <2>3. \A e \in low_edge_exchange[p] \cup SentTo(p, m, p) : Placed(M, H, e, p)
    BY <2>2 DEF HighLow, Placed
  <2>4. \A q \in Proc : hybrid_edges'[q] \subseteq hybrid_edges[q] \cup
            (IF q = p THEN low_edge_exchange[p] \cup SentTo(p, m, p) ELSE {})
    BY <1>0, <2>1 DEF Types, EdgeTypes
  <2> QED
    BY <1>1, <2>1, <2>3, <2>4
<1>5. CASE ReceiveHigh(p)
  <2>1. \A e \in hybrid_edge_exchange[p] : Placed(M, H, e, p)
    BY <1>5 DEF ReceiveHigh, Resent, Placed
  <2>2. \A q \in Proc : hybrid_edges'[q] = hybrid_edges[q] \cup (IF q = p THEN hybrid_edge_exchange[p] ELSE {})
    BY <1>0, <1>5 DEF ReceiveHigh, Types, EdgeTypes
  <2>3. UNCHANGED local_edges
    BY <1>5 DEF ReceiveHigh, localg
  <2> QED
    BY <1>1, <2>1, <2>2, <2>3
<1>6. CASE BuildLocalGraph(p)
  <2>1. \A q \in Proc : /\ hybrid_edges'[q] \subseteq hybrid_edges[q]
                        /\ local_edges'[q] \subseteq local_edges[q] \cup hybrid_edges[q]
    BY <1>0, <1>6 DEF BuildLocalGraph, Types, EdgeTypes
  <2> QED
    BY <1>0, <2>1 DEF PlacedWell, Placed
<1> QED
  BY <1>2, <1>3, <1>4, <1>5, <1>6, StepWrites

LEMMA StepCut ==
  ASSUME NEW M, NEW H, IsMasters(M), FirstRound, Spread(M), Cut(M, H), UNCHANGED nprocs,
         NEW p \in Proc, Step(p), ~\E t \in Targets(raw_map[p]) : AssignLow(p, t)
  PROVE  Cut(M, H)'
<1>1. HighKnown(H)'
  BY StepHighKnown DEF Cut
<1>2. HighLow(M, H)'
  BY StepHighLow DEF Cut
<1>3. Resent(M, H)'
  BY StepResent DEF Cut
<1>4. PlacedWell(M, H)'
  BY StepPlacedWell DEF Cut
<1> QED
  BY <1>1, <1>2, <1>3, <1>4 DEF Cut

\* The target assigned had no edge anywhere else, so no edge is there by its
\* former master.
LEMMA AssignLowCut ==
  ASSUME NEW M, NEW H, IsMasters(M), FirstRound, Cut(M, H), UNCHANGED nprocs,
         NEW p \in Proc, NEW t \in Targets(raw_map[p]), AssignLow(p, t), Step(p),
         NEW o \in Proc, o = GingerToProc(p, Records(p, t))
  PROVE  Cut([M EXCEPT ![t] = o], H)'
<1> DEFINE N == [M EXCEPT ![t] = o]
<1>0. Proc' = Proc /\ Types /\ TypeInv /\ Lockstep /\ EdgeInv
  BY SameCluster DEF FirstRound, TypeInv
<1>1. t \in VertexId
  BY <1>0 DEF Targets, Types, EdgeTypes, Edge
<1>2. N[t] = o /\ \A v \in VertexId : v # t => N[v] = M[v]
  BY <1>1 DEF IsMasters
<1> HIDE DEF N
<1>3. /\ pc[p] = "assign" /\ Cardinality(Records(p, t)) \in 1 .. Threshold
      /\ UNCHANGED <<high_edge_exchange, hybrid_edges, local_edges>>
      /\ \A q \in Proc : low_edge_exchange'[q] =
             low_edge_exchange[q] \cup (IF q = o THEN Records(p, t) ELSE {})
  BY <1>0 DEF AssignLow, Types, EdgeTypes, building, localg
<1>4. Together(Deciding)' /\ Together(Deciding)
  <2>1. Together(Deciding)
    BY <1>0, <1>3, AllTogether DEF Segments, Deciding
  <2>2. pc'[p] \in {"assign", "sync"} /\ \A q \in Proc : q # p => pc'[q] = pc[q]
    BY <1>0, StepMoves, <1>3 DEF Moves, AssignLow, AfterTarget, Types, ControlTypes
  <2> QED
    BY <1>0, <2>1, <2>2 DEF Together, Deciding
<1>5. t \notin H
  <2>1. Threshold \in Nat
    BY GingerAssumption
  <2>2. ~(Cardinality(InOf(edges_added, t)) > Threshold)
    BY <1>3, <2>1, AllRecords
  <2> QED
    BY <1>1, <1>3, <2>2 DEF Cut, HighKnown, Loading
<1>6. HighKnown(H)'
  BY StepHighKnown DEF Cut
<1>7. HighLow(N, H)'
  <2>1. ASSUME NEW q \in Proc, NEW e \in low_edge_exchange[q]
        PROVE  e.target \notin H /\ N[e.target] = q
    <3>1. e.target \notin H /\ M[e.target] = q
      BY DEF Cut, HighLow
    <3>2. e \in edges_added /\ e.target \in VertexId
      BY <1>0 DEF Types, EdgeTypes, Edge
    <3>3. e.target # t
      <4>1. SUFFICES ASSUME e.target = t PROVE FALSE
        OBVIOUS
      <4>2. e \in raw_map[p]
        BY <3>2, <4>1, AllRecords DEF InOf
      <4>3. In(e, 2, p) /\ In(e, 4, q)
        BY <4>2 DEF In
      <4> QED
        BY <1>0, <3>2, <4>3, NotElsewhere DEF EdgeInv
    <3> QED
      BY <1>2, <3>1, <3>2, <3>3
  <2>2. \A e \in Records(p, t) : e.target = t
    BY DEF Records
  <2>3. ASSUME NEW q \in Proc, NEW e \in low_edge_exchange'[q]
        PROVE  e.target \notin H /\ N[e.target] = q
    <3>1. CASE e \in low_edge_exchange[q]
      BY <2>1, <3>1
    <3>2. CASE e \notin low_edge_exchange[q]
      BY <1>2, <1>3, <1>5, <2>2, <2>3, <3>2
    <3> QED
      BY <3>1, <3>2
  <2> QED
    BY <1>0, <1>3, <2>3 DEF Cut, HighLow
<1>8. Resent(N, H)'
  BY <1>4 DEF Resent, Together, Deciding
<1>9. PlacedWell(N, H)'
  <2>1. \A q \in Proc : hybrid_edges'[q] = {} /\ local_edges'[q] = {}
    <3>1. \A q \in Proc : pc[q] \in Deciding
      BY <1>4 DEF Together
    <3>2. \A q \in Proc : ~Built(q) /\ pc[q] \notin {"resend_flush", "build"} \cup Receiving
      <4>1. round # 0 /\ \A q \in Proc : pc[q] \notin Loading
        BY <1>0, <1>3, <3>1 DEF Deciding, Loading, Lockstep, Together
      <4> QED
        BY <3>1, <4>1 DEF Deciding, Receiving, Built, Recorded, Met, Done, Finished, Typing
    <3> QED
      BY <1>3, <3>2 DEF FirstRound, Emptied, PlacedEmpty, LocalEmpty
  <2> QED
    BY <1>0, <2>1 DEF PlacedWell
<1> QED
  BY <1>6, <1>7, <1>8, <1>9 DEF Cut, N

\* When the records meet, every edge is in a local graph.
LEMMA AllInGraph ==
  ASSUME FirstRound, NEW S, S \in {Meeting, Typing, Naming}, Together(S)
  PROVE  InGraph = edges_added
<1>1. ASSUME NEW e \in edges_added PROVE e \in InGraph
  <2>1. PICK k \in 1 .. 6, p \in Proc : In(e, k, p)
    BY DEF FirstRound, EdgeInv, OnePlace
  <2>2. pc[p] \in Meeting \cup Typing \cup Naming
    BY DEF Together
  <2>3. /\ pc[p] \notin {"collect", "assign", "sync", "mht_flush", "place"} \cup Learning
        /\ pc[p] \notin {"alone", "collect", "receive_high"} \cup Loading \cup Placing
        /\ pc[p] \notin {"resend_flush", "build"} \cup Receiving
    BY <2>2 DEF Meeting, Typing, Naming, Learning, Loading, Placing, Receiving
  <2>4. /\ high_edge_exchange[p] = {} /\ low_edge_exchange[p] = {} /\ hybrid_edge_exchange[p] = {}
        /\ hybrid_edges[p] = {} /\ raw_map[p] = {}
    BY <2>3 DEF FirstRound, Emptied, HighLowEmpty, LoadedEmpty, PlacedEmpty, EdgeInv, MapEmpty
  <2> QED
    BY <2>1, <2>4 DEF In, InGraph
<1>2. \A p \in Proc : local_edges[p] \subseteq edges_added
  BY DEF FirstRound, TypeInv, Types, EdgeTypes
<1> QED
  BY <1>1, <1>2 DEF InGraph

LEMMA LoadCut ==
  ASSUME NEW M, NEW H, FirstRound, Cut(M, H), UNCHANGED nprocs, NEW p \in Proc, Load(p)
  PROVE  Cut(M, H)'
<1>0. Proc' = Proc /\ TypeInv /\ Lockstep
  BY SameCluster DEF FirstRound
<1>1. /\ UNCHANGED <<high_edge_exchange, low_edge_exchange, hybrid_edges, local_edges>>
      /\ \A q \in Proc : pc'[q] \in Loading /\ (Done(q)' => Done(q))
  BY <1>0, LoadWrites, LoadProgress, LoadMoves DEF Together
<1>2. \A q \in Proc : pc'[q] \notin {"place", "resend_flush", "receive_high"}
  BY <1>1 DEF Loading
<1> QED
  BY <1>0, <1>1, <1>2 DEF Cut, HighKnown, HighLow, Resent, PlacedWell, Placed, InGraph

\* The vertices of high degree are settled when the first finalization begins.
LEMMA CollectiveCut ==
  ASSUME NEW M, NEW H, FirstRound, Cut(M, H), UNCHANGED nprocs, Collective, round' <= 1
  PROVE  \E G : Cut(M, G)'
<1>0. Proc' = Proc /\ TypeInv /\ Lockstep
  BY SameCluster DEF FirstRound
<1>1. CollectiveMoves
  BY <1>0, CollectiveMove
<1>2. UNCHANGED <<edges_added, hybrid_edge_exchange, high_edge_exchange, low_edge_exchange,
                  hybrid_edges, local_edges>>
  BY CollectiveWrites
<1>3. \A G : HighLow(M, G) => HighLow(M, G)'
  BY <1>0, <1>2 DEF HighLow
<1>4. \A G : PlacedWell(M, G) => PlacedWell(M, G)'
  BY <1>0, <1>2 DEF PlacedWell, Placed
<1>5. CASE round' # round
  <2>0. PICK G : G = {t \in VertexId : Cardinality(InOf(edges_added, t)) > Threshold}
    OBVIOUS
  <2>1. /\ \A q \in Proc : pc[q] = "flush" /\ pc'[q] \in {"alone", "collect"}
        /\ round = 0
    <3>1. round \in Nat
      BY <1>0 DEF TypeInv, Types, ControlTypes
    <3> QED
      BY <1>1, <1>5, <3>1 DEF CollectiveMoves
  <2>2. \A q \in Proc : ~Done(q)'
    BY <2>1 DEF Done, Finished, Typing, Loading
  <2>3. \A q \in Proc : high_edge_exchange[q] = {} /\ low_edge_exchange[q] = {} /\ hybrid_edges[q] = {}
                        /\ local_edges[q] = {}
    <3>1. \A q \in Proc : ~Built(q)
      BY <2>1 DEF Built, Recorded, Met, Done, Finished, Typing
    <3>2. \A q \in Proc : /\ pc[q] \notin {"collect", "assign", "sync", "mht_flush", "place"} \cup Learning
                          /\ pc[q] \notin {"resend_flush", "build"} \cup Receiving
      BY <2>1 DEF Learning, Receiving
    <3> QED
      BY <3>1, <3>2 DEF FirstRound, Emptied, HighLowEmpty, PlacedEmpty, LocalEmpty
  <2>4. HighLow(M, G)' /\ PlacedWell(M, G)'
    <3>1. HighLow(M, G) /\ PlacedWell(M, G)
      BY <2>3 DEF HighLow, PlacedWell
    <3> QED
      BY <3>1, <1>3, <1>4
  <2>5. HighKnown(G)'
    BY <1>0, <1>2, <2>0, <2>2 DEF HighKnown
  <2>6. Resent(M, G)'
    BY <2>1, <1>0 DEF Resent
  <2>7. Cut(M, G)'
    BY <2>4, <2>5, <2>6 DEF Cut
  <2> QED
    BY <2>7
<1>6. CASE round' = round
  <2>1. HighKnown(H)'
    <3>1. \A q \in Proc : pc'[q] \notin Loading => pc[q] \notin Loading
      <4>1. round \in Nat
        BY <1>0 DEF TypeInv, Types, ControlTypes
      <4> QED
        BY <1>1, <1>6, <4>1 DEF CollectiveMoves, After, Loading
    <3>2. \A t \in VertexId, q \in Proc : pc'[q] \notin Loading =>
              (t \in H <=> Cardinality(InOf(edges_added, t)) > Threshold)
      BY <3>1 DEF Cut, HighKnown
    <3>3. ASSUME NEW q \in Proc, Done(q)', NEW t \in VertexId
          PROVE  t \in H <=> Cardinality(InOf(InGraph, t)) > Threshold
      <4>1. CASE Done(q)
        BY <4>1 DEF Cut, HighKnown
      <4>2. CASE SyncMeta
        <5>1. Together(Meeting) /\ pc[q] = "sync_meta"
          BY <4>2 DEF SyncMeta, AllAt, Together, Meeting
        <5>2. InGraph = edges_added
          BY <5>1, AllInGraph
        <5> QED
          BY <5>1, <5>2 DEF Cut, HighKnown, Loading
      <4> QED
        BY <1>0, <3>3, <4>1, <4>2, CollectiveProgress
    <3>4. InGraph' = InGraph
      BY <1>0, <1>2 DEF InGraph
    <3> QED
      BY <1>0, <1>2, <3>2, <3>3, <3>4 DEF HighKnown
  <2>2. Resent(M, H)'
    <3>1. ASSUME NEW q \in Proc, pc'[q] \in {"place", "resend_flush", "receive_high"}
          PROVE  pc[q] \in {"place", "resend_flush", "receive_high"} \/ hybrid_edge_exchange[q] = {}
      <4>1. pc[q] \in {"edge_flush", "resend_flush"}
        BY <1>1, <3>1 DEF CollectiveMoves, After
      <4>2. pc[q] = "edge_flush" => hybrid_edge_exchange[q] = {}
        BY DEF FirstRound, Emptied, LoadedEmpty, Loading, Placing
      <4> QED
        BY <4>1, <4>2
    <3> QED
      BY <1>0, <1>2, <3>1 DEF Cut, Resent
  <2> QED
    BY <1>3, <1>4, <2>1, <2>2 DEF Cut
<1> QED
  BY <1>5, <1>6

-----------------------------------------------------------------------------
(* The records.                                                            *)

Present(p) == vid2lvid[p] \cup vid2lvid_buffer[p]

\* A record names the master.
OwnersRight(M) ==
    \A p \in Proc : Recorded(p) => \A v \in Present(p) : lvid2record[p][v].owner = M[v]

\* What a master has been told: who has its vertices.
BufferRight(M) ==
    \A p \in Proc : ~Met(p) => \A v \in VertexId : \A q \in Proc :
        [vid |-> v, mirror |-> q] \in vid_buffer[p] <=>
            M[v] = p /\ q # p /\ Recorded(q) /\ v \in Present(q)

\* Until it has looked it has no mirrors, and from then on all of them.
MirrorsRight(M) ==
    \A p \in Proc :
        /\ Recorded(p) /\ ~Met(p) => \A v \in Present(p) : lvid2record[p][v].mirrors = {}
        /\ Met(p) => \A v \in VertexId : M[v] = p =>
              /\ (\E q \in Proc : v \in Present(q)) => v \in Present(p)
              /\ v \in Present(p) =>
                    lvid2record[p][v].mirrors = {q \in Proc : q # p /\ v \in Present(q)}

\* A local graph has the ends of its edges.
EndsPresent ==
    \A p \in Proc : Built(p) => \A e \in local_edges[p] : {e.source, e.target} \subseteq Present(p)

Recording(M) == OwnersRight(M) /\ BufferRight(M) /\ MirrorsRight(M) /\ EndsPresent

LEMMA SameRecords ==
  ASSUME NEW M, Recording(M),
         UNCHANGED <<nprocs, vid_buffer, vid2lvid, vid2lvid_buffer, lvid2record, local_edges>>,
         \A q \in Proc : (Built(q)' <=> Built(q)) /\ (Recorded(q)' <=> Recorded(q)) /\ (Met(q)' <=> Met(q))
  PROVE  Recording(M)'
<1>0. Proc' = Proc /\ \A q \in Proc : Present(q)' = Present(q)
  BY SameCluster DEF Present
<1>1. OwnersRight(M)'
  BY <1>0 DEF Recording, OwnersRight
<1>2. BufferRight(M)'
  <2>1. ASSUME NEW p \in Proc, ~Met(p)', NEW v \in VertexId, NEW q \in Proc
        PROVE  [vid |-> v, mirror |-> q] \in vid_buffer'[p] <=>
                   M[v] = p /\ q # p /\ Recorded(q)' /\ v \in Present(q)'
    <3>1. [vid |-> v, mirror |-> q] \in vid_buffer[p] <=>
              M[v] = p /\ q # p /\ Recorded(q) /\ v \in Present(q)
      BY <2>1 DEF Recording, BufferRight
    <3> QED
      BY <1>0, <3>1
  <2> QED
    BY <1>0, <2>1 DEF BufferRight
<1>3. MirrorsRight(M)'
  BY <1>0 DEF Recording, MirrorsRight
<1>4. EndsPresent'
  BY <1>0 DEF Recording, EndsPresent
<1> QED
  BY <1>1, <1>2, <1>3, <1>4 DEF Recording

\* Nothing is recorded: any process may be the master.
LEMMA NothingRecorded ==
  ASSUME NEW M, NEW N, Recording(M), \A q \in Proc : ~Recorded(q)
  PROVE  Recording(N)
<1>1. \A q \in Proc : ~Met(q)
  BY DEF Recorded
<1> QED
  BY <1>1 DEF Recording, OwnersRight, BufferRight, MirrorsRight

LEMMA BuildRecords ==
  ASSUME NEW M, FirstRound, Recording(M), UNCHANGED nprocs, NEW p \in Proc, Step(p), BuildLocalGraph(p)
  PROVE  Recording(M)'
<1>0. Proc' = Proc /\ Types /\ TypeInv /\ Lockstep
  BY SameCluster DEF FirstRound, TypeInv
<1>1. \A q \in Proc : ~Recorded(q)
  <2>1. Together(Building)
    BY <1>0, AllTogether DEF BuildLocalGraph, Segments, Building
  <2> QED
    BY <2>1 DEF Together, Building, Recorded, Met, Done, Finished, Typing, Loading
<1>2. \A q \in Proc : ~Recorded(q)' /\ ~Met(q) /\ ~Met(q)' /\ (Built(q)' <=> Built(q) \/ q = p)
  <2>1. ~ReceiveVertices(p)
    BY DEF BuildLocalGraph, ReceiveVertices
  <2> QED
    BY <1>0, <1>1, <2>1, StepProgress DEF Recorded
<1>3. UNCHANGED vid_buffer
  BY DEF BuildLocalGraph
<1>4. OwnersRight(M)' /\ BufferRight(M)' /\ MirrorsRight(M)'
  BY <1>0, <1>1, <1>2, <1>3 DEF Recording, OwnersRight, BufferRight, MirrorsRight
<1>5. EndsPresent'
  <2>1. /\ \A q \in Proc : local_edges'[q] = local_edges[q] \cup (IF q = p THEN hybrid_edges[p] ELSE {})
        /\ \A q \in Proc : q # p => vid2lvid_buffer'[q] = vid2lvid_buffer[q]
        /\ vid2lvid_buffer'[p] = (Sources(hybrid_edges[p]) \cup Targets(hybrid_edges[p])) \ vid2lvid[p]
        /\ UNCHANGED vid2lvid
    BY <1>0 DEF BuildLocalGraph, Types, EdgeTypes, GraphTypes
  <2>2. local_edges[p] = {}
    <3>1. ~Built(p)
      BY DEF BuildLocalGraph, Built, Recorded, Met, Done, Finished, Typing, Loading
    <3> QED
      BY <3>1 DEF FirstRound, LocalEmpty
  <2>3. \A e \in local_edges'[p] : {e.source, e.target} \subseteq Present(p)'
    BY <2>1, <2>2 DEF Present, Sources, Targets
  <2>4. ASSUME NEW q \in Proc, q # p, Built(q)', NEW e \in local_edges'[q]
        PROVE  {e.source, e.target} \subseteq Present(q)'
    BY <1>2, <2>1, <2>4 DEF Recording, EndsPresent, Present
  <2> QED
    BY <1>0, <2>3, <2>4 DEF EndsPresent
<1> QED
  BY <1>4, <1>5 DEF Recording

\* The vertices p has once it has received the data, and what it knows of them.
LEMMA ReceiveRecords ==
  ASSUME NEW M, FirstRound, Spread(M), Recording(M), UNCHANGED nprocs,
         NEW p \in Proc, Step(p), ReceiveVertices(p)
  PROVE  Recording(M)'
<1> DEFINE new == vid2lvid_buffer[p] \cup ({x.vid : x \in resend_vertex_exchange[p]} \ vid2lvid[p])
           m == WithHashes(mht[p], new)
<1>0. Proc' = Proc /\ Types /\ TypeInv /\ Lockstep
  BY SameCluster DEF FirstRound, TypeInv
<1>1. pc[p] = "vertices" /\ ~Recorded(p) /\ \A q \in Proc : ~Met(q)
  <2>1. pc[p] = "vertices"
    BY DEF ReceiveVertices
  <2>2. Together(Naming)
    BY <1>0, <2>1, AllTogether DEF Segments, Naming
  <2> QED
    BY <2>1, <2>2 DEF Together, Naming, Recorded, Met, Done, Finished, Typing, Loading
<1>2. \A q \in Proc : ~Met(q)' /\ (Recorded(q)' <=> Recorded(q) \/ q = p) /\ (Built(q)' <=> Built(q))
  <2>1. ~Handshake(p) /\ ~BuildLocalGraph(p)
    BY <1>1 DEF Handshake, BuildLocalGraph
  <2> QED
    BY <1>0, <1>1, <2>1, StepProgress
<1>3. new \subseteq VertexId /\ vid2lvid_buffer[p] \subseteq new
  BY <1>0 DEF Types, GraphTypes, VertexTypes, VertexRec
<1>4. \A v \in new : OwnerOf(p, m, v) = M[v]
  <2>1. mht_exchange[p] = {}
    BY <1>1 DEF FirstRound, Emptied, PairsEmpty
  <2> QED
    BY <1>1, <1>3, <2>1, KnowsMasters DEF Spread, OwnerOf
<1>5. /\ vid2lvid_buffer' = [vid2lvid_buffer EXCEPT ![p] = new]
      /\ lvid2record' = [lvid2record EXCEPT ![p] = [v \in VertexId |->
             IF v \in new THEN [NoRecord EXCEPT !.owner = OwnerOf(p, m, v)] ELSE @[v]]]
      /\ vid_buffer' = [q \in Proc |-> IF q = p THEN vid_buffer[q] ELSE vid_buffer[q] \cup
             {[vid |-> v, mirror |-> p] : v \in {w \in new : OwnerOf(p, m, w) = q}}]
      /\ UNCHANGED <<local_edges, vid2lvid>>
  BY DEF ReceiveVertices
<1> HIDE DEF m, new
<1>6. /\ Present(p)' = new /\ Present(p) \subseteq new
      /\ \A q \in Proc : q # p => Present(q)' = Present(q) /\ lvid2record'[q] = lvid2record[q]
  <2>1. vid2lvid[p] = {}
    BY <1>1 DEF FirstRound, LocalEmpty
  <2> QED
    BY <1>0, <1>3, <1>5, <2>1 DEF Present, Types, GraphTypes
<1>7. \A v \in new : lvid2record'[p][v].owner = M[v] /\ lvid2record'[p][v].mirrors = {}
  BY <1>0, <1>3, <1>4, <1>5 DEF NoRecord, Types, GraphTypes
<1>8. OwnersRight(M)'
  BY <1>0, <1>2, <1>6, <1>7 DEF Recording, OwnersRight
<1>9. MirrorsRight(M)'
  BY <1>0, <1>2, <1>1, <1>6, <1>7 DEF Recording, MirrorsRight
<1>10. EndsPresent'
  BY <1>0, <1>2, <1>5, <1>6 DEF Recording, EndsPresent
<1>11. BufferRight(M)'
  <2> SUFFICES ASSUME NEW q \in Proc, NEW v \in VertexId, NEW r \in Proc
               PROVE  [vid |-> v, mirror |-> r] \in vid_buffer'[q] <=>
                          M[v] = q /\ r # q /\ Recorded(r)' /\ v \in Present(r)'
    BY <1>0 DEF BufferRight
  <2>1. [vid |-> v, mirror |-> r] \in vid_buffer[q] <=>
            M[v] = q /\ r # q /\ Recorded(r) /\ v \in Present(r)
    BY <1>1 DEF Recording, BufferRight
  <2>2. [vid |-> v, mirror |-> r] \in vid_buffer'[q] <=>
            \/ [vid |-> v, mirror |-> r] \in vid_buffer[q]
            \/ q # p /\ r = p /\ v \in new /\ OwnerOf(p, m, v) = q
    BY <1>5
  <2> QED
    BY <1>1, <1>2, <1>4, <1>6, <2>1, <2>2
<1> QED
  BY <1>8, <1>9, <1>10, <1>11 DEF Recording

\* The master looks at what it has been told.
LEMMA HandshakeRecords ==
  ASSUME NEW M, FirstRound, Recording(M), UNCHANGED nprocs, NEW p \in Proc, Step(p), Handshake(p)
  PROVE  Recording(M)'
<1> DEFINE got == vid_buffer[p]
           present == vid2lvid[p] \cup vid2lvid_buffer[p]
           flying == {x.vid : x \in got} \ present
           from(v) == {x.mirror : x \in {y \in got : y.vid = v}}
<1>0. Proc' = Proc /\ Types /\ TypeInv /\ Lockstep
  BY SameCluster DEF FirstRound, TypeInv
<1>1. ~Met(p) /\ \A q \in Proc : Recorded(q)
  <2>1. pc[p] = "handshake"
    BY DEF Handshake
  <2>2. Together(Meeting)
    BY <1>0, <2>1, AllTogether DEF Segments, Meeting
  <2> QED
    BY <2>1, <2>2 DEF Together, Meeting, Recorded, Met, Done, Finished, Typing, Loading
<1>2. \A q \in Proc : Recorded(q)' /\ (Met(q)' <=> Met(q) \/ q = p) /\ (Built(q)' <=> Built(q))
  <2>1. ~BuildLocalGraph(p)
    BY DEF Handshake, BuildLocalGraph
  <2> QED
    BY <1>0, <1>1, <2>1, StepProgress
<1>3. /\ \A q \in Proc : q # p => lvid2record'[q] = lvid2record[q]
      /\ \A v \in VertexId : lvid2record'[p][v] =
             IF v \in flying THEN [NoRecord EXCEPT !.owner = p, !.mirrors = from(v)]
             ELSE [lvid2record[p][v] EXCEPT !.mirrors = @ \cup from(v)]
  BY <1>0 DEF Handshake, Types, GraphTypes
<1>4. /\ \A q \in Proc : q # p => vid2lvid'[q] = vid2lvid[q] /\ vid2lvid_buffer'[q] = vid2lvid_buffer[q]
                                  /\ vid_buffer'[q] = vid_buffer[q]
      /\ vid2lvid'[p] = present \cup flying /\ vid2lvid_buffer'[p] = {}
      /\ UNCHANGED local_edges
  BY <1>0 DEF Handshake, Types, GraphTypes, localg
<1>5. \A v \in VertexId, q \in Proc :
          [vid |-> v, mirror |-> q] \in got <=> M[v] = p /\ q # p /\ v \in Present(q)
  BY <1>1 DEF Recording, BufferRight
<1>6. \A x \in got : x.vid \in VertexId /\ x.mirror \in Proc /\ x = [vid |-> x.vid, mirror |-> x.mirror]
  BY <1>0 DEF Types, GraphTypes
<1> HIDE DEF got
<1>7. \A v \in VertexId : M[v] = p => from(v) = {q \in Proc : q # p /\ v \in Present(q)}
  <2> SUFFICES ASSUME NEW v \in VertexId, M[v] = p
               PROVE  from(v) = {q \in Proc : q # p /\ v \in Present(q)}
    OBVIOUS
  <2>1. ASSUME NEW q \in from(v) PROVE q \in Proc /\ q # p /\ v \in Present(q)
    <3>1. PICK x \in got : x.vid = v /\ q = x.mirror
      OBVIOUS
    <3> QED
      BY <1>5, <1>6, <3>1
  <2>2. ASSUME NEW q \in Proc, q # p, v \in Present(q) PROVE q \in from(v)
    <3> DEFINE x == [vid |-> v, mirror |-> q]
    <3>1. x \in got /\ x.vid = v /\ x.mirror = q
      BY <1>5, <2>2
    <3> HIDE DEF x
    <3> QED
      BY <3>1
  <2> QED
    BY <2>1, <2>2
<1>8. \A v \in flying : v \in VertexId /\ M[v] = p
  BY <1>5, <1>6
<1>9. \A v \in VertexId, q \in Proc : M[v] = p /\ q # p /\ v \in Present(q) => v \in present \cup flying
  <2> SUFFICES ASSUME NEW v \in VertexId, NEW q \in Proc, M[v] = p, q # p, v \in Present(q)
               PROVE  \E x \in got : x.vid = v
    OBVIOUS
  <2> DEFINE x == [vid |-> v, mirror |-> q]
  <2>1. x \in got /\ x.vid = v
    BY <1>5
  <2> HIDE DEF x
  <2> QED
    BY <2>1
<1> HIDE DEF flying, from
<1>10. /\ Present(p) = present /\ Present(p)' = present \cup flying /\ present \subseteq VertexId
       /\ \A q \in Proc : q # p => Present(q)' = Present(q)
  BY <1>0, <1>4 DEF Present, Types, GraphTypes
<1> HIDE DEF present
<1>11. \A v \in VertexId :
          /\ lvid2record'[p][v].owner = IF v \in flying THEN p ELSE lvid2record[p][v].owner
          /\ lvid2record'[p][v].mirrors = IF v \in flying THEN from(v)
                                          ELSE lvid2record[p][v].mirrors \cup from(v)
  <2>1. \A v \in VertexId : lvid2record[p][v] \in Record
    BY <1>0 DEF Types, GraphTypes
  <2> QED
    BY <1>3, <2>1 DEF NoRecord, Record
<1>12. OwnersRight(M)'
  <2>1. \A v \in present \cup flying : lvid2record'[p][v].owner = M[v]
    BY <1>1, <1>8, <1>10, <1>11 DEF Recording, OwnersRight
  <2>2. ASSUME NEW q \in Proc, q # p, NEW v \in Present(q)' PROVE lvid2record'[q][v].owner = M[v]
    <3>1. v \in Present(q) /\ lvid2record'[q] = lvid2record[q]
      BY <1>3, <1>10, <2>2
    <3> QED
      BY <1>1, <3>1 DEF Recording, OwnersRight
  <2> QED
    BY <1>0, <1>10, <2>1, <2>2 DEF OwnersRight
<1>13. BufferRight(M)'
  <2> SUFFICES ASSUME NEW q \in Proc, q # p, ~Met(q), NEW v \in VertexId, NEW r \in Proc
               PROVE  [vid |-> v, mirror |-> r] \in vid_buffer'[q] <=>
                          M[v] = q /\ r # q /\ Recorded(r)' /\ v \in Present(r)'
    BY <1>0, <1>2 DEF BufferRight
  <2>1. [vid |-> v, mirror |-> r] \in vid_buffer[q] <=>
            M[v] = q /\ r # q /\ Recorded(r) /\ v \in Present(r)
    BY DEF Recording, BufferRight
  <2>2. M[v] = q => (v \in Present(r)' <=> v \in Present(r))
    BY <1>8, <1>10
  <2> QED
    BY <1>1, <1>2, <1>4, <2>1, <2>2
<1>14. MirrorsRight(M)'
  <2>1. ASSUME NEW q \in Proc, q # p, ~Met(q), NEW v \in Present(q)'
        PROVE  lvid2record'[q][v].mirrors = {}
    <3>1. v \in Present(q) /\ lvid2record'[q] = lvid2record[q]
      BY <1>3, <1>10, <2>1
    <3> QED
      BY <1>1, <2>1, <3>1 DEF Recording, MirrorsRight
  <2>2. ASSUME NEW q \in Proc, q # p, Met(q), NEW v \in VertexId, M[v] = q
        PROVE  /\ (\E r \in Proc : v \in Present(r)') => v \in Present(q)'
               /\ v \in Present(q)' =>
                     lvid2record'[q][v].mirrors = {r \in Proc : r # q /\ v \in Present(r)'}
    <3>1. \A r \in Proc : v \in Present(r)' <=> v \in Present(r)
      BY <1>8, <1>10, <2>2
    <3>2. /\ (\E r \in Proc : v \in Present(r)) => v \in Present(q)
          /\ v \in Present(q) =>
                lvid2record[q][v].mirrors = {r \in Proc : r # q /\ v \in Present(r)}
      BY <2>2 DEF Recording, MirrorsRight
    <3> QED
      BY <1>3, <2>2, <3>1, <3>2
  <2>3. ASSUME NEW v \in VertexId, M[v] = p
        PROVE  /\ (\E r \in Proc : v \in Present(r)') => v \in Present(p)'
               /\ v \in Present(p)' =>
                     lvid2record'[p][v].mirrors = {r \in Proc : r # p /\ v \in Present(r)'}
    <3>1. (\E r \in Proc : v \in Present(r)') => v \in Present(p)'
      BY <1>9, <1>10, <2>3
    <3>2. v \in present => lvid2record[p][v].mirrors = {}
      BY <1>1, <1>10 DEF Recording, MirrorsRight
    <3>3. v \in Present(p)' => lvid2record'[p][v].mirrors = from(v)
      BY <1>10, <1>11, <3>2
    <3>4. from(v) = {r \in Proc : r # p /\ v \in Present(r)'}
      BY <1>7, <1>10, <2>3
    <3> QED
      BY <3>1, <3>3, <3>4
  <2> QED
    BY <1>0, <1>2, <2>1, <2>2, <2>3 DEF MirrorsRight
<1>15. EndsPresent'
  BY <1>0, <1>2, <1>4, <1>10 DEF Recording, EndsPresent
<1> QED
  BY <1>12, <1>13, <1>14, <1>15 DEF Recording

\* The replicas of a vertex take over its master's record.
LEMMA SyncRecords ==
  ASSUME NEW M, FirstRound, Recording(M), UNCHANGED nprocs, SyncMeta, Collective, round' <= 1
  PROVE  Recording(M)'
<1>0. Proc' = Proc /\ Types /\ TypeInv /\ Lockstep
  BY SameCluster DEF FirstRound, TypeInv
<1>1. \A q \in Proc : Met(q)
  BY DEF SyncMeta, AllAt, Met
<1>2. \A q \in Proc : (Recorded(q)' <=> Recorded(q)) /\ Met(q)' /\ (Built(q)' <=> Built(q))
  BY <1>0, <1>1, CollectiveProgress
<1>3. UNCHANGED <<local_edges, vid2lvid, vid2lvid_buffer>>
  BY CollectiveWrites
<1>4. \A q \in Proc : Present(q)' = Present(q) /\ Present(q) \subseteq VertexId
  BY <1>0, <1>3 DEF Present, Types, GraphTypes
<1>5. \A q \in Proc, v \in VertexId :
          /\ lvid2record'[q][v].owner = lvid2record[q][v].owner
          /\ lvid2record[q][v].owner = q => lvid2record'[q][v].mirrors = lvid2record[q][v].mirrors
  <2> SUFFICES ASSUME NEW q \in Proc, NEW v \in VertexId
               PROVE  /\ lvid2record'[q][v].owner = lvid2record[q][v].owner
                      /\ lvid2record[q][v].owner = q =>
                             lvid2record'[q][v].mirrors = lvid2record[q][v].mirrors
    OBVIOUS
  <2> DEFINE m == lvid2record[q][v].owner
             a == NumInEdges(m, v)
             b == NumOutEdges(m, v)
             s == lvid2record[m][v].mirrors
  <2>1. lvid2record'[q][v] = IF ~Applied(q, v) THEN lvid2record[q][v]
                             ELSE [lvid2record[q][v] EXCEPT !.num_in_edges = a, !.num_out_edges = b,
                                                            !.mirrors = s]
    BY DEF SyncMeta
  <2>2. m = q => s = lvid2record[q][v].mirrors
    OBVIOUS
  <2>3. lvid2record[q][v] \in Record
    BY <1>0 DEF Types, GraphTypes
  <2> HIDE DEF a, b, s
  <2>4. /\ lvid2record'[q][v].owner = lvid2record[q][v].owner
        /\ lvid2record'[q][v].mirrors \in {lvid2record[q][v].mirrors, s}
    BY <2>1, <2>3 DEF Record
  <2> QED
    BY <2>2, <2>4
<1>6. OwnersRight(M)'
  BY <1>0, <1>2, <1>4, <1>5 DEF Recording, OwnersRight
<1>7. BufferRight(M)'
  BY <1>0, <1>2 DEF BufferRight
<1>8. MirrorsRight(M)'
  <2> SUFFICES ASSUME NEW p \in Proc, NEW v \in VertexId, M[v] = p
               PROVE  /\ (\E q \in Proc : v \in Present(q)') => v \in Present(p)'
                      /\ v \in Present(p)' =>
                            lvid2record'[p][v].mirrors = {q \in Proc : q # p /\ v \in Present(q)'}
    BY <1>0, <1>2 DEF MirrorsRight
  <2>1. /\ (\E q \in Proc : v \in Present(q)) => v \in Present(p)
        /\ v \in Present(p) =>
              lvid2record[p][v].mirrors = {q \in Proc : q # p /\ v \in Present(q)}
    BY <1>1 DEF Recording, MirrorsRight
  <2>2. v \in Present(p) => lvid2record[p][v].owner = p
    BY <1>1 DEF Recording, OwnersRight, Recorded
  <2> QED
    BY <1>4, <1>5, <2>1, <2>2
<1>9. EndsPresent'
  BY <1>0, <1>2, <1>3, <1>4 DEF Recording, EndsPresent
<1> QED
  BY <1>6, <1>7, <1>8, <1>9 DEF Recording

\* A type is given to a vertex, and nothing else of its record changes.
LEMMA TypeRecords ==
  ASSUME NEW M, FirstRound, Recording(M), UNCHANGED nprocs, NEW p \in Proc, Step(p), SetDegreeType(p)
  PROVE  Recording(M)'
<1>0. Proc' = Proc /\ Types /\ TypeInv /\ Lockstep
  BY SameCluster DEF FirstRound, TypeInv
<1>1. pc[p] = "degree_type" /\ UNCHANGED <<vid_buffer, vid2lvid, vid2lvid_buffer, local_edges>>
  BY DEF SetDegreeType
<1>2. \A q \in Proc : (Recorded(q)' <=> Recorded(q)) /\ (Met(q)' <=> Met(q)) /\ (Built(q)' <=> Built(q))
  <2>1. ~BuildLocalGraph(p) /\ ~ReceiveVertices(p) /\ ~Handshake(p)
    BY <1>1 DEF BuildLocalGraph, ReceiveVertices, Handshake
  <2> QED
    BY <1>0, <2>1, StepProgress
<1>3. \A q \in Proc : Present(q)' = Present(q) /\ Present(q) \subseteq VertexId
  BY <1>0, <1>1 DEF Present, Types, GraphTypes
<1>4. \A q \in Proc, v \in VertexId :
          /\ lvid2record'[q][v].owner = lvid2record[q][v].owner
          /\ lvid2record'[q][v].mirrors = lvid2record[q][v].mirrors
  <2> SUFFICES ASSUME NEW q \in Proc, NEW v \in VertexId
               PROVE  /\ lvid2record'[q][v].owner = lvid2record[q][v].owner
                      /\ lvid2record'[q][v].mirrors = lvid2record[q][v].mirrors
    OBVIOUS
  <2>1. \E d : lvid2record'[q][v] \in {lvid2record[q][v], [lvid2record[q][v] EXCEPT !.dtype = d]}
    BY <1>0 DEF SetDegreeType, Types, GraphTypes
  <2>2. lvid2record[q][v] \in Record
    BY <1>0 DEF Types, GraphTypes
  <2> QED
    BY <2>1, <2>2 DEF Record
<1>5. OwnersRight(M)'
  BY <1>0, <1>2, <1>3, <1>4 DEF Recording, OwnersRight
<1>6. BufferRight(M)'
  <2> SUFFICES ASSUME NEW q \in Proc, ~Met(q), NEW v \in VertexId, NEW r \in Proc
               PROVE  [vid |-> v, mirror |-> r] \in vid_buffer'[q] <=>
                          M[v] = q /\ r # q /\ Recorded(r)' /\ v \in Present(r)'
    BY <1>0, <1>2 DEF BufferRight
  <2>1. [vid |-> v, mirror |-> r] \in vid_buffer[q] <=>
            M[v] = q /\ r # q /\ Recorded(r) /\ v \in Present(r)
    BY DEF Recording, BufferRight
  <2> QED
    BY <1>1, <1>2, <1>3, <2>1
<1>7. MirrorsRight(M)'
  <2>1. ASSUME NEW q \in Proc, Recorded(q), ~Met(q), NEW v \in Present(q)
        PROVE  lvid2record'[q][v].mirrors = {}
    BY <1>3, <1>4, <2>1 DEF Recording, MirrorsRight
  <2>2. ASSUME NEW q \in Proc, Met(q), NEW v \in VertexId, M[v] = q
        PROVE  /\ (\E r \in Proc : v \in Present(r)') => v \in Present(q)'
               /\ v \in Present(q)' =>
                     lvid2record'[q][v].mirrors = {r \in Proc : r # q /\ v \in Present(r)'}
    <3>1. /\ (\E r \in Proc : v \in Present(r)) => v \in Present(q)
          /\ v \in Present(q) =>
                lvid2record[q][v].mirrors = {r \in Proc : r # q /\ v \in Present(r)}
      BY <2>2 DEF Recording, MirrorsRight
    <3> QED
      BY <1>3, <1>4, <3>1
  <2> QED
    BY <1>0, <1>2, <1>3, <2>1, <2>2 DEF MirrorsRight
<1>8. EndsPresent'
  BY <1>0, <1>1, <1>2, <1>3 DEF Recording, EndsPresent
<1> QED
  BY <1>5, <1>6, <1>7, <1>8 DEF Recording

LEMMA StepRecords ==
  ASSUME NEW M, FirstRound, Spread(M), Recording(M), UNCHANGED nprocs, NEW p \in Proc, Step(p)
  PROVE  Recording(M)'
<1>0. TypeInv /\ Lockstep
  BY DEF FirstRound
<1>1. CASE BuildLocalGraph(p)
  BY <1>1, BuildRecords
<1>2. CASE ReceiveVertices(p)
  BY <1>2, ReceiveRecords
<1>3. CASE Handshake(p)
  BY <1>3, HandshakeRecords
<1>4. CASE SetDegreeType(p)
  BY <1>4, TypeRecords
<1>5. CASE ~BuildLocalGraph(p) /\ ~ReceiveVertices(p) /\ ~Handshake(p) /\ ~SetDegreeType(p)
  <2>1. UNCHANGED <<vid_buffer, vid2lvid, vid2lvid_buffer, lvid2record, local_edges>>
    BY <1>5, StepWrites
  <2>2. \A q \in Proc : (Built(q)' <=> Built(q)) /\ (Recorded(q)' <=> Recorded(q)) /\ (Met(q)' <=> Met(q))
    BY <1>0, <1>5, StepProgress
  <2> QED
    BY <2>1, <2>2, SameRecords
<1> QED
  BY <1>1, <1>2, <1>3, <1>4, <1>5

LEMMA OtherRecords ==
  ASSUME NEW M, FirstRound, Recording(M), UNCHANGED nprocs, round' <= 1,
         (\E p \in Proc : Load(p)) \/ Collective
  PROVE  Recording(M)'
<1>0. TypeInv /\ Lockstep
  BY DEF FirstRound
<1>1. ASSUME NEW p \in Proc, Load(p) PROVE Recording(M)'
  <2>1. UNCHANGED <<vid_buffer, vid2lvid, vid2lvid_buffer, lvid2record, local_edges>>
    BY <1>1, LoadWrites
  <2>2. \A q \in Proc : (Built(q)' <=> Built(q)) /\ (Recorded(q)' <=> Recorded(q)) /\ (Met(q)' <=> Met(q))
    BY <1>0, <1>1, LoadProgress
  <2> QED
    BY <2>1, <2>2, SameRecords
<1>2. CASE Collective /\ SyncMeta
  BY <1>2, SyncRecords
<1>3. CASE Collective /\ ~SyncMeta
  <2>1. UNCHANGED <<vid_buffer, vid2lvid, vid2lvid_buffer, lvid2record, local_edges>>
    BY <1>3, CollectiveWrites
  <2>2. \A q \in Proc : (Built(q)' <=> Built(q)) /\ (Recorded(q)' <=> Recorded(q)) /\ (Met(q)' <=> Met(q))
    BY <1>0, <1>3, CollectiveProgress
  <2> QED
    BY <2>1, <2>2, SameRecords
<1> QED
  BY <1>1, <1>2, <1>3

-----------------------------------------------------------------------------
(* The vertex data.                                                        *)

\* The master of v has it, with data that was added.
Held(M, v) == /\ Recorded(M[v]) /\ v \in Present(M[v])
              /\ \E y \in vertices_added : y.vid = v /\ y.vdata = local_data[M[v]][v]

\* Data is with the hash's process, on its way to the master, or there.
DataKept(M) ==
    \A x \in vertices_added : \/ x \in hybrid_vertex_exchange[Hash(x.vid)]
                              \/ x \in resend_vertex_exchange[M[x.vid]]
                              \/ Held(M, x.vid)
SentToMasters(M) == \A p \in Proc : \A x \in resend_vertex_exchange[p] : M[x.vid] = p

\* What a replica has in the end is its master's.
SameData(M) ==
    \A p \in Proc : Done(p) => \A v \in Present(p) : local_data[p][v] = local_data[M[v]][v]

Data(M) == DataKept(M) /\ SentToMasters(M) /\ SameData(M)

LEMMA SameDatas ==
  ASSUME NEW M, IsMasters(M), Types, Data(M),
         UNCHANGED <<nprocs, vertices_added, hybrid_vertex_exchange, resend_vertex_exchange, local_data>>,
         \A q \in Proc : /\ Recorded(q) => Recorded(q)' /\ Present(q) \subseteq Present(q)'
                         /\ Done(q)' => Done(q) /\ Present(q)' = Present(q)
  PROVE  Data(M)'
<1>0. Proc' = Proc /\ (\A v \in VertexId : Hash(v)' = Hash(v) /\ M[v] \in Proc)
      /\ \A x \in vertices_added : x.vid \in VertexId
  BY SameCluster DEF IsMasters, Types, VertexTypes, VertexRec
<1>1. \A v \in VertexId : Held(M, v) => Held(M, v)'
  BY <1>0 DEF Held
<1>2. DataKept(M)'
  BY <1>0, <1>1 DEF Data, DataKept
<1>3. SentToMasters(M)'
  BY <1>0 DEF Data, SentToMasters
<1>4. SameData(M)'
  BY <1>0 DEF Data, SameData
<1> QED
  BY <1>2, <1>3, <1>4 DEF Data

\* While the masters are being decided all data is with the hash's process.
LEMMA NothingSentOn ==
  ASSUME NEW M, NEW N, IsMasters(M), FirstRound, Data(M), NEW p \in Proc, pc[p] \in Deciding
  PROVE  Data(N) /\ \A q \in Proc : ~Recorded(q)
<1>1. Together(Deciding)
  BY AllTogether DEF Segments, Deciding, FirstRound
<1>2. \A q \in Proc : pc[q] \notin {"vertices"} \cup Building /\ ~Recorded(q)
  BY <1>1 DEF Together, Deciding, Building, Recorded, Met, Done, Finished, Typing, Loading
<1>3. \A q \in Proc : resend_vertex_exchange[q] = {} /\ ~Done(q)
  BY <1>2 DEF FirstRound, Emptied, ResendEmpty, Recorded, Met
<1>4. \A x \in vertices_added : x.vid \in VertexId /\ M[x.vid] \in Proc
  BY DEF IsMasters, FirstRound, TypeInv, Types, VertexTypes, VertexRec
<1>5. \A x \in vertices_added : x \in hybrid_vertex_exchange[Hash(x.vid)]
  BY <1>2, <1>3, <1>4 DEF Data, DataKept, Held
<1> QED
  BY <1>2, <1>3, <1>5 DEF Data, DataKept, SentToMasters, SameData

LEMMA BuildData ==
  ASSUME NEW M, IsMasters(M), FirstRound, Spread(M), Data(M), UNCHANGED nprocs,
         NEW p \in Proc, Step(p), BuildLocalGraph(p)
  PROVE  Data(M)'
<1> DEFINE vs == hybrid_vertex_exchange[p]
           S == {x.vid : x \in vs}
           m == WithHashes(mht[p], S)
<1>0. Proc' = Proc /\ Types /\ TypeInv /\ Lockstep /\ (\A v \in VertexId : Hash(v)' = Hash(v) /\ M[v] \in Proc)
      /\ \A x \in vertices_added : x.vid \in VertexId
  BY SameCluster DEF FirstRound, TypeInv, IsMasters, Types, VertexTypes, VertexRec
<1>1. pc[p] = "build" /\ Together(Building) /\ \A q \in Proc : ~Recorded(q)
  <2>1. pc[p] = "build"
    BY DEF BuildLocalGraph
  <2>2. Together(Building)
    BY <1>0, <2>1, AllTogether DEF Segments, Building
  <2> QED
    BY <2>1, <2>2 DEF Together, Building, Recorded, Met, Done, Finished, Typing, Loading
<1>2. \A q \in Proc : ~Done(q)'
  BY <1>0, <1>1, StepProgress DEF Recorded, Met
<1>3. \A x \in vs : m[x.vid] = M[x.vid] /\ x \in vertices_added
  <2>1. mht_exchange[p] = {}
    BY <1>1 DEF FirstRound, Emptied, PairsEmpty, Learning
  <2>2. \A v \in VertexId \cap S : m[v] = M[v]
    BY <1>1, <2>1, KnowsMasters DEF Spread
  <2>3. vs \subseteq vertices_added
    BY <1>0 DEF Types, VertexTypes
  <2> QED
    BY <1>0, <2>2, <2>3
<1>4. /\ resend_vertex_exchange' = [q \in Proc |-> resend_vertex_exchange[q]
                                                   \cup {x \in vs : DataOwner(m, x.vid) = q}]
      /\ hybrid_vertex_exchange' = [hybrid_vertex_exchange EXCEPT ![p] = {}]
      /\ UNCHANGED vertices_added
  BY DEF BuildLocalGraph, input
<1> HIDE DEF m, S
<1>5. /\ \A q \in Proc : \A x : x \in resend_vertex_exchange'[q] <=>
             x \in resend_vertex_exchange[q] \/ (x \in vs /\ M[x.vid] = q)
      /\ \A q \in Proc : q # p => hybrid_vertex_exchange'[q] = hybrid_vertex_exchange[q]
  BY <1>0, <1>3, <1>4 DEF DataOwner, Types, VertexTypes
<1>6. DataKept(M)'
  <2> SUFFICES ASSUME NEW x \in vertices_added
               PROVE  \/ x \in hybrid_vertex_exchange'[Hash(x.vid)]
                      \/ x \in resend_vertex_exchange'[M[x.vid]]
    BY <1>0, <1>4 DEF DataKept
  <2>1. M[x.vid] \in Proc /\ Hash(x.vid) \in Proc
    BY <1>0, HashIsProc
  <2>2. x \in hybrid_vertex_exchange[Hash(x.vid)] \/ x \in resend_vertex_exchange[M[x.vid]]
    BY <1>1, <2>1 DEF Data, DataKept, Held
  <2>3. x \in hybrid_vertex_exchange[p] => x \in resend_vertex_exchange'[M[x.vid]]
    BY <1>5, <2>1
  <2> QED
    BY <1>5, <2>1, <2>2, <2>3
<1>7. SentToMasters(M)'
  BY <1>0, <1>5 DEF Data, SentToMasters
<1>8. SameData(M)'
  BY <1>0, <1>2 DEF SameData
<1> QED
  BY <1>6, <1>7, <1>8 DEF Data

\* The master takes the data of its vertices.
LEMMA ReceiveData ==
  ASSUME NEW M, IsMasters(M), FirstRound, Data(M), UNCHANGED nprocs,
         NEW p \in Proc, Step(p), ReceiveVertices(p)
  PROVE  Data(M)'
<1> DEFINE got == resend_vertex_exchange[p]
           vids == {x.vid : x \in got}
           new == vid2lvid_buffer[p] \cup (vids \ vid2lvid[p])
<1>0. Proc' = Proc /\ Types /\ TypeInv /\ Lockstep /\ (\A v \in VertexId : Hash(v)' = Hash(v) /\ M[v] \in Proc)
      /\ \A x \in vertices_added : x.vid \in VertexId
  BY SameCluster DEF FirstRound, TypeInv, IsMasters, Types, VertexTypes, VertexRec
<1>1. ~Recorded(p) /\ \A q \in Proc : ~Met(q)
  <2>1. pc[p] = "vertices"
    BY DEF ReceiveVertices
  <2>2. Together(Naming)
    BY <1>0, <2>1, AllTogether DEF Segments, Naming
  <2> QED
    BY <2>1, <2>2 DEF Together, Naming, Recorded, Met, Done, Finished, Typing, Loading
<1>2. \A q \in Proc : ~Done(q)' /\ (Recorded(q)' <=> Recorded(q) \/ q = p)
  BY <1>0, <1>1, StepProgress DEF Met
<1>3. PICK last \in {d \in [vids -> 1 .. MaxVertices] : \A v \in DOMAIN d : [vid |-> v, vdata |-> d[v]] \in got} :
         local_data' = [local_data EXCEPT ![p] = [v \in VertexId |-> IF v \in DOMAIN last THEN last[v] ELSE @[v]]]
  BY DEF ReceiveVertices
<1>4. /\ resend_vertex_exchange' = [resend_vertex_exchange EXCEPT ![p] = {}]
      /\ vid2lvid_buffer' = [vid2lvid_buffer EXCEPT ![p] = new]
      /\ UNCHANGED <<vertices_added, hybrid_vertex_exchange, vid2lvid>>
  BY DEF ReceiveVertices, input, ingress
<1>5. DOMAIN last = vids /\ \A v \in vids : [vid |-> v, vdata |-> last[v]] \in got
  BY <1>3
<1>6. /\ \A q \in Proc : q # p => local_data'[q] = local_data[q] /\ Present(q)' = Present(q)
      /\ \A v \in VertexId \cap vids : local_data'[p][v] = last[v]
      /\ vids \subseteq Present(p)'
  BY <1>0, <1>3, <1>4, <1>5 DEF Present, Types, GraphTypes
<1> HIDE DEF new, vids
<1>7. got \subseteq vertices_added
  BY <1>0 DEF Types, VertexTypes
<1>8. ASSUME NEW v \in VertexId, M[v] # p, Held(M, v) PROVE Held(M, v)'
  BY <1>0, <1>2, <1>4, <1>6, <1>8 DEF Held
<1>9. ASSUME NEW v \in VertexId, M[v] = p, v \in vids PROVE Held(M, v)'
  <2> DEFINE y == [vid |-> v, vdata |-> last[v]]
  <2>1. y \in vertices_added /\ y.vid = v /\ y.vdata = last[v]
    BY <1>5, <1>7, <1>9
  <2>2. local_data'[p][v] = last[v] /\ v \in Present(p)'
    BY <1>6, <1>9
  <2> HIDE DEF y
  <2> QED
    BY <1>2, <1>4, <1>9, <2>1, <2>2 DEF Held
<1>10. DataKept(M)'
  <2> SUFFICES ASSUME NEW x \in vertices_added
               PROVE  \/ x \in hybrid_vertex_exchange[Hash(x.vid)]
                      \/ x \in resend_vertex_exchange'[M[x.vid]]
                      \/ Held(M, x.vid)'
    BY <1>0, <1>4 DEF DataKept
  <2>1. \/ x \in hybrid_vertex_exchange[Hash(x.vid)]
        \/ x \in resend_vertex_exchange[M[x.vid]]
        \/ Held(M, x.vid)
    BY DEF Data, DataKept
  <2>2. x.vid \in VertexId /\ M[x.vid] \in Proc
    BY <1>0
  <2>3. CASE M[x.vid] = p
    <3>1. ~Held(M, x.vid)
      BY <1>1, <2>3 DEF Held
    <3>2. x \in got => x.vid \in vids
      BY DEF vids
    <3> QED
      BY <1>9, <2>1, <2>2, <2>3, <3>1, <3>2
  <2>4. CASE M[x.vid] # p
    BY <1>0, <1>4, <1>8, <2>1, <2>2, <2>4 DEF Types, VertexTypes
  <2> QED
    BY <2>3, <2>4
<1>11. SentToMasters(M)'
  BY <1>0, <1>4 DEF Data, SentToMasters, Types, VertexTypes
<1>12. SameData(M)'
  BY <1>0, <1>2 DEF SameData
<1> QED
  BY <1>10, <1>11, <1>12 DEF Data

\* The master's data spreads.
LEMMA SyncData ==
  ASSUME NEW M, IsMasters(M), FirstRound, Recording(M), Data(M), UNCHANGED nprocs,
         SyncMeta, Collective, round' <= 1
  PROVE  Data(M)'
<1>0. Proc' = Proc /\ Types /\ TypeInv /\ Lockstep /\ (\A v \in VertexId : Hash(v)' = Hash(v) /\ M[v] \in Proc)
      /\ \A x \in vertices_added : x.vid \in VertexId
  BY SameCluster DEF FirstRound, TypeInv, IsMasters, Types, VertexTypes, VertexRec
<1>1. \A q \in Proc : Met(q) /\ Recorded(q) /\ pc[q] = "sync_meta"
  BY DEF SyncMeta, AllAt, Met, Recorded
<1>2. \A q \in Proc : Recorded(q)'
  BY <1>0, <1>1, CollectiveProgress
<1>3. UNCHANGED <<vertices_added, hybrid_vertex_exchange, resend_vertex_exchange, vid2lvid, vid2lvid_buffer>>
  BY CollectiveWrites
<1>4. \A q \in Proc : Present(q)' = Present(q) /\ Present(q) = vid2lvid[q] /\ Present(q) \subseteq VertexId
  BY <1>0, <1>1, <1>3 DEF Present, Types, GraphTypes, FirstRound, Emptied, BufferEmpty, Naming
<1>5. ASSUME NEW q \in Proc, NEW v \in Present(q)
      PROVE  local_data'[q][v] = local_data[M[v]][v] /\ v \in Present(M[v])
  <2>1. v \in VertexId /\ v \in vid2lvid[q] /\ M[v] \in Proc
    BY <1>0, <1>4
  <2>2. lvid2record[q][v].owner = M[v]
    BY <1>1 DEF Recording, OwnersRight
  <2>3. v \in Present(M[v])
        /\ lvid2record[M[v]][v].mirrors = {r \in Proc : r # M[v] /\ v \in Present(r)}
    BY <1>1, <2>1 DEF Recording, MirrorsRight
  <2>4. Applied(q, v)
    BY <2>1, <2>2, <2>3 DEF Applied
  <2> QED
    BY <2>1, <2>2, <2>3, <2>4 DEF SyncMeta
<1>6. \A v \in VertexId : Held(M, v) => Held(M, v)'
  BY <1>0, <1>2, <1>3, <1>4, <1>5 DEF Held
<1>7. DataKept(M)'
  BY <1>0, <1>3, <1>6 DEF Data, DataKept
<1>8. SentToMasters(M)'
  BY <1>0, <1>3 DEF Data, SentToMasters
<1>9. SameData(M)'
  <2>1. ASSUME NEW q \in Proc, NEW v \in Present(q)'
        PROVE  local_data'[q][v] = local_data'[M[v]][v]
    <3>1. v \in Present(q) /\ M[v] \in Proc
      BY <1>0, <1>4
    <3>2. local_data'[q][v] = local_data[M[v]][v] /\ v \in Present(M[v])
      BY <1>5, <3>1
    <3> QED
      BY <1>5, <3>1, <3>2
  <2> QED
    BY <1>0, <2>1 DEF SameData
<1> QED
  BY <1>7, <1>8, <1>9 DEF Data

LEMMA AddVertexData ==
  ASSUME NEW M, IsMasters(M), FirstRound, Data(M), UNCHANGED nprocs,
         NEW p \in Proc, NEW v \in VertexId, AddVertex(p, v), Load(p)
  PROVE  Data(M)'
<1> DEFINE rec == [vid |-> v, vdata |-> Cardinality(vertices_added) + 1]
<1>0. Proc' = Proc /\ Types /\ TypeInv /\ Lockstep /\ (\A w \in VertexId : Hash(w)' = Hash(w) /\ M[w] \in Proc)
      /\ \A x \in vertices_added : x.vid \in VertexId
  BY SameCluster DEF FirstRound, TypeInv, IsMasters, Types, VertexTypes, VertexRec
<1>1. /\ vertices_added' = vertices_added \cup {rec}
      /\ hybrid_vertex_exchange' = [hybrid_vertex_exchange EXCEPT ![Hash(v)] = @ \cup {rec}]
      /\ rec.vid = v /\ Hash(v) \in Proc
  BY <1>0, HashIsProc DEF AddVertex
<1> HIDE DEF rec
<1>2. /\ UNCHANGED <<resend_vertex_exchange, local_data, vid2lvid, vid2lvid_buffer>>
      /\ \A q \in Proc : (Recorded(q)' <=> Recorded(q)) /\ (Done(q)' <=> Done(q))
  BY <1>0, LoadWrites, LoadProgress
<1>3. \A q \in Proc : Present(q)' = Present(q)
  BY <1>2 DEF Present
<1>4. \A q \in Proc : hybrid_vertex_exchange'[q] =
          IF q = Hash(v) THEN hybrid_vertex_exchange[q] \cup {rec} ELSE hybrid_vertex_exchange[q]
  BY <1>0, <1>1 DEF Types, VertexTypes
<1>5. \A w \in VertexId : Held(M, w) => Held(M, w)'
  BY <1>0, <1>1, <1>2, <1>3 DEF Held
<1>6. DataKept(M)'
  <2>1. ASSUME NEW x \in vertices_added
        PROVE  \/ x \in hybrid_vertex_exchange'[Hash(x.vid)]
               \/ x \in resend_vertex_exchange'[M[x.vid]]
               \/ Held(M, x.vid)'
    <3>1. x.vid \in VertexId /\ Hash(x.vid) \in Proc
      BY <1>0, HashIsProc
    <3> QED
      BY <1>2, <1>4, <1>5, <3>1 DEF Data, DataKept
  <2>2. rec \in hybrid_vertex_exchange'[Hash(rec.vid)]
    BY <1>1, <1>4
  <2> QED
    BY <1>0, <1>1, <2>1, <2>2 DEF DataKept
<1>7. SentToMasters(M)'
  BY <1>0, <1>2 DEF Data, SentToMasters
<1>8. SameData(M)'
  BY <1>0, <1>2, <1>3 DEF Data, SameData
<1> QED
  BY <1>6, <1>7, <1>8 DEF Data

LEMMA StepData ==
  ASSUME NEW M, IsMasters(M), FirstRound, Spread(M), Data(M), UNCHANGED nprocs, NEW p \in Proc, Step(p)
  PROVE  Data(M)'
<1>0. TypeInv /\ Lockstep /\ Types
  BY DEF FirstRound, TypeInv
<1>1. CASE BuildLocalGraph(p)
  BY <1>1, BuildData
<1>2. CASE ReceiveVertices(p)
  BY <1>2, ReceiveData
<1>3. CASE ~BuildLocalGraph(p) /\ ~ReceiveVertices(p)
  <2>1. UNCHANGED <<vertices_added, hybrid_vertex_exchange, resend_vertex_exchange, local_data, vid2lvid_buffer>>
        \/ Handshake(p)
    BY <1>3, StepWrites
  <2>2. UNCHANGED <<vertices_added, hybrid_vertex_exchange, resend_vertex_exchange, local_data>>
    BY <1>3, StepWrites
  <2>3. \A q \in Proc : (Recorded(q)' <=> Recorded(q)) /\ (Done(q)' <=> Done(q))
    BY <1>0, <1>3, StepProgress
  <2>4. CASE Handshake(p)
    <3>1. /\ \A q \in Proc : Present(q) \subseteq Present(q)'
          /\ pc[p] = "handshake"
      BY <1>0, <2>4 DEF Handshake, Present, Types, GraphTypes
    <3>2. Together(Meeting)
      BY <1>0, <3>1, AllTogether DEF Segments, Meeting
    <3>3. \A q \in Proc : ~Done(q)
      BY <3>2 DEF Together, Meeting, Done, Finished, Typing, Loading
    <3> QED
      BY <1>0, <2>2, <2>3, <3>1, <3>3, SameDatas
  <2>5. CASE ~Handshake(p)
    <3>1. UNCHANGED <<vid2lvid, vid2lvid_buffer>>
      BY <1>3, <2>5, StepWrites
    <3>2. \A q \in Proc : Present(q)' = Present(q)
      BY <3>1 DEF Present
    <3> QED
      BY <1>0, <2>2, <2>3, <3>2, SameDatas
  <2> QED
    BY <2>4, <2>5
<1> QED
  BY <1>1, <1>2, <1>3

LEMMA OtherData ==
  ASSUME NEW M, IsMasters(M), FirstRound, Recording(M), Data(M), UNCHANGED nprocs, round' <= 1,
         (\E p \in Proc : Load(p)) \/ Collective
  PROVE  Data(M)'
<1>0. TypeInv /\ Lockstep /\ Types
  BY DEF FirstRound, TypeInv
<1>1. ASSUME NEW p \in Proc, Load(p) PROVE Data(M)'
  <2>1. ASSUME NEW v \in VertexId, AddVertex(p, v) PROVE Data(M)'
    BY <1>1, <2>1, AddVertexData
  <2>2. CASE UNCHANGED <<vertices_added, hybrid_vertex_exchange>>
    <3>1. UNCHANGED <<resend_vertex_exchange, local_data, vid2lvid, vid2lvid_buffer>>
      BY <1>1, LoadWrites
    <3>2. \A q \in Proc : (Recorded(q)' <=> Recorded(q)) /\ (Done(q)' <=> Done(q))
      BY <1>0, <1>1, LoadProgress
    <3>3. \A q \in Proc : Present(q)' = Present(q)
      BY <3>1 DEF Present
    <3> QED
      BY <1>0, <2>2, <3>1, <3>2, <3>3, SameDatas
  <2> QED
    BY <1>1, <2>1, <2>2, LoadWrites
<1>2. CASE Collective /\ SyncMeta
  BY <1>2, SyncData
<1>3. CASE Collective /\ ~SyncMeta
  <2>1. UNCHANGED <<vertices_added, hybrid_vertex_exchange, resend_vertex_exchange, local_data,
                    vid2lvid, vid2lvid_buffer>>
    BY <1>3, CollectiveWrites
  <2>2. \A q \in Proc : (Recorded(q)' <=> Recorded(q)) /\ (Done(q)' <=> Done(q))
    BY <1>0, <1>3, CollectiveProgress
  <2>3. \A q \in Proc : Present(q)' = Present(q)
    BY <2>1 DEF Present
  <2> QED
    BY <1>0, <2>1, <2>2, <2>3, SameDatas
<1> QED
  BY <1>1, <1>2, <1>3

-----------------------------------------------------------------------------
(* Some masters, and some vertices of high degree, explain all of it.      *)

Explain(M, H) == IsMasters(M) /\ Spread(M) /\ Cut(M, H) /\ Data(M) /\ Recording(M)

MastersInv ==
    /\ Lockstep /\ Emptied
    /\ round <= 1 => /\ LocalEmpty /\ LoadedByHash /\ MapByHash
                     /\ \E M, H : Explain(M, H)

LEMMA NextExplained ==
  ASSUME ScoresAreNumbers, NEW M, NEW H, Explain(M, H), FirstRound, Next, round' <= 1
  PROVE  \E N, G : Explain(N, G)'
<1>0. UNCHANGED nprocs /\ Proc' = Proc /\ TypeInv /\ Lockstep
  BY SameCluster DEF Next, FirstRound
<1>1. \A N : IsMasters(N)' <=> IsMasters(N)
  BY <1>0 DEF IsMasters
<1>2. ASSUME NEW p \in Proc, NEW t \in Targets(raw_map[p]), AssignLow(p, t), Step(p)
      PROVE  \E N, G : Explain(N, G)'
  <2>1. PICK o \in Proc : o = GingerToProc(p, Records(p, t))
    BY <1>0, <1>2, AssignLowTypes
  <2>2. PICK N : N = [M EXCEPT ![t] = o]
    OBVIOUS
  <2>3. IsMasters(N)'
    BY <1>1, <2>2 DEF Explain, IsMasters
  <2>4. Spread(N)' /\ Cut(N, H)'
    BY <1>0, <1>2, <2>1, <2>2, AssignLowTable, AssignLowCut DEF Explain
  <2>5. pc[p] \in Deciding
    BY <1>2 DEF AssignLow, Deciding
  <2>6. Data(N) /\ \A q \in Proc : ~Recorded(q)
    BY <2>5, NothingSentOn DEF Explain
  <2>7. Recording(N)
    BY <2>6, NothingRecorded DEF Explain
  <2>8. /\ UNCHANGED <<vid_buffer, vid2lvid, vid2lvid_buffer, lvid2record, local_edges>>
        /\ UNCHANGED <<vertices_added, hybrid_vertex_exchange, resend_vertex_exchange, local_data>>
    BY <1>2 DEF AssignLow, building, localg, input, ingress
  <2>9. \A q \in Proc : /\ (Built(q)' <=> Built(q)) /\ (Recorded(q)' <=> Recorded(q))
                        /\ (Met(q)' <=> Met(q)) /\ (Done(q)' <=> Done(q))
    <3>1. pc[p] = "assign"
      BY <1>2 DEF AssignLow
    <3>2. ~BuildLocalGraph(p) /\ ~ReceiveVertices(p) /\ ~Handshake(p)
      BY <3>1 DEF BuildLocalGraph, ReceiveVertices, Handshake
    <3> QED
      BY <1>0, <1>2, <3>2, StepProgress
  <2>10. Recording(N)'
    BY <1>0, <2>7, <2>8, <2>9, SameRecords
  <2>11. Data(N)'
    <3>1. \A q \in Proc : Present(q)' = Present(q)
      BY <2>8 DEF Present
    <3>2. Types /\ IsMasters(N)
      BY <1>0, <1>1, <2>3 DEF TypeInv
    <3> QED
      BY <1>0, <2>6, <2>8, <2>9, <3>1, <3>2, SameDatas
  <2> QED
    BY <2>3, <2>4, <2>10, <2>11 DEF Explain
<1>3. ASSUME NEW p \in Proc, Step(p), ~\E t \in Targets(raw_map[p]) : AssignLow(p, t)
      PROVE  Explain(M, H)'
  <2>1. IsMasters(M) /\ Spread(M) /\ Cut(M, H) /\ Data(M) /\ Recording(M) /\ Resent(M, H)
    BY DEF Explain, Cut
  <2>2. Spread(M)' /\ Cut(M, H)'
    BY <1>0, <1>3, <2>1, StepTable, StepCut
  <2>3. Data(M)' /\ Recording(M)'
    BY <1>0, <1>3, <2>1, StepData, StepRecords
  <2> QED
    BY <1>1, <2>1, <2>2, <2>3 DEF Explain
<1>4. ASSUME (\E p \in Proc : Load(p)) \/ Collective
      PROVE  \E G : Explain(M, G)'
  <2>1. IsMasters(M) /\ Spread(M) /\ Cut(M, H) /\ Data(M) /\ Recording(M)
    BY DEF Explain
  <2>2. Spread(M)' /\ Data(M)' /\ Recording(M)'
    BY <1>0, <1>4, <2>1, OtherSpread, OtherData, OtherRecords
  <2>3. PICK G : Cut(M, G)'
    BY <1>0, <1>4, <2>1, LoadCut, CollectiveCut
  <2> QED
    BY <1>1, <2>1, <2>2, <2>3 DEF Explain
<1> QED
  BY <1>2, <1>3, <1>4 DEF Next

LEMMA InitMasters == Init => MastersInv
<1> SUFFICES ASSUME Init PROVE MastersInv
  OBVIOUS
<1>1. TypeInv /\ OnlyNamed
  BY InitTypes DEF Init, OnlyNamed
<1>2. EdgeInv /\ Lockstep /\ Emptied
  <2>1. EdgeInv
    BY DEF Init, EdgeInv, OnePlace, MapEmpty
  <2>2. \A p \in Proc : pc[p] = "load"
    BY DEF Init
  <2>3. Lockstep
    BY <2>2 DEF Lockstep, Together, Segments, Loading
  <2>4. Emptied
    BY <2>2 DEF Init, Emptied, HighLowEmpty, LoadedEmpty, PlacedEmpty, PairsEmpty, ResendEmpty,
                BufferEmpty, VidsEmpty, Loading
  <2> QED
    BY <2>1, <2>3, <2>4
<1>3. \A p \in Proc : ~Built(p) /\ ~Recorded(p) /\ ~Met(p) /\ ~Done(p) /\ pc[p] \in Loading
  BY DEF Init, Built, Recorded, Met, Done, Finished, Typing, Loading
<1>4. LocalEmpty /\ LoadedByHash /\ MapByHash
  BY DEF Init, LocalEmpty, LoadedByHash, MapByHash
<1>5. PICK M : M = [v \in VertexId |-> Hash(v)]
  OBVIOUS
<1>6. IsMasters(M)
  BY <1>1, <1>5, HashIsProc DEF IsMasters, TypeInv
<1>7. Spread(M)
  BY <1>5, <1>1, HashIsProc DEF Init, Spread, Learnt, Told, UndecidedYet, Undecided, TypeInv
<1>8. Cut(M, {})
  BY <1>3 DEF Init, Cut, HighKnown, HighLow, Resent, PlacedWell, Loading
<1>9. Data(M)
  BY <1>3 DEF Init, Data, DataKept, SentToMasters, SameData
<1>10. Recording(M)
  BY <1>3 DEF Init, Recording, OwnersRight, BufferRight, MirrorsRight, EndsPresent, Present
<1> QED
  BY <1>1, <1>2, <1>4, <1>6, <1>7, <1>8, <1>9, <1>10 DEF MastersInv, Explain

LEMMA StutterMasters ==
  ASSUME GingerTypes, MastersInv, UNCHANGED vars
  PROVE  MastersInv'
<1>1. /\ UNCHANGED <<nprocs, pc, round, edges_added, vertices_added, hybrid_edge_exchange,
                     hybrid_vertex_exchange, high_edge_exchange, low_edge_exchange>>
      /\ UNCHANGED <<resend_vertex_exchange, mht_exchange, vid_buffer, raw_map, mht>>
      /\ UNCHANGED <<hybrid_edges, local_edges, local_data, vid2lvid, vid2lvid_buffer, lvid2record>>
  BY DEF vars, input, ingress, edgeExch, masters, assigning, building, localg
<1>2. Proc' = Proc /\ Types /\ \A v \in VertexId : Hash(v)' = Hash(v)
  BY <1>1, SameCluster DEF GingerTypes, TypeInv
<1>3. Lockstep'
  BY <1>1, <1>2 DEF MastersInv, Lockstep, Together
<1>4. Emptied'
  BY <1>1, <1>2 DEF MastersInv, Emptied, HighLowEmpty, LoadedEmpty, PlacedEmpty, PairsEmpty,
                    ResendEmpty, BufferEmpty, VidsEmpty
<1>5. \A q \in Proc : /\ Unread(q)' <=> Unread(q)
                      /\ Built(q)' <=> Built(q)
                      /\ Recorded(q)' <=> Recorded(q)
                      /\ Met(q)' <=> Met(q)
                      /\ Done(q)' <=> Done(q)
                      /\ Present(q)' = Present(q)
  BY <1>1 DEF Unread, Built, Recorded, Met, Done, Finished, Present
<1>6. LocalEmpty => LocalEmpty'
  BY <1>1, <1>2, <1>5 DEF LocalEmpty
<1>7. LoadedByHash => LoadedByHash'
  <2>1. \A e \in edges_added : e.target \in VertexId /\ Hash(e.target) \in Proc
    BY <1>2, HashIsProc DEF Types, EdgeTypes, Edge
  <2>2. \A q \in Proc : hybrid_edge_exchange[q] \subseteq edges_added
    BY <1>2 DEF Types, EdgeTypes
  <2> QED
    BY <1>1, <1>2, <1>5, <2>1, <2>2 DEF LoadedByHash
<1>8. MapByHash => MapByHash'
  <2>1. \A e \in edges_added : e.target \in VertexId
    BY <1>2 DEF Types, EdgeTypes, Edge
  <2>2. \A q \in Proc : raw_map[q] \subseteq edges_added
    BY <1>2 DEF Types, EdgeTypes
  <2> QED
    BY <1>1, <1>2, <2>1, <2>2 DEF MapByHash, InOf
<1>9. ASSUME NEW M, NEW H, Explain(M, H) PROVE Explain(M, H)'
  <2>1. IsMasters(M)' /\ IsMasters(M)
    BY <1>2, <1>9 DEF Explain, IsMasters
  <2>2. Spread(M)'
    BY <1>1, <1>2, <1>5, <1>9, HashIsProc, SameTable DEF Explain
  <2>3. Cut(M, H)'
    BY <1>1, <1>2, <1>5, <1>9 DEF Explain, Cut, HighKnown, HighLow, Resent, PlacedWell, Placed, InGraph
  <2>4. Data(M)'
    BY <1>1, <1>2, <1>5, <1>9, <2>1, SameDatas DEF Explain
  <2>5. Recording(M)'
    BY <1>1, <1>5, <1>9, SameRecords DEF Explain
  <2> QED
    BY <2>1, <2>2, <2>3, <2>4, <2>5 DEF Explain
<1>10. ASSUME round <= 1
       PROVE  LocalEmpty' /\ LoadedByHash' /\ MapByHash' /\ \E M, H : Explain(M, H)'
  <2>1. LocalEmpty /\ LoadedByHash /\ MapByHash
    BY <1>10 DEF MastersInv
  <2>2. PICK M, H : Explain(M, H)
    BY <1>10 DEF MastersInv
  <2> QED
    BY <1>6, <1>7, <1>8, <1>9, <2>1, <2>2
<1> QED
  BY <1>1, <1>3, <1>4, <1>10 DEF MastersInv

LEMMA NextMasters ==
  ASSUME ScoresAreNumbers, GingerTypes, EdgeInv, MastersInv, Next
  PROVE  MastersInv'
<1>1. TypeInv /\ EdgeInv /\ Lockstep /\ Emptied
  BY DEF MastersInv, GingerTypes
<1>2. Lockstep' /\ Emptied'
  BY <1>1, NextLockstep, NextEmptied
<1>3. ASSUME round' <= 1
      PROVE  LocalEmpty' /\ LoadedByHash' /\ MapByHash' /\ \E M, H : Explain(M, H)'
  <2>1. round <= 1
    BY <1>1, <1>3, NextRound DEF TypeInv, Types, ControlTypes
  <2>2. FirstRound
    BY <1>1, <2>1 DEF MastersInv, FirstRound
  <2>3. LocalEmpty' /\ LoadedByHash' /\ MapByHash'
    BY <1>3, <2>2, LocalEmpties, NextLoadedByHash, NextMapByHash DEF FirstRound, EdgeInv
  <2>4. PICK M, H : Explain(M, H)
    BY <2>1 DEF MastersInv
  <2>5. \E N, G : Explain(N, G)'
    BY <1>3, <2>2, <2>4, NextExplained
  <2> QED
    BY <2>3, <2>5
<1> QED
  BY <1>2, <1>3 DEF MastersInv

LEMMA MastersInvariant ==
  ASSUME ScoresAreNumbers
  PROVE  Spec => []MastersInv
<1>1. GingerTypes /\ EdgeInv /\ MastersInv /\ [Next]_vars => MastersInv'
  BY NextMasters, StutterMasters
<1> QED
  BY <1>1, InitMasters, GingerTypesInvariant, EdgeInvariant, PTL DEF Spec

\* In a finalized graph, everybody is done.
LEMMA AllDone ==
  ASSUME GingerTypes, MastersInv, round <= 1, Finalized
  PROVE  /\ \A p \in Proc : Met(p) => Done(p)
         /\ \A p, q \in Proc : Met(p) => Met(q)
         /\ \A p \in Proc : vid2lvid[p] # {} => Met(p)
         /\ \A p \in Proc : Present(p) = vid2lvid[p] /\ Present(p) \subseteq VertexId
<1>1. \A p \in Proc : pc[p] \in Typing \cup Loading
  BY DEF Finalized, Typing, Loading
<1>2. \A p \in Proc : Met(p) <=> Done(p)
  BY <1>1 DEF Met, Typing, Loading
<1>3. round = 0 => \A p \in Proc : pc[p] \in Loading
  BY DEF MastersInv, Lockstep, Together
<1>4. \A p \in Proc : Done(p) => round = 1
  BY <1>3 DEF Done, Finished, Typing, Loading, GingerTypes, TypeInv, Types, ControlTypes
<1>5. round = 1 => \A p \in Proc : Done(p)
  BY <1>1 DEF Done, Finished
<1>6. \A p \in Proc : vid2lvid_buffer[p] = {}
  BY <1>1 DEF MastersInv, Emptied, BufferEmpty, Typing, Loading, Naming
<1>7. \A p \in Proc : vid2lvid[p] \subseteq VertexId
  BY DEF GingerTypes, TypeInv, Types, GraphTypes
<1> QED
  BY <1>2, <1>4, <1>5, <1>6, <1>7 DEF MastersInv, LocalEmpty, Present

\* One master for each vertex, which all its replicas name, which has it and
\* knows its mirrors: whatever the hash and the scores, and in whatever order
\* the processes decide and the pairs arrive.  It is not so of a second
\* finalization.
THEOREM FirstRoundOneMaster ==
  ASSUME ScoresAreNumbers
  PROVE  Spec => [](round <= 1 => OneMaster)
<1>1. GingerTypes /\ MastersInv => (round <= 1 => OneMaster)
  <2> SUFFICES ASSUME GingerTypes, MastersInv, round <= 1, Finalized,
                      NEW v \in VertexId, NEW p \in Replicas(v)
               PROVE  LET m == lvid2record[p][v].owner
                      IN /\ m \in Replicas(v)
                         /\ \A q \in Replicas(v) : lvid2record[q][v].owner = m
                         /\ lvid2record[m][v].mirrors = Replicas(v) \ {m}
    BY DEF OneMaster
  <2>1. PICK M, H : Explain(M, H)
    BY DEF MastersInv
  <2>2. IsMasters(M) /\ OwnersRight(M) /\ MirrorsRight(M)
    BY <2>1 DEF Explain, Recording
  <2>3. p \in Proc /\ v \in vid2lvid[p] /\ M[v] \in Proc
    BY <2>2 DEF Replicas, IsMasters
  <2>4. \A q \in Proc : Met(q) /\ Recorded(q)
    BY <2>3, AllDone DEF Recorded
  <2>5. \A q \in Proc : v \in Present(q) <=> q \in Replicas(v)
    BY AllDone DEF Replicas
  <2>6. \A q \in Replicas(v) : lvid2record[q][v].owner = M[v]
    BY <2>2, <2>4, <2>5 DEF OwnersRight, Replicas
  <2>7. /\ v \in Present(M[v])
        /\ lvid2record[M[v]][v].mirrors = {q \in Proc : q # M[v] /\ v \in Present(q)}
    BY <2>2, <2>3, <2>4, <2>5 DEF MirrorsRight
  <2>8. {q \in Proc : q # M[v] /\ v \in Present(q)} = Replicas(v) \ {M[v]}
    BY <2>5 DEF Replicas
  <2> QED
    BY <2>3, <2>5, <2>6, <2>7, <2>8
<1> QED
  BY <1>1, GingerTypesInvariant, MastersInvariant, PTL

\* The hybrid cut: every in-edge of a vertex of low degree ends with the
\* vertex's master and every in-edge of one of high degree with its source's,
\* whatever the threshold and whoever has decided what when an edge is placed.
THEOREM FirstRoundHybridCut ==
  ASSUME ScoresAreNumbers
  PROVE  Spec => [](round <= 1 => HybridCut)
<1>1. GingerTypes /\ MastersInv => (round <= 1 => HybridCut)
  <2> SUFFICES ASSUME GingerTypes, MastersInv, round <= 1, Finalized,
                      NEW p \in Proc, NEW e \in local_edges[p]
               PROVE  LET v == IF InDegree(e.target) > Threshold THEN e.source ELSE e.target
                      IN lvid2record[p][v].owner = p
    BY DEF HybridCut
  <2>1. PICK M, H : Explain(M, H)
    BY DEF MastersInv
  <2>2. OwnersRight(M) /\ EndsPresent /\ PlacedWell(M, H) /\ HighKnown(H)
    BY <2>1 DEF Explain, Recording, Cut
  <2>3. Built(p)
    BY DEF MastersInv, LocalEmpty
  <2>4. Done(p) /\ Recorded(p)
    <3>1. Met(p)
      BY <2>3 DEF Built, Recorded, Finalized
    <3> QED
      BY <3>1, AllDone DEF Recorded
  <2>5. e.source \in Present(p) /\ e.target \in Present(p) /\ e.target \in VertexId
    BY <2>2, <2>3, AllDone DEF EndsPresent
  <2>6. /\ lvid2record[p][e.source].owner = M[e.source]
        /\ lvid2record[p][e.target].owner = M[e.target]
    BY <2>2, <2>4, <2>5 DEF OwnersRight
  <2>7. e.target \in H <=> InDegree(e.target) > Threshold
    BY <2>2, <2>4, <2>5 DEF HighKnown, InDegree, InOf, InGraph
  <2>8. M[IF e.target \in H THEN e.source ELSE e.target] = p
    BY <2>2 DEF PlacedWell, Placed
  <2> QED
    BY <2>6, <2>7, <2>8
<1> QED
  BY <1>1, GingerTypesInvariant, MastersInvariant, PTL

\* The data of a vertex is not lost on its way by the hash's process and the
\* master to the replicas, and all of them have the same.
THEOREM FirstRoundDataEverywhere ==
  ASSUME ScoresAreNumbers
  PROVE  Spec => [](round <= 1 => DataEverywhere)
<1>1. GingerTypes /\ MastersInv => (round <= 1 => DataEverywhere)
  <2> SUFFICES ASSUME GingerTypes, MastersInv, round <= 1, Finalized,
                      NEW x \in vertices_added, ~\E q \in Proc : x \in hybrid_vertex_exchange[q]
               PROVE  /\ Replicas(x.vid) # {}
                      /\ \E d \in {y.vdata : y \in {z \in vertices_added : z.vid = x.vid}} :
                            \A p \in Replicas(x.vid) : local_data[p][x.vid] = d
    BY DEF DataEverywhere
  <2> DEFINE v == x.vid
  <2>1. PICK M, H : Explain(M, H)
    BY DEF MastersInv
  <2>2. IsMasters(M) /\ DataKept(M) /\ SameData(M)
    BY <2>1 DEF Explain, Data
  <2>3. v \in VertexId /\ M[v] \in Proc /\ Hash(v) \in Proc
    BY <2>2, HashIsProc DEF IsMasters, GingerTypes, TypeInv, Types, VertexTypes, VertexRec
  <2>4. \A q \in Proc : resend_vertex_exchange[q] = {}
    BY DEF MastersInv, Emptied, ResendEmpty, Finalized, Building
  <2>5. Held(M, v)
    BY <2>2, <2>3, <2>4 DEF DataKept
  <2>6. PICK y \in vertices_added : y.vid = v /\ y.vdata = local_data[M[v]][v]
    BY <2>5 DEF Held
  <2>7. M[v] \in Replicas(v)
    BY <2>3, <2>5, AllDone DEF Held, Replicas
  <2>8. \A p \in Replicas(v) : local_data[p][v] = y.vdata
    BY <2>2, <2>6, AllDone DEF SameData, Replicas
  <2> QED
    BY <2>6, <2>7, <2>8
<1> QED
  BY <1>1, GingerTypesInvariant, MastersInvariant, PTL

-----------------------------------------------------------------------------
(* The degrees, the types and the counters.                                *)

OutOf(es, s) == {e \in es : e.source = s}

\* A replica knows the degrees of its vertex in the whole graph.
DegreesRight ==
    \A p \in Proc : Done(p) => \A v \in vid2lvid[p] :
        /\ lvid2record[p][v].num_in_edges = Cardinality(InOf(InGraph, v))
        /\ lvid2record[p][v].num_out_edges = Cardinality(OutOf(InGraph, v))

\* The type was computed from them.
TypesRight ==
    \A p \in Proc : pc[p] = "gather_counts" \/ Finished(p) => \A v \in vid2lvid[p] :
        lvid2record[p][v].dtype = TypeOf(lvid2record[p][v])

\* A process counts its own vertices, and then has everybody's.
OwnCounts(p) == [high_master |-> Owned(p, "HIGH", TRUE), high_mirror |-> Owned(p, "HIGH", FALSE),
                 low_master  |-> Owned(p, "LOW", TRUE),  low_mirror  |-> Owned(p, "LOW", FALSE)]
AllCounts == [k \in DOMAIN NoCounts |-> SumFunction([q \in Proc |-> OwnCounts(q)[k]])]
CountsRight ==
    \A p \in Proc : /\ pc[p] = "gather_counts" => counts[p] = OwnCounts(p)
                    /\ Finished(p) => counts[p] = AllCounts

DegreesInv == round <= 1 => DegreesRight /\ TypesRight /\ CountsRight

\* An edge of a local graph is in no other.
LEMMA LocalApart ==
  ASSUME TypeInv, EdgeInv, NEW p \in Proc, NEW q \in Proc, NEW e \in local_edges[p], e \in local_edges[q]
  PROVE  p = q
<1>1. e \in edges_added
  BY DEF TypeInv, Types, EdgeTypes
<1>2. In(e, 6, p) /\ In(e, 6, q)
  BY DEF In
<1> QED
  BY <1>1, <1>2 DEF EdgeInv, OnePlace

\* What the replicas of a vertex count adds up to its degree.
LEMMA GatheredDegrees ==
  ASSUME TypeInv, EdgeInv, NEW v, NEW S, S \subseteq Proc,
         \A q \in Proc : \A e \in local_edges[q] : e.source = v \/ e.target = v => q \in S
  PROVE  /\ SumFunction([q \in S |-> Cardinality({e \in local_edges[q] : e.target = v})])
              = Cardinality(InOf(InGraph, v))
         /\ SumFunction([q \in S |-> Cardinality({e \in local_edges[q] : e.source = v})])
              = Cardinality(OutOf(InGraph, v))
<1>1. IsFiniteSet(S)
  BY Cluster, FS_Subset DEF TypeInv, Types, ControlTypes
<1>2. InGraph \subseteq edges_added /\ IsFiniteSet(edges_added)
  BY DEF InGraph, TypeInv, Types, EdgeTypes, Counted
<1>3. ASSUME NEW B, B \subseteq InGraph, \A e \in B : e.source = v \/ e.target = v,
             NEW F, \A q \in S : F[q] = B \cap local_edges[q]
      PROVE  SumFunction([q \in S |-> Cardinality(F[q])]) = Cardinality(B)
  <2>1. IsFiniteSet(B) /\ \A q \in S : F[q] \subseteq B
    BY <1>2, <1>3, FS_Subset
  <2>2. ASSUME NEW e \in B
        PROVE  \E q \in S : \A r \in S : e \in F[r] <=> r = q
    <3>1. PICK q \in Proc : e \in local_edges[q]
      BY <1>3 DEF InGraph
    <3>2. q \in S
      BY <1>3, <3>1
    <3>3. \A r \in S : e \in local_edges[r] => r = q
      BY <3>1, LocalApart
    <3> QED
      BY <1>3, <3>1, <3>2, <3>3
  <2> QED
    BY <1>1, <2>1, <2>2, DisjointSum
<1>4. ASSUME NEW B, B \subseteq InGraph, \A e \in B : e.source = v \/ e.target = v
      PROVE  SumFunction([q \in S |-> Cardinality(B \cap local_edges[q])]) = Cardinality(B)
  <2>1. PICK F : F = [q \in S |-> B \cap local_edges[q]]
    OBVIOUS
  <2>2. SumFunction([q \in S |-> Cardinality(F[q])]) = Cardinality(B)
    BY <1>3, <1>4, <2>1
  <2>3. [q \in S |-> Cardinality(F[q])] = [q \in S |-> Cardinality(B \cap local_edges[q])]
    BY <2>1
  <2> QED
    BY <2>2, <2>3
<1>5. \A q \in S : /\ {e \in local_edges[q] : e.target = v} = InOf(InGraph, v) \cap local_edges[q]
                   /\ {e \in local_edges[q] : e.source = v} = OutOf(InGraph, v) \cap local_edges[q]
  BY DEF InOf, OutOf, InGraph
<1>6. /\ [q \in S |-> Cardinality({e \in local_edges[q] : e.target = v})]
            = [q \in S |-> Cardinality(InOf(InGraph, v) \cap local_edges[q])]
      /\ [q \in S |-> Cardinality({e \in local_edges[q] : e.source = v})]
            = [q \in S |-> Cardinality(OutOf(InGraph, v) \cap local_edges[q])]
  BY <1>5
<1>7. /\ SumFunction([q \in S |-> Cardinality(InOf(InGraph, v) \cap local_edges[q])])
            = Cardinality(InOf(InGraph, v))
      /\ SumFunction([q \in S |-> Cardinality(OutOf(InGraph, v) \cap local_edges[q])])
            = Cardinality(OutOf(InGraph, v))
  <2>1. /\ InOf(InGraph, v) \subseteq InGraph /\ OutOf(InGraph, v) \subseteq InGraph
        /\ \A e \in InOf(InGraph, v) \cup OutOf(InGraph, v) : e.source = v \/ e.target = v
    BY DEF InOf, OutOf
  <2> QED
    BY <1>4, <2>1
<1> QED
  BY <1>6, <1>7


\* All replicas of a vertex send what they gathered to its master, which
\* applies the sum to all of them.
LEMMA SyncDegrees ==
  ASSUME NEW M, IsMasters(M), FirstRound, Recording(M), UNCHANGED nprocs, SyncMeta, Collective
  PROVE  DegreesRight'
<1>0. Proc' = Proc /\ Types /\ TypeInv /\ EdgeInv
  BY SameCluster DEF FirstRound, TypeInv
<1>1. \A q \in Proc : pc[q] = "sync_meta"
  BY DEF SyncMeta, AllAt
<1>2. \A q \in Proc : Met(q) /\ Recorded(q) /\ Built(q)
  BY <1>1 DEF Met, Recorded, Built
<1>3. \A q \in Proc : Present(q) = vid2lvid[q] /\ Present(q) \subseteq VertexId
  BY <1>0, <1>1 DEF FirstRound, Emptied, BufferEmpty, Naming, Present, Types, GraphTypes
<1>4. \A q \in Proc : \A v \in vid2lvid[q] : lvid2record[q][v].owner = M[v]
  BY <1>2, <1>3 DEF Recording, OwnersRight
<1>5. UNCHANGED <<local_edges, vid2lvid>>
  BY CollectiveWrites
<1>6. InGraph' = InGraph
  BY <1>0, <1>5 DEF InGraph
<1>7. ASSUME NEW p \in Proc, NEW v \in vid2lvid[p]
      PROVE  /\ lvid2record'[p][v].num_in_edges = Cardinality(InOf(InGraph, v))
             /\ lvid2record'[p][v].num_out_edges = Cardinality(OutOf(InGraph, v))
  <2>1. v \in VertexId /\ M[v] \in Proc
    BY <1>3 DEF IsMasters
  <2>2. Applied(p, v)
    <3>1. /\ v \in Present(M[v])
          /\ lvid2record[M[v]][v].mirrors = {q \in Proc : q # M[v] /\ v \in Present(q)}
      BY <1>2, <1>3, <2>1 DEF Recording, MirrorsRight
    <3> QED
      BY <1>3, <1>4, <3>1 DEF Applied
  <2>3. GatheredBy(M[v], v) = {q \in Proc : v \in vid2lvid[q]}
    BY <1>4 DEF GatheredBy
  <2>4. \A q \in Proc : \A e \in local_edges[q] : e.source = v \/ e.target = v => q \in GatheredBy(M[v], v)
    BY <1>2, <1>3, <2>3 DEF Recording, EndsPresent
  <2>5. /\ NumInEdges(M[v], v) = Cardinality(InOf(InGraph, v))
        /\ NumOutEdges(M[v], v) = Cardinality(OutOf(InGraph, v))
    <3>1. GatheredBy(M[v], v) \subseteq Proc
      BY <2>3
    <3> QED
      BY <1>0, <2>4, <3>1, GatheredDegrees DEF NumInEdges, NumOutEdges
  <2>6. \E mirrors : lvid2record'[p][v] =
            [lvid2record[p][v] EXCEPT !.num_in_edges = NumInEdges(M[v], v),
                                      !.num_out_edges = NumOutEdges(M[v], v),
                                      !.mirrors = mirrors]
    BY <1>4, <2>1, <2>2 DEF SyncMeta
  <2>7. lvid2record[p][v] \in Record
    BY <1>0, <2>1 DEF Types, GraphTypes
  <2>8. ASSUME NEW a, NEW b
        PROVE  \A mirrors : LET rec == [lvid2record[p][v] EXCEPT !.num_in_edges = a, !.num_out_edges = b,
                                                                 !.mirrors = mirrors]
                            IN rec.num_in_edges = a /\ rec.num_out_edges = b
    BY <2>7 DEF Record
  <2> QED
    BY <2>5, <2>6, <2>8
<1> QED
  BY <1>0, <1>5, <1>6, <1>7 DEF DegreesRight

\* What the steps after it leave alone.
SameDegrees ==
    /\ UNCHANGED <<nprocs, local_edges, vid2lvid>>
    /\ \A q \in Proc : \A v \in vid2lvid[q] :
          /\ lvid2record'[q][v].owner = lvid2record[q][v].owner
          /\ lvid2record'[q][v].num_in_edges = lvid2record[q][v].num_in_edges
          /\ lvid2record'[q][v].num_out_edges = lvid2record[q][v].num_out_edges

LEMMA DegreesStay ==
  ASSUME SameDegrees
  PROVE  /\ Proc' = Proc /\ InGraph' = InGraph
         /\ \A q \in Proc : OwnCounts(q)' = OwnCounts(q)
         /\ AllCounts' = AllCounts
<1>0. Proc' = Proc /\ UNCHANGED <<local_edges, vid2lvid>>
  BY SameCluster DEF SameDegrees
<1>1. InGraph' = InGraph
  BY <1>0 DEF InGraph
<1>2. ASSUME NEW q \in Proc PROVE OwnCounts(q)' = OwnCounts(q)
  <2>1. \A v \in vid2lvid[q] : /\ TypeOf(lvid2record'[q][v]) = TypeOf(lvid2record[q][v])
                               /\ lvid2record'[q][v].owner = lvid2record[q][v].owner
    BY <1>2 DEF SameDegrees, TypeOf
  <2>2. ASSUME NEW d, NEW own PROVE Owned(q, d, own)' = Owned(q, d, own)
    <3>1. {v \in vid2lvid[q] : TypeOf(lvid2record'[q][v]) = d /\ (lvid2record'[q][v].owner = q) = own}
            = {v \in vid2lvid[q] : TypeOf(lvid2record[q][v]) = d /\ (lvid2record[q][v].owner = q) = own}
      BY <2>1
    <3> QED
      BY <1>0, <3>1 DEF Owned
  <2> QED
    BY <2>2 DEF OwnCounts
<1>3. AllCounts' = AllCounts
  BY <1>0, <1>2 DEF AllCounts
<1> QED
  BY <1>0, <1>1, <1>2, <1>3

\* Nobody is done, nor counting, nor will be by the step.
NoneDone == \A q \in Proc : ~Done(q) /\ pc[q] # "gather_counts" /\ ~Finished(q)

LEMMA TypeDegrees ==
  ASSUME FirstRound, DegreesRight, TypesRight, CountsRight, UNCHANGED nprocs,
         NEW p \in Proc, Step(p), SetDegreeType(p)
  PROVE  DegreesRight' /\ TypesRight' /\ CountsRight'
<1>0. Proc' = Proc /\ Types /\ TypeInv /\ Lockstep
  BY SameCluster DEF FirstRound, TypeInv
<1>1. /\ pc[p] = "degree_type" /\ pc' = [pc EXCEPT ![p] = "gather_counts"]
      /\ UNCHANGED <<vid2lvid, local_edges>>
      /\ counts' = [counts EXCEPT ![p] = OwnCounts(p)]
  BY DEF SetDegreeType, Goto, OwnCounts
<1>2. \A q \in Proc : vid2lvid[q] \subseteq VertexId
  BY <1>0 DEF Types, GraphTypes
<1>3. ASSUME NEW q \in Proc, NEW v \in vid2lvid[q]
      PROVE  /\ lvid2record'[q][v].owner = lvid2record[q][v].owner
             /\ lvid2record'[q][v].num_in_edges = lvid2record[q][v].num_in_edges
             /\ lvid2record'[q][v].num_out_edges = lvid2record[q][v].num_out_edges
             /\ q = p => lvid2record'[q][v].dtype = TypeOf(lvid2record[q][v])
             /\ q # p => lvid2record'[q][v] = lvid2record[q][v]
  <2> DEFINE d == TypeOf(lvid2record[q][v])
  <2>1. v \in VertexId
    BY <1>2
  <2>2. lvid2record[q][v] \in Record
    BY <1>0, <2>1 DEF Types, GraphTypes
  <2>3. /\ q = p => lvid2record'[q][v] = [lvid2record[q][v] EXCEPT !.dtype = d]
        /\ q # p => lvid2record'[q][v] = lvid2record[q][v]
    BY <1>0, <2>1 DEF SetDegreeType, Types, GraphTypes
  <2> HIDE DEF d
  <2>4. LET rec == [lvid2record[q][v] EXCEPT !.dtype = d]
        IN /\ rec.owner = lvid2record[q][v].owner /\ rec.dtype = d
           /\ rec.num_in_edges = lvid2record[q][v].num_in_edges
           /\ rec.num_out_edges = lvid2record[q][v].num_out_edges
    BY <2>2 DEF Record
  <2> QED
    BY <2>3, <2>4 DEF d
<1>4. SameDegrees
  BY <1>1, <1>3 DEF SameDegrees
<1>5. /\ InGraph' = InGraph /\ AllCounts' = AllCounts
      /\ \A q \in Proc : OwnCounts(q)' = OwnCounts(q)
  BY <1>4, DegreesStay
<1>6. \A q \in Proc : (Done(q)' <=> Done(q)) /\ (Finished(q)' <=> Finished(q))
  BY <1>0, StepProgress
<1>7. \A q \in Proc : ~Finished(q)
  BY <1>0, <1>1, AllTogether DEF Together, Typing, Loading, Segments, Finished
<1>8. pc \in [Proc -> {pc[q] : q \in Proc}] /\ counts \in [Proc -> {counts[q] : q \in Proc}]
  BY <1>0 DEF Types, ControlTypes, GraphTypes
<1>9. DegreesRight'
  BY <1>0, <1>1, <1>3, <1>5, <1>6 DEF DegreesRight
<1>10. TypesRight'
  <2>1. \A q \in Proc : pc'[q] = "gather_counts" => q = p \/ pc[q] = "gather_counts"
    BY <1>1, <1>8
  <2>2. \A q \in Proc : \A v \in vid2lvid[q] :
            TypeOf(lvid2record'[q][v]) = TypeOf(lvid2record[q][v])
    BY <1>3 DEF TypeOf
  <2> QED
    BY <1>0, <1>1, <1>3, <1>6, <1>7, <2>1, <2>2 DEF TypesRight
<1>11. CountsRight'
  <2>1. \A q \in Proc : pc'[q] = "gather_counts" => counts'[q] = OwnCounts(q)
    BY <1>1, <1>8 DEF CountsRight
  <2> QED
    BY <1>0, <1>5, <1>6, <1>7, <2>1 DEF CountsRight
<1> QED
  BY <1>9, <1>10, <1>11

LEMMA StepDegrees ==
  ASSUME FirstRound, DegreesRight, TypesRight, CountsRight, UNCHANGED nprocs, NEW p \in Proc, Step(p)
  PROVE  DegreesRight' /\ TypesRight' /\ CountsRight'
<1>0. Proc' = Proc /\ TypeInv /\ Lockstep
  BY SameCluster DEF FirstRound
<1>1. CASE SetDegreeType(p)
  BY <1>1, TypeDegrees
<1>2. CASE ~SetDegreeType(p)
  <2>1. /\ pc[p] \notin Typing \cup Loading
        /\ pc'[p] # "gather_counts" /\ \A q \in Proc : q # p => pc'[q] = pc[q]
    <3>1. Moves(p) /\ \A q \in Proc : q # p => pc'[q] = pc[q]
      BY <1>0, StepMoves
    <3> QED
      BY <1>2, <3>1 DEF Moves, Typing, Loading
  <2>2. \A q \in Proc : pc[q] \notin Typing \cup Loading
    <3>1. PICK S \in Segments : Together(S)
      BY <1>0 DEF Lockstep
    <3>2. S # Typing /\ S # Loading
      BY <2>1, <3>1 DEF Together
    <3> QED
      BY <3>1, <3>2 DEF Together, Segments, Typing, Loading, Deciding, Learning, Placing, Receiving,
                        Building, Naming, Meeting
  <2>3. \A q \in Proc : ~Done(q)' /\ ~Finished(q)'
    BY <1>0, <2>2, StepProgress DEF Done, Finished
  <2>4. NoneDone'
    BY <1>0, <2>1, <2>2, <2>3 DEF NoneDone, Typing
  <2> QED
    BY <2>4 DEF NoneDone, DegreesRight, TypesRight, CountsRight
<1> QED
  BY <1>1, <1>2

LEMMA LoadDegrees ==
  ASSUME FirstRound, DegreesRight, TypesRight, CountsRight, UNCHANGED nprocs, NEW p \in Proc, Load(p)
  PROVE  DegreesRight' /\ TypesRight' /\ CountsRight'
<1>0. Proc' = Proc /\ TypeInv /\ Lockstep
  BY SameCluster DEF FirstRound
<1>1. UNCHANGED <<local_edges, vid2lvid, lvid2record, counts>>
  BY DEF Load, AddEdge, AddVertex, CallFinalize, building, localg
<1>2. \A q \in Proc : (Done(q)' <=> Done(q)) /\ (Finished(q)' <=> Finished(q)) /\ pc'[q] # "gather_counts"
  BY <1>0, LoadProgress, LoadMoves DEF Together, Loading
<1>3. InGraph' = InGraph /\ AllCounts' = AllCounts
  BY <1>0, <1>1, DegreesStay DEF SameDegrees
<1>4. \A q \in Proc : \A v \in vid2lvid[q] : TypeOf(lvid2record[q][v])' = TypeOf(lvid2record[q][v])
  BY <1>1 DEF TypeOf
<1> QED
  BY <1>0, <1>1, <1>2, <1>3, <1>4 DEF DegreesRight, TypesRight, CountsRight

\* The collective steps: the degrees are summed up, then the counters; a
\* barrier is passed by nobody who is done.
LEMMA CollectiveDegrees ==
  ASSUME NEW M, IsMasters(M), Recording(M), FirstRound, DegreesRight, TypesRight, CountsRight,
         UNCHANGED nprocs, Collective, round' <= 1
  PROVE  DegreesRight' /\ TypesRight' /\ CountsRight'
<1>0. Proc' = Proc /\ TypeInv /\ Types /\ Lockstep
  BY SameCluster DEF FirstRound, TypeInv
<1>1. CASE SyncMeta
  <2>1. \A q \in Proc : pc'[q] = "degree_type"
    BY <1>0, <1>1 DEF SyncMeta
  <2>2. TypesRight' /\ CountsRight'
    BY <1>0, <2>1 DEF TypesRight, CountsRight, Finished, Loading
  <2> QED
    BY <1>0, <1>1, <2>2, SyncDegrees
<1>2. CASE GatherCounts
  <2>1. /\ \A q \in Proc : pc[q] = "gather_counts" /\ pc'[q] = "load"
        /\ UNCHANGED <<round, local_edges, vid2lvid, lvid2record>>
    BY <1>0, <1>2 DEF GatherCounts, AllAt, localg, input
  <2>2. \A q \in Proc : counts'[q] = [k \in DOMAIN NoCounts |-> SumFunction([r \in Proc |-> counts[r][k]])]
    BY <1>0, <1>2 DEF GatherCounts
  <2>3. \A q \in Proc : counts[q] = OwnCounts(q)
    BY <2>1 DEF CountsRight
  <2>4. \A q \in Proc : counts'[q] = AllCounts
    <3>1. \A k \in DOMAIN NoCounts : [r \in Proc |-> counts[r][k]] = [r \in Proc |-> OwnCounts(r)[k]]
      BY <2>3
    <3> QED
      BY <2>2, <3>1 DEF AllCounts
  <2>5. InGraph' = InGraph /\ AllCounts' = AllCounts
    BY <1>0, <2>1, DegreesStay DEF SameDegrees
  <2>6. \A q \in Proc : Done(q) /\ pc'[q] # "gather_counts"
    BY <2>1 DEF Done, Typing
  <2>7. \A q \in Proc : \A v \in vid2lvid[q] : TypeOf(lvid2record[q][v])' = TypeOf(lvid2record[q][v])
    BY <2>1 DEF TypeOf
  <2>8. DegreesRight'
    BY <1>0, <2>1, <2>5, <2>6 DEF DegreesRight
  <2>9. TypesRight'
    BY <1>0, <2>1, <2>6, <2>7 DEF TypesRight
  <2>10. CountsRight'
    BY <1>0, <2>4, <2>5, <2>6 DEF CountsRight
  <2> QED
    BY <2>8, <2>9, <2>10
<1>3. CASE ~SyncMeta /\ ~GatherCounts
  <2>1. UNCHANGED <<local_edges, vid2lvid, lvid2record, counts>>
    BY <1>3 DEF Collective, BeginFinalize, Barrier, building, localg
  <2>2. \A q \in Proc : /\ Done(q)' => Done(q)
                        /\ Finished(q)' => Finished(q)
                        /\ pc'[q] # "gather_counts"
    <3>1. \A q \in Proc : Done(q)' => Done(q)
      BY <1>0, <1>3, CollectiveProgress
    <3>2. CollectiveMoves /\ round \in Nat
      BY <1>0, CollectiveMove DEF Types, ControlTypes
    <3>3. \A q \in Proc : pc'[q] # "gather_counts"
      BY <3>2 DEF CollectiveMoves, After
    <3>4. ASSUME NEW q \in Proc, Finished(q)' PROVE Finished(q)
      <4>1. pc[q] # "gather_counts"
        BY <1>3, <3>4 DEF Collective, BeginFinalize, Barrier, AllAt, After
      <4>2. pc'[q] \in Loading /\ pc'[q] \notin Typing
        BY <3>4 DEF Finished, Loading, Typing
      <4> QED
        BY <1>3, <3>1, <3>2, <3>4, <4>1, <4>2 DEF Done, Finished, CollectiveMoves, After, Loading, Typing
    <3> QED
      BY <3>1, <3>3, <3>4
  <2>3. InGraph' = InGraph /\ AllCounts' = AllCounts
    BY <1>0, <2>1, DegreesStay DEF SameDegrees
  <2>4. \A q \in Proc : \A v \in vid2lvid[q] : TypeOf(lvid2record[q][v])' = TypeOf(lvid2record[q][v])
    BY <2>1 DEF TypeOf
  <2>5. DegreesRight'
    BY <1>0, <2>1, <2>2, <2>3 DEF DegreesRight
  <2>6. TypesRight'
    BY <1>0, <2>1, <2>2, <2>4 DEF TypesRight
  <2>7. CountsRight'
    BY <1>0, <2>1, <2>2, <2>3 DEF CountsRight
  <2> QED
    BY <2>5, <2>6, <2>7
<1> QED
  BY <1>1, <1>2, <1>3

LEMMA StutterDegrees ==
  ASSUME DegreesRight, TypesRight, CountsRight, UNCHANGED vars
  PROVE  DegreesRight' /\ TypesRight' /\ CountsRight'
<1>1. UNCHANGED <<nprocs, pc, round, local_edges, vid2lvid, lvid2record, counts>>
  BY DEF vars, input, building, localg
<1>2. SameDegrees
  BY <1>1 DEF SameDegrees
<1>3. Proc' = Proc /\ InGraph' = InGraph /\ AllCounts' = AllCounts
      /\ \A q \in Proc : OwnCounts(q)' = OwnCounts(q)
  BY <1>2, DegreesStay
<1>4. \A q \in Proc : (Done(q)' <=> Done(q)) /\ (Finished(q)' <=> Finished(q))
  BY <1>1 DEF Done, Finished
<1>5. \A q \in Proc : \A v \in vid2lvid[q] : TypeOf(lvid2record[q][v])' = TypeOf(lvid2record[q][v])
  BY <1>1 DEF TypeOf
<1> QED
  BY <1>1, <1>3, <1>4, <1>5 DEF DegreesRight, TypesRight, CountsRight

LEMMA NextDegrees ==
  ASSUME GingerTypes, EdgeInv, MastersInv, DegreesInv, Next
  PROVE  DegreesInv'
<1> SUFFICES ASSUME round' <= 1 PROVE DegreesRight' /\ TypesRight' /\ CountsRight'
  BY DEF DegreesInv
<1>1. TypeInv /\ Lockstep
  BY DEF MastersInv, GingerTypes
<1>2. round <= 1
  BY <1>1, NextRound DEF TypeInv, Types, ControlTypes
<1>3. FirstRound /\ DegreesRight /\ TypesRight /\ CountsRight
  BY <1>1, <1>2 DEF MastersInv, FirstRound, DegreesInv
<1>4. PICK M, H : Explain(M, H)
  BY <1>2 DEF MastersInv
<1>5. IsMasters(M) /\ Recording(M)
  BY <1>4 DEF Explain
<1>6. UNCHANGED nprocs
  BY DEF Next
<1>7. ASSUME NEW p \in Proc, Load(p) PROVE DegreesRight' /\ TypesRight' /\ CountsRight'
  BY <1>3, <1>6, <1>7, LoadDegrees
<1>8. ASSUME NEW p \in Proc, Step(p) PROVE DegreesRight' /\ TypesRight' /\ CountsRight'
  BY <1>3, <1>6, <1>8, StepDegrees
<1>9. CASE Collective
  BY <1>3, <1>5, <1>6, <1>9, CollectiveDegrees
<1> QED
  BY <1>7, <1>8, <1>9 DEF Next

LEMMA DegreesInvariant ==
  ASSUME ScoresAreNumbers
  PROVE  Spec => []DegreesInv
<1>1. Init => DegreesInv
  BY DEF Init, DegreesInv, DegreesRight, TypesRight, CountsRight, Done, Finished, Typing
<1>2. GingerTypes /\ EdgeInv /\ MastersInv /\ DegreesInv /\ [Next]_vars => DegreesInv'
  <2>1. DegreesInv /\ UNCHANGED vars => DegreesInv'
    <3>1. UNCHANGED vars => UNCHANGED round
      BY DEF vars, input
    <3> QED
      BY <3>1, StutterDegrees DEF DegreesInv
  <2> QED
    BY <2>1, NextDegrees
<1> QED
  BY <1>1, <1>2, GingerTypesInvariant, EdgeInvariant, MastersInvariant, PTL DEF Spec

\* Every replica knows the degrees its vertex has in the whole graph, though
\* no process has all its edges, and agrees with assign_hybrid_edges on
\* whether it is of high degree.
THEOREM FirstRoundDegreesKnown ==
  ASSUME ScoresAreNumbers
  PROVE  Spec => [](round <= 1 => DegreesKnown)
<1>1. GingerTypes /\ MastersInv /\ DegreesInv => (round <= 1 => DegreesKnown)
  <2> SUFFICES ASSUME GingerTypes, MastersInv, DegreesInv, round <= 1, Idle,
                      NEW v \in VertexId, NEW p \in Replicas(v)
               PROVE  LET rec == lvid2record[p][v]
                      IN /\ rec.num_in_edges = InDegree(v)
                         /\ rec.num_out_edges = OutDegree(v)
                         /\ rec.dtype = IF InDegree(v) > Threshold THEN "HIGH" ELSE "LOW"
    BY DEF DegreesKnown
  <2>1. p \in Proc /\ v \in vid2lvid[p]
    BY DEF Replicas
  <2>2. Finalized
    BY DEF Idle, Finalized
  <2>3. Done(p) /\ Finished(p)
    <3>1. Done(p)
      BY <2>1, <2>2, AllDone
    <3> QED
      BY <2>1, <3>1 DEF Idle, Done, Typing
  <2>4. /\ lvid2record[p][v].num_in_edges = InDegree(v)
        /\ lvid2record[p][v].num_out_edges = OutDegree(v)
    BY <2>1, <2>3 DEF DegreesInv, DegreesRight, InDegree, OutDegree, InOf, OutOf, InGraph
  <2>5. lvid2record[p][v].dtype = TypeOf(lvid2record[p][v])
    BY <2>1, <2>3 DEF DegreesInv, TypesRight
  <2> QED
    BY <2>4, <2>5 DEF TypeOf
<1> QED
  BY <1>1, GingerTypesInvariant, MastersInvariant, DegreesInvariant, PTL

\* The vertices T of a kind are each owned at one process, and mirrored at the
\* other replicas.
LEMMA KindCounted ==
  ASSUME GingerTypes, MastersInv, round <= 1, Idle, NEW kind, NEW T,
         T \subseteq UNION {vid2lvid[q] : q \in Proc},
         \A q \in Proc : \A v \in vid2lvid[q] : TypeOf(lvid2record[q][v]) = kind <=> v \in T
  PROVE  /\ SumFunction([q \in Proc |-> Owned(q, kind, TRUE)]) = Cardinality(T)
         /\ SumFunction([q \in Proc |-> Owned(q, kind, FALSE)])
              = SumFunction([v \in T |-> Cardinality(Replicas(v)) - 1])
<1>0. Finalized /\ TypeInv /\ OnlyNamed
  BY DEF Idle, Finalized, GingerTypes
<1>1. IsFiniteSet(Proc)
  BY <1>0, Cluster DEF TypeInv, Types, ControlTypes
<1>2. \A q \in Proc : vid2lvid[q] \subseteq VertexId /\ vid2lvid[q] \subseteq Named
  BY <1>0 DEF TypeInv, Types, GraphTypes, OnlyNamed
<1>3. IsFiniteSet(T) /\ T \subseteq VertexId
  <2>1. T \subseteq Named
    BY <1>2
  <2> QED
    BY <1>0, <1>2, <2>1, NamedFinite, FS_Subset
<1>4. PICK M, H : Explain(M, H)
  BY DEF MastersInv
<1>5. IsMasters(M) /\ OwnersRight(M) /\ MirrorsRight(M)
  BY <1>4 DEF Explain, Recording
<1>6. \A q \in Proc : \A v \in vid2lvid[q] : lvid2record[q][v].owner = M[v]
  BY <1>0, <1>5, AllDone DEF OwnersRight, Recorded
<1>7. \A v \in T : M[v] \in Proc /\ v \in vid2lvid[M[v]]
  <2> SUFFICES ASSUME NEW v \in T PROVE M[v] \in Proc /\ v \in vid2lvid[M[v]]
    OBVIOUS
  <2>1. v \in VertexId /\ M[v] \in Proc
    BY <1>3, <1>5 DEF IsMasters
  <2>2. PICK q \in Proc : v \in vid2lvid[q]
    OBVIOUS
  <2>3. Met(M[v]) /\ v \in Present(q)
    BY <1>0, <2>1, <2>2, AllDone
  <2>4. v \in Present(M[v])
    BY <1>5, <2>1, <2>3 DEF MirrorsRight
  <2> QED
    BY <1>0, <2>1, <2>4, AllDone
<1>8. PICK own : own = [q \in Proc |-> {v \in T : M[v] = q}]
  OBVIOUS
<1>9. PICK mirrored : mirrored = [q \in Proc |-> {v \in T : v \in vid2lvid[q] /\ M[v] # q}]
  OBVIOUS
<1>10. ASSUME NEW q \in Proc
       PROVE  Owned(q, kind, TRUE) = Cardinality(own[q]) /\ Owned(q, kind, FALSE) = Cardinality(mirrored[q])
  <2>1. {v \in vid2lvid[q] : TypeOf(lvid2record[q][v]) = kind /\ (lvid2record[q][v].owner = q) = TRUE} = own[q]
    BY <1>6, <1>7, <1>8
  <2>2. {v \in vid2lvid[q] : TypeOf(lvid2record[q][v]) = kind /\ (lvid2record[q][v].owner = q) = FALSE}
          = mirrored[q]
    BY <1>6, <1>9
  <2> QED
    BY <2>1, <2>2 DEF Owned
<1>11. SumFunction([q \in Proc |-> Cardinality(own[q])]) = Cardinality(T)
  <2>1. \A q \in Proc : own[q] \subseteq T
    BY <1>8
  <2>2. \A v \in T : \E q \in Proc : \A r \in Proc : v \in own[r] <=> r = q
    BY <1>7, <1>8
  <2> QED
    BY <1>1, <1>3, <2>1, <2>2, DisjointSum
<1>12. PICK others : others = [v \in T |-> Replicas(v) \ {M[v]}]
  OBVIOUS
<1>13. SumFunction([q \in Proc |-> Cardinality(mirrored[q])]) = SumFunction([v \in T |-> Cardinality(others[v])])
  <2>1. \A q \in Proc : mirrored[q] \subseteq T
    BY <1>9
  <2>2. \A v \in T : others[v] \subseteq Proc
    BY <1>12 DEF Replicas
  <2>3. \A q \in Proc, v \in T : v \in mirrored[q] <=> q \in others[v]
    BY <1>9, <1>12 DEF Replicas
  <2> QED
    BY <1>1, <1>3, <2>1, <2>2, <2>3, DoubleCount
<1>14. \A v \in T : Cardinality(others[v]) = Cardinality(Replicas(v)) - 1
  <2> SUFFICES ASSUME NEW v \in T PROVE Cardinality(others[v]) = Cardinality(Replicas(v)) - 1
    OBVIOUS
  <2>1. IsFiniteSet(Replicas(v)) /\ M[v] \in Replicas(v)
    BY <1>1, <1>7, FS_Subset DEF Replicas
  <2> QED
    BY <1>12, <2>1, FS_RemoveElement
<1>15. /\ [q \in Proc |-> Owned(q, kind, TRUE)] = [q \in Proc |-> Cardinality(own[q])]
       /\ [q \in Proc |-> Owned(q, kind, FALSE)] = [q \in Proc |-> Cardinality(mirrored[q])]
       /\ [v \in T |-> Cardinality(others[v])] = [v \in T |-> Cardinality(Replicas(v)) - 1]
  BY <1>10, <1>14
<1> QED
  BY <1>11, <1>13, <1>15

\* The counters every process ends with are those of the whole graph, though
\* each counts only what it has: a vertex once, at its master, and a mirror at
\* each other replica.
THEOREM FirstRoundCountsAddUp ==
  ASSUME ScoresAreNumbers
  PROVE  Spec => [](round <= 1 => CountsAddUp)
<1>1. ASSUME GingerTypes, MastersInv, DegreesInv, round <= 1, Idle, round > 0,
             NEW p \in Proc, NEW vs, vs = UNION {vid2lvid[q] : q \in Proc},
             NEW high, high = {v \in vs : InDegree(v) > Threshold}
      PROVE  counts[p] =
               [high_master |-> Cardinality(high),
                high_mirror |-> SumFunction([v \in high |-> Cardinality(Replicas(v)) - 1]),
                low_master  |-> Cardinality(vs \ high),
                low_mirror  |-> SumFunction([v \in vs \ high |-> Cardinality(Replicas(v)) - 1])]
  <2>1. \A q \in Proc : Finished(q) /\ Done(q)
    BY <1>1 DEF Idle, Finished, Done, Loading, GingerTypes, TypeInv, Types, ControlTypes
  <2>2. counts[p] = AllCounts
    BY <1>1, <2>1 DEF DegreesInv, CountsRight
  <2>3. \A q \in Proc : \A v \in vid2lvid[q] : lvid2record[q][v].num_in_edges = InDegree(v)
    BY <1>1, <2>1 DEF DegreesInv, DegreesRight, InDegree, InOf, InGraph
  <2>4. \A q \in Proc : \A v \in vid2lvid[q] :
            /\ TypeOf(lvid2record[q][v]) = "HIGH" <=> v \in high
            /\ TypeOf(lvid2record[q][v]) = "LOW" <=> v \in vs \ high
    BY <1>1, <2>3 DEF TypeOf
  <2>5. /\ SumFunction([q \in Proc |-> Owned(q, "HIGH", TRUE)]) = Cardinality(high)
        /\ SumFunction([q \in Proc |-> Owned(q, "HIGH", FALSE)])
             = SumFunction([v \in high |-> Cardinality(Replicas(v)) - 1])
    <3>1. high \subseteq UNION {vid2lvid[q] : q \in Proc}
      BY <1>1
    <3>2. \A q \in Proc : \A v \in vid2lvid[q] : TypeOf(lvid2record[q][v]) = "HIGH" <=> v \in high
      BY <2>4
    <3>3. GingerTypes /\ MastersInv /\ round <= 1 /\ Idle
      BY <1>1
    <3> QED
      BY <3>1, <3>2, <3>3, KindCounted, Zenon
  <2>6. /\ SumFunction([q \in Proc |-> Owned(q, "LOW", TRUE)]) = Cardinality(vs \ high)
        /\ SumFunction([q \in Proc |-> Owned(q, "LOW", FALSE)])
             = SumFunction([v \in vs \ high |-> Cardinality(Replicas(v)) - 1])
    BY <1>1, <2>4, KindCounted
  <2>7. AllCounts = [high_master |-> SumFunction([q \in Proc |-> Owned(q, "HIGH", TRUE)]),
                     high_mirror |-> SumFunction([q \in Proc |-> Owned(q, "HIGH", FALSE)]),
                     low_master  |-> SumFunction([q \in Proc |-> Owned(q, "LOW", TRUE)]),
                     low_mirror  |-> SumFunction([q \in Proc |-> Owned(q, "LOW", FALSE)])]
    <3>1. DOMAIN NoCounts = {"high_master", "high_mirror", "low_master", "low_mirror"}
      BY DEF NoCounts
    <3>2. \A q \in Proc : /\ OwnCounts(q).high_master = Owned(q, "HIGH", TRUE)
                          /\ OwnCounts(q).high_mirror = Owned(q, "HIGH", FALSE)
                          /\ OwnCounts(q).low_master = Owned(q, "LOW", TRUE)
                          /\ OwnCounts(q).low_mirror = Owned(q, "LOW", FALSE)
      BY DEF OwnCounts
    <3>3. /\ [q \in Proc |-> OwnCounts(q).high_master] = [q \in Proc |-> Owned(q, "HIGH", TRUE)]
          /\ [q \in Proc |-> OwnCounts(q).high_mirror] = [q \in Proc |-> Owned(q, "HIGH", FALSE)]
          /\ [q \in Proc |-> OwnCounts(q).low_master] = [q \in Proc |-> Owned(q, "LOW", TRUE)]
          /\ [q \in Proc |-> OwnCounts(q).low_mirror] = [q \in Proc |-> Owned(q, "LOW", FALSE)]
      BY <3>2
    <3>4. \A k \in DOMAIN NoCounts : AllCounts[k] = SumFunction([q \in Proc |-> OwnCounts(q)[k]])
      BY DEF AllCounts
    <3>5. AllCounts = [k \in DOMAIN NoCounts |-> AllCounts[k]]
      BY DEF AllCounts
    <3> QED
      BY <3>1, <3>3, <3>4, <3>5
  <2> QED
    BY <2>2, <2>5, <2>6, <2>7
<1>2. GingerTypes /\ MastersInv /\ DegreesInv => (round <= 1 => CountsAddUp)
  BY <1>1 DEF CountsAddUp
<1> QED
  BY <1>2, GingerTypesInvariant, MastersInvariant, DegreesInvariant, PTL
=============================================================================
