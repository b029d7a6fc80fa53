---------------------------- MODULE GingerIngress ----------------------------
(***************************************************************************)
(* The hybrid Ginger ingress: the processes of a cluster read edges and    *)
(* vertices, send each to a process by hash, decide together where the     *)
(* in-edges of each vertex go (all to one process for a vertex of low      *)
(* degree, each to its source's process for one of high degree), exchange  *)
(* the edges, agree on a master for each vertex and on its mirrors, and    *)
(* spread its data and its degrees.                                        *)
(*                                                                         *)
(* The exchanges, barriers and reductions are GraphLab's and external:     *)
(* what is sent to an exchange is received at the earliest at once and at  *)
(* the latest after the flush, which is a barrier as well; a recv that     *)
(* follows a flush finds everything, one that does not finds any part.     *)
(* An exchange holds what was sent to a process and is not yet received.   *)
(* Local ids are left out: vid2lvid is injective, and records, edges and   *)
(* data are kept by global id.  A process alone takes a shorter way.       *)
(***************************************************************************)
EXTENDS Integers, Sequences, FiniteSets, Functions, Floats

CONSTANTS ClusterSizes,   \* the sizes a cluster may have
          VertexId,       \* global ids
          HashVertex,     \* vertex -> graph_hash::hash_vertex(v)
          Threshold,      \* threshold
          Interval,       \* interval
          TotVerts,       \* tot_nverts
          TotEdges,       \* tot_nedges
          Score(_, _),    \* degree - alpha * gamma * pow(balance, gamma - 1)
          MaxEdges,       \* bound: calls of add_edge
          MaxVertices,    \* bound: calls of add_vertex
          MaxRounds       \* bound: finalizations that change the graph

ASSUME GingerAssumption ==
    /\ ClusterSizes \subseteq Nat \ {0}
    /\ HashVertex \in [VertexId -> Nat]
    /\ Threshold \in Nat
    /\ Interval \in Nat \ {0}
    /\ TotVerts \in Nat \ {0}
    /\ TotEdges \in Nat \ {0}
    /\ MaxEdges \in Nat
    /\ MaxVertices \in Nat
    /\ MaxRounds \in Nat

NoProc == -1
NoData == 0

VARIABLES
    nprocs,                  \* numprocs(), which never changes
    pc,                      \* where each process is
    edges_added,             \* history: the edges added so far
    vertices_added,          \* history: the vertex records added so far
    round,                   \* finalizations begun
    hybrid_edge_exchange, hybrid_vertex_exchange,
    high_edge_exchange, low_edge_exchange, resend_vertex_exchange,
    mht_exchange,            \* process -> pairs
    proc_score_exchange,     \* <<from, to>> -> increments, in order
    vid_buffer,              \* process -> [vid, mirror]
    raw_map,                 \* the edges whose target is not yet assigned
    vcount,                  \* targets assigned
    mht,                     \* process -> vertex -> master, or NoProc
    proc_balance, proc_score_incr,
    placed,                  \* history: process -> the targets of low degree
                             \* placed there, and their weight
    hybrid_edges,
    local_edges,             \* the edges of graph.local_graph
    local_data,              \* its vertex data
    vid2lvid,                \* the vertices of the local graph
    vid2lvid_buffer,         \* those new in this finalization
    lvid2record,             \* vertex -> vertex_record
    counts                   \* the counters of set_degree_type

Proc == 0 .. nprocs - 1

\* graph_hash::hash_vertex(v) % nprocs
Hash(v) == HashVertex[v] % nprocs

\* edge_buffer_record; the id stands for the edge data, and tells the edges
\* of a source and a target apart.
Edge == [source : VertexId, target : VertexId, id : 1 .. MaxEdges]
\* vertex_buffer_record
VertexRec == [vid : VertexId, vdata : 1 .. MaxVertices]
\* master_pair_type
MasterPair == [vid : VertexId, master : Proc]

input    == <<edges_added, vertices_added, round>>
ingress  == <<hybrid_edge_exchange, hybrid_vertex_exchange>>
edgeExch == <<high_edge_exchange, low_edge_exchange>>
scores   == <<proc_balance, proc_score_incr, proc_score_exchange, placed>>
masters  == <<mht, mht_exchange>>
assigning == <<raw_map, vcount>>
localg   == <<local_edges, local_data, vid2lvid, vid2lvid_buffer, lvid2record>>
building == <<resend_vertex_exchange, vid_buffer, hybrid_edges, localg, counts>>
vars     == <<nprocs, pc, input, ingress, edgeExch, scores, masters, assigning, building>>

NoRecord == [owner |-> NoProc, mirrors |-> {}, num_in_edges |-> 0,
             num_out_edges |-> 0, dtype |-> "LOW"]

NoCounts == [high_master |-> 0, high_mirror |-> 0, low_master |-> 0, low_mirror |-> 0]

Init ==
    /\ nprocs \in ClusterSizes
    /\ pc = [p \in Proc |-> "load"]
    /\ edges_added = {} /\ vertices_added = {} /\ round = 0
    /\ hybrid_edge_exchange = [p \in Proc |-> {}]
    /\ hybrid_vertex_exchange = [p \in Proc |-> {}]
    /\ high_edge_exchange = [p \in Proc |-> {}]
    /\ low_edge_exchange = [p \in Proc |-> {}]
    /\ resend_vertex_exchange = [p \in Proc |-> {}]
    /\ mht_exchange = [p \in Proc |-> {}]
    /\ proc_score_exchange = [c \in Proc \X Proc |-> <<>>]
    /\ vid_buffer = [p \in Proc |-> {}]
    /\ raw_map = [p \in Proc |-> {}]
    /\ vcount = [p \in Proc |-> 0]
    /\ mht = [p \in Proc |-> [v \in VertexId |-> NoProc]]
    /\ proc_balance = [p \in Proc |-> [q \in Proc |-> 0]]
    /\ proc_score_incr = [p \in Proc |-> [q \in Proc |-> 0]]
    /\ placed = [q \in Proc |-> [targets |-> 0, weight |-> 0]]
    /\ hybrid_edges = [p \in Proc |-> {}]
    /\ local_edges = [p \in Proc |-> {}]
    /\ local_data = [p \in Proc |-> [v \in VertexId |-> NoData]]
    /\ vid2lvid = [p \in Proc |-> {}]
    /\ vid2lvid_buffer = [p \in Proc |-> {}]
    /\ lvid2record = [p \in Proc |-> [v \in VertexId |-> NoRecord]]
    /\ counts = [p \in Proc |-> NoCounts]

Sources(es) == {e.source : e \in es}
Targets(es) == {e.target : e \in es}

Goto(p, l) == pc' = [pc EXCEPT ![p] = l]
AllAt(l)   == \A p \in Proc : pc[p] = l

-----------------------------------------------------------------------------
(* Loading.                                                                *)

AddEdge(p, s, t) ==
    /\ pc[p] = "load"
    /\ round < MaxRounds
    /\ Cardinality(edges_added) < MaxEdges
    /\ LET same == {e \in edges_added : e.source = s /\ e.target = t}
           rec  == [source |-> s, target |-> t, id |-> Cardinality(same) + 1]
       IN /\ edges_added' = edges_added \cup {rec}
          /\ hybrid_edge_exchange' = [hybrid_edge_exchange EXCEPT ![Hash(t)] = @ \cup {rec}]
    /\ UNCHANGED <<pc, vertices_added, round, hybrid_vertex_exchange, edgeExch,
                   scores, masters, assigning, building>>

AddVertex(p, v) ==
    /\ pc[p] = "load"
    /\ round < MaxRounds
    /\ Cardinality(vertices_added) < MaxVertices
    /\ LET rec == [vid |-> v, vdata |-> Cardinality(vertices_added) + 1]
       IN /\ vertices_added' = vertices_added \cup {rec}
          /\ hybrid_vertex_exchange' = [hybrid_vertex_exchange EXCEPT ![Hash(v)] = @ \cup {rec}]
    /\ UNCHANGED <<pc, edges_added, round, hybrid_edge_exchange, edgeExch,
                   scores, masters, assigning, building>>

CallFinalize(p) ==
    /\ pc[p] = "load"
    /\ round < MaxRounds
    /\ Goto(p, "flush")
    /\ UNCHANGED <<input, ingress, edgeExch, scores, masters, assigning, building>>

\* Wrong: without the all_reduce, each process looks at its own exchanges.
LocallyChanged(p) == hybrid_edge_exchange[p] # {} \/ hybrid_vertex_exchange[p] # {}

\* all_reduce(changed_size): the same for every process.
Changed(p) == \E q \in Proc : hybrid_edge_exchange[q] # {} \/ hybrid_vertex_exchange[q] # {}

\* A cluster of one process.
standalone == nprocs = 1

\* The flush of both exchanges, and the fast pass of an unchanged graph.
BeginFinalize ==
    /\ AllAt("flush")
    /\ pc' = [p \in Proc |-> IF ~Changed(p) THEN "load"
                             ELSE IF standalone THEN "alone" ELSE "collect"]
    /\ round' = IF \E p \in Proc : Changed(p) THEN round + 1 ELSE round
    /\ UNCHANGED <<edges_added, vertices_added, ingress, edgeExch, scores,
                   masters, assigning, building>>

\* What a process does after each of the other barriers.
After == [mht_flush    |-> "mht_recv",     edge_flush  |-> "place",
          resend_flush |-> "receive_high", full_barrier |-> "build",
          vertex_flush |-> "vertices",     vid_flush   |-> "handshake"]

Barrier(l) ==
    /\ AllAt(l)
    /\ pc' = [p \in Proc |-> After[l]]
    /\ UNCHANGED <<input, ingress, edgeExch, scores, masters, assigning, building>>

\* The fast pass of a process alone: all the edges are its own.
CollectAll(p) ==
    /\ pc[p] = "alone"
    /\ Goto(p, "full_barrier")
    /\ hybrid_edges' = [hybrid_edges EXCEPT ![p] = @ \cup hybrid_edge_exchange[p]]
    /\ hybrid_edge_exchange' = [hybrid_edge_exchange EXCEPT ![p] = {}]
    /\ UNCHANGED <<input, hybrid_vertex_exchange, edgeExch, scores, masters, assigning,
                   resend_vertex_exchange, vid_buffer, localg, counts>>

-----------------------------------------------------------------------------
(* assign_hybrid_edges.                                                    *)

CollectEdges(p) ==
    /\ pc[p] = "collect"
    /\ Goto(p, "assign")
    /\ raw_map' = [raw_map EXCEPT ![p] = hybrid_edge_exchange[p]]
    /\ hybrid_edge_exchange' = [hybrid_edge_exchange EXCEPT ![p] = {}]
    /\ vcount' = [vcount EXCEPT ![p] = 0]
    /\ UNCHANGED <<input, hybrid_vertex_exchange, edgeExch, scores, masters, building>>

\* The in-edges of t, all of them at its hash's process.
Records(p, t) == {e \in raw_map[p] : e.target = t}

\* if ((++vcount % interval) == 0) sync_heuristic();
AfterTarget(p) ==
    /\ vcount' = [vcount EXCEPT ![p] = @ + 1]
    /\ pc' = [pc EXCEPT ![p] = IF (vcount[p] + 1) % Interval = 0 THEN "sync" ELSE "assign"]

AssignHigh(p, t) ==
    LET recs == Records(p, t) IN
    /\ pc[p] = "assign"
    /\ Cardinality(recs) > Threshold
    /\ high_edge_exchange' = [high_edge_exchange EXCEPT ![Hash(t)] = @ \cup recs]
    /\ raw_map' = [raw_map EXCEPT ![p] = @ \ recs]
    /\ AfterTarget(p)
    /\ UNCHANGED <<input, ingress, low_edge_exchange, scores, masters, building>>

\* The process with the best score, the first one of them.
GingerToProc(p, recs) ==
    LET degree(q) == Cardinality({e \in recs : mht[p][e.source] = q})
        score(q)  == Score(degree(q), proc_balance[p][q])
    IN CHOOSE q \in Proc : \A r \in Proc : /\ score(r) <= score(q)
                                           /\ r < q => score(r) < score(q)

\* degree * float(tot_nverts) / float(tot_nedges), of the low degrees.
Share == [degree \in 1 .. Threshold |->
    FloatQuotient(FloatProduct(Whole(degree), Whole(TotVerts)), Whole(TotEdges))]

\* A vertex is one, and its edges their share: ++, then += of a float, which
\* makes a float of the sum before it drops the fraction.
Weighed(balance, degree) == Increased(balance + 1, Share[degree])

\* What a target and its edges weigh if that did not depend on the sum.
Weight(degree) == 1 + Truncated(Share[degree])

AssignLow(p, t) ==
    LET recs   == Records(p, t)
        owner  == GingerToProc(p, recs)
        degree == Cardinality(recs)
    IN
    /\ pc[p] = "assign"
    /\ degree \in 1 .. Threshold
    /\ low_edge_exchange' = [low_edge_exchange EXCEPT ![owner] = @ \cup recs]
    /\ mht' = [mht EXCEPT ![p][t] = owner]
    /\ mht_exchange' = [q \in Proc |-> IF q = p THEN mht_exchange[q]
                                       ELSE mht_exchange[q] \cup {[vid |-> t, master |-> owner]}]
    /\ proc_balance' = [proc_balance EXCEPT ![p][owner] = Weighed(@, degree)]
    /\ proc_score_incr' = [proc_score_incr EXCEPT ![p][owner] = Weighed(@, degree)]
    /\ placed' = [placed EXCEPT ![owner] = [targets |-> @.targets + 1,
                                            weight  |-> @.weight + Weight(degree)]]
    /\ raw_map' = [raw_map EXCEPT ![p] = @ \ recs]
    /\ AfterTarget(p)
    /\ UNCHANGED <<input, ingress, high_edge_exchange, proc_score_exchange, building>>

\* mht[pair.first] = pair.second for each pair received.
WithPairs(m, pairs) ==
    [v \in VertexId |-> IF \E x \in pairs : x.vid = v
                        THEN (CHOOSE x \in pairs : x.vid = v).master
                        ELSE m[v]]

\* A sequence of increments, added up process by process.
Total(incrs) == [q \in Proc |-> SumFunction([i \in DOMAIN incrs |-> incrs[i][q]])]

\* Wrong: the increments are sent and not reset.
StillIncr(p) == proc_score_incr[p]

\* The increments a synchronization sends, and what it leaves of them.
SentIncr(p) == proc_score_incr[p]
KeptIncr(p) == [q \in Proc |-> 0]

\* Nothing is waited for: of the pairs any part has arrived, of the
\* increments of each process the first ones.
SyncHeuristic(p) ==
    /\ pc[p] = "sync"
    /\ Goto(p, "assign")
    /\ proc_score_incr' = [proc_score_incr EXCEPT ![p] = KeptIncr(p)]
    /\ \E pairs \in SUBSET mht_exchange[p] :
          /\ mht' = [mht EXCEPT ![p] = WithPairs(@, pairs)]
          /\ mht_exchange' = [mht_exchange EXCEPT ![p] = @ \ pairs]
    /\ \E arrived \in [Proc -> 0 .. MaxEdges] :
          LET first(r) == SubSeq(proc_score_exchange[<<r, p>>], 1, arrived[r])
              rest(r)  == SubSeq(proc_score_exchange[<<r, p>>], arrived[r] + 1,
                                 Len(proc_score_exchange[<<r, p>>]))
              got      == [r \in Proc |-> Total(first(r))]
          IN /\ \A r \in Proc : arrived[r] <= Len(proc_score_exchange[<<r, p>>])
             /\ proc_balance' = [proc_balance EXCEPT ![p] =
                    [q \in Proc |-> @[q] + SumFunction([r \in Proc |-> got[r][q]])]]
             /\ proc_score_exchange' = [c \in Proc \X Proc |->
                    CASE c[2] = p              -> rest(c[1])
                      [] c[1] = p /\ c[2] # p  -> Append(proc_score_exchange[c], SentIncr(p))
                      [] OTHER                 -> proc_score_exchange[c]]
    /\ UNCHANGED <<input, ingress, edgeExch, assigning, placed, building>>

\* The loop over raw_map ends; mht_exchange.flush() comes next.
AssignEnds(p) ==
    /\ pc[p] = "assign"
    /\ raw_map[p] = {}
    /\ Goto(p, "mht_flush")
    /\ UNCHANGED <<input, ingress, edgeExch, scores, masters, assigning, building>>

\* Wrong: the last synchronization is left out.
NoPairs(p) == {}

\* After the flush all pairs are here.
ReceivedPairs(p) == mht_exchange[p]

LastSynchronize(p) ==
    /\ pc[p] = "mht_recv"
    /\ Goto(p, "edge_flush")
    /\ mht' = [mht EXCEPT ![p] = WithPairs(@, ReceivedPairs(p))]
    /\ mht_exchange' = [mht_exchange EXCEPT ![p] = {}]
    /\ UNCHANGED <<input, ingress, edgeExch, scores, assigning, building>>

-----------------------------------------------------------------------------
(* finalize, from the exchange of the edges on.                            *)

\* if (mht.find(v) == mht.end()) mht[v] = hash_vertex(v) % nprocs;
WithHashes(m, vs) == [v \in VertexId |-> IF v \in vs /\ m[v] = NoProc THEN Hash(v) ELSE m[v]]

\* Wrong: the edge stays where its target is hashed to.
TargetOwner(m, e) == Hash(e.target)

\* Where the edge of a vertex of high degree goes.
HighOwner(m, e) == m[e.source]

\* The edges p sends on to q.
SentTo(p, m, q) == {e \in high_edge_exchange[p] : HighOwner(m, e) = q}

\* Wrong: an edge sent on is kept as well.
KeptAll(p, m) == high_edge_exchange[p]

\* Those it keeps.
Kept(p, m) == SentTo(p, m, p)

PlaceEdges(p) ==
    LET low  == low_edge_exchange[p]
        high == high_edge_exchange[p]
        m    == WithHashes(mht[p], Sources(low \cup high))
    IN
    /\ pc[p] = "place"
    /\ Goto(p, "resend_flush")
    /\ mht' = [mht EXCEPT ![p] = m]
    /\ hybrid_edges' = [hybrid_edges EXCEPT ![p] = @ \cup low \cup Kept(p, m)]
    /\ hybrid_edge_exchange' = [q \in Proc |-> IF q = p THEN hybrid_edge_exchange[q]
                                               ELSE hybrid_edge_exchange[q] \cup SentTo(p, m, q)]
    /\ low_edge_exchange' = [low_edge_exchange EXCEPT ![p] = {}]
    /\ high_edge_exchange' = [high_edge_exchange EXCEPT ![p] = {}]
    /\ UNCHANGED <<input, hybrid_vertex_exchange, scores, mht_exchange, assigning,
                   resend_vertex_exchange, vid_buffer, localg, counts>>

ReceiveHigh(p) ==
    LET got == hybrid_edge_exchange[p] IN
    /\ pc[p] = "receive_high"
    /\ Goto(p, "full_barrier")
    /\ mht' = [mht EXCEPT ![p] = [v \in VertexId |-> IF v \in Sources(got) THEN p ELSE @[v]]]
    /\ hybrid_edges' = [hybrid_edges EXCEPT ![p] = @ \cup got]
    /\ hybrid_edge_exchange' = [hybrid_edge_exchange EXCEPT ![p] = {}]
    /\ UNCHANGED <<input, hybrid_vertex_exchange, edgeExch, scores, mht_exchange,
                   assigning, resend_vertex_exchange, vid_buffer, localg, counts>>

-----------------------------------------------------------------------------
(* modified_base_finalize.                                                 *)

\* Wrong: the data stays where the vertex is hashed to.
HashOwner(m, v) == Hash(v)

\* Where the data of a vertex goes.
DataOwner(m, v) == m[v]

\* The local graph, and the vertex data sent on to the masters.
BuildLocalGraph(p) ==
    LET es == hybrid_edges[p]
        vs == hybrid_vertex_exchange[p]
        m  == WithHashes(mht[p], {x.vid : x \in vs})
    IN
    /\ pc[p] = "build"
    /\ Goto(p, "vertex_flush")
    /\ local_edges' = [local_edges EXCEPT ![p] = @ \cup es]
    /\ vid2lvid_buffer' = [vid2lvid_buffer EXCEPT ![p] = (Sources(es) \cup Targets(es)) \ vid2lvid[p]]
    /\ hybrid_edges' = [hybrid_edges EXCEPT ![p] = {}]
    /\ mht' = [mht EXCEPT ![p] = m]
    /\ resend_vertex_exchange' = [q \in Proc |-> resend_vertex_exchange[q]
                                                 \cup {x \in vs : DataOwner(m, x.vid) = q}]
    /\ hybrid_vertex_exchange' = [hybrid_vertex_exchange EXCEPT ![p] = {}]
    /\ UNCHANGED <<input, hybrid_edge_exchange, edgeExch, scores, mht_exchange, assigning,
                   vid_buffer, local_data, vid2lvid, lvid2record, counts>>

\* The master of a vertex new to p.
OwnerOf(p, m, v) == m[v]

\* The vertex data received, of two records of a vertex the later one; then
\* the records of the new vertices and a message to each of their masters.
ReceiveVertices(p) ==
    LET got == resend_vertex_exchange[p]
        new == vid2lvid_buffer[p] \cup ({x.vid : x \in got} \ vid2lvid[p])
        m   == WithHashes(mht[p], new)
    IN
    /\ pc[p] = "vertices"
    /\ Goto(p, "vid_flush")
    /\ \E last \in {d \in [{x.vid : x \in got} -> 1 .. MaxVertices] :
                       \A v \in DOMAIN d : [vid |-> v, vdata |-> d[v]] \in got} :
          local_data' = [local_data EXCEPT ![p] =
              [v \in VertexId |-> IF v \in DOMAIN last THEN last[v] ELSE @[v]]]
    /\ resend_vertex_exchange' = [resend_vertex_exchange EXCEPT ![p] = {}]
    /\ vid2lvid_buffer' = [vid2lvid_buffer EXCEPT ![p] = new]
    /\ lvid2record' = [lvid2record EXCEPT ![p] = [v \in VertexId |->
           IF v \in new THEN [NoRecord EXCEPT !.owner = OwnerOf(p, m, v)] ELSE @[v]]]
    /\ mht' = [mht EXCEPT ![p] = [v \in VertexId |-> NoProc]]
    /\ vid_buffer' = [q \in Proc |-> IF q = p THEN vid_buffer[q] ELSE vid_buffer[q] \cup
           {[vid |-> v, mirror |-> p] : v \in {w \in new : OwnerOf(p, m, w) = q}}]
    /\ UNCHANGED <<input, ingress, edgeExch, scores, mht_exchange, assigning, hybrid_edges,
                   local_edges, vid2lvid, counts>>

\* The masters learn their mirrors; a vertex nobody has here is added, with
\* this process as its master (flying_vids).
Handshake(p) ==
    LET got     == vid_buffer[p]
        present == vid2lvid[p] \cup vid2lvid_buffer[p]
        flying  == {x.vid : x \in got} \ present
        from(v) == {x.mirror : x \in {y \in got : y.vid = v}}
        rec     == lvid2record[p]
    IN
    /\ pc[p] = "handshake"
    /\ Goto(p, "sync_meta")
    /\ lvid2record' = [lvid2record EXCEPT ![p] = [v \in VertexId |->
           IF v \in flying THEN [NoRecord EXCEPT !.owner = p, !.mirrors = from(v)]
           ELSE [rec[v] EXCEPT !.mirrors = @ \cup from(v)]]]
    /\ vid2lvid' = [vid2lvid EXCEPT ![p] = present \cup flying]
    /\ vid2lvid_buffer' = [vid2lvid_buffer EXCEPT ![p] = {}]
    /\ vid_buffer' = [vid_buffer EXCEPT ![p] = {}]
    /\ UNCHANGED <<input, ingress, edgeExch, scores, masters, assigning,
                   resend_vertex_exchange, hybrid_edges, local_edges, local_data, counts>>

\* The replicas of v that send what they gathered to m.
GatheredBy(m, v) == {q \in Proc : v \in vid2lvid[q] /\ lvid2record[q][v].owner = m}

\* Wrong: the master counts its own edges only.
OwnInEdges(m, v) == Cardinality({e \in local_edges[m] : e.target = v})

\* finalize_gather: the edges of v at one replica, and the sum at the master.
NumInEdges(m, v)  == SumFunction([q \in GatheredBy(m, v) |->
                         Cardinality({e \in local_edges[q] : e.target = v})])
NumOutEdges(m, v) == SumFunction([q \in GatheredBy(m, v) |->
                         Cardinality({e \in local_edges[q] : e.source = v})])

\* q's record of v is applied to: it is the master's, or one of its mirrors.
Applied(q, v) ==
    /\ v \in vid2lvid[q]
    /\ LET m == lvid2record[q][v].owner
       IN m = q \/ q \in lvid2record[m][v].mirrors

\* graph_gather_apply over all vertices (external), with finalize_gather and
\* finalize_apply; a collective operation, like exchange_global_info after it.
SyncMeta ==
    /\ AllAt("sync_meta")
    /\ pc' = [p \in Proc |-> "degree_type"]
    /\ lvid2record' = [q \in Proc |-> [v \in VertexId |->
           IF ~Applied(q, v) THEN lvid2record[q][v]
           ELSE LET m == lvid2record[q][v].owner
                IN [lvid2record[q][v] EXCEPT !.num_in_edges = NumInEdges(m, v),
                                             !.num_out_edges = NumOutEdges(m, v),
                                             !.mirrors = lvid2record[m][v].mirrors]]]
    /\ local_data' = [q \in Proc |-> [v \in VertexId |->
           IF ~Applied(q, v) THEN local_data[q][v]
           ELSE local_data[lvid2record[q][v].owner][v]]]
    /\ UNCHANGED <<input, ingress, edgeExch, scores, masters, assigning,
                   resend_vertex_exchange, vid_buffer, hybrid_edges, local_edges,
                   vid2lvid, vid2lvid_buffer, counts>>

\* The type of a vertex.
TypeOf(rec) == IF rec.num_in_edges > Threshold THEN "HIGH" ELSE "LOW"

\* The vertices p has with a type, as their master or not.
Owned(p, dtype, own) ==
    Cardinality({v \in vid2lvid[p] : /\ TypeOf(lvid2record[p][v]) = dtype
                                     /\ (lvid2record[p][v].owner = p) = own})

SetDegreeType(p) ==
    /\ pc[p] = "degree_type"
    /\ Goto(p, "gather_counts")
    /\ lvid2record' = [lvid2record EXCEPT ![p] = [v \in VertexId |->
           IF v \in vid2lvid[p] THEN [@[v] EXCEPT !.dtype = TypeOf(lvid2record[p][v])]
           ELSE @[v]]]
    /\ counts' = [counts EXCEPT ![p] =
           [high_master |-> Owned(p, "HIGH", TRUE), high_mirror |-> Owned(p, "HIGH", FALSE),
            low_master  |-> Owned(p, "LOW", TRUE),  low_mirror  |-> Owned(p, "LOW", FALSE)]]
    /\ UNCHANGED <<input, ingress, edgeExch, scores, masters, assigning,
                   resend_vertex_exchange, vid_buffer, hybrid_edges, local_edges,
                   local_data, vid2lvid, vid2lvid_buffer>>

\* all_gather of each counter, and its sum (compiled with TUNING).
GatherCounts ==
    /\ AllAt("gather_counts")
    /\ pc' = [p \in Proc |-> "load"]
    /\ counts' = [p \in Proc |-> [k \in DOMAIN NoCounts |->
                     SumFunction([q \in Proc |-> counts[q][k]])]]
    /\ UNCHANGED <<input, ingress, edgeExch, scores, masters, assigning,
                   resend_vertex_exchange, vid_buffer, hybrid_edges, localg>>

-----------------------------------------------------------------------------
\* What one process does by itself inside assign_hybrid_edges and finalize.
Step(p) ==
    \/ CollectAll(p)
    \/ CollectEdges(p)
    \/ \E t \in Targets(raw_map[p]) : AssignHigh(p, t) \/ AssignLow(p, t)
    \/ SyncHeuristic(p)
    \/ AssignEnds(p)
    \/ LastSynchronize(p)
    \/ PlaceEdges(p)
    \/ ReceiveHigh(p)
    \/ BuildLocalGraph(p)
    \/ ReceiveVertices(p)
    \/ Handshake(p)
    \/ SetDegreeType(p)

\* What all of them do together.
Collective ==
    \/ BeginFinalize
    \/ \E l \in DOMAIN After : Barrier(l)
    \/ SyncMeta
    \/ GatherCounts

Load(p) ==
    \/ \E s, t \in VertexId : AddEdge(p, s, t)
    \/ \E v \in VertexId : AddVertex(p, v)
    \/ CallFinalize(p)

Next ==
    /\ \/ \E p \in Proc : Load(p) \/ Step(p)
       \/ Collective
    /\ UNCHANGED nprocs

\* The processes of the largest cluster.
AnyProc == UNION {0 .. n - 1 : n \in ClusterSizes}

\* Every process goes on once it is in finalize, and messages arrive by the
\* flush that waits for them.  Nothing makes a client add or finalize.
Fairness == /\ WF_vars(Collective /\ UNCHANGED nprocs)
            /\ \A p \in AnyProc : WF_vars(p \in Proc /\ Step(p) /\ UNCHANGED nprocs)

Spec == Init /\ [][Next]_vars /\ Fairness

-----------------------------------------------------------------------------
MaybeProc == Proc \cup {NoProc}

Record == [owner : MaybeProc, mirrors : SUBSET Proc, num_in_edges : Nat,
           num_out_edges : Nat, dtype : {"LOW", "HIGH"}]

\* The type of every variable: the tables are total, exchanges hold records
\* of their kind, a balance is never negative (size_t), and
\* every vertex of a local graph has an owner.
TypeOK ==
    /\ nprocs \in ClusterSizes
    /\ pc \in [Proc -> {"load", "flush", "alone", "collect", "assign", "sync", "mht_recv", "place",
                        "receive_high", "build", "vertices", "handshake", "sync_meta",
                        "degree_type", "gather_counts"} \cup DOMAIN After]
    /\ edges_added \subseteq Edge
    /\ vertices_added \subseteq VertexRec
    /\ round \in 0 .. MaxRounds
    /\ hybrid_edge_exchange \in [Proc -> SUBSET edges_added]
    /\ high_edge_exchange \in [Proc -> SUBSET edges_added]
    /\ low_edge_exchange \in [Proc -> SUBSET edges_added]
    /\ raw_map \in [Proc -> SUBSET edges_added]
    /\ hybrid_edges \in [Proc -> SUBSET edges_added]
    /\ local_edges \in [Proc -> SUBSET edges_added]
    /\ hybrid_vertex_exchange \in [Proc -> SUBSET vertices_added]
    /\ resend_vertex_exchange \in [Proc -> SUBSET vertices_added]
    /\ mht_exchange \in [Proc -> SUBSET MasterPair]
    /\ \A c \in Proc \X Proc : proc_score_exchange[c] \in Seq([Proc -> Nat])
    /\ vid_buffer \in [Proc -> SUBSET [vid : VertexId, mirror : Proc]]
    /\ vcount \in [Proc -> Nat]
    /\ mht \in [Proc -> [VertexId -> MaybeProc]]
    /\ proc_balance \in [Proc -> [Proc -> Nat]]
    /\ proc_score_incr \in [Proc -> [Proc -> Nat]]
    /\ placed \in [Proc -> [targets : Nat, weight : Nat]]
    /\ local_data \in [Proc -> [VertexId -> 0 .. MaxVertices]]
    /\ vid2lvid \in [Proc -> SUBSET VertexId]
    /\ vid2lvid_buffer \in [Proc -> SUBSET VertexId]
    /\ lvid2record \in [Proc -> [VertexId -> Record]]
    /\ counts \in [Proc -> [DOMAIN NoCounts -> Nat]]
    /\ \A p \in Proc : \A v \in vid2lvid[p] : lvid2record[p][v].owner \in Proc

\* The places an edge can be.
Stores == <<hybrid_edge_exchange, raw_map, high_edge_exchange, low_edge_exchange,
            hybrid_edges, local_edges>>

\* No edge is lost and none is kept twice, whatever exchange, map or local
\* graph it is in, and whichever processes are ahead of the others.
EdgeAtOnePlace ==
    \A e \in edges_added :
        Cardinality({x \in (DOMAIN Stores) \X Proc : e \in Stores[x[1]][x[2]]}) = 1

\* Increments sent to p and not received.
InFlight(p, q) ==
    SumFunction([r \in Proc |-> Total(proc_score_exchange[<<r, p>>])[q]])

\* What p's balance of q will be once every increment has reached p.
EventualBalance(p, q) ==
    proc_balance[p][q] + InFlight(p, q)
        + SumFunction([r \in Proc \ {p} |-> proc_score_incr[r][q]])

\* The processes decide on balances that lag behind, each its own way, and
\* round on their own: what each adds to its balance and what it sends to the
\* others need not be the same.  But as long as a float counts by ones no
\* increment is dropped or counted twice: every process would end at the weight
\* of what was placed, rounded up by less than one for each target.
BalancesAddUp ==
    \A q \in Proc :
        LET w == placed[q].weight
            n == placed[q].targets
        IN w + n < FloatLimit => \A p \in Proc : EventualBalance(p, q) \in w .. w + n

\* No process is inside finalize before the last exchange.
Finalized == \A p \in Proc : pc[p] \in {"degree_type", "gather_counts", "load", "flush"}
Idle      == \A p \in Proc : pc[p] \in {"load", "flush"}

Replicas(v) == {p \in Proc : v \in vid2lvid[p]}

\* Every vertex has one master that all its replicas name, the master has it,
\* and it knows its mirrors.
OneMaster ==
    Finalized => \A v \in VertexId : \A p \in Replicas(v) :
        LET m == lvid2record[p][v].owner
        IN /\ m \in Replicas(v)
           /\ \A q \in Replicas(v) : lvid2record[q][v].owner = m
           /\ lvid2record[m][v].mirrors = Replicas(v) \ {m}

InDegree(v)  == Cardinality({e \in UNION {local_edges[p] : p \in Proc} : e.target = v})
OutDegree(v) == Cardinality({e \in UNION {local_edges[p] : p \in Proc} : e.source = v})

\* The hybrid cut: all in-edges of a vertex of low degree are with its master,
\* each in-edge of one of high degree with the master of its source.
HybridCut ==
    Finalized => \A p \in Proc : \A e \in local_edges[p] :
        LET v == IF InDegree(e.target) > Threshold THEN e.source ELSE e.target
        IN lvid2record[p][v].owner = p

\* Every replica knows the degrees of its vertex in the whole graph, and
\* whether it is of high degree, as assign_hybrid_edges judged it.
DegreesKnown ==
    Idle => \A v \in VertexId : \A p \in Replicas(v) :
        LET rec == lvid2record[p][v]
        IN /\ rec.num_in_edges = InDegree(v)
           /\ rec.num_out_edges = OutDegree(v)
           /\ rec.dtype = IF InDegree(v) > Threshold THEN "HIGH" ELSE "LOW"

\* The counters that set_degree_type adds up over the processes are those of
\* the whole graph, every vertex having one master and a mirror at each of its
\* other replicas (distributed_hybrid_ginger_ingress.hpp:525-562).
CountsAddUp ==
    Idle /\ round > 0 =>
        LET vs   == UNION {vid2lvid[q] : q \in Proc}
            high == {v \in vs : InDegree(v) > Threshold}
            mirrors(set) == SumFunction([v \in set |-> Cardinality(Replicas(v)) - 1])
        IN \A p \in Proc : counts[p] =
             [high_master |-> Cardinality(high),      high_mirror |-> mirrors(high),
              low_master  |-> Cardinality(vs \ high), low_mirror  |-> mirrors(vs \ high)]

\* Vertex data given to add_vertex is not lost: a vertex that was added has a
\* replica, and all its replicas have the same data, one that was added.
DataEverywhere ==
    Finalized => \A x \in vertices_added :
        \/ \E q \in Proc : x \in hybrid_vertex_exchange[q]
        \/ /\ Replicas(x.vid) # {}
           /\ \E d \in {y.vdata : y \in {z \in vertices_added : z.vid = x.vid}} :
                 \A p \in Replicas(x.vid) : local_data[p][x.vid] = d

\* Once all processes have called finalize, each of them returns from it:
\* none waits at a barrier another does not come to.
FinalizeReturns ==
    \A p \in AnyProc :
        p \in Proc /\ AllAt("flush") ~> p \in Proc /\ pc[p] = "load"

\* "Receive and add vertex data to masters"
\* (distributed_hybrid_ginger_ingress.hpp:704): the process that
\* receives the data of a vertex is its master.
VertexDataToMasters ==
    [][\A p \in Proc : ReceiveVertices(p) =>
           \A x \in resend_vertex_exchange[p] : lvid2record'[p][x.vid].owner = p]_vars
=============================================================================
