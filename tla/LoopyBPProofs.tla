--------------------------- MODULE LoopyBPProofs ---------------------------
(***************************************************************************)
(* Proofs about belief propagation, for every graph, every set of messages *)
(* and every irreflexive comparison of them.  ChangedIsQueued and          *)
(* NobodyForgotten are inductive given the types; that writing one message *)
(* disturbs no other takes that a slot determines its receiver.            *)
(***************************************************************************)
EXTENDS LoopyBP, SequenceTheorems, TLAPS

IndInv == TypeOK /\ ChangedIsQueued /\ NobodyForgotten

\* The vertex and the edge of a visit, and the ends of that edge.
LEMMA VisitEnds ==
  ASSUME NEW v \in Vertex, NEW i \in DOMAIN Visits(v)
  PROVE  /\ Visits(v)[i] \in Vertex \X Edges
         /\ LET x == Visits(v)[i]
            IN \/ Source[x[2]] = v /\ Target[x[2]] = x[1]
               \/ Target[x[2]] = v /\ Source[x[2]] = x[1]
<1>1. OutEdges[v] \in Seq(Vertex \X Edges) /\ InEdges[v] \in Seq(Vertex \X Edges)
  BY GraphAssumption
<1>2. CASE i \in DOMAIN OutEdges[v]
  <2>1. Visits(v)[i] = OutEdges[v][i]
    BY <1>1, <1>2 DEF Visits
  <2> QED
    BY <1>1, <1>2, <2>1, GraphAssumption
<1>3. CASE i \notin DOMAIN OutEdges[v]
  <2> DEFINE n == Len(OutEdges[v])
             j == i - n
  <2>1. n \in Nat /\ Len(InEdges[v]) \in Nat /\ DOMAIN OutEdges[v] = 1 .. n
    BY <1>1
  <2>2. /\ Visits(v) \in Seq(Vertex \X Edges)
        /\ Len(Visits(v)) = n + Len(InEdges[v])
    BY <1>1, ConcatProperties, Zenon DEF Visits
  <2>3. i \in 1 .. n + Len(InEdges[v])
    <3>1. DOMAIN Visits(v) = 1 .. Len(Visits(v))
      BY <2>2
    <3> QED
      BY <2>2, <3>1
  <2>4. i > n
    BY <1>3, <2>1, <2>3
  <2> HIDE DEF n
  <2>5. j \in DOMAIN InEdges[v]
    BY <1>1, <2>1, <2>3, <2>4
  <2>6. Visits(v)[i] = InEdges[v][j]
    <3>1. Visits(v)[i] = IF i <= n THEN OutEdges[v][i] ELSE InEdges[v][i - n]
      BY <1>1, <2>3, ConcatProperties, Zenon DEF Visits, n
    <3> QED
      BY <2>1, <2>3, <2>4, <3>1
  <2> QED
    BY <1>1, <2>5, <2>6, GraphAssumption
<1> QED
  BY <1>2, <1>3

\* There is a slot for every edge and direction.
LEMMA SlotType ==
  ASSUME NEW e \in Edges, NEW a, NEW b
  PROVE  SlotOf(e, a, b) \in Slot
<1>1. MessageIdx(a, b) \in BOOLEAN
  BY DEF MessageIdx
<1> QED
  BY <1>1 DEF SlotOf, Slot

\* A slot determines its receiver.
LEMMA SlotReceiver ==
  ASSUME NEW v \in Vertex, NEW i \in DOMAIN Visits(v),
         NEW w \in Vertex, NEW j \in DOMAIN Visits(w),
         SlotOf(Visits(v)[i][2], Visits(v)[i][1], v)
            = SlotOf(Visits(w)[j][2], w, Visits(w)[j][1])
  PROVE  v = Visits(w)[j][1]
<1> DEFINE x == Visits(v)[i]
           y == Visits(w)[j]
<1>1. x[2] = y[2] /\ (x[1] < v <=> w < y[1])
  BY DEF SlotOf, MessageIdx
<1>2. x[1] \in Vertex /\ y[1] \in Vertex
  BY VisitEnds
<1>3. \/ v = y[1] /\ x[1] = w
      \/ v = w /\ x[1] = y[1]
  BY <1>1, VisitEnds
<1> QED
  BY <1>1, <1>2, <1>3, GraphAssumption DEF Vertex

LEMMA VisitsType ==
  ASSUME NEW v \in Vertex
  PROVE  Visits(v) \in Seq(Vertex \X Edges)
  BY GraphAssumption DEF Visits

LEMMA InitIndInv == Init => IndInv
<1> SUFFICES ASSUME Init PROVE IndInv
  OBVIOUS
<1>1. \A v \in Vertex : v + 1 \in DOMAIN run /\ run[v + 1] = v
  BY GraphAssumption DEF Init, Vertex
<1>2. run \in Seq(Vertex)
  <2>1. \A k \in 1 .. NVerts : k - 1 \in Vertex
    BY GraphAssumption DEF Vertex
  <2> QED
    BY <2>1, GraphAssumption DEF Init
<1>3. TypeOK
  BY <1>2, MessageAssumption DEF Init, TypeOK
<1>4. \A v \in Vertex : Waiting(v)
  <2>1. visit = 0
    BY DEF Init
  <2> QED
    BY <1>1, <2>1 DEF Waiting
<1> QED
  BY <1>3, <1>4 DEF IndInv, ChangedIsQueued, NobodyForgotten

LEMMA GatherApplyIndInv ==
  ASSUME IndInv, GatherApply
  PROVE  IndInv'
<1> DEFINE h == Head(run)
<1> USE DEF IndInv, TypeOK
<1>1. h \in Vertex /\ run # <<>> /\ visit = 0
  BY DEF GatherApply
<1>2. TypeOK'
  BY <1>1, VisitsType DEF GatherApply
<1>3. ASSUME NEW v \in Vertex, Waiting(v), v # h
      PROVE  Waiting(v)'
  <2>1. PICK k \in DOMAIN run : run[k] = v
    BY <1>3 DEF Waiting
  <2>2. k > 1
    BY <1>1, <1>3, <2>1
  <2> QED
    BY <2>1, <2>2 DEF Waiting, GatherApply
<1>4. ASSUME NEW v \in Vertex, NEW i \in DOMAIN Visits(v),
             Differs(message'[SlotOf(Visits(v)[i][2], Visits(v)[i][1], v)],
                     old_message'[SlotOf(Visits(v)[i][2], Visits(v)[i][1], v)])
      PROVE  Waiting(v)'
  <2> DEFINE s == SlotOf(Visits(v)[i][2], Visits(v)[i][1], v)
  <2>1. s \in Slot
    BY VisitEnds, SlotType
  <2>2. s \notin Received(h)
    <3>1. SUFFICES ASSUME s \in Received(h) PROVE FALSE
      OBVIOUS
    <3>2. old_message'[s] = message[s] /\ message'[s] = message[s]
      BY <2>1, <3>1 DEF GatherApply
    <3> QED
      BY <1>4, <2>1, <3>2, MessageAssumption
  <2>3. v # h
    BY <2>2 DEF Received
  <2>4. old_message'[s] = old_message[s] /\ message'[s] = message[s]
    BY <2>1, <2>2 DEF GatherApply
  <2>5. Waiting(v)
    BY <1>4, <2>4 DEF ChangedIsQueued
  <2> QED
    BY <1>3, <2>3, <2>5
<1>5. ChangedIsQueued'
  BY <1>4 DEF ChangedIsQueued
<1>6. NobodyForgotten'
  BY <1>3 DEF NobodyForgotten, GatherApply
<1> QED
  BY <1>2, <1>5, <1>6

LEMMA ScatterEdgeIndInv ==
  ASSUME IndInv, ScatterEdge
  PROVE  IndInv'
<1> DEFINE h == Head(run)
           x == Visits(h)[visit]
           s == SlotOf(x[2], h, x[1])
<1> USE DEF IndInv, TypeOK
<1>1. PICK new \in Val : /\ message' = [message EXCEPT ![s] = new]
                         /\ run' = Push(x, new, old_message[s])
  BY DEF ScatterEdge
<1>2. /\ visit > 0 /\ visit \in DOMAIN Visits(h) /\ visit' = visit + 1
      /\ run # <<>> /\ h \in Vertex
      /\ UNCHANGED <<old_message, served>>
  BY DEF ScatterEdge
<1>3. x[1] \in Vertex /\ s \in Slot
  BY <1>2, VisitEnds, SlotType
<1>4. /\ run' \in Seq(Vertex) /\ run' # <<>> /\ Head(run') = h
      /\ Len(run') >= Len(run)
      /\ \A k \in DOMAIN run : k \in DOMAIN run' /\ run'[k] = run[k]
  BY <1>1, <1>2, <1>3 DEF Push
<1>5. TypeOK'
  <2>1. visit' \in Nat /\ visit' <= Len(Visits(Head(run'))) + 1
    BY <1>2, <1>4, VisitsType
  <2>2. message' \in [Slot -> Val]
    BY <1>1, <1>3
  <2> QED
    BY <1>2, <1>4, <2>1, <2>2
<1>6. \A v \in Vertex : Waiting(v) => Waiting(v)'
  BY <1>2, <1>4 DEF Waiting
<1>7. ASSUME NEW v \in Vertex, v = x[1], Differs(new, old_message[s])
      PROVE  Waiting(v)'
  <2>1. run' = Append(run, v)
    BY <1>1, <1>7 DEF Push
  <2>2. /\ Len(run) + 1 \in DOMAIN run' /\ run'[Len(run) + 1] = v
        /\ Len(run) + 1 > 1
    BY <1>2, <2>1
  <2> QED
    BY <2>2 DEF Waiting
<1>8. ASSUME NEW v \in Vertex, NEW i \in DOMAIN Visits(v),
             Differs(message'[SlotOf(Visits(v)[i][2], Visits(v)[i][1], v)],
                     old_message'[SlotOf(Visits(v)[i][2], Visits(v)[i][1], v)])
      PROVE  Waiting(v)'
  <2> DEFINE r == SlotOf(Visits(v)[i][2], Visits(v)[i][1], v)
  <2>1. CASE r = s
    <3>1. v = x[1]
      BY <1>2, <2>1, SlotReceiver
    <3>2. message'[r] = new /\ old_message'[r] = old_message[s]
      BY <1>1, <1>2, <1>3, <2>1
    <3> QED
      BY <1>7, <1>8, <3>1, <3>2
  <2>2. CASE r # s
    <3>1. message'[r] = message[r] /\ old_message'[r] = old_message[r]
      BY <1>1, <1>2, <1>3, <2>2
    <3> QED
      BY <1>6, <1>8, <3>1 DEF ChangedIsQueued
  <2> QED
    BY <2>1, <2>2
<1>9. ChangedIsQueued'
  BY <1>8 DEF ChangedIsQueued
<1>10. NobodyForgotten'
  BY <1>2, <1>6 DEF NobodyForgotten
<1> QED
  BY <1>5, <1>9, <1>10

LEMMA PopIndInv ==
  ASSUME IndInv, Pop
  PROVE  IndInv'
<1> USE DEF IndInv, TypeOK
<1>1. /\ visit > 0 /\ visit' = 0 /\ run # <<>> /\ run' = Tail(run)
      /\ UNCHANGED <<message, old_message, served>>
  BY DEF Pop, Popped
<1>2. TypeOK'
  BY <1>1
<1>3. ASSUME NEW v \in Vertex, Waiting(v)
      PROVE  Waiting(v)'
  <2>1. PICK k \in DOMAIN run : run[k] = v /\ k > 1
    BY <1>1, <1>3 DEF Waiting
  <2>2. k - 1 \in DOMAIN run' /\ run'[k - 1] = v
    BY <1>1, <2>1
  <2> QED
    BY <1>1, <2>2 DEF Waiting
<1> QED
  BY <1>1, <1>2, <1>3 DEF ChangedIsQueued, NobodyForgotten

THEOREM Invariance == Spec => []IndInv
<1>1. IndInv /\ [Next]_vars => IndInv'
  <2> SUFFICES ASSUME IndInv, [Next]_vars PROVE IndInv'
    OBVIOUS
  <2>1. CASE UNCHANGED vars
    BY <2>1 DEF vars, IndInv, TypeOK, ChangedIsQueued, NobodyForgotten, Waiting
  <2> QED
    BY <2>1, GatherApplyIndInv, ScatterEdgeIndInv, PopIndInv DEF Next, Ended
<1> QED
  BY <1>1, InitIndInv, PTL DEF Spec

\* A message that its receiver has not used and that differs from the one it
\* has used keeps the receiver in the queue (lbp/main.cpp:164-180, 221, 256).
THEOREM NoChangeForgotten == Spec => []ChangedIsQueued
<1>1. IndInv => ChangedIsQueued
  BY DEF IndInv
<1> QED
  BY <1>1, Invariance, PTL

\* When the loop ends every vertex has a belief (lbp/main.cpp:151, 183).
THEOREM EveryBeliefComputed == Spec => []NobodyForgotten
<1>1. IndInv => NobodyForgotten
  BY DEF IndInv
<1> QED
  BY <1>1, Invariance, PTL
=============================================================================
