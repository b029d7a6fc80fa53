-------------------------- MODULE SyncEngineProofs --------------------------
(***************************************************************************)
(* Proofs about the threaded engine, for every graph, vertex program,      *)
(* number of threads, word width and number of iterations: no two threads  *)
(* race, no gather is incomplete, and each step is a superstep of BSP or   *)
(* changes nothing of it; and what follows for the accumulators when run() *)
(* is back.                                                                *)
(*                                                                         *)
(* TypeOK is not inductive: that JoinScatters keeps iteration_counter in   *)
(* its range takes that run() entered the superstep below the bound        *)
(* (Control).  RaceFree is not either: that two workers hold different     *)
(* vertices takes that the blocks they claimed are disjoint and lie below  *)
(* the shared counter, and that a worker's word lies in its block          *)
(* (Ownership); that nobody applies while another gathers takes that every *)
(* worker runs the function of the current phase (Control again).          *)
(***************************************************************************)
EXTENDS SyncEngineRefinement, TLAPS

\* Where the client thread is, against the phase and the workers.
Control ==
    /\ mpc = "exec" => phase \in Phase /\ iteration_counter < MaxIterations
    /\ mpc \in {"idle", "top"} => \A t \in Thread : pc[t] = "off"
    /\ \A t \in Thread : pc[t] # "off" => fn[t] = phase

\* Worker t has a block.
Working(t) == pc[t] \in {"load", "next", "edges"}

Disjoint(t, u) == block[t] + W <= block[u] \/ block[u] + W <= block[t]

Ownership ==
    /\ \A t \in Thread : Working(t) => block[t] + W <= shared_vid_counter
    /\ \A t, u \in Thread :
          t # u /\ Working(t) /\ Working(u) => Disjoint(t, u)
    /\ \A t \in Thread : word[t] \subseteq ContainingWord(Vertex, block[t])
    /\ \A t \in Thread : pc[t] \notin {"next", "edges"} => word[t] = {}
    /\ \A t \in Thread : pc[t] = "edges" => vid[t] \in word[t]

IndInv == TypeOK /\ Control /\ Ownership

-----------------------------------------------------------------------------
(* The operators.                                                          *)

\* The far end of an edge is a vertex.
LEMMA OtherIsVertex == \A x \in Visit : Other(x) \in Vertex /\ Near(x) \in Vertex
  BY GraphAssumption DEF Visit, Other, Near

\* An accumulator nothing was added to is an accumulator.
LEMMA NoAccumType == NoAccum \in Accum
  BY DEF NoAccum, Accum, MaybeVal

\* What apply stores is a value, whatever accumulator it is given.
LEMMA ApplyType ==
  ASSUME NEW v \in Vertex, NEW old \in Val, NEW acc \in Accum
  PROVE  ApplyTo(v, old, acc) \in Val
<1>1. GatherVisits[v] \subseteq Visit
  BY DEF GatherVisits
<1>2. [x \in GatherVisits[v] |-> acc[x]] \in [GatherVisits[v] -> MaybeVal]
  BY <1>1 DEF Accum
<1> QED
  BY <1>2, ProgramAssumption DEF ApplyTo

-----------------------------------------------------------------------------
(* Type correctness.                                                       *)

LEMMA InitTypeOK == Init => TypeOK
  BY NoAccumType, ProgramAssumption, EngineAssumption
  DEF Init, TypeOK, Phase, WorkerPC, NoVertex

\* A worker's step keeps the types.
LEMMA WorkerTypeOK ==
  ASSUME TypeOK, NEW t \in Thread, Worker(t)
  PROVE  TypeOK'
<1> USE EngineAssumption, GraphAssumption
    DEF TypeOK, WorkerPC, Phase, shared, active, engine, main, At
<1>1. CASE Claim(t)
  BY <1>1 DEF Claim, Stride, NoBlock
<1>2. CASE LoadWord(t)
  BY <1>2 DEF LoadWord, ContainingWord, Continue, ActiveBits
<1>3. CASE StartVertex(t)
  <2>1. \A v \in Vertex : VisitsFor(fn[t], v) \subseteq Visit
    BY DEF VisitsFor, GatherVisits, ScatterVisits
  <2> QED
    BY <1>3, <2>1, NoAccumType DEF StartVertex
<1>4. CASE GatherEdge(t)
  <2>1. PICK x \in todo[t] :
           /\ accum' = [accum EXCEPT ![t][x] = vdata[Other(x)]]
           /\ todo' = [todo EXCEPT ![t] = @ \ {x}]
    BY <1>4 DEF GatherEdge
  <2>2. x \in Visit /\ vdata[Other(x)] \in MaybeVal
    BY OtherIsVertex DEF MaybeVal
  <2>3. accum' \in [Thread -> Accum]
    BY <2>1, <2>2 DEF Accum
  <2> QED
    BY <1>4, <2>1, <2>3 DEF GatherEdge
<1>5. CASE FinishGather(t)
  BY <1>5, NoAccumType DEF FinishGather, EndVertex
<1>6. CASE ApplyVertex(t)
  <2> DEFINE v   == vid[t]
             new == ApplyTo(v, vdata[v], Gathered(v))
  <2>1. vdata' \in [Vertex -> Val] /\ last_change' \in [Vertex -> BOOLEAN]
    <3>1. CASE v \in Vertex
      <4>1. new \in Val
        BY <3>1, ApplyType DEF Gathered
      <4>2. Significant(vdata[v], new) \in BOOLEAN
        BY <3>1, <4>1, ProgramAssumption
      <4> QED
        BY <1>6, <4>1, <4>2 DEF ApplyVertex, Remembers
    <3>2. CASE v \notin Vertex
      BY <1>6, <3>2 DEF ApplyVertex
    <3> QED
      BY <3>1, <3>2
  <2> QED
    BY <1>6, <2>1, NoAccumType DEF ApplyVertex, EndVertex
<1>7. CASE ScatterEdge(t)
  BY <1>7, OtherIsVertex DEF ScatterEdge
<1>8. CASE FinishScatter(t)
  BY <1>8, NoAccumType DEF FinishScatter, EndVertex
<1> QED
  BY <1>1, <1>2, <1>3, <1>4, <1>5, <1>6, <1>7, <1>8 DEF Worker

\* So does every other step, provided a superstep was entered below the bound.
LEMMA NextTypeOK ==
  ASSUME TypeOK, Control, [Next]_vars
  PROVE  TypeOK'
<1> USE EngineAssumption
    DEF TypeOK, WorkerPC, Phase, shared, active, engine, main, locals
<1>1. ASSUME NEW v \in Vertex, Signal(v)
      PROVE  TypeOK'
  BY <1>1 DEF Signal
<1>2. CASE SignalAll
  BY <1>2 DEF SignalAll
<1>3. CASE Run
  BY <1>3 DEF Run
<1>4. CASE BeginSuperstep
  BY <1>4 DEF BeginSuperstep, SwapBitsets, StartPhase
<1>5. CASE Quiesce
  BY <1>5 DEF Quiesce, SwapBitsets
<1>6. CASE MaxedOut
  BY <1>6 DEF MaxedOut
<1>7. ASSUME NEW t \in Thread, Spawn(t)
      PROVE  TypeOK'
  BY <1>7 DEF Spawn
<1>8. CASE JoinGathers
  BY <1>8 DEF JoinGathers, EndPhase, StartPhase
<1>9. CASE JoinApplys
  BY <1>9 DEF JoinApplys, EndPhase, StartPhase
<1>10. CASE JoinScatters
  <2>1. iteration_counter' \in 0 .. MaxIterations
    BY <1>10 DEF JoinScatters, EndPhase, Control
  <2> QED
    BY <1>10, <2>1 DEF JoinScatters, EndPhase
<1>11. CASE CreateFails
  BY <1>11 DEF CreateFails
<1>12. ASSUME NEW t \in Thread, Worker(t)
       PROVE  TypeOK'
  BY <1>12, WorkerTypeOK
<1>13. CASE UNCHANGED vars
  BY <1>13 DEF vars
<1> QED
  BY <1>1, <1>2, <1>3, <1>4, <1>5, <1>6, <1>7, <1>8, <1>9, <1>10, <1>11,
     <1>12, <1>13 DEF Next, RunLoop, Exited

-----------------------------------------------------------------------------
(* The client thread, the phase and the workers.                           *)

LEMMA InitControl == Init => Control
  BY DEF Init, Control

\* A worker's step leaves the client thread and the phase alone.
LEMMA WorkerFrame ==
  ASSUME TypeOK, NEW t \in Thread, Worker(t)
  PROVE  /\ mpc = "exec"
         /\ UNCHANGED <<mpc, phase, iteration_counter, fn,
                        current_active_superstep>>
         /\ pc[t] # "off"
         /\ pc' = [pc EXCEPT ![t] = pc'[t]]
<1> USE DEF TypeOK, At, main, active, engine, shared
<1>1. CASE Claim(t)
  BY <1>1 DEF Claim
<1>2. CASE LoadWord(t)
  BY <1>2 DEF LoadWord
<1>3. CASE StartVertex(t)
  BY <1>3 DEF StartVertex
<1>4. CASE GatherEdge(t)
  BY <1>4 DEF GatherEdge
<1>5. CASE FinishGather(t)
  BY <1>5 DEF FinishGather, EndVertex
<1>6. CASE ApplyVertex(t)
  BY <1>6 DEF ApplyVertex, EndVertex
<1>7. CASE ScatterEdge(t)
  BY <1>7 DEF ScatterEdge
<1>8. CASE FinishScatter(t)
  BY <1>8 DEF FinishScatter, EndVertex
<1> QED
  BY <1>1, <1>2, <1>3, <1>4, <1>5, <1>6, <1>7, <1>8 DEF Worker

LEMMA NextControl ==
  ASSUME TypeOK, Control, [Next]_vars
  PROVE  Control'
<1> USE EngineAssumption
    DEF TypeOK, Control, Phase, shared, active, engine, main, locals
<1>1. ASSUME NEW v \in Vertex, Signal(v)
      PROVE  Control'
  BY <1>1 DEF Signal
<1>2. CASE SignalAll
  BY <1>2 DEF SignalAll
<1>3. CASE Run
  BY <1>3 DEF Run
<1>4. CASE BeginSuperstep
  BY <1>4 DEF BeginSuperstep, SwapBitsets, StartPhase, IterationsLeft
<1>5. CASE Quiesce
  BY <1>5 DEF Quiesce, SwapBitsets
<1>6. CASE MaxedOut
  BY <1>6 DEF MaxedOut
<1>7. ASSUME NEW t \in Thread, Spawn(t)
      PROVE  Control'
  BY <1>7 DEF Spawn
<1>8. CASE JoinGathers
  BY <1>8 DEF JoinGathers, EndPhase, StartPhase
<1>9. CASE JoinApplys
  BY <1>9 DEF JoinApplys, EndPhase, StartPhase
<1>10. CASE JoinScatters
  BY <1>10 DEF JoinScatters, EndPhase
<1>11. CASE CreateFails
  BY <1>11 DEF CreateFails
<1>12. ASSUME NEW t \in Thread, Worker(t)
       PROVE  Control'
  BY <1>12, WorkerFrame
<1>13. CASE UNCHANGED vars
  BY <1>13 DEF vars
<1> QED
  BY <1>1, <1>2, <1>3, <1>4, <1>5, <1>6, <1>7, <1>8, <1>9, <1>10, <1>11,
     <1>12, <1>13 DEF Next, RunLoop, Exited

-----------------------------------------------------------------------------
(* Who owns which vertices.                                                *)

LEMMA InitOwnership == Init => Ownership
  BY DEF Init, Ownership, Working

\* While no worker has a block, the counter may take any value.
LEMMA IdleOwnership ==
  ASSUME TypeOK, Ownership, UNCHANGED block,
         \A t \in Thread : pc[t] \notin {"next", "edges"},
         \A t \in Thread : pc'[t] \in {"off", "claim"},
         UNCHANGED word
  PROVE  Ownership'
  BY DEF TypeOK, Ownership, Working

\* A step in which a worker keeps or gives up its block, and finishes bits.
LEMMA KeepOwnership ==
  ASSUME TypeOK, Ownership, NEW t \in Thread,
         UNCHANGED <<block, shared_vid_counter>>,
         \A u \in Thread \ {t} : /\ pc'[u] = pc[u]
                                 /\ word'[u] = word[u]
                                 /\ vid'[u] = vid[u],
         Working(t)' => Working(t),
         word'[t] \subseteq ContainingWord(Vertex, block[t]),
         pc'[t] \notin {"next", "edges"} => word'[t] = {},
         pc'[t] = "edges" => vid'[t] \in word'[t]
  PROVE  Ownership'
<1>1. \A u \in Thread : Working(u)' => Working(u)
  BY DEF Working
<1>2. \A u \in Thread : Working(u)' => block'[u] + W <= shared_vid_counter'
  BY <1>1 DEF Ownership
<1>3. \A u, w \in Thread :
         u # w /\ Working(u)' /\ Working(w)' => Disjoint(u, w)'
  BY <1>1 DEF Ownership, Disjoint
<1>4. \A u \in Thread : word'[u] \subseteq ContainingWord(Vertex, block'[u])
  BY DEF Ownership
<1>5. \A u \in Thread : pc'[u] \notin {"next", "edges"} => word'[u] = {}
  BY DEF Ownership
<1>6. \A u \in Thread : pc'[u] = "edges" => vid'[u] \in word'[u]
  BY DEF Ownership
<1> QED
  BY <1>2, <1>3, <1>4, <1>5, <1>6 DEF Ownership, ContainingWord

\* fetch_add hands out a block above all the others.
LEMMA ClaimOwnership ==
  ASSUME TypeOK, Ownership, NEW t \in Thread, Claim(t)
  PROVE  Ownership'
<1> USE EngineAssumption DEF TypeOK, At, Working, Stride
<1>1. /\ shared_vid_counter' = shared_vid_counter + W
      /\ UNCHANGED <<word, vid>>
      /\ word[t] = {}
  BY DEF Claim, Ownership
<1>2. CASE NoBlock(shared_vid_counter)
  BY <1>1, <1>2 DEF Claim, Ownership, Disjoint
<1>3. CASE ~NoBlock(shared_vid_counter)
  <2>1. /\ block' = [block EXCEPT ![t] = shared_vid_counter]
        /\ pc' = [pc EXCEPT ![t] = "load"]
    BY <1>3 DEF Claim
  <2>2. \A u \in Thread : Working(u)' => block'[u] + W <= shared_vid_counter'
    BY <1>1, <2>1 DEF Ownership
  <2>3. \A u, w \in Thread :
           u # w /\ Working(u)' /\ Working(w)' => Disjoint(u, w)'
    BY <1>1, <2>1 DEF Ownership, Disjoint
  <2>4. \A u \in Thread : word'[u] \subseteq ContainingWord(Vertex, block'[u])
    BY <1>1, <2>1 DEF Ownership
  <2> QED
    BY <1>1, <2>1, <2>2, <2>3, <2>4 DEF Ownership, ContainingWord
<1> QED
  BY <1>2, <1>3

LEMMA WorkerOwnership ==
  ASSUME TypeOK, Ownership, NEW t \in Thread, Worker(t)
  PROVE  Ownership'
<1> USE DEF TypeOK, At, Working, shared, engine, active
<1>1. CASE Claim(t)
  BY <1>1, ClaimOwnership
<1>2. CASE LoadWord(t)
  <2>1. word'[t] \subseteq ContainingWord(Vertex, block[t])
    BY <1>2 DEF LoadWord, ContainingWord, ActiveBits
  <2> QED
    BY <1>2, <2>1, KeepOwnership DEF LoadWord, Continue
<1>3. CASE StartVertex(t)
  BY <1>3, KeepOwnership DEF StartVertex, Ownership
<1>4. CASE GatherEdge(t)
  BY <1>4, KeepOwnership DEF GatherEdge, Ownership
<1>5. CASE FinishGather(t)
  BY <1>5, KeepOwnership DEF FinishGather, EndVertex, Ownership
<1>6. CASE ApplyVertex(t)
  BY <1>6, KeepOwnership DEF ApplyVertex, EndVertex, Ownership
<1>7. CASE ScatterEdge(t)
  BY <1>7, KeepOwnership DEF ScatterEdge, Ownership
<1>8. CASE FinishScatter(t)
  BY <1>8, KeepOwnership DEF FinishScatter, EndVertex, Ownership
<1> QED
  BY <1>1, <1>2, <1>3, <1>4, <1>5, <1>6, <1>7, <1>8 DEF Worker

\* The client thread starts and ends a phase when no worker has a block.
LEMMA NextOwnership ==
  ASSUME TypeOK, Control, Ownership, [Next]_vars
  PROVE  Ownership'
<1> USE DEF TypeOK, Working, shared, active, engine, main, locals
<1>1. ASSUME NEW v \in Vertex, Signal(v)
      PROVE  Ownership'
  BY <1>1 DEF Signal, Ownership, Disjoint
<1>2. CASE SignalAll
  BY <1>2 DEF SignalAll, Ownership, Disjoint
<1>3. CASE Run
  BY <1>3 DEF Run, Ownership, Disjoint
<1>4. CASE BeginSuperstep
  BY <1>4, IdleOwnership DEF BeginSuperstep, StartPhase, Control
<1>5. CASE Quiesce
  BY <1>5 DEF Quiesce, Ownership, Disjoint
<1>6. CASE MaxedOut
  BY <1>6 DEF MaxedOut, Ownership, Disjoint
<1>7. ASSUME NEW t \in Thread, Spawn(t)
      PROVE  Ownership'
  BY <1>7, KeepOwnership DEF Spawn, Ownership
<1>8. CASE JoinGathers
  BY <1>8, IdleOwnership DEF JoinGathers, EndPhase, AllJoined
<1>9. CASE JoinApplys
  BY <1>9, IdleOwnership DEF JoinApplys, EndPhase, AllJoined
<1>10. CASE JoinScatters
  BY <1>10, IdleOwnership DEF JoinScatters, EndPhase, AllJoined
<1>11. CASE CreateFails
  BY <1>11 DEF CreateFails, Ownership, Disjoint
<1>12. ASSUME NEW t \in Thread, Worker(t)
       PROVE  Ownership'
  BY <1>12, WorkerOwnership
<1>13. CASE UNCHANGED vars
  BY <1>13 DEF vars, Ownership, Disjoint
<1> QED
  BY <1>1, <1>2, <1>3, <1>4, <1>5, <1>6, <1>7, <1>8, <1>9, <1>10, <1>11,
     <1>12, <1>13 DEF Next, RunLoop, Exited

-----------------------------------------------------------------------------
(* The theorems.                                                           *)

\* The inductive invariant holds in every behaviour of the engine.
THEOREM Invariance == Spec => []IndInv
<1>1. Init => IndInv
  BY InitTypeOK, InitControl, InitOwnership DEF IndInv
<1>2. IndInv /\ [Next]_vars => IndInv'
  BY NextTypeOK, NextControl, NextOwnership DEF IndInv
<1> QED
  BY <1>1, <1>2, PTL DEF Spec

\* Every variable of the engine keeps its type: the counters stay in range,
\* and no worker is ever at something that is not a vertex or an edge.
THEOREM TypeCorrect == Spec => []TypeOK
<1>1. IndInv => TypeOK
  BY DEF IndInv
<1> QED
  BY <1>1, Invariance, PTL

\* The engine has no data race on vertex data, accumulators and vertex
\* programs, for any number of threads and any word width: two workers are
\* never at the same vertex (sync.cpp:131, 178, 202), and nobody gathers or
\* scatters while another applies (sync.cpp:87-90).
THEOREM RaceFreedom == Spec => []RaceFree
<1>1. IndInv => RaceFree
  <2> SUFFICES ASSUME IndInv, NEW t \in Thread, NEW u \in Thread,
                      t # u, pc[t] = "edges", pc[u] = "edges"
               PROVE  vid[t] # vid[u] /\ (fn[t] = "apply" => fn[u] = "apply")
    BY DEF RaceFree
  <2>1. /\ vid[t] \in ContainingWord(Vertex, block[t])
        /\ vid[u] \in ContainingWord(Vertex, block[u])
    BY DEF IndInv, Ownership
  <2>2. Disjoint(t, u)
    BY DEF IndInv, Ownership, Working
  <2>3. vid[t] # vid[u]
    BY <2>1, <2>2, EngineAssumption
    DEF IndInv, TypeOK, ContainingWord, Disjoint, Vertex
  <2>4. fn[t] = fn[u]
    BY DEF IndInv, Control
  <2> QED
    BY <2>3, <2>4
<1> QED
  BY <1>1, Invariance, PTL

-----------------------------------------------------------------------------
(* Complete gathers.  Two facts are added to the invariant: the            *)
(* accumulator a worker builds holds the data of the edges it has gone     *)
(* over (PartlyGathered), and GatherComplete itself, in which Pending says *)
(* of every active vertex who is still to gather it.                       *)

\* What a worker has added up when some edges are left.
PartOf(v, left, data) ==
    [x \in Visit |-> IF x \in GatherVisits[v] \ left THEN data[Other(x)]
                                                     ELSE NoValue]

\* Worker t is gathering; the edges it has left and what it has added up.
Gathering(t) == pc[t] = "edges" /\ fn[t] = "gather"
PartlyAt(t)  == /\ todo[t] \subseteq GatherVisits[vid[t]]
                /\ accum[t] = PartOf(vid[t], todo[t], vdata)

PartlyGathered == \A t \in Thread : Gathering(t) => PartlyAt(t)

GatherInv == PartlyGathered /\ GatherComplete

-----------------------------------------------------------------------------
(* The accumulator of a worker.                                            *)

\* No edge, and every edge.
LEMMA PartOfEnds ==
  ASSUME NEW v, NEW data
  PROVE  /\ PartOf(v, GatherVisits[v], data) = NoAccum
         /\ PartOf(v, {}, data) = GatherOf(v, data)
  BY DEF PartOf, NoAccum, GatherOf

\* A worker changes its own locals only.
LEMMA WorkerLocals ==
  ASSUME TypeOK, NEW t \in Thread, Worker(t), NEW u \in Thread, u # t
  PROVE  /\ pc'[u] = pc[u] /\ fn'[u] = fn[u] /\ block'[u] = block[u]
         /\ word'[u] = word[u] /\ vid'[u] = vid[u]
         /\ todo'[u] = todo[u] /\ accum'[u] = accum[u]
<1> USE DEF TypeOK
<1>1. CASE Claim(t)
  BY <1>1 DEF Claim
<1>2. CASE LoadWord(t)
  BY <1>2 DEF LoadWord
<1>3. CASE StartVertex(t)
  BY <1>3 DEF StartVertex
<1>4. CASE GatherEdge(t)
  BY <1>4 DEF GatherEdge
<1>5. CASE FinishGather(t)
  BY <1>5 DEF FinishGather, EndVertex
<1>6. CASE ApplyVertex(t)
  BY <1>6 DEF ApplyVertex, EndVertex
<1>7. CASE ScatterEdge(t)
  BY <1>7 DEF ScatterEdge
<1>8. CASE FinishScatter(t)
  BY <1>8 DEF FinishScatter, EndVertex
<1> QED
  BY <1>1, <1>2, <1>3, <1>4, <1>5, <1>6, <1>7, <1>8 DEF Worker

\* In the gather phase a worker takes no step of the other two functions, and
\* the data of the vertices stands still.
LEMMA GatherSteps ==
  ASSUME IndInv, NEW t \in Thread, Worker(t), phase = "gather"
  PROVE  /\ fn[t] = "gather"
         /\ UNCHANGED <<vdata, phase, current_active_superstep, fn>>
         /\ \/ Claim(t) \/ LoadWord(t) \/ StartVertex(t)
            \/ GatherEdge(t) \/ FinishGather(t)
<1>1. fn[t] = "gather" /\ UNCHANGED <<phase, current_active_superstep, fn>>
  BY WorkerFrame DEF IndInv, Control
<1>2. \/ Claim(t) \/ LoadWord(t) \/ StartVertex(t)
      \/ GatherEdge(t) \/ FinishGather(t)
  BY <1>1 DEF Worker, ApplyVertex, ScatterEdge, FinishScatter
<1> QED
  BY <1>1, <1>2 DEF Claim, LoadWord, StartVertex, GatherEdge, FinishGather, shared

LEMMA WorkerPartlyGathered ==
  ASSUME IndInv, PartlyGathered, NEW t \in Thread, Worker(t)
  PROVE  PartlyGathered'
<1> SUFFICES ASSUME NEW u \in Thread, Gathering(u)'
             PROVE  PartlyAt(u)'
  BY DEF PartlyGathered
<1>1. phase = "gather"
  BY WorkerFrame DEF IndInv, Control, TypeOK, Gathering
<1>2. /\ UNCHANGED <<vdata, fn>>
      /\ fn[t] = "gather"
      /\ \/ Claim(t) \/ LoadWord(t) \/ StartVertex(t)
         \/ GatherEdge(t) \/ FinishGather(t)
  BY <1>1, GatherSteps
<1>3. CASE u # t
  BY <1>2, <1>3, WorkerLocals DEF IndInv, PartlyGathered, PartlyAt, Gathering
<1>4. CASE u = t
  <2> USE DEF IndInv, TypeOK, Gathering, At, PartlyAt
  <2>1. CASE Claim(t)
    BY <1>4, <2>1 DEF Claim
  <2>2. CASE LoadWord(t)
    BY <1>4, <2>2 DEF LoadWord, Continue
  <2>3. CASE StartVertex(t)
    <3>1. todo'[t] = GatherVisits[vid'[t]]
      BY <1>2, <2>3 DEF StartVertex, VisitsFor
    <3>2. accum'[t] = NoAccum
      BY <2>3 DEF StartVertex
    <3> QED
      BY <1>4, <3>1, <3>2, PartOfEnds
  <2>4. CASE GatherEdge(t)
    <3>1. PICK x \in todo[t] :
             /\ accum' = [accum EXCEPT ![t][x] = vdata[Other(x)]]
             /\ todo' = [todo EXCEPT ![t] = @ \ {x}]
      BY <2>4 DEF GatherEdge
    <3>2. /\ todo[t] \subseteq GatherVisits[vid[t]]
          /\ accum[t] = PartOf(vid[t], todo[t], vdata)
          /\ vid'[t] = vid[t]
      BY <1>2, <2>4 DEF GatherEdge, PartlyGathered
    <3>3. accum'[t] = [PartOf(vid[t], todo[t], vdata) EXCEPT ![x] = vdata[Other(x)]]
      BY <3>1, <3>2
    <3>4. x \in Visit /\ x \in GatherVisits[vid[t]]
      BY <3>1, <3>2
    <3>5. accum'[t] = PartOf(vid[t], todo[t] \ {x}, vdata)
      <4>1. [PartOf(vid[t], todo[t], vdata) EXCEPT ![x] = vdata[Other(x)]]
               = PartOf(vid[t], todo[t] \ {x}, vdata)
        BY <3>4 DEF PartOf
      <4> QED
        BY <3>3, <4>1
    <3>6. todo'[t] = todo[t] \ {x}
      BY <3>1
    <3> QED
      BY <1>2, <1>4, <3>2, <3>5, <3>6
  <2>5. CASE FinishGather(t)
    BY <1>4, <2>5 DEF FinishGather, EndVertex
  <2> QED
    BY <1>2, <2>1, <2>2, <2>3, <2>4, <2>5
<1> QED
  BY <1>3, <1>4

-----------------------------------------------------------------------------
(* Nobody is skipped.                                                      *)

\* The step of worker t is its last one at vertex v in the phase.
Ends(t, v) == vid[t] = v /\ (FinishGather(t) \/ ApplyVertex(t) \/ FinishScatter(t))

\* What a step that ends no vertex does to the claims.
LEMMA PlainSteps ==
  ASSUME IndInv, NEW t \in Thread, Worker(t), ~Claim(t), ~LoadWord(t),
         ~FinishGather(t), ~ApplyVertex(t), ~FinishScatter(t)
  PROVE  /\ UNCHANGED <<shared_vid_counter, block, word>>
         /\ pc[t] # "load" /\ pc'[t] # "load"
  BY DEF Worker, StartVertex, GatherEdge, ScatterEdge, engine, At, IndInv, TypeOK

\* A pending vertex stays pending in every phase until its last step.
LEMMA KeepsPending ==
  ASSUME IndInv, NEW t \in Thread, Worker(t), NEW v \in Vertex, Pending(v),
         ~Ends(t, v)
  PROVE  Pending(v)'
<1> USE DEF IndInv, TypeOK, At
<1>1. v \in current_active_superstep /\ UNCHANGED current_active_superstep
  BY WorkerFrame DEF Pending
<1>2. ASSUME NEW u \in Thread, u # t, \/ v \in word[u]
                                      \/ /\ pc[u] = "load"
                                         /\ v \in ContainingWord(Vertex, block[u])
      PROVE  Pending(v)'
  BY <1>1, <1>2, WorkerLocals DEF Pending
<1>3. CASE v >= shared_vid_counter
  <2>1. CASE Claim(t)
    <3>1. ~NoBlock(shared_vid_counter)
      BY <1>3, GraphAssumption DEF NoBlock, Vertex
    <3>2. /\ shared_vid_counter' = shared_vid_counter + W
          /\ pc'[t] = "load" /\ block'[t] = shared_vid_counter
      BY <2>1, <3>1 DEF Claim, Stride
    <3>3. CASE v < shared_vid_counter + W
      BY <1>1, <1>3, <3>2, <3>3 DEF Pending, ContainingWord
    <3>4. CASE v >= shared_vid_counter + W
      BY <1>1, <3>2, <3>4 DEF Pending
    <3> QED
      BY <3>3, <3>4, EngineAssumption, GraphAssumption DEF Vertex
  <2>2. CASE ~Claim(t)
    <3>1. UNCHANGED shared_vid_counter
      BY <2>2 DEF Worker, LoadWord, StartVertex, GatherEdge, FinishGather,
                  ApplyVertex, ScatterEdge, FinishScatter, engine
    <3> QED
      BY <1>1, <1>3, <3>1 DEF Pending
  <2> QED
    BY <2>1, <2>2
<1>4. CASE pc[t] = "load" /\ v \in ContainingWord(Vertex, block[t])
  <2>1. LoadWord(t)
    BY <1>4 DEF Worker, Claim, StartVertex, GatherEdge, FinishGather,
                ApplyVertex, ScatterEdge, FinishScatter
  <2>2. v \in word'[t]
    BY <1>1, <1>4, <2>1 DEF LoadWord, ContainingWord, ActiveBits
  <2> QED
    BY <1>1, <2>2 DEF Pending
<1>5. CASE v \in word[t]
  <2>1. pc[t] \in {"next", "edges"}
    BY <1>5 DEF Ownership
  <2>2. v \in word'[t]
    <3>1. CASE FinishGather(t) \/ ApplyVertex(t) \/ FinishScatter(t)
      BY <1>5, <3>1 DEF Ends, FinishGather, ApplyVertex, FinishScatter, EndVertex
    <3>2. CASE ~(FinishGather(t) \/ ApplyVertex(t) \/ FinishScatter(t))
      <4>1. ~Claim(t) /\ ~LoadWord(t)
        BY <2>1 DEF Claim, LoadWord
      <4> QED
        BY <1>5, <3>2, <4>1, PlainSteps
    <3> QED
      BY <3>1, <3>2
  <2> QED
    BY <1>1, <2>2 DEF Pending
<1> QED
  BY <1>2, <1>3, <1>4, <1>5 DEF Pending

LEMMA WorkerGatherComplete ==
  ASSUME IndInv, GatherInv, NEW t \in Thread, Worker(t)
  PROVE  GatherComplete'
<1> USE DEF IndInv, TypeOK, At
<1> SUFFICES ASSUME phase' = "gather", NEW v \in current_active_superstep',
                    ~Pending(v)'
             PROVE  gather_accum'[v] = GatherOf(v, vdata')
  BY DEF GatherComplete, GatherOf
<1>1. phase = "gather"
  BY WorkerFrame
<1>2. /\ v \in current_active_superstep /\ v \in Vertex
      /\ fn[t] = "gather"
      /\ UNCHANGED vdata
      /\ \/ Claim(t) \/ LoadWord(t) \/ StartVertex(t)
         \/ GatherEdge(t) \/ FinishGather(t)
  BY <1>1, GatherSteps
<1>3. CASE FinishGather(t) /\ v = vid[t]
  <2>1. accum[t] = PartOf(v, {}, vdata)
    BY <1>3 DEF FinishGather, GatherInv, PartlyGathered, PartlyAt, Gathering
  <2>2. gather_accum'[v] = accum[t]
    BY <1>2, <1>3 DEF FinishGather
  <2> QED
    BY <1>2, <2>1, <2>2, PartOfEnds
<1>4. CASE ~(FinishGather(t) /\ v = vid[t])
  <2>1. ~Ends(t, v)
    BY <1>2, <1>4 DEF Ends, ApplyVertex, FinishScatter
  <2>2. ~Pending(v)
    BY <1>2, <2>1, KeepsPending
  <2>3. gather_accum[v] = GatherOf(v, vdata)
    BY <1>1, <1>2, <2>2 DEF GatherInv, GatherComplete
  <2>4. gather_accum'[v] = gather_accum[v]
    BY <1>2, <1>4
    DEF Claim, LoadWord, StartVertex, GatherEdge, FinishGather, shared
  <2> QED
    BY <1>2, <2>3, <2>4
<1> QED
  BY <1>3, <1>4

-----------------------------------------------------------------------------
(* The other steps.                                                        *)

\* Steps that leave all of this alone.
LEMMA SameGatherInv ==
  ASSUME GatherInv,
         UNCHANGED <<vdata, gather_accum, current_active_superstep,
                     shared_vid_counter, phase, pc, fn, block, word, vid,
                     todo, accum>>
  PROVE  GatherInv'
  BY DEF GatherInv, PartlyGathered, PartlyAt, Gathering, GatherComplete, Pending

LEMMA NextGatherInv ==
  ASSUME IndInv, GatherInv, [Next]_vars
  PROVE  GatherInv'
<1> USE DEF shared, active, engine, main, locals
<1>1. CASE \/ \E v \in Vertex : Signal(v)
           \/ SignalAll \/ Run \/ MaxedOut \/ CreateFails \/ UNCHANGED vars
  BY <1>1, SameGatherInv DEF Signal, SignalAll, Run, MaxedOut, CreateFails, vars
<1>2. CASE Quiesce
  BY <1>2 DEF Quiesce, SwapBitsets, GatherInv, PartlyGathered, PartlyAt,
              Gathering, GatherComplete
<1>3. CASE BeginSuperstep
  <2>1. \A v \in current_active_superstep' : v \in Vertex /\ v >= shared_vid_counter'
    BY <1>3, GraphAssumption
    DEF BeginSuperstep, SwapBitsets, StartPhase, IndInv, TypeOK, Vertex
  <2>2. GatherComplete'
    BY <2>1 DEF GatherComplete, Pending
  <2>3. PartlyGathered'
    BY <1>3 DEF BeginSuperstep, GatherInv, PartlyGathered, PartlyAt, Gathering
  <2> QED
    BY <2>2, <2>3 DEF GatherInv
<1>4. ASSUME NEW t \in Thread, Spawn(t)
      PROVE  GatherInv'
  <2>1. \A v : Pending(v)' <=> Pending(v)
    BY <1>4 DEF Spawn, Pending, IndInv, TypeOK
  <2>2. GatherComplete'
    BY <1>4, <2>1 DEF Spawn, GatherInv, GatherComplete
  <2>3. PartlyGathered'
    BY <1>4 DEF Spawn, IndInv, TypeOK, GatherInv, PartlyGathered, PartlyAt, Gathering
  <2> QED
    BY <2>2, <2>3 DEF GatherInv
<1>5. CASE JoinGathers \/ JoinApplys \/ JoinScatters
  <2>1. \A t \in Thread : pc'[t] = "off"
    BY <1>5 DEF JoinGathers, JoinApplys, JoinScatters, EndPhase
  <2>2. phase' # "gather"
    BY <1>5 DEF JoinGathers, JoinApplys, JoinScatters, EndPhase, StartPhase
  <2> QED
    BY <2>1, <2>2 DEF GatherInv, GatherComplete, PartlyGathered, Gathering
<1>6. ASSUME NEW t \in Thread, Worker(t)
      PROVE  GatherInv'
  BY <1>6, WorkerPartlyGathered, WorkerGatherComplete DEF GatherInv
<1> QED
  BY <1>1, <1>2, <1>3, <1>4, <1>5, <1>6 DEF Next, RunLoop, Exited

LEMMA InitGatherInv == Init => GatherInv
  BY DEF Init, GatherInv, PartlyGathered, Gathering, GatherComplete

\* When the gather phase is over for a vertex, its accumulator holds the data
\* of every neighbour it asked for (sync.cpp:125-171): the claiming of blocks
\* and of bits skips nobody, for any number of threads and any word width.
THEOREM NobodySkipped == Spec => []GatherComplete
<1>1. Init => IndInv /\ GatherInv
  BY InitTypeOK, InitControl, InitOwnership, InitGatherInv DEF IndInv
<1>2. IndInv /\ GatherInv /\ [Next]_vars => (IndInv /\ GatherInv)'
  BY NextTypeOK, NextControl, NextOwnership, NextGatherInv DEF IndInv
<1>3. GatherInv => GatherComplete
  BY DEF GatherInv
<1> QED
  BY <1>1, <1>2, <1>3, PTL DEF Spec

-----------------------------------------------------------------------------
(* The refinement of BSP.  Added to the invariants so far are where the    *)
(* client thread may be between supersteps and that a worker leaves only   *)
(* when every block was handed out (Boundary), so that a join finds no     *)
(* vertex pending; and what scatter has signalled so far (ScatterInv), so  *)
(* that the last join finds in next_active_superstep exactly the vertices  *)
(* of the next superstep.                                                  *)

\* Between supersteps no phase is set; who has left found no block; and a
\* word holds active vertices.
Boundary ==
    /\ mpc \in {"idle", "top"} => phase = "none"
    /\ \A t \in Thread : pc[t] = "exited" => shared_vid_counter >= NVerts
    /\ \A t \in Thread : word[t] \subseteq current_active_superstep

\* Worker t is scattering.
Scattering(t) == pc[t] = "edges" /\ fn[t] = "scatter"

\* The signal of v along x is still to come.
StillTo(v, x) ==
    /\ Pending(v)
    /\ \A t \in Thread : Scattering(t) /\ vid[t] = v => x \in todo[t]

\* Every signal was sent by an active vertex that changed, or by the client.
SignalsSent ==
    phase = "scatter" =>
        \A u \in next_active_superstep :
            \E v \in current_active_superstep :
                last_change[v] /\ \E x \in ScatterVisits[v] : Other(x) = u

\* A vertex that changed has sent, or will send, each of its signals.
SignalsToCome ==
    phase = "scatter" =>
        \A v \in current_active_superstep :
            last_change[v] =>
                \A x \in ScatterVisits[v] :
                    Other(x) \in next_active_superstep \/ StillTo(v, x)

ScatterInv ==
    /\ phase \in {"gather", "apply"} => next_active_superstep = {}
    /\ \A t \in Thread : Scattering(t) => todo[t] \subseteq ScatterVisits[vid[t]]
    /\ SignalsSent
    /\ SignalsToCome

EngineInv == IndInv /\ GatherInv /\ Boundary /\ ScatterInv

-----------------------------------------------------------------------------
(* Who is pending.                                                         *)

\* Nobody becomes pending while the workers run.
LEMMA NeverPendingAgain ==
  ASSUME IndInv, NEW t \in Thread, Worker(t), NEW v \in Vertex, Pending(v)'
  PROVE  Pending(v)
<1> USE DEF IndInv, TypeOK, At
<1>1. v \in current_active_superstep /\ UNCHANGED current_active_superstep
  BY WorkerFrame DEF Pending
<1>2. shared_vid_counter' \in Nat /\ shared_vid_counter' >= shared_vid_counter
  BY EngineAssumption
  DEF Worker, Claim, Stride, LoadWord, StartVertex, GatherEdge, FinishGather,
      ApplyVertex, ScatterEdge, FinishScatter, engine
<1>3. CASE v >= shared_vid_counter'
  BY <1>1, <1>2, <1>3, GraphAssumption DEF Pending, Vertex
<1>4. ASSUME NEW u \in Thread, u # t, \/ v \in word'[u]
                                      \/ /\ pc'[u] = "load"
                                         /\ v \in ContainingWord(Vertex, block'[u])
      PROVE  Pending(v)
  BY <1>1, <1>4, WorkerLocals DEF Pending
<1>5. CASE pc'[t] = "load" /\ v \in ContainingWord(Vertex, block'[t])
  <2>1. Claim(t) /\ block'[t] = shared_vid_counter
    BY <1>5 DEF Worker, Claim, LoadWord, Continue, StartVertex, GatherEdge,
                FinishGather, ApplyVertex, ScatterEdge, FinishScatter, EndVertex
  <2> QED
    BY <1>1, <1>5, <2>1 DEF Pending, ContainingWord
<1>6. CASE v \in word'[t]
  <2>1. CASE LoadWord(t)
    BY <1>1, <1>6, <2>1 DEF Pending, LoadWord, ContainingWord, ActiveBits
  <2>2. CASE ~LoadWord(t)
    <3>1. word'[t] \subseteq word[t]
      BY <2>2 DEF Worker, Claim, StartVertex, GatherEdge, FinishGather,
                  ApplyVertex, ScatterEdge, FinishScatter, EndVertex
    <3> QED
      BY <1>1, <1>6, <3>1 DEF Pending
  <2> QED
    BY <2>1, <2>2
<1> QED
  BY <1>1, <1>3, <1>4, <1>5, <1>6 DEF Pending

\* A vertex a worker is at is pending, and is at no other worker.
LEMMA AtVertex ==
  ASSUME IndInv, Boundary, NEW t \in Thread, pc[t] = "edges"
  PROVE  /\ vid[t] \in Vertex /\ vid[t] \in current_active_superstep
         /\ Pending(vid[t])
         /\ vid[t] < shared_vid_counter
         /\ \A u \in Thread : u # t =>
               /\ vid[t] \notin word[u]
               /\ pc[u] = "load" => vid[t] \notin ContainingWord(Vertex, block[u])
<1> USE DEF IndInv, TypeOK
<1>1. vid[t] \in word[t] /\ vid[t] \in current_active_superstep
  BY DEF Ownership, Boundary
<1>2. /\ vid[t] \in ContainingWord(Vertex, block[t])
      /\ block[t] + W <= shared_vid_counter
  BY <1>1 DEF Ownership, Working
<1>3. vid[t] < shared_vid_counter
  BY <1>2, EngineAssumption DEF ContainingWord, Vertex
<1>4. ASSUME NEW u \in Thread, u # t
      PROVE  /\ vid[t] \notin word[u]
             /\ pc[u] = "load" => vid[t] \notin ContainingWord(Vertex, block[u])
  <2>1. CASE Working(u)
    <3>1. Disjoint(t, u)
      BY <1>4, <2>1 DEF Ownership, Working
    <3>2. vid[t] \notin ContainingWord(Vertex, block[u])
      BY <1>2, <3>1, EngineAssumption DEF ContainingWord, Disjoint, Vertex
    <3> QED
      BY <3>2 DEF Ownership
  <2>2. CASE ~Working(u)
    BY <2>2 DEF Working, Ownership
  <2> QED
    BY <2>1, <2>2
<1> QED
  BY <1>1, <1>3, <1>4 DEF Pending

\* After its last step a vertex is not pending any more.
LEMMA EndsPending ==
  ASSUME IndInv, Boundary, NEW t \in Thread, Worker(t), NEW v, Ends(t, v)
  PROVE  Pending(v) /\ ~Pending(v)'
<1> USE DEF IndInv, TypeOK, At
<1>1. pc[t] = "edges" /\ v = vid[t]
  BY DEF Ends, FinishGather, ApplyVertex, FinishScatter
<1>2. /\ UNCHANGED <<shared_vid_counter, block>>
      /\ word'[t] = word[t] \ {v}
      /\ pc'[t] # "load"
  BY <1>1 DEF Ends, FinishGather, ApplyVertex, FinishScatter, EndVertex, engine
<1>3. \A u \in Thread : u # t => word'[u] = word[u] /\ pc'[u] = pc[u]
  BY WorkerLocals
<1>4. /\ Pending(v) /\ v \in Vertex /\ v < shared_vid_counter
      /\ \A u \in Thread : u # t =>
            /\ v \notin word[u]
            /\ pc[u] = "load" => v \notin ContainingWord(Vertex, block[u])
  BY <1>1, AtVertex
<1>5. ~(v >= shared_vid_counter')
  BY <1>2, <1>4, GraphAssumption DEF Vertex
<1>6. ASSUME NEW u \in Thread
      PROVE  /\ v \notin word'[u]
             /\ pc'[u] = "load" => v \notin ContainingWord(Vertex, block'[u])
  BY <1>2, <1>3, <1>4
<1> QED
  BY <1>4, <1>5, <1>6 DEF Pending

-----------------------------------------------------------------------------
(* Between the phases.                                                     *)

LEMMA InitBoundary == Init => Boundary
  BY DEF Init, Boundary

LEMMA NextBoundary ==
  ASSUME IndInv, Boundary, [Next]_vars
  PROVE  Boundary'
<1> USE DEF IndInv, TypeOK, shared, active, engine, main, locals
<1>1. CASE \/ \E v \in Vertex : Signal(v)
           \/ SignalAll \/ Run \/ MaxedOut \/ CreateFails \/ UNCHANGED vars
  BY <1>1 DEF Signal, SignalAll, Run, MaxedOut, CreateFails, vars, Boundary
<1>2. CASE BeginSuperstep \/ Quiesce
  <2>1. \A t \in Thread : pc[t] = "off" /\ word[t] = {}
    BY <1>2 DEF BeginSuperstep, Quiesce, Control, Ownership
  <2> QED
    BY <1>2, <2>1 DEF BeginSuperstep, Quiesce, StartPhase, Boundary
<1>3. ASSUME NEW t \in Thread, Spawn(t)
      PROVE  Boundary'
  BY <1>3 DEF Spawn, Boundary
<1>4. CASE JoinGathers \/ JoinApplys \/ JoinScatters
  BY <1>4 DEF JoinGathers, JoinApplys, JoinScatters, EndPhase, StartPhase, Boundary
<1>5. ASSUME NEW t \in Thread, Worker(t)
      PROVE  Boundary'
  <2>1. /\ mpc = "exec" /\ UNCHANGED <<mpc, phase, current_active_superstep>>
        /\ \A u \in Thread : u # t => pc'[u] = pc[u] /\ word'[u] = word[u]
    BY <1>5, WorkerFrame, WorkerLocals
  <2>2. CASE Claim(t)
    <3>1. shared_vid_counter' = shared_vid_counter + W /\ UNCHANGED word
      BY <2>2 DEF Claim, Stride
    <3>2. pc'[t] = "exited" => shared_vid_counter >= NVerts
      BY <2>2 DEF Claim, NoBlock
    <3> QED
      BY <2>1, <3>1, <3>2, EngineAssumption, GraphAssumption DEF Boundary
  <2>3. CASE ~Claim(t)
    <3>1. pc'[t] # "exited" /\ UNCHANGED shared_vid_counter
      BY <1>5, <2>3
      DEF Worker, LoadWord, Continue, StartVertex, GatherEdge, FinishGather,
          ApplyVertex, ScatterEdge, FinishScatter, EndVertex, At
    <3>2. word'[t] \subseteq current_active_superstep
      BY <1>5, <2>3
      DEF Worker, LoadWord, ContainingWord, ActiveBits, StartVertex, GatherEdge,
          FinishGather, ApplyVertex, ScatterEdge, FinishScatter, EndVertex, Boundary
    <3> QED
      BY <2>1, <3>1, <3>2 DEF Boundary
  <2> QED
    BY <2>2, <2>3
<1> QED
  BY <1>1, <1>2, <1>3, <1>4, <1>5 DEF Next, RunLoop, Exited

\* When all the workers have left, no vertex is pending.
LEMMA JoinedNonePending ==
  ASSUME IndInv, Boundary, AllJoined, NEW v
  PROVE  ~Pending(v)
<1>1. shared_vid_counter >= NVerts
  BY EngineAssumption DEF Boundary, AllJoined, Thread
<1>2. \A t \in Thread : pc[t] = "exited" /\ word[t] = {}
  BY DEF AllJoined, IndInv, Ownership
<1>3. v \in Vertex => ~(v >= shared_vid_counter)
  BY <1>1, GraphAssumption DEF IndInv, TypeOK, Vertex
<1> QED
  BY <1>2, <1>3 DEF Pending, IndInv, TypeOK

\* When a phase starts, every active vertex is pending.
LEMMA AllPendingAtStart ==
  ASSUME IndInv, shared_vid_counter = 0, NEW v \in current_active_superstep
  PROVE  Pending(v)
  BY GraphAssumption DEF Pending, IndInv, TypeOK, Vertex

-----------------------------------------------------------------------------
(* The signals of a scatter phase.                                         *)

LEMMA InitScatterInv == Init => ScatterInv
  BY DEF Init, ScatterInv, Scattering, SignalsSent, SignalsToCome

\* In the scatter phase a worker takes no step of the other two functions.
LEMMA ScatterSteps ==
  ASSUME IndInv, NEW t \in Thread, Worker(t), phase = "scatter"
  PROVE  /\ fn[t] = "scatter"
         /\ UNCHANGED <<vdata, gather_accum, last_change, phase, fn,
                        current_active_superstep>>
         /\ \/ Claim(t) \/ LoadWord(t) \/ StartVertex(t)
            \/ ScatterEdge(t) \/ FinishScatter(t)
<1>1. fn[t] = "scatter" /\ UNCHANGED <<phase, current_active_superstep, fn>>
  BY WorkerFrame DEF IndInv, Control
<1>2. \/ Claim(t) \/ LoadWord(t) \/ StartVertex(t)
      \/ ScatterEdge(t) \/ FinishScatter(t)
  BY <1>1 DEF Worker, ApplyVertex, GatherEdge, FinishGather
<1> QED
  BY <1>1, <1>2 DEF Claim, LoadWord, StartVertex, ScatterEdge, FinishScatter, shared

\* What a worker has left to scatter belongs to its vertex.
LEMMA WorkerScatterTodo ==
  ASSUME EngineInv, NEW t \in Thread, Worker(t), NEW u \in Thread, Scattering(u)'
  PROVE  todo'[u] \subseteq ScatterVisits[vid'[u]]
<1> USE DEF EngineInv, IndInv, TypeOK, Scattering, At
<1>1. phase = "scatter"
  BY WorkerFrame DEF Control
<1>2. /\ fn[t] = "scatter" /\ UNCHANGED fn
      /\ \/ Claim(t) \/ LoadWord(t) \/ StartVertex(t)
         \/ ScatterEdge(t) \/ FinishScatter(t)
  BY <1>1, ScatterSteps
<1>3. CASE u # t
  BY <1>2, <1>3, WorkerLocals DEF ScatterInv
<1>4. CASE u = t
  <2>1. CASE StartVertex(t)
    BY <1>2, <1>4, <2>1 DEF StartVertex, VisitsFor
  <2>2. CASE ScatterEdge(t)
    BY <1>2, <1>4, <2>2 DEF ScatterEdge, ScatterInv
  <2>3. CASE Claim(t) \/ LoadWord(t) \/ FinishScatter(t)
    BY <1>4, <2>3 DEF Claim, LoadWord, Continue, FinishScatter, EndVertex
  <2> QED
    BY <1>2, <2>1, <2>2, <2>3
<1> QED
  BY <1>3, <1>4

\* A scatter step adds the far end of an edge of a vertex that changed, or
\* nothing.
LEMMA ScatterEdgeSignals ==
  ASSUME EngineInv, NEW t \in Thread, ScatterEdge(t)
  PROVE  \E x \in ScatterVisits[vid[t]] :
            /\ x \in todo[t]
            /\ todo' = [todo EXCEPT ![t] = @ \ {x}]
            /\ next_active_superstep' = next_active_superstep
                  \cup (IF last_change[vid[t]] THEN {Other(x)} ELSE {})
<1>1. Scattering(t)
  BY DEF ScatterEdge, At, Scattering
<1>2. todo[t] \subseteq ScatterVisits[vid[t]]
  BY <1>1 DEF EngineInv, ScatterInv
<1> QED
  BY <1>2 DEF ScatterEdge

LEMMA WorkerSignalsSent ==
  ASSUME EngineInv, NEW t \in Thread, Worker(t)
  PROVE  SignalsSent'
<1> USE DEF EngineInv
<1> SUFFICES ASSUME phase' = "scatter", NEW u \in next_active_superstep'
             PROVE  \E v \in current_active_superstep' :
                       last_change'[v] /\ \E x \in ScatterVisits[v] : Other(x) = u
  BY DEF SignalsSent
<1>1. phase = "scatter"
  BY WorkerFrame DEF IndInv
<1>2. /\ UNCHANGED <<current_active_superstep, last_change>>
      /\ \/ Claim(t) \/ LoadWord(t) \/ StartVertex(t)
         \/ ScatterEdge(t) \/ FinishScatter(t)
  BY <1>1, ScatterSteps
<1>3. CASE u \in next_active_superstep
  BY <1>1, <1>2, <1>3 DEF ScatterInv, SignalsSent
<1>4. CASE u \notin next_active_superstep
  <2>1. ScatterEdge(t)
    BY <1>2, <1>4 DEF Claim, LoadWord, StartVertex, FinishScatter, active
  <2>2. PICK x \in ScatterVisits[vid[t]] :
           next_active_superstep' = next_active_superstep
              \cup (IF last_change[vid[t]] THEN {Other(x)} ELSE {})
    BY <2>1, ScatterEdgeSignals
  <2>3. last_change[vid[t]] /\ Other(x) = u
    BY <1>4, <2>2
  <2>4. vid[t] \in current_active_superstep
    BY <2>1, AtVertex DEF ScatterEdge, At
  <2> QED
    BY <1>2, <2>3, <2>4
<1> QED
  BY <1>3, <1>4

LEMMA WorkerSignalsToCome ==
  ASSUME EngineInv, NEW t \in Thread, Worker(t)
  PROVE  SignalsToCome'
<1> USE DEF EngineInv
<1> SUFFICES ASSUME phase' = "scatter", NEW v \in current_active_superstep',
                    last_change'[v], NEW x \in ScatterVisits[v],
                    Other(x) \notin next_active_superstep'
             PROVE  StillTo(v, x)'
  BY DEF SignalsToCome
<1>1. phase = "scatter"
  BY WorkerFrame DEF IndInv
<1>2. /\ UNCHANGED <<current_active_superstep, last_change, fn>>
      /\ fn[t] = "scatter"
      /\ \/ Claim(t) \/ LoadWord(t) \/ StartVertex(t)
         \/ ScatterEdge(t) \/ FinishScatter(t)
  BY <1>1, ScatterSteps
<1>3. v \in Vertex
  BY <1>2 DEF IndInv, TypeOK
<1>4. next_active_superstep \subseteq next_active_superstep'
  BY <1>2 DEF Claim, LoadWord, StartVertex, ScatterEdge, FinishScatter, active
<1>5. StillTo(v, x)
  BY <1>1, <1>2, <1>4 DEF ScatterInv, SignalsToCome
<1>6. ~Ends(t, v)
  BY <1>2, <1>5 DEF Ends, FinishGather, ApplyVertex, FinishScatter, At,
                    StillTo, Scattering
<1>7. Pending(v)'
  BY <1>3, <1>5, <1>6, KeepsPending DEF StillTo
<1>8. ASSUME NEW u \in Thread, Scattering(u)', vid'[u] = v
      PROVE  x \in todo'[u]
  <2> USE DEF IndInv, TypeOK, Scattering, At
  <2>1. CASE u # t
    BY <1>2, <1>5, <1>8, <2>1, WorkerLocals DEF StillTo
  <2>2. CASE u = t
    <3>1. CASE StartVertex(t)
      BY <1>2, <1>8, <2>2, <3>1 DEF StartVertex, VisitsFor
    <3>2. CASE ScatterEdge(t)
      <4>1. PICK y \in ScatterVisits[vid[t]] :
               /\ todo' = [todo EXCEPT ![t] = @ \ {y}]
               /\ next_active_superstep' = next_active_superstep
                     \cup (IF last_change[vid[t]] THEN {Other(y)} ELSE {})
        BY <3>2, ScatterEdgeSignals
      <4>2. vid[t] = v /\ x \in todo[t]
        BY <1>2, <1>5, <1>8, <2>2, <3>2 DEF ScatterEdge, StillTo
      <4>3. x # y
        BY <1>2, <4>1, <4>2
      <4> QED
        BY <2>2, <4>1, <4>2, <4>3
    <3>3. CASE Claim(t) \/ LoadWord(t) \/ FinishScatter(t)
      BY <1>8, <2>2, <3>3 DEF Claim, LoadWord, Continue, FinishScatter, EndVertex
    <3> QED
      BY <1>2, <3>1, <3>2, <3>3
  <2> QED
    BY <2>1, <2>2
<1> QED
  BY <1>7, <1>8 DEF StillTo

LEMMA NextScatterInv ==
  ASSUME EngineInv, [Next]_vars
  PROVE  ScatterInv'
<1> USE DEF EngineInv, shared, active, engine, main, locals
<1>1. CASE \E v \in Vertex : Signal(v)
  BY <1>1 DEF Signal, Boundary, ScatterInv, Scattering, SignalsSent, SignalsToCome
<1>2. CASE SignalAll
  BY <1>2 DEF SignalAll, Boundary, ScatterInv, Scattering, SignalsSent, SignalsToCome
<1>3. CASE Run \/ MaxedOut
  BY <1>3 DEF Run, MaxedOut, Boundary, ScatterInv, Scattering, SignalsSent, SignalsToCome
<1>4. CASE CreateFails \/ UNCHANGED vars
  BY <1>4 DEF CreateFails, vars, ScatterInv, Scattering, SignalsSent,
              SignalsToCome, StillTo, Pending
<1>5. CASE BeginSuperstep
  BY <1>5 DEF BeginSuperstep, SwapBitsets, StartPhase, ScatterInv, Scattering,
              SignalsSent, SignalsToCome
<1>6. CASE Quiesce
  BY <1>6 DEF Quiesce, SwapBitsets, Boundary, ScatterInv, Scattering,
              SignalsSent, SignalsToCome
<1>7. ASSUME NEW t \in Thread, Spawn(t)
      PROVE  ScatterInv'
  <2>1. /\ pc[t] = "off" /\ pc' = [pc EXCEPT ![t] = "claim"]
        /\ fn' = [fn EXCEPT ![t] = phase]
        /\ UNCHANGED <<shared, active, engine, main, block, word, vid, todo>>
    BY <1>7 DEF Spawn
  <2>2. \A u \in Thread : Scattering(u)' => Scattering(u)
    BY <2>1 DEF Scattering, IndInv, TypeOK
  <2>3. \A v : Pending(v) => Pending(v)'
    BY <2>1 DEF Pending, IndInv, TypeOK
  <2>4. \A v, x : StillTo(v, x) => StillTo(v, x)'
    BY <2>1, <2>2, <2>3 DEF StillTo
  <2>5. SignalsSent' /\ SignalsToCome'
    BY <2>1, <2>4 DEF ScatterInv, SignalsSent, SignalsToCome
  <2> QED
    BY <2>1, <2>2, <2>5 DEF ScatterInv
<1>8. CASE JoinGathers \/ JoinScatters
  BY <1>8 DEF JoinGathers, JoinScatters, EndPhase, StartPhase, ScatterInv,
              Scattering, SignalsSent, SignalsToCome
<1>9. CASE JoinApplys
  <2>1. /\ next_active_superstep' = {} /\ shared_vid_counter' = 0
        /\ UNCHANGED current_active_superstep
        /\ phase' = "scatter"
        /\ \A t \in Thread : pc'[t] = "off"
    BY <1>9 DEF JoinApplys, EndPhase, StartPhase, ScatterInv
  <2>2. \A v \in current_active_superstep' : Pending(v)'
    BY <2>1, GraphAssumption DEF Pending, IndInv, TypeOK, Vertex
  <2> QED
    BY <2>1, <2>2 DEF ScatterInv, Scattering, SignalsSent, SignalsToCome, StillTo
<1>10. ASSUME NEW t \in Thread, Worker(t)
       PROVE  ScatterInv'
  <2>1. phase' \in {"gather", "apply"} => next_active_superstep' = {}
    <3>1. phase' = phase /\ (pc[t] # "off" => fn[t] = phase) /\ pc[t] # "off"
      BY <1>10, WorkerFrame DEF IndInv, Control
    <3>2. ScatterEdge(t) => phase = "scatter"
      BY <3>1 DEF ScatterEdge
    <3>3. ~ScatterEdge(t) => UNCHANGED next_active_superstep
      BY <1>10 DEF Worker, Claim, LoadWord, StartVertex, GatherEdge,
                   FinishGather, ApplyVertex, FinishScatter
    <3> QED
      BY <3>1, <3>2, <3>3 DEF ScatterInv
  <2> QED
    BY <1>10, <2>1, WorkerScatterTodo, WorkerSignalsSent, WorkerSignalsToCome
    DEF ScatterInv
<1> QED
  BY <1>1, <1>2, <1>3, <1>4, <1>5, <1>6, <1>7, <1>8, <1>9, <1>10
  DEF Next, RunLoop, Exited

\* All of it together.
THEOREM EngineInvariance == Spec => []EngineInv
<1>1. Init => EngineInv
  BY InitTypeOK, InitControl, InitOwnership, InitGatherInv, InitBoundary,
     InitScatterInv DEF EngineInv, IndInv
<1>2. EngineInv /\ [Next]_vars => EngineInv'
  BY NextTypeOK, NextControl, NextOwnership, NextGatherInv, NextBoundary,
     NextScatterInv DEF EngineInv, IndInv
<1> QED
  BY <1>1, <1>2, PTL DEF Spec

-----------------------------------------------------------------------------
(* The refinement mapping.                                                 *)

\* The operators of the abstract specification are those of the engine.
LEMMA SameOperators ==
  /\ Abstract!Vertex = Vertex
  /\ Abstract!ScatterVisits = ScatterVisits
  /\ \A x : Abstract!Other(x) = Other(x)
  /\ \A v, d : Abstract!GatherOf(v, d) = GatherOf(v, d)
  /\ \A v, old, acc : Abstract!ApplyTo(v, old, acc) = ApplyTo(v, old, acc)
<1>1. Abstract!Visit = Visit /\ Abstract!Vertex = Vertex
  BY DEF Abstract!Visit, Visit, Abstract!Vertex, Vertex
<1>2. \A x : Abstract!Other(x) = Other(x) /\ Abstract!Near(x) = Near(x)
  BY DEF Abstract!Other, Other, Abstract!Near, Near
<1>3. \A d, x : Abstract!Covers(d, x) <=> Covers(d, x)
  BY DEF Abstract!Covers, Covers
<1>4. Abstract!GatherVisits = GatherVisits
  BY <1>1, <1>2, <1>3 DEF Abstract!GatherVisits, GatherVisits
<1>5. Abstract!ScatterVisits = ScatterVisits
  BY <1>1, <1>2, <1>3 DEF Abstract!ScatterVisits, ScatterVisits
<1>6. \A v, d : Abstract!GatherOf(v, d) = GatherOf(v, d)
  BY <1>1, <1>2, <1>4 DEF Abstract!GatherOf, GatherOf
<1>7. \A v, old, acc : Abstract!ApplyTo(v, old, acc) = ApplyTo(v, old, acc)
  BY <1>4 DEF Abstract!ApplyTo, ApplyTo
<1> QED
  BY <1>1, <1>2, <1>5, <1>6, <1>7

\* The outcome of a superstep depends on who is still to be applied, and on
\* what it will be applied to, and on nothing else.
LEMMA SameOutcome ==
  ASSUME TypeOK, InSuperstep, InSuperstep',
         UNCHANGED <<vdata, last_change, current_active_superstep>>,
         \A v \in Vertex : NotApplied(v)' <=> NotApplied(v),
         \A v \in Vertex : NotApplied(v) => AccumAtApply(v)' = AccumAtApply(v)
  PROVE  UNCHANGED <<AbstractData, AbstractActive>>
<1>1. AbstractData' = AbstractData
  BY DEF AbstractData
<1>2. \A v \in Vertex : WillSignal(v)' = WillSignal(v)
  BY <1>1 DEF WillSignal
<1> DEFINE signallers == {v \in current_active_superstep : WillSignal(v)}
<1>3. signallers' = signallers
  BY <1>2 DEF TypeOK
<1>4. AbstractActive = {u \in Vertex : \E v \in signallers :
                          \E x \in ScatterVisits[v] : Other(x) = u}
  BY DEF AbstractActive
<1>5. AbstractActive' = {u \in Vertex : \E v \in signallers' :
                          \E x \in ScatterVisits[v] : Other(x) = u}
  BY DEF AbstractActive
<1> HIDE DEF signallers
<1> QED
  BY <1>1, <1>3, <1>4, <1>5

\* What apply stores is what was to come, and scatter will see the change.
LEMMA ApplyKeepsOutcome ==
  ASSUME EngineInv, NEW t \in Thread, ApplyVertex(t)
  PROVE  UNCHANGED <<AbstractData, AbstractActive>>
<1> USE DEF EngineInv, IndInv, TypeOK
<1>0. pc[t] = "edges" /\ vid[t] \in Vertex /\ vid[t] \in current_active_superstep
  BY AtVertex DEF ApplyVertex, At
<1> PICK v \in Vertex : v = vid[t]
  BY <1>0
<1> PICK new : new = ApplyTo(v, vdata[v], gather_accum[v])
  OBVIOUS
<1>1. Worker(t) /\ Ends(t, v)
  BY DEF Worker, Ends
<1>2. /\ phase = "apply"
      /\ UNCHANGED <<phase, current_active_superstep, gather_accum>>
  BY <1>1, WorkerFrame DEF ApplyVertex, Control
<1>3. v \in current_active_superstep
  BY <1>0
<1>4. NotApplied(v) /\ ~NotApplied(v)'
  BY <1>1, <1>2, <1>3, EndsPending DEF NotApplied
<1>5. \A u \in Vertex : u # v => (NotApplied(u)' <=> NotApplied(u))
  <2> SUFFICES ASSUME NEW u \in Vertex, u # v
               PROVE  NotApplied(u)' <=> NotApplied(u)
    OBVIOUS
  <2>1. ~Ends(t, u)
    BY DEF Ends
  <2>2. Pending(u)' <=> Pending(u)
    BY <1>1, <2>1, KeepsPending, NeverPendingAgain
  <2> QED
    BY <1>2, <2>2 DEF NotApplied
<1>6. /\ vdata' = [vdata EXCEPT ![v] = new]
      /\ last_change' = [last_change EXCEPT ![v] = Significant(vdata[v], new)]
  BY DEF ApplyVertex, Gathered, Remembers
<1>7. \A u \in Vertex : AbstractData[u] = IF NotApplied(u)
                                          THEN ApplyTo(u, vdata[u], gather_accum[u])
                                          ELSE vdata[u]
  BY <1>2 DEF AbstractData, InSuperstep, AccumAtApply
<1>8. \A u \in Vertex : AbstractData'[u] = IF NotApplied(u)'
                                           THEN ApplyTo(u, vdata'[u], gather_accum[u])
                                           ELSE vdata'[u]
  BY <1>2 DEF AbstractData, InSuperstep, AccumAtApply
<1>9. \A u \in Vertex : AbstractData'[u] = AbstractData[u]
  BY <1>3, <1>4, <1>5, <1>6, <1>7, <1>8
<1>10. AbstractData' = AbstractData
  BY <1>9 DEF AbstractData
<1>11. AbstractData[v] = new
  BY <1>3, <1>4, <1>7
<1>12. \A u \in Vertex : WillSignal(u)' = WillSignal(u)
  BY <1>3, <1>4, <1>5, <1>6, <1>10, <1>11 DEF WillSignal
<1> DEFINE signallers == {u \in current_active_superstep : WillSignal(u)}
<1>13. signallers' = signallers
  BY <1>2, <1>12
<1>14. AbstractActive = {u \in Vertex : \E w \in signallers :
                           \E x \in ScatterVisits[w] : Other(x) = u}
  BY <1>2 DEF AbstractActive, InSuperstep
<1>15. AbstractActive' = {u \in Vertex : \E w \in signallers' :
                           \E x \in ScatterVisits[w] : Other(x) = u}
  BY <1>2 DEF AbstractActive, InSuperstep
<1> HIDE DEF signallers
<1> QED
  BY <1>10, <1>13, <1>14, <1>15

\* No step of a worker changes the outcome of the superstep.
LEMMA WorkerKeepsOutcome ==
  ASSUME EngineInv, NEW t \in Thread, Worker(t)
  PROVE  UNCHANGED <<AbstractData, AbstractActive>>
<1> USE DEF EngineInv, IndInv, TypeOK
<1>1. /\ phase \in Phase /\ fn[t] = phase
      /\ UNCHANGED <<phase, current_active_superstep>>
  BY WorkerFrame DEF Control
<1>2. InSuperstep /\ InSuperstep'
  BY <1>1 DEF InSuperstep, Phase
<1>3. CASE ApplyVertex(t)
  BY <1>3, ApplyKeepsOutcome
<1>4. CASE ~ApplyVertex(t)
  <2>1. UNCHANGED <<vdata, last_change>>
    BY <1>4 DEF Worker, Claim, LoadWord, StartVertex, GatherEdge, FinishGather,
                ScatterEdge, FinishScatter, shared
  <2>2. phase = "apply" => /\ UNCHANGED gather_accum
                           /\ \A v \in Vertex : Pending(v)' <=> Pending(v)
    <3> SUFFICES ASSUME phase = "apply"
                 PROVE  /\ UNCHANGED gather_accum
                        /\ \A v \in Vertex : Pending(v)' <=> Pending(v)
      OBVIOUS
    <3>1. ~FinishGather(t) /\ ~FinishScatter(t)
      BY <1>1 DEF FinishGather, FinishScatter
    <3>2. UNCHANGED gather_accum
      BY <1>4, <3>1 DEF Worker, Claim, LoadWord, StartVertex, GatherEdge,
                        ScatterEdge, shared
    <3>3. \A v \in Vertex : ~Ends(t, v)
      BY <1>4, <3>1 DEF Ends
    <3> QED
      BY <3>2, <3>3, KeepsPending, NeverPendingAgain
  <2>3. \A v \in Vertex : NotApplied(v)' <=> NotApplied(v)
    BY <1>1, <2>2 DEF NotApplied
  <2>4. \A v \in Vertex : NotApplied(v) => AccumAtApply(v)' = AccumAtApply(v)
    BY <1>1, <2>1, <2>2 DEF NotApplied, AccumAtApply, GatherOf
  <2> QED
    BY <1>1, <1>2, <2>1, <2>3, <2>4, SameOutcome
<1> QED
  BY <1>3, <1>4

\* Nor do the joins of gather and of apply: the accumulators hold what the
\* active vertices were to gather, and all of them are applied.
LEMMA JoinKeepsOutcome ==
  ASSUME EngineInv, JoinGathers \/ JoinApplys
  PROVE  UNCHANGED <<AbstractData, AbstractActive>>
<1> USE DEF EngineInv, IndInv, TypeOK
<1>1. /\ UNCHANGED <<vdata, gather_accum, last_change, current_active_superstep>>
      /\ InSuperstep /\ InSuperstep'
      /\ AllJoined
      /\ shared_vid_counter' = 0
  BY DEF JoinGathers, JoinApplys, EndPhase, StartPhase, InSuperstep, shared, active
<1>2. \A v \in current_active_superstep : v \in Vertex /\ ~Pending(v)
  BY <1>1, JoinedNonePending
<1>3. CASE JoinGathers
  <2>1. phase = "gather" /\ phase' = "apply"
    BY <1>3 DEF JoinGathers, EndPhase, StartPhase
  <2>2. \A v \in current_active_superstep : Pending(v)'
    BY <1>1, <1>2, GraphAssumption DEF Pending, Vertex
  <2>3. \A v \in Vertex : NotApplied(v)' <=> NotApplied(v)
    BY <1>1, <2>1, <2>2 DEF NotApplied, Pending
  <2>4. \A v \in Vertex : NotApplied(v) => AccumAtApply(v)' = AccumAtApply(v)
    BY <1>1, <1>2, <2>1 DEF NotApplied, AccumAtApply, GatherInv, GatherComplete
  <2> QED
    BY <1>1, <2>3, <2>4, SameOutcome
<1>4. CASE JoinApplys
  <2>1. phase = "apply" /\ phase' = "scatter"
    BY <1>4 DEF JoinApplys, EndPhase, StartPhase
  <2>2. \A v \in Vertex : ~NotApplied(v) /\ ~NotApplied(v)'
    BY <1>1, <1>2, <2>1 DEF NotApplied
  <2> QED
    BY <1>1, <2>2, SameOutcome
<1> QED
  BY <1>3, <1>4

\* The last join finds the outcome in the variables: the data that apply
\* stored, and the signals that scatter sent.
LEMMA LastJoin ==
  ASSUME EngineInv, JoinScatters
  PROVE  UNCHANGED <<AbstractData, AbstractActive>>
<1> USE DEF EngineInv, IndInv, TypeOK
<1>1. /\ UNCHANGED <<vdata, last_change, next_active_superstep>>
      /\ phase = "scatter" /\ phase' = "none"
      /\ AllJoined
  BY DEF JoinScatters, EndPhase, shared, active
<1>2. \A v : ~Pending(v)
  BY <1>1, JoinedNonePending
<1>3. \A v : ~NotApplied(v)
  BY <1>1 DEF NotApplied
<1>4. AbstractData = vdata /\ AbstractData' = vdata
  BY <1>1, <1>3 DEF AbstractData, InSuperstep
<1>5. AbstractActive = {u \in Vertex :
         \E v \in {w \in current_active_superstep : last_change[w]} :
            \E x \in ScatterVisits[v] : Other(x) = u}
  BY <1>1, <1>3 DEF AbstractActive, InSuperstep, WillSignal
<1>6. AbstractActive' = next_active_superstep
  BY <1>1 DEF AbstractActive, InSuperstep
<1>7. next_active_superstep \subseteq AbstractActive
  BY <1>1, <1>5 DEF ScatterInv, SignalsSent
<1>8. AbstractActive \subseteq next_active_superstep
  BY <1>1, <1>2, <1>5 DEF ScatterInv, SignalsToCome, StillTo
<1> QED
  BY <1>4, <1>6, <1>7, <1>8

-----------------------------------------------------------------------------
(* Every step is a step of BSP or a stutter.                               *)

\* Between supersteps the mapping reads the variables.
LEMMA BetweenSupersteps ==
  ASSUME TypeOK, phase = "none"
  PROVE  AbstractData = vdata /\ AbstractActive = next_active_superstep
  BY DEF TypeOK, AbstractData, AbstractActive, InSuperstep

\* The swap of the bitsets settles a whole superstep of BSP.
LEMMA BeginIsSuperstep ==
  ASSUME EngineInv, BeginSuperstep
  PROVE  Abstract!Superstep
<1> USE DEF EngineInv, IndInv
<1>1. /\ mpc = "top" /\ phase = "none"
      /\ mpc' = "exec" /\ phase' = "gather"
      /\ iteration_counter < MaxIterations
      /\ next_active_superstep # {}
      /\ current_active_superstep' = next_active_superstep
      /\ UNCHANGED <<vdata, iteration_counter>>
  BY DEF BeginSuperstep, SwapBitsets, StartPhase, IterationsLeft, Boundary, shared
<1>2. AbstractData = vdata /\ AbstractActive = next_active_superstep
  BY <1>1, BetweenSupersteps
<1>3. \A v \in Vertex : NotApplied(v)' <=> v \in AbstractActive
  BY <1>1, <1>2 DEF NotApplied
<1>4. AbstractData' = [v \in Vertex |-> IF v \in AbstractActive
                                        THEN ApplyTo(v, vdata[v], GatherOf(v, vdata))
                                        ELSE vdata[v]]
  BY <1>1, <1>3 DEF AbstractData, InSuperstep, AccumAtApply, GatherOf
<1>5. AbstractData' = Abstract!NewData
  BY <1>2, <1>4, SameOperators DEF Abstract!NewData
<1>6. \A v \in AbstractActive :
         WillSignal(v)' = Significant(AbstractData[v], AbstractData'[v])
  BY <1>1, <1>2, <1>3 DEF WillSignal, TypeOK
<1> DEFINE signallers == {v \in current_active_superstep : WillSignal(v)}
<1>7. signallers' = Abstract!Changed
  BY <1>1, <1>2, <1>5, <1>6 DEF Abstract!Changed
<1>8. AbstractActive' = {u \in Vertex : \E v \in signallers' :
                          \E x \in ScatterVisits[v] : Other(x) = u}
  BY <1>1 DEF AbstractActive, InSuperstep
<1> HIDE DEF signallers
<1>9. AbstractActive' = Abstract!Signalled
  BY <1>7, <1>8, SameOperators DEF Abstract!Signalled
<1>10. AbstractStatus = "running" /\ AbstractStatus' = "running"
  BY <1>1 DEF AbstractStatus
<1> QED
  BY <1>1, <1>2, <1>5, <1>9, <1>10 DEF Abstract!Superstep, InSuperstep, TypeOK

\* A step that keeps the outcome and stays inside run() is a stutter.
LEMMA InsideRunStutters ==
  ASSUME UNCHANGED <<AbstractData, AbstractActive>>,
         mpc \in {"top", "exec"}, mpc' \in {"top", "exec"},
         iteration_counter' + (IF InSuperstep' THEN 1 ELSE 0)
            = iteration_counter + (IF InSuperstep THEN 1 ELSE 0)
  PROVE  UNCHANGED Abstract!vars
  BY DEF Abstract!vars, AbstractStatus

LEMMA StepRefines ==
  ASSUME EngineInv, [Next]_vars
  PROVE  [Abstract!Next]_(Abstract!vars)
<1> USE DEF EngineInv, IndInv
<1>1. ASSUME NEW v \in Vertex, Signal(v)
      PROVE  Abstract!Next
  <2>1. /\ phase = "none" /\ mpc = "idle"
        /\ UNCHANGED <<phase, mpc, vdata, iteration_counter>>
        /\ next_active_superstep' = next_active_superstep \cup {v}
    BY <1>1 DEF Signal, Boundary, shared, engine, main
  <2>2. Abstract!Signal(v)
    BY <2>1, BetweenSupersteps
    DEF Abstract!Signal, AbstractStatus, AbstractData, AbstractActive, InSuperstep
  <2> QED
    BY <2>2, SameOperators DEF Abstract!Next
<1>2. CASE SignalAll
  <2>1. /\ phase = "none" /\ mpc = "idle"
        /\ UNCHANGED <<phase, mpc, vdata, iteration_counter>>
        /\ next_active_superstep' = Vertex
    BY <1>2 DEF SignalAll, Boundary, shared, engine, main
  <2>2. Abstract!SignalAll
    BY <2>1, SameOperators
    DEF Abstract!SignalAll, AbstractStatus, AbstractData, AbstractActive, InSuperstep
  <2> QED
    BY <2>2 DEF Abstract!Next
<1>3. CASE Run
  <2>1. /\ phase = "none" /\ mpc = "idle" /\ mpc' = "top"
        /\ UNCHANGED <<phase, vdata, iteration_counter, next_active_superstep>>
    BY <1>3 DEF Run, Boundary, shared, engine, active
  <2>2. Abstract!Run
    BY <2>1
    DEF Abstract!Run, AbstractStatus, AbstractData, AbstractActive, InSuperstep
  <2> QED
    BY <2>2 DEF Abstract!Next
<1>4. CASE BeginSuperstep
  BY <1>4, BeginIsSuperstep DEF Abstract!Next
<1>5. CASE Quiesce \/ MaxedOut
  <2>1. /\ phase = "none" /\ mpc = "top" /\ mpc' = "idle"
        /\ UNCHANGED <<phase, vdata, iteration_counter, next_active_superstep>>
    BY <1>5 DEF Quiesce, MaxedOut, SwapBitsets, Boundary, shared, engine, active
  <2>2. next_active_superstep = {} \/ iteration_counter >= MaxIterations
    <3>1. CASE Quiesce
      BY <3>1 DEF Quiesce
    <3>2. CASE MaxedOut
      BY <3>2, EngineAssumption DEF MaxedOut, IterationsLeft, TypeOK
    <3> QED
      BY <1>5, <3>1, <3>2
  <2>3. Abstract!Return
    BY <2>1, <2>2
    DEF Abstract!Return, AbstractStatus, AbstractData, AbstractActive,
        InSuperstep, TypeOK
  <2> QED
    BY <2>3 DEF Abstract!Next
<1>6. ASSUME NEW t \in Thread, Spawn(t)
      PROVE  UNCHANGED Abstract!vars
  <2>1. /\ mpc = "exec" /\ pc[t] = "off"
        /\ pc' = [pc EXCEPT ![t] = "claim"]
        /\ UNCHANGED <<shared, active, engine, main, block, word>>
    BY <1>6 DEF Spawn
  <2>2. InSuperstep /\ InSuperstep'
    BY <2>1 DEF InSuperstep, Control, Phase, main
  <2>3. \A v : Pending(v)' <=> Pending(v)
    BY <2>1 DEF Pending, TypeOK, active, engine
  <2>4. \A v \in Vertex : /\ NotApplied(v)' <=> NotApplied(v)
                          /\ AccumAtApply(v)' = AccumAtApply(v)
    BY <2>1, <2>3 DEF NotApplied, AccumAtApply, GatherOf, shared, active, main
  <2>5. UNCHANGED <<AbstractData, AbstractActive>>
    BY <2>1, <2>2, <2>4, SameOutcome DEF shared, active
  <2> QED
    BY <2>1, <2>2, <2>5, InsideRunStutters DEF main, engine
<1>7. CASE JoinGathers \/ JoinApplys
  <2>1. /\ mpc = "exec" /\ mpc' = "exec" /\ InSuperstep /\ InSuperstep'
        /\ UNCHANGED iteration_counter
    BY <1>7 DEF JoinGathers, JoinApplys, EndPhase, StartPhase, InSuperstep
  <2> QED
    BY <1>7, <2>1, JoinKeepsOutcome, InsideRunStutters
<1>8. CASE JoinScatters
  <2>1. /\ mpc = "exec" /\ mpc' = "top" /\ InSuperstep /\ ~InSuperstep'
        /\ iteration_counter' = iteration_counter + 1
    BY <1>8 DEF JoinScatters, EndPhase, InSuperstep
  <2> QED
    BY <1>8, <2>1, LastJoin, InsideRunStutters DEF TypeOK
<1>9. CASE CreateFails
  <2>1. /\ mpc = "exec" /\ mpc' = "exited"
        /\ UNCHANGED <<shared, active, engine, phase, pc, locals>>
    BY <1>9 DEF CreateFails
  <2>2. InSuperstep /\ InSuperstep'
    BY <2>1 DEF InSuperstep, Control, Phase
  <2>3. \A v : Pending(v)' <=> Pending(v)
    BY <2>1 DEF Pending, active, engine, locals
  <2>4. \A v \in Vertex : /\ NotApplied(v)' <=> NotApplied(v)
                          /\ AccumAtApply(v)' = AccumAtApply(v)
    BY <2>1, <2>3 DEF NotApplied, AccumAtApply, GatherOf, shared, active
  <2>5. UNCHANGED <<AbstractData, AbstractActive>>
    BY <2>1, <2>2, <2>4, SameOutcome DEF shared, active
  <2>6. Abstract!Exit
    BY <2>1, <2>2, <2>5 DEF Abstract!Exit, AbstractStatus, engine
  <2> QED
    BY <2>6 DEF Abstract!Next
<1>10. ASSUME NEW t \in Thread, Worker(t)
       PROVE  UNCHANGED Abstract!vars
  <2>1. /\ mpc = "exec" /\ phase \in Phase
        /\ UNCHANGED <<mpc, phase, iteration_counter>>
    BY <1>10, WorkerFrame DEF Control
  <2>2. InSuperstep /\ InSuperstep'
    BY <2>1 DEF InSuperstep, Phase
  <2> QED
    BY <1>10, <2>1, <2>2, WorkerKeepsOutcome, InsideRunStutters
<1>11. CASE UNCHANGED vars
  <2>1. UNCHANGED <<vdata, gather_accum, last_change, active, engine, main,
                    pc, locals>>
    BY <1>11 DEF vars, shared
  <2> QED
    BY <2>1 DEF Abstract!vars, AbstractData, AbstractActive, AbstractStatus,
                InSuperstep, NotApplied, AccumAtApply, WillSignal, Pending,
                GatherOf, active, engine, main, locals
<1> QED
  BY <1>1, <1>2, <1>3, <1>4, <1>5, <1>6, <1>7, <1>8, <1>9, <1>10, <1>11
  DEF Next, RunLoop, Exited

\* The engine, with its threads, its counter and its two bitsets, behaves as
\* bulk-synchronous supersteps (sync.cpp:101-240), for every graph, program,
\* number of threads, word width and number of iterations: each active vertex
\* is applied exactly once per superstep on data of the previous superstep
\* only, and exactly the significant changes activate vertices.
THEOREM EngineImplementsSupersteps == Spec => ImplementsSupersteps
<1>1. Init => Abstract!Init
  BY ProgramAssumption
  DEF Init, Abstract!Init, AbstractData, AbstractActive, AbstractStatus, InSuperstep
<1>2. EngineInv /\ [Next]_vars => [Abstract!Next]_(Abstract!vars)
  BY StepRefines
<1> QED
  BY <1>1, <1>2, EngineInvariance, PTL DEF Spec, ImplementsSupersteps, Abstract!Safety

-----------------------------------------------------------------------------
(* Accumulators that are out of date.                                      *)

\* What v gathered through x is not the data of the far end any more.
Stale(v, x) == gather_accum[v][x] \notin {NoValue, vdata[Other(x)]}

\* v will gather again after the change of w: it is signalled or active, or
\* w was applied in this superstep and has its signals still to send.
CatchesUp(v, w) ==
    /\ phase = "none"   => v \in next_active_superstep
    /\ phase = "gather" => v \in current_active_superstep
    /\ phase \in {"apply", "scatter"} => w \in current_active_superstep
    /\ phase = "apply" => ~Pending(w)

CaughtUp ==
    \A v \in Vertex : \A x \in GatherVisits[v] :
        SignalsReader(v, x) /\ last_change[Other(x)] /\ Stale(v, x) =>
            CatchesUp(v, Other(x))

LEMMA GatherVisitIsVisit ==
  ASSUME NEW v \in Vertex, NEW x \in GatherVisits[v]
  PROVE  x \in Visit /\ Other(x) \in Vertex
  BY OtherIsVertex DEF GatherVisits

\* A step that leaves the vertices alone and lets everybody catch up.
LEMMA SameStale ==
  ASSUME CaughtUp, UNCHANGED shared,
         \A v, w \in Vertex : CatchesUp(v, w) => CatchesUp(v, w)'
  PROVE  CaughtUp'
<1> SUFFICES ASSUME NEW v \in Vertex, NEW x \in GatherVisits[v],
                    SignalsReader(v, x), last_change'[Other(x)], Stale(v, x)'
             PROVE  CatchesUp(v, Other(x))'
  BY DEF CaughtUp
<1>1. Other(x) \in Vertex
  BY GatherVisitIsVisit
<1>2. last_change[Other(x)] /\ Stale(v, x)
  BY DEF Stale, shared
<1> QED
  BY <1>1, <1>2 DEF CaughtUp

\* A gathered accumulator is up to date.
LEMMA FreshlyGathered ==
  ASSUME NEW v \in Vertex, NEW x \in GatherVisits[v],
         gather_accum[v] = GatherOf(v, vdata)
  PROVE  ~Stale(v, x)
  BY GatherVisitIsVisit DEF Stale, GatherOf

LEMMA WorkerGathersFresh ==
  ASSUME EngineInv, NEW t \in Thread, FinishGather(t),
         NEW v \in Vertex, v = vid[t], NEW x \in GatherVisits[v]
  PROVE  ~Stale(v, x)'
<1> USE DEF EngineInv, IndInv, TypeOK
<1>1. Gathering(t) /\ todo[t] = {}
  BY DEF FinishGather, At, Gathering
<1>2. accum[t] = GatherOf(v, vdata)
  BY <1>1, PartOfEnds DEF GatherInv, PartlyGathered, PartlyAt
<1>3. gather_accum'[v] = GatherOf(v, vdata) /\ UNCHANGED vdata
  BY <1>2 DEF FinishGather
<1> QED
  BY <1>3, GatherVisitIsVisit DEF Stale, GatherOf

\* Outside FinishGather and ApplyVertex nothing of the vertices changes.
LEMMA WorkerShared ==
  ASSUME NEW t \in Thread, Worker(t), ~FinishGather(t), ~ApplyVertex(t)
  PROVE  UNCHANGED shared
  BY DEF Worker, Claim, LoadWord, StartVertex, GatherEdge, ScatterEdge, FinishScatter

\* A worker lets everybody catch up.
LEMMA WorkerKeepsCatchingUp ==
  ASSUME EngineInv, NEW t \in Thread, Worker(t), NEW v \in Vertex, NEW w \in Vertex,
         CatchesUp(v, w)
  PROVE  CatchesUp(v, w)'
<1>1. /\ UNCHANGED <<phase, current_active_superstep>>
      /\ phase # "none"
  BY WorkerFrame DEF EngineInv, IndInv, Control, Phase
<1>2. Pending(w)' => Pending(w)
  BY NeverPendingAgain DEF EngineInv
<1> QED
  BY <1>1, <1>2 DEF CatchesUp

LEMMA WorkerCaughtUp ==
  ASSUME EngineInv, CaughtUp, NEW t \in Thread, Worker(t)
  PROVE  CaughtUp'
<1> USE DEF EngineInv, IndInv, TypeOK
<1>1. CASE ~FinishGather(t) /\ ~ApplyVertex(t)
  BY <1>1, WorkerShared, WorkerKeepsCatchingUp, SameStale
<1>2. CASE FinishGather(t)
  <2> SUFFICES ASSUME NEW v \in Vertex, NEW x \in GatherVisits[v],
                      SignalsReader(v, x), last_change'[Other(x)], Stale(v, x)'
               PROVE  CatchesUp(v, Other(x))'
    BY DEF CaughtUp
  <2>1. v # vid[t]
    BY <1>2, WorkerGathersFresh
  <2>2. /\ gather_accum'[v] = gather_accum[v]
        /\ UNCHANGED <<vdata, last_change>>
    BY <1>2, <2>1 DEF FinishGather
  <2>3. CatchesUp(v, Other(x))
    BY <2>2 DEF CaughtUp, Stale
  <2> QED
    BY <2>3, GatherVisitIsVisit, WorkerKeepsCatchingUp
<1>3. CASE ApplyVertex(t)
  <2> SUFFICES ASSUME NEW v \in Vertex, NEW x \in GatherVisits[v],
                      SignalsReader(v, x), last_change'[Other(x)], Stale(v, x)'
               PROVE  CatchesUp(v, Other(x))'
    BY DEF CaughtUp
  <2> PICK w \in Vertex : w = Other(x)
    BY GatherVisitIsVisit
  <2>1. pc[t] = "edges" /\ phase = "apply"
    BY <1>3, WorkerFrame DEF ApplyVertex, At, Control
  <2>2. UNCHANGED <<phase, current_active_superstep>>
    BY WorkerFrame
  <2>3. CASE w = vid[t]
    <3>1. Ends(t, w)
      BY <1>3, <2>3 DEF Ends
    <3>2. w \in current_active_superstep /\ ~Pending(w)'
      BY <2>1, <2>3, <3>1, AtVertex, EndsPending
    <3> QED
      BY <2>1, <2>2, <3>2 DEF CatchesUp
  <2>4. CASE w # vid[t]
    <3>1. /\ vdata'[w] = vdata[w] /\ last_change'[w] = last_change[w]
          /\ UNCHANGED gather_accum
      BY <1>3, <2>4 DEF ApplyVertex
    <3>2. CatchesUp(v, w)
      BY <3>1 DEF CaughtUp, Stale
    <3> QED
      BY <3>2, WorkerKeepsCatchingUp
  <2> QED
    BY <2>3, <2>4
<1> QED
  BY <1>1, <1>2, <1>3

LEMMA InitCaughtUp == Init => CaughtUp
<1> SUFFICES ASSUME Init, NEW v \in Vertex, NEW x \in GatherVisits[v]
             PROVE  ~Stale(v, x)
  BY DEF CaughtUp
<1> QED
  BY GatherVisitIsVisit DEF Init, Stale, NoAccum

LEMMA NextCaughtUp ==
  ASSUME EngineInv, CaughtUp, [Next]_vars
  PROVE  CaughtUp'
<1> USE DEF EngineInv, IndInv, TypeOK, main, active, engine, locals
<1>1. CASE \/ \E v \in Vertex : Signal(v)
           \/ SignalAll \/ Run \/ MaxedOut \/ Quiesce
  <2>1. /\ UNCHANGED <<shared, phase>> /\ phase = "none"
        /\ next_active_superstep \subseteq next_active_superstep'
    BY <1>1 DEF Signal, SignalAll, Run, MaxedOut, Quiesce, SwapBitsets, Boundary
  <2> QED
    BY <2>1, SameStale DEF CatchesUp
<1>2. CASE CreateFails \/ UNCHANGED vars
  <2>1. /\ UNCHANGED <<shared, phase, active, shared_vid_counter, pc, block, word>>
    BY <1>2 DEF CreateFails, vars
  <2>2. \A w : Pending(w)' <=> Pending(w)
    BY <2>1 DEF Pending
  <2> QED
    BY <2>1, <2>2, SameStale DEF CatchesUp
<1>3. CASE BeginSuperstep
  <2>1. /\ UNCHANGED shared /\ phase = "none" /\ phase' = "gather"
        /\ current_active_superstep' = next_active_superstep
    BY <1>3 DEF BeginSuperstep, SwapBitsets, StartPhase, Boundary
  <2> QED
    BY <2>1, SameStale DEF CatchesUp
<1>4. ASSUME NEW t \in Thread, Spawn(t)
      PROVE  CaughtUp'
  <2>1. /\ UNCHANGED <<shared, active, engine, main, block, word>>
        /\ pc[t] = "off" /\ pc' = [pc EXCEPT ![t] = "claim"]
    BY <1>4 DEF Spawn
  <2>2. \A w : Pending(w)' <=> Pending(w)
    BY <2>1 DEF Pending
  <2> QED
    BY <2>1, <2>2, SameStale DEF CatchesUp
<1>5. CASE JoinGathers
  <2>1. UNCHANGED shared /\ phase = "gather" /\ AllJoined
    BY <1>5 DEF JoinGathers, EndPhase
  <2>2. ASSUME NEW v \in Vertex, NEW x \in GatherVisits[v],
               v \in current_active_superstep
        PROVE  ~Stale(v, x)
    <3>1. gather_accum[v] = GatherOf(v, vdata)
      BY <2>1, <2>2, JoinedNonePending DEF GatherInv, GatherComplete
    <3> QED
      BY <2>2, <3>1, FreshlyGathered
  <2>3. ASSUME NEW v \in Vertex, NEW x \in GatherVisits[v],
               SignalsReader(v, x), last_change'[Other(x)], Stale(v, x)'
        PROVE  FALSE
    <3>1. last_change[Other(x)] /\ Stale(v, x)
      BY <2>1, <2>3 DEF shared, Stale
    <3>2. v \in current_active_superstep
      BY <2>1, <2>3, <3>1 DEF CaughtUp, CatchesUp
    <3> QED
      BY <2>2, <2>3, <3>1, <3>2
  <2> QED
    BY <2>3 DEF CaughtUp
<1>6. CASE JoinApplys
  <2>1. /\ UNCHANGED <<shared, current_active_superstep>>
        /\ phase = "apply" /\ phase' = "scatter"
    BY <1>6 DEF JoinApplys, EndPhase, StartPhase
  <2> QED
    BY <2>1, SameStale DEF CatchesUp
<1>7. CASE JoinScatters
  <2>1. /\ UNCHANGED <<shared, next_active_superstep>>
        /\ phase = "scatter" /\ phase' = "none" /\ AllJoined
    BY <1>7 DEF JoinScatters, EndPhase
  <2> SUFFICES ASSUME NEW v \in Vertex, NEW x \in GatherVisits[v],
                      SignalsReader(v, x), last_change'[Other(x)], Stale(v, x)'
               PROVE  v \in next_active_superstep
    BY <2>1 DEF CaughtUp, CatchesUp
  <2>2. last_change[Other(x)] /\ Stale(v, x)
    BY <2>1 DEF shared, Stale
  <2>3. Other(x) \in current_active_superstep
    BY <2>1, <2>2 DEF CaughtUp, CatchesUp
  <2>4. PICK y \in ScatterVisits[Other(x)] : Other(y) = v
    BY DEF SignalsReader
  <2>5. ~StillTo(Other(x), y)
    BY <2>1, JoinedNonePending DEF StillTo
  <2> QED
    BY <2>1, <2>2, <2>3, <2>4, <2>5 DEF ScatterInv, SignalsToCome
<1>8. ASSUME NEW t \in Thread, Worker(t)
      PROVE  CaughtUp'
  BY <1>8, WorkerCaughtUp
<1> QED
  BY <1>1, <1>2, <1>3, <1>4, <1>5, <1>6, <1>7, <1>8 DEF Next, RunLoop, Exited

LEMMA CaughtUpInvariance == Spec => [](EngineInv /\ CaughtUp)
<1>1. Init => CaughtUp
  BY InitCaughtUp
<1>2. EngineInv /\ CaughtUp /\ [Next]_vars => CaughtUp'
  BY NextCaughtUp
<1> QED
  BY <1>1, <1>2, EngineInvariance, PTL DEF Spec

\* Whatever a program gathers and scatters, and whatever tolerance it has, an
\* accumulator that is out of date when run() is back is so by a change that
\* was not significant (sync.cpp:108-112, 196-240; pagerank.cpp:76).
THEOREM NoSignificantChangeMissed == Spec => []OnlySmallChangesMissing
<1>1. EngineInv /\ CaughtUp => OnlySmallChangesMissing
  <2> SUFFICES ASSUME EngineInv, CaughtUp, mpc = "idle", next_active_superstep = {},
                      NEW v \in Vertex, NEW x \in GatherVisits[v],
                      SignalsReader(v, x), last_change[Other(x)]
               PROVE  ~Stale(v, x)
    BY DEF OnlySmallChangesMissing, Stale
  <2>1. phase = "none"
    BY DEF EngineInv, Boundary
  <2> QED
    BY <2>1 DEF CaughtUp, CatchesUp
<1> QED
  BY <1>1, CaughtUpInvariance, PTL

-----------------------------------------------------------------------------
(* Programs that report every change.                                      *)

\* Every change counts as significant, and scatter goes to every vertex that
\* gathers: TOLERANCE is zero and the two directions are opposite, as
\* gather_edges and scatter_edges of pagerank are (pagerank.cpp:34-37, 63-68).
ReportsEveryChange ==
    /\ \A old, new \in Val : old # new => Significant(old, new)
    /\ \A v \in Vertex : \A x \in GatherVisits[v] : SignalsReader(v, x)

\* The directions of pagerank: what is gathered along an in-edge is signalled
\* along the same edge, met as an out-edge of its source.
LEMMA OppositeDirections ==
  ASSUME \A v \in Vertex : GatherDir[v] = "IN_EDGES" /\ ScatterDir[v] = "OUT_EDGES"
  PROVE  \A v \in Vertex : \A x \in GatherVisits[v] : SignalsReader(v, x)
<1> SUFFICES ASSUME NEW v \in Vertex, NEW x \in GatherVisits[v]
             PROVE  \E y \in ScatterVisits[Other(x)] : Other(y) = v
  BY DEF SignalsReader
<1>1. x[1] = "in" /\ x[2] \in Edges /\ Target[x[2]] = v
  BY DEF GatherVisits, Visit, Covers, Near
<1>2. Other(x) = Source[x[2]] /\ Other(x) \in Vertex
  BY <1>1, GatherVisitIsVisit DEF Other
<1> DEFINE y == <<"out", x[2]>>
<1>3. y \in Visit /\ Near(y) = Other(x) /\ Covers("OUT_EDGES", y) /\ Other(y) = v
  BY <1>1, <1>2 DEF Visit, Near, Covers, Other
<1> HIDE DEF y
<1>4. y \in ScatterVisits[Other(x)]
  BY <1>2, <1>3 DEF ScatterVisits
<1> QED
  BY <1>3, <1>4

\* Then what is out of date is so by a change that is remembered.
StaleChanged ==
    \A v \in Vertex : \A x \in GatherVisits[v] :
        Stale(v, x) => last_change[Other(x)]

LEMMA NextStaleChanged ==
  ASSUME ReportsEveryChange, EngineInv, CaughtUp, StaleChanged, [Next]_vars
  PROVE  StaleChanged'
<1> USE DEF EngineInv, IndInv, TypeOK
<1> SUFFICES ASSUME NEW v \in Vertex, NEW x \in GatherVisits[v], Stale(v, x)'
             PROVE  last_change'[Other(x)]
  BY DEF StaleChanged
<1> PICK w \in Vertex : w = Other(x)
  BY GatherVisitIsVisit
<1>1. CASE UNCHANGED shared
  BY <1>1 DEF StaleChanged, Stale, shared
<1>2. ASSUME NEW t \in Thread, FinishGather(t)
      PROVE  last_change'[w]
  <2>1. v # vid[t]
    BY <1>2, WorkerGathersFresh
  <2> QED
    BY <1>2, <2>1 DEF FinishGather, StaleChanged, Stale
<1>3. ASSUME NEW t \in Thread, ApplyVertex(t)
      PROVE  last_change'[w]
  <2>1. CASE w # vid[t]
    BY <1>3, <2>1 DEF ApplyVertex, StaleChanged, Stale
  <2>2. CASE w = vid[t]
    <3> PICK new : new = ApplyTo(w, vdata[w], gather_accum[w])
      OBVIOUS
    <3>1. /\ vdata'[w] = new
          /\ last_change'[w] = Significant(vdata[w], new)
          /\ UNCHANGED gather_accum
      BY <1>3, <2>2 DEF ApplyVertex, Gathered, Remembers
    <3>2. new \in Val
      BY ApplyType
    <3>3. new # vdata[w]
      <4> SUFFICES ASSUME new = vdata[w]
                   PROVE  FALSE
        OBVIOUS
      <4>1. Stale(v, x) /\ last_change[w]
        BY <3>1 DEF Stale, StaleChanged
      <4>2. CatchesUp(v, w)
        BY <4>1 DEF CaughtUp, ReportsEveryChange
      <4>3. pc[t] = "edges" /\ phase = "apply"
        BY <1>3, WorkerFrame DEF Worker, ApplyVertex, At, Control
      <4> QED
        BY <2>2, <4>2, <4>3, AtVertex DEF CatchesUp
    <3> QED
      BY <3>1, <3>2, <3>3 DEF ReportsEveryChange
  <2> QED
    BY <2>1, <2>2
<1>4. ASSUME NEW t \in Thread, Worker(t)
      PROVE  last_change'[w]
  BY <1>1, <1>2, <1>3, <1>4, WorkerShared
<1>5. CASE \A t \in Thread : ~Worker(t)
  <2>1. UNCHANGED shared
    BY <1>5 DEF Next, RunLoop, Exited, Signal, SignalAll, Run, BeginSuperstep,
                Quiesce, MaxedOut, Spawn, JoinGathers, JoinApplys, JoinScatters,
                CreateFails, vars
  <2> QED
    BY <1>1, <2>1
<1> QED
  BY <1>4, <1>5

\* For a program that reports every change, the accumulator of every vertex
\* that ever gathered is up to date when run() is back and no signal is left:
\* no signal is lost between scatter (sync.cpp:196-240), the swap of the
\* bitsets and the next superstep (sync.cpp:108-112).
THEOREM NoStaleAccumulator ==
  ASSUME ReportsEveryChange
  PROVE  Spec => []NoStaleAtQuiescence
<1>1. Init => StaleChanged
  BY GatherVisitIsVisit DEF Init, StaleChanged, Stale, NoAccum
<1>2. EngineInv /\ CaughtUp /\ StaleChanged /\ [Next]_vars => StaleChanged'
  BY NextStaleChanged
<1>3. EngineInv /\ CaughtUp /\ StaleChanged => NoStaleAtQuiescence
  <2> SUFFICES ASSUME EngineInv, CaughtUp, StaleChanged,
                      mpc = "idle", next_active_superstep = {},
                      NEW v \in Vertex, NEW x \in GatherVisits[v]
               PROVE  ~Stale(v, x)
    BY DEF NoStaleAtQuiescence, Stale
  <2>1. phase = "none"
    BY DEF EngineInv, Boundary
  <2>2. Stale(v, x) => CatchesUp(v, Other(x))
    BY DEF CaughtUp, StaleChanged, ReportsEveryChange
  <2> QED
    BY <2>1, <2>2 DEF CatchesUp
<1> QED
  BY <1>1, <1>2, <1>3, CaughtUpInvariance, PTL DEF Spec
=============================================================================
