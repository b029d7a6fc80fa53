----------------------------- MODULE SyncEngine -----------------------------
(***************************************************************************)
(* parallelgraph::Engine (engine/sync.cpp), thread by thread.              *)
(*                                                                         *)
(* The client thread calls signal, signal_all and run; run() starts        *)
(* NThreads workers for each of the three phases of a superstep and joins  *)
(* them all before the next phase.  A worker claims the vertices in blocks *)
(* of W ids by fetch_add on a counter the threads share, copies the word   *)
(* of the active bitset that covers its block, and runs the vertex program *)
(* on the vertices of that word, smallest first, one edge at a time.       *)
(***************************************************************************)
EXTENDS VertexProgram

CONSTANTS
    NThreads,       \* NUM_THREADS
    W,              \* 8 * sizeof(size_t), the bits of a bitset word
    MaxIterations   \* bound; max_iterations is size_t(-1) in the code

ASSUME EngineAssumption ==
    /\ NThreads \in Nat \ {0}
    /\ W \in Nat \ {0}
    /\ MaxIterations \in Nat

Thread == 0 .. NThreads - 1

VARIABLES
    vdata,                      \* vertex -> graph.vertex(v).data()
    gather_accum,               \* vertex -> accumulator
    last_change,                \* vertex -> was its last change significant
    current_active_superstep,   \* the bitset the workers read
    next_active_superstep,      \* the bitset signals go to
    shared_vid_counter,
    iteration_counter,
    mpc,        \* where the client thread is: in the client's own code
                \* ("idle"), at the head of run's loop ("top"), inside
                \* execute_fun ("exec"), or gone with the process ("exited")
    phase,      \* the function execute_fun was given, or "none"
    pc,         \* where each worker is
    fn,         \* the function each worker runs
    block,      \* its vid_block_start
    word,       \* the bits of its vid_block it has not finished
    vid,        \* the vertex it is at
    todo,       \* the visits of that vertex still to make
    accum       \* its local accumulator

shared == <<vdata, gather_accum, last_change>>
active == <<current_active_superstep, next_active_superstep>>
engine == <<shared_vid_counter, iteration_counter>>
main   == <<mpc, phase>>
locals == <<fn, block, word, vid, todo, accum>>
vars   == <<shared, active, engine, main, pc, locals>>

Phase    == {"gather", "apply", "scatter"}
WorkerPC == {"off", "claim", "load", "next", "edges", "exited"}

\* The value of vid when a worker is not at a vertex.
NoVertex == -1

\* current_active_superstep.containing_word(b), as the vertices it stands for.
ContainingWord(bits, b) == {v \in bits : b <= v /\ v < b + W}

Init ==
    /\ vdata \in InitData
    /\ gather_accum = [v \in Vertex |-> NoAccum]
    /\ last_change = [v \in Vertex |-> FALSE]
    /\ current_active_superstep = {}
    /\ next_active_superstep = {}
    /\ shared_vid_counter = 0
    /\ iteration_counter = 0
    /\ mpc = "idle"
    /\ phase = "none"
    /\ pc = [t \in Thread |-> "off"]
    /\ fn = [t \in Thread |-> "none"]
    /\ block = [t \in Thread |-> 0]
    /\ word = [t \in Thread |-> {}]
    /\ vid = [t \in Thread |-> NoVertex]
    /\ todo = [t \in Thread |-> {}]
    /\ accum = [t \in Thread |-> NoAccum]

-----------------------------------------------------------------------------
(* The client.                                                             *)

\* signal(lvid) called from outside run().
Signal(v) ==
    /\ mpc = "idle"
    /\ next_active_superstep' = next_active_superstep \cup {v}
    /\ UNCHANGED <<shared, current_active_superstep, engine, main, pc, locals>>

\* signal_all(): fill() sets the bits of 0 .. nverts - 1 and no other.
SignalAll ==
    /\ mpc = "idle"
    /\ next_active_superstep' = Vertex
    /\ UNCHANGED <<shared, current_active_superstep, engine, main, pc, locals>>

Run ==
    /\ mpc = "idle"
    /\ mpc' = "top"
    /\ UNCHANGED <<shared, active, engine, phase, pc, locals>>

-----------------------------------------------------------------------------
(* The loop of run().                                                      *)

\* execute_fun(fn) from its first line to the creation of the threads.
StartPhase(f) ==
    /\ phase' = f
    /\ mpc' = "exec"
    /\ shared_vid_counter' = 0

\* The while test.  (Off by one: one iteration too many.)
IterationsLeftOrEven == iteration_counter <= MaxIterations
IterationsLeft       == iteration_counter < MaxIterations

\* current_active_superstep = next_active_superstep; the latter is cleared.
\* (Wrong: no clear; the clear before the copy.)
SwapWithoutClear == /\ current_active_superstep' = next_active_superstep
                    /\ UNCHANGED next_active_superstep
ClearThenSwap == /\ current_active_superstep' = {}
                 /\ next_active_superstep' = {}
SwapBitsets == /\ current_active_superstep' = next_active_superstep
               /\ next_active_superstep' = {}

\* Some vertex was signalled: its superstep begins.
BeginSuperstep ==
    /\ mpc = "top"
    /\ IterationsLeft
    /\ next_active_superstep # {}
    /\ SwapBitsets
    /\ StartPhase("gather")
    /\ UNCHANGED <<shared, iteration_counter, pc, locals>>

\* active_vertices <= 0: break.
Quiesce ==
    /\ mpc = "top"
    /\ IterationsLeft
    /\ next_active_superstep = {}
    /\ SwapBitsets
    /\ mpc' = "idle"
    /\ UNCHANGED <<shared, engine, phase, pc, locals>>

\* The while test fails; what was signalled stays signalled.
MaxedOut ==
    /\ mpc = "top"
    /\ ~IterationsLeft
    /\ mpc' = "idle"
    /\ UNCHANGED <<shared, active, engine, phase, pc, locals>>

\* pthread_create of thread t, the threads before it having been created.
Spawn(t) ==
    /\ mpc = "exec"
    /\ pc[t] = "off"
    /\ \A u \in Thread : u < t => pc[u] # "off"
    /\ pc' = [pc EXCEPT ![t] = "claim"]
    /\ fn' = [fn EXCEPT ![t] = phase]
    /\ UNCHANGED <<shared, active, engine, main, block, word, vid, todo, accum>>

\* pthread_create returns an error: exit(-1), which ends the other threads.
CreateFails ==
    /\ mpc = "exec"
    /\ \E t \in Thread : pc[t] = "off"
    /\ mpc' = "exited"
    /\ UNCHANGED <<shared, active, engine, phase, pc, locals>>

\* All the calls of pthread_join have returned.
AllJoined == \A t \in Thread : pc[t] = "exited"

EndPhase(f) ==
    /\ mpc = "exec"
    /\ phase = f
    /\ AllJoined
    /\ pc' = [t \in Thread |-> "off"]
    /\ fn' = [t \in Thread |-> "none"]

JoinGathers ==
    /\ EndPhase("gather")
    /\ StartPhase("apply")
    /\ UNCHANGED <<shared, active, iteration_counter,
                   block, word, vid, todo, accum>>

JoinApplys ==
    /\ EndPhase("apply")
    /\ StartPhase("scatter")
    /\ UNCHANGED <<shared, active, iteration_counter,
                   block, word, vid, todo, accum>>

JoinScatters ==
    /\ EndPhase("scatter")
    /\ phase' = "none"
    /\ mpc' = "top"
    /\ iteration_counter' = iteration_counter + 1
    /\ UNCHANGED <<shared, active, shared_vid_counter,
                   block, word, vid, todo, accum>>

-----------------------------------------------------------------------------
(* The workers.  Their steps stop when the process has exited.             *)

At(t, where) == mpc = "exec" /\ pc[t] = where

\* The argument of fetch_add.  (Wrong: blocks that overlap by a bit.)
ShortStride == W - 1
Stride      == W

\* vid_block_start >= nverts.  (Wrong: the last block, if not full, is left.)
NoFullBlock(start) == start + W > NVerts
NoBlock(start)     == start >= NVerts

\* shared_vid_counter.fetch_add(W), then break or go on to the block.
Claim(t) ==
    /\ At(t, "claim")
    /\ shared_vid_counter' = shared_vid_counter + Stride
    /\ IF NoBlock(shared_vid_counter)
       THEN /\ pc' = [pc EXCEPT ![t] = "exited"]
            /\ UNCHANGED block
       ELSE /\ pc' = [pc EXCEPT ![t] = "load"]
            /\ block' = [block EXCEPT ![t] = shared_vid_counter]
    /\ UNCHANGED <<shared, active, iteration_counter, main,
                   fn, word, vid, todo, accum>>

\* Where `continue' leads.  (Wrong: to the same word again.)
ReloadWord == "load"
Continue   == "claim"

\* The bitset a worker reads its word from.
ActiveBits == current_active_superstep

\* vid_block = ...containing_word(vid_block_start); an empty word is skipped.
LoadWord(t) ==
    /\ At(t, "load")
    /\ LET bits == ContainingWord(ActiveBits, block[t]) IN
       /\ word' = [word EXCEPT ![t] = bits]
       /\ IF bits = {}
          THEN pc' = [pc EXCEPT ![t] = Continue]
          ELSE pc' = [pc EXCEPT ![t] = "next"]
    /\ UNCHANGED <<shared, active, engine, main,
                   fn, block, vid, todo, accum>>

\* The edges the program asks the worker's function to go over.
\* (Wrong: scatter goes over the edges gather_edges names.)
GatheredEdges(f, v) == IF f = "apply" THEN {} ELSE GatherVisits[v]
VisitsFor(f, v) == CASE f = "gather"  -> GatherVisits[v]
                     [] f = "scatter" -> ScatterVisits[v]
                     [] OTHER         -> {}

\* The iterator moves to the smallest vertex left in the word.
StartVertex(t) ==
    /\ At(t, "next")
    /\ \E v \in word[t] :
        /\ \A u \in word[t] : v <= u
        /\ vid' = [vid EXCEPT ![t] = v]
        /\ todo' = [todo EXCEPT ![t] = VisitsFor(fn[t], v)]
    /\ accum' = [accum EXCEPT ![t] = NoAccum]
    /\ pc' = [pc EXCEPT ![t] = "edges"]
    /\ UNCHANGED <<shared, active, engine, main, fn, block, word>>

\* The end of a vertex: on to the next bit, or back for another block.
\* What the loop body declared goes out of scope.
EndVertex(t) ==
    /\ word' = [word EXCEPT ![t] = @ \ {vid[t]}]
    /\ pc' = [pc EXCEPT ![t] = IF word[t] = {vid[t]} THEN "claim" ELSE "next"]
    /\ vid' = [vid EXCEPT ![t] = NoVertex]
    /\ accum' = [accum EXCEPT ![t] = NoAccum]
    /\ UNCHANGED <<fn, block, todo>>

\* accum += vprog.gather(context, vertex, edge) for one edge.
GatherEdge(t) ==
    /\ At(t, "edges")
    /\ fn[t] = "gather"
    /\ \E x \in todo[t] :
        /\ accum' = [accum EXCEPT ![t][x] = vdata[Other(x)]]
        /\ todo' = [todo EXCEPT ![t] = @ \ {x}]
    /\ UNCHANGED <<shared, active, engine, main, pc, fn, block, word, vid>>

\* gather_accum[vid] = accum.
FinishGather(t) ==
    /\ At(t, "edges")
    /\ fn[t] = "gather"
    /\ todo[t] = {}
    /\ gather_accum' = [gather_accum EXCEPT ![vid[t]] = accum[t]]
    /\ EndVertex(t)
    /\ UNCHANGED <<vdata, last_change, active, engine, main>>

\* What apply is given.  (Wrong: the neighbours' data of this moment.)
GatheredNow(v) == GatherOf(v, vdata)
Gathered(v)    == gather_accum[v]

\* What the program of v remembers of its change.  (Wrong: vprog is a copy.)
RemembersNothing(v, new) == last_change[v]
Remembers(v, new)        == Significant(vdata[v], new)

\* vprog.apply(context, vertex, gather_accum[vid]), vprog by reference: it
\* stores the new data and remembers the change for scatter.
ApplyVertex(t) ==
    /\ At(t, "edges")
    /\ fn[t] = "apply"
    /\ LET v   == vid[t]
           new == ApplyTo(v, vdata[v], Gathered(v))
       IN /\ vdata' = [vdata EXCEPT ![v] = new]
          /\ last_change' = [last_change EXCEPT ![v] = Remembers(v, new)]
    /\ EndVertex(t)
    /\ UNCHANGED <<gather_accum, active, engine, main>>

\* vprog.scatter(context, vertex, edge) for one edge: a significant change
\* signals the far end, for the next superstep.
ScatterEdge(t) ==
    /\ At(t, "edges")
    /\ fn[t] = "scatter"
    /\ \E x \in todo[t] :
        /\ next_active_superstep' =
              IF last_change[vid[t]]
              THEN next_active_superstep \cup {Other(x)}
              ELSE next_active_superstep
        /\ todo' = [todo EXCEPT ![t] = @ \ {x}]
    /\ UNCHANGED <<shared, current_active_superstep, engine, main, pc,
                   fn, block, word, vid, accum>>

FinishScatter(t) ==
    /\ At(t, "edges")
    /\ fn[t] = "scatter"
    /\ todo[t] = {}
    /\ EndVertex(t)
    /\ UNCHANGED <<shared, active, engine, main>>

Worker(t) ==
    \/ Claim(t)
    \/ LoadWord(t)
    \/ StartVertex(t)
    \/ GatherEdge(t)
    \/ FinishGather(t)
    \/ ApplyVertex(t)
    \/ ScatterEdge(t)
    \/ FinishScatter(t)

RunLoop ==
    \/ BeginSuperstep
    \/ Quiesce
    \/ MaxedOut
    \/ \E t \in Thread : Spawn(t)
    \/ JoinGathers
    \/ JoinApplys
    \/ JoinScatters

\* After exit(-1) nothing happens any more.
Exited == mpc = "exited" /\ UNCHANGED vars

Next ==
    \/ \E v \in Vertex : Signal(v)
    \/ SignalAll
    \/ Run
    \/ RunLoop
    \/ CreateFails
    \/ \E t \in Thread : Worker(t)
    \/ Exited

\* The operating system runs every runnable thread.  The client owes nothing:
\* it need never signal or call run().
Fairness ==
    /\ WF_vars(RunLoop)
    /\ \A t \in Thread : WF_vars(Worker(t))

Spec == Init /\ [][Next]_vars /\ Fairness
-----------------------------------------------------------------------------
(* Properties.                                                             *)

TypeOK ==
    /\ vdata \in [Vertex -> Val]
    /\ gather_accum \in [Vertex -> Accum]
    /\ last_change \in [Vertex -> BOOLEAN]
    /\ current_active_superstep \in SUBSET Vertex
    /\ next_active_superstep \in SUBSET Vertex
    /\ shared_vid_counter \in Nat
    /\ iteration_counter \in 0 .. MaxIterations
    /\ mpc \in {"idle", "top", "exec", "exited"}
    /\ phase \in Phase \cup {"none"}
    /\ pc \in [Thread -> WorkerPC]
    /\ fn \in [Thread -> Phase \cup {"none"}]
    /\ block \in [Thread -> Nat]
    /\ word \in [Thread -> SUBSET Vertex]
    /\ vid \in [Thread -> Vertex \cup {NoVertex}]
    /\ todo \in [Thread -> SUBSET Visit]
    /\ accum \in [Thread -> Accum]

\* Worker t runs function f on vertex v.
Runs(t, f, v) == pc[t] = "edges" /\ fn[t] = f /\ vid[t] = v

\* Nothing in the engine is locked: the accesses to the vertex data, to the
\* accumulators and to the vertex programs are free of data races because two
\* workers never run a function on the same vertex (they claim disjoint
\* blocks, sync.cpp:131, 178, 202), and because no worker applies, which
\* writes the data and the program of its vertex, while another one gathers
\* or scatters, which read those of the neighbours (the joins, sync.cpp:87-90).
RaceFree ==
    \A t, u \in Thread : t # u /\ pc[t] = "edges" /\ pc[u] = "edges" =>
        /\ vid[t] # vid[u]
        /\ fn[t] = "apply" => fn[u] = "apply"

\* Vertex v of this superstep is still to be visited in the running phase:
\* its block was not claimed, or the worker that claimed it has not come to v.
Pending(v) ==
    /\ v \in current_active_superstep
    /\ \/ v >= shared_vid_counter
       \/ \E t \in Thread : \/ pc[t] = "load" /\ v \in ContainingWord(Vertex, block[t])
                            \/ v \in word[t]

\* When the gather phase is over for a vertex, its accumulator holds the
\* current data of every neighbour it asked for: no vertex is skipped by the
\* claiming of blocks and of bits, and no accumulator of an earlier superstep
\* survives (execute_gathers, sync.cpp:125-171).
GatherComplete ==
    phase = "gather" =>
        \A v \in current_active_superstep :
            ~Pending(v) => gather_accum[v] = GatherOf(v, vdata)

\* When run() is back and no signal is left, the accumulator of every vertex
\* that ever gathered is up to date: whatever changed after v gathered it, v
\* was signalled and gathered it again.  A signal lost anywhere between
\* scatter (sync.cpp:196-240), the swap of the bitsets and the next superstep
\* (sync.cpp:108-112) leaves a stale accumulator behind.  It holds for a
\* program that signals every change to all the vertices that gather it.
NoStaleAtQuiescence ==
    mpc = "idle" /\ next_active_superstep = {} =>
        \A v \in Vertex : \A x \in GatherVisits[v] :
            gather_accum[v][x] \in {NoValue, vdata[Other(x)]}

\* v reads u's data through x, and u signals v when its data changes enough.
SignalsReader(v, x) == \E y \in ScatterVisits[Other(x)] : Other(y) = v

\* The same for a program with a tolerance (pagerank.cpp:76), whatever it
\* gathers and scatters: an accumulator that is out of date when run() is back
\* is so by a change of its neighbour that was not significant.  A significant
\* change is never what is missing, so ranks are off by changes each below
\* the tolerance and by nothing else.
OnlySmallChangesMissing ==
    mpc = "idle" /\ next_active_superstep = {} =>
        \A v \in Vertex : \A x \in GatherVisits[v] :
            SignalsReader(v, x) /\ last_change[Other(x)] =>
                gather_accum[v][x] \in {NoValue, vdata[Other(x)]}

\* The superstep an open signal is for: the next one that starts.
NextIteration == iteration_counter + (IF mpc = "exec" THEN 1 ELSE 0)

\* v was signalled, by the client or by a scatter, and run() has an iteration
\* left for it.
Owed(v) == /\ v \in next_active_superstep
           /\ mpc \in {"top", "exec"}
           /\ NextIteration < MaxIterations

\* Every such vertex is applied (with the whole pipeline of sync.cpp:101-124
\* in between), unless the process exits because a thread was not created.
SignalServed ==
    \A v \in Vertex :
        Owed(v) ~> \/ phase = "apply" /\ \E t \in Thread : Runs(t, "apply", v)
                   \/ mpc = "exited"

\* run() returns, or the process exits: no worker is left waiting and the
\* joins never wait for ever.
RunReturns == mpc = "top" ~> mpc \in {"idle", "exited"}
=============================================================================
