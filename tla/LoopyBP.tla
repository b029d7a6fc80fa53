------------------------------ MODULE LoopyBP ------------------------------
(***************************************************************************)
(* Belief propagation (apps/lbp/main.cpp).  An edge keeps the new and the  *)
(* old message of both of its directions.  A vertex taken from the queue   *)
(* makes the messages it has received old, computes its belief from them,  *)
(* then the messages it sends, and queues every neighbour whose message    *)
(* differs from the old one by more than the tolerance.                    *)
(*                                                                         *)
(* The belief is a sum that starts from a vector nobody has initialised    *)
(* (lines 161-162), so the message that follows from it may be any.        *)
(***************************************************************************)
EXTENDS Integers, Sequences

CONSTANTS
    NVerts,             \* graphi.vertices.size()
    Edges,              \* the edge ids
    Source, Target,     \* the end points of an edge
    OutEdges, InEdges,  \* vertex -> the pairs <<other end, edge id>>, in order
    Val,                \* the messages
    ZeroMessage,        \* setZero
    Differs(_, _),      \* the residual of two messages is above 0.01
    MaxQueue            \* bound on the queue

Vertex == 0 .. NVerts - 1

\* The edges the program goes over: those out of a vertex, then those into it.
Visits(v) == OutEdges[v] \o InEdges[v]

\* message_idx, without its last bit.
MessageIdx(source_id, target_id) == source_id < target_id

\* The messages of an edge in one direction.
Slot == Edges \X BOOLEAN
SlotOf(e, source_id, target_id) == <<e, MessageIdx(source_id, target_id)>>

ASSUME GraphAssumption ==
    /\ NVerts \in Nat
    /\ OutEdges \in [Vertex -> Seq(Vertex \X Edges)]
    /\ InEdges \in [Vertex -> Seq(Vertex \X Edges)]
    /\ \A v \in Vertex : \A i \in DOMAIN OutEdges[v] :
          LET x == OutEdges[v][i] IN Source[x[2]] = v /\ Target[x[2]] = x[1]
    /\ \A v \in Vertex : \A i \in DOMAIN InEdges[v] :
          LET x == InEdges[v][i] IN Target[x[2]] = v /\ Source[x[2]] = x[1]

ASSUME MessageAssumption ==
    /\ ZeroMessage \in Val
    /\ \A m \in Val : ~Differs(m, m)
    /\ MaxQueue \in Nat

VARIABLES
    run,            \* the queue
    message,        \* slot -> the new message
    old_message,    \* slot -> the old message
    visit,          \* the visit of the scatter loop to come, or 0 between turns
    served          \* history: the vertices whose belief was computed

vars == <<run, message, old_message, visit, served>>

Init == /\ run = [k \in 1 .. NVerts |-> k - 1]
        /\ message = [s \in Slot |-> ZeroMessage]
        /\ old_message = [s \in Slot |-> ZeroMessage]
        /\ visit = 0
        /\ served = {}

\* The slots of the messages v receives.  (Wrong: over its out-edges only.)
ReceivedOut(v) ==
    {SlotOf(OutEdges[v][i][2], OutEdges[v][i][1], v) : i \in DOMAIN OutEdges[v]}
Received(v) ==
    {SlotOf(Visits(v)[i][2], Visits(v)[i][1], v) : i \in DOMAIN Visits(v)}

\* Gather and Apply: update_old for every edge of the vertex at the front.
GatherApply ==
    /\ visit = 0
    /\ run # <<>>
    /\ LET v == Head(run) IN
       /\ old_message' = [s \in Slot |-> IF s \in Received(v) THEN message[s]
                                                              ELSE old_message[s]]
       /\ served' = served \cup {v}
    /\ visit' = 1
    /\ UNCHANGED <<run, message>>

\* if (residual > 0.01) run.push(x.first).
Push(x, new, old) == IF Differs(new, old) THEN Append(run, x[1]) ELSE run

\* One edge of the scatter loop.
ScatterEdge ==
    /\ visit > 0
    /\ visit \in DOMAIN Visits(Head(run))
    /\ LET x == Visits(Head(run))[visit]
           s == SlotOf(x[2], Head(run), x[1])
       IN \E new \in Val :
             /\ message' = [message EXCEPT ![s] = new]
             /\ run' = Push(x, new, old_message[s])
    /\ Len(run') <= MaxQueue
    /\ visit' = visit + 1
    /\ UNCHANGED <<old_message, served>>

\* What run.pop() leaves.  (Wrong: the back is popped; front without pop.)
PoppedBack == SubSeq(run, 1, Len(run) - 1)
NotPopped  == run
Popped     == Tail(run)

\* run.pop(), at the end of the turn.
Pop == /\ visit > 0
       /\ visit = Len(Visits(Head(run))) + 1
       /\ run' = Popped
       /\ visit' = 0
       /\ UNCHANGED <<message, old_message, served>>

\* The loop has ended.
Ended == visit = 0 /\ run = <<>> /\ UNCHANGED vars

Next == GatherApply \/ ScatterEdge \/ Pop \/ Ended

\* The program has one thread, which goes on as long as there is a turn to make.
Spec == Init /\ [][Next]_vars /\ WF_vars(GatherApply \/ ScatterEdge \/ Pop)
-----------------------------------------------------------------------------
(* Properties.                                                             *)

TypeOK ==
    /\ run \in Seq(Vertex)
    /\ message \in [Slot -> Val]
    /\ old_message \in [Slot -> Val]
    /\ visit \in Nat
    /\ visit > 0 => run # <<>> /\ visit <= Len(Visits(Head(run))) + 1
    /\ served \subseteq Vertex

\* v will have a turn: the one at the front does not count once it has begun.
Waiting(v) == \E k \in DOMAIN run : run[k] = v /\ (visit > 0 => k > 1)

\* A message that differs from the one its receiver has last used is not
\* forgotten: the receiver waits in the queue (lbp/main.cpp:164-180, 221,
\* 256).  The comparison is with the last message used, not with the last one
\* sent, so changes below the tolerance do not add up unnoticed; and the
\* vertex popped at the end of the turn is the one that had it, whatever was
\* pushed meanwhile.
ChangedIsQueued ==
    \A v \in Vertex : \A i \in DOMAIN Visits(v) :
        LET s == SlotOf(Visits(v)[i][2], Visits(v)[i][1], v)
        IN Differs(message[s], old_message[s]) => Waiting(v)

\* Every vertex gets a belief before the loop ends, which save_pred needs.
NobodyForgotten == \A v \in Vertex : v \in served \/ Waiting(v)

\* The new messages are within the tolerance of the old ones.
Settled == \A s \in Slot : ~Differs(message[s], old_message[s])

\* The loop has no bound on its rounds: it ends when the messages settle, and
\* then it does, for only a message that differs puts a vertex back into the
\* queue and each turn takes one out (lbp/main.cpp:154-261).
SettlesThenEnds == <>[]Settled => <>(run = <<>>)
=============================================================================
