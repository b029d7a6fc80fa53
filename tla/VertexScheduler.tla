--------------------------- MODULE VertexScheduler ---------------------------
(***************************************************************************)
(* The scheduler of the older graph (graph/graph.1.hpp) and the program    *)
(* that drives it (apps/main.cpp): a queue of vertices, a matrix of flags  *)
(* that marks the row and the column of a vertex being run, and a mutex    *)
(* around both.  main starts NThreads threads that take one vertex each,   *)
(* joins them, and starts over while the queue is not empty.               *)
(***************************************************************************)
EXTENDS Integers, Sequences

CONSTANTS NVerts,       \* current_local_id + 1, after load
          NThreads      \* NUM_THREADS

ASSUME SchedulerAssumption == NVerts \in Nat /\ NThreads \in Nat \ {0}

Vertex == 0 .. NVerts - 1
Thread == 0 .. NThreads - 1

\* No thread; what get_vertex_to_run returns when it finds no vertex.
Nobody  == -1
Nothing == -1

VARIABLES
    activate_vertexes,  \* the queue
    matrix_flag,        \* <<row, column>> -> is it marked
    matrix_mutex,       \* the thread that holds it, or Nobody
    mpc,                \* main: "test", "create", "join", "end" or "exited"
    pc,                 \* where each thread is
    vertex,             \* the vertex a thread looks at or was given
    count,              \* the vertices it has looked at
    ran                 \* history: vertex -> how often it was run

queue  == <<activate_vertexes, matrix_flag>>
locals == <<vertex, count>>
vars   == <<queue, matrix_mutex, mpc, pc, locals, ran>>

\* "idle": not created; "get": calls get_vertex_to_run; "look": in its loop;
\* "run": has a vertex; "restore": calls resotore_vertex; "sleep": has none;
\* "done": has ended.
ThreadPC == {"idle", "get", "look", "run", "restore", "sleep", "done"}

\* load, with init_matrix_flag at its end.
Init ==
    /\ activate_vertexes = [k \in 1 .. NVerts |-> k - 1]
    /\ matrix_flag = [cell \in Vertex \X Vertex |-> FALSE]
    /\ matrix_mutex = Nobody
    /\ mpc = "test"
    /\ pc = [t \in Thread |-> "idle"]
    /\ vertex = [t \in Thread |-> Nothing]
    /\ count = [t \in Thread |-> 0]
    /\ ran = [v \in Vertex |-> 0]

-----------------------------------------------------------------------------
(* main.                                                                   *)

\* while (activate_vertexes.size() > 0)
Test ==
    /\ mpc = "test"
    /\ mpc' = IF activate_vertexes # <<>> THEN "create" ELSE "end"
    /\ UNCHANGED <<queue, matrix_mutex, pc, locals, ran>>

Create(t) ==
    /\ mpc = "create"
    /\ pc[t] = "idle"
    /\ \A u \in Thread : u < t => pc[u] # "idle"
    /\ pc' = [pc EXCEPT ![t] = "get"]
    /\ mpc' = IF t = NThreads - 1 THEN "join" ELSE "create"
    /\ UNCHANGED <<queue, matrix_mutex, locals, ran>>

\* pthread_create returns an error: exit(-1).
CreateFails ==
    /\ mpc = "create"
    /\ mpc' = "exited"
    /\ UNCHANGED <<queue, matrix_mutex, pc, locals, ran>>

Join ==
    /\ mpc = "join"
    /\ \A t \in Thread : pc[t] = "done"
    /\ pc' = [t \in Thread |-> "idle"]
    /\ mpc' = "test"
    /\ UNCHANGED <<queue, matrix_mutex, locals, ran>>

-----------------------------------------------------------------------------
(* Printvertex.                                                            *)

At(t, where) == mpc \in {"create", "join"} /\ pc[t] = where

\* get_vertex_to_run locks.
Lock(t) ==
    /\ At(t, "get")
    /\ matrix_mutex = Nobody
    /\ matrix_mutex' = t
    /\ count' = [count EXCEPT ![t] = 0]
    /\ pc' = [pc EXCEPT ![t] = "look"]
    /\ UNCHANGED <<queue, mpc, vertex, ran>>

\* count <= current_local_id and activate_vertexes.size() > 0
KeepsLooking(t) == count[t] <= NVerts - 1 /\ activate_vertexes # <<>>

\* The two scans of the column and the row.  (Wrong: the vertex's own cell.)
SelfOccupied(v) == matrix_flag[<<v, v>>]
Occupied(v) == \E i \in Vertex : matrix_flag[<<i, v>>] \/ matrix_flag[<<v, i>>]

\* (Wrong: the column is left unmarked; the column is left marked.)
MarkedRow(v) == [cell \in Vertex \X Vertex |-> matrix_flag[cell] \/ cell[1] = v]
Marked(v)    == [cell \in Vertex \X Vertex |->
                    matrix_flag[cell] \/ cell[1] = v \/ cell[2] = v]
ClearedRow(v) == [cell \in Vertex \X Vertex |-> matrix_flag[cell] /\ cell[1] # v]
Cleared(v)   == [cell \in Vertex \X Vertex |->
                    matrix_flag[cell] /\ cell[1] # v /\ cell[2] # v]

\* The queue after pop.  (Wrong: front without pop.)
NotPopped == activate_vertexes
Popped    == Tail(activate_vertexes)

\* The vertex at the front is free: it leaves the queue, its row and column
\* are marked, and the mutex is released.
Take(t) ==
    /\ At(t, "look")
    /\ KeepsLooking(t)
    /\ LET v == Head(activate_vertexes) IN
       /\ ~Occupied(v)
       /\ activate_vertexes' = Popped
       /\ matrix_flag' = Marked(v)
       /\ vertex' = [vertex EXCEPT ![t] = v]
    /\ matrix_mutex' = Nobody
    /\ pc' = [pc EXCEPT ![t] = "run"]
    /\ UNCHANGED <<mpc, count, ran>>

\* What is left of the queue when the front is occupied.
\* (Wrong: the vertex is dropped.)
Dropped == Tail(activate_vertexes)
Rotated == Append(Tail(activate_vertexes), Head(activate_vertexes))

\* It is not free: it goes to the end of the queue.
Rotate(t) ==
    /\ At(t, "look")
    /\ KeepsLooking(t)
    /\ Occupied(Head(activate_vertexes))
    /\ activate_vertexes' = Rotated
    /\ count' = [count EXCEPT ![t] = @ + 1]
    /\ UNCHANGED <<matrix_flag, matrix_mutex, mpc, pc, vertex, ran>>

\* The loop ends: unlock, return -1.
GiveUp(t) ==
    /\ At(t, "look")
    /\ ~KeepsLooking(t)
    /\ matrix_mutex' = Nobody
    /\ vertex' = [vertex EXCEPT ![t] = Nothing]
    /\ pc' = [pc EXCEPT ![t] = "sleep"]
    /\ UNCHANGED <<queue, mpc, count, ran>>

\* The work on the vertex.
Work(t) ==
    /\ At(t, "run")
    /\ ran' = [ran EXCEPT ![vertex[t]] = @ + 1]
    /\ pc' = [pc EXCEPT ![t] = "restore"]
    /\ UNCHANGED <<queue, matrix_mutex, mpc, locals>>

\* resotore_vertex, which locks, clears the row and the column, and unlocks.
Restore(t) ==
    /\ At(t, "restore")
    /\ matrix_mutex = Nobody
    /\ matrix_flag' = Cleared(vertex[t])
    /\ pc' = [pc EXCEPT ![t] = "done"]
    /\ UNCHANGED <<activate_vertexes, matrix_mutex, mpc, locals, ran>>

\* sleep(2), and the thread ends.
Sleep(t) ==
    /\ At(t, "sleep")
    /\ pc' = [pc EXCEPT ![t] = "done"]
    /\ UNCHANGED <<queue, matrix_mutex, mpc, locals, ran>>

Printvertex(t) == \/ Lock(t)
                  \/ Take(t)
                  \/ Rotate(t)
                  \/ GiveUp(t)
                  \/ Work(t)
                  \/ Restore(t)
                  \/ Sleep(t)

Main == Test \/ (\E t \in Thread : Create(t)) \/ Join

\* The program has ended.
Ended == mpc \in {"end", "exited"} /\ UNCHANGED vars

Next == \/ Main
        \/ CreateFails
        \/ \E t \in Thread : Printvertex(t)
        \/ Ended

\* Every thread that can run does.  Each locks at most twice before it ends,
\* so a waiting thread finds the mutex free at last without more fairness.
Fairness == WF_vars(Main) /\ \A t \in Thread : WF_vars(Printvertex(t))

Spec == Init /\ [][Next]_vars /\ Fairness

-----------------------------------------------------------------------------
(* Properties.                                                             *)

TypeOK ==
    /\ activate_vertexes \in Seq(Vertex)
    /\ matrix_flag \in [Vertex \X Vertex -> BOOLEAN]
    /\ matrix_mutex \in Thread \cup {Nobody}
    /\ mpc \in {"test", "create", "join", "end", "exited"}
    /\ pc \in [Thread -> ThreadPC]
    /\ vertex \in [Thread -> Vertex \cup {Nothing}]
    /\ count \in [Thread -> 0 .. NVerts]
    /\ ran \in [Vertex -> Nat]

\* Thread t was given a vertex and has not restored it.
Holds(t) == pc[t] \in {"run", "restore"}

\* No two threads have a vertex at the same time.  The flags are meant to keep
\* neighbours apart; they do, since marking the row and the column of one
\* vertex makes every other one occupied (graph.1.hpp:284-307).
OneAtATime == \A t, u \in Thread : Holds(t) /\ Holds(u) => t = u

\* The marked cells are the rows and columns of the vertices that threads
\* have: a vertex restored in the middle of another's run would clear the
\* cell they share (graph.1.hpp:319-327).
FlagsMatchHolders ==
    \A cell \in Vertex \X Vertex :
        matrix_flag[cell] <=>
            \E t \in Thread : Holds(t) /\ vertex[t] \in {cell[1], cell[2]}

\* Where a vertex is: the places of the queue it is at.
InQueue(v) == {k \in 1 .. Len(activate_vertexes) : activate_vertexes[k] = v}

\* A vertex is never lost and never duplicated by the rotation of the queue:
\* it waits in the queue, once, or a thread has it, or it was run, once.
NeverLost ==
    \A v \in Vertex :
        \/ ran[v] = 0 /\ \E k \in DOMAIN activate_vertexes : InQueue(v) = {k}
        \/ ran[v] = 0 /\ InQueue(v) = {} /\ \E t \in Thread : pc[t] = "run" /\ vertex[t] = v
        \/ ran[v] = 1 /\ InQueue(v) = {}

\* A thread comes away with nothing only if nothing is left or another thread
\* has a vertex: the bound of the rotation (graph.1.hpp:280) does not make it
\* miss a free one.
GivesUpForAReason ==
    [][\A t \in Thread : GiveUp(t) => \/ activate_vertexes = <<>>
                                      \/ \E u \in Thread : Holds(u)]_vars

\* The program ends, and if no thread failed to start every vertex was run:
\* each round of threads takes at least one off the queue.
EndsWithAllRun == <>(mpc = "exited" \/ (mpc = "end" /\ \A v \in Vertex : ran[v] = 1))
=============================================================================
