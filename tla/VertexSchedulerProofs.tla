------------------------ MODULE VertexSchedulerProofs ------------------------
(***************************************************************************)
(* Proofs about the vertex scheduler, for any number of vertices and of    *)
(* threads.  OneAtATime follows from FlagsMatchHolders: a thread takes a   *)
(* vertex only when none of its cells is marked, and each held vertex      *)
(* marks a cell of every other one.  FlagsMatchHolders in turn needs       *)
(* OneAtATime, since clearing the row and column of a vertex is right only *)
(* when nobody else has one; the two are inductive together.  NeverLost    *)
(* rests on them: the vertex taken is at the front and nobody else has it. *)
(* For GivesUpForAReason: a thread that has rotated the queue saw a flag,  *)
(* whose holder cannot go while the first one has the mutex.               *)
(***************************************************************************)
EXTENDS VertexScheduler, TLAPS

\* A thread that holds has a vertex.
HoldersHave == \A t \in Thread : Holds(t) => vertex[t] \in Vertex

\* Main has joined everybody when it tests the queue.
NobodyLeft == mpc \in {"test", "end"} => \A t \in Thread : pc[t] = "idle"

IndInv == TypeOK /\ HoldersHave /\ NobodyLeft /\ OneAtATime /\ FlagsMatchHolders

LEMMA InitIndInv == Init => IndInv
<1> SUFFICES ASSUME Init PROVE IndInv
  OBVIOUS
<1>1. activate_vertexes \in Seq(Vertex)
  <2>1. NVerts \in Nat /\ \A k \in 1 .. NVerts : k - 1 \in Vertex
    BY SchedulerAssumption DEF Vertex
  <2> QED
    BY <2>1 DEF Init
<1>2. TypeOK
  BY <1>1, SchedulerAssumption DEF Init, TypeOK, ThreadPC, Nothing, Nobody
<1> QED
  BY <1>2 DEF Init, IndInv, HoldersHave, NobodyLeft, OneAtATime,
              FlagsMatchHolders, Holds

\* The steps that leave the flags and the holders alone.
LEMMA SameHolders ==
  ASSUME IndInv, UNCHANGED matrix_flag,
         \A t \in Thread : Holds(t)' <=> Holds(t),
         \A t \in Thread : Holds(t) => vertex'[t] = vertex[t]
  PROVE  HoldersHave' /\ OneAtATime' /\ FlagsMatchHolders'
  BY DEF IndInv, HoldersHave, OneAtATime, FlagsMatchHolders

LEMMA MainIndInv ==
  ASSUME IndInv, Main \/ CreateFails
  PROVE  IndInv'
<1> USE SchedulerAssumption DEF TypeOK, ThreadPC, NobodyLeft, queue, locals, Holds
<1>1. CASE Test
  <2>1. TypeOK' /\ NobodyLeft'
    BY <1>1 DEF Test, IndInv
  <2> QED
    BY <1>1, <2>1, SameHolders DEF Test, IndInv
<1>2. ASSUME NEW t \in Thread, Create(t)
      PROVE  IndInv'
  <2>1. TypeOK' /\ NobodyLeft'
    BY <1>2 DEF Create, IndInv
  <2> QED
    BY <1>2, <2>1, SameHolders DEF Create, IndInv
<1>3. CASE Join
  <2>1. TypeOK' /\ NobodyLeft'
    BY <1>3 DEF Join, IndInv
  <2> QED
    BY <1>3, <2>1, SameHolders DEF Join, IndInv
<1>4. CASE CreateFails
  <2>1. TypeOK' /\ NobodyLeft'
    BY <1>4 DEF CreateFails, IndInv
  <2> QED
    BY <1>4, <2>1, SameHolders DEF CreateFails, IndInv
<1> QED
  BY <1>1, <1>2, <1>3, <1>4 DEF Main

LEMMA PrintvertexType ==
  ASSUME IndInv, NEW t \in Thread, Printvertex(t)
  PROVE  TypeOK' /\ NobodyLeft'
<1> USE SchedulerAssumption DEF IndInv, TypeOK, ThreadPC, NobodyLeft, queue, locals, At
<1>1. CASE Lock(t)
  BY <1>1 DEF Lock
<1>2. CASE Take(t)
  <2>1. activate_vertexes # <<>>
    BY <1>2 DEF Take, KeepsLooking
  <2>2. /\ Head(activate_vertexes) \in Vertex
        /\ Tail(activate_vertexes) \in Seq(Vertex)
    BY <2>1
  <2> QED
    BY <1>2, <2>2 DEF Take, Marked, Popped
<1>3. CASE Rotate(t)
  <2>1. activate_vertexes # <<>> /\ count[t] + 1 \in 0 .. NVerts
    BY <1>3 DEF Rotate, KeepsLooking
  <2>2. /\ Head(activate_vertexes) \in Vertex
        /\ Tail(activate_vertexes) \in Seq(Vertex)
    BY <2>1
  <2>3. Rotated \in Seq(Vertex)
    BY <2>2 DEF Rotated
  <2> QED
    BY <1>3, <2>1, <2>3 DEF Rotate
<1>4. CASE GiveUp(t)
  BY <1>4 DEF GiveUp, Nothing
<1>5. CASE Work(t)
  <2>1. vertex[t] \in Vertex
    BY <1>5 DEF Work, HoldersHave, Holds
  <2>2. ran' \in [Vertex -> Nat]
    BY <1>5, <2>1 DEF Work
  <2> QED
    BY <1>5, <2>2 DEF Work
<1>6. CASE Restore(t)
  BY <1>6 DEF Restore, Cleared
<1>7. CASE Sleep(t)
  BY <1>7 DEF Sleep
<1> QED
  BY <1>1, <1>2, <1>3, <1>4, <1>5, <1>6, <1>7 DEF Printvertex

\* Taking a vertex: nobody else can have one.
LEMMA TakeExclusive ==
  ASSUME IndInv, NEW t \in Thread, Take(t)
  PROVE  HoldersHave' /\ OneAtATime' /\ FlagsMatchHolders'
<1> DEFINE v == Head(activate_vertexes)
<1> USE DEF IndInv, TypeOK, queue, locals, At
<1>1. v \in Vertex
  BY DEF Take, KeepsLooking
<1>2. /\ vertex' = [vertex EXCEPT ![t] = v]
      /\ pc' = [pc EXCEPT ![t] = "run"]
      /\ matrix_flag' = Marked(v)
      /\ ~Occupied(v)
  BY DEF Take
<1>3. \A u \in Thread : ~Holds(u)
  <2> SUFFICES ASSUME NEW u \in Thread, Holds(u) PROVE FALSE
    OBVIOUS
  <2>1. vertex[u] \in Vertex /\ <<vertex[u], v>> \in Vertex \X Vertex
    BY <1>1 DEF HoldersHave
  <2>2. matrix_flag[<<vertex[u], v>>]
    BY <2>1 DEF FlagsMatchHolders
  <2> QED
    BY <1>2, <2>1, <2>2 DEF Occupied
<1>4. \A u \in Thread : Holds(u)' <=> u = t
  BY <1>2, <1>3 DEF Holds
<1>5. HoldersHave' /\ OneAtATime'
  BY <1>1, <1>2, <1>4 DEF HoldersHave, OneAtATime
<1>6. \A cell \in Vertex \X Vertex : ~matrix_flag[cell]
  BY <1>3 DEF FlagsMatchHolders
<1>7. FlagsMatchHolders'
  BY <1>1, <1>2, <1>4, <1>6 DEF FlagsMatchHolders, Marked
<1> QED
  BY <1>5, <1>7

\* Restoring one: nobody else has a mark to lose.
LEMMA RestoreExclusive ==
  ASSUME IndInv, NEW t \in Thread, Restore(t)
  PROVE  HoldersHave' /\ OneAtATime' /\ FlagsMatchHolders'
<1> USE DEF IndInv, TypeOK, queue, locals, At
<1>1. /\ pc[t] = "restore"
      /\ pc' = [pc EXCEPT ![t] = "done"]
      /\ matrix_flag' = Cleared(vertex[t])
      /\ UNCHANGED vertex
  BY DEF Restore
<1>2. \A u \in Thread : ~Holds(u)'
  BY <1>1 DEF Holds, OneAtATime
<1>3. \A cell \in Vertex \X Vertex : ~matrix_flag'[cell]
  <2> SUFFICES ASSUME NEW cell \in Vertex \X Vertex, matrix_flag'[cell]
               PROVE  FALSE
    OBVIOUS
  <2>1. matrix_flag[cell] /\ vertex[t] \notin {cell[1], cell[2]}
    BY <1>1 DEF Cleared
  <2>2. PICK u \in Thread : Holds(u) /\ vertex[u] \in {cell[1], cell[2]}
    BY <2>1 DEF FlagsMatchHolders
  <2>3. u = t
    BY <1>1, <2>2 DEF OneAtATime, Holds
  <2> QED
    BY <2>1, <2>2, <2>3
<1> QED
  BY <1>2, <1>3 DEF HoldersHave, OneAtATime, FlagsMatchHolders

LEMMA PrintvertexIndInv ==
  ASSUME IndInv, NEW t \in Thread, Printvertex(t)
  PROVE  IndInv'
<1>1. TypeOK' /\ NobodyLeft'
  BY PrintvertexType
<1> USE DEF TypeOK, queue, locals, At
<1>2. HoldersHave' /\ OneAtATime' /\ FlagsMatchHolders'
  <2>1. CASE Lock(t)
    BY <2>1, SameHolders DEF Lock, IndInv, Holds
  <2>2. CASE Take(t)
    BY <2>2, TakeExclusive
  <2>3. CASE Rotate(t)
    BY <2>3, SameHolders DEF Rotate, IndInv, Holds
  <2>4. CASE GiveUp(t)
    BY <2>4, SameHolders DEF GiveUp, IndInv, Holds
  <2>5. CASE Work(t)
    BY <2>5, SameHolders DEF Work, IndInv, Holds
  <2>6. CASE Restore(t)
    BY <2>6, RestoreExclusive
  <2>7. CASE Sleep(t)
    BY <2>7, SameHolders DEF Sleep, IndInv, Holds
  <2> QED
    BY <2>1, <2>2, <2>3, <2>4, <2>5, <2>6, <2>7 DEF Printvertex
<1> QED
  BY <1>1, <1>2 DEF IndInv

THEOREM Invariance == Spec => []IndInv
<1>1. IndInv /\ [Next]_vars => IndInv'
  <2> SUFFICES ASSUME IndInv, [Next]_vars PROVE IndInv'
    OBVIOUS
  <2>1. CASE UNCHANGED vars
    BY <2>1 DEF vars, queue, locals, IndInv, TypeOK, HoldersHave, NobodyLeft,
                OneAtATime, FlagsMatchHolders, Holds
  <2> QED
    BY <2>1, MainIndInv, PrintvertexIndInv DEF Next, Ended
<1> QED
  BY <1>1, InitIndInv, PTL DEF Spec

\* No two threads have a vertex at the same time, for any number of threads
\* and vertices (graph.1.hpp:276-317).
THEOREM MutualExclusion == Spec => []OneAtATime
<1>1. IndInv => OneAtATime
  BY DEF IndInv
<1> QED
  BY <1>1, Invariance, PTL

\* The marked cells of the matrix are exactly those of the vertices that
\* threads have (graph.1.hpp:302-307, 319-327).
THEOREM FlagsCorrect == Spec => []FlagsMatchHolders
<1>1. IndInv => FlagsMatchHolders
  BY DEF IndInv
<1> QED
  BY <1>1, Invariance, PTL

-----------------------------------------------------------------------------
(* Nothing is lost.  The invariant says in addition that a vertex a thread *)
(* is about to run has left the queue and was not run (RunOnce): NeverLost *)
(* alone leaves open that it is in the queue as well.                      *)

\* The places of v in a queue.
Places(q, v) == {k \in 1 .. Len(q) : q[k] = v}

RunOnce ==
    \A t \in Thread :
        pc[t] = "run" => ran[vertex[t]] = 0 /\ InQueue(vertex[t]) = {}

\* pop takes the front away and moves the others up.
LEMMA PlacesAfterPop ==
  ASSUME NEW q \in Seq(Vertex), q # <<>>, NEW v \in Vertex
  PROVE  /\ Places(q, v) = {} => Places(Tail(q), v) = {}
         /\ \A k \in 1 .. Len(q) :
               Places(q, v) = {k} =>
                  Places(Tail(q), v) = IF k = 1 THEN {} ELSE {k - 1}
         /\ q[1] = v => 1 \in Places(q, v)
<1>1. /\ Len(q) \in Nat \ {0} /\ Len(Tail(q)) = Len(q) - 1
      /\ \A k \in 1 .. Len(q) - 1 : Tail(q)[k] = q[k + 1]
  OBVIOUS
<1>2. \A k \in 1 .. Len(q) - 1 : k \in Places(Tail(q), v) <=> k + 1 \in Places(q, v)
  BY <1>1 DEF Places
<1>3. Places(Tail(q), v) \subseteq 1 .. Len(q) - 1
  BY <1>1 DEF Places
<1>4. Places(q, v) = {} => Places(Tail(q), v) = {}
  BY <1>2, <1>3
<1>5. ASSUME NEW k \in 1 .. Len(q), Places(q, v) = {k}
      PROVE  Places(Tail(q), v) = IF k = 1 THEN {} ELSE {k - 1}
  <2>1. \A j \in 1 .. Len(q) - 1 : j \in Places(Tail(q), v) <=> j + 1 = k
    BY <1>2, <1>5
  <2> QED
    BY <1>1, <1>3, <2>1
<1> QED
  BY <1>1, <1>4, <1>5 DEF Places

\* The rotation puts the front behind the others.
LEMMA PlacesAfterRotation ==
  ASSUME NEW q \in Seq(Vertex), q # <<>>, NEW v \in Vertex
  PROVE  /\ Places(q, v) = {} => Places(Append(Tail(q), Head(q)), v) = {}
         /\ \A k \in 1 .. Len(q) :
               Places(q, v) = {k} =>
                  Places(Append(Tail(q), Head(q)), v) = {IF k = 1 THEN Len(q) ELSE k - 1}
<1> DEFINE r == Append(Tail(q), Head(q))
<1>1. /\ Len(q) \in Nat \ {0} /\ Len(r) = Len(q)
      /\ \A k \in 1 .. Len(q) - 1 : r[k] = q[k + 1]
      /\ r[Len(q)] = q[1]
  OBVIOUS
<1>2. \A k \in 1 .. Len(q) - 1 : k \in Places(r, v) <=> k + 1 \in Places(q, v)
  BY <1>1 DEF Places
<1>3. Len(q) \in Places(r, v) <=> 1 \in Places(q, v)
  BY <1>1 DEF Places
<1>4. Places(r, v) \subseteq 1 .. Len(q)
  BY <1>1 DEF Places
<1> HIDE DEF r
<1>5. Places(q, v) = {} => Places(r, v) = {}
  BY <1>1, <1>2, <1>3, <1>4
<1>6. ASSUME NEW k \in 1 .. Len(q), Places(q, v) = {k}
      PROVE  Places(r, v) = {IF k = 1 THEN Len(q) ELSE k - 1}
  <2>1. \A j \in 1 .. Len(q) :
           j \in Places(r, v) <=> j = IF k = 1 THEN Len(q) ELSE k - 1
    BY <1>1, <1>2, <1>3, <1>6
  <2> QED
    BY <1>1, <1>4, <2>1
<1> QED
  BY <1>5, <1>6 DEF r

LEMMA InitNeverLost == Init => NeverLost /\ RunOnce
<1> SUFFICES ASSUME Init PROVE NeverLost /\ RunOnce
  OBVIOUS
<1>1. RunOnce
  BY DEF Init, RunOnce
<1>2. ASSUME NEW v \in Vertex
      PROVE  ran[v] = 0 /\ \E k \in DOMAIN activate_vertexes : InQueue(v) = {k}
  <2>1. /\ activate_vertexes = [k \in 1 .. NVerts |-> k - 1]
        /\ Len(activate_vertexes) = NVerts
        /\ DOMAIN activate_vertexes = 1 .. NVerts
        /\ v + 1 \in 1 .. NVerts
    BY SchedulerAssumption DEF Init, Vertex
  <2>2. \A k \in 1 .. NVerts : activate_vertexes[k] = v <=> k = v + 1
    BY <2>1, SchedulerAssumption DEF Vertex
  <2>3. InQueue(v) = {v + 1}
    BY <2>1, <2>2 DEF InQueue
  <2> QED
    BY <2>1, <2>3 DEF Init
<1> QED
  BY <1>1, <1>2 DEF NeverLost

\* Steps that leave the queue, the runs and who is about to run alone.
LEMMA SameNeverLost ==
  ASSUME NeverLost, RunOnce, UNCHANGED <<activate_vertexes, ran>>,
         \A t \in Thread : pc'[t] = "run" <=> pc[t] = "run",
         \A t \in Thread : pc[t] = "run" => vertex'[t] = vertex[t]
  PROVE  NeverLost' /\ RunOnce'
<1>1. \A v : InQueue(v)' = InQueue(v)
  BY DEF InQueue
<1> QED
  BY <1>1 DEF NeverLost, RunOnce

\* The vertex at the front waits there, and nowhere else.
LEMMA FrontWaits ==
  ASSUME TypeOK, NeverLost, activate_vertexes # <<>>, NEW v \in Vertex,
         v = Head(activate_vertexes)
  PROVE  ran[v] = 0 /\ InQueue(v) = {1}
<1>1. activate_vertexes[1] = v /\ Len(activate_vertexes) \in Nat \ {0}
  BY DEF TypeOK
<1>2. 1 \in InQueue(v)
  BY <1>1 DEF InQueue
<1> QED
  BY <1>2 DEF NeverLost

LEMMA TakeNeverLost ==
  ASSUME IndInv, NeverLost, RunOnce, NEW t \in Thread, Take(t)
  PROVE  NeverLost' /\ RunOnce'
<1> USE DEF IndInv, TypeOK, At
<1>1. activate_vertexes # <<>> /\ Len(activate_vertexes) \in Nat \ {0}
  BY DEF Take, KeepsLooking
<1> PICK v \in Vertex : v = Head(activate_vertexes)
  BY <1>1
<1>2. /\ activate_vertexes' = Tail(activate_vertexes)
      /\ vertex' = [vertex EXCEPT ![t] = v]
      /\ pc[t] = "look" /\ pc' = [pc EXCEPT ![t] = "run"]
      /\ UNCHANGED ran
  BY DEF Take, Popped
<1>3. ran[v] = 0 /\ InQueue(v) = {1}
  BY <1>1, FrontWaits
<1>4. \A w \in Vertex :
         /\ InQueue(w) = {} => InQueue(w)' = {}
         /\ \A k \in 1 .. Len(activate_vertexes) :
               InQueue(w) = {k} => InQueue(w)' = IF k = 1 THEN {} ELSE {k - 1}
         /\ 1 \in InQueue(w) => w = v
  <2> SUFFICES ASSUME NEW w \in Vertex
               PROVE  /\ InQueue(w) = {} => InQueue(w)' = {}
                      /\ \A k \in 1 .. Len(activate_vertexes) :
                            InQueue(w) = {k} => InQueue(w)' = IF k = 1 THEN {} ELSE {k - 1}
                      /\ 1 \in InQueue(w) => w = v
    OBVIOUS
  <2>1. /\ InQueue(w) = Places(activate_vertexes, w)
        /\ InQueue(w)' = Places(Tail(activate_vertexes), w)
    BY <1>2 DEF InQueue, Places
  <2>2. 1 \in InQueue(w) => w = v
    BY <1>1 DEF InQueue
  <2>3. /\ Places(activate_vertexes, w) = {} => Places(Tail(activate_vertexes), w) = {}
        /\ \A k \in 1 .. Len(activate_vertexes) :
              Places(activate_vertexes, w) = {k} =>
                 Places(Tail(activate_vertexes), w) = IF k = 1 THEN {} ELSE {k - 1}
    BY <1>1, PlacesAfterPop
  <2> QED
    BY <2>1, <2>2, <2>3
<1>5. /\ DOMAIN activate_vertexes = 1 .. Len(activate_vertexes)
      /\ DOMAIN activate_vertexes' = 1 .. Len(activate_vertexes) - 1
  BY <1>1, <1>2
<1>6. InQueue(v)' = {}
  BY <1>1, <1>3, <1>4
<1>7. ASSUME NEW w \in Vertex
      PROVE  \/ ran'[w] = 0 /\ \E k \in DOMAIN activate_vertexes' : InQueue(w)' = {k}
             \/ /\ ran'[w] = 0 /\ InQueue(w)' = {}
                /\ \E u \in Thread : pc'[u] = "run" /\ vertex'[u] = w
             \/ ran'[w] = 1 /\ InQueue(w)' = {}
  <2>1. CASE w = v
    BY <1>2, <1>3, <1>6, <2>1
  <2>2. CASE w # v /\ ran[w] = 0 /\ \E k \in DOMAIN activate_vertexes : InQueue(w) = {k}
    <3> PICK k \in 1 .. Len(activate_vertexes) : InQueue(w) = {k}
      BY <1>5, <2>2
    <3>1. k # 1
      BY <1>4, <2>2
    <3>2. InQueue(w)' = {k - 1} /\ k - 1 \in DOMAIN activate_vertexes'
      BY <1>1, <1>4, <1>5, <3>1
    <3> QED
      BY <1>2, <2>2, <3>2
  <2>3. CASE /\ w # v /\ ran[w] = 0 /\ InQueue(w) = {}
             /\ \E u \in Thread : pc[u] = "run" /\ vertex[u] = w
    BY <1>2, <1>4, <2>3
  <2>4. CASE ran[w] = 1 /\ InQueue(w) = {}
    BY <1>2, <1>4, <2>4
  <2> QED
    BY <2>1, <2>2, <2>3, <2>4 DEF NeverLost
<1>8. NeverLost'
  BY <1>7 DEF NeverLost
<1>9. RunOnce'
  <2> SUFFICES ASSUME NEW u \in Thread, pc'[u] = "run", NEW w, w = vertex'[u]
               PROVE  ran'[w] = 0 /\ InQueue(w)' = {}
    BY DEF RunOnce, InQueue
  <2>1. CASE u = t
    BY <1>2, <1>3, <1>6, <2>1
  <2>2. CASE u # t
    <3>1. pc[u] = "run" /\ w = vertex[u] /\ w \in Vertex
      BY <1>2, <2>2 DEF HoldersHave, Holds
    <3>2. ran[w] = 0 /\ InQueue(w) = {}
      BY <3>1 DEF RunOnce
    <3> QED
      BY <1>2, <1>4, <3>1, <3>2
  <2> QED
    BY <2>1, <2>2
<1> QED
  BY <1>8, <1>9

LEMMA RotateNeverLost ==
  ASSUME IndInv, NeverLost, RunOnce, NEW t \in Thread, Rotate(t)
  PROVE  NeverLost' /\ RunOnce'
<1> USE DEF IndInv, TypeOK
<1>1. activate_vertexes # <<>> /\ Len(activate_vertexes) \in Nat \ {0}
  BY DEF Rotate, KeepsLooking
<1>2. /\ activate_vertexes' = Append(Tail(activate_vertexes), Head(activate_vertexes))
      /\ UNCHANGED <<pc, vertex, ran>>
  BY DEF Rotate, Rotated
<1>3. /\ DOMAIN activate_vertexes = 1 .. Len(activate_vertexes)
      /\ DOMAIN activate_vertexes' = 1 .. Len(activate_vertexes)
  BY <1>1, <1>2
<1>4. ASSUME NEW w \in Vertex
      PROVE  /\ InQueue(w) = {} => InQueue(w)' = {}
             /\ \A k \in DOMAIN activate_vertexes :
                   InQueue(w) = {k} => \E j \in DOMAIN activate_vertexes' : InQueue(w)' = {j}
  <2> DEFINE rotated == Append(Tail(activate_vertexes), Head(activate_vertexes))
  <2>1. /\ InQueue(w) = Places(activate_vertexes, w)
        /\ InQueue(w)' = Places(rotated, w)
    BY <1>2 DEF InQueue, Places
  <2>2. /\ Places(activate_vertexes, w) = {} => Places(rotated, w) = {}
        /\ \A k \in 1 .. Len(activate_vertexes) :
              Places(activate_vertexes, w) = {k} =>
                 Places(rotated, w) = {IF k = 1 THEN Len(activate_vertexes) ELSE k - 1}
    BY <1>1, PlacesAfterRotation
  <2>3. \A k \in 1 .. Len(activate_vertexes) :
           (IF k = 1 THEN Len(activate_vertexes) ELSE k - 1) \in 1 .. Len(activate_vertexes)
    BY <1>1
  <2> HIDE DEF rotated
  <2> QED
    BY <1>3, <2>1, <2>2, <2>3
<1>5. NeverLost'
  BY <1>2, <1>4 DEF NeverLost
<1>6. RunOnce'
  <2> SUFFICES ASSUME NEW u \in Thread, pc'[u] = "run", NEW w, w = vertex'[u]
               PROVE  ran'[w] = 0 /\ InQueue(w)' = {}
    BY DEF RunOnce, InQueue
  <2>1. pc[u] = "run" /\ w = vertex[u] /\ w \in Vertex
    BY <1>2 DEF HoldersHave, Holds
  <2> QED
    BY <1>2, <1>4, <2>1 DEF RunOnce
<1> QED
  BY <1>5, <1>6

\* The vertex that is run was not run before, and nobody else is about to.
LEMMA WorkNeverLost ==
  ASSUME IndInv, NeverLost, RunOnce, NEW t \in Thread, Work(t)
  PROVE  NeverLost' /\ RunOnce'
<1> USE DEF IndInv, TypeOK, At
<1>1. /\ pc[t] = "run" /\ pc' = [pc EXCEPT ![t] = "restore"]
      /\ ran' = [ran EXCEPT ![vertex[t]] = @ + 1]
      /\ UNCHANGED <<activate_vertexes, vertex>>
  BY DEF Work, queue, locals
<1>2. \A w : InQueue(w)' = InQueue(w)
  BY <1>1 DEF InQueue
<1>3. /\ vertex[t] \in Vertex
      /\ ran[vertex[t]] = 0 /\ InQueue(vertex[t]) = {}
  BY <1>1 DEF HoldersHave, Holds, RunOnce
<1>4. \A u \in Thread : pc'[u] # "run"
  BY <1>1 DEF OneAtATime, Holds
<1>5. ASSUME NEW w \in Vertex
      PROVE  \/ ran'[w] = 0 /\ \E k \in DOMAIN activate_vertexes' : InQueue(w)' = {k}
             \/ ran'[w] = 1 /\ InQueue(w)' = {}
  <2>1. CASE w = vertex[t]
    BY <1>1, <1>2, <1>3, <2>1
  <2>2. CASE w # vertex[t]
    <3>1. ran'[w] = ran[w]
      BY <1>1, <2>2
    <3>2. ~\E u \in Thread : pc[u] = "run" /\ vertex[u] = w
      BY <1>1, <2>2 DEF OneAtATime, Holds
    <3> QED
      BY <1>1, <1>2, <3>1, <3>2 DEF NeverLost
  <2> QED
    BY <2>1, <2>2
<1> QED
  BY <1>4, <1>5 DEF NeverLost, RunOnce

LEMMA NextNeverLost ==
  ASSUME IndInv, NeverLost, RunOnce, [Next]_vars
  PROVE  NeverLost' /\ RunOnce'
<1> USE DEF IndInv, TypeOK, queue, locals, At
<1>1. CASE Test \/ CreateFails \/ UNCHANGED vars
  BY <1>1, SameNeverLost DEF Test, CreateFails, vars
<1>2. ASSUME NEW t \in Thread, Create(t)
      PROVE  NeverLost' /\ RunOnce'
  BY <1>2, SameNeverLost DEF Create
<1>3. CASE Join
  BY <1>3, SameNeverLost DEF Join
<1>4. ASSUME NEW t \in Thread, Printvertex(t)
      PROVE  NeverLost' /\ RunOnce'
  <2>1. CASE Lock(t)
    BY <2>1, SameNeverLost DEF Lock
  <2>2. CASE Take(t)
    BY <2>2, TakeNeverLost
  <2>3. CASE Rotate(t)
    BY <2>3, RotateNeverLost
  <2>4. CASE GiveUp(t)
    BY <2>4, SameNeverLost DEF GiveUp
  <2>5. CASE Work(t)
    BY <2>5, WorkNeverLost
  <2>6. CASE Restore(t)
    BY <2>6, SameNeverLost DEF Restore
  <2>7. CASE Sleep(t)
    BY <2>7, SameNeverLost DEF Sleep
  <2> QED
    BY <1>4, <2>1, <2>2, <2>3, <2>4, <2>5, <2>6, <2>7 DEF Printvertex
<1> QED
  BY <1>1, <1>2, <1>3, <1>4 DEF Next, Main, Ended

\* The rotation of the queue loses no vertex and duplicates none, for any
\* number of threads and vertices: each waits in the queue at one place, or a
\* thread has it, or it was run, once (graph.1.hpp:276-317).
THEOREM NothingLost == Spec => []NeverLost
<1>1. IndInv /\ NeverLost /\ RunOnce /\ [Next]_vars => NeverLost' /\ RunOnce'
  BY NextNeverLost
<1> QED
  BY <1>1, InitNeverLost, Invariance, PTL DEF Spec

-----------------------------------------------------------------------------
(* Coming away with nothing.                                               *)

\* Who looks has the mutex, and if it has rotated the queue another thread has
\* a vertex: that thread cannot restore it without the mutex.
LooksForAReason ==
    \A t \in Thread :
        pc[t] = "look" => /\ matrix_mutex = t
                          /\ count[t] > 0 => \E u \in Thread : Holds(u)

LEMMA PrintvertexLooks ==
  ASSUME IndInv, LooksForAReason, NEW t \in Thread, Printvertex(t)
  PROVE  LooksForAReason'
<1> USE SchedulerAssumption
    DEF IndInv, TypeOK, queue, locals, At, LooksForAReason, Thread, Nobody
<1>1. CASE Lock(t)
  BY <1>1 DEF Lock
<1>2. CASE Take(t)
  BY <1>2 DEF Take
<1>3. CASE Rotate(t)
  <2>1. Head(activate_vertexes) \in Vertex
    BY <1>3 DEF Rotate, KeepsLooking
  <2>2. PICK v \in Vertex : Occupied(v)
    BY <1>3, <2>1 DEF Rotate
  <2>3. PICK cell \in Vertex \X Vertex : matrix_flag[cell]
    BY <2>2 DEF Occupied
  <2>4. \E u \in Thread : Holds(u)
    BY <2>3 DEF FlagsMatchHolders
  <2>5. UNCHANGED <<pc, matrix_mutex>>
    BY <1>3 DEF Rotate
  <2> QED
    BY <2>4, <2>5 DEF Holds
<1>4. CASE GiveUp(t)
  BY <1>4 DEF GiveUp
<1>5. CASE Work(t)
  <2>1. \A u \in Thread : Holds(u)' <=> Holds(u)
    BY <1>5 DEF Work, Holds
  <2>2. /\ UNCHANGED <<matrix_mutex, count>>
        /\ \A u \in Thread : pc'[u] = "look" => pc[u] = "look"
    BY <1>5 DEF Work
  <2> QED
    BY <2>1, <2>2
<1>6. CASE Restore(t)
  BY <1>6 DEF Restore
<1>7. CASE Sleep(t)
  <2>1. \A u \in Thread : Holds(u)' <=> Holds(u)
    BY <1>7 DEF Sleep, Holds
  <2>2. /\ UNCHANGED <<matrix_mutex, count>>
        /\ \A u \in Thread : pc'[u] = "look" => pc[u] = "look"
    BY <1>7 DEF Sleep
  <2> QED
    BY <2>1, <2>2
<1> QED
  BY <1>1, <1>2, <1>3, <1>4, <1>5, <1>6, <1>7 DEF Printvertex

LEMMA NextLooks ==
  ASSUME IndInv, LooksForAReason, [Next]_vars
  PROVE  LooksForAReason'
<1> USE DEF IndInv, TypeOK, queue, locals
<1>1. CASE Test \/ CreateFails \/ UNCHANGED vars
  BY <1>1 DEF Test, CreateFails, vars, LooksForAReason, Holds
<1>2. ASSUME NEW t \in Thread, Create(t)
      PROVE  LooksForAReason'
  <2>1. \A u \in Thread : Holds(u)' <=> Holds(u)
    BY <1>2 DEF Create, Holds
  <2> QED
    BY <1>2, <2>1 DEF Create, LooksForAReason
<1>3. CASE Join
  BY <1>3 DEF Join, LooksForAReason
<1> QED
  BY <1>1, <1>2, <1>3, PrintvertexLooks DEF Next, Main, Ended

\* A thread comes away with nothing only if nothing is left or another thread
\* has a vertex: the bound of the rotation does not make it miss a free one
\* (graph.1.hpp:280).
THEOREM NoneMissed == Spec => GivesUpForAReason
<1>1. Init => LooksForAReason
  BY DEF Init, LooksForAReason
<1>2. IndInv /\ LooksForAReason /\ [Next]_vars => LooksForAReason'
  BY NextLooks
<1>3. ASSUME IndInv, LooksForAReason
      PROVE  \A t \in Thread : GiveUp(t) => \/ activate_vertexes = <<>>
                                            \/ \E u \in Thread : Holds(u)
  <2> SUFFICES ASSUME NEW t \in Thread, GiveUp(t), activate_vertexes # <<>>
               PROVE  \E u \in Thread : Holds(u)
    OBVIOUS
  <2>1. Head(activate_vertexes) \in Vertex
    BY <1>3 DEF IndInv, TypeOK
  <2>2. NVerts > 0
    BY <2>1, SchedulerAssumption DEF Vertex
  <2>3. pc[t] = "look" /\ count[t] > NVerts - 1
    BY <1>3, SchedulerAssumption DEF GiveUp, At, KeepsLooking, IndInv, TypeOK
  <2> QED
    BY <1>3, <2>2, <2>3, SchedulerAssumption DEF LooksForAReason, IndInv, TypeOK
<1>4. IndInv /\ LooksForAReason =>
         [\A t \in Thread : GiveUp(t) => \/ activate_vertexes = <<>>
                                         \/ \E u \in Thread : Holds(u)]_vars
  BY <1>3
<1> QED
  BY <1>1, <1>2, <1>4, Invariance, PTL DEF Spec, GivesUpForAReason
=============================================================================
