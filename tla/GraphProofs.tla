----------------------------- MODULE GraphProofs -----------------------------
(***************************************************************************)
(* Proofs about the counting sort and the two graph classes, for every     *)
(* vector, any ids and any number of calls.                                *)
(*                                                                         *)
(* The sort: the three loops compute what the second half of CountingSort  *)
(* says.  A fold over a sequence is a function on the sets of its          *)
(* positions (as the community modules define it); its values at 1 .. k    *)
(* are what the loop has after k rounds, and the invariant of each loop    *)
(* says what these are: how often a value occurs so far, how many elements *)
(* are not above a value, and how many come before the next one with a     *)
(* value in the result.                                                    *)
(*                                                                         *)
(* The graphs: get_local_id only ever extends its table, by the next       *)
(* number, so that the table stays a bijection and everything built from   *)
(* an earlier table still agrees with it.  The sorted buffers, of which a  *)
(* finalization takes sources and targets, are the rows and columns of the *)
(* storage; which ids came before it shows whether an engine can be given  *)
(* the graph.  The edges of an undirected graph come in pairs that the     *)
(* sort leaves a bijection.                                                *)
(*                                                                         *)
(* The older graph: a load appends rows and vertices for the ids of its    *)
(* time, and what the first one appended shows whether ids came after it,  *)
(* for its scheduler and for belief propagation.                           *)
(***************************************************************************)
EXTENDS OlderGraph, FiniteSetTheorems, WellFoundedInduction, TLAPS

-----------------------------------------------------------------------------
(* Induction, and loops.  A claim about all numbers holds if there is no   *)
(* least number it does not hold of.                                       *)

LEMMA LeastNumber ==
  ASSUME NEW T, T \subseteq Nat, T # {}
  PROVE  \E n \in T : \A m \in T : n <= m
<1>1. IsWellFoundedOn(OpToRel(<, Nat), Nat)
  BY NatLessThanWellFounded
<1>2. \E n \in T : \A m \in T : ~(<<m, n>> \in OpToRel(<, Nat))
  BY <1>1, WFMin
<1>3. PICK n \in T : \A m \in T : ~(<<m, n>> \in OpToRel(<, Nat))
  BY <1>2
<1>4. \A m \in T : ~(m < n)
  BY <1>3 DEF OpToRel
<1>5. \A m \in T : m \in Nat
  OBVIOUS
<1>6. \A m \in T : n <= m
  BY <1>4, <1>5
<1> QED
  BY <1>6

\* The numbers up to n are in a set that has 0 and what follows its elements.
LEMMA UpToN ==
  ASSUME NEW n \in Nat, NEW Good, 0 \in Good,
         \A k \in 1 .. n : k - 1 \in Good => k \in Good
  PROVE  \A k \in 0 .. n : k \in Good
<1> DEFINE T == {k \in 0 .. n : k \notin Good}
<1>1. SUFFICES ASSUME T # {} PROVE FALSE
  OBVIOUS
<1>2. PICK k \in T : \A m \in T : k <= m
  <2>1. T \subseteq Nat
    OBVIOUS
  <2> HIDE DEF T
  <2> QED
    BY <1>1, <2>1, LeastNumber
<1>3. k \in 1 .. n /\ k - 1 \notin T
  BY <1>2
<1> QED
  BY <1>2, <1>3

\* What FoldLeft folds with: O[i][a] is what round i makes of a.
IsFold(g, O, base, sets) ==
    g = [s \in sets |-> IF s = {} THEN base ELSE O[Max(s)][g[s \ {Max(s)}]]]

LEMMA MaxOfInterval ==
  ASSUME NEW k \in Nat, k # 0
  PROVE  Max(1 .. k) = k /\ (1 .. k) \ {k} = 1 .. (k - 1)
<1>1. \A x \in 1 .. k : (\A y \in 1 .. k : x >= y) => x = k
  OBVIOUS
<1>2. k \in 1 .. k /\ \A y \in 1 .. k : k >= y
  OBVIOUS
<1> QED
  BY <1>1, <1>2 DEF Max

\* Every finite set of numbers that is not empty has its Max.
LEMMA MaxInSet ==
  ASSUME NEW n \in Nat, NEW s \in SUBSET (1 .. n), s # {}
  PROVE  Max(s) \in s
<1> DEFINE T == {n - x : x \in s}
<1>0. \A x \in s : x \in 1 .. n /\ n - x \in Nat
  OBVIOUS
<1>1. T \subseteq Nat /\ T # {}
  BY <1>0
<1>2. PICK m \in T : \A x \in T : m <= x
  <2> HIDE DEF T
  <2> QED
    BY <1>1, LeastNumber
<1>3. PICK x \in s : m = n - x
  BY <1>2
<1>4. \A y \in s : n - x <= n - y
  BY <1>2, <1>3
<1>5. \A y \in s : x >= y
  BY <1>0, <1>3, <1>4
<1> QED
  BY <1>3, <1>5 DEF Max

Small(n, c) == {s \in SUBSET (1 .. n) : Cardinality(s) <= c}

\* There is such a function, one cardinality after the other.
LEMMA FoldExists ==
  ASSUME NEW n \in Nat, NEW O, NEW base
  PROVE  \E g : IsFold(g, O, base, SUBSET (1 .. n))
<1> DEFINE Good == {c \in 0 .. n : \E g : IsFold(g, O, base, Small(n, c))}
<1>1. IsFiniteSet(1 .. n) /\ Cardinality(1 .. n) = n
  BY FS_Interval
<1>2. \A s \in SUBSET (1 .. n) : IsFiniteSet(s) /\ Cardinality(s) \in Nat
                                 /\ Cardinality(s) <= n
  BY <1>1, FS_Subset, FS_CardinalityType
<1>3. 0 \in Good
  <2>1. Small(n, 0) = {{}}
    BY <1>2, FS_EmptySet DEF Small
  <2>2. IsFold([s \in {{}} |-> base], O, base, Small(n, 0))
    BY <2>1 DEF IsFold
  <2> QED
    BY <2>2
<1>4. ASSUME NEW c \in 1 .. n, c - 1 \in Good
      PROVE  c \in Good
  <2>1. PICK g : IsFold(g, O, base, Small(n, c - 1))
    BY <1>4
  <2> DEFINE h == [s \in Small(n, c) |-> IF s = {} THEN base
                                         ELSE O[Max(s)][g[s \ {Max(s)}]]]
  <2>2. ASSUME NEW s \in Small(n, c), s # {}
        PROVE  s \ {Max(s)} \in Small(n, c - 1)
    <3>1. Max(s) \in s
      BY <2>2, MaxInSet DEF Small
    <3>2. s \in SUBSET (1 .. n) /\ IsFiniteSet(s) /\ Cardinality(s) \in Nat
          /\ Cardinality(s) <= c
      BY <1>2 DEF Small
    <3>3. Cardinality(s \ {Max(s)}) = Cardinality(s) - 1
      BY <3>1, <3>2, FS_RemoveElement
    <3>4. Cardinality(s \ {Max(s)}) <= c - 1
      BY <3>2, <3>3
    <3>5. s \ {Max(s)} \in SUBSET (1 .. n)
      BY <3>2
    <3> QED
      BY <3>4, <3>5 DEF Small
  <2>3. ASSUME NEW s \in Small(n, c - 1)
        PROVE  h[s] = g[s]
    <3>1. s \in Small(n, c)
      BY <1>2 DEF Small
    <3> QED
      BY <2>1, <3>1 DEF IsFold
  <2>4. ASSUME NEW s \in Small(n, c)
        PROVE  h[s] = IF s = {} THEN base ELSE O[Max(s)][h[s \ {Max(s)}]]
    BY <2>2, <2>3
  <2>5. IsFold(h, O, base, Small(n, c))
    BY <2>4 DEF IsFold
  <2> QED
    BY <2>5
<1>5. n \in Good
  <2> HIDE DEF Good
  <2> QED
    BY <1>3, <1>4, UpToN
<1>6. Small(n, n) = SUBSET (1 .. n)
  BY <1>2 DEF Small
<1> QED
  BY <1>5, <1>6

\* If the rounds keep what the loop works on in a set, it never leaves it.
LEMMA FoldType ==
  ASSUME NEW n \in Nat, NEW O, NEW base, NEW A, base \in A,
         \A i \in 1 .. n : \A a \in A : O[i][a] \in A,
         NEW g, IsFold(g, O, base, SUBSET (1 .. n))
  PROVE  \A s \in SUBSET (1 .. n) : g[s] \in A
<1> DEFINE Good == {c \in 0 .. n : \A s \in Small(n, c) : g[s] \in A}
<1>1. IsFiniteSet(1 .. n) /\ Cardinality(1 .. n) = n
  BY FS_Interval
<1>2. \A s \in SUBSET (1 .. n) : IsFiniteSet(s) /\ Cardinality(s) \in Nat
                                 /\ Cardinality(s) <= n
  BY <1>1, FS_Subset, FS_CardinalityType
<1>3. 0 \in Good
  <2>1. Small(n, 0) = {{}}
    BY <1>2, FS_EmptySet DEF Small
  <2>2. g[{}] = base
    BY DEF IsFold
  <2> QED
    BY <2>1, <2>2
<1>4. ASSUME NEW c \in 1 .. n, c - 1 \in Good
      PROVE  c \in Good
  <2>1. ASSUME NEW s \in Small(n, c)
        PROVE  g[s] \in A
    <3>1. s \in SUBSET (1 .. n) /\ IsFiniteSet(s) /\ Cardinality(s) \in Nat
          /\ Cardinality(s) <= c
      BY <1>2 DEF Small
    <3>2. CASE s = {}
      BY <3>2 DEF IsFold
    <3>3. CASE s # {}
      <4>1. Max(s) \in s /\ Max(s) \in 1 .. n
        BY <3>1, <3>3, MaxInSet
      <4>2. Cardinality(s \ {Max(s)}) = Cardinality(s) - 1
        BY <3>1, <4>1, FS_RemoveElement
      <4>6. Cardinality(s \ {Max(s)}) <= c - 1
        BY <3>1, <4>2
      <4>7. s \ {Max(s)} \in SUBSET (1 .. n)
        BY <3>1
      <4>3. s \ {Max(s)} \in Small(n, c - 1)
        BY <4>6, <4>7 DEF Small
      <4>4. g[s \ {Max(s)}] \in A
        BY <1>4, <4>3
      <4>5. g[s] = O[Max(s)][g[s \ {Max(s)}]]
        BY <3>1, <3>3 DEF IsFold
      <4> QED
        BY <4>1, <4>4, <4>5
    <3> QED
      BY <3>2, <3>3
  <2> QED
    BY <2>1
<1>5. n \in Good
  <2> HIDE DEF Good
  <2> QED
    BY <1>3, <1>4, UpToN
<1>6. Small(n, n) = SUBSET (1 .. n)
  BY <1>2 DEF Small
<1> QED
  BY <1>5, <1>6

-----------------------------------------------------------------------------
(* The first loop counts.                                                  *)

\* The elements below k whose value is x.
Those(vals, k, x) == {i \in 0 .. k - 1 : At(vals, i) = x}

LEMMA IntervalSubset ==
  ASSUME NEW k \in Nat, NEW S, S \subseteq 0 .. k - 1
  PROVE  IsFiniteSet(S) /\ Cardinality(S) \in Nat /\ Cardinality(S) <= k
<1>1. IsFiniteSet(0 .. k - 1) /\ Cardinality(0 .. k - 1) = k
  BY FS_Interval
<1> QED
  BY <1>1, FS_Subset, FS_CardinalityType

\* A vector of n elements, none above max_val.
IsVector(vals, n, max_val) ==
    /\ Len(vals) = n
    /\ DOMAIN vals = 1 .. n
    /\ \A i \in 1 .. n : vals[i] \in 0 .. max_val

LEMMA SequenceIsVector ==
  ASSUME NEW max_val \in Nat, NEW vals \in Seq(0 .. max_val)
  PROVE  Len(vals) \in Nat /\ IsVector(vals, Len(vals), max_val)
  BY DEF IsVector

LEMMA ThoseOneMore ==
  ASSUME NEW vals, NEW k \in Nat, k # 0, NEW x
  PROVE  Cardinality(Those(vals, k, x)) =
            IF vals[k] = x THEN Cardinality(Those(vals, k - 1, x)) + 1
                           ELSE Cardinality(Those(vals, k - 1, x))
<1> DEFINE old == Those(vals, k - 1, x)
<1>1. k - 1 \in Nat /\ At(vals, k - 1) = vals[k]
  BY DEF At
<1>2. old \subseteq 0 .. (k - 1) - 1
  BY DEF Those
<1>3. IsFiniteSet(old)
  <2> HIDE DEF old
  <2> QED
    BY <1>1, <1>2, IntervalSubset
<1>4. k - 1 \notin old
  BY <1>2
<1>5. CASE vals[k] = x
  <2>1. Those(vals, k, x) = old \cup {k - 1}
    BY <1>1, <1>5 DEF Those
  <2> HIDE DEF old
  <2>2. Cardinality(old \cup {k - 1}) = Cardinality(old) + 1
    BY <1>3, <1>4, FS_AddElement
  <2> QED
    BY <1>5, <2>1, <2>2 DEF old
<1>6. CASE vals[k] # x
  <2>1. Those(vals, k, x) = old
    BY <1>1, <1>6 DEF Those
  <2> QED
    BY <1>6, <2>1
<1> QED
  BY <1>5, <1>6

\* Each value is counted as often as it occurs.
LEMMA CountedIs ==
  ASSUME NEW max_val \in Nat, NEW n \in Nat, NEW vals, IsVector(vals, n, max_val)
  PROVE  Counted(vals, max_val) =
            [x \in 0 .. max_val |-> Cardinality(Those(vals, n, x))]
<1> DEFINE A    == [0 .. max_val -> Nat]
           base == [val \in 0 .. max_val |-> 0]
           O    == [i \in 1 .. n |-> [c \in A |-> [c EXCEPT ![vals[i]] = @ + 1]]]
           IsIter(g) == g = [s \in SUBSET DOMAIN vals |->
                               IF s = {} THEN base
                               ELSE [g[s \ {Max(s)}] EXCEPT ![vals[Max(s)]] = @ + 1]]
           iter == CHOOSE g : IsIter(g)
           Now(k) == [x \in 0 .. max_val |-> Cardinality(Those(vals, k, x))]
<1>1. DOMAIN vals = 1 .. n /\ \A i \in 1 .. n : vals[i] \in 0 .. max_val
  BY DEF IsVector
<1>2. base \in A /\ \A i \in 1 .. n : \A c \in A :
         O[i][c] = [c EXCEPT ![vals[i]] = @ + 1] /\ O[i][c] \in A
  BY <1>1
<1>3. \E g : IsIter(g)
  <2> HIDE DEF A, base, O
  <2>1. PICK g : IsFold(g, O, base, SUBSET (1 .. n))
    BY <1>1, FoldExists
  <2>2. \A s \in SUBSET (1 .. n) : g[s] \in A
    BY <1>1, <1>2, <2>1, FoldType
  <2>3. ASSUME NEW s \in SUBSET (1 .. n), s # {}
        PROVE  O[Max(s)][g[s \ {Max(s)}]]
                  = [g[s \ {Max(s)}] EXCEPT ![vals[Max(s)]] = @ + 1]
    <3>1. Max(s) \in 1 .. n
      BY <1>1, <2>3, MaxInSet
    <3>2. g[s \ {Max(s)}] \in A
      BY <2>2
    <3> QED
      BY <1>2, <3>1, <3>2
  <2>4. IsIter(g)
    BY <1>1, <2>1, <2>3 DEF IsFold
  <2> QED
    BY <2>4
<1>4. IsIter(iter)
  <2> HIDE DEF IsIter
  <2> QED
    BY <1>3
<1>5. Counted(vals, max_val) = iter[1 .. n]
  BY <1>1 DEF Counted, FoldLeft, MapThenFoldSet
<1> DEFINE Good == {k \in 0 .. n : iter[1 .. k] = Now(k)}
<1> HIDE DEF iter
<1>6. 0 \in Good
  <2>1. 1 .. 0 = {} /\ 0 .. 0 - 1 = {}
    OBVIOUS
  <2>2. iter[1 .. 0] = base
    BY <1>4, <2>1
  <2>3. \A x : Those(vals, 0, x) = {}
    BY <2>1 DEF Those
  <2>4. Now(0) = base
    BY <2>3, FS_EmptySet
  <2>5. 0 \in 0 .. n /\ iter[1 .. 0] = Now(0)
    BY <2>2, <2>4
  <2> HIDE DEF Now
  <2> QED
    BY <2>5
<1>7. ASSUME NEW k \in 1 .. n, k - 1 \in Good
      PROVE  k \in Good
  <2>1. Max(1 .. k) = k /\ (1 .. k) \ {k} = 1 .. (k - 1)
    BY MaxOfInterval
  <2>2. 1 .. k \subseteq 1 .. n /\ 1 .. k # {}
    OBVIOUS
  <2>3. iter[1 .. k] = [iter[1 .. (k - 1)] EXCEPT ![vals[k]] = @ + 1]
    <3>1. 1 .. k \in SUBSET DOMAIN vals
      BY <1>1, <2>2
    <3>2. iter[1 .. k] = [iter[(1 .. k) \ {Max(1 .. k)}]
                             EXCEPT ![vals[Max(1 .. k)]] = @ + 1]
      BY <1>4, <2>2, <3>1
    <3> QED
      BY <2>1, <3>2
  <2>4. iter[1 .. (k - 1)] = Now(k - 1)
    BY <1>7
  <2>5. \A x \in 0 .. max_val : Cardinality(Those(vals, k, x)) =
            IF vals[k] = x THEN Cardinality(Those(vals, k - 1, x)) + 1
                           ELSE Cardinality(Those(vals, k - 1, x))
    BY ThoseOneMore
  <2>6. [Now(k - 1) EXCEPT ![vals[k]] = @ + 1] = Now(k)
    BY <2>5
  <2> QED
    BY <2>3, <2>4, <2>6
<1>8. n \in Good
  <2> HIDE DEF Good
  <2> QED
    BY <1>6, <1>7, UpToN
<1> QED
  BY <1>5, <1>8

-----------------------------------------------------------------------------
(* The second loop adds up.                                                *)

\* The elements that are not above x, and those below it.
NotAbove(vals, n, x) == {i \in 0 .. n - 1 : At(vals, i) <= x}
Lower(vals, n, x)    == {i \in 0 .. n - 1 : At(vals, i) < x}

LEMMA ElementType ==
  ASSUME NEW max_val \in Nat, NEW n \in Nat, NEW vals, IsVector(vals, n, max_val)
  PROVE  \A i \in 0 .. n - 1 : At(vals, i) \in 0 .. max_val
  BY DEF IsVector, At

LEMMA NotAboveStep ==
  ASSUME NEW max_val \in Nat, NEW n \in Nat, NEW vals, IsVector(vals, n, max_val),
         NEW x \in 0 .. max_val
  PROVE  Cardinality(NotAbove(vals, n, x)) =
            IF x = 0 THEN Cardinality(Those(vals, n, 0))
            ELSE Cardinality(Those(vals, n, x)) + Cardinality(NotAbove(vals, n, x - 1))
<1>1. \A i \in 0 .. n - 1 : At(vals, i) \in 0 .. max_val
  BY ElementType
<1>2. CASE x = 0
  <2>1. NotAbove(vals, n, x) = Those(vals, n, 0)
    BY <1>1, <1>2 DEF NotAbove, Those
  <2> QED
    BY <1>2, <2>1
<1>3. CASE x # 0
  <2> DEFINE S == Those(vals, n, x)
             T == NotAbove(vals, n, x - 1)
  <2>1. NotAbove(vals, n, x) = S \cup T
    BY <1>1, <1>3 DEF NotAbove, Those
  <2>2. S \cap T = {}
    BY <1>1, <1>3 DEF NotAbove, Those
  <2>3. S \subseteq 0 .. n - 1 /\ T \subseteq 0 .. n - 1
    BY DEF NotAbove, Those
  <2> HIDE DEF S, T
  <2>4. /\ IsFiniteSet(S) /\ Cardinality(S) \in Nat
        /\ IsFiniteSet(T) /\ Cardinality(T) \in Nat
    BY <2>3, IntervalSubset
  <2>5. Cardinality(S \cup T) = Cardinality(S) + Cardinality(T)
    BY <2>2, <2>4, FS_Union, FS_EmptySet
  <2> QED
    BY <1>3, <2>1, <2>5 DEF S, T
<1> QED
  BY <1>2, <1>3

\* The sums say how many elements are not above a value.
LEMMA SummedIs ==
  ASSUME NEW max_val \in Nat, NEW n \in Nat, NEW vals, IsVector(vals, n, max_val)
  PROVE  Summed(Counted(vals, max_val), max_val) =
            [x \in 0 .. max_val |-> Cardinality(NotAbove(vals, n, x))]
<1> DEFINE counter == Counted(vals, max_val)
           IsSum(f) == f = [val \in 0 .. max_val |->
                              IF val = 0 THEN counter[0] ELSE counter[val] + f[val - 1]]
           sum  == CHOOSE f : IsSum(f)
           h    == [x \in 0 .. max_val |-> Cardinality(NotAbove(vals, n, x))]
           Good == {x \in 0 .. max_val : sum[x] = h[x]}
<1>1. \A x \in 0 .. max_val : counter[x] = Cardinality(Those(vals, n, x))
  BY CountedIs
<1>2. \A x \in 0 .. max_val :
         h[x] = IF x = 0 THEN counter[0] ELSE counter[x] + h[x - 1]
  BY <1>1, NotAboveStep
<1>3. \E f : IsSum(f)
  <2>1. IsSum(h)
    <3> HIDE DEF counter
    <3> QED
      BY <1>2
  <2> QED
    BY <2>1
<1>4. IsSum(sum)
  <2> HIDE DEF IsSum
  <2> QED
    BY <1>3
<1>5. Summed(counter, max_val) = sum
  BY DEF Summed
<1> HIDE DEF sum, counter, h
<1>6. 0 \in Good
  BY <1>2, <1>4
<1>7. ASSUME NEW x \in 1 .. max_val, x - 1 \in Good
      PROVE  x \in Good
  BY <1>2, <1>4, <1>7
<1>8. \A x \in 0 .. max_val : x \in Good
  <2> HIDE DEF Good
  <2> QED
    BY <1>6, <1>7, UpToN
<1>9. \A x \in 0 .. max_val : sum[x] = h[x]
  BY <1>8
<1>10. sum = h
  BY <1>4, <1>9 DEF h
<1> QED
  BY <1>5, <1>10 DEF h, counter

-----------------------------------------------------------------------------
(* The third loop places the elements, from the last one to the first.     *)

States(n, max_val) == [counter : [0 .. max_val -> Int],
                       permute : [0 .. n - 1 -> 0 .. n - 1]]

LEMMA PlaceType ==
  ASSUME NEW max_val \in Nat, NEW n \in Nat, NEW vals, IsVector(vals, n, max_val),
         NEW i \in 0 .. n - 1, NEW state \in States(n, max_val)
  PROVE  Place(vals, state, i) \in States(n, max_val)
<1>1. At(vals, i) \in 0 .. max_val
  BY ElementType
<1>2. state.counter \in [0 .. max_val -> Int] /\ state.permute \in [0 .. n - 1 -> 0 .. n - 1]
  BY DEF States
<1> DEFINE pos == state.counter[At(vals, i)] - 1
<1>3. pos \in Int
  BY <1>1, <1>2
<1> HIDE DEF pos
<1>4. [state.counter EXCEPT ![At(vals, i)] = pos] \in [0 .. max_val -> Int]
  BY <1>2, <1>3
<1>5. [state.permute EXCEPT ![pos] = i] \in [0 .. n - 1 -> 0 .. n - 1]
  BY <1>2
<1>6. Place(vals, state, i) = [counter |-> [state.counter EXCEPT ![At(vals, i)] = pos],
                               permute |-> [state.permute EXCEPT ![pos] = i]]
  BY DEF Place, pos
<1>7. \A c \in [0 .. max_val -> Int], p \in [0 .. n - 1 -> 0 .. n - 1] :
         [counter |-> c, permute |-> p] \in States(n, max_val)
  BY DEF States
<1>8. [counter |-> [state.counter EXCEPT ![At(vals, i)] = pos],
       permute |-> [state.permute EXCEPT ![pos] = i]] \in States(n, max_val)
  BY <1>4, <1>5, <1>7
<1> QED
  BY <1>6, <1>8

\* The loop, and what it has round by round.
PlaceAll(vals, start, n) ==
    FoldLeft(LAMBDA state, i : Place(vals, state, i), start, Backwards(n))

LEMMA PlaceRounds ==
  ASSUME NEW max_val \in Nat, NEW n \in Nat, NEW vals, IsVector(vals, n, max_val),
         NEW start \in States(n, max_val)
  PROVE  \E at : /\ at[0] = start
                 /\ \A k \in 1 .. n : at[k] = Place(vals, at[k - 1], n - k)
                 /\ at[n] = PlaceAll(vals, start, n)
<1> DEFINE A == States(n, max_val)
           seq == Backwards(n)
           O == [k \in 1 .. n |-> [state \in A |-> Place(vals, state, seq[k])]]
           IsIter(g) == g = [s \in SUBSET DOMAIN seq |->
                               IF s = {} THEN start
                               ELSE Place(vals, g[s \ {Max(s)}], seq[Max(s)])]
           iter == CHOOSE g : IsIter(g)
           at == [k \in 0 .. n |-> iter[1 .. k]]
<1>1. DOMAIN seq = 1 .. n /\ \A k \in 1 .. n : seq[k] = n - k /\ seq[k] \in 0 .. n - 1
  BY DEF Backwards
<1> HIDE DEF seq, A
<1>2. start \in A
  BY DEF A
<1>3. \A k \in 1 .. n : \A state \in A :
         O[k][state] = Place(vals, state, seq[k]) /\ O[k][state] \in A
  <2>1. ASSUME NEW k \in 1 .. n, NEW state \in A
        PROVE  O[k][state] = Place(vals, state, seq[k]) /\ O[k][state] \in A
    <3>1. O[k][state] = Place(vals, state, seq[k])
      OBVIOUS
    <3>2. seq[k] \in 0 .. n - 1
      BY <1>1
    <3>3. Place(vals, state, seq[k]) \in A
      BY <3>2, PlaceType DEF A
    <3> QED
      BY <3>1, <3>3
  <2> QED
    BY <2>1
<1>4. \E g : IsIter(g)
  <2> HIDE DEF O
  <2>1. PICK g : IsFold(g, O, start, SUBSET (1 .. n))
    BY FoldExists
  <2>2. \A s \in SUBSET (1 .. n) : g[s] \in A
    BY <1>2, <1>3, <2>1, FoldType
  <2>3. ASSUME NEW s \in SUBSET (1 .. n), s # {}
        PROVE  O[Max(s)][g[s \ {Max(s)}]] = Place(vals, g[s \ {Max(s)}], seq[Max(s)])
    <3>1. Max(s) \in 1 .. n
      BY <2>3, MaxInSet
    <3>2. g[s \ {Max(s)}] \in A
      BY <2>2
    <3> QED
      BY <1>3, <3>1, <3>2
  <2>4. IsIter(g)
    BY <1>1, <2>1, <2>3 DEF IsFold
  <2> QED
    BY <2>4
<1>5. IsIter(iter)
  <2> HIDE DEF IsIter
  <2> QED
    BY <1>4
<1>6. PlaceAll(vals, start, n) = iter[1 .. n]
  BY <1>1 DEF PlaceAll, FoldLeft, MapThenFoldSet, seq
<1> HIDE DEF iter
<1>7. at[0] = start
  <2>1. 1 .. 0 = {}
    OBVIOUS
  <2>2. iter[{}] = start
    BY <1>5
  <2> QED
    BY <2>1, <2>2
<1>8. ASSUME NEW k \in 1 .. n
      PROVE  at[k] = Place(vals, at[k - 1], n - k)
  <2>1. Max(1 .. k) = k /\ (1 .. k) \ {k} = 1 .. (k - 1)
    BY MaxOfInterval
  <2>2. 1 .. k \subseteq 1 .. n /\ 1 .. k # {}
    OBVIOUS
  <2>3. 1 .. k \in SUBSET DOMAIN seq
    BY <1>1, <2>2
  <2>4. iter[1 .. k] = Place(vals, iter[(1 .. k) \ {Max(1 .. k)}], seq[Max(1 .. k)])
    BY <1>5, <2>2, <2>3
  <2>5. iter[1 .. k] = Place(vals, iter[1 .. (k - 1)], n - k)
    BY <1>1, <2>1, <2>4
  <2> QED
    BY <2>5
<1>9. at[n] = iter[1 .. n]
  OBVIOUS
<1> HIDE DEF at
<1> QED
  BY <1>6, <1>7, <1>8, <1>9

\* The elements that come before those of value x from position b on.
Below(vals, n, x, b) ==
    {j \in 0 .. n - 1 : At(vals, j) < x \/ (At(vals, j) = x /\ j < b)}

\* Where element i belongs.
Pos(vals, n, i) == Cardinality(Below(vals, n, At(vals, i), i))

LEMMA BelowStep ==
  ASSUME NEW max_val \in Nat, NEW n \in Nat, NEW vals, IsVector(vals, n, max_val),
         NEW i \in 0 .. n - 1, NEW x \in 0 .. max_val
  PROVE  /\ Cardinality(Below(vals, n, x, i)) \in Nat
         /\ Cardinality(Below(vals, n, x, i + 1)) =
               IF At(vals, i) = x THEN Cardinality(Below(vals, n, x, i)) + 1
                                  ELSE Cardinality(Below(vals, n, x, i))
<1> DEFINE old == Below(vals, n, x, i)
<1>1. \A j \in 0 .. n - 1 : At(vals, j) \in 0 .. max_val
  BY ElementType
<1>2. old \subseteq 0 .. n - 1
  BY DEF Below
<1>3. IsFiniteSet(old) /\ Cardinality(old) \in Nat
  <2> HIDE DEF old
  <2> QED
    BY <1>2, IntervalSubset
<1>4. CASE At(vals, i) = x
  <2>1. Below(vals, n, x, i + 1) = old \cup {i}
    BY <1>1, <1>4 DEF Below
  <2>2. i \notin old
    BY <1>1, <1>4 DEF Below
  <2> HIDE DEF old
  <2>3. Cardinality(old \cup {i}) = Cardinality(old) + 1
    BY <1>3, <2>2, FS_AddElement
  <2> QED
    BY <1>3, <1>4, <2>1, <2>3 DEF old
<1>5. CASE At(vals, i) # x
  <2>1. Below(vals, n, x, i + 1) = old
    BY <1>1, <1>5 DEF Below
  <2> QED
    BY <1>3, <1>5, <2>1
<1> QED
  BY <1>4, <1>5

LEMMA PosOrder ==
  ASSUME NEW max_val \in Nat, NEW n \in Nat, NEW vals, IsVector(vals, n, max_val),
         NEW i \in 0 .. n - 1, NEW j \in 0 .. n - 1, Before(vals, i, j)
  PROVE  Pos(vals, n, i) < Pos(vals, n, j)
<1> DEFINE S == Below(vals, n, At(vals, i), i)
           T == Below(vals, n, At(vals, j), j)
<1>1. \A k \in 0 .. n - 1 : At(vals, k) \in 0 .. max_val
  BY ElementType
<1>2. S \subseteq T /\ i \in T /\ i \notin S
  BY <1>1 DEF Below, Before
<1>3. T \subseteq 0 .. n - 1
  BY DEF Below
<1>4. Pos(vals, n, i) = Cardinality(S) /\ Pos(vals, n, j) = Cardinality(T)
  BY DEF Pos
<1> HIDE DEF S, T
<1>5. IsFiniteSet(T) /\ Cardinality(T) \in Nat
  BY <1>3, IntervalSubset
<1>6. IsFiniteSet(S) /\ Cardinality(S) \in Nat
  BY <1>2, <1>5, FS_Subset, FS_CardinalityType
<1>7. Cardinality(S \cup {i}) = Cardinality(S) + 1
  BY <1>2, <1>6, FS_AddElement
<1>8. Cardinality(S \cup {i}) <= Cardinality(T)
  BY <1>2, <1>5, FS_Subset
<1> QED
  BY <1>4, <1>5, <1>6, <1>7, <1>8

LEMMA PosType ==
  ASSUME NEW max_val \in Nat, NEW n \in Nat, NEW vals, IsVector(vals, n, max_val),
         NEW i \in 0 .. n - 1
  PROVE  Pos(vals, n, i) \in 0 .. n - 1
<1> DEFINE S == Below(vals, n, At(vals, i), i)
<1>1. At(vals, i) \in 0 .. max_val
  BY ElementType
<1>2. S \subseteq 0 .. n - 1 /\ i \notin S
  BY <1>1 DEF Below
<1>3. Pos(vals, n, i) = Cardinality(S)
  BY DEF Pos
<1> HIDE DEF S
<1>4. IsFiniteSet(S) /\ Cardinality(S) \in Nat
  BY <1>2, IntervalSubset
<1>5. Cardinality(S \cup {i}) = Cardinality(S) + 1
  BY <1>2, <1>4, FS_AddElement
<1>6. Cardinality(S \cup {i}) <= n
  BY <1>2, IntervalSubset
<1> QED
  BY <1>3, <1>4, <1>5, <1>6

\* Of two elements one comes before the other, so no two belong in one place,
\* and as there are as many places as elements, one belongs in each.
LEMMA PosOneToOne ==
  ASSUME NEW max_val \in Nat, NEW n \in Nat, NEW vals, IsVector(vals, n, max_val)
  PROVE  /\ \A i, j \in 0 .. n - 1 : Pos(vals, n, i) = Pos(vals, n, j) => i = j
         /\ \A p \in 0 .. n - 1 : \E i \in 0 .. n - 1 : Pos(vals, n, i) = p
<1> DEFINE S == 0 .. n - 1
           f == [i \in S |-> Pos(vals, n, i)]
<1>1. ASSUME NEW i \in S, NEW j \in S, Pos(vals, n, i) = Pos(vals, n, j)
      PROVE  i = j
  <2>1. At(vals, i) \in 0 .. max_val /\ At(vals, j) \in 0 .. max_val
    BY ElementType
  <2>2. i = j \/ Before(vals, i, j) \/ Before(vals, j, i)
    BY <2>1 DEF Before
  <2>3. ~Before(vals, i, j) /\ ~Before(vals, j, i)
    BY <1>1, PosOrder, PosType
  <2> QED
    BY <2>2, <2>3
<1>2. f \in [S -> S]
  BY PosType
<1>3. f \in Injection(S, S)
  BY <1>1, <1>2 DEF Injection, IsInjective
<1>4. IsFiniteSet(S)
  BY FS_Interval
<1>5. f \in Surjection(S, S)
  <2> HIDE DEF f, S
  <2> QED
    BY <1>3, <1>4, FS_Injection
<1>6. \A p \in S : \E i \in S : f[i] = p
  <2> HIDE DEF f, S
  <2> QED
    BY <1>5 DEF Surjection
<1> QED
  BY <1>1, <1>6

\* What the third loop starts from.
StartState(vals, n, max_val) ==
    [counter |-> [x \in 0 .. max_val |-> Cardinality(NotAbove(vals, n, x))],
     permute |-> [pos \in 0 .. n - 1 |-> 0]]

\* The loop puts every element where it belongs: when the elements from b on
\* are placed, the counter of a value is the number of elements before those
\* of the value from b on, which is the place after the next one's.
LEMMA PlacedAt ==
  ASSUME NEW max_val \in Nat, NEW n \in Nat, n # 0,
         NEW vals, IsVector(vals, n, max_val)
  PROVE  LET result == PlaceAll(vals, StartState(vals, n, max_val), n).permute
         IN  /\ DOMAIN result = 0 .. n - 1
             /\ \A i \in 0 .. n - 1 : result[Pos(vals, n, i)] = i
<1> DEFINE start  == StartState(vals, n, max_val)
           result == PlaceAll(vals, start, n).permute
<1>1. \A i \in 0 .. n - 1 : At(vals, i) \in 0 .. max_val
  BY ElementType
<1>2. start \in States(n, max_val)
  <2>1. ASSUME NEW x \in 0 .. max_val
        PROVE  Cardinality(NotAbove(vals, n, x)) \in Int
    <3>1. NotAbove(vals, n, x) \subseteq 0 .. n - 1
      BY DEF NotAbove
    <3> QED
      BY <3>1, IntervalSubset
  <2>2. 0 \in 0 .. n - 1
    OBVIOUS
  <2>3. [x \in 0 .. max_val |-> Cardinality(NotAbove(vals, n, x))] \in [0 .. max_val -> Int]
    BY <2>1
  <2>4. [pos \in 0 .. n - 1 |-> 0] \in [0 .. n - 1 -> 0 .. n - 1]
    BY <2>2
  <2> QED
    BY <2>3, <2>4 DEF States, StartState
<1> HIDE DEF start
<1>3. PICK at : /\ at[0] = start
                /\ \A k \in 1 .. n : at[k] = Place(vals, at[k - 1], n - k)
                /\ at[n] = PlaceAll(vals, start, n)
  BY <1>2, PlaceRounds
<1> DEFINE Counters(k) == \A x \in 0 .. max_val :
              at[k].counter[x] = Cardinality(Below(vals, n, x, n - k))
           Placed(k) == \A i \in n - k .. n - 1 :
              at[k].permute[Pos(vals, n, i)] = i
           Good == {k \in 0 .. n : /\ at[k] \in States(n, max_val)
                                   /\ Counters(k) /\ Placed(k)}
<1>4. 0 \in Good
  <2>1. ASSUME NEW x \in 0 .. max_val
        PROVE  NotAbove(vals, n, x) = Below(vals, n, x, n - 0)
    BY <1>1 DEF NotAbove, Below
  <2>2. Counters(0)
    BY <1>3, <2>1 DEF start, StartState
  <2>3. Placed(0)
    OBVIOUS
  <2> QED
    BY <1>2, <1>3, <2>2, <2>3
<1>5. ASSUME NEW k \in 1 .. n, k - 1 \in Good
      PROVE  k \in Good
  <2> DEFINE i   == n - k
             old == at[k - 1]
             pos == old.counter[At(vals, i)] - 1
  <2>1. i \in 0 .. n - 1 /\ n - (k - 1) = i + 1
    OBVIOUS
  <2>2. old \in States(n, max_val) /\ Counters(k - 1) /\ Placed(k - 1)
    BY <1>5
  <2>3. at[k] = Place(vals, old, i)
    BY <1>3
  <2>4. at[k] \in States(n, max_val)
    BY <2>1, <2>2, <2>3, PlaceType
  <2>5. /\ at[k].counter = [old.counter EXCEPT ![At(vals, i)] = pos]
        /\ at[k].permute = [old.permute EXCEPT ![pos] = i]
    BY <2>3 DEF Place
  <2>6. /\ old.counter \in [0 .. max_val -> Int]
        /\ old.permute \in [0 .. n - 1 -> 0 .. n - 1]
    BY <2>2 DEF States
  <2>7. At(vals, i) \in 0 .. max_val
    BY <1>1, <2>1
  <2>8. \A x \in 0 .. max_val : old.counter[x] = Cardinality(Below(vals, n, x, i + 1))
    BY <2>1, <2>2
  <2> HIDE DEF i, old
  <2>9. \A x \in 0 .. max_val :
           /\ Cardinality(Below(vals, n, x, i)) \in Nat
           /\ old.counter[x] = IF At(vals, i) = x THEN Cardinality(Below(vals, n, x, i)) + 1
                                                  ELSE Cardinality(Below(vals, n, x, i))
    BY <2>1, <2>8, BelowStep
  <2>10. pos = Pos(vals, n, i)
    BY <2>7, <2>9 DEF Pos
  <2> HIDE DEF pos
  <2>11. \A x \in 0 .. max_val : at[k].counter[x] = Cardinality(Below(vals, n, x, i))
    <3>1. at[k].counter[At(vals, i)] = pos
      BY <2>5, <2>6, <2>7
    <3>2. \A x \in 0 .. max_val : x # At(vals, i) => at[k].counter[x] = old.counter[x]
      BY <2>5, <2>6
    <3> QED
      BY <2>9, <2>10, <3>1, <3>2 DEF Pos
  <2>12. Counters(k)
    BY <2>11 DEF i
  <2>13. ASSUME NEW j \in i .. n - 1
         PROVE  at[k].permute[Pos(vals, n, j)] = j
    <3>1. j \in 0 .. n - 1 /\ Pos(vals, n, j) \in 0 .. n - 1 /\ pos \in 0 .. n - 1
      BY <2>1, <2>10, PosType
    <3>2. CASE j = i
      BY <3>1, <3>2, <2>5, <2>6, <2>10
    <3>3. CASE j # i
      <4>1. Pos(vals, n, j) # pos
        BY <2>1, <2>10, <3>1, <3>3, PosOneToOne
      <4>2. j \in i + 1 .. n - 1
        BY <2>1, <3>3
      <4>3. old.permute[Pos(vals, n, j)] = j
        BY <2>1, <2>2, <4>2 DEF old
      <4> QED
        BY <2>5, <2>6, <3>1, <4>1, <4>3
    <3> QED
      BY <3>2, <3>3
  <2>14. Placed(k)
    BY <2>13 DEF i
  <2> QED
    BY <2>4, <2>12, <2>14
<1>6. n \in Good
  <2> HIDE DEF Good
  <2> QED
    BY <1>4, <1>5, UpToN
<1>7. at[n] \in States(n, max_val) /\ Placed(n)
  BY <1>6
<1>8. result = at[n].permute
  BY <1>3
<1>9. at[n].permute \in [0 .. n - 1 -> 0 .. n - 1]
  BY <1>7 DEF States
<1>10. DOMAIN result = 0 .. n - 1
  BY <1>8, <1>9
<1>11. \A i \in 0 .. n - 1 : result[Pos(vals, n, i)] = i
  BY <1>7, <1>8
<1> QED
  BY <1>10, <1>11 DEF start

-----------------------------------------------------------------------------
(* The result.                                                             *)

\* What the function returns for a vector that is not empty, in terms of where
\* the elements belong.
SortedRight(vals, n, max_val, sorted) ==
    /\ DOMAIN sorted.permute = 1 .. n /\ Len(sorted.permute) = n
    /\ \A i \in 0 .. n - 1 : At(sorted.permute, Pos(vals, n, i)) = i
    /\ DOMAIN sorted.prefix = 1 .. max_val + 2 /\ Len(sorted.prefix) = max_val + 2
    /\ \A x \in 0 .. max_val :
          /\ At(sorted.prefix, x) = Cardinality(Lower(vals, n, x))
          /\ At(sorted.prefix, x + 1) = Cardinality(NotAbove(vals, n, x))

LEMMA SortedIs ==
  ASSUME NEW max_val \in Nat, NEW n \in Nat, n # 0, NEW vals, IsVector(vals, n, max_val)
  PROVE  SortedRight(vals, n, max_val, Sorted(vals, max_val))
<1> DEFINE sums    == Summed(Counted(vals, max_val), max_val)
           start   == [counter |-> sums, permute |-> [pos \in 0 .. n - 1 |-> 0]]
           permute == PlaceAll(vals, start, n).permute
           perm    == [k \in 1 .. n |-> permute[k - 1]]
           prefix  == [k \in 1 .. max_val + 2 |-> IF k = 1 THEN 0 ELSE sums[k - 2]]
<1>1. Len(vals) = n /\ vals # <<>>
  <2>1. Len(<<>>) = 0
    OBVIOUS
  <2> QED
    BY <2>1 DEF IsVector
<1>2. Sorted(vals, max_val) = [permute |-> perm, prefix |-> prefix]
  BY <1>1 DEF Sorted, PlaceAll
<1>3. sums = [x \in 0 .. max_val |-> Cardinality(NotAbove(vals, n, x))]
  BY SummedIs
<1> HIDE DEF sums
<1>4. start = StartState(vals, n, max_val)
  BY <1>3 DEF StartState
<1> HIDE DEF start
<1>5. DOMAIN permute = 0 .. n - 1 /\ \A i \in 0 .. n - 1 : permute[Pos(vals, n, i)] = i
  BY <1>4, PlacedAt
<1> HIDE DEF permute
<1>6. DOMAIN perm = 1 .. n /\ Len(perm) = n
  OBVIOUS
<1>7. ASSUME NEW i \in 0 .. n - 1
      PROVE  At(perm, Pos(vals, n, i)) = i
  <2>1. Pos(vals, n, i) \in 0 .. n - 1
    BY PosType
  <2>2. Pos(vals, n, i) + 1 \in 1 .. n /\ (Pos(vals, n, i) + 1) - 1 = Pos(vals, n, i)
    BY <2>1
  <2> QED
    BY <1>5, <2>2 DEF At
<1>8. DOMAIN prefix = 1 .. max_val + 2 /\ Len(prefix) = max_val + 2
  OBVIOUS
<1>9. ASSUME NEW x \in 0 .. max_val
      PROVE  /\ At(prefix, x) = Cardinality(Lower(vals, n, x))
             /\ At(prefix, x + 1) = Cardinality(NotAbove(vals, n, x))
  <2>1. \A i \in 0 .. n - 1 : At(vals, i) \in 0 .. max_val
    BY ElementType
  <2>2. At(prefix, x + 1) = Cardinality(NotAbove(vals, n, x))
    BY <1>3 DEF At
  <2>3. CASE x = 0
    <3>1. Lower(vals, n, x) = {}
      BY <2>1, <2>3 DEF Lower
    <3>2. At(prefix, x) = 0
      BY <2>3 DEF At
    <3> QED
      BY <2>2, <3>1, <3>2, FS_EmptySet
  <2>4. CASE x # 0
    <3>1. Lower(vals, n, x) = NotAbove(vals, n, x - 1)
      BY <2>1, <2>4 DEF Lower, NotAbove
    <3>2. At(prefix, x) = sums[x - 1]
      BY <2>4 DEF At
    <3> QED
      BY <1>3, <2>2, <2>4, <3>1, <3>2
  <2> QED
    BY <2>3, <2>4
<1> HIDE DEF perm, prefix
<1> QED
  BY <1>2, <1>6, <1>7, <1>8, <1>9 DEF SortedRight

\* The elements of one value belong in the places of the value.
LEMMA PlacesOfValue ==
  ASSUME NEW max_val \in Nat, NEW n \in Nat, NEW vals, IsVector(vals, n, max_val),
         NEW x \in 0 .. max_val, NEW i \in 0 .. n - 1
  PROVE  /\ Cardinality(Lower(vals, n, x)) \in 0 .. n
         /\ Cardinality(NotAbove(vals, n, x)) \in 0 .. n
         /\ At(vals, i) = x <=>
               Pos(vals, n, i) \in Cardinality(Lower(vals, n, x))
                                      .. Cardinality(NotAbove(vals, n, x)) - 1
<1> DEFINE L == Lower(vals, n, x)
           U == NotAbove(vals, n, x)
           B == Below(vals, n, At(vals, i), i)
<1>1. \A j \in 0 .. n - 1 : At(vals, j) \in 0 .. max_val
  BY ElementType
<1>2. L \subseteq 0 .. n - 1 /\ U \subseteq 0 .. n - 1 /\ B \subseteq 0 .. n - 1
  BY DEF Lower, NotAbove, Below
<1>3. At(vals, i) < x => B \cup {i} \subseteq L /\ i \notin B
  BY <1>1 DEF Lower, Below
<1>4. At(vals, i) = x => L \subseteq B /\ B \cup {i} \subseteq U /\ i \notin B
  BY <1>1 DEF Lower, NotAbove, Below
<1>5. At(vals, i) > x => U \subseteq B
  BY <1>1 DEF NotAbove, Below
<1>6. Pos(vals, n, i) = Cardinality(B)
  BY DEF Pos
<1>7. At(vals, i) \in Int /\ x \in Int
  BY <1>1
<1> HIDE DEF L, U, B
<1>8. /\ IsFiniteSet(L) /\ Cardinality(L) \in Nat /\ Cardinality(L) <= n
      /\ IsFiniteSet(U) /\ Cardinality(U) \in Nat /\ Cardinality(U) <= n
      /\ IsFiniteSet(B) /\ Cardinality(B) \in Nat /\ Cardinality(B) <= n
  BY <1>2, IntervalSubset
<1>9. i \notin B => Cardinality(B \cup {i}) = Cardinality(B) + 1
  BY <1>8, FS_AddElement
<1>10. At(vals, i) < x => Cardinality(B) < Cardinality(L)
  <2>1. B \cup {i} \subseteq L => Cardinality(B \cup {i}) <= Cardinality(L)
    BY <1>8, FS_Subset
  <2> QED
    BY <1>3, <1>8, <1>9, <2>1
<1>11. At(vals, i) = x => /\ Cardinality(L) <= Cardinality(B)
                          /\ Cardinality(B) < Cardinality(U)
  <2>1. B \cup {i} \subseteq U => Cardinality(B \cup {i}) <= Cardinality(U)
    BY <1>8, FS_Subset
  <2>2. L \subseteq B => Cardinality(L) <= Cardinality(B)
    BY <1>8, FS_Subset
  <2> QED
    BY <1>4, <1>8, <1>9, <2>1, <2>2
<1>12. At(vals, i) > x => Cardinality(U) <= Cardinality(B)
  BY <1>5, <1>8, FS_Subset
<1> QED
  BY <1>6, <1>7, <1>8, <1>10, <1>11, <1>12 DEF L, U

LEMMA NonEmptySorts ==
  ASSUME NEW max_val \in Nat, NEW n \in Nat, n # 0, NEW vals, IsVector(vals, n, max_val)
  PROVE  LET sorted == Sorted(vals, max_val)
         IN  /\ IsStableSort(vals, sorted.permute)
             /\ HasPrefixSums(vals, max_val, sorted.permute, sorted.prefix)
<1>1. Len(vals) = n
  BY DEF IsVector
<1> DEFINE sorted == Sorted(vals, max_val)
           perm   == sorted.permute
<1>2. SortedRight(vals, n, max_val, sorted)
  BY <1>1, SortedIs
<1> HIDE DEF sorted
<1>3. /\ \A i \in 0 .. n - 1 : Pos(vals, n, i) \in 0 .. n - 1
      /\ \A i \in 0 .. n - 1 : At(perm, Pos(vals, n, i)) = i
  BY <1>1, <1>2, PosType DEF SortedRight
<1>4. \A p \in 0 .. n - 1 : \E i \in 0 .. n - 1 : Pos(vals, n, i) = p /\ At(perm, p) = i
  <2>1. \A p \in 0 .. n - 1 : \E i \in 0 .. n - 1 : Pos(vals, n, i) = p
    BY <1>1, PosOneToOne
  <2> QED
    BY <1>3, <2>1
<1>5. {At(perm, k) : k \in 0 .. n - 1} = 0 .. n - 1
  <2> DEFINE S == {At(perm, k) : k \in 0 .. n - 1}
  <2>1. ASSUME NEW k \in 0 .. n - 1 PROVE At(perm, k) \in 0 .. n - 1
    BY <1>4
  <2>2. ASSUME NEW i \in 0 .. n - 1 PROVE i \in S
    BY <1>3
  <2> QED
    BY <2>1, <2>2
<1>6. ASSUME NEW k \in 1 .. n - 1
      PROVE  Before(vals, At(perm, k - 1), At(perm, k))
  <2>0. k - 1 \in 0 .. n - 1 /\ k \in 0 .. n - 1
    OBVIOUS
  <2>1. PICK i \in 0 .. n - 1 : Pos(vals, n, i) = k - 1 /\ At(perm, k - 1) = i
    BY <1>4, <2>0
  <2>2. PICK j \in 0 .. n - 1 : Pos(vals, n, j) = k /\ At(perm, k) = j
    BY <1>4, <2>0
  <2>3. At(vals, i) \in 0 .. max_val /\ At(vals, j) \in 0 .. max_val
    BY <1>1, ElementType
  <2>4. ~Before(vals, j, i)
    BY <1>1, <2>1, <2>2, PosOrder
  <2>5. i # j
    BY <2>1, <2>2
  <2> QED
    BY <2>1, <2>2, <2>3, <2>4, <2>5 DEF Before
<1>7. IsStableSort(vals, perm)
  BY <1>1, <1>2, <1>5, <1>6 DEF IsStableSort, SortedRight
<1>8. ASSUME NEW x \in 0 .. max_val
      PROVE  {At(perm, k) : k \in At(sorted.prefix, x) .. At(sorted.prefix, x + 1) - 1}
                = {i \in 0 .. n - 1 : At(vals, i) = x}
  <2> DEFINE a == Cardinality(Lower(vals, n, x))
             b == Cardinality(NotAbove(vals, n, x))
  <2>1. At(sorted.prefix, x) = a /\ At(sorted.prefix, x + 1) = b
    BY <1>2 DEF SortedRight
  <2>2. 0 \in 0 .. n - 1
    BY <1>1
  <2>3. /\ a \in 0 .. n /\ b \in 0 .. n
        /\ \A i \in 0 .. n - 1 : At(vals, i) = x <=> Pos(vals, n, i) \in a .. b - 1
    BY <1>1, <2>2, PlacesOfValue
  <2> HIDE DEF a, b
  <2>4. \A k \in a .. b - 1 : k \in 0 .. n - 1
    BY <2>3
  <2>5. ASSUME NEW k \in a .. b - 1
        PROVE  At(perm, k) \in {i \in 0 .. n - 1 : At(vals, i) = x}
    BY <1>4, <2>3, <2>4
  <2>6. ASSUME NEW i \in 0 .. n - 1, At(vals, i) = x
        PROVE  \E k \in a .. b - 1 : At(perm, k) = i
    BY <1>3, <2>3, <2>6
  <2> QED
    BY <2>1, <2>5, <2>6
<1>9. HasPrefixSums(vals, max_val, perm, sorted.prefix)
  BY <1>1, <1>2, <1>8 DEF HasPrefixSums, SortedRight
<1> QED
  BY <1>7, <1>9 DEF sorted

\* The counting sort sorts: for every vector of values up to max_val, of any
\* length, the permutation it returns names each element once, puts equal ones
\* in the order they had and others in that of their values, and the prefix
\* sums delimit the elements of each value (counting_sort.hpp:7-49).
THEOREM CountingSortSorts ==
  ASSUME NEW max_val \in Nat, NEW vals \in Seq(0 .. max_val)
  PROVE  LET sorted == Sorted(vals, max_val)
         IN  /\ IsStableSort(vals, sorted.permute)
             /\ HasPrefixSums(vals, max_val, sorted.permute, sorted.prefix)
<1>1. CASE vals = <<>>
  <2> DEFINE sorted == Sorted(vals, max_val)
  <2>1. sorted.permute = <<>> /\ Len(vals) = 0
    BY <1>1 DEF Sorted
  <2>2. Len(<<>>) = 0 /\ 0 .. 0 - 1 = {} /\ 1 .. 0 - 1 = {}
    OBVIOUS
  <2>3. IsStableSort(vals, sorted.permute)
    BY <2>1, <2>2 DEF IsStableSort
  <2> QED
    BY <1>1, <2>3 DEF HasPrefixSums
<1>2. CASE vals # <<>>
  <2>1. PICK n \in Nat : n # 0 /\ IsVector(vals, n, max_val)
    BY <1>2, SequenceIsVector
  <2> QED
    BY <2>1, NonEmptySorts
<1> QED
  BY <1>1, <1>2

-----------------------------------------------------------------------------
(* The table of ids.                                                       *)

\* The ids are the numbers up to the counter, one for each key.
IdsOK(table) ==
    /\ IsFiniteSet(DOMAIN table.map)
    /\ table.last \in Int /\ table.last >= -1
    /\ Cardinality(DOMAIN table.map) = table.last + 1
    /\ \A g \in DOMAIN table.map : table.map[g] \in 0 .. table.last
    /\ \A l \in 0 .. table.last : \E g \in DOMAIN table.map : table.map[g] = l

\* A table that knows what the other knows, and maybe more.
ExtendsTable(new, old) ==
    /\ DOMAIN old.map \subseteq DOMAIN new.map
    /\ \A g \in DOMAIN old.map : new.map[g] = old.map[g]
    /\ new.last >= old.last

\* get_local_id leaves a good table good, knows its argument afterwards and
\* forgets nothing.
LEMMA GetLocalIdExtends ==
  ASSUME NEW table, NEW g, IdsOK(table)
  PROVE  /\ IdsOK(GetLocalId(table, g))
         /\ ExtendsTable(GetLocalId(table, g), table)
         /\ g \in DOMAIN GetLocalId(table, g).map
<1>1. CASE g \in DOMAIN table.map
  BY <1>1 DEF GetLocalId, IdsOK, ExtendsTable
<1>2. CASE g \notin DOMAIN table.map
  <2> DEFINE new == GetLocalId(table, g)
             dom == DOMAIN table.map \cup {g}
  <2>1. /\ new.map = [h \in dom |-> IF h = g THEN table.last + 1 ELSE table.map[h]]
        /\ new.last = table.last + 1
    BY <1>2 DEF GetLocalId
  <2>2. DOMAIN new.map = dom
    BY <2>1
  <2>3. IsFiniteSet(dom) /\ Cardinality(dom) = Cardinality(DOMAIN table.map) + 1
    BY <1>2, FS_AddElement DEF IdsOK
  <2>4. \A h \in DOMAIN table.map : new.map[h] = table.map[h]
    BY <1>2, <2>1
  <2>5. new.map[g] = table.last + 1
    BY <2>1
  <2> HIDE DEF new
  <2>6. \A h \in DOMAIN new.map : new.map[h] \in 0 .. new.last
    BY <2>1, <2>2, <2>4, <2>5 DEF IdsOK
  <2>7. ASSUME NEW l \in 0 .. new.last
        PROVE  \E h \in DOMAIN new.map : new.map[h] = l
    <3>1. CASE l = table.last + 1
      BY <3>1, <2>2, <2>5
    <3>2. CASE l # table.last + 1
      <4>1. l \in 0 .. table.last
        BY <3>2, <2>1 DEF IdsOK
      <4>2. PICK h \in DOMAIN table.map : table.map[h] = l
        BY <4>1 DEF IdsOK
      <4> QED
        BY <4>2, <2>2, <2>4
    <3> QED
      BY <3>1, <3>2
  <2>8. IdsOK(new)
    BY <2>1, <2>2, <2>3, <2>6, <2>7 DEF IdsOK
  <2>9. ExtendsTable(new, table)
    BY <2>1, <2>2, <2>4 DEF ExtendsTable, IdsOK
  <2> QED
    BY <2>2, <2>8, <2>9 DEF new
<1> QED
  BY <1>1, <1>2

LEMMA ExtendsTwice ==
  ASSUME NEW new, NEW mid, NEW old, IdsOK(new), IdsOK(mid), IdsOK(old),
         ExtendsTable(new, mid), ExtendsTable(mid, old)
  PROVE  ExtendsTable(new, old)
  BY DEF ExtendsTable, IdsOK

\* After finalize the inverse map goes back where it came from, whatever ids
\* were added since.
InverseKept ==
    \A l \in DOMAIN local_id2gloabl_id :
        /\ local_id2gloabl_id[l] \in DOMAIN global_id2local_id
        /\ global_id2local_id[local_id2gloabl_id[l]] = l

IdsInv == IdsOK(IdTable) /\ InverseKept

LEMMA InitIds == Init => IdsInv
<1> SUFFICES ASSUME Init PROVE IdsInv
  OBVIOUS
<1>1. DOMAIN global_id2local_id = {} /\ current_local_id = -1
  BY DEF Init
<1>2. IdsOK(IdTable)
  BY <1>1, FS_EmptySet DEF IdsOK, IdTable
<1>3. DOMAIN local_id2gloabl_id = {}
  BY DEF Init
<1> QED
  BY <1>2, <1>3 DEF IdsInv, InverseKept

\* The steps that only look up ids.
LEMMA LookupIds ==
  ASSUME IdsInv, NEW table, SetIds(table), IdsOK(table),
         ExtendsTable(table, IdTable), UNCHANGED local_id2gloabl_id
  PROVE  IdsInv'
<1>1. IdTable'.map = table.map /\ IdTable'.last = table.last
  BY DEF SetIds, IdTable
<1>2. IdsOK(IdTable)'
  BY <1>1 DEF IdsOK
<1>3. InverseKept'
  <2>1. /\ DOMAIN global_id2local_id \subseteq DOMAIN table.map
        /\ \A g \in DOMAIN global_id2local_id : table.map[g] = global_id2local_id[g]
    BY DEF ExtendsTable, IdTable
  <2> QED
    BY <2>1 DEF IdsInv, InverseKept, SetIds
<1> QED
  BY <1>2, <1>3 DEF IdsInv

LEMMA TwoIds ==
  ASSUME IdsInv, NEW g, NEW h,
         SetIds(GetLocalId(GetLocalId(IdTable, g), h)), UNCHANGED local_id2gloabl_id
  PROVE  IdsInv' /\ ExtendsTable(GetLocalId(GetLocalId(IdTable, g), h), IdTable)
<1> DEFINE once  == GetLocalId(IdTable, g)
           twice == GetLocalId(once, h)
<1>0. IdsOK(IdTable)
  BY DEF IdsInv
<1>1. IdsOK(once) /\ ExtendsTable(once, IdTable)
  BY <1>0, GetLocalIdExtends
<1> SUFFICES ASSUME TRUE
             PROVE  IdsInv' /\ ExtendsTable(twice, IdTable)
  OBVIOUS
<1> HIDE DEF once
<1>2. IdsOK(twice) /\ ExtendsTable(twice, once)
  BY <1>1, GetLocalIdExtends
<1>3. SetIds(twice)
  BY DEF once
<1> HIDE DEF twice
<1>4. ExtendsTable(twice, IdTable)
  BY <1>0, <1>1, <1>2, ExtendsTwice
<1> QED
  BY <1>2, <1>3, <1>4, LookupIds

LEMMA AddVertexIds ==
  ASSUME IdsInv, NEW g \in GlobalId, NEW d \in VertexData, AddVertex(g, d)
  PROVE  IdsInv' /\ ExtendsTable(GetLocalId(IdTable, g), IdTable)
<1> DEFINE table == GetLocalId(IdTable, g)
<1>1. IdsOK(table) /\ ExtendsTable(table, IdTable)
  BY GetLocalIdExtends DEF IdsInv
<1>2. SetIds(table) /\ UNCHANGED local_id2gloabl_id
  BY DEF AddVertex
<1> HIDE DEF table
<1>3. IdsInv'
  BY <1>1, <1>2, LookupIds
<1> QED
  BY <1>1, <1>3 DEF table

LEMMA BuildStorageIds ==
  ASSUME IdsInv, BuildStorage
  PROVE  IdsInv'
<1>1. UNCHANGED <<global_id2local_id, current_local_id>>
  BY DEF BuildStorage, ids
<1>2. IdsOK(IdTable)'
  BY <1>1 DEF IdsInv, IdsOK, IdTable
<1>3. ASSUME NEW l \in DOMAIN local_id2gloabl_id'
      PROVE  /\ local_id2gloabl_id'[l] \in DOMAIN global_id2local_id
             /\ global_id2local_id[local_id2gloabl_id'[l]] = l
  <2>1. CASE l \in Range(global_id2local_id)
    <3>1. \E g \in DOMAIN global_id2local_id : global_id2local_id[g] = l
      BY <2>1 DEF Range
    <3>2. local_id2gloabl_id'[l] =
             CHOOSE g \in DOMAIN global_id2local_id : global_id2local_id[g] = l
      BY <2>1 DEF BuildStorage
    <3> QED
      BY <3>1, <3>2
  <2>2. CASE l \notin Range(global_id2local_id)
    <3>1. l \in DOMAIN local_id2gloabl_id
      BY <1>3, <2>2 DEF BuildStorage
    <3>2. local_id2gloabl_id'[l] = local_id2gloabl_id[l]
      BY <2>2, <3>1 DEF BuildStorage
    <3> QED
      BY <3>1, <3>2 DEF IdsInv, InverseKept
  <2> QED
    BY <2>1, <2>2
<1>4. InverseKept'
  BY <1>1, <1>3 DEF InverseKept
<1> QED
  BY <1>2, <1>4 DEF IdsInv

LEMMA SameIds ==
  ASSUME IdsInv, UNCHANGED <<ids, local_id2gloabl_id>>
  PROVE  IdsInv'
  BY DEF IdsInv, IdsOK, IdTable, InverseKept, ids

LEMMA NextIds ==
  ASSUME IdsInv, [Next]_vars
  PROVE  IdsInv'
<1>1. ASSUME NEW g \in GlobalId, NEW h \in GlobalId, AddEdge(g, h) \/ LoadUndirected(g, h)
      PROVE  IdsInv'
  <2>1. /\ SetIds(GetLocalId(GetLocalId(IdTable, g), h))
        /\ UNCHANGED local_id2gloabl_id
    BY <1>1 DEF AddEdge, LoadUndirected
  <2> QED
    BY <2>1, TwoIds
<1>2. ASSUME NEW g \in GlobalId, NEW d \in VertexData, AddVertex(g, d)
      PROVE  IdsInv'
  BY <1>2, AddVertexIds
<1>3. CASE Finalize
  BY <1>3, BuildStorageIds DEF Finalize
<1>4. CASE UNCHANGED vars
  BY <1>4, SameIds DEF vars
<1> QED
  BY <1>1, <1>2, <1>3, <1>4 DEF Next

LEMMA IdsInvGivesBijective == IdsInv => IdsBijective
<1> SUFFICES ASSUME IdsInv PROVE IdsBijective
  OBVIOUS
<1>1. /\ Cardinality(DOMAIN global_id2local_id) = current_local_id + 1
      /\ \A g \in DOMAIN global_id2local_id :
            global_id2local_id[g] \in 0 .. current_local_id
      /\ \A l \in 0 .. current_local_id :
            \E g \in DOMAIN global_id2local_id : global_id2local_id[g] = l
  BY DEF IdsInv, IdsOK, IdTable
<1>2. Range(global_id2local_id) = LocalId
  BY <1>1 DEF Range, LocalId
<1> QED
  BY <1>1, <1>2 DEF IdsBijective, IdsInv, InverseKept

\* Local ids are the numbers from 0 without a gap, one for each global id, in
\* whatever order edges and vertices name them (graph.hpp:338-354), and what
\* the last finalize wrote into the inverse map stays right when ids are added
\* after it.
THEOREM IdsStayBijective == Spec => []IdsBijective
<1>1. Init => IdsInv
  BY InitIds
<1>2. IdsInv /\ [Next]_vars => IdsInv'
  BY NextIds
<1> QED
  BY <1>1, <1>2, IdsInvGivesBijective, PTL DEF Spec

-----------------------------------------------------------------------------
(* What finalize sorts, and the rows it builds.                            *)

\* The local ids of one end of the first b edges of a sequence.
EndsOf(map, seq, end, b) == [i \in 1 .. b |-> map[seq[i][end]]]
Sources(b) == EndsOf(global_id2local_id, added, 1, b)
Targets(b) == EndsOf(global_id2local_id, added, 2, b)

\* A sequence of edges that join known ids, and a buffer that holds their ends.
Line == GlobalId \X GlobalId \X Nat
KnownEnds(map, seq) ==
    /\ seq \in Seq(Line)
    /\ \A i \in 1 .. Len(seq) : seq[i][1] \in DOMAIN map /\ seq[i][2] \in DOMAIN map
Holds(map, seq, buffer) ==
    buffer = [source_arr |-> EndsOf(map, seq, 1, Len(seq)),
              target_arr |-> EndsOf(map, seq, 2, Len(seq)), data |-> buffer.data]

EdgesKnown   == KnownEnds(global_id2local_id, added)
EndsBuffered == Holds(global_id2local_id, added, edge_buffer)

\* The ids the last finalize knew.
KnownThen == Cardinality(DOMAIN local_id2gloabl_id)

\* The rows and columns are the sorted ends of the edges built, with a row for
\* each id of that time; without an edge there is none.
RowsOf(src, tgt, b, known, rows, cols) ==
    /\ \A i \in 1 .. b : src[i] \in 0 .. known - 1 /\ tgt[i] \in 0 .. known - 1
    /\ b = 0 => rows.value_ptrs = <<>> /\ cols.value_ptrs = <<>>
    /\ b > 0 => /\ known > 0
                /\ rows = Storage(tgt, Sorted(src, known - 1))
                /\ cols = Storage(src, Sorted(tgt, known - 1))
RowsBuilt ==
    /\ DOMAIN local_id2gloabl_id = 0 .. KnownThen - 1
    /\ KnownThen \in 0 .. current_local_id + 1
    /\ built \in 0 .. Len(added)
    /\ RowsOf(Sources(built), Targets(built), built, KnownThen, csr, csc)

StoreInv == IdsInv /\ EdgesKnown /\ EndsBuffered /\ RowsBuilt

LEMMA InitStore == Init => StoreInv
<1> SUFFICES ASSUME Init PROVE StoreInv
  OBVIOUS
<1>1. IdsInv
  BY InitIds
<1>2. added = <<>> /\ Len(added) = 0 /\ built = 0 /\ current_local_id = -1
  BY DEF Init
<1>3. EdgesKnown
  BY <1>2 DEF EdgesKnown, KnownEnds
<1>4. Sources(0) = <<>> /\ Targets(0) = <<>>
  BY DEF Sources, Targets, EndsOf
<1>5. EndsBuffered
  BY <1>2, <1>4 DEF EndsBuffered, Holds, Sources, Targets, Init
<1>6. DOMAIN local_id2gloabl_id = {}
  BY DEF Init
<1>7. KnownThen = 0
  BY <1>6, FS_EmptySet DEF KnownThen
<1>8. RowsBuilt
  BY <1>2, <1>6, <1>7 DEF RowsBuilt, RowsOf, Init, NoStorage
<1> QED
  BY <1>1, <1>3, <1>5, <1>8 DEF StoreInv

\* Ids that are known keep their numbers, and so do the ends of edges.
LEMMA EndsKept ==
  ASSUME EdgesKnown, added' \in Seq(Line),
         Len(added') >= Len(added),
         \A i \in 1 .. Len(added) : added'[i] = added[i],
         \A g \in DOMAIN global_id2local_id :
            /\ g \in DOMAIN global_id2local_id'
            /\ global_id2local_id'[g] = global_id2local_id[g]
  PROVE  \A b \in 0 .. Len(added) : /\ Sources(b)' = Sources(b)
                                    /\ Targets(b)' = Targets(b)
<1> SUFFICES ASSUME NEW b \in 0 .. Len(added)
             PROVE  Sources(b)' = Sources(b) /\ Targets(b)' = Targets(b)
  OBVIOUS
<1>1. Len(added) \in Nat
  BY DEF EdgesKnown, KnownEnds
<1>2. \A i \in 1 .. b : i \in 1 .. Len(added)
  BY <1>1
<1>3. \A i \in 1 .. b : /\ global_id2local_id'[added'[i][1]] = global_id2local_id[added[i][1]]
                        /\ global_id2local_id'[added'[i][2]] = global_id2local_id[added[i][2]]
  BY <1>2 DEF EdgesKnown, KnownEnds
<1> QED
  BY <1>3 DEF Sources, Targets, EndsOf

LEMMA WiderRange ==
  ASSUME NEW a \in Int, NEW b \in Int, b >= a, NEW k \in 0 .. a + 1
  PROVE  k \in 0 .. b + 1
OBVIOUS

\* The rows stay what they are while ids and edges are added.
LEMMA RowsKept ==
  ASSUME RowsBuilt, EdgesKnown, added' \in Seq(Line),
         Len(added') >= Len(added),
         \A i \in 1 .. Len(added) : added'[i] = added[i],
         \A g \in DOMAIN global_id2local_id :
            /\ g \in DOMAIN global_id2local_id'
            /\ global_id2local_id'[g] = global_id2local_id[g],
         current_local_id \in Int, current_local_id' \in Int,
         current_local_id' >= current_local_id,
         UNCHANGED <<local_id2gloabl_id, csr, csc, built>>
  PROVE  RowsBuilt'
<1>1. built \in 0 .. Len(added) /\ Len(added) \in Nat /\ Len(added') \in Nat
  BY DEF RowsBuilt, EdgesKnown, KnownEnds
<1>2. Sources(built)' = Sources(built) /\ Targets(built)' = Targets(built)
  <2>1. \A b \in 0 .. Len(added) : Sources(b)' = Sources(b) /\ Targets(b)' = Targets(b)
    BY EndsKept
  <2>2. PICK b \in 0 .. Len(added) : b = built
    BY <1>1
  <2>3. Sources(built)' = Sources(b)' /\ Targets(built)' = Targets(b)'
    BY <2>2 DEF Sources, Targets, EndsOf
  <2> QED
    BY <2>1, <2>2, <2>3
<1>3. KnownThen' = KnownThen
  BY DEF KnownThen
<1>4. KnownThen \in 0 .. current_local_id' + 1
  <2>1. KnownThen \in 0 .. current_local_id + 1
    BY DEF RowsBuilt
  <2> QED
    BY <2>1, WiderRange
<1>5. built \in 0 .. Len(added')
  BY <1>1
<1>6. RowsOf(Sources(built), Targets(built), built, KnownThen, csr, csc)'
  <2>1. RowsOf(Sources(built), Targets(built), built, KnownThen, csr, csc)
    BY DEF RowsBuilt
  <2> QED
    BY <1>2, <1>3, <2>1 DEF RowsOf
<1>7. DOMAIN local_id2gloabl_id' = 0 .. KnownThen' - 1
  BY <1>3 DEF RowsBuilt
<1> QED
  BY <1>3, <1>4, <1>5, <1>6, <1>7 DEF RowsBuilt

\* One more edge, in the sequence and in the buffer.
LEMMA OneMoreEdge ==
  ASSUME NEW map, NEW seq, NEW buffer, KnownEnds(map, seq), Holds(map, seq, buffer),
         NEW g \in GlobalId, NEW h \in GlobalId, g \in DOMAIN map, h \in DOMAIN map,
         NEW d \in Nat
  PROVE  LET new == Append(seq, <<g, h, d>>)
         IN  /\ KnownEnds(map, new) /\ Holds(map, new, Buffered(buffer, map[g], map[h], d))
             /\ Len(seq) \in Nat /\ Len(new) = Len(seq) + 1
             /\ \A i \in 1 .. Len(seq) : new[i] = seq[i]
             /\ new[Len(new)] = <<g, h, d>>
<1> DEFINE n   == Len(seq)
           e   == <<g, h, d>>
           new == Append(seq, e)
<1>1. seq \in Seq(Line) /\ n \in Nat /\ e \in Line
  BY DEF KnownEnds, Line
<1>2. e[1] = g /\ e[2] = h
  OBVIOUS
<1> HIDE DEF e
<1>3. /\ new \in Seq(Line) /\ Len(new) = n + 1 /\ new[n + 1] = e
      /\ \A i \in 1 .. n : new[i] = seq[i]
  BY <1>1
<1>4. KnownEnds(map, new)
  <2>1. ASSUME NEW i \in 1 .. n + 1
        PROVE  new[i][1] \in DOMAIN map /\ new[i][2] \in DOMAIN map
    <3>1. i \in 1 .. n \/ i = n + 1
      BY <1>1
    <3> QED
      BY <1>2, <1>3, <3>1 DEF KnownEnds
  <2> QED
    BY <1>3, <2>1 DEF KnownEnds
<1>5. ASSUME NEW end, NEW x, x = map[e[end]]
      PROVE  Append(EndsOf(map, seq, end, n), x) = EndsOf(map, new, end, n + 1)
  <2> DEFINE old == EndsOf(map, seq, end, n)
             all == EndsOf(map, new, end, n + 1)
  <2>1. /\ DOMAIN old = 1 .. n /\ \A i \in 1 .. n : old[i] = map[seq[i][end]]
        /\ all = [i \in 1 .. n + 1 |-> map[new[i][end]]]
    BY DEF EndsOf
  <2>2. old = [i \in 1 .. n |-> map[seq[i][end]]] /\ Len(old) = n
    BY <1>1 DEF EndsOf
  <2> HIDE DEF old, all
  <2>3. Append(old, x) = [i \in 1 .. n + 1 |-> IF i = n + 1 THEN x ELSE old[i]]
    BY <2>2
  <2>4. \A i \in 1 .. n + 1 : map[new[i][end]] = IF i = n + 1 THEN x ELSE old[i]
    BY <1>1, <1>3, <1>5, <2>1
  <2>5. Append(old, x) = all
    BY <2>1, <2>3, <2>4
  <2> QED
    BY <2>5 DEF old, all
<1>6. Holds(map, new, Buffered(buffer, map[g], map[h], d))
  <2>1. /\ buffer.source_arr = EndsOf(map, seq, 1, n)
        /\ buffer.target_arr = EndsOf(map, seq, 2, n)
    BY DEF Holds
  <2>2. /\ Append(buffer.source_arr, map[g]) = EndsOf(map, new, 1, n + 1)
        /\ Append(buffer.target_arr, map[h]) = EndsOf(map, new, 2, n + 1)
    BY <1>2, <1>5, <2>1
  <2> QED
    BY <1>3, <2>2 DEF Holds, Buffered
<1> QED
  BY <1>1, <1>3, <1>4, <1>6 DEF e

\* More is known, and what was known is the same.
LEMMA MoreKnown ==
  ASSUME NEW map, NEW more, NEW seq, NEW buffer, KnownEnds(map, seq), Holds(map, seq, buffer),
         \A g \in DOMAIN map : g \in DOMAIN more /\ more[g] = map[g]
  PROVE  KnownEnds(more, seq) /\ Holds(more, seq, buffer)
<1>1. KnownEnds(more, seq)
  BY DEF KnownEnds
<1>2. \A i \in 1 .. Len(seq) : /\ more[seq[i][1]] = map[seq[i][1]]
                               /\ more[seq[i][2]] = map[seq[i][2]]
  BY DEF KnownEnds
<1>3. /\ EndsOf(more, seq, 1, Len(seq)) = EndsOf(map, seq, 1, Len(seq))
      /\ EndsOf(more, seq, 2, Len(seq)) = EndsOf(map, seq, 2, Len(seq))
  BY <1>2 DEF EndsOf
<1> QED
  BY <1>1, <1>3 DEF Holds

\* Steps that look up ids and may add edges.
LEMMA MoreEdges ==
  ASSUME StoreInv, IdsInv', NEW table, SetIds(table), ExtendsTable(table, IdTable),
         KnownEnds(table.map, added'), Holds(table.map, added', edge_buffer'),
         Len(added') >= Len(added), \A i \in 1 .. Len(added) : added'[i] = added[i],
         UNCHANGED <<local_id2gloabl_id, csr, csc, built>>
  PROVE  StoreInv'
<1>1. /\ global_id2local_id' = table.map
      /\ current_local_id' >= current_local_id
      /\ \A g \in DOMAIN global_id2local_id :
            /\ g \in DOMAIN global_id2local_id'
            /\ global_id2local_id'[g] = global_id2local_id[g]
  BY DEF SetIds, ExtendsTable, IdTable
<1>2. current_local_id \in Int /\ current_local_id' \in Int
  BY DEF StoreInv, IdsInv, IdsOK, IdTable
<1>3. added' \in Seq(Line)
  BY DEF KnownEnds
<1>4. RowsBuilt'
  BY <1>1, <1>2, <1>3, RowsKept DEF StoreInv
<1>5. EdgesKnown' /\ EndsBuffered'
  BY <1>1 DEF EdgesKnown, EndsBuffered
<1> QED
  BY <1>4, <1>5 DEF StoreInv

\* The tables the two lookups of a line go through.
LEMMA TwoLookups ==
  ASSUME StoreInv, NEW g, NEW h
  PROVE  LET table == GetLocalId(GetLocalId(IdTable, g), h)
         IN  /\ ExtendsTable(table, IdTable)
             /\ g \in DOMAIN table.map /\ h \in DOMAIN table.map
             /\ KnownEnds(table.map, added) /\ Holds(table.map, added, edge_buffer)
<1> DEFINE once  == GetLocalId(IdTable, g)
           table == GetLocalId(once, h)
<1>0. IdsOK(IdTable)
  BY DEF StoreInv, IdsInv
<1>1. IdsOK(once) /\ ExtendsTable(once, IdTable) /\ g \in DOMAIN once.map
  BY <1>0, GetLocalIdExtends
<1> HIDE DEF once
<1>2. IdsOK(table) /\ ExtendsTable(table, once) /\ h \in DOMAIN table.map
  BY <1>1, GetLocalIdExtends
<1> HIDE DEF table
<1>3. ExtendsTable(table, IdTable)
  BY <1>0, <1>1, <1>2, ExtendsTwice
<1>4. g \in DOMAIN table.map
  BY <1>1, <1>2 DEF ExtendsTable
<1>5. KnownEnds(table.map, added) /\ Holds(table.map, added, edge_buffer)
  <2>1. \A k \in DOMAIN global_id2local_id :
           k \in DOMAIN table.map /\ table.map[k] = global_id2local_id[k]
    BY <1>3 DEF ExtendsTable, IdTable
  <2> QED
    BY <2>1, MoreKnown DEF StoreInv, EdgesKnown, EndsBuffered
<1> QED
  BY <1>2, <1>3, <1>4, <1>5 DEF table, once

LEMMA AddEdgeStore ==
  ASSUME StoreInv, NEW g \in GlobalId, NEW h \in GlobalId, AddEdge(g, h)
  PROVE  StoreInv'
<1> DEFINE table == GetLocalId(GetLocalId(IdTable, g), h)
           d     == NextData
<1>1. /\ SetIds(table) /\ UNCHANGED <<local_id2gloabl_id, csr, csc, built>>
      /\ added' = Append(added, <<g, h, d>>)
      /\ edge_buffer' = Buffered(edge_buffer, table.map[g], table.map[h], d)
  BY DEF AddEdge
<1>2. IdsInv'
  BY <1>1, TwoIds DEF StoreInv
<1>3. /\ ExtendsTable(table, IdTable)
      /\ g \in DOMAIN table.map /\ h \in DOMAIN table.map
      /\ KnownEnds(table.map, added) /\ Holds(table.map, added, edge_buffer)
  BY TwoLookups
<1>4. d \in Nat
  BY DEF NextData, StoreInv, EdgesKnown, KnownEnds
<1> HIDE DEF table, d
<1> DEFINE map == table.map
<1>5. /\ KnownEnds(map, added') /\ Holds(map, added', edge_buffer')
      /\ Len(added) \in Nat /\ Len(added') = Len(added) + 1
      /\ \A i \in 1 .. Len(added) : added'[i] = added[i]
  <2> HIDE DEF map
  <2> QED
    BY <1>1, <1>3, <1>4, OneMoreEdge DEF map
<1> QED
  BY <1>1, <1>2, <1>3, <1>5, MoreEdges

LEMMA LoadUndirectedStore ==
  ASSUME StoreInv, NEW g \in GlobalId, NEW h \in GlobalId, LoadUndirected(g, h)
  PROVE  StoreInv'
<1> DEFINE table == GetLocalId(GetLocalId(IdTable, g), h)
           d     == NextData
           one   == Append(added, <<g, h, d>>)
           once  == Buffered(edge_buffer, table.map[g], table.map[h], d)
<1>1. /\ SetIds(table) /\ UNCHANGED <<local_id2gloabl_id, csr, csc, built>>
      /\ added' = added \o <<<<g, h, d>>, <<h, g, d>>>>
      /\ edge_buffer' = Buffered(once, table.map[h], table.map[g], d)
  BY DEF LoadUndirected, OtherWay
<1>2. IdsInv'
  BY <1>1, TwoIds DEF StoreInv
<1>3. /\ ExtendsTable(table, IdTable)
      /\ g \in DOMAIN table.map /\ h \in DOMAIN table.map
      /\ KnownEnds(table.map, added) /\ Holds(table.map, added, edge_buffer)
  BY TwoLookups
<1>4. d \in Nat
  BY DEF NextData, StoreInv, EdgesKnown, KnownEnds
<1>5. added' = Append(one, <<h, g, d>>)
  <2>1. added \in Seq(Line)
    BY DEF StoreInv, EdgesKnown, KnownEnds
  <2> HIDE DEF d, table
  <2>2. <<g, h, d>> \in Line /\ <<h, g, d>> \in Line
    BY <1>4 DEF Line
  <2> QED
    BY <1>1, <2>1, <2>2
<1> HIDE DEF table, d
<1> DEFINE map == table.map
<1>6. /\ KnownEnds(map, one) /\ Holds(map, one, once)
      /\ Len(added) \in Nat /\ Len(one) = Len(added) + 1
      /\ \A i \in 1 .. Len(added) : one[i] = added[i]
  <2> HIDE DEF map
  <2> QED
    BY <1>3, <1>4, OneMoreEdge DEF map
<1> HIDE DEF one, once
<1>7. /\ KnownEnds(map, added') /\ Holds(map, added', edge_buffer')
      /\ Len(one) \in Nat /\ Len(added') = Len(one) + 1
      /\ \A i \in 1 .. Len(one) : added'[i] = one[i]
  <2> DEFINE both == Append(one, <<h, g, d>>)
  <2>1. g \in DOMAIN map /\ h \in DOMAIN map
    BY <1>3
  <2> HIDE DEF map
  <2>2. /\ KnownEnds(map, both) /\ Holds(map, both, Buffered(once, map[h], map[g], d))
        /\ Len(one) \in Nat /\ Len(both) = Len(one) + 1
        /\ \A i \in 1 .. Len(one) : both[i] = one[i]
    BY <1>4, <1>6, <2>1, OneMoreEdge
  <2>3. edge_buffer' = Buffered(once, map[h], map[g], d)
    BY <1>1 DEF map
  <2> QED
    BY <1>5, <2>2, <2>3
<1>8. /\ Len(added') >= Len(added)
      /\ \A i \in 1 .. Len(added) : added'[i] = added[i]
  BY <1>6, <1>7
<1> QED
  BY <1>1, <1>2, <1>3, <1>7, <1>8, MoreEdges

LEMMA AddVertexStore ==
  ASSUME StoreInv, NEW g \in GlobalId, NEW d \in VertexData, AddVertex(g, d)
  PROVE  StoreInv'
<1> DEFINE table == GetLocalId(IdTable, g)
<1>1. /\ SetIds(table) /\ UNCHANGED <<local_id2gloabl_id, csr, csc, built>>
      /\ UNCHANGED <<added, edge_buffer>>
  BY DEF AddVertex
<1>2. IdsInv' /\ ExtendsTable(table, IdTable)
  BY AddVertexIds DEF StoreInv
<1> HIDE DEF table
<1>3. \A k \in DOMAIN global_id2local_id :
         k \in DOMAIN table.map /\ table.map[k] = global_id2local_id[k]
  BY <1>2 DEF ExtendsTable, IdTable
<1>4. KnownEnds(table.map, added) /\ Holds(table.map, added, edge_buffer)
  BY <1>3, MoreKnown DEF StoreInv, EdgesKnown, EndsBuffered
<1>5. Len(added) \in Nat
  BY DEF StoreInv, EdgesKnown, KnownEnds
<1> QED
  BY <1>1, <1>2, <1>4, <1>5, MoreEdges

LEMMA SameStore ==
  ASSUME StoreInv, UNCHANGED vars
  PROVE  StoreInv'
<1>1. IdsInv'
  BY SameIds DEF StoreInv, vars
<1> QED
  BY <1>1 DEF StoreInv, EdgesKnown, EndsBuffered, RowsBuilt, KnownThen, Sources, Targets,
              vars, ids, history

\* What the sort is given: the ends of all edges, none above the largest id.
LEMMA EndsSorted ==
  ASSUME StoreInv
  PROVE  /\ MaxVal \in Nat
         /\ Len(added) \in Nat
         /\ edge_buffer.source_arr = Sources(Len(added))
         /\ edge_buffer.target_arr = Targets(Len(added))
         /\ IsVector(Sources(Len(added)), Len(added), MaxVal)
         /\ IsVector(Targets(Len(added)), Len(added), MaxVal)
         /\ Sources(Len(added)) \in Seq(0 .. MaxVal)
         /\ Targets(Len(added)) \in Seq(0 .. MaxVal)
         /\ Len(added) > 0 => current_local_id >= 0
<1> DEFINE n == Len(added)
<1>1. /\ current_local_id \in Int /\ current_local_id >= -1
      /\ \A g \in DOMAIN global_id2local_id :
            global_id2local_id[g] \in 0 .. current_local_id
  BY DEF StoreInv, IdsInv, IdsOK, IdTable
<1>2. MaxVal \in Nat /\ MaxVal >= current_local_id
  BY <1>1 DEF MaxVal
<1>3. n \in Nat
  BY DEF StoreInv, EdgesKnown, KnownEnds
<1>4. \A i \in 1 .. n : /\ added[i][1] \in DOMAIN global_id2local_id
                        /\ added[i][2] \in DOMAIN global_id2local_id
  BY DEF StoreInv, EdgesKnown, KnownEnds
<1>5. \A i \in 1 .. n : /\ global_id2local_id[added[i][1]] \in 0 .. MaxVal
                        /\ global_id2local_id[added[i][2]] \in 0 .. MaxVal
  BY <1>1, <1>2, <1>4
<1>6. n > 0 => current_local_id >= 0
  <2>1. ASSUME n > 0 PROVE current_local_id >= 0
    <3>1. 1 \in 1 .. n
      BY <1>3, <2>1
    <3>2. global_id2local_id[added[1][1]] \in 0 .. current_local_id
      BY <1>1, <1>4, <3>1
    <3> QED
      BY <1>1, <3>2
  <2> QED
    BY <2>1
<1>7. /\ edge_buffer.source_arr = Sources(n) /\ edge_buffer.target_arr = Targets(n)
  BY DEF StoreInv, EndsBuffered, Holds, Sources, Targets
<1>8. /\ Sources(n) = [i \in 1 .. n |-> global_id2local_id[added[i][1]]]
      /\ Targets(n) = [i \in 1 .. n |-> global_id2local_id[added[i][2]]]
  BY DEF Sources, Targets, EndsOf
<1> HIDE DEF n
<1>9. Sources(n) \in Seq(0 .. MaxVal) /\ Targets(n) \in Seq(0 .. MaxVal)
  <2>1. ASSUME NEW S, NEW f \in [1 .. n -> S]
        PROVE  f \in Seq(S)
    BY <1>3
  <2>2. /\ Sources(n) \in [1 .. n -> 0 .. MaxVal]
        /\ Targets(n) \in [1 .. n -> 0 .. MaxVal]
    BY <1>5, <1>8
  <2> QED
    BY <2>1, <2>2
<1>10. /\ DOMAIN Sources(n) = 1 .. n /\ Len(Sources(n)) = n
       /\ DOMAIN Targets(n) = 1 .. n /\ Len(Targets(n)) = n
  BY <1>3, <1>8
<1>11. IsVector(Sources(n), n, MaxVal) /\ IsVector(Targets(n), n, MaxVal)
  BY <1>5, <1>8, <1>10 DEF IsVector
<1> QED
  BY <1>2, <1>3, <1>6, <1>7, <1>9, <1>11 DEF n

LEMMA BuildStorageStore ==
  ASSUME StoreInv, BuildStorage
  PROVE  StoreInv'
<1> DEFINE n == Len(added)
<1>1. IdsInv'
  BY BuildStorageIds DEF StoreInv
<1>2. /\ UNCHANGED <<global_id2local_id, current_local_id, added>>
      /\ edge_buffer' = [edge_buffer EXCEPT !.data = edges]
      /\ built' = n
      /\ DOMAIN local_id2gloabl_id'
            = DOMAIN local_id2gloabl_id \cup Range(global_id2local_id)
      /\ csr' = Storage(edge_buffer.target_arr, Sorted(edge_buffer.source_arr, MaxVal))
      /\ csc' = Storage(edge_buffer.source_arr, Sorted(edge_buffer.target_arr, MaxVal))
  BY DEF BuildStorage, ids
<1>3. /\ MaxVal \in Nat /\ n \in Nat
      /\ edge_buffer.source_arr = Sources(n) /\ edge_buffer.target_arr = Targets(n)
      /\ IsVector(Sources(n), n, MaxVal) /\ IsVector(Targets(n), n, MaxVal)
      /\ n > 0 => current_local_id >= 0
  BY EndsSorted
<1>4. current_local_id \in Int /\ current_local_id >= -1
  BY DEF StoreInv, IdsInv, IdsOK, IdTable
<1>5. Range(global_id2local_id) = 0 .. current_local_id
  BY IdsInvGivesBijective DEF StoreInv, IdsBijective, LocalId
<1>6. DOMAIN local_id2gloabl_id' = 0 .. current_local_id
  BY <1>2, <1>4, <1>5 DEF StoreInv, RowsBuilt
<1>7. KnownThen' = current_local_id + 1
  <2>1. Cardinality(0 .. current_local_id) = current_local_id + 1
    BY <1>4, FS_Interval
  <2> QED
    BY <1>6, <2>1 DEF KnownThen
<1>8. Sources(n)' = Sources(n) /\ Targets(n)' = Targets(n)
  BY <1>2 DEF Sources, Targets, EndsOf
<1>9. Sources(built)' = Sources(n) /\ Targets(built)' = Targets(n)
  BY <1>2, <1>8 DEF Sources, Targets, EndsOf
<1> DEFINE src == Sources(n)
           tgt == Targets(n)
<1>10. \A i \in 1 .. n : src[i] \in 0 .. MaxVal /\ tgt[i] \in 0 .. MaxVal
  BY <1>3 DEF IsVector
<1>11. n > 0 => MaxVal = current_local_id /\ (current_local_id + 1) - 1 = MaxVal
  BY <1>3, <1>4 DEF MaxVal
<1>12. n = 0 => src = <<>> /\ tgt = <<>>
  BY DEF Sources, Targets, EndsOf
<1>13. csr' = Storage(tgt, Sorted(src, MaxVal)) /\ csc' = Storage(src, Sorted(tgt, MaxVal))
  BY <1>2, <1>3
<1> HIDE DEF src, tgt, n
<1>14. RowsOf(src, tgt, n, current_local_id + 1, csr', csc')
  <2>1. CASE n = 0
    <3>1. csr'.value_ptrs = <<>> /\ csc'.value_ptrs = <<>>
      BY <1>12, <1>13, <2>1 DEF Storage, Sorted
    <3> QED
      BY <2>1, <3>1 DEF RowsOf
  <2>2. CASE n > 0
    BY <1>3, <1>10, <1>11, <1>13, <2>2 DEF RowsOf
  <2> QED
    BY <1>3, <2>1, <2>2
<1>15. RowsOf(Sources(built), Targets(built), built, KnownThen, csr, csc)'
  <2>1. Sources(built)' = src /\ Targets(built)' = tgt
    BY <1>9 DEF src, tgt
  <2> QED
    BY <1>2, <1>7, <1>14, <2>1
<1>16. RowsBuilt'
  BY <1>2, <1>3, <1>4, <1>6, <1>7, <1>15 DEF RowsBuilt, n
<1>17. EdgesKnown' /\ EndsBuffered'
  <2>1. EdgesKnown'
    BY <1>2 DEF StoreInv, EdgesKnown
  <2>2. edge_buffer' = [source_arr |-> edge_buffer.source_arr,
                        target_arr |-> edge_buffer.target_arr, data |-> edges]
    BY <1>2 DEF StoreInv, EndsBuffered, Holds
  <2>3. EndsBuffered'
    BY <1>2, <2>2 DEF StoreInv, EndsBuffered, Holds
  <2> QED
    BY <2>1, <2>3
<1> QED
  BY <1>1, <1>16, <1>17 DEF StoreInv

LEMMA NextStore ==
  ASSUME StoreInv, [Next]_vars
  PROVE  StoreInv'
<1>1. ASSUME NEW g \in GlobalId, NEW h \in GlobalId, AddEdge(g, h) \/ LoadUndirected(g, h)
      PROVE  StoreInv'
  BY <1>1, AddEdgeStore, LoadUndirectedStore
<1>2. ASSUME NEW g \in GlobalId, NEW d \in VertexData, AddVertex(g, d)
      PROVE  StoreInv'
  BY <1>2, AddVertexStore
<1>3. CASE Finalize
  BY <1>3, BuildStorageStore DEF Finalize
<1>4. CASE UNCHANGED vars
  BY <1>4, SameStore
<1> QED
  BY <1>1, <1>2, <1>3, <1>4 DEF Next

\* The sort is given what it can sort.
LEMMA StoreInvGivesSort == StoreInv => SortsEdges
<1> SUFFICES ASSUME StoreInv, NEW vals \in {edge_buffer.source_arr, edge_buffer.target_arr}
             PROVE  LET sorted == Sorted(vals, MaxVal)
                    IN  /\ IsStableSort(vals, sorted.permute)
                        /\ HasPrefixSums(vals, MaxVal, sorted.permute, sorted.prefix)
  BY DEF SortsEdges
<1>1. MaxVal \in Nat /\ vals \in Seq(0 .. MaxVal)
  BY EndsSorted
<1> QED
  BY <1>1, CountingSortSorts

\* After any calls the counting sort sorts both ends of the buffer stably, with
\* the largest id that finalize passes it, and its prefix sums delimit the
\* edges of each vertex (graph.hpp:248-250, counting_sort.hpp:7-49).
THEOREM BuffersAreSorted == Spec => []SortsEdges
<1>1. Init => StoreInv
  BY InitStore
<1>2. StoreInv /\ [Next]_vars => StoreInv'
  BY NextStore
<1> QED
  BY <1>1, <1>2, StoreInvGivesSort, PTL DEF Spec

\* A value occurs as often as its places are many.
LEMMA ValueCount ==
  ASSUME NEW max_val \in Nat, NEW n \in Nat, NEW vals, IsVector(vals, n, max_val),
         NEW x \in 0 .. max_val
  PROVE  /\ Cardinality(Lower(vals, n, x)) \in 0 .. n
         /\ Cardinality(NotAbove(vals, n, x)) \in 0 .. n
         /\ Cardinality(Those(vals, n, x)) \in Nat
         /\ Cardinality(NotAbove(vals, n, x))
               = Cardinality(Lower(vals, n, x)) + Cardinality(Those(vals, n, x))
<1> DEFINE L == Lower(vals, n, x)
           T == Those(vals, n, x)
           U == NotAbove(vals, n, x)
<1>1. \A j \in 0 .. n - 1 : At(vals, j) \in 0 .. max_val
  BY ElementType
<1>2. L \subseteq 0 .. n - 1 /\ T \subseteq 0 .. n - 1 /\ U \subseteq 0 .. n - 1
  BY DEF Lower, Those, NotAbove
<1>3. U = L \cup T /\ L \cap T = {}
  BY <1>1 DEF Lower, Those, NotAbove
<1> HIDE DEF L, T, U
<1>4. /\ IsFiniteSet(L) /\ Cardinality(L) \in Nat /\ Cardinality(L) <= n
      /\ IsFiniteSet(T) /\ Cardinality(T) \in Nat
      /\ Cardinality(U) \in Nat /\ Cardinality(U) <= n
  BY <1>2, IntervalSubset
<1>5. Cardinality(L \cup T) = Cardinality(L) + Cardinality(T)
  <2>1. Cardinality(L \cap T) = 0
    BY <1>3, FS_EmptySet
  <2>2. Cardinality(L \cup T) = Cardinality(L) + Cardinality(T) - Cardinality(L \cap T)
    BY <1>4, FS_Union
  <2> QED
    BY <1>4, <2>1, <2>2
<1> QED
  BY <1>3, <1>4, <1>5 DEF L, T, U

\* A row that lists each of these edges once, with its other end, by increasing
\* id.
RowRight(row, size, these, O) ==
    /\ size \in Nat /\ DOMAIN row = 1 .. size /\ Len(row) = size
    /\ size = Cardinality(these)
    /\ \A i \in 1 .. size : row[i][2] \in these /\ row[i] = <<O[row[i][2]], row[i][2]>>
    /\ \A e \in these : \E i \in 1 .. size : row[i][2] = e
    /\ \A i, j \in 1 .. size : i < j => row[i][2] < row[j][2]

RowSize(storage, v)  == At(storage.value_ptrs, v + 1) - At(storage.value_ptrs, v)
OtherEnds(ends, n)   == [e \in 0 .. n - 1 |-> At(ends, e)]
RowsRight(storage, src, tgt, n, max_val) ==
    /\ Len(storage.value_ptrs) = max_val + 2
    /\ \A v \in 0 .. max_val :
          RowRight(Slice(storage, v), RowSize(storage, v), Those(src, n, v), OtherEnds(tgt, n))

\* Row v of a storage lists the edges at v, each once, by increasing id.
LEMMA StorageRows ==
  ASSUME NEW max_val \in Nat, NEW n \in Nat, n # 0,
         NEW src, IsVector(src, n, max_val), NEW tgt
  PROVE  RowsRight(Storage(tgt, Sorted(src, max_val)), src, tgt, n, max_val)
<1> SUFFICES ASSUME NEW v \in 0 .. max_val
             PROVE  LET storage == Storage(tgt, Sorted(src, max_val))
                    IN  /\ Len(storage.value_ptrs) = max_val + 2
                        /\ RowRight(Slice(storage, v), RowSize(storage, v),
                                    Those(src, n, v), OtherEnds(tgt, n))
  <2>1. 0 \in 0 .. max_val
    OBVIOUS
  <2> QED
    BY <2>1 DEF RowsRight
<1> DEFINE sorted == Sorted(src, max_val)
           perm   == sorted.permute
           storage == Storage(tgt, sorted)
           row    == Slice(storage, v)
           these  == Those(src, n, v)
           a      == Cardinality(Lower(src, n, v))
           b      == Cardinality(NotAbove(src, n, v))
           F      == [k \in 1 .. n |-> <<At(tgt, perm[k]), perm[k]>>]
<1>1. SortedRight(src, n, max_val, sorted)
  BY SortedIs
<1> HIDE DEF sorted
<1>2. /\ \A i \in 0 .. n - 1 : Pos(src, n, i) \in 0 .. n - 1
      /\ \A i \in 0 .. n - 1 : At(perm, Pos(src, n, i)) = i
  BY <1>1, PosType DEF SortedRight
<1>3. \A p \in 0 .. n - 1 : \E i \in 0 .. n - 1 : Pos(src, n, i) = p /\ At(perm, p) = i
  <2>1. \A p \in 0 .. n - 1 : \E i \in 0 .. n - 1 : Pos(src, n, i) = p
    BY PosOneToOne
  <2> QED
    BY <1>2, <2>1
<1>16. \A i, j \in 0 .. n - 1 : Pos(src, n, i) = Pos(src, n, j) => i = j
  BY PosOneToOne
<1>4. /\ a \in 0 .. n /\ b \in 0 .. n /\ Cardinality(these) \in Nat
      /\ b = a + Cardinality(these)
  BY ValueCount
<1>5. \A i \in 0 .. n - 1 : At(src, i) = v <=> Pos(src, n, i) \in a .. b - 1
  BY PlacesOfValue
<1>6. At(storage.value_ptrs, v) = a /\ At(storage.value_ptrs, v + 1) = b
  BY <1>1 DEF SortedRight, Storage
<1>7. Len(storage.value_ptrs) = max_val + 2
  BY <1>1 DEF SortedRight, Storage
<1>8. storage.values = [k \in 1 .. n |-> F[k]]
  BY <1>1 DEF SortedRight, Storage
<1> HIDE DEF storage, a, b, F
<1>9. Len(row) = b - a /\ row = [i \in 1 .. b - a |-> F[i + a]]
  <2>1. a \in Nat /\ b \in Nat /\ a <= b /\ b <= n
    BY <1>4
  <2>2. row = SubSeq(storage.values, a + 1, b)
    BY <1>6 DEF Slice
  <2>3. SubSeq(storage.values, a + 1, b) = [i \in 1 .. b - a |-> storage.values[i + a]]
    BY <2>1
  <2>4. \A i \in 1 .. b - a : storage.values[i + a] = F[i + a]
    BY <1>8, <2>1
  <2>5. row = [i \in 1 .. b - a |-> F[i + a]]
    BY <2>2, <2>3, <2>4
  <2>6. Len(row) = b - a
    <3> HIDE DEF row
    <3> QED
      BY <2>1, <2>5
  <2> QED
    BY <2>5, <2>6
<1> HIDE DEF row
<1> DEFINE size == b - a
<1>10. size \in Nat /\ size = Cardinality(these)
  BY <1>4
<1>11. ASSUME NEW i \in 1 .. size
       PROVE  /\ row[i] = <<At(tgt, row[i][2]), row[i][2]>>
              /\ row[i][2] \in 0 .. n - 1
              /\ Pos(src, n, row[i][2]) = i + a - 1
              /\ At(src, row[i][2]) = v
  <2>1. i + a \in 1 .. n /\ i + a - 1 \in 0 .. n - 1 /\ i + a - 1 \in a .. b - 1
    BY <1>4
  <2>2. row[i] = <<At(tgt, perm[i + a]), perm[i + a]>>
    BY <1>9, <2>1 DEF F
  <2>3. perm[i + a] = At(perm, i + a - 1)
    <3>1. (i + a - 1) + 1 = i + a
      BY <1>4, <2>1
    <3> QED
      BY <3>1 DEF At
  <2>4. PICK e \in 0 .. n - 1 : Pos(src, n, e) = i + a - 1 /\ At(perm, i + a - 1) = e
    BY <1>3, <2>1
  <2>5. At(src, e) = v
    BY <1>5, <2>1, <2>4
  <2>6. row[i][2] = e
    BY <2>2, <2>3, <2>4
  <2> QED
    BY <2>2, <2>3, <2>4, <2>5, <2>6
<1>12. \A i \in 1 .. size : row[i][2] \in these
  BY <1>11 DEF Those
<1>13. ASSUME NEW e \in these
       PROVE  \E i \in 1 .. size : row[i][2] = e
  <2>1. e \in 0 .. n - 1 /\ At(src, e) = v
    BY DEF Those
  <2> DEFINE i == Pos(src, n, e) - a + 1
  <2>2. Pos(src, n, e) \in a .. b - 1 /\ Pos(src, n, e) \in 0 .. n - 1
    BY <1>2, <1>5, <2>1
  <2>3. i \in 1 .. size
    BY <1>4, <2>2
  <2>4. Pos(src, n, row[i][2]) = Pos(src, n, e) /\ row[i][2] \in 0 .. n - 1
    BY <1>4, <1>11, <2>2, <2>3
  <2>5. row[i][2] = e
    <3> HIDE DEF i
    <3> QED
      BY <1>16, <2>1, <2>4
  <2> QED
    BY <2>3, <2>5
<1>14. ASSUME NEW i \in 1 .. size, NEW j \in 1 .. size, i < j
       PROVE  row[i][2] < row[j][2]
  <2> DEFINE d == row[i][2]
             e == row[j][2]
  <2>1. /\ d \in 0 .. n - 1 /\ e \in 0 .. n - 1
        /\ Pos(src, n, d) = i + a - 1 /\ Pos(src, n, e) = j + a - 1
        /\ At(src, d) = v /\ At(src, e) = v
    BY <1>11
  <2> HIDE DEF d, e
  <2>2. Pos(src, n, d) < Pos(src, n, e) /\ Pos(src, n, d) # Pos(src, n, e)
    BY <1>4, <1>14, <2>1
  <2>3. ~Before(src, e, d)
    <3>1. Before(src, e, d) => Pos(src, n, e) < Pos(src, n, d)
      BY <2>1, PosOrder
    <3> QED
      BY <1>4, <2>1, <2>2, <3>1
  <2>4. d < e
    BY <2>1, <2>2, <2>3 DEF Before
  <2> QED
    BY <2>4 DEF d, e
<1>15. DOMAIN row = 1 .. size /\ Len(row) = size
  BY <1>4, <1>9
<1>17. RowSize(storage, v) = size
  BY <1>6 DEF RowSize
<1>18. \A i \in 1 .. size : row[i] = <<OtherEnds(tgt, n)[row[i][2]], row[i][2]>>
  BY <1>11 DEF OtherEnds
<1> HIDE DEF these
<1>19. RowRight(row, RowSize(storage, v), these, OtherEnds(tgt, n))
  BY <1>10, <1>12, <1>13, <1>14, <1>15, <1>17, <1>18 DEF RowRight
<1> QED
  BY <1>7, <1>19 DEF sorted, storage, row, these

\* What a row lists, as the property says it.
LEMMA RowLists ==
  ASSUME NEW row, NEW size, NEW these, NEW O, RowRight(row, size, these, O)
  PROVE  Range(row) = {<<O[e], e>> : e \in these}
<1>0. /\ DOMAIN row = 1 .. size
      /\ \A i \in 1 .. size : row[i][2] \in these /\ row[i] = <<O[row[i][2]], row[i][2]>>
      /\ \A e \in these : \E i \in 1 .. size : row[i][2] = e
  BY DEF RowRight
<1> DEFINE S == {<<O[e], e>> : e \in these}
<1>1. ASSUME NEW x \in Range(row)
      PROVE  x \in S
  <2>1. PICK i \in 1 .. size : x = row[i]
    BY <1>0 DEF Range
  <2> QED
    BY <1>0, <2>1
<1>2. ASSUME NEW x \in S
      PROVE  x \in Range(row)
  <2>1. PICK e \in these : x = <<O[e], e>>
    OBVIOUS
  <2>2. PICK i \in 1 .. size : row[i][2] = e
    BY <1>0, <2>1
  <2>3. row[i] = x
    BY <1>0, <2>1, <2>2
  <2> QED
    BY <1>0, <2>3 DEF Range
<1> HIDE DEF S
<1>3. Range(row) = S
  BY <1>1, <1>2
<1> QED
  BY <1>3 DEF S

\* The edges at a vertex, and their other ends.
Outs(v) == {e \in BuiltEdges : BuiltEdge(e)[1] = v}
Ins(v)  == {e \in BuiltEdges : BuiltEdge(e)[2] = v}
EndsAt(end) == [e \in BuiltEdges |-> BuiltEdge(e)[end]]

LEMMA StoreInvRows ==
  ASSUME StoreInv
  PROVE  /\ Rows = IF built > 0 THEN 0 .. KnownThen - 1 ELSE {}
         /\ built > 0 => /\ Len(csr.value_ptrs) = KnownThen + 1
                         /\ Len(csc.value_ptrs) = KnownThen + 1
         /\ \A v \in Rows : /\ RowRight(OutEdges(v), NumOutEdges(v), Outs(v), EndsAt(2))
                            /\ RowRight(InEdges(v), NumInEdges(v), Ins(v), EndsAt(1))
<1> DEFINE n   == built
           m   == KnownThen - 1
           src == Sources(n)
           tgt == Targets(n)
<1>1. /\ built \in 0 .. Len(added) /\ KnownThen \in 0 .. current_local_id + 1
      /\ RowsOf(src, tgt, n, KnownThen, csr, csc)
  BY DEF StoreInv, RowsBuilt
<1>2. Len(added) \in Nat /\ current_local_id \in Int
  BY DEF StoreInv, EdgesKnown, KnownEnds, IdsInv, IdsOK, IdTable
<1>3. n \in Nat
  BY <1>1, <1>2
<1>4. CASE n = 0
  <2>1. csr.value_ptrs = <<>>
    BY <1>1, <1>4 DEF RowsOf
  <2>2. Rows = {}
    BY <2>1 DEF Rows
  <2> QED
    BY <1>4, <2>2
<1>5. CASE n # 0
  <2>1. /\ m \in Nat /\ KnownThen = m + 1
        /\ csr = Storage(tgt, Sorted(src, m)) /\ csc = Storage(src, Sorted(tgt, m))
        /\ \A i \in 1 .. n : src[i] \in 0 .. m /\ tgt[i] \in 0 .. m
    BY <1>1, <1>2, <1>3, <1>5 DEF RowsOf
  <2>2. /\ src = [i \in 1 .. n |-> global_id2local_id[added[i][1]]]
        /\ tgt = [i \in 1 .. n |-> global_id2local_id[added[i][2]]]
    BY DEF Sources, Targets, EndsOf
  <2>3. IsVector(src, n, m) /\ IsVector(tgt, n, m)
    <3> HIDE DEF m, src, tgt, n
    <3> QED
      BY <1>3, <2>1, <2>2 DEF IsVector
  <2>4. ASSUME NEW e \in 0 .. n - 1
        PROVE  At(src, e) = BuiltEdge(e)[1] /\ At(tgt, e) = BuiltEdge(e)[2]
    <3>1. e + 1 \in 1 .. n
      BY <1>3
    <3> HIDE DEF src, tgt, n
    <3> QED
      BY <2>2, <3>1 DEF At, BuiltEdge
  <2>5. BuiltEdges = 0 .. n - 1
    BY DEF BuiltEdges
  <2> HIDE DEF src, tgt, m, n
  <2>6. \A v : Outs(v) = Those(src, n, v) /\ Ins(v) = Those(tgt, n, v)
    BY <2>4, <2>5 DEF Outs, Ins, Those
  <2>7. EndsAt(2) = OtherEnds(tgt, n) /\ EndsAt(1) = OtherEnds(src, n)
    BY <2>4, <2>5 DEF EndsAt, OtherEnds
  <2>8. RowsRight(csr, src, tgt, n, m) /\ RowsRight(csc, tgt, src, n, m)
    <3>1. /\ RowsRight(Storage(tgt, Sorted(src, m)), src, tgt, n, m)
          /\ RowsRight(Storage(src, Sorted(tgt, m)), tgt, src, n, m)
      BY <1>3, <1>5, <2>1, <2>3, StorageRows
    <3> QED
      BY <2>1, <3>1
  <2>9. Len(csr.value_ptrs) = m + 2 /\ Len(csc.value_ptrs) = m + 2
    BY <2>8 DEF RowsRight
  <2>10. Rows = 0 .. m
    BY <2>1, <2>9 DEF Rows
  <2>11. ASSUME NEW v \in 0 .. m
         PROVE  /\ RowRight(OutEdges(v), NumOutEdges(v), Outs(v), EndsAt(2))
                /\ RowRight(InEdges(v), NumInEdges(v), Ins(v), EndsAt(1))
    BY <2>6, <2>7, <2>8 DEF RowsRight, RowSize, OutEdges, NumOutEdges, InEdges, NumInEdges
  <2>13. built > 0 /\ 0 .. m = 0 .. KnownThen - 1 /\ m + 2 = KnownThen + 1
    BY <1>3, <1>5, <2>1 DEF n, m
  <2> QED
    BY <2>9, <2>10, <2>11, <2>13
<1> QED
  BY <1>4, <1>5

LEMMA StoreInvGivesRows == StoreInv => RowsAndColumns
<1> SUFFICES ASSUME StoreInv, NEW v \in Rows
             PROVE  /\ Range(OutEdges(v)) = {<<BuiltEdge(e)[2], e>> : e \in Outs(v)}
                    /\ Range(InEdges(v)) = {<<BuiltEdge(e)[1], e>> : e \in Ins(v)}
                    /\ Len(OutEdges(v)) = NumOutEdges(v)
                    /\ NumOutEdges(v) = Cardinality(Outs(v))
                    /\ Len(InEdges(v)) = NumInEdges(v)
                    /\ NumInEdges(v) = Cardinality(Ins(v))
                    /\ \A i, j \in 1 .. Len(OutEdges(v)) :
                          i < j => OutEdges(v)[i][2] < OutEdges(v)[j][2]
  BY DEF RowsAndColumns, Outs, Ins
<1>1. /\ RowRight(OutEdges(v), NumOutEdges(v), Outs(v), EndsAt(2))
      /\ RowRight(InEdges(v), NumInEdges(v), Ins(v), EndsAt(1))
  BY StoreInvRows
<1>2. Range(OutEdges(v)) = {<<EndsAt(2)[e], e>> : e \in Outs(v)}
  BY <1>1, RowLists
<1>3. Range(InEdges(v)) = {<<EndsAt(1)[e], e>> : e \in Ins(v)}
  BY <1>1, RowLists
<1>4. /\ \A e \in Outs(v) : EndsAt(2)[e] = BuiltEdge(e)[2]
      /\ \A e \in Ins(v) : EndsAt(1)[e] = BuiltEdge(e)[1]
  BY DEF Outs, Ins, EndsAt
<1>5. /\ Range(OutEdges(v)) = {<<BuiltEdge(e)[2], e>> : e \in Outs(v)}
      /\ Range(InEdges(v)) = {<<BuiltEdge(e)[1], e>> : e \in Ins(v)}
  BY <1>2, <1>3, <1>4
<1> QED
  BY <1>1, <1>5 DEF RowRight

\* Whatever was called, row v lists exactly the out-edges of v that the last
\* finalize saw and column v its in-edges, each once with its id and other end,
\* by increasing id: what the engine's gather and scatter walk over
\* (graph.hpp:248-266, 274-310).
THEOREM RowsAndColumnsRight == Spec => []RowsAndColumns
<1>1. Init => StoreInv
  BY InitStore
<1>2. StoreInv /\ [Next]_vars => StoreInv'
  BY NextStore
<1> QED
  BY <1>1, <1>2, StoreInvGivesRows, PTL DEF Spec

-----------------------------------------------------------------------------
(* When an engine can be given the graph.                                  *)

\* The data of the first b edges of a sequence.
DataOf(seq, b) == [i \in 1 .. b |-> seq[i][3]]

\* Until the second finalize the data is where it belongs.
DataRight ==
    /\ finalized \in Nat
    /\ finalized = 0 => /\ edge_buffer.data = DataOf(added, Len(added))
                        /\ DOMAIN local_id2gloabl_id = {}
    /\ finalized = 1 => edges = DataOf(added, built)

\* The number of vertices: a finalize pushes one for each id, and one if there
\* is none; what was there before it remains.
Pushed == IF KnownThen = 0 THEN 1 ELSE KnownThen
AnyData == VertexData \cup {One, Zero}
VerticesCounted ==
    /\ vertices \in Seq(AnyData)
    /\ early_calls \in Nat /\ vertex_calls \in Nat
    /\ finalized = 0 => (NumVertices = 0 <=> vertex_calls = 0)
    /\ finalized > 0 =>
          /\ NumVertices >= Pushed
          /\ finalized > 1 \/ early_calls > 0 => NumVertices > Pushed
          /\ finalized = 1 /\ early_calls = 0 /\ current_local_id < Pushed =>
                NumVertices = Pushed

ReadyInv == StoreInv /\ DataRight /\ VerticesCounted

LEMMA InitReady == Init => ReadyInv
<1> SUFFICES ASSUME Init PROVE ReadyInv
  OBVIOUS
<1>1. StoreInv
  BY InitStore
<1>2. added = <<>> /\ finalized = 0 /\ vertices = <<>> /\ edge_buffer.data = <<>>
      /\ vertex_calls = 0 /\ early_calls = 0 /\ local_id2gloabl_id = <<>>
  BY DEF Init
<1>3. Len(<<>>) = 0 /\ DOMAIN <<>> = {} /\ DOMAIN <<>> = 1 .. 0 /\ DataOf(<<>>, 0) = <<>>
  BY DEF DataOf
<1>4. DataRight
  BY <1>2, <1>3 DEF DataRight
<1>5. VerticesCounted
  BY <1>2, <1>3 DEF VerticesCounted, NumVertices
<1> QED
  BY <1>1, <1>4, <1>5 DEF ReadyInv

\* The data of one more edge.
LEMMA OneMoreData ==
  ASSUME NEW map, NEW seq, KnownEnds(map, seq), NEW g \in GlobalId, NEW h \in GlobalId,
         NEW d \in Nat
  PROVE  LET new == Append(seq, <<g, h, d>>)
         IN  /\ Append(DataOf(seq, Len(seq)), d) = DataOf(new, Len(new))
             /\ \A b \in 0 .. Len(seq) : DataOf(new, b) = DataOf(seq, b)
<1> DEFINE n   == Len(seq)
           e   == <<g, h, d>>
           new == Append(seq, e)
           old == DataOf(seq, n)
<1>1. seq \in Seq(Line) /\ n \in Nat /\ e \in Line /\ e[3] = d
  BY DEF KnownEnds, Line
<1> HIDE DEF e
<1>2. /\ Len(new) = n + 1 /\ new[n + 1] = e /\ \A i \in 1 .. n : new[i] = seq[i]
  BY <1>1
<1>3. /\ DOMAIN old = 1 .. n /\ \A i \in 1 .. n : old[i] = seq[i][3]
      /\ old = [i \in 1 .. n |-> seq[i][3]] /\ Len(old) = n
  BY <1>1 DEF DataOf
<1> HIDE DEF new, old
<1>4. Append(old, d) = [i \in 1 .. n + 1 |-> IF i = n + 1 THEN d ELSE old[i]]
  BY <1>3
<1>5. \A i \in 1 .. n + 1 : new[i][3] = IF i = n + 1 THEN d ELSE old[i]
  BY <1>1, <1>2, <1>3
<1>6. Append(old, d) = DataOf(new, Len(new))
  BY <1>2, <1>4, <1>5 DEF DataOf
<1>7. ASSUME NEW b \in 0 .. n
      PROVE  DataOf(new, b) = DataOf(seq, b)
  <2>1. \A i \in 1 .. b : new[i] = seq[i]
    BY <1>1, <1>2
  <2> QED
    BY <2>1 DEF DataOf
<1> QED
  BY <1>6, <1>7 DEF new, old, e

\* Steps that add edges, as far as data and vertices go.
LEMMA ReadyKept ==
  ASSUME ReadyInv, StoreInv', current_local_id' >= current_local_id,
         finalized = 0 => edge_buffer'.data = DataOf(added', Len(added')),
         \A b \in 0 .. Len(added) : DataOf(added', b) = DataOf(added, b),
         UNCHANGED <<local_id2gloabl_id, vertices, edges, built, finalized,
                     early_calls, vertex_calls>>
  PROVE  ReadyInv'
<1>1. /\ current_local_id \in Int /\ current_local_id' \in Int
      /\ built \in 0 .. Len(added)
      /\ KnownThen \in 0 .. current_local_id + 1
  BY DEF ReadyInv, StoreInv, IdsInv, IdsOK, IdTable, RowsBuilt
<1>2. KnownThen' = KnownThen /\ Pushed' = Pushed /\ NumVertices' = NumVertices
  BY DEF KnownThen, Pushed, NumVertices
<1>3. DataRight'
  BY <1>1 DEF ReadyInv, DataRight
<1>4. Pushed \in Nat
  BY <1>1 DEF Pushed
<1>5. VerticesCounted'
  BY <1>1, <1>2, <1>4 DEF ReadyInv, VerticesCounted
<1> QED
  BY <1>3, <1>5 DEF ReadyInv

LEMMA AppendTwo ==
  ASSUME NEW S, NEW seq \in Seq(S), NEW x \in S, NEW y \in S
  PROVE  seq \o <<x, y>> = Append(Append(seq, x), y)
  OBVIOUS

LEMMA AddEdgeReady ==
  ASSUME ReadyInv, NEW g \in GlobalId, NEW h \in GlobalId, AddEdge(g, h)
  PROVE  ReadyInv'
<1> DEFINE table == GetLocalId(GetLocalId(IdTable, g), h)
           d     == NextData
<1>1. StoreInv'
  BY AddEdgeStore DEF ReadyInv
<1>2. /\ SetIds(table)
      /\ UNCHANGED <<local_id2gloabl_id, vertices, edges, built, finalized,
                     early_calls, vertex_calls>>
      /\ added' = Append(added, <<g, h, d>>)
      /\ edge_buffer' = Buffered(edge_buffer, table.map[g], table.map[h], d)
  BY DEF AddEdge
<1>3. current_local_id' >= current_local_id
  BY <1>2, TwoLookups DEF ReadyInv, SetIds, ExtendsTable, IdTable
<1>4. d \in Nat /\ KnownEnds(global_id2local_id, added)
  BY DEF NextData, ReadyInv, StoreInv, EdgesKnown, KnownEnds
<1>5. edge_buffer'.data = Append(edge_buffer.data, d)
  BY <1>2 DEF Buffered
<1> HIDE DEF d, table
<1>6. /\ Append(DataOf(added, Len(added)), d) = DataOf(added', Len(added'))
      /\ \A b \in 0 .. Len(added) : DataOf(added', b) = DataOf(added, b)
  BY <1>2, <1>4, OneMoreData
<1>7. finalized = 0 => edge_buffer'.data = DataOf(added', Len(added'))
  BY <1>5, <1>6 DEF ReadyInv, DataRight
<1> QED
  BY <1>1, <1>2, <1>3, <1>6, <1>7, ReadyKept

LEMMA LoadUndirectedReady ==
  ASSUME ReadyInv, NEW g \in GlobalId, NEW h \in GlobalId, LoadUndirected(g, h)
  PROVE  ReadyInv'
<1> DEFINE table == GetLocalId(GetLocalId(IdTable, g), h)
           d     == NextData
           one   == Append(added, <<g, h, d>>)
<1>1. StoreInv'
  BY LoadUndirectedStore DEF ReadyInv
<1>2. /\ SetIds(table)
      /\ UNCHANGED <<local_id2gloabl_id, vertices, edges, built, finalized,
                     early_calls, vertex_calls>>
      /\ added' = added \o <<<<g, h, d>>, <<h, g, d>>>>
      /\ edge_buffer' = Buffered(Buffered(edge_buffer, table.map[g], table.map[h], d),
                                 table.map[h], table.map[g], d)
  BY DEF LoadUndirected, OtherWay
<1>3. current_local_id' >= current_local_id
  BY <1>2, TwoLookups DEF ReadyInv, SetIds, ExtendsTable, IdTable
<1>4. d \in Nat /\ KnownEnds(global_id2local_id, added) /\ added \in Seq(Line)
  BY DEF NextData, ReadyInv, StoreInv, EdgesKnown, KnownEnds
<1>5. edge_buffer'.data = Append(Append(edge_buffer.data, d), d)
  BY <1>2 DEF Buffered
<1> HIDE DEF d, table
<1>6. added' = Append(one, <<h, g, d>>)
  <2>1. <<g, h, d>> \in Line /\ <<h, g, d>> \in Line
    BY <1>4 DEF Line
  <2> DEFINE x == <<g, h, d>>
             y == <<h, g, d>>
  <2>2. added' = added \o <<x, y>>
    BY <1>2
  <2>3. x \in Line /\ y \in Line
    BY <2>1
  <2>4. added \in Seq(Line)
    BY <1>4
  <2> HIDE DEF x, y
  <2>5. added \o <<x, y>> = Append(Append(added, x), y)
    BY <2>3, <2>4, AppendTwo
  <2> QED
    BY <2>2, <2>5 DEF x, y
<1> DEFINE map == [k \in GlobalId |-> TRUE]
<1>7. KnownEnds(map, added)
  <2>1. \A x \in Line : x[1] \in GlobalId /\ x[2] \in GlobalId
    BY DEF Line
  <2>2. \A i \in 1 .. Len(added) : added[i] \in Line
    BY <1>4
  <2> QED
    BY <1>4, <2>1, <2>2 DEF KnownEnds
<1> HIDE DEF map
<1>8. /\ Append(DataOf(added, Len(added)), d) = DataOf(one, Len(one))
      /\ \A b \in 0 .. Len(added) : DataOf(one, b) = DataOf(added, b)
  BY <1>4, OneMoreData
<1>9. KnownEnds(map, one) /\ Len(added) \in Nat /\ Len(one) = Len(added) + 1
  <2>1. <<g, h, d>> \in Line /\ <<g, h, d>>[1] = g /\ <<g, h, d>>[2] = h
    BY <1>4 DEF Line
  <2>2. one \in Seq(Line) /\ Len(added) \in Nat /\ Len(one) = Len(added) + 1
    BY <1>4, <2>1
  <2>3. \A x \in Line : x[1] \in GlobalId /\ x[2] \in GlobalId
    BY DEF Line
  <2> HIDE DEF one
  <2>4. \A i \in 1 .. Len(one) : one[i] \in Line
    BY <2>2
  <2> QED
    BY <2>2, <2>3, <2>4 DEF KnownEnds, map
<1> HIDE DEF one
<1>10. /\ Append(DataOf(one, Len(one)), d) = DataOf(added', Len(added'))
       /\ \A b \in 0 .. Len(one) : DataOf(added', b) = DataOf(one, b)
  <2> DEFINE both == Append(one, <<h, g, d>>)
  <2>0. KnownEnds(map, one) /\ d \in Nat
    BY <1>4, <1>9
  <2>1. /\ Append(DataOf(one, Len(one)), d) = DataOf(both, Len(both))
        /\ \A b \in 0 .. Len(one) : DataOf(both, b) = DataOf(one, b)
    BY <2>0, OneMoreData
  <2> QED
    BY <1>6, <2>1
<1>11. finalized = 0 => edge_buffer'.data = DataOf(added', Len(added'))
  BY <1>5, <1>8, <1>10 DEF ReadyInv, DataRight
<1>12. \A b \in 0 .. Len(added) : DataOf(added', b) = DataOf(added, b)
  BY <1>8, <1>9, <1>10
<1> QED
  BY <1>1, <1>2, <1>3, <1>11, <1>12, ReadyKept

\* add_vertex makes room for its vertex, and for none behind it.
LEMMA AddVertexGrows ==
  ASSUME IdsOK(IdTable), vertices \in Seq(AnyData),
         NEW g \in GlobalId, NEW d \in VertexData, AddVertex(g, d)
  PROVE  /\ vertices' \in Seq(AnyData)
         /\ current_local_id \in Int /\ current_local_id' \in Int
         /\ current_local_id' >= current_local_id
         /\ \E vid \in 0 .. current_local_id' :
               Len(vertices') = IF vid + 1 > Len(vertices) THEN vid + 1 ELSE Len(vertices)
<1> DEFINE table == GetLocalId(IdTable, g)
           vid   == table.map[g]
           size  == IF vid + 1 > Len(vertices) THEN vid + 1 ELSE Len(vertices)
<1>1. /\ SetIds(table)
      /\ vertices' = [Grown(vertices, vid + 1) EXCEPT ![vid + 1] = d]
  BY DEF AddVertex
<1>2. IdsOK(table) /\ ExtendsTable(table, IdTable) /\ g \in DOMAIN table.map
  BY GetLocalIdExtends
<1> HIDE DEF table
<1>3. /\ current_local_id' = table.last
      /\ current_local_id \in Int /\ current_local_id' \in Int
      /\ current_local_id' >= current_local_id
      /\ vid \in 0 .. current_local_id'
  BY <1>1, <1>2 DEF SetIds, IdsOK, ExtendsTable, IdTable
<1>4. Len(vertices) \in Nat
  OBVIOUS
<1> HIDE DEF vid
<1>5. DOMAIN Grown(vertices, vid + 1) = 1 .. size /\ size \in Nat
  BY <1>3, <1>4 DEF Grown
<1>6. \A i \in 1 .. size : Grown(vertices, vid + 1)[i] \in AnyData
  <2>1. Zero \in AnyData
    BY DEF AnyData
  <2> QED
    BY <1>3, <1>4, <2>1 DEF Grown
<1>7. d \in AnyData
  BY DEF AnyData
<1>8. vertices' = [i \in 1 .. size |-> IF i = vid + 1 THEN d
                                       ELSE Grown(vertices, vid + 1)[i]]
  BY <1>1, <1>5
<1>9. \A i \in 1 .. size : vertices'[i] \in AnyData
  BY <1>6, <1>7, <1>8
<1> HIDE DEF size
<1>10. vertices' \in Seq(AnyData)
  <2>1. vertices' \in [1 .. size -> AnyData]
    BY <1>8, <1>9
  <2> QED
    BY <1>5, <2>1
<1>11. Len(vertices') = size
  <2>1. vertices' = [i \in 1 .. size |-> vertices'[i]]
    BY <1>8
  <2> QED
    BY <1>5, <2>1
<1> QED
  BY <1>3, <1>10, <1>11 DEF size

LEMMA AddVertexReady ==
  ASSUME ReadyInv, NEW g \in GlobalId, NEW d \in VertexData, AddVertex(g, d)
  PROVE  ReadyInv'
<1>1. StoreInv'
  BY AddVertexStore DEF ReadyInv
<1>2. /\ UNCHANGED <<local_id2gloabl_id, edges, built, finalized, early_calls,
                     added, edge_buffer>>
      /\ vertex_calls' = vertex_calls + 1
  BY DEF AddVertex
<1>3. IdsOK(IdTable) /\ vertices \in Seq(AnyData)
  BY DEF ReadyInv, StoreInv, IdsInv, VerticesCounted
<1>4. /\ vertices' \in Seq(AnyData)
      /\ current_local_id \in Int /\ current_local_id' \in Int
      /\ current_local_id' >= current_local_id
      /\ \E vid \in 0 .. current_local_id' :
            Len(vertices') = IF vid + 1 > Len(vertices) THEN vid + 1 ELSE Len(vertices)
  BY <1>3, AddVertexGrows
<1>5. PICK vid \in 0 .. current_local_id' :
            Len(vertices') = IF vid + 1 > Len(vertices) THEN vid + 1 ELSE Len(vertices)
  BY <1>4
<1>6. /\ NumVertices = Len(vertices) /\ NumVertices \in Nat
      /\ early_calls \in Nat /\ vertex_calls \in Nat /\ finalized \in Nat
      /\ KnownThen \in Nat /\ Pushed \in Nat
  <2>1. KnownThen \in 0 .. current_local_id + 1
    BY DEF ReadyInv, StoreInv, RowsBuilt
  <2> QED
    BY <1>4, <2>1 DEF ReadyInv, VerticesCounted, DataRight, NumVertices, Pushed
<1> DEFINE size == IF vid + 1 > Len(vertices) THEN vid + 1 ELSE Len(vertices)
<1>7. size \in Nat
  BY <1>4, <1>6
<1>8. vertices' \in Seq(AnyData)
  BY <1>4
<1>9. NumVertices' = size
  BY <1>5 DEF NumVertices
<1>10. KnownThen' = KnownThen /\ Pushed' = Pushed
  BY <1>2 DEF KnownThen, Pushed
<1>11. DataRight'
  BY <1>2 DEF ReadyInv, DataRight
<1>12. size >= NumVertices /\ size >= 1 /\ (size = NumVertices \/ size = vid + 1)
  BY <1>4, <1>6
<1> HIDE DEF size
<1>14. finalized > 0 =>
          /\ NumVertices >= Pushed
          /\ finalized > 1 \/ early_calls > 0 => NumVertices > Pushed
          /\ finalized = 1 /\ early_calls = 0 /\ current_local_id < Pushed =>
                NumVertices = Pushed
  BY DEF ReadyInv, VerticesCounted
<1>13. VerticesCounted'
  <2>1. finalized = 0 => size # 0 /\ vertex_calls + 1 # 0
    BY <1>6, <1>12
  <2>2. finalized > 0 =>
          /\ size >= Pushed
          /\ finalized > 1 \/ early_calls > 0 => size > Pushed
    BY <1>6, <1>7, <1>12, <1>14
  <2>3. finalized = 1 /\ early_calls = 0 /\ current_local_id' < Pushed => size = Pushed
    <3> SUFFICES ASSUME finalized = 1, early_calls = 0, current_local_id' < Pushed
                 PROVE  size = Pushed
      OBVIOUS
    <3>1. NumVertices = Pushed
      BY <1>4, <1>6, <1>14
    <3>2. vid + 1 <= Pushed
      BY <1>4, <1>6
    <3> QED
      BY <1>4, <1>6, <1>12, <3>1, <3>2
  <2> QED
    BY <1>2, <1>6, <1>7, <1>8, <1>9, <1>10, <2>1, <2>2, <2>3 DEF VerticesCounted
<1> QED
  BY <1>1, <1>11, <1>13 DEF ReadyInv

LEMMA FinalizeReady ==
  ASSUME ReadyInv, Finalize
  PROVE  ReadyInv'
<1>1. StoreInv'
  BY BuildStorageStore DEF ReadyInv, Finalize
<1>2. /\ UNCHANGED <<global_id2local_id, current_local_id, added, vertex_calls>>
      /\ edges' = edge_buffer.data
      /\ built' = Len(added)
      /\ finalized' = finalized + 1
      /\ early_calls' = vertex_calls
      /\ vertices' = vertices \o PushedVertices
      /\ DOMAIN local_id2gloabl_id'
            = DOMAIN local_id2gloabl_id \cup Range(global_id2local_id)
  BY DEF Finalize, BuildStorage, ids
<1>3. current_local_id \in Int /\ current_local_id >= -1
  BY DEF ReadyInv, StoreInv, IdsInv, IdsOK, IdTable
<1>4. Range(global_id2local_id) = 0 .. current_local_id
  BY IdsInvGivesBijective DEF ReadyInv, StoreInv, IdsBijective, LocalId
<1>5. DOMAIN local_id2gloabl_id' = 0 .. current_local_id
  BY <1>2, <1>3, <1>4 DEF ReadyInv, StoreInv, RowsBuilt
<1>6. KnownThen' = current_local_id + 1
  <2>1. Cardinality(0 .. current_local_id) = current_local_id + 1
    BY <1>3, FS_Interval
  <2> QED
    BY <1>5, <2>1 DEF KnownThen
<1>7. Pushed' \in Nat /\ Pushed' = MaxVal + 1 /\ Pushed' > 0
  BY <1>3, <1>6 DEF Pushed, MaxVal
<1>8. /\ vertices \in Seq(AnyData) /\ NumVertices \in Nat
      /\ NumVertices = Len(vertices)
      /\ early_calls \in Nat /\ vertex_calls \in Nat /\ finalized \in Nat
      /\ finalized = 0 => (NumVertices = 0 <=> vertex_calls = 0)
      /\ finalized > 0 => NumVertices >= Pushed
  BY DEF ReadyInv, VerticesCounted, DataRight, NumVertices
<1>9. PushedVertices = [i \in 1 .. Pushed' |-> One]
  BY <1>7 DEF PushedVertices
<1>10. vertices' \in Seq(AnyData) /\ NumVertices' = NumVertices + Pushed'
  <2> DEFINE p == Pushed'
             v == PushedVertices
  <2>1. v \in Seq(AnyData) /\ Len(v) = p
    <3>1. One \in AnyData
      BY DEF AnyData
    <3>2. v \in [1 .. p -> AnyData]
      BY <1>9, <3>1
    <3> HIDE DEF v, p
    <3> QED
      BY <1>7, <3>2 DEF p
  <2> HIDE DEF p, v
  <2>2. vertices \o v \in Seq(AnyData) /\ Len(vertices \o v) = NumVertices + p
    BY <1>8, <2>1
  <2> QED
    BY <1>2, <2>2 DEF NumVertices, p, v
<1>11. DataRight'
  <2>1. finalized' = 1 => edges' = DataOf(added, Len(added))
    BY <1>2, <1>8 DEF ReadyInv, DataRight
  <2> QED
    BY <1>2, <1>8, <2>1 DEF DataRight
<1>12. finalized > 0 => NumVertices > 0
  <2>1. Pushed > 0 /\ Pushed \in Nat
    <3>1. KnownThen \in 0 .. current_local_id + 1
      BY DEF ReadyInv, StoreInv, RowsBuilt
    <3> QED
      BY <1>3, <3>1 DEF Pushed
  <2> QED
    BY <1>8, <2>1
<1>13. VerticesCounted'
  <2> DEFINE p == Pushed'
             n == NumVertices
  <2>1. /\ NumVertices' = n + p /\ p \in Nat /\ p > 0 /\ n \in Nat
        /\ vertices' \in Seq(AnyData)
    BY <1>7, <1>8, <1>10
  <2> HIDE DEF p, n
  <2>2. finalized' > 1 \/ early_calls' > 0 => n > 0
    BY <1>2, <1>8, <1>12 DEF n
  <2>3. finalized' = 1 /\ early_calls' = 0 => n = 0
    BY <1>2, <1>8 DEF n
  <2>4. finalized' > 0 /\ early_calls' \in Nat /\ vertex_calls' \in Nat /\ finalized' # 0
    BY <1>2, <1>8
  <2>5. NumVertices' >= p
    BY <2>1
  <2>6. finalized' > 1 \/ early_calls' > 0 => NumVertices' > p
    BY <2>1, <2>2
  <2>7. finalized' = 1 /\ early_calls' = 0 => NumVertices' = p
    BY <2>1, <2>3
  <2> QED
    BY <2>1, <2>4, <2>5, <2>6, <2>7 DEF VerticesCounted, p
<1> QED
  BY <1>1, <1>11, <1>13 DEF ReadyInv

LEMMA NextReady ==
  ASSUME ReadyInv, [Next]_vars
  PROVE  ReadyInv'
<1>1. ASSUME NEW g \in GlobalId, NEW h \in GlobalId, AddEdge(g, h) \/ LoadUndirected(g, h)
      PROVE  ReadyInv'
  BY <1>1, AddEdgeReady, LoadUndirectedReady
<1>2. ASSUME NEW g \in GlobalId, NEW d \in VertexData, AddVertex(g, d)
      PROVE  ReadyInv'
  BY <1>2, AddVertexReady
<1>3. CASE Finalize
  BY <1>3, FinalizeReady
<1>4. CASE UNCHANGED vars
  <2>1. StoreInv'
    BY <1>4, SameStore DEF ReadyInv
  <2> QED
    BY <1>4, <2>1 DEF ReadyInv, DataRight, VerticesCounted, NumVertices, Pushed,
                      KnownThen, vars, ids, history
<1> QED
  BY <1>1, <1>2, <1>3, <1>4 DEF Next

\* The ends of the edges built are ids of that time.
LEMMA BuiltEnds ==
  ASSUME StoreInv
  PROVE  \A e \in BuiltEdges : /\ BuiltEdge(e)[1] \in 0 .. KnownThen - 1
                               /\ BuiltEdge(e)[2] \in 0 .. KnownThen - 1
<1> SUFFICES ASSUME NEW e \in BuiltEdges
             PROVE  /\ BuiltEdge(e)[1] \in 0 .. KnownThen - 1
                    /\ BuiltEdge(e)[2] \in 0 .. KnownThen - 1
  OBVIOUS
<1>1. built \in 0 .. Len(added) /\ Len(added) \in Nat
  BY DEF StoreInv, RowsBuilt, EdgesKnown, KnownEnds
<1>2. e + 1 \in 1 .. built
  BY <1>1 DEF BuiltEdges
<1>3. /\ Sources(built)[e + 1] \in 0 .. KnownThen - 1
      /\ Targets(built)[e + 1] \in 0 .. KnownThen - 1
  BY <1>2 DEF StoreInv, RowsBuilt, RowsOf
<1>4. /\ Sources(built)[e + 1] = global_id2local_id[added[e + 1][1]]
      /\ Targets(built)[e + 1] = global_id2local_id[added[e + 1][2]]
  BY <1>2 DEF Sources, Targets, EndsOf
<1> QED
  BY <1>3, <1>4 DEF BuiltEdge

\* Who is at the other end of a row's edges.
LEMMA RowPairs ==
  ASSUME StoreInv, NEW v \in Rows, NEW pair \in Range(OutEdges(v)) \cup Range(InEdges(v))
  PROVE  pair[1] \in 0 .. KnownThen - 1 /\ pair[2] \in BuiltEdges
<1>1. /\ Range(OutEdges(v)) = {<<EndsAt(2)[e], e>> : e \in Outs(v)}
      /\ Range(InEdges(v)) = {<<EndsAt(1)[e], e>> : e \in Ins(v)}
  BY StoreInvRows, RowLists
<1>2. PICK e \in BuiltEdges : pair[2] = e /\ (pair[1] = EndsAt(2)[e] \/ pair[1] = EndsAt(1)[e])
  BY <1>1 DEF Outs, Ins
<1>3. EndsAt(2)[e] = BuiltEdge(e)[2] /\ EndsAt(1)[e] = BuiltEdge(e)[1]
  BY DEF EndsAt
<1> QED
  BY <1>2, <1>3, BuiltEnds

LEMMA SameInterval ==
  ASSUME NEW a \in Int, NEW b \in Int, a >= -1, b >= -1, 0 .. a = 0 .. b
  PROVE  a = b
<1>1. a >= 0 => a \in 0 .. b
  BY a >= 0 => a \in 0 .. a
<1>2. b >= 0 => b \in 0 .. a
  BY b >= 0 => b \in 0 .. b
<1> QED
  BY <1>1, <1>2

LEMMA ReadyInvGivesReady == ReadyInv => ReadyForEngine
<1> SUFFICES ASSUME ReadyInv, finalized > 0
             PROVE  EngineCanRun <=> /\ finalized = 1
                                     /\ built > 0
                                     /\ early_calls = 0
                                     /\ DOMAIN local_id2gloabl_id = LocalId
  BY DEF ReadyForEngine
<1> DEFINE K == KnownThen
           N == current_local_id + 1
<1>0. StoreInv
  BY DEF ReadyInv
<1>1. /\ current_local_id \in Int /\ N \in Nat
      /\ Cardinality(DOMAIN global_id2local_id) = N
  BY <1>0 DEF StoreInv, IdsInv, IdsOK, IdTable
<1>2. K \in Nat /\ K <= N /\ DOMAIN local_id2gloabl_id = 0 .. K - 1
  BY <1>0, <1>1 DEF StoreInv, RowsBuilt
<1>3. built \in Nat /\ built <= Len(added)
  BY <1>0 DEF StoreInv, RowsBuilt, EdgesKnown, KnownEnds
<1>4. /\ Rows = IF built > 0 THEN 0 .. K - 1 ELSE {}
      /\ built > 0 => Len(csr.value_ptrs) = K + 1 /\ Len(csc.value_ptrs) = K + 1
  BY <1>0, StoreInvRows
<1>5. built > 0 => K > 0
  BY <1>0 DEF StoreInv, RowsBuilt, RowsOf
<1>6. /\ finalized \in Nat /\ early_calls \in Nat /\ NumVertices \in Nat
      /\ NumVertices >= Pushed
      /\ finalized > 1 \/ early_calls > 0 => NumVertices > Pushed
      /\ finalized = 1 /\ early_calls = 0 /\ current_local_id < Pushed =>
            NumVertices = Pushed
  BY DEF ReadyInv, DataRight, VerticesCounted, NumVertices
<1>7. Pushed = (IF K = 0 THEN 1 ELSE K) /\ Pushed \in Nat /\ Pushed > 0
  BY <1>2 DEF Pushed
<1>8. LocalId = 0 .. N - 1
  BY <1>1 DEF LocalId
<1> HIDE DEF K, N
<1>9. ASSUME EngineCanRun
      PROVE  /\ finalized = 1 /\ built > 0 /\ early_calls = 0
             /\ DOMAIN local_id2gloabl_id = LocalId
  <2>1. /\ NumVertices = N /\ Rows = 0 .. NumVertices - 1
    BY <1>1, <1>9 DEF EngineCanRun
  <2>2. built > 0
    <3>1. 0 \in Rows
      BY <1>6, <1>7, <2>1
    <3> QED
      BY <1>4, <3>1
  <2>3. K - 1 = N - 1
    <3>1. 0 .. K - 1 = 0 .. N - 1
      BY <1>4, <2>1, <2>2
    <3>2. K - 1 \in Int /\ N - 1 \in Int /\ K - 1 >= -1 /\ N - 1 >= -1
      BY <1>1, <1>2
    <3> QED
      BY <3>1, <3>2, SameInterval
  <2>4. NumVertices = Pushed
    BY <1>1, <1>2, <1>5, <1>7, <2>1, <2>2, <2>3
  <2>5. finalized = 1 /\ early_calls = 0
    BY <1>6, <1>7, <2>4
  <2> QED
    BY <1>2, <1>8, <2>2, <2>3, <2>5
<1>10. ASSUME finalized = 1, built > 0, early_calls = 0, DOMAIN local_id2gloabl_id = LocalId
       PROVE  EngineCanRun
  <2>1. K = N
    <3>1. K - 1 \in Int /\ N - 1 \in Int /\ K - 1 >= -1 /\ N - 1 >= -1
      BY <1>1, <1>2
    <3>2. K - 1 = N - 1
      BY <1>2, <1>8, <1>10, <3>1, SameInterval
    <3> QED
      BY <1>1, <1>2, <3>2
  <2>2. NumVertices = K
    <3>1. Pushed = K
      BY <1>2, <1>5, <1>7, <1>10
    <3>2. current_local_id < Pushed
      BY <1>1, <2>1, <3>1 DEF N
    <3> QED
      BY <1>6, <1>10, <3>1, <3>2
  <2>3. edges = DataOf(added, built)
    BY <1>10 DEF ReadyInv, DataRight
  <2>4. NumEdges = built
    BY <1>3, <2>3 DEF NumEdges, DataOf
  <2>5. \A e \in BuiltEdges : At(edges, e) = BuiltEdge(e)[3]
    <3> SUFFICES ASSUME NEW e \in BuiltEdges
                 PROVE  At(edges, e) = BuiltEdge(e)[3]
      OBVIOUS
    <3>1. e + 1 \in 1 .. built
      BY <1>3 DEF BuiltEdges
    <3> QED
      BY <2>3, <3>1 DEF DataOf, At, BuiltEdge
  <2>6. ASSUME NEW v \in Rows, NEW pair \in Range(OutEdges(v)) \cup Range(InEdges(v))
        PROVE  pair[1] < NumVertices /\ pair[2] < NumEdges
    <3>1. pair[1] \in 0 .. K - 1 /\ pair[2] \in 0 .. built - 1
      BY <1>0, RowPairs DEF K, BuiltEdges
    <3> QED
      BY <1>2, <1>3, <2>2, <2>4, <3>1
  <2>7. /\ NumVertices = Cardinality(DOMAIN global_id2local_id)
        /\ Rows = 0 .. NumVertices - 1
        /\ Len(csc.value_ptrs) = NumVertices + 1
    BY <1>1, <1>4, <1>10, <2>1, <2>2
  <2> QED
    BY <2>4, <2>5, <2>6, <2>7 DEF EngineCanRun
<1> QED
  BY <1>9, <1>10

\* Of all the orders of the calls, those after which the engine can be given
\* the graph are the ones with one finalize, an edge before it, no add_vertex
\* before it and no new id after it: then, and only then, there is a vertex, a
\* row and a column for every id, and every edge finds its ends and its data
\* (graph.hpp:229, 248-271; sync.cpp:64-68, 142-153).
THEOREM ReadyExactlyThen == Spec => []ReadyForEngine
<1>1. Init => ReadyInv
  BY InitReady
<1>2. ReadyInv /\ [Next]_vars => ReadyInv'
  BY NextReady
<1> QED
  BY <1>1, <1>2, ReadyInvGivesReady, PTL DEF Spec

-----------------------------------------------------------------------------
(* An undirected graph.                                                    *)

\* Two sets whose elements a function pairs have as many elements.
LEMMA SameNumber ==
  ASSUME NEW S, NEW T, IsFiniteSet(S), NEW f \in [S -> T],
         \A x, y \in S : f[x] = f[y] => x = y,
         \A z \in T : \E x \in S : f[x] = z
  PROVE  Cardinality(S) = Cardinality(T)
<1>1. f \in Injection(S, T)
  BY DEF Injection, IsInjective
<1>2. f \in Surjection(S, T)
  BY DEF Surjection
<1>3. ExistsBijection(S, T)
  BY <1>1, <1>2 DEF ExistsBijection, Bijection
<1> QED
  BY <1>3, FS_Bijection

PlacesOf(row, u)   == {i \in DOMAIN row : row[i][1] = u}
Ending(these, O, u) == {e \in these : O[e] = u}

\* A row has as many places with the other end u as there are such edges.
LEMMA RowPlaces ==
  ASSUME NEW row, NEW size, NEW these, NEW O, RowRight(row, size, these, O), NEW u,
         these \subseteq Int
  PROVE  Cardinality(PlacesOf(row, u)) = Cardinality(Ending(these, O, u))
<1> DEFINE S == {i \in DOMAIN row : row[i][1] = u}
           T == {e \in these : O[e] = u}
           f == [i \in S |-> row[i][2]]
<1>1. /\ size \in Nat /\ DOMAIN row = 1 .. size
      /\ \A i \in 1 .. size : row[i][2] \in these /\ row[i] = <<O[row[i][2]], row[i][2]>>
      /\ \A e \in these : \E i \in 1 .. size : row[i][2] = e
      /\ \A i, j \in 1 .. size : i < j => row[i][2] < row[j][2]
  BY DEF RowRight
<1>2. \A i \in 1 .. size : row[i][1] = O[row[i][2]]
  BY <1>1
<1>3. IsFiniteSet(S)
  <2>1. IsFiniteSet(1 .. size) /\ S \subseteq 1 .. size
    BY <1>1, FS_Interval
  <2> QED
    BY <2>1, FS_Subset
<1>4. f \in [S -> T]
  BY <1>1, <1>2
<1>5. ASSUME NEW i \in S, NEW j \in S, f[i] = f[j]
      PROVE  i = j
  <2>1. i \in 1 .. size /\ j \in 1 .. size /\ row[i][2] = row[j][2]
    BY <1>1, <1>5
  <2>2. row[i][2] \in Int /\ row[j][2] \in Int
    BY <1>1, <2>1
  <2> QED
    BY <1>1, <2>1, <2>2
<1>6. ASSUME NEW e \in T
      PROVE  \E i \in S : f[i] = e
  BY <1>1, <1>2
<1> HIDE DEF S, T, f
<1> QED
  <2>1. Cardinality(S) = Cardinality(T)
    BY <1>3, <1>4, <1>5, <1>6, SameNumber
  <2> QED
    BY <2>1 DEF S, T, PlacesOf, Ending

\* The edges from v to u, and the other edge of an edge's line.
Between(v, u) == {e \in BuiltEdges : BuiltEdge(e)[1] = v /\ BuiltEdge(e)[2] = u}
Twin(e)       == IF e % 2 = 0 THEN e + 1 ELSE e - 1

LEMMA TwinEdge ==
  ASSUME built \in Nat, OnlyLoaded, NEW e \in BuiltEdges
  PROVE  /\ Twin(e) \in BuiltEdges /\ Twin(Twin(e)) = e
         /\ BuiltEdge(Twin(e))[1] = BuiltEdge(e)[2]
         /\ BuiltEdge(Twin(e))[2] = BuiltEdge(e)[1]
<1>1. e \in Nat /\ e < built
  BY DEF BuiltEdges
<1>2. CASE e % 2 = 0
  <2>1. /\ e + 1 < built
        /\ added[e + 1][1] = added[e + 2][2]
        /\ added[e + 1][2] = added[e + 2][1]
    BY <1>2 DEF OnlyLoaded
  <2>2. Twin(e) = e + 1 /\ (e + 1) % 2 # 0 /\ (e + 1) - 1 = e /\ (e + 1) + 1 = e + 2
    BY <1>1, <1>2 DEF Twin
  <2>3. Twin(e + 1) = e
    BY <2>2 DEF Twin
  <2>4. e + 1 \in BuiltEdges
    BY <1>1, <2>1 DEF BuiltEdges
  <2>5. /\ BuiltEdge(e + 1)[1] = global_id2local_id[added[e + 2][1]]
        /\ BuiltEdge(e + 1)[2] = global_id2local_id[added[e + 2][2]]
    BY <2>2 DEF BuiltEdge
  <2> QED
    BY <2>1, <2>2, <2>3, <2>4, <2>5 DEF BuiltEdge
<1>3. CASE e % 2 # 0
  <2> DEFINE d == e - 1
  <2>1. /\ d \in Nat /\ d < built /\ d % 2 = 0 /\ d + 1 = e /\ d + 2 = e + 1
        /\ Twin(e) = d /\ Twin(d) = e
    BY <1>1, <1>3 DEF Twin
  <2>2. d \in BuiltEdges
    BY <1>1, <2>1 DEF BuiltEdges
  <2> HIDE DEF d
  <2>3. /\ added[d + 1][1] = added[d + 2][2]
        /\ added[d + 1][2] = added[d + 2][1]
    BY <2>1, <2>2 DEF OnlyLoaded
  <2> QED
    BY <2>1, <2>2, <2>3 DEF BuiltEdge
<1> QED
  BY <1>2, <1>3

LEMMA SameBothWays ==
  ASSUME built \in Nat, OnlyLoaded, NEW v, NEW u
  PROVE  Cardinality(Between(v, u)) = Cardinality(Between(u, v))
<1> DEFINE S == Between(v, u)
           T == Between(u, v)
           f == [e \in S |-> Twin(e)]
<1>1. IsFiniteSet(S)
  <2>1. IsFiniteSet(0 .. built - 1) /\ S \subseteq 0 .. built - 1
    BY FS_Interval DEF Between, BuiltEdges
  <2> QED
    BY <2>1, FS_Subset
<1>2. \A e \in S : e \in BuiltEdges /\ Twin(e) \in T
  BY TwinEdge DEF Between
<1>3. f \in [S -> T]
  BY <1>2
<1>4. \A d, e \in S : f[d] = f[e] => d = e
  <2>1. \A e \in S : Twin(f[e]) = e
    BY <1>2, TwinEdge
  <2> QED
    BY <2>1
<1>5. \A d \in T : \E e \in S : f[e] = d
  <2> SUFFICES ASSUME NEW d \in T
               PROVE  \E e \in S : f[e] = d
    OBVIOUS
  <2>1. Twin(d) \in S /\ Twin(Twin(d)) = d
    BY TwinEdge DEF Between
  <2> QED
    BY <2>1
<1> HIDE DEF S, T, f
<1> QED
  <2>1. Cardinality(S) = Cardinality(T)
    BY <1>1, <1>3, <1>4, <1>5, SameNumber
  <2> QED
    BY <2>1 DEF S, T

LEMMA StoreInvGivesSymmetric == StoreInv => UndirectedIsSymmetric
<1> SUFFICES ASSUME StoreInv, OnlyLoaded, NEW v \in Rows, NEW u \in Rows
             PROVE  Cardinality({i \in DOMAIN OutEdges(v) : OutEdges(v)[i][1] = u})
                      = Cardinality({i \in DOMAIN InEdges(v) : InEdges(v)[i][1] = u})
  BY DEF UndirectedIsSymmetric
<1>1. built \in Nat
  BY DEF StoreInv, RowsBuilt, EdgesKnown, KnownEnds
<1>2. /\ RowRight(OutEdges(v), NumOutEdges(v), Outs(v), EndsAt(2))
      /\ RowRight(InEdges(v), NumInEdges(v), Ins(v), EndsAt(1))
  BY StoreInvRows
<1>3. Outs(v) \subseteq Int /\ Ins(v) \subseteq Int
  BY DEF Outs, Ins, BuiltEdges
<1>4. /\ Cardinality(PlacesOf(OutEdges(v), u)) = Cardinality(Ending(Outs(v), EndsAt(2), u))
      /\ Cardinality(PlacesOf(InEdges(v), u)) = Cardinality(Ending(Ins(v), EndsAt(1), u))
  BY <1>2, <1>3, RowPlaces
<1>5. /\ Ending(Outs(v), EndsAt(2), u) = Between(v, u)
      /\ Ending(Ins(v), EndsAt(1), u) = Between(u, v)
  BY DEF Outs, Ins, EndsAt, Between, Ending
<1>6. Cardinality(PlacesOf(OutEdges(v), u)) = Cardinality(PlacesOf(InEdges(v), u))
  BY <1>1, <1>4, <1>5, SameBothWays
<1> QED
  BY <1>6 DEF PlacesOf

\* After an undirected graph is loaded and finalized, a vertex has as many
\* out-edges to another as in-edges from it, whatever the file repeats, in
\* either direction, and self loops among it (graph.hpp:101-104).
THEOREM LoadedBothWays == Spec => []UndirectedIsSymmetric
<1>1. Init => StoreInv
  BY InitStore
<1>2. StoreInv /\ [Next]_vars => StoreInv'
  BY NextStore
<1> QED
  BY <1>1, <1>2, StoreInvGivesSymmetric, PTL DEF Spec

-----------------------------------------------------------------------------
(* The scheduler of the older graph.                                       *)

\* What loads have left in the matrix and in the queue.  The first load that
\* found an id made rows for the ids of its time, and queued vertex 0 first;
\* as long as no id came later, neither a row nor a vertex is another.
GrowsByLoads ==
    /\ matrix_flag \in Seq(Nat) /\ activate_vertexes \in Seq(Nat)
    /\ loads \in Nat
    /\ scheduled \in 0 .. NumIds
    /\ Len(matrix_flag) = Len(activate_vertexes)
    /\ scheduled > 0 => /\ Len(matrix_flag) >= scheduled
                        /\ \A i \in 1 .. scheduled : matrix_flag[i] = scheduled
                        /\ activate_vertexes[1] = 0
    /\ scheduled = NumIds =>
          /\ \A i \in DOMAIN matrix_flag : matrix_flag[i] = scheduled
          /\ \A k \in DOMAIN activate_vertexes : activate_vertexes[k] \in 0 .. scheduled - 1
    /\ scheduled = 0 => matrix_flag = <<>> /\ activate_vertexes = <<>>

OlderInv == IdsInv /\ GrowsByLoads

LEMMA NumIdsType == IdsInv => NumIds \in Nat /\ current_local_id = NumIds - 1
  BY DEF IdsInv, IdsOK, IdTable, NumIds

LEMMA InitOlder == OlderInit => OlderInv
<1> SUFFICES ASSUME OlderInit PROVE OlderInv
  OBVIOUS
<1>1. IdsInv
  BY InitIds DEF OlderInit
<1>2. NumIds = 0
  BY DEF OlderInit, Init, NumIds
<1>3. GrowsByLoads
  BY <1>2 DEF OlderInit, GrowsByLoads
<1> QED
  BY <1>1, <1>3 DEF OlderInv

\* The steps that leave the scheduler alone: ids may come, none goes.
LEMMA MoreIds ==
  ASSUME OlderInv, IdsInv', current_local_id' >= current_local_id,
         UNCHANGED scheduler
  PROVE  OlderInv'
<1>1. NumIds \in Nat /\ NumIds' \in Nat /\ NumIds' >= NumIds
  BY NumIdsType DEF OlderInv, NumIds, IdsInv, IdsOK, IdTable
<1>2. GrowsByLoads'
  <2>1. scheduled \in 0 .. NumIds' /\ (scheduled = NumIds' => scheduled = NumIds)
    BY <1>1 DEF OlderInv, GrowsByLoads
  <2> QED
    BY <2>1 DEF OlderInv, GrowsByLoads, scheduler
<1> QED
  BY <1>2 DEF OlderInv

\* What is where after numbers are appended to numbers.
LEMMA Appended ==
  ASSUME NEW s \in Seq(Nat), NEW t \in Seq(Nat)
  PROVE  /\ s \o t \in Seq(Nat)
         /\ Len(s \o t) = Len(s) + Len(t)
         /\ \A i \in 1 .. Len(s) : (s \o t)[i] = s[i]
         /\ \A i \in Len(s) + 1 .. Len(s) + Len(t) : (s \o t)[i] = t[i - Len(s)]
<1>1. s \o t \in Seq(Nat) /\ Len(s \o t) = Len(s) + Len(t)
  OBVIOUS
<1>2. \A i \in 1 .. Len(s) : (s \o t)[i] = s[i]
  OBVIOUS
<1>3. \A i \in Len(s) + 1 .. Len(s) + Len(t) : (s \o t)[i] = t[i - Len(s)]
  OBVIOUS
<1> QED
  BY <1>1, <1>2, <1>3

\* init_matrix_flag at the end of a load.
LEMMA EndLoadOlder ==
  ASSUME OlderInv, EndLoad
  PROVE  OlderInv'
<1> DEFINE n     == NumIds
           rows  == [i \in 1 .. n |-> n]
           queue == [i \in 1 .. n |-> i - 1]
<1>1. /\ n \in Nat /\ NumIds' = n
      /\ matrix_flag' = matrix_flag \o rows
      /\ activate_vertexes' = activate_vertexes \o queue
      /\ loads' = loads + 1
      /\ scheduled' = IF scheduled = 0 THEN n ELSE scheduled
  BY NumIdsType DEF EndLoad, MatrixSize, OlderInv, NumIds, vars, ids
<1>2. IdsInv'
  BY SameIds DEF OlderInv, EndLoad, vars
<1>3. /\ matrix_flag \in Seq(Nat) /\ activate_vertexes \in Seq(Nat)
      /\ loads \in Nat /\ scheduled \in 0 .. n
      /\ Len(matrix_flag) = Len(activate_vertexes)
  BY DEF OlderInv, GrowsByLoads
<1>4. /\ rows \in Seq(Nat) /\ Len(rows) = n /\ \A i \in 1 .. n : rows[i] = n
      /\ queue \in Seq(Nat) /\ Len(queue) = n /\ \A i \in 1 .. n : queue[i] = i - 1
  BY <1>1
<1> HIDE DEF n, rows, queue
<1>5. CASE scheduled = 0
  <2>1. matrix_flag = <<>> /\ activate_vertexes = <<>>
    BY <1>5 DEF OlderInv, GrowsByLoads
  <2>2. matrix_flag' = rows /\ activate_vertexes' = queue /\ scheduled' = n
    BY <1>1, <1>4, <1>5, <2>1
  <2>3. GrowsByLoads'
    <3>1. n = 0 => rows = <<>> /\ queue = <<>>
      BY <1>4
    <3> QED
      BY <1>1, <1>3, <1>4, <2>2, <3>1 DEF GrowsByLoads
  <2> QED
    BY <1>2, <2>3 DEF OlderInv
<1>6. CASE scheduled # 0
  <2>1. /\ scheduled > 0 /\ scheduled' = scheduled /\ n > 0
        /\ Len(matrix_flag) >= scheduled
        /\ \A i \in 1 .. scheduled : matrix_flag[i] = scheduled
        /\ activate_vertexes[1] = 0
    BY <1>1, <1>3, <1>6 DEF OlderInv, GrowsByLoads
  <2> DEFINE len == Len(matrix_flag)
  <2>2. /\ len \in Nat
        /\ matrix_flag' \in Seq(Nat) /\ Len(matrix_flag') = len + n
        /\ \A i \in 1 .. len : matrix_flag'[i] = matrix_flag[i]
        /\ \A i \in len + 1 .. len + n : matrix_flag'[i] = n
    <3>1. len \in Nat /\ Len(matrix_flag \o rows) = len + n
      BY <1>3, <1>4, Appended
    <3>2. \A i \in len + 1 .. len + n : i - len \in 1 .. n
      BY <1>1, <3>1
    <3> QED
      BY <1>1, <1>3, <1>4, <3>1, <3>2, Appended
  <2>3. /\ activate_vertexes' \in Seq(Nat) /\ Len(activate_vertexes') = len + n
        /\ \A k \in 1 .. len : activate_vertexes'[k] = activate_vertexes[k]
        /\ \A k \in len + 1 .. len + n : activate_vertexes'[k] = k - len - 1
    <3>0. len \in Nat /\ len = Len(activate_vertexes)
      BY <1>3
    <3>1. Len(activate_vertexes \o queue) = len + n
      <4>1. Len(activate_vertexes \o queue) = Len(activate_vertexes) + Len(queue)
        BY <1>3, <1>4, Appended
      <4> QED
        BY <1>4, <3>0, <4>1
    <3>2. \A k \in len + 1 .. len + n : k - len \in 1 .. n
      BY <1>1, <3>0
    <3> QED
      BY <1>1, <1>3, <1>4, <3>0, <3>1, <3>2, Appended
  <2>4. ASSUME scheduled = n
        PROVE  /\ \A i \in DOMAIN matrix_flag' : matrix_flag'[i] = n
               /\ \A k \in DOMAIN activate_vertexes' :
                     activate_vertexes'[k] \in 0 .. n - 1
    <3>1. /\ \A i \in 1 .. len : matrix_flag[i] = n
          /\ \A k \in 1 .. len : activate_vertexes[k] \in 0 .. n - 1
      <4>1. scheduled = NumIds
        BY <2>4 DEF n
      <4>2. /\ \A i \in DOMAIN matrix_flag : matrix_flag[i] = scheduled
            /\ \A k \in DOMAIN activate_vertexes :
                  activate_vertexes[k] \in 0 .. scheduled - 1
        BY <4>1 DEF OlderInv, GrowsByLoads
      <4>3. DOMAIN matrix_flag = 1 .. len /\ DOMAIN activate_vertexes = 1 .. len
        BY <1>3
      <4> QED
        BY <2>4, <4>2, <4>3
    <3>2. DOMAIN matrix_flag' = 1 .. len + n /\ DOMAIN activate_vertexes' = 1 .. len + n
      BY <2>2, <2>3
    <3> HIDE DEF len
    <3>3. \A i \in 1 .. len + n : i \in 1 .. len \/ i \in len + 1 .. len + n
      BY <1>1, <2>2
    <3>4. \A k \in len + 1 .. len + n : k - len - 1 \in 0 .. n - 1
      BY <1>1, <2>2
    <3>5. ASSUME NEW i \in DOMAIN matrix_flag'
          PROVE  matrix_flag'[i] = n
      <4>1. i \in 1 .. len \/ i \in len + 1 .. len + n
        BY <3>2, <3>3
      <4> QED
        BY <2>2, <3>1, <4>1
    <3>6. ASSUME NEW k \in DOMAIN activate_vertexes'
          PROVE  activate_vertexes'[k] \in 0 .. n - 1
      <4>1. CASE k \in 1 .. len
        BY <2>3, <3>1, <4>1
      <4>2. CASE k \in len + 1 .. len + n
        BY <2>3, <3>4, <4>2
      <4> QED
        BY <3>2, <3>3, <4>1, <4>2
    <3> QED
      BY <3>5, <3>6
  <2>5. GrowsByLoads'
    <3>1. /\ \A i \in 1 .. scheduled : i \in 1 .. len
          /\ 1 \in 1 .. len
          /\ scheduled \in Nat
      BY <1>3, <2>1, <2>2
    <3> HIDE DEF len
    <3>2. /\ \A i \in 1 .. scheduled' : matrix_flag'[i] = scheduled'
          /\ activate_vertexes'[1] = 0
          /\ Len(matrix_flag') >= scheduled'
      <4>1. /\ \A i \in 1 .. scheduled : matrix_flag'[i] = scheduled
            /\ activate_vertexes'[1] = 0
        BY <2>1, <2>2, <2>3, <3>1
      <4>2. Len(matrix_flag') = len + n /\ len >= scheduled
        BY <2>1, <2>2 DEF len
      <4> QED
        BY <1>1, <2>1, <2>2, <3>1, <4>1, <4>2
    <3>3. loads' \in Nat /\ scheduled' \in 0 .. n /\ scheduled' # 0
      BY <1>1, <1>3, <2>1
    <3> QED
      BY <1>1, <2>1, <2>2, <2>3, <2>4, <3>2, <3>3 DEF GrowsByLoads
  <2> QED
    BY <1>2, <2>5 DEF OlderInv
<1> QED
  BY <1>5, <1>6

LEMMA NextOlder ==
  ASSUME OlderInv, [OlderNext]_allVars
  PROVE  OlderInv'
<1>0. IdsInv /\ current_local_id \in Int
  BY DEF OlderInv, IdsInv, IdsOK, IdTable
<1>1. ASSUME NEW g \in GlobalId, NEW h \in GlobalId, LoadLine(g, h)
      PROVE  OlderInv'
  <2>1. /\ SetIds(GetLocalId(GetLocalId(IdTable, g), h))
        /\ UNCHANGED local_id2gloabl_id /\ UNCHANGED scheduler
    BY <1>1 DEF LoadLine, AddEdge, LoadUndirected
  <2>2. IdsInv' /\ ExtendsTable(GetLocalId(GetLocalId(IdTable, g), h), IdTable)
    BY <1>0, <2>1, TwoIds
  <2>3. current_local_id' >= current_local_id
    BY <2>1, <2>2 DEF ExtendsTable, SetIds, IdTable
  <2> QED
    BY <2>1, <2>2, <2>3, MoreIds
<1>2. CASE EndLoad
  BY <1>2, EndLoadOlder
<1>3. ASSUME NEW g \in GlobalId, NEW d \in VertexData, LoadVertex(g, d)
      PROVE  OlderInv'
  <2>1. AddVertex(g, d) /\ UNCHANGED scheduler
    BY <1>3 DEF LoadVertex
  <2>2. IdsInv' /\ ExtendsTable(GetLocalId(IdTable, g), IdTable)
    BY <1>0, <2>1, AddVertexIds
  <2>3. current_local_id' >= current_local_id
    BY <2>1, <2>2 DEF ExtendsTable, AddVertex, SetIds, IdTable
  <2> QED
    BY <2>1, <2>2, <2>3, MoreIds
<1>4. CASE OlderFinalize
  <2>1. IdsInv'
    BY <1>0, <1>4, BuildStorageIds DEF OlderFinalize
  <2>2. UNCHANGED scheduler /\ current_local_id' >= current_local_id
    BY <1>0, <1>4 DEF OlderFinalize, BuildStorage, ids
  <2> QED
    BY <2>1, <2>2, MoreIds
<1>5. CASE UNCHANGED allVars
  <2>1. IdsInv'
    BY <1>0, <1>5, SameIds DEF allVars, vars
  <2>2. UNCHANGED scheduler /\ current_local_id' >= current_local_id
    BY <1>0, <1>5 DEF allVars, vars, ids
  <2> QED
    BY <2>1, <2>2, MoreIds
<1> QED
  BY <1>1, <1>2, <1>3, <1>4, <1>5 DEF OlderNext

\* The inductive invariant of the older graph: the ids of GraphStore, and what
\* the loads leave in the scheduler's matrix and queue (graph.1.hpp:254-273).
THEOREM OlderInvariance == OlderSpec => []OlderInv
<1>1. OlderInit => OlderInv
  BY InitOlder
<1>2. OlderInv /\ [OlderNext]_allVars => OlderInv'
  BY NextOlder
<1> QED
  BY <1>1, <1>2, PTL DEF OlderSpec

LEMMA OlderInvGivesBounds == OlderInv => SchedulerInBounds
<1> SUFFICES ASSUME OlderInv, activate_vertexes # <<>>
             PROVE  (\A v \in Range(activate_vertexes) : CellsOf(v) \subseteq Cells)
                       <=> NumIds = scheduled
  BY DEF SchedulerInBounds
<1>1. /\ NumIds \in Nat /\ scheduled \in 0 .. NumIds /\ scheduled > 0
      /\ matrix_flag \in Seq(Nat) /\ activate_vertexes \in Seq(Nat)
      /\ Len(matrix_flag) = Len(activate_vertexes)
      /\ Len(matrix_flag) >= scheduled
  BY NumIdsType DEF OlderInv, GrowsByLoads
<1>2. ASSUME NumIds = scheduled, NEW v \in Range(activate_vertexes),
             NEW cell \in CellsOf(v)
      PROVE  cell \in Cells
  <2>1. v \in 0 .. NumIds - 1
    BY <1>2 DEF Range, OlderInv, GrowsByLoads
  <2>2. PICK i \in 0 .. NumIds - 1 : cell = <<i, v>> \/ cell = <<v, i>>
    BY <1>2 DEF CellsOf
  <2>3. \A row \in 0 .. NumIds - 1 : At(matrix_flag, row) = NumIds
    BY <1>1, <1>2 DEF OlderInv, GrowsByLoads, At
  <2>4. ASSUME NEW row \in 0 .. NumIds - 1, NEW column \in 0 .. NumIds - 1
        PROVE  <<row, column>> \in Cells
    <3>1. <<row, column>> \in (0 .. Len(matrix_flag) - 1) \X (0 .. NumIds)
      BY <1>1, <1>2
    <3>2. column < At(matrix_flag, row)
      BY <1>1, <2>3
    <3> QED
      BY <3>1, <3>2 DEF Cells
  <2> QED
    BY <2>1, <2>2, <2>4
<1>3. ASSUME NumIds # scheduled
      PROVE  \E v \in Range(activate_vertexes) : ~(CellsOf(v) \subseteq Cells)
  <2>1. 0 \in Range(activate_vertexes)
    <3>1. activate_vertexes[1] = 0 /\ 1 \in DOMAIN activate_vertexes
      BY <1>1 DEF OlderInv, GrowsByLoads
    <3> QED
      BY <3>1 DEF Range
  <2>2. <<0, scheduled>> \in CellsOf(0)
    BY <1>1, <1>3 DEF CellsOf
  <2>3. At(matrix_flag, 0) = scheduled
    BY <1>1 DEF OlderInv, GrowsByLoads, At
  <2>4. <<0, scheduled>> \notin Cells
    BY <1>1, <2>3 DEF Cells
  <2> QED
    BY <2>1, <2>2, <2>4
<1> QED
  BY <1>2, <1>3

\* get_vertex_to_run and restore look only at cells that are there exactly as
\* long as no id is newer than the first load to find any: a second load, or
\* add_vertex, takes the scheduler out of its matrix (graph.1.hpp:254-273,
\* 284-305), whatever the ids and however many calls.
THEOREM SchedulerStaysInBounds == OlderSpec => []SchedulerInBounds
  BY OlderInvariance, OlderInvGivesBounds, PTL

\* The older graph's ids stay a bijection too; its calls reach get_local_id in
\* the order of two files (graph.1.hpp:101-169).
THEOREM OlderIdsStayBijective == OlderSpec => []IdsBijective
<1>1. OlderInv => IdsBijective
  BY IdsInvGivesBijective DEF OlderInv
<1> QED
  BY <1>1, OlderInvariance, PTL

-----------------------------------------------------------------------------
(* What belief propagation starts from.                                    *)

\* The storage, and no more vertices than ids: they come from add_vertex.
LoadedInv == StoreInv /\ vertices \in Seq(AnyData) /\ Len(vertices) <= NumIds

LEMMA NextLoaded ==
  ASSUME LoadedInv, [OlderNext]_allVars
  PROVE  LoadedInv'
<1>0. /\ current_local_id \in Int /\ IdsOK(IdTable)
      /\ vertices \in Seq(AnyData) /\ Len(vertices) \in Nat
  BY DEF LoadedInv, StoreInv, IdsInv, IdsOK, IdTable
<1>1. ASSUME NEW g \in GlobalId, NEW h \in GlobalId, LoadLine(g, h)
      PROVE  LoadedInv'
  <2>1. StoreInv'
    BY <1>1, AddEdgeStore, LoadUndirectedStore DEF LoadedInv, LoadLine
  <2>2. SetIds(GetLocalId(GetLocalId(IdTable, g), h)) /\ UNCHANGED <<local_id2gloabl_id, vertices>>
    BY <1>1 DEF LoadLine, AddEdge, LoadUndirected
  <2>3. IdsInv' /\ ExtendsTable(GetLocalId(GetLocalId(IdTable, g), h), IdTable)
    BY <2>2, TwoIds DEF LoadedInv, StoreInv
  <2>4. current_local_id' >= current_local_id /\ current_local_id' \in Int
    BY <2>2, <2>3 DEF ExtendsTable, SetIds, IdTable, IdsInv, IdsOK
  <2> QED
    BY <1>0, <2>1, <2>2, <2>4 DEF LoadedInv, NumIds
<1>2. CASE EndLoad
  <2>1. StoreInv'
    BY <1>2, SameStore DEF LoadedInv, EndLoad
  <2> QED
    BY <1>2, <2>1 DEF LoadedInv, EndLoad, NumIds, vars, ids
<1>3. ASSUME NEW g \in GlobalId, NEW d \in VertexData, LoadVertex(g, d)
      PROVE  LoadedInv'
  <2>1. AddVertex(g, d)
    BY <1>3 DEF LoadVertex
  <2>2. StoreInv'
    BY <2>1, AddVertexStore DEF LoadedInv
  <2>3. /\ vertices' \in Seq(AnyData)
        /\ current_local_id' \in Int /\ current_local_id' >= current_local_id
        /\ \E vid \in 0 .. current_local_id' :
              Len(vertices') = IF vid + 1 > Len(vertices) THEN vid + 1 ELSE Len(vertices)
    BY <1>0, <2>1, AddVertexGrows
  <2>4. Len(vertices) <= current_local_id + 1
    BY DEF LoadedInv, NumIds
  <2>5. Len(vertices') <= current_local_id' + 1
    BY <1>0, <2>3, <2>4
  <2> QED
    BY <2>2, <2>3, <2>5 DEF LoadedInv, NumIds
<1>4. CASE OlderFinalize
  <2>1. StoreInv'
    BY <1>4, BuildStorageStore DEF LoadedInv, OlderFinalize
  <2>2. UNCHANGED <<vertices, current_local_id>>
    BY <1>4 DEF OlderFinalize, BuildStorage, ids
  <2> QED
    BY <2>1, <2>2 DEF LoadedInv, NumIds
<1>5. CASE UNCHANGED allVars
  <2>1. StoreInv'
    BY <1>5, SameStore DEF LoadedInv, allVars
  <2> QED
    BY <1>5, <2>1 DEF LoadedInv, allVars, vars, ids, NumIds
<1> QED
  BY <1>1, <1>2, <1>3, <1>4, <1>5 DEF OlderNext

\* A claim about all subsets of a finite set holds if there is no smallest
\* subset it does not hold of.
LEMMA SmallestSet ==
  ASSUME NEW S, IsFiniteSet(S), NEW Bad, Bad \subseteq SUBSET S, Bad # {}
  PROVE  \E s \in Bad : \A x \in s : s \ {x} \notin Bad
<1> DEFINE T == {Cardinality(s) : s \in Bad}
<1>1. \A s \in SUBSET S : IsFiniteSet(s) /\ Cardinality(s) \in Nat
  BY FS_Subset, FS_CardinalityType
<1>2. T \subseteq Nat /\ T # {}
  BY <1>1
<1>3. PICK n \in T : \A m \in T : n <= m
  <2> HIDE DEF T
  <2> QED
    BY <1>2, LeastNumber
<1>4. PICK s \in Bad : Cardinality(s) = n
  OBVIOUS
<1>5. ASSUME NEW x \in s, s \ {x} \in Bad
      PROVE  FALSE
  <2>1. IsFiniteSet(s) /\ Cardinality(s) \in Nat
    BY <1>1
  <2>2. Cardinality(s \ {x}) = Cardinality(s) - 1
    BY <2>1, FS_RemoveElement
  <2>3. n <= Cardinality(s \ {x})
    BY <1>3, <1>5
  <2> QED
    BY <1>4, <2>1, <2>2, <2>3
<1> QED
  BY <1>5

\* The function MapThenSumSet adds the lengths of rows up with.
Picked(s) == CHOOSE v \in s : TRUE
IsLengths(g, S) ==
    g = [s \in SUBSET S |-> IF s = {} THEN 0
                            ELSE Len(OutEdges(Picked(s))) + g[s \ {Picked(s)}]]

\* The edges of some rows.
OutsOf(s) == UNION {Outs(v) : v \in s}

LEMMA RowLengthsAddUp ==
  ASSUME StoreInv, NEW S, S \subseteq Rows, IsFiniteSet(S)
  PROVE  MapThenSumSet(LAMBDA v : Len(OutEdges(v)), S) = Cardinality(OutsOf(S))
<1>1. MapThenSumSet(LAMBDA v : Len(OutEdges(v)), S) = (CHOOSE g : IsLengths(g, S))[S]
  BY DEF MapThenSumSet, MapThenFoldSet, IsLengths, Picked
<1>2. /\ IsFiniteSet(BuiltEdges)
      /\ \A v \in S : Len(OutEdges(v)) = Cardinality(Outs(v))
  <2>1. built \in Nat
    BY DEF StoreInv, RowsBuilt, EdgesKnown, KnownEnds
  <2> QED
    BY <2>1, StoreInvRows, FS_Interval DEF RowRight, BuiltEdges
<1>3. ASSUME NEW s \in SUBSET S
      PROVE  IsFiniteSet(OutsOf(s)) /\ Cardinality(OutsOf(s)) \in Nat
  <2>1. OutsOf(s) \subseteq BuiltEdges
    BY DEF OutsOf, Outs
  <2> QED
    BY <1>2, <2>1, FS_Subset, FS_CardinalityType
<1>4. ASSUME NEW s \in SUBSET S, NEW v \in s
      PROVE  Cardinality(OutsOf(s)) = Len(OutEdges(v)) + Cardinality(OutsOf(s \ {v}))
  <2> DEFINE a == Outs(v)
             b == OutsOf(s \ {v})
  <2>1. OutsOf(s) = a \cup b /\ a \cap b = {}
    BY DEF OutsOf, Outs
  <2>2. /\ IsFiniteSet(a) /\ Cardinality(a) \in Nat
        /\ IsFiniteSet(b) /\ Cardinality(b) \in Nat
    <3>1. a \subseteq BuiltEdges
      BY DEF Outs
    <3>2. IsFiniteSet(a) /\ Cardinality(a) \in Nat
      <4> HIDE DEF a
      <4> QED
        BY <1>2, <3>1, FS_Subset, FS_CardinalityType
    <3> QED
      BY <1>3, <3>2
  <2>3. Len(OutEdges(v)) = Cardinality(a)
    BY <1>2
  <2> HIDE DEF a, b
  <2>4. Cardinality(a \cup b) = Cardinality(a) + Cardinality(b)
    <3>1. Cardinality(a \cap b) = 0
      BY <2>1, FS_EmptySet
    <3>2. Cardinality(a \cup b) = Cardinality(a) + Cardinality(b) - Cardinality(a \cap b)
      BY <2>2, FS_Union
    <3> QED
      BY <2>2, <3>1, <3>2
  <2> QED
    BY <2>1, <2>3, <2>4 DEF b
<1>5. Cardinality(OutsOf({})) = 0
  <2>1. OutsOf({}) = {}
    BY DEF OutsOf
  <2> QED
    BY <2>1, FS_EmptySet
<1> DEFINE h == [s \in SUBSET S |-> Cardinality(OutsOf(s))]
<1>6. IsLengths(h, S)
  <2>1. ASSUME NEW s \in SUBSET S, s # {}
        PROVE  h[s] = Len(OutEdges(Picked(s))) + h[s \ {Picked(s)}]
    <3>1. Picked(s) \in s
      BY <2>1 DEF Picked
    <3> QED
      BY <1>4, <3>1
  <2>2. h = [s \in SUBSET S |-> IF s = {} THEN 0
                                ELSE Len(OutEdges(Picked(s))) + h[s \ {Picked(s)}]]
    BY <1>5, <2>1
  <2> HIDE DEF h
  <2> QED
    BY <2>2 DEF IsLengths
<1> HIDE DEF h
<1>7. PICK g : g = (CHOOSE f : IsLengths(f, S))
  OBVIOUS
<1>8. IsLengths(g, S)
  BY <1>6, <1>7
<1>9. \A s \in SUBSET S : g[s] = Cardinality(OutsOf(s))
  <2> DEFINE Bad == {s \in SUBSET S : g[s] # Cardinality(OutsOf(s))}
  <2>1. ASSUME Bad # {} PROVE FALSE
    <3>1. PICK s \in Bad : \A x \in s : s \ {x} \notin Bad
      <4>1. Bad \subseteq SUBSET S
        OBVIOUS
      <4> HIDE DEF Bad
      <4> QED
        BY <2>1, <4>1, SmallestSet
    <3>2. s \in SUBSET S /\ g[s] # Cardinality(OutsOf(s))
      BY <3>1
    <3>3. s # {}
      BY <1>5, <1>8, <3>2 DEF IsLengths
    <3>4. Picked(s) \in s
      BY <3>3 DEF Picked
    <3>5. g[s] = Len(OutEdges(Picked(s))) + g[s \ {Picked(s)}]
      BY <1>8, <3>2, <3>3 DEF IsLengths
    <3>6. g[s \ {Picked(s)}] = Cardinality(OutsOf(s \ {Picked(s)}))
      BY <3>1, <3>2, <3>4
    <3> HIDE DEF Bad
    <3> QED
      BY <1>4, <3>2, <3>4, <3>5, <3>6
  <2> QED
    BY <2>1
<1>10. S \in SUBSET S
  OBVIOUS
<1> QED
  BY <1>1, <1>7, <1>9, <1>10

LEMMA LoadedInvGivesReady == LoadedInv => LoopyBPReady
<1> SUFFICES ASSUME LoadedInv, FinalizedLast, built > 0, AllData
             PROVE  /\ Initialized = {<<e, BuiltEdge(e)[1], BuiltEdge(e)[2]>> : e \in BuiltEdges}
                    /\ built = MapThenSumSet(LAMBDA v : Len(OutEdges(v)), InitialVertices)
                    /\ \A x \in Initialized : {x[2], x[3]} \subseteq Range(InitialRun)
                    /\ Range(InitialRun) = DOMAIN local_id2gloabl_id
  BY DEF LoopyBPReady
<1>0. StoreInv
  BY DEF LoadedInv
<1>1. /\ current_local_id \in Int /\ NumIds \in Nat /\ current_local_id = NumIds - 1
      /\ Len(vertices) \in Nat /\ Len(vertices) <= NumIds
      /\ built \in Nat
  <2>1. current_local_id \in Int /\ current_local_id >= -1
    BY <1>0 DEF StoreInv, IdsInv, IdsOK, IdTable
  <2>2. Len(vertices) \in Nat /\ Len(vertices) <= NumIds
    BY DEF LoadedInv
  <2>3. built \in Nat
    BY <1>0 DEF StoreInv, RowsBuilt, EdgesKnown, KnownEnds
  <2> QED
    BY <2>1, <2>2, <2>3 DEF NumIds
<1>2. KnownThen = NumIds
  <2>1. KnownThen \in 0 .. current_local_id + 1 /\ DOMAIN local_id2gloabl_id = 0 .. KnownThen - 1
    BY <1>0 DEF StoreInv, RowsBuilt
  <2>2. 0 .. KnownThen - 1 = 0 .. current_local_id
    BY <2>1 DEF FinalizedLast, LocalId
  <2>3. KnownThen - 1 \in Int /\ KnownThen - 1 >= -1 /\ current_local_id >= -1
    BY <1>1, <2>1
  <2>4. KnownThen - 1 = current_local_id
    BY <1>1, <2>2, <2>3, SameInterval
  <2> QED
    BY <1>1, <2>1, <2>4
<1>3. NumIds > 0
  BY <1>0, <1>2 DEF StoreInv, RowsBuilt, RowsOf
<1>4. NumVertices = NumIds
  <2>1. current_local_id \in LocalId
    BY <1>1, <1>3 DEF LocalId
  <2>2. current_local_id < NumVertices
    BY <2>1 DEF AllData
  <2> QED
    BY <1>1, <2>2 DEF NumVertices
<1>5. InitialVertices = 0 .. NumIds - 1 /\ InitialVertices = Rows
  BY <1>0, <1>2, <1>4, StoreInvRows DEF InitialVertices
<1>6. Range(InitialRun) = 0 .. NumIds - 1
  <2>1. InitialRun = [i \in 1 .. NumIds |-> i - 1]
    BY <1>4 DEF InitialRun
  <2>2. \A v \in 0 .. NumIds - 1 : v + 1 \in 1 .. NumIds /\ (v + 1) - 1 = v
    BY <1>1
  <2>3. \A i \in 1 .. NumIds : i - 1 \in 0 .. NumIds - 1
    BY <1>1
  <2> QED
    BY <2>1, <2>2, <2>3 DEF Range
<1>7. \A e \in BuiltEdges : /\ BuiltEdge(e)[1] \in Rows
                            /\ BuiltEdge(e)[2] \in Rows
  BY <1>0, <1>2, <1>5, BuiltEnds
<1>8. Initialized = {<<e, BuiltEdge(e)[1], BuiltEdge(e)[2]>> : e \in BuiltEdges}
  <2>1. ASSUME NEW v \in Rows
        PROVE  /\ DOMAIN OutEdges(v) = 1 .. NumOutEdges(v)
               /\ \A i \in DOMAIN OutEdges(v) :
                     /\ OutEdges(v)[i][2] \in BuiltEdges
                     /\ v = BuiltEdge(OutEdges(v)[i][2])[1]
                     /\ OutEdges(v)[i][1] = BuiltEdge(OutEdges(v)[i][2])[2]
               /\ \A e \in BuiltEdges : BuiltEdge(e)[1] = v =>
                     \E i \in DOMAIN OutEdges(v) : OutEdges(v)[i][2] = e
    <3>1. RowRight(OutEdges(v), NumOutEdges(v), Outs(v), EndsAt(2))
      BY <1>0, StoreInvRows
    <3>2. \A i \in DOMAIN OutEdges(v) :
             /\ OutEdges(v)[i][2] \in Outs(v)
             /\ OutEdges(v)[i] = <<EndsAt(2)[OutEdges(v)[i][2]], OutEdges(v)[i][2]>>
      BY <3>1 DEF RowRight
    <3>3. \A i \in DOMAIN OutEdges(v) : OutEdges(v)[i][1] = EndsAt(2)[OutEdges(v)[i][2]]
      BY <3>2
    <3>4. \A e \in Outs(v) : /\ e \in BuiltEdges /\ BuiltEdge(e)[1] = v
                             /\ EndsAt(2)[e] = BuiltEdge(e)[2]
      BY DEF Outs, EndsAt
    <3>5. \A e \in Outs(v) : \E i \in DOMAIN OutEdges(v) : OutEdges(v)[i][2] = e
      BY <3>1 DEF RowRight
    <3>6. DOMAIN OutEdges(v) = 1 .. NumOutEdges(v)
      BY <3>1 DEF RowRight
    <3>7. \A e \in BuiltEdges : BuiltEdge(e)[1] = v => e \in Outs(v)
      BY DEF Outs
    <3> QED
      BY <3>2, <3>3, <3>4, <3>5, <3>6, <3>7
  <2> DEFINE All == {<<e, BuiltEdge(e)[1], BuiltEdge(e)[2]>> : e \in BuiltEdges}
             Row(v) == {<<OutEdges(v)[i][2], v, OutEdges(v)[i][1]>> : i \in DOMAIN OutEdges(v)}
  <2>2. ASSUME NEW v \in Rows PROVE Row(v) \subseteq All
    BY <2>1
  <2>3. ASSUME NEW e \in BuiltEdges
        PROVE  \E v \in Rows : <<e, BuiltEdge(e)[1], BuiltEdge(e)[2]>> \in Row(v)
    <3>1. PICK v \in Rows : v = BuiltEdge(e)[1]
      BY <1>7
    <3>2. PICK i \in DOMAIN OutEdges(v) : OutEdges(v)[i][2] = e
      BY <2>1, <3>1
    <3>3. OutEdges(v)[i][1] = BuiltEdge(e)[2]
      BY <2>1, <3>2
    <3> QED
      BY <3>1, <3>2, <3>3
  <2>4. Initialized = UNION {Row(v) : v \in Rows}
    BY <1>5 DEF Initialized
  <2>5. \A x \in All : \E v \in Rows : x \in Row(v)
    BY <2>3
  <2> HIDE DEF Row, All
  <2>6. Initialized = All
    BY <2>2, <2>4, <2>5
  <2> QED
    BY <2>6 DEF All
<1>9. built = MapThenSumSet(LAMBDA v : Len(OutEdges(v)), InitialVertices)
  <2>1. MapThenSumSet(LAMBDA v : Len(OutEdges(v)), InitialVertices)
           = Cardinality(OutsOf(InitialVertices))
    <3>1. IsFiniteSet(InitialVertices)
      BY <1>1, <1>5, FS_Interval
    <3> QED
      BY <1>0, <1>5, <3>1, RowLengthsAddUp
  <2>2. OutsOf(InitialVertices) = BuiltEdges
    <3>1. \A e \in BuiltEdges : e \in Outs(BuiltEdge(e)[1]) /\ BuiltEdge(e)[1] \in InitialVertices
      BY <1>5, <1>7 DEF Outs
    <3>2. \A v \in InitialVertices : Outs(v) \subseteq BuiltEdges
      BY DEF Outs
    <3> QED
      BY <3>1, <3>2 DEF OutsOf
  <2>3. Cardinality(BuiltEdges) = built
    BY <1>1, FS_Interval DEF BuiltEdges
  <2> QED
    BY <2>1, <2>2, <2>3
<1>10. \A x \in Initialized : {x[2], x[3]} \subseteq Range(InitialRun)
  <2> SUFFICES ASSUME NEW x \in Initialized
               PROVE  x[2] \in Range(InitialRun) /\ x[3] \in Range(InitialRun)
    OBVIOUS
  <2>1. PICK e \in BuiltEdges : x = <<e, BuiltEdge(e)[1], BuiltEdge(e)[2]>>
    BY <1>8
  <2> QED
    BY <1>5, <1>6, <1>7, <2>1
<1>11. Range(InitialRun) = DOMAIN local_id2gloabl_id
  BY <1>0, <1>2, <1>6 DEF StoreInv, RowsBuilt
<1> QED
  BY <1>8, <1>9, <1>10, <1>11

LEMMA LoadedInvariance == OlderSpec => []LoadedInv
<1>1. OlderInit => LoadedInv
  <2> SUFFICES ASSUME OlderInit PROVE LoadedInv
    OBVIOUS
  <2>1. StoreInv
    BY InitStore DEF OlderInit
  <2>2. vertices = <<>> /\ current_local_id = -1
    BY DEF OlderInit, Init
  <2> QED
    BY <2>1, <2>2 DEF LoadedInv, NumIds
<1>2. LoadedInv /\ [OlderNext]_allVars => LoadedInv'
  BY NextLoaded
<1> QED
  BY <1>1, <1>2, PTL DEF OlderSpec

\* When finalize came last and every id of the edge file has a line in the
\* vertex file, belief propagation starts with each edge initialised once,
\* under the ids of its ends, and with all vertices queued, in whatever order
\* the two files name the ids (lbp/main.cpp:105-106, 137-152).
THEOREM LoopyBPStartsReady == OlderSpec => []LoopyBPReady
  BY LoadedInvariance, LoadedInvGivesReady, PTL

\* The older graph's finalize sorts and builds as the newer one's does, with
\* loads and the lines of two files in any order before it
\* (graph.1.hpp:123-169).
THEOREM OlderRowsRight == OlderSpec => [](SortsEdges /\ RowsAndColumns)
<1>1. LoadedInv => SortsEdges /\ RowsAndColumns
  BY StoreInvGivesSort, StoreInvGivesRows DEF LoadedInv
<1> QED
  BY <1>1, LoadedInvariance, PTL
=============================================================================
