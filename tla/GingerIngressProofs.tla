------------------------ MODULE GingerIngressProofs ------------------------
(***************************************************************************)
(* Proofs about the hybrid Ginger ingress, for any cluster, input, hash    *)
(* and threshold: its types.  Balances are sums over processes and         *)
(* messages and the greedy choice is a fold, so that they are numbers and  *)
(* processes takes induction, which goes by the least counterexample.      *)
(* The variables are typed in groups, each step by a lemma for the groups  *)
(* it changes.  One fact beyond types is needed: the vertices of the local *)
(* graphs are among those added (OnlyNamed), hence finitely many, and      *)
(* their degrees are numbers.                                              *)
(*                                                                         *)
(* Then what is exchanged.  No edge is lost or kept twice: each step moves *)
(* edges from one store to another, and the one assignment that overwrites *)
(* a store finds it empty (MapEmpty).  No increment of a balance is lost:  *)
(* what a process has, what is under way to it and what others have yet to *)
(* send is the weight of what was placed, within what is rounded: a        *)
(* synchronization moves amounts between the three, and a balance grows by *)
(* the weight of a target or by one more.  The latter rests on the section *)
(* on floats: the sum of an integer and a float below the limit rounds to  *)
(* at most the next integer (IncreasedIs).                                 *)
(***************************************************************************)
EXTENDS GingerIngress, FiniteSetTheorems, SequenceTheorems, WellFoundedInduction, TLAPS

-----------------------------------------------------------------------------
(* Induction, and the sums it is needed for.  The induction theorems of    *)
(* the library take a predicate; that a set of numbers has a least one     *)
(* does as well: a claim about all numbers holds if there is no least      *)
(* number it does not hold of.                                             *)

LEMMA LeastNumber ==
  ASSUME NEW T, T \subseteq Nat, T # {}
  PROVE  \E n \in T : \A m \in T : n <= m
<1>1. IsWellFoundedOn(OpToRel(<, Nat), Nat)
  BY NatLessThanWellFounded
<1>2. \E n \in T : \A m \in T : ~(<<m, n>> \in OpToRel(<, Nat))
  BY <1>1, WFMin
<1>3. PICK n \in T : \A m \in T : ~(<<m, n>> \in OpToRel(<, Nat))
  BY <1>2
<1>4. \A m \in T : ~(m < n)
  BY <1>3 DEF OpToRel
<1>5. \A m \in T : m \in Nat
  OBVIOUS
<1>6. \A m \in T : n <= m
  BY <1>4, <1>5
<1> QED
  BY <1>6

\* The function SumFunctionOnSet adds up with: the sums over all subsets.
Picked(s) == CHOOSE x \in s : TRUE
IsSums(g, f, sets) ==
    g = [s \in sets |-> IF s = {} THEN 0 ELSE f[Picked(s)] + g[s \ {Picked(s)}]]
Sums(f, S) == CHOOSE g : IsSums(g, f, SUBSET S)

LEMMA SumIsSums ==
  ASSUME NEW f
  PROVE  SumFunction(f) = Sums(f, DOMAIN f)[DOMAIN f]
  BY DEF SumFunction, SumFunctionOnSet, FoldFunctionOnSet, MapThenFoldSet,
         Sums, IsSums, Picked

LEMMA PickedLess ==
  ASSUME NEW s, IsFiniteSet(s), s # {}
  PROVE  /\ Picked(s) \in s
         /\ IsFiniteSet(s \ {Picked(s)})
         /\ Cardinality(s) \in Nat \ {0}
         /\ Cardinality(s \ {Picked(s)}) = Cardinality(s) - 1
<1>1. Picked(s) \in s
  BY DEF Picked
<1>2. Cardinality(s) \in Nat /\ Cardinality(s) # 0
  BY FS_CardinalityType, FS_EmptySet
<1> QED
  BY <1>1, <1>2, FS_RemoveElement

\* There is such a function, one cardinality after the other.
Small(S, n) == {s \in SUBSET S : Cardinality(s) <= n}

LEMMA SumsExist ==
  ASSUME NEW f, NEW S, IsFiniteSet(S)
  PROVE  IsSums(Sums(f, S), f, SUBSET S)
<1> DEFINE T == {n \in Nat : ~ \E g : IsSums(g, f, Small(S, n))}
<1>1. \A s \in SUBSET S : IsFiniteSet(s) /\ Cardinality(s) \in Nat
                          /\ Cardinality(s) <= Cardinality(S)
  BY FS_Subset, FS_CardinalityType
<1>2. SUFFICES T = {}
  <2>1. Cardinality(S) \in Nat
    BY FS_CardinalityType
  <2>2. PICK g : IsSums(g, f, Small(S, Cardinality(S)))
    BY <1>2, <2>1
  <2>3. Small(S, Cardinality(S)) = SUBSET S
    BY <1>1 DEF Small
  <2> QED
    BY <2>2, <2>3 DEF Sums
<1>3. SUFFICES ASSUME T # {} PROVE FALSE
  OBVIOUS
<1>4. PICK n \in T : \A m \in T : n <= m
  <2>1. T \subseteq Nat
    OBVIOUS
  <2> HIDE DEF T
  <2> QED
    BY <1>3, <2>1, LeastNumber
<1>5. n \in Nat /\ ~ \E g : IsSums(g, f, Small(S, n))
  BY <1>4
<1>6. CASE n = 0
  <2>1. Small(S, 0) = {{}}
    BY <1>1, FS_EmptySet DEF Small
  <2>2. IsSums([s \in {{}} |-> 0], f, Small(S, 0))
    BY <2>1 DEF IsSums
  <2> QED
    BY <1>5, <1>6, <2>2
<1>7. CASE n # 0
  <2>1. n - 1 \in Nat /\ n - 1 \notin T
    BY <1>4, <1>5, <1>7
  <2>2. PICK g : IsSums(g, f, Small(S, n - 1))
    BY <2>1
  <2> DEFINE h == [s \in Small(S, n) |-> IF s = {} THEN 0
                                         ELSE f[Picked(s)] + g[s \ {Picked(s)}]]
  <2>3. ASSUME NEW s \in Small(S, n), s # {}
        PROVE  /\ s \ {Picked(s)} \in Small(S, n - 1)
               /\ s \ {Picked(s)} \in Small(S, n)
    BY <1>1, <1>5, <2>3, PickedLess DEF Small
  <2>4. ASSUME NEW s \in Small(S, n - 1)
        PROVE  h[s] = g[s]
    <3>1. s \in Small(S, n)
      BY <1>1, <1>5, <2>4 DEF Small
    <3> QED
      BY <2>2, <3>1 DEF IsSums
  <2>5. ASSUME NEW s \in Small(S, n)
        PROVE  h[s] = IF s = {} THEN 0 ELSE f[Picked(s)] + h[s \ {Picked(s)}]
    BY <2>3, <2>4
  <2>6. IsSums(h, f, Small(S, n))
    BY <2>5 DEF IsSums
  <2> QED
    BY <1>5, <2>6
<1> QED
  BY <1>6, <1>7

\* A claim about all subsets of a finite set holds if there is no smallest
\* subset it does not hold of.
LEMMA SmallestSet ==
  ASSUME NEW S, IsFiniteSet(S), NEW Bad, Bad \subseteq SUBSET S, Bad # {}
  PROVE  \E s \in Bad : \A x \in s : s \ {x} \notin Bad
<1> DEFINE T == {Cardinality(s) : s \in Bad}
<1>1. \A s \in SUBSET S : IsFiniteSet(s) /\ Cardinality(s) \in Nat
  BY FS_Subset, FS_CardinalityType
<1>2. T \subseteq Nat /\ T # {}
  BY <1>1
<1>3. PICK n \in T : \A m \in T : n <= m
  <2> HIDE DEF T
  <2> QED
    BY <1>2, LeastNumber
<1>4. PICK s \in Bad : Cardinality(s) = n
  OBVIOUS
<1>5. ASSUME NEW x \in s, s \ {x} \in Bad
      PROVE  FALSE
  <2>1. IsFiniteSet(s) /\ Cardinality(s) \in Nat
    BY <1>1
  <2>2. Cardinality(s \ {x}) = Cardinality(s) - 1
    BY <2>1, FS_RemoveElement
  <2>3. n <= Cardinality(s \ {x})
    BY <1>3, <1>5
  <2> QED
    BY <1>4, <2>1, <2>2, <2>3
<1> QED
  BY <1>5

LEMMA SumsStep ==
  ASSUME NEW f, NEW S, IsFiniteSet(S), NEW s \in SUBSET S
  PROVE  /\ s = {} => Sums(f, S)[s] = 0
         /\ s # {} => /\ Picked(s) \in s
                      /\ Sums(f, S)[s] = f[Picked(s)] + Sums(f, S)[s \ {Picked(s)}]
<1> DEFINE I == Sums(f, S)
<1>1. IsSums(I, f, SUBSET S)
  BY SumsExist
<1> HIDE DEF I
<1>2. I[s] = IF s = {} THEN 0 ELSE f[Picked(s)] + I[s \ {Picked(s)}]
  BY <1>1 DEF IsSums
<1>3. s # {} => Picked(s) \in s
  BY DEF Picked
<1> QED
  BY <1>2, <1>3 DEF I

LEMMA SumsType ==
  ASSUME NEW S, IsFiniteSet(S), NEW f, \A x \in S : f[x] \in Nat, NEW s \in SUBSET S
  PROVE  Sums(f, S)[s] \in Nat
<1> DEFINE Bad == {t \in SUBSET S : Sums(f, S)[t] \notin Nat}
<1>1. ASSUME Bad # {} PROVE FALSE
  <2>1. Bad \subseteq SUBSET S
    OBVIOUS
  <2>2. PICK t \in Bad : \A x \in t : t \ {x} \notin Bad
    <3> HIDE DEF Bad
    <3> QED
      BY <1>1, <2>1, SmallestSet
  <2>3. /\ t = {} => Sums(f, S)[t] = 0
        /\ t # {} => /\ Picked(t) \in t
                     /\ Sums(f, S)[t] = f[Picked(t)] + Sums(f, S)[t \ {Picked(t)}]
    BY <2>2, SumsStep
  <2>4. t # {} /\ Picked(t) \in t
    BY <2>2, <2>3
  <2>5. Sums(f, S)[t \ {Picked(t)}] \in Nat
    BY <2>2, <2>4
  <2>6. f[Picked(t)] \in Nat
    BY <2>2, <2>4
  <2> QED
    BY <2>2, <2>3, <2>4, <2>5, <2>6
<1> QED
  BY <1>1

\* The sum over a subset depends on the values there only.
LEMMA SumsAgree ==
  ASSUME NEW S, IsFiniteSet(S), NEW R \in SUBSET S, NEW f, NEW g,
         \A x \in R : g[x] = f[x], NEW s \in SUBSET R
  PROVE  Sums(g, R)[s] = Sums(f, S)[s]
<1> DEFINE Bad == {t \in SUBSET R : Sums(g, R)[t] # Sums(f, S)[t]}
<1>0. IsFiniteSet(R)
  BY FS_Subset
<1>1. ASSUME Bad # {} PROVE FALSE
  <2>1. Bad \subseteq SUBSET R
    OBVIOUS
  <2>2. PICK t \in Bad : \A x \in t : t \ {x} \notin Bad
    <3> HIDE DEF Bad
    <3> QED
      BY <1>0, <1>1, <2>1, SmallestSet
  <2>3. t \in SUBSET R /\ t \in SUBSET S
    OBVIOUS
  <2>4. /\ t = {} => Sums(g, R)[t] = 0
        /\ t # {} => /\ Picked(t) \in t
                     /\ Sums(g, R)[t] = g[Picked(t)] + Sums(g, R)[t \ {Picked(t)}]
    <3> HIDE DEF Bad
    <3>1. ASSUME NEW h, NEW Q, IsFiniteSet(Q), NEW u \in SUBSET Q
          PROVE  /\ u = {} => Sums(h, Q)[u] = 0
                 /\ u # {} => /\ Picked(u) \in u
                              /\ Sums(h, Q)[u] = h[Picked(u)] + Sums(h, Q)[u \ {Picked(u)}]
      BY <3>1, SumsStep
    <3> QED
      BY <1>0, <2>3, <3>1
  <2>5. /\ t = {} => Sums(f, S)[t] = 0
        /\ t # {} => Sums(f, S)[t] = f[Picked(t)] + Sums(f, S)[t \ {Picked(t)}]
    BY <2>3, SumsStep
  <2>8. t # {} /\ Picked(t) \in t
    BY <2>2, <2>4, <2>5
  <2>6. Sums(g, R)[t \ {Picked(t)}] = Sums(f, S)[t \ {Picked(t)}]
    BY <2>2, <2>3, <2>8
  <2>7. g[Picked(t)] = f[Picked(t)]
    BY <2>3, <2>8
  <2> QED
    BY <2>2, <2>4, <2>5, <2>6, <2>7, <2>8
<1> QED
  BY <1>1

\* Whichever element is taken out first, the sum is the same.
LEMMA SumsRemove ==
  ASSUME NEW S, IsFiniteSet(S), NEW f, \A x \in S : f[x] \in Nat,
         NEW s \in SUBSET S, NEW x \in s
  PROVE  Sums(f, S)[s] = f[x] + Sums(f, S)[s \ {x}]
<1> DEFINE I(t) == Sums(f, S)[t]
           Bad  == {t \in SUBSET S : \E y \in t : I(t) # f[y] + I(t \ {y})}
<1>0. \A t \in SUBSET S : I(t) \in Nat
  BY SumsType
<1>1. ASSUME Bad # {} PROVE FALSE
  <2>1. Bad \subseteq SUBSET S
    OBVIOUS
  <2>2. PICK t \in Bad : \A y \in t : t \ {y} \notin Bad
    <3> HIDE DEF Bad
    <3> QED
      BY <1>1, <2>1, SmallestSet
  <2>3. PICK y \in t : I(t) # f[y] + I(t \ {y})
    BY <2>2
  <2> DEFINE c == Picked(t)
  <2>4. c \in t
    BY DEF Picked
  <2>5. I(t) = f[c] + I(t \ {c})
    BY <2>2, <2>4, SumsStep
  <2>6. c # y
    BY <2>3, <2>5
  <2> DEFINE rest == (t \ {c}) \ {y}
  <2>7. I(t \ {c}) = f[y] + I(rest)
    BY <2>2, <2>4, <2>6
  <2>8. I(t \ {y}) = f[c] + I((t \ {y}) \ {c})
    BY <2>2, <2>4, <2>6
  <2>9. (t \ {y}) \ {c} = rest
    OBVIOUS
  <2>10. t \in SUBSET S /\ f[c] \in Nat /\ f[y] \in Nat /\ I(rest) \in Nat
    BY <1>0, <2>2, <2>4
  <2>11. I(t \ {y}) = f[c] + I(rest)
    BY <2>8, <2>9
  <2> HIDE DEF I, c, rest
  <2> QED
    BY <2>3, <2>5, <2>7, <2>10, <2>11
<1> QED
  BY <1>1

LEMMA SumEmpty ==
  ASSUME NEW f, DOMAIN f = {}
  PROVE  SumFunction(f) = 0
  BY SumIsSums, SumsStep, FS_EmptySet

LEMMA SumType ==
  ASSUME NEW D, IsFiniteSet(D), NEW f \in [D -> Nat]
  PROVE  SumFunction(f) \in Nat
  BY SumIsSums, SumsType

LEMMA SumRemove ==
  ASSUME NEW D, IsFiniteSet(D), NEW f \in [D -> Nat], NEW x \in D
  PROVE  SumFunction(f) = f[x] + SumFunction([y \in D \ {x} |-> f[y]])
<1> DEFINE R == D \ {x}
           g == [y \in R |-> f[y]]
<1>1. SumFunction(f) = f[x] + Sums(f, D)[R]
  BY SumIsSums, SumsRemove
<1>2. Sums(g, R)[R] = Sums(f, D)[R]
  <2>1. R \in SUBSET D /\ R \in SUBSET R /\ \A y \in R : g[y] = f[y]
    OBVIOUS
  <2> HIDE DEF R, g
  <2> QED
    BY <2>1, SumsAgree
<1>3. SumFunction(g) = Sums(g, R)[R]
  BY SumIsSums
<1> QED
  BY <1>1, <1>2, <1>3

\* Two functions that differ at one place.
LEMMA SumChanged ==
  ASSUME NEW D, IsFiniteSet(D), NEW f \in [D -> Nat], NEW g \in [D -> Nat],
         NEW x \in D, \A y \in D \ {x} : g[y] = f[y]
  PROVE  SumFunction(g) + f[x] = SumFunction(f) + g[x]
<1> DEFINE restf == [y \in D \ {x} |-> f[y]]
           restg == [y \in D \ {x} |-> g[y]]
<1>1. /\ SumFunction(f) = f[x] + SumFunction(restf)
      /\ SumFunction(g) = g[x] + SumFunction(restg)
  BY SumRemove
<1>2. restf = restg
  OBVIOUS
<1>3. SumFunction(restf) \in Nat
  <2>1. IsFiniteSet(D \ {x}) /\ restf \in [D \ {x} -> Nat]
    BY FS_Subset
  <2> HIDE DEF restf
  <2> QED
    BY <2>1, SumType
<1>4. f[x] \in Nat /\ g[x] \in Nat
  OBVIOUS
<1> HIDE DEF restf, restg
<1> QED
  BY <1>1, <1>2, <1>3, <1>4

\* The sum of sums.
LEMMA SumAdded ==
  ASSUME NEW D, IsFiniteSet(D), NEW f \in [D -> Nat], NEW g \in [D -> Nat],
         NEW h \in [D -> Nat], \A x \in D : h[x] = f[x] + g[x]
  PROVE  SumFunction(h) = SumFunction(f) + SumFunction(g)
<1> DEFINE F(s) == Sums(f, D)[s]
           G(s) == Sums(g, D)[s]
           H(s) == Sums(h, D)[s]
           Bad  == {s \in SUBSET D : H(s) # F(s) + G(s)}
<1>1. \A s \in SUBSET D : F(s) \in Nat /\ G(s) \in Nat /\ H(s) \in Nat
  BY SumsType
<1>2. ASSUME Bad # {} PROVE FALSE
  <2>1. Bad \subseteq SUBSET D
    OBVIOUS
  <2>2. PICK s \in Bad : \A x \in s : s \ {x} \notin Bad
    <3> HIDE DEF Bad
    <3> QED
      BY <1>2, <2>1, SmallestSet
  <2>3. s # {}
    <3>1. s = {} => F(s) = 0 /\ G(s) = 0 /\ H(s) = 0
      BY <2>2, SumsStep
    <3> QED
      BY <2>2, <3>1
  <2>4. PICK x \in s : TRUE
    BY <2>3
  <2>5. /\ F(s) = f[x] + F(s \ {x})
        /\ G(s) = g[x] + G(s \ {x})
        /\ H(s) = h[x] + H(s \ {x})
    <3>1. s \in SUBSET D
      BY <2>2
    <3>2. ASSUME NEW k \in [D -> Nat]
          PROVE  Sums(k, D)[s] = k[x] + Sums(k, D)[s \ {x}]
      BY <2>4, <3>1, <3>2, SumsRemove
    <3> QED
      BY <3>2
  <2>6. H(s \ {x}) = F(s \ {x}) + G(s \ {x})
    BY <2>2, <2>4
  <2>7. s \ {x} \in SUBSET D /\ x \in D /\ H(s) # F(s) + G(s)
    BY <2>2, <2>4
  <2>8. f[x] \in Nat /\ g[x] \in Nat /\ h[x] = f[x] + g[x]
    BY <2>7
  <2>9. F(s \ {x}) \in Nat /\ G(s \ {x}) \in Nat
    BY <1>1, <2>7
  <2> HIDE DEF F, G, H
  <2> QED
    BY <2>5, <2>6, <2>7, <2>8, <2>9
<1>3. H(D) = F(D) + G(D)
  BY <1>2
<1> QED
  BY <1>3, SumIsSums

LEMMA SumZero ==
  ASSUME NEW D, IsFiniteSet(D), NEW f \in [D -> Nat], \A x \in D : f[x] = 0
  PROVE  SumFunction(f) = 0
<1>1. SumFunction(f) = SumFunction(f) + SumFunction(f)
  <2>1. \A x \in D : f[x] = f[x] + f[x]
    OBVIOUS
  <2> QED
    BY <2>1, SumAdded
<1>2. SumFunction(f) \in Nat
  BY SumType
<1>3. ASSUME NEW n \in Nat, n = n + n PROVE n = 0
  BY <1>3
<1> QED
  BY <1>1, <1>2, <1>3

\* Counting a subset by ones.
LEMMA SumOfOnes ==
  ASSUME NEW B, IsFiniteSet(B), NEW C
  PROVE  SumFunction([v \in B |-> IF v \in C THEN 1 ELSE 0]) = Cardinality(B \cap C)
<1> DEFINE one(s) == [v \in s |-> IF v \in C THEN 1 ELSE 0]
           Bad == {s \in SUBSET B : SumFunction(one(s)) # Cardinality(s \cap C)}
<1>1. ASSUME Bad # {} PROVE FALSE
  <2>1. PICK s \in Bad : \A x \in s : s \ {x} \notin Bad
    <3>1. Bad \subseteq SUBSET B
      OBVIOUS
    <3> HIDE DEF Bad
    <3> QED
      BY <1>1, <3>1, SmallestSet
  <2>2. /\ s \in SUBSET B /\ IsFiniteSet(s)
        /\ SumFunction(one(s)) # Cardinality(s \cap C)
    BY <2>1, FS_Subset
  <2>3. s # {}
    <3>1. s = {} => DOMAIN one(s) = {} /\ s \cap C = {}
      OBVIOUS
    <3> HIDE DEF one
    <3> QED
      BY <2>2, <3>1, SumEmpty, FS_EmptySet
  <2>4. PICK x \in s : TRUE
    BY <2>3
  <2>5. SumFunction(one(s \ {x})) = Cardinality((s \ {x}) \cap C)
    BY <2>1, <2>2, <2>4
  <2>6. SumFunction(one(s)) = one(s)[x] + SumFunction(one(s \ {x}))
    <3>1. one(s) \in [s -> Nat] /\ [y \in s \ {x} |-> one(s)[y]] = one(s \ {x})
      OBVIOUS
    <3> HIDE DEF one
    <3> QED
      BY <2>2, <2>4, <3>1, SumRemove
  <2>7. IsFiniteSet(s \cap C) /\ IsFiniteSet((s \ {x}) \cap C)
    BY <2>2, FS_Subset
  <2>8. CASE x \in C
    <3>1. one(s)[x] = 1 /\ (s \ {x}) \cap C = (s \cap C) \ {x} /\ x \in s \cap C
      BY <2>4, <2>8
    <3>2. /\ Cardinality((s \cap C) \ {x}) = Cardinality(s \cap C) - 1
          /\ Cardinality(s \cap C) \in Nat
      BY <2>7, <3>1, FS_RemoveElement, FS_CardinalityType
    <3> HIDE DEF one, Bad
    <3>3. SumFunction(one(s)) = 1 + (Cardinality(s \cap C) - 1)
      BY <2>5, <2>6, <3>1, <3>2
    <3> QED
      BY <2>2, <3>2, <3>3
  <2>9. CASE x \notin C
    <3>1. one(s)[x] = 0 /\ (s \ {x}) \cap C = s \cap C
      BY <2>4, <2>9
    <3>2. Cardinality(s \cap C) \in Nat
      BY <2>7, FS_CardinalityType
    <3> HIDE DEF one
    <3> QED
      BY <2>2, <2>5, <2>6, <3>1, <3>2
  <2> QED
    BY <2>8, <2>9
<1> QED
  BY <1>1

\* The pairs of a relation, counted from either side.
LEMMA DoubleCount ==
  ASSUME NEW D, IsFiniteSet(D), NEW B, IsFiniteSet(B), NEW F, NEW G,
         \A q \in D : F[q] \subseteq B, \A v \in B : G[v] \subseteq D,
         \A q \in D, v \in B : v \in F[q] <=> q \in G[v]
  PROVE  SumFunction([q \in D |-> Cardinality(F[q])]) = SumFunction([v \in B |-> Cardinality(G[v])])
<1> DEFINE row(q)    == F[q]
           col(v, s) == G[v] \cap s
           rows(s)   == [q \in s |-> Cardinality(row(q))]
           cols(s)   == [v \in B |-> Cardinality(col(v, s))]
           Bad       == {s \in SUBSET D : SumFunction(rows(s)) # SumFunction(cols(s))}
<1>0. /\ \A q \in D : IsFiniteSet(row(q)) /\ Cardinality(row(q)) \in Nat
      /\ \A s \in SUBSET D : IsFiniteSet(s)
      /\ \A s \in SUBSET D, v \in B : IsFiniteSet(col(v, s)) /\ Cardinality(col(v, s)) \in Nat
  BY FS_Subset, FS_CardinalityType
<1>00. \A s \in SUBSET D : rows(s) \in [s -> Nat] /\ cols(s) \in [B -> Nat]
  <2> HIDE DEF row, col
  <2> QED
    BY <1>0
<1>1. ASSUME Bad # {} PROVE FALSE
  <2>1. PICK s \in Bad : \A x \in s : s \ {x} \notin Bad
    <3>1. Bad \subseteq SUBSET D
      OBVIOUS
    <3> HIDE DEF Bad
    <3> QED
      BY <1>1, <3>1, SmallestSet
  <2>2. s \in SUBSET D /\ SumFunction(rows(s)) # SumFunction(cols(s))
    BY <2>1
  <2>3. s # {}
    <3>1. ASSUME s = {} PROVE DOMAIN rows(s) = {} /\ \A v \in B : cols(s)[v] = 0
      <4>1. \A v \in B : col(v, s) = {}
        BY <3>1
      <4> HIDE DEF col
      <4> QED
        BY <3>1, <4>1, FS_EmptySet
    <3>2. cols(s) \in [B -> Nat]
      BY <1>00, <2>2
    <3> HIDE DEF rows, cols
    <3> QED
      BY <2>2, <3>1, <3>2, SumEmpty, SumZero
  <2>4. PICK x \in s : TRUE
    BY <2>3
  <2> DEFINE less == s \ {x}
             one  == [v \in B |-> IF v \in row(x) THEN 1 ELSE 0]
  <2>5. SumFunction(rows(less)) = SumFunction(cols(less)) /\ less \in SUBSET D
    BY <2>1, <2>2, <2>4
  <2>6. SumFunction(rows(s)) = Cardinality(row(x)) + SumFunction(rows(less))
    <3>1. [y \in s \ {x} |-> rows(s)[y]] = rows(less) /\ rows(s)[x] = Cardinality(row(x))
      BY <2>4
    <3>2. rows(s) \in [s -> Nat] /\ IsFiniteSet(s)
      BY <1>0, <1>00, <2>2
    <3> HIDE DEF rows, row
    <3> QED
      BY <2>4, <3>1, <3>2, SumRemove
  <2>7. SumFunction(cols(s)) = SumFunction(one) + SumFunction(cols(less))
    <3>1. ASSUME NEW v \in B PROVE cols(s)[v] = one[v] + cols(less)[v]
      <4>1. cols(s)[v] = Cardinality(col(v, s)) /\ cols(less)[v] = Cardinality(col(v, less))
        OBVIOUS
      <4>2. /\ IsFiniteSet(col(v, s))
            /\ Cardinality(col(v, s)) \in Nat
        BY <1>0, <2>2
      <4>3. CASE x \in G[v]
        <5>1. col(v, less) = col(v, s) \ {x} /\ x \in col(v, s) /\ one[v] = 1
          BY <2>4, <4>3
        <5>2. Cardinality(col(v, s) \ {x}) = Cardinality(col(v, s)) - 1
          BY <4>2, <5>1, FS_RemoveElement
        <5> HIDE DEF cols, col, one, less, Bad
        <5>3. cols(s)[v] = 1 + (Cardinality(col(v, s)) - 1)
          BY <4>1, <4>2
        <5> QED
          BY <4>1, <5>1, <5>2, <5>3
      <4>4. CASE x \notin G[v]
        <5>1. col(v, less) = col(v, s) /\ one[v] = 0
          BY <2>4, <4>4
        <5> HIDE DEF cols, col, one
        <5> QED
          BY <4>1, <4>2, <5>1
      <4> QED
        BY <4>3, <4>4
    <3>2. cols(s) \in [B -> Nat] /\ cols(less) \in [B -> Nat] /\ one \in [B -> Nat]
      BY <1>00, <2>2, <2>5
    <3> HIDE DEF cols, one, less
    <3> QED
      BY <3>1, <3>2, SumAdded
  <2>8. SumFunction(one) = Cardinality(row(x))
    <3>1. B \cap row(x) = row(x)
      BY <2>2, <2>4
    <3> HIDE DEF row
    <3> QED
      BY <3>1, SumOfOnes
  <2> HIDE DEF rows, cols, one, less, row
  <2> QED
    BY <2>2, <2>5, <2>6, <2>7, <2>8
<1>2. SumFunction(rows(D)) = SumFunction(cols(D))
  BY <1>1
<1>3. \A v \in B : G[v] \cap D = G[v]
  OBVIOUS
<1>4. cols(D) = [v \in B |-> Cardinality(G[v])]
  BY <1>3
<1> QED
  BY <1>2, <1>4

\* The size of a union of disjoint sets.
LEMMA DisjointSum ==
  ASSUME NEW D, IsFiniteSet(D), NEW B, IsFiniteSet(B), NEW F,
         \A q \in D : F[q] \subseteq B,
         \A b \in B : \E q \in D : \A r \in D : b \in F[r] <=> r = q
  PROVE  SumFunction([q \in D |-> Cardinality(F[q])]) = Cardinality(B)
<1> DEFINE G == [b \in B |-> {q \in D : b \in F[q]}]
<1>1. ASSUME NEW b \in B PROVE Cardinality(G[b]) = 1
  <2>1. PICK q \in D : \A r \in D : b \in F[r] <=> r = q
    OBVIOUS
  <2>2. G[b] = {q}
    BY <2>1
  <2> HIDE DEF G
  <2> QED
    BY <2>2, FS_Singleton
<1>2. (\A b \in B : G[b] \subseteq D) /\ \A q \in D, b \in B : b \in F[q] <=> q \in G[b]
  OBVIOUS
<1> HIDE DEF G
<1>3. SumFunction([q \in D |-> Cardinality(F[q])]) = SumFunction([b \in B |-> Cardinality(G[b])])
  BY <1>2, DoubleCount
<1>4. [b \in B |-> Cardinality(G[b])] = [b \in B |-> IF b \in B THEN 1 ELSE 0] /\ B \cap B = B
  BY <1>1
<1> QED
  BY <1>3, <1>4, SumOfOnes

-----------------------------------------------------------------------------
(* The floats: what a sum with a float is before and after it is rounded.  *)

LEMMA MoreTimesMore ==
  ASSUME NEW x \in Int, NEW y \in Int, NEW d \in Nat, x <= y
  PROVE  x * d <= y * d
<1>1. PICK z \in Nat : y = x + z
  <2>1. y - x \in Nat /\ y = x + (y - x)
    OBVIOUS
  <2> QED
    BY <2>1
<1>2. y * d = x * d + z * d
  BY <1>1
<1>3. z * d \in Nat /\ x * d \in Int
  OBVIOUS
<1> QED
  BY <1>2, <1>3

LEMMA LessTimes ==
  ASSUME NEW x \in Int, NEW y \in Int, NEW d \in Nat \ {0}, x * d < y * d
  PROVE  x < y
<1>1. ASSUME y <= x PROVE FALSE
  <2>1. y * d <= x * d
    BY <1>1, MoreTimesMore
  <2>2. x * d \in Int /\ y * d \in Int
    OBVIOUS
  <2> QED
    BY <2>1, <2>2
<1> QED
  BY <1>1

\* A quotient is between what its numerator is between.
LEMMA QuotientIs ==
  ASSUME NEW n \in Nat, NEW d \in Nat \ {0}
  PROVE  /\ n \div d \in Nat /\ n % d \in 0 .. d - 1
         /\ n = d * (n \div d) + (n % d)
         /\ \A m \in Nat : m * d <= n => m <= n \div d
         /\ \A m \in Nat : n < m * d => n \div d < m
<1> DEFINE q == n \div d
           r == n % d
<1>1. q \in Int /\ r \in 0 .. d - 1 /\ n = d * q + r
  OBVIOUS
<1> HIDE DEF q, r
<1>2. r \in Int /\ 0 <= r /\ r < d /\ d * q = q * d /\ q * d \in Int
  BY <1>1
<1>3. \A m \in Nat : m * d \in Int
  OBVIOUS
<1>4. \A m \in Nat : (m + 0) * d = m * d /\ (q + 1) * d = q * d + d
  BY <1>1
<1>5. ASSUME NEW m \in Nat, m * d <= n PROVE m <= q
  <2>1. m * d < (q + 1) * d
    BY <1>1, <1>2, <1>3, <1>4, <1>5
  <2>2. m < q + 1
    BY <1>1, <2>1, LessTimes
  <2> QED
    BY <1>1, <2>2
<1>6. ASSUME NEW m \in Nat, n < m * d PROVE q < m
  <2>1. q * d < m * d
    BY <1>1, <1>2, <1>3, <1>6
  <2> QED
    BY <1>1, <2>1, LessTimes
<1>7. q \in Nat
  <2>1. 0 * d <= n
    OBVIOUS
  <2>2. 0 <= q
    BY <1>5, <2>1
  <2> QED
    BY <1>1, <2>2
<1> QED
  BY <1>1, <1>5, <1>6, <1>7 DEF q, r

LEMMA RoundedType ==
  ASSUME NEW n \in Nat, NEW d \in Nat \ {0}
  PROVE  /\ Rounded(n, d) \in Nat
         /\ n \div d <= Rounded(n, d) /\ Rounded(n, d) <= n \div d + 1
<1>1. n \div d \in Nat
  BY QuotientIs
<1> QED
  BY <1>1 DEF Rounded

LEMMA ScaleType ==
  /\ \A k \in Scales : k \in Nat \ {0} /\ k <= MaxScale
  /\ 1 \in Scales
  BY FloatAssumption DEF Scales

\* Half a power of two is one.
LEMMA HalfScale ==
  ASSUME NEW s \in Scales, s # 1
  PROVE  \E h \in Scales : s = 2 * h
<1>1. s \in Nat /\ s >= 2 /\ s <= MaxScale /\ MaxScale \in Nat
  BY ScaleType, FloatAssumption
<1>2. s % s = 0
  BY <1>1
<1>3. s % 2 = 0
  BY <1>1, <1>2 DEF Scales
<1> DEFINE h == s \div 2
<1>4. h \in Nat /\ h >= 1 /\ s = 2 * h /\ h <= MaxScale
  BY <1>1, <1>3
<1> HIDE DEF h
<1>5. ASSUME NEW m \in 2 .. h, h % m = 0 PROVE m % 2 = 0
  <2>1. m \in Nat \ {0} /\ m \in 2 .. s
    BY <1>4
  <2>2. h \div m \in Nat /\ h = m * (h \div m) + (h % m)
    BY <1>4, <2>1, QuotientIs
  <2>3. PICK j \in Nat : h = m * j
    <3>1. PICK j \in Nat : h = m * j + (h % m)
      BY <2>2
    <3>2. m * j \in Nat
      BY <2>1
    <3>3. h = m * j + 0
      BY <1>5, <3>1
    <3>4. h = m * j
      BY <3>2, <3>3
    <3> QED
      BY <3>4
  <2>4. s = m * (2 * j)
    BY <1>4, <2>1, <2>3
  <2>5. s % m = 0
    <3> DEFINE q == s \div m
               r == s % m
    <3>1. q \in Nat /\ r \in 0 .. m - 1 /\ s = m * q + r
      BY <1>1, <2>1, QuotientIs
    <3>2. (2 * j) * m <= s => 2 * j <= q
      <4> DEFINE c == 2 * j
      <4>1. c \in Nat
        OBVIOUS
      <4> HIDE DEF c
      <4>2. c * m <= s => c <= q
        BY <1>1, <2>1, <4>1, QuotientIs
      <4> QED
        BY <4>2 DEF c
    <3>3. (2 * j) * m = m * (2 * j) /\ m * (2 * j) \in Nat /\ 2 * j \in Nat /\ m \in Nat
      BY <2>1
    <3> HIDE DEF q, r
    <3>4. 2 * j <= q
      BY <1>1, <2>4, <3>2, <3>3
    <3>5. (2 * j) * m <= q * m /\ q * m = m * q /\ m * q \in Nat
      BY <3>1, <3>3, <3>4, MoreTimesMore
    <3>6. r = 0
      BY <1>1, <2>4, <3>1, <3>3, <3>5
    <3> QED
      BY <3>6 DEF r
  <2> QED
    BY <2>1, <2>5 DEF Scales
<1>6. h \in Scales
  BY <1>1, <1>4, <1>5, FloatAssumption DEF Scales
<1> QED
  BY <1>4, <1>6

LEMMA LeastIs ==
  ASSUME NEW S, S \subseteq Nat, S # {}
  PROVE  Min(S) \in S /\ \A m \in S : Min(S) <= m
<1>1. \E n \in S : \A m \in S : n <= m
  BY LeastNumber
<1> QED
  BY <1>1 DEF Min

LEMMA GreatestIs ==
  ASSUME NEW S, S \subseteq Nat, S # {}, NEW b \in Nat, \A m \in S : m <= b
  PROVE  Max(S) \in S /\ \A m \in S : Max(S) >= m
<1> DEFINE T == {b - m : m \in S}
<1>0. \A m \in S : m \in Nat
  OBVIOUS
<1>1. T \subseteq Nat /\ T # {}
  <2>1. \A m \in S : b - m \in Nat
    BY <1>0
  <2> QED
    BY <2>1
<1>2. PICK n \in T : \A m \in T : n <= m
  <2> HIDE DEF T
  <2> QED
    BY <1>1, LeastNumber
<1>3. PICK x \in S : n = b - x
  BY <1>2
<1>4. ASSUME NEW m \in S PROVE x >= m
  <2>1. n <= b - m
    BY <1>2
  <2> QED
    BY <1>0, <1>3, <2>1
<1> HIDE DEF T
<1> QED
  BY <1>4 DEF Max

LEMMA FractionType ==
  ASSUME NEW n \in Nat, NEW d \in Nat \ {0}, n < d * FloatLimit
  PROVE  Fraction(n, d) \in Nat \ {0}
<1> DEFINE S == {k \in Scales : n * k < d * FloatLimit}
<1>1. S \subseteq Nat /\ MaxScale \in Nat /\ \A m \in S : m <= MaxScale
  BY ScaleType, FloatAssumption
<1>2. 1 \in S
  BY ScaleType
<1>3. Max(S) \in S
  <2> HIDE DEF S
  <2> QED
    BY <1>1, <1>2, GreatestIs
<1> QED
  BY <1>3, ScaleType DEF Fraction

LEMMA UnitType ==
  ASSUME NEW n \in Nat, NEW d \in Nat \ {0}
  PROVE  /\ Unit(n, d) \in Scales
         /\ \A s \in Scales : s < Unit(n, d) => ~(n < d * s * FloatLimit)
<1> DEFINE S == {s \in Scales : n < d * s * FloatLimit} \cup {MaxScale}
<1>1. S \subseteq Nat /\ S \subseteq Scales
  BY ScaleType, FloatAssumption
<1>2. Min(S) \in S /\ \A m \in S : Min(S) <= m
  <2>1. S # {}
    OBVIOUS
  <2> HIDE DEF S
  <2> QED
    BY <1>1, <2>1, LeastIs
<1>3. ASSUME NEW s \in Scales, s < Min(S), n < d * s * FloatLimit PROVE FALSE
  <2>1. s \in S
    BY <1>3
  <2>2. Min(S) <= s
    BY <1>2, <2>1
  <2>3. s \in Nat /\ Min(S) \in Nat
    BY <1>1, <1>2, <2>1
  <2> HIDE DEF S
  <2> QED
    BY <1>3, <2>2, <2>3
<1>4. Unit(n, d) = Min(S)
  BY DEF Unit
<1> HIDE DEF S
<1> QED
  BY <1>1, <1>2, <1>3, <1>4

\* A float is a fraction.
IsFloat(x) == x = <<x[1], x[2]>> /\ x[1] \in Nat /\ x[2] \in Nat \ {0}

LEMMA PairIsFloat ==
  ASSUME NEW a \in Nat, NEW b \in Nat \ {0}
  PROVE  IsFloat(<<a, b>>)
  BY DEF IsFloat

LEMMA FloatIs ==
  ASSUME NEW n \in Nat, NEW d \in Nat \ {0}
  PROVE  Float[<<n, d>>] = Nearest(n, d)
  BY DEF Float

LEMMA FloatType ==
  ASSUME NEW n \in Nat, NEW d \in Nat \ {0}
  PROVE  IsFloat(Float[<<n, d>>])
<1>1. CASE n < d * FloatLimit
  <2>1. Fraction(n, d) \in Nat \ {0}
    BY <1>1, FractionType
  <2>2. n * Fraction(n, d) \in Nat
    BY <2>1
  <2>3. Rounded(n * Fraction(n, d), d) \in Nat
    BY <2>2, RoundedType
  <2>4. Float[<<n, d>>] = <<Rounded(n * Fraction(n, d), d), Fraction(n, d)>>
    BY <1>1, FloatIs DEF Nearest
  <2> QED
    BY <2>1, <2>3, <2>4, PairIsFloat
<1>2. CASE ~(n < d * FloatLimit)
  <2>1. Unit(n, d) \in Nat \ {0}
    BY UnitType, ScaleType
  <2>2. d * Unit(n, d) \in Nat \ {0}
    BY <2>1
  <2>3. Rounded(n, d * Unit(n, d)) \in Nat
    BY <2>2, RoundedType
  <2>4. Rounded(n, d * Unit(n, d)) * Unit(n, d) \in Nat
    BY <2>1, <2>3
  <2>5. Float[<<n, d>>] = <<Rounded(n, d * Unit(n, d)) * Unit(n, d), 1>>
    BY <1>2, FloatIs DEF Nearest
  <2> QED
    BY <2>4, <2>5, PairIsFloat
<1> QED
  BY <1>1, <1>2

\* An integer below the limit is a float.
LEMMA SmallFloat ==
  ASSUME NEW n \in Nat, n < FloatLimit
  PROVE  \E k \in Nat \ {0} : Whole(n) = <<n * k, k>>
<1>1. n < 1 * FloatLimit
  BY FloatAssumption
<1> DEFINE k == Fraction(n, 1)
<1>2. k \in Nat \ {0}
  BY <1>1, FractionType
<1>3. Whole(n) = <<Rounded(n * k, 1), k>>
  <2>1. Float[<<n, 1>>] = Nearest(n, 1)
    BY FloatIs
  <2> QED
    BY <1>1, <2>1 DEF Nearest, Whole
<1> HIDE DEF k
<1>4. n * k \in Nat
  BY <1>2
<1>5. Rounded(n * k, 1) = n * k
  BY <1>4 DEF Rounded, RoundsDown
<1> QED
  BY <1>2, <1>3, <1>5

\* A positive integer does not round to nothing.
LEMMA FloatPositive ==
  ASSUME NEW n \in Nat \ {0}
  PROVE  Whole(n)[1] \in Nat \ {0}
<1>1. CASE n < FloatLimit
  <2>1. PICK k \in Nat \ {0} : Whole(n) = <<n * k, k>>
    BY <1>1, SmallFloat
  <2>2. n * k \in Nat \ {0}
    OBVIOUS
  <2> QED
    BY <2>1, <2>2
<1>2. CASE ~(n < FloatLimit)
  <2> DEFINE u == Unit(n, 1)
  <2>1. u \in Scales /\ u \in Nat \ {0}
    BY UnitType, ScaleType
  <2>2. \A s \in Scales : s < u => ~(n < 1 * s * FloatLimit)
    BY UnitType
  <2> HIDE DEF u
  <2>3. u <= n
    <3>1. CASE u = 1
      BY <3>1
    <3>2. CASE u # 1
      <4>1. PICK h \in Scales : u = 2 * h
        BY <2>1, <3>2, HalfScale
      <4>2. h \in Nat \ {0}
        BY ScaleType
      <4>3. h < u
        BY <4>1, <4>2
      <4>4. ~(n < h * FloatLimit)
        BY <2>2, <4>2, <4>3, FloatAssumption
      <4>5. 2 <= FloatLimit /\ FloatLimit \in Nat /\ h * FloatLimit \in Nat
        BY <4>2, FloatAssumption
      <4>6. 2 * h <= FloatLimit * h
        BY <4>2, <4>5, MoreTimesMore
      <4>7. FloatLimit * h = h * FloatLimit
        BY <4>2, <4>5
      <4> QED
        BY <2>1, <4>1, <4>2, <4>4, <4>5, <4>6, <4>7
    <3> QED
      BY <3>1, <3>2
  <2>4. 1 * u <= n /\ n \in Nat /\ 1 \in Nat
    BY <2>1, <2>3
  <2>5. 1 <= n \div u /\ n \div u \in Nat
    BY <2>1, <2>4, QuotientIs
  <2>6. Rounded(n, u) \in Nat \ {0}
    <3>1. Rounded(n, u) \in Nat /\ n \div u <= Rounded(n, u)
      BY <2>1, <2>4, RoundedType
    <3> QED
      BY <2>5, <3>1
  <2>7. Rounded(n, u) * u \in Nat \ {0}
    BY <2>1, <2>6
  <2>8. Whole(n) = <<Rounded(n, 1 * u) * u, 1>>
    <3>1. n \in Nat /\ 1 \in Nat \ {0} /\ ~(n < 1 * FloatLimit)
      BY <1>2, FloatAssumption
    <3> QED
      BY <3>1, FloatIs DEF u, Nearest, Whole
  <2>9. 1 * u = u
    BY <2>1
  <2> QED
    BY <2>7, <2>8, <2>9
<1> QED
  BY <1>1, <1>2

LEMMA SumOfFloats ==
  ASSUME NEW x, IsFloat(x), NEW acc \in Nat
  PROVE  Increased(acc, x) \in Nat
<1> DEFINE a == Whole(acc)
           n == a[1] * x[2] + x[1] * a[2]
           d == a[2] * x[2]
<1>1. IsFloat(a)
  BY FloatType DEF Whole
<1> HIDE DEF a
<1>2. n \in Nat /\ d \in Nat \ {0}
  BY <1>1 DEF IsFloat
<1>4. Increased(acc, x) = Truncated(Float[<<n, d>>])
  BY DEF Increased, FloatSum, a
<1> HIDE DEF n, d
<1>3. IsFloat(Float[<<n, d>>])
  BY <1>2, FloatType
<1>5. PICK b \in Nat, c \in Nat \ {0} : Float[<<n, d>>] = <<b, c>>
  BY <1>3 DEF IsFloat
<1>6. b \div c \in Nat
  BY QuotientIs
<1> QED
  BY <1>4, <1>5, <1>6 DEF Truncated

\* `acc += x', of an accumulator that counts by ones: the sum is what it
\* would be without rounding, or the next integer.
LEMMA IncreasedIs ==
  ASSUME NEW x, IsFloat(x), NEW acc \in Nat, acc + Truncated(x) < FloatLimit
  PROVE  Increased(acc, x) \in acc + Truncated(x) .. acc + Truncated(x) + 1
<1> DEFINE A == acc + Truncated(x)
           r == x[1] % x[2]
           t == Truncated(x)
<1>1. x[1] \in Nat /\ x[2] \in Nat \ {0}
  BY DEF IsFloat
<1>2. t \in Nat /\ r \in 0 .. x[2] - 1 /\ x[1] = x[2] * t + r
  BY <1>1, QuotientIs DEF Truncated
<1>3. acc < FloatLimit /\ A \in Nat /\ A = acc + t
  BY <1>2, FloatAssumption
<1>4. PICK k \in Nat \ {0} : Whole(acc) = <<acc * k, k>>
  BY <1>3, SmallFloat
<1> DEFINE n == acc * k * x[2] + x[1] * k
           d == k * x[2]
<1>5. Increased(acc, x) = Truncated(Float[<<n, d>>])
  BY <1>4 DEF Increased, FloatSum
<1>6. PICK b \in Nat \ {0} : b = x[2]
  BY <1>1
<1>7. r \in Nat /\ r < b
  BY <1>2, <1>6
<1> HIDE DEF t, r, A
<1>8. d \in Nat \ {0} /\ n = A * d + r * k
  <2>1. n = acc * k * b + (b * t + r) * k /\ d = k * b
    BY <1>2, <1>6
  <2>2. acc * k * b + (b * t + r) * k = (acc + t) * (k * b) + r * k
    BY <1>2, <1>7
  <2>3. k * b \in Nat \ {0}
    OBVIOUS
  <2> QED
    BY <1>3, <2>1, <2>2, <2>3
<1>9. r * k \in Nat /\ r * k < d
  <2>1. (r + 1) * k <= b * k
    BY <1>7, MoreTimesMore
  <2>2. (r + 1) * k = r * k + k /\ b * k = k * b /\ r * k \in Nat
    BY <1>7
  <2>3. d = k * b
    BY <1>6
  <2> HIDE DEF d
  <2> QED
    BY <1>8, <2>1, <2>2, <2>3
<1> HIDE DEF n, d
<1>10. A * d \in Nat /\ n \in Nat /\ A * d <= n /\ n < (A + 1) * d
  <2>1. A * d \in Nat
    BY <1>3, <1>8
  <2>2. (A + 1) * d = A * d + d
    BY <1>3, <1>8
  <2> HIDE DEF A
  <2> QED
    BY <1>8, <1>9, <2>1, <2>2
<1>11. n < d * FloatLimit
  <2>1. A + 1 <= FloatLimit /\ FloatLimit \in Nat
    BY <1>3, FloatAssumption DEF A
  <2>2. (A + 1) * d <= FloatLimit * d
    BY <1>3, <1>8, <2>1, MoreTimesMore
  <2>3. FloatLimit * d = d * FloatLimit /\ d * FloatLimit \in Nat /\ (A + 1) * d \in Nat
    BY <1>3, <1>8, <2>1
  <2> QED
    BY <1>10, <2>2, <2>3
<1> DEFINE f == Fraction(n, d)
           R == Rounded(n * f, d)
<1>12. f \in Nat \ {0}
  BY <1>8, <1>10, <1>11, FractionType
<1>13. Float[<<n, d>>] = <<R, f>>
  BY <1>8, <1>10, <1>11, FloatIs DEF Nearest
<1> HIDE DEF f
<1>14. A * f \in Nat /\ (A + 1) * f \in Nat /\ n * f \in Nat
  BY <1>3, <1>10, <1>12
<1> DEFINE m == n * f
<1>15. A * f <= m \div d /\ m \div d < (A + 1) * f
  <2>1. (A * d) * f <= m
    BY <1>10, <1>12, MoreTimesMore
  <2>2. m < ((A + 1) * d) * f
    <3>1. n + 1 <= (A + 1) * d /\ (A + 1) * d \in Int
      BY <1>3, <1>8, <1>10
    <3>2. (n + 1) * f <= ((A + 1) * d) * f
      BY <1>10, <1>12, <3>1, MoreTimesMore
    <3>3. (n + 1) * f = n * f + f /\ ((A + 1) * d) * f \in Int
      BY <1>10, <1>12, <3>1
    <3> QED
      BY <1>12, <1>14, <3>2, <3>3
  <2>3. (A * d) * f = (A * f) * d /\ ((A + 1) * d) * f = ((A + 1) * f) * d
    BY <1>3, <1>8, <1>12
  <2>4. m \in Nat
    BY <1>14
  <2> HIDE DEF m
  <2>5. (A * f) * d <= m => A * f <= m \div d
    BY <1>8, <1>14, <2>4, QuotientIs
  <2>6. m < ((A + 1) * f) * d => m \div d < (A + 1) * f
    BY <1>8, <1>14, <2>4, QuotientIs
  <2> QED
    BY <2>1, <2>2, <2>3, <2>5, <2>6
<1>16. R \in Nat /\ A * f <= R /\ R <= (A + 1) * f
  <2>1. m \in Nat /\ R = Rounded(m, d)
    BY <1>14
  <2> HIDE DEF R, m
  <2>2. m \div d \in Nat
    BY <1>8, <2>1, QuotientIs
  <2>3. R \in Nat /\ m \div d <= R /\ R <= m \div d + 1
    BY <1>8, <2>1, RoundedType
  <2> QED
    BY <1>14, <1>15, <2>2, <2>3
<1> HIDE DEF R
<1>17. A <= R \div f /\ R \div f \in Nat
  BY <1>3, <1>12, <1>16, QuotientIs
<1>18. R \div f < A + 2
  <2>1. R < (A + 2) * f
    <3>1. (A + 2) * f = (A + 1) * f + f
      BY <1>3, <1>12
    <3> QED
      BY <1>12, <1>14, <1>16, <3>1
  <2>2. A + 2 \in Nat
    BY <1>3
  <2> QED
    BY <1>12, <1>16, <2>1, <2>2, QuotientIs
<1>19. Increased(acc, x) = R \div f
  BY <1>5, <1>13 DEF Truncated
<1> QED
  BY <1>3, <1>17, <1>18, <1>19 DEF A

\* What the edges of a vertex of low degree weigh is a float.
LEMMA ShareType ==
  ASSUME NEW degree \in 1 .. Threshold
  PROVE  IsFloat(Share[degree])
<1> DEFINE v == Whole(TotVerts)
           e == Whole(TotEdges)
           g == Whole(degree)
           x == FloatProduct(g, v)
<1>1. IsFloat(v) /\ IsFloat(e) /\ IsFloat(g)
  <2>1. degree \in Nat /\ TotVerts \in Nat /\ TotEdges \in Nat /\ 1 \in Nat \ {0}
    BY GingerAssumption
  <2> QED
    BY <2>1, FloatType DEF Whole
<1>2. e[1] \in Nat \ {0}
  BY GingerAssumption, FloatPositive
<1>3. Share[degree] = FloatQuotient(x, e)
  BY DEF Share
<1> HIDE DEF v, e, g
<1>4. g[1] * v[1] \in Nat /\ g[2] * v[2] \in Nat \ {0}
  BY <1>1 DEF IsFloat
<1>5. IsFloat(x)
  BY <1>4, FloatType DEF FloatProduct
<1> HIDE DEF x
<1>6. x[1] * e[2] \in Nat /\ x[2] * e[1] \in Nat \ {0}
  BY <1>1, <1>2, <1>5 DEF IsFloat
<1> QED
  BY <1>3, <1>6, FloatType DEF FloatQuotient

\* Whatever the balance, it stays a number; while it counts by ones, it grows
\* by the weight of the vertex and its edges, or by one more.
LEMMA WeighedIs ==
  ASSUME NEW balance \in Nat, NEW degree \in 1 .. Threshold
  PROVE  /\ Weight(degree) \in Nat
         /\ Weighed(balance, degree) \in Nat
         /\ balance + Weight(degree) < FloatLimit =>
              Weighed(balance, degree)
                \in balance + Weight(degree) .. balance + Weight(degree) + 1
<1> DEFINE x   == Share[degree]
           acc == balance + 1
           t   == Truncated(x)
<1>1. IsFloat(x) /\ acc \in Nat
  BY ShareType
<1>2. /\ Weight(degree) = 1 + t
      /\ Weighed(balance, degree) = Increased(acc, x)
  BY DEF Weight, Weighed
<1> HIDE DEF x
<1>3. t \in Nat
  BY <1>1, QuotientIs DEF IsFloat, Truncated
<1>4. acc + t = balance + (1 + t)
  BY <1>3
<1> HIDE DEF acc, t
<1>5. Increased(acc, x) \in Nat
  BY <1>1, SumOfFloats
<1>6. acc + t < FloatLimit => Increased(acc, x) \in acc + t .. acc + t + 1
  BY <1>1, IncreasedIs DEF t
<1> QED
  BY <1>2, <1>3, <1>4, <1>5, <1>6

-----------------------------------------------------------------------------
(* What is computed from sums and scores.                                  *)

\* Of finitely many numbers one is the largest, and of several the first.
LEMMA FirstBest ==
  ASSUME NEW n \in Nat \ {0}, NEW s \in [0 .. n - 1 -> Int]
  PROVE  \E q \in 0 .. n - 1 : \A r \in 0 .. n - 1 :
            s[r] <= s[q] /\ (r < q => s[r] < s[q])
<1> DEFINE Best(k) == \E q \in 0 .. k : \A r \in 0 .. k :
                         s[r] <= s[q] /\ (r < q => s[r] < s[q])
           T == {k \in 0 .. n - 1 : ~ Best(k)}
<1>1. ASSUME T # {} PROVE FALSE
  <2>1. T \subseteq Nat
    OBVIOUS
  <2>2. PICK k \in T : \A m \in T : k <= m
    <3> HIDE DEF T
    <3> QED
      BY <1>1, <2>1, LeastNumber
  <2>3. k \in 0 .. n - 1 /\ ~ Best(k)
    BY <2>2
  <2>4. k # 0
    BY <2>3
  <2>5. k - 1 \in 0 .. n - 1 /\ ~(k <= k - 1)
    BY <2>3, <2>4
  <2>6. PICK q \in 0 .. k - 1 : \A r \in 0 .. k - 1 :
           s[r] <= s[q] /\ (r < q => s[r] < s[q])
    <3>1. k - 1 \notin T
      <4> HIDE DEF T
      <4> QED
        BY <2>2, <2>5
    <3> QED
      BY <2>5, <3>1
  <2>7. \A r \in 0 .. k : r \in 0 .. k - 1 \/ r = k
    BY <2>3
  <2>8. q \in 0 .. n - 1 /\ \A r \in 0 .. k : s[r] \in Int
    BY <2>3, <2>6
  <2>9. CASE s[k] <= s[q]
    <3>1. \A r \in 0 .. k : s[r] <= s[q] /\ (r < q => s[r] < s[q])
      BY <2>3, <2>6, <2>7, <2>9
    <3> QED
      BY <2>3, <3>1
  <2>10. CASE ~(s[k] <= s[q])
    <3>1. s[q] < s[k]
      BY <2>3, <2>8, <2>10
    <3>2. \A r \in 0 .. k : s[r] <= s[k] /\ (r < k => s[r] < s[k])
      BY <2>3, <2>6, <2>7, <2>8, <3>1
    <3> QED
      BY <2>3, <3>2
  <2> QED
    BY <2>9, <2>10
<1>2. Best(n - 1)
  <2>1. n - 1 \in 0 .. n - 1
    OBVIOUS
  <2> HIDE DEF Best
  <2> QED
    BY <1>1, <2>1
<1> QED
  BY <1>2

\* The scores ginger_to_proc compares are numbers.
ScoresAreNumbers == \A degree, balance \in Nat : Score(degree, balance) \in Int

LEMMA Cluster ==
  ASSUME nprocs \in ClusterSizes
  PROVE  /\ nprocs \in Nat \ {0}
         /\ IsFiniteSet(Proc)
         /\ \A v \in VertexId : Hash(v) \in Proc
         /\ NoProc \notin Proc
<1>1. nprocs \in Nat \ {0}
  BY GingerAssumption
<1>2. IsFiniteSet(Proc)
  BY <1>1, FS_Interval DEF Proc
<1>3. \A v \in VertexId : Hash(v) \in Proc
  BY <1>1, GingerAssumption DEF Hash, Proc
<1> QED
  BY <1>1, <1>2, <1>3 DEF Proc, NoProc

\* ginger_to_proc names a process.
LEMMA GingerNamesAProcess ==
  ASSUME ScoresAreNumbers, nprocs \in ClusterSizes, NEW p \in Proc,
         NEW recs, IsFiniteSet(recs), proc_balance[p] \in [Proc -> Nat]
  PROVE  GingerToProc(p, recs) \in Proc
<1> DEFINE degree(q) == Cardinality({e \in recs : mht[p][e.source] = q})
           score(q)  == Score(degree(q), proc_balance[p][q])
           s         == [q \in 0 .. nprocs - 1 |-> score(q)]
<1>1. ASSUME NEW q \in Proc PROVE score(q) \in Int
  <2>1. degree(q) \in Nat
    BY FS_Subset, FS_CardinalityType
  <2>2. proc_balance[p][q] \in Nat
    OBVIOUS
  <2> HIDE DEF degree
  <2> QED
    BY <2>1, <2>2 DEF ScoresAreNumbers
<1>2. nprocs \in Nat \ {0} /\ s \in [0 .. nprocs - 1 -> Int]
  <2>1. \A q \in 0 .. nprocs - 1 : score(q) \in Int
    BY <1>1 DEF Proc
  <2> HIDE DEF score
  <2> QED
    BY <2>1, Cluster
<1>3. \E q \in 0 .. nprocs - 1 : \A r \in 0 .. nprocs - 1 :
         s[r] <= s[q] /\ (r < q => s[r] < s[q])
  <2> HIDE DEF s
  <2> QED
    BY <1>2, FirstBest
<1>4. \E q \in Proc : \A r \in Proc : /\ score(r) <= score(q)
                                      /\ r < q => score(r) < score(q)
  <2> HIDE DEF score
  <2> QED
    BY <1>3 DEF Proc
<1>5. GingerToProc(p, recs) =
         CHOOSE q \in Proc : \A r \in Proc : /\ score(r) <= score(q)
                                             /\ r < q => score(r) < score(q)
  BY DEF GingerToProc
<1> HIDE DEF score
<1> QED
  BY <1>4, <1>5

LEMMA TotalType ==
  ASSUME NEW incrs \in Seq([Proc -> Nat])
  PROVE  Total(incrs) \in [Proc -> Nat]
<1>1. ASSUME NEW q \in Proc
      PROVE  SumFunction([i \in DOMAIN incrs |-> incrs[i][q]]) \in Nat
  <2>1. IsFiniteSet(DOMAIN incrs)
    BY FS_Interval
  <2>2. [i \in DOMAIN incrs |-> incrs[i][q]] \in [DOMAIN incrs -> Nat]
    OBVIOUS
  <2> QED
    BY <2>1, <2>2, SumType
<1> QED
  BY <1>1 DEF Total

LEMMA TotalNone ==
  ASSUME NEW q \in Proc
  PROVE  Total(<<>>)[q] = 0
<1>1. Total(<<>>)[q] = SumFunction([i \in DOMAIN <<>> |-> <<>>[i][q]])
  BY DEF Total
<1>2. DOMAIN [i \in DOMAIN <<>> |-> <<>>[i][q]] = {}
  OBVIOUS
<1> QED
  BY <1>1, <1>2, SumEmpty

LEMMA TotalAppend ==
  ASSUME NEW incrs \in Seq([Proc -> Nat]), NEW incr \in [Proc -> Nat], NEW q \in Proc
  PROVE  Total(Append(incrs, incr))[q] = Total(incrs)[q] + incr[q]
<1> DEFINE more == Append(incrs, incr)
           n    == Len(incrs)
           f    == [i \in DOMAIN more |-> more[i][q]]
           g    == [i \in DOMAIN incrs |-> incrs[i][q]]
<1>1. /\ n \in Nat /\ DOMAIN incrs = 1 .. n /\ DOMAIN more = 1 .. n + 1
      /\ more[n + 1] = incr /\ \A i \in 1 .. n : more[i] = incrs[i]
      /\ more \in Seq([Proc -> Nat])
  OBVIOUS
<1>2. Total(more)[q] = SumFunction(f) /\ Total(incrs)[q] = SumFunction(g)
  BY DEF Total
<1>3. f \in [1 .. n + 1 -> Nat] /\ IsFiniteSet(1 .. n + 1) /\ n + 1 \in 1 .. n + 1
  <2>1. \A i \in 1 .. n + 1 : more[i] \in [Proc -> Nat]
    BY <1>1
  <2>2. n + 1 \in 1 .. n + 1 /\ IsFiniteSet(1 .. n + 1)
    BY <1>1, FS_Interval
  <2> HIDE DEF more, n
  <2> QED
    BY <1>1, <2>1, <2>2
<1>4. f[n + 1] = incr[q]
  BY <1>1
<1>5. [i \in (1 .. n + 1) \ {n + 1} |-> f[i]] = g
  <2>1. (1 .. n + 1) \ {n + 1} = 1 .. n
    BY <1>1
  <2>2. \A i \in 1 .. n : f[i] = g[i]
    BY <1>1
  <2>3. g = [i \in 1 .. n |-> g[i]]
    BY <1>1
  <2> HIDE DEF f, g
  <2> QED
    BY <2>1, <2>2, <2>3
<1>6. SumFunction(f) = f[n + 1] + SumFunction([i \in (1 .. n + 1) \ {n + 1} |-> f[i]])
  <2> HIDE DEF f
  <2> QED
    BY <1>3, SumRemove
<1>7. SumFunction(g) \in Nat /\ incr[q] \in Nat
  BY <1>2, TotalType
<1>8. Total(more)[q] = incr[q] + Total(incrs)[q]
  <2> HIDE DEF f, g, more
  <2> QED
    BY <1>2, <1>4, <1>5, <1>6
<1> HIDE DEF f, g
<1> QED
  BY <1>2, <1>7, <1>8

-----------------------------------------------------------------------------
(* The types.                                                              *)

\* TypeOK, a group of variables at a time; who waits to begin a finalization has
\* one left.
ControlTypes ==
    /\ nprocs \in ClusterSizes
    /\ pc \in [Proc -> {"load", "flush", "alone", "collect", "assign", "sync", "mht_recv", "place",
                        "receive_high", "build", "vertices", "handshake", "sync_meta",
                        "degree_type", "gather_counts"} \cup DOMAIN After]
    /\ round \in 0 .. MaxRounds
    /\ \A p \in Proc : pc[p] = "flush" => round < MaxRounds
EdgeTypes ==
    /\ edges_added \subseteq Edge
    /\ hybrid_edge_exchange \in [Proc -> SUBSET edges_added]
    /\ high_edge_exchange \in [Proc -> SUBSET edges_added]
    /\ low_edge_exchange \in [Proc -> SUBSET edges_added]
    /\ raw_map \in [Proc -> SUBSET edges_added]
    /\ hybrid_edges \in [Proc -> SUBSET edges_added]
    /\ local_edges \in [Proc -> SUBSET edges_added]
VertexTypes ==
    /\ vertices_added \subseteq VertexRec
    /\ hybrid_vertex_exchange \in [Proc -> SUBSET vertices_added]
    /\ resend_vertex_exchange \in [Proc -> SUBSET vertices_added]
MasterTypes ==
    /\ mht_exchange \in [Proc -> SUBSET MasterPair]
    /\ mht \in [Proc -> [VertexId -> MaybeProc]]
ScoreTypes ==
    /\ \A c \in Proc \X Proc : proc_score_exchange[c] \in Seq([Proc -> Nat])
    /\ proc_balance \in [Proc -> [Proc -> Nat]]
    /\ proc_score_incr \in [Proc -> [Proc -> Nat]]
    /\ placed \in [Proc -> [targets : Nat, weight : Nat]]
    /\ vcount \in [Proc -> Nat]
GraphTypes ==
    /\ vid_buffer \in [Proc -> SUBSET [vid : VertexId, mirror : Proc]]
    /\ local_data \in [Proc -> [VertexId -> 0 .. MaxVertices]]
    /\ vid2lvid \in [Proc -> SUBSET VertexId]
    /\ vid2lvid_buffer \in [Proc -> SUBSET VertexId]
    /\ lvid2record \in [Proc -> [VertexId -> Record]]
    /\ counts \in [Proc -> [DOMAIN NoCounts -> Nat]]
    /\ \A p \in Proc : \A v \in vid2lvid[p] : lvid2record[p][v].owner \in Proc

Types == ControlTypes /\ EdgeTypes /\ VertexTypes /\ MasterTypes /\ ScoreTypes /\ GraphTypes

LEMMA TypesAreTypeOK == Types => TypeOK
  BY DEF TypeOK, Types, ControlTypes, EdgeTypes, VertexTypes, MasterTypes, ScoreTypes, GraphTypes

\* A vertex new to a process has an owner by the time its record is added to
\* the local graph.
NewAreOwned ==
    \A p \in Proc : pc[p] \in {"vid_flush", "handshake"} =>
        \A v \in vid2lvid_buffer[p] : lvid2record[p][v].owner \in Proc

\* What the bounds on the calls are about is finite, and the edges of a source
\* and a target are numbered.
Counted ==
    /\ IsFiniteSet(edges_added) /\ IsFiniteSet(vertices_added)
    /\ \A e \in edges_added :
          e.id <= Cardinality({f \in edges_added : f.source = e.source /\ f.target = e.target})

TypeInv == Types /\ NewAreOwned /\ Counted

\* What depends on the number of processes stays the same.
LEMMA SameCluster ==
  ASSUME UNCHANGED nprocs
  PROVE  /\ Proc' = Proc /\ MaybeProc' = MaybeProc
         /\ MasterPair' = MasterPair /\ Record' = Record
         /\ \A v \in VertexId : Hash(v)' = Hash(v)
  BY DEF Proc, MaybeProc, MasterPair, Record, Hash

\* The variables of a group stay as they are.
SameControl  == UNCHANGED <<pc, round>>
SameEdges    == UNCHANGED <<edges_added, hybrid_edge_exchange, high_edge_exchange,
                            low_edge_exchange, raw_map, hybrid_edges, local_edges>>
SameVertices == UNCHANGED <<vertices_added, hybrid_vertex_exchange, resend_vertex_exchange>>
SameMasters  == UNCHANGED <<mht_exchange, mht>>
SameScores   == UNCHANGED <<proc_score_exchange, proc_balance, proc_score_incr, placed,
                            vcount>>
SameGraph    == UNCHANGED <<vid_buffer, local_data, vid2lvid, vid2lvid_buffer,
                            lvid2record, counts>>

LEMMA SameTypes ==
  ASSUME Types, UNCHANGED nprocs
  PROVE  /\ SameControl => ControlTypes'
         /\ SameEdges => EdgeTypes'
         /\ SameVertices => VertexTypes'
         /\ SameMasters => MasterTypes'
         /\ SameScores => ScoreTypes'
         /\ SameGraph => GraphTypes'
<1>0. Proc' = Proc /\ MaybeProc' = MaybeProc /\ MasterPair' = MasterPair /\ Record' = Record
  BY SameCluster
<1>1. SameControl => ControlTypes'
  BY <1>0 DEF Types, ControlTypes, SameControl
<1>2. SameEdges => EdgeTypes'
  BY <1>0 DEF Types, EdgeTypes, SameEdges
<1>3. SameVertices => VertexTypes'
  BY <1>0 DEF Types, VertexTypes, SameVertices
<1>4. SameMasters => MasterTypes'
  BY <1>0 DEF Types, MasterTypes, SameMasters
<1>5. SameScores => ScoreTypes'
  BY <1>0 DEF Types, ScoreTypes, SameScores
<1>6. SameGraph => GraphTypes'
  BY <1>0 DEF Types, GraphTypes, SameGraph
<1> QED
  BY <1>1, <1>2, <1>3, <1>4, <1>5, <1>6

\* The groups, when nothing is added and one process goes on.
LEMMA StepTypes ==
  ASSUME TypeInv, UNCHANGED <<nprocs, round, edges_added, vertices_added>>,
         NEW p \in Proc, NEW l, Goto(p, l),
         l \in {"load", "flush", "alone", "collect", "assign", "sync", "mht_recv", "place",
                "receive_high", "build", "vertices", "handshake", "sync_meta",
                "degree_type", "gather_counts"} \cup DOMAIN After,
         l = "flush" => round < MaxRounds,
         EdgeTypes', VertexTypes', MasterTypes', ScoreTypes', GraphTypes',
         \/ l \notin {"vid_flush", "handshake"} /\ UNCHANGED <<vid2lvid_buffer, lvid2record>>
         \/ NewAreOwned'
  PROVE  TypeInv'
<1>0. Proc' = Proc
  BY SameCluster
<1>1. ControlTypes'
  BY <1>0 DEF TypeInv, Types, ControlTypes, Goto
<1>2. NewAreOwned'
  BY <1>0 DEF TypeInv, Types, ControlTypes, NewAreOwned, Goto
<1>3. Counted'
  BY DEF TypeInv, Counted
<1> QED
  BY <1>1, <1>2, <1>3 DEF TypeInv, Types

LEMMA InitTypes == Init => TypeInv
<1> SUFFICES ASSUME Init PROVE TypeInv
  OBVIOUS
<1>1. Types
  <2>1. NoRecord \in Record /\ NoCounts \in [DOMAIN NoCounts -> Nat]
    BY DEF NoRecord, NoCounts, Record, MaybeProc
  <2>2. ControlTypes /\ EdgeTypes /\ VertexTypes /\ MasterTypes /\ ScoreTypes
    BY GingerAssumption DEF Init, MaybeProc, ControlTypes, EdgeTypes, VertexTypes,
                            MasterTypes, ScoreTypes
  <2>3. GraphTypes
    BY <2>1, GingerAssumption DEF Init, NoData, GraphTypes
  <2> QED
    BY <2>2, <2>3 DEF Types
<1>2. NewAreOwned
  BY DEF Init, NewAreOwned
<1>3. Counted
  BY FS_EmptySet DEF Init, Counted
<1> QED
  BY <1>1, <1>2, <1>3 DEF TypeInv

\* An edge that is added is none of those there are.
LEMMA EdgeIsNew ==
  ASSUME TypeInv, NEW s \in VertexId, NEW t \in VertexId
  PROVE  LET same == {e \in edges_added : e.source = s /\ e.target = t}
         IN [source |-> s, target |-> t, id |-> Cardinality(same) + 1] \notin edges_added
<1> DEFINE same == {e \in edges_added : e.source = s /\ e.target = t}
           rec  == [source |-> s, target |-> t, id |-> Cardinality(same) + 1]
<1>1. IsFiniteSet(same) /\ Cardinality(same) \in Nat
  BY FS_Subset, FS_CardinalityType DEF TypeInv, Counted
<1>2. ASSUME rec \in edges_added PROVE FALSE
  <2>1. rec.id <= Cardinality({f \in edges_added :
                                  f.source = rec.source /\ f.target = rec.target})
    BY <1>2 DEF TypeInv, Counted
  <2>2. rec.id <= Cardinality(same)
    BY <2>1
  <2> HIDE DEF same
  <2> QED
    BY <1>1, <2>2
<1> QED
  BY <1>2

LEMMA AddEdgeTypes ==
  ASSUME TypeInv, UNCHANGED nprocs, NEW p \in Proc, NEW s \in VertexId, NEW t \in VertexId,
         AddEdge(p, s, t)
  PROVE  TypeInv' /\ Cardinality({e \in edges_added : e.source = s /\ e.target = t}) \in Nat
<1> DEFINE same == {e \in edges_added : e.source = s /\ e.target = t}
           rec  == [source |-> s, target |-> t, id |-> Cardinality(same) + 1]
<1>0. Proc' = Proc /\ MaybeProc' = MaybeProc /\ MasterPair' = MasterPair /\ Record' = Record
  BY SameCluster
<1>1. /\ edges_added' = edges_added \cup {rec}
      /\ hybrid_edge_exchange' = [hybrid_edge_exchange EXCEPT ![Hash(t)] = @ \cup {rec}]
      /\ Cardinality(edges_added) < MaxEdges
  BY DEF AddEdge
<1>2. IsFiniteSet(edges_added) /\ IsFiniteSet(same) /\ Cardinality(same) \in Nat
      /\ Cardinality(same) <= Cardinality(edges_added) /\ Cardinality(edges_added) \in Nat
  BY FS_Subset, FS_CardinalityType DEF TypeInv, Counted
<1> HIDE DEF same
<1>3. rec \in Edge
  BY <1>1, <1>2, GingerAssumption DEF Edge
<1>4. Types'
  <2>1. SameControl /\ SameVertices /\ SameMasters /\ SameScores /\ SameGraph
    BY DEF AddEdge, scores, masters, assigning, building, localg, SameControl, SameVertices,
           SameMasters, SameScores, SameGraph
  <2>2. UNCHANGED <<high_edge_exchange, low_edge_exchange, raw_map, hybrid_edges, local_edges>>
    BY DEF AddEdge, edgeExch, assigning, building, localg
  <2>3. EdgeTypes'
    BY <1>0, <1>1, <1>3, <2>2 DEF TypeInv, Types, EdgeTypes
  <2> QED
    BY <2>1, <2>3, SameTypes DEF TypeInv, Types
<1>5. NewAreOwned'
  BY <1>0 DEF AddEdge, TypeInv, NewAreOwned, building, localg
<1>6. Counted'
  <2> DEFINE Same(e)  == {f \in edges_added : f.source = e.source /\ f.target = e.target}
             Same2(e) == {f \in edges_added' : f.source = e.source /\ f.target = e.target}
  <2>1. IsFiniteSet(edges_added')
    BY <1>1, <1>2, FS_AddElement
  <2>2. rec \notin edges_added
    BY EdgeIsNew DEF same
  <2>3. ASSUME NEW e \in edges_added'
        PROVE  e.id <= Cardinality(Same2(e))
    <3>1. CASE e = rec
      <4>1. Same2(e) = same \cup {rec} /\ rec \notin same
        BY <1>1, <2>2, <3>1 DEF same
      <4>2. Cardinality(Same2(e)) = Cardinality(same) + 1
        BY <1>2, <4>1, FS_AddElement
      <4> QED
        BY <1>2, <3>1, <4>2
    <3>2. CASE e \in edges_added
      <4>1. e.id <= Cardinality(Same(e)) /\ e.id \in Nat
        BY <3>2, GingerAssumption DEF TypeInv, Counted, Types, EdgeTypes, Edge
      <4>2. Same(e) \subseteq Same2(e) /\ IsFiniteSet(Same2(e))
        BY <1>1, <2>1, FS_Subset
      <4>3. Cardinality(Same(e)) <= Cardinality(Same2(e))
        BY <4>2, FS_Subset
      <4>4. Cardinality(Same(e)) \in Nat /\ Cardinality(Same2(e)) \in Nat
        BY <4>2, FS_Subset, FS_CardinalityType
      <4> HIDE DEF Same, Same2
      <4> QED
        BY <4>1, <4>3, <4>4
    <3> QED
      BY <1>1, <3>1, <3>2
  <2> QED
    BY <2>1, <2>3 DEF Counted, AddEdge, TypeInv
<1> QED
  BY <1>2, <1>4, <1>5, <1>6 DEF TypeInv, same

LEMMA AddVertexTypes ==
  ASSUME TypeInv, UNCHANGED nprocs, NEW p \in Proc, NEW v \in VertexId, AddVertex(p, v)
  PROVE  TypeInv'
<1> DEFINE rec == [vid |-> v, vdata |-> Cardinality(vertices_added) + 1]
<1>0. Proc' = Proc
  BY SameCluster
<1>1. /\ vertices_added' = vertices_added \cup {rec}
      /\ hybrid_vertex_exchange' = [hybrid_vertex_exchange EXCEPT ![Hash(v)] = @ \cup {rec}]
      /\ Cardinality(vertices_added) < MaxVertices
  BY DEF AddVertex
<1>2. IsFiniteSet(vertices_added) /\ Cardinality(vertices_added) \in Nat
  BY FS_CardinalityType DEF TypeInv, Counted
<1>3. rec \in VertexRec
  BY <1>1, <1>2, GingerAssumption DEF VertexRec
<1>4. Types'
  <2>1. SameControl /\ SameEdges /\ SameMasters /\ SameScores /\ SameGraph
    BY DEF AddVertex, edgeExch, scores, masters, assigning, building, localg, SameControl,
           SameEdges, SameMasters, SameScores, SameGraph
  <2>2. UNCHANGED resend_vertex_exchange
    BY DEF AddVertex, building
  <2>3. VertexTypes'
    BY <1>0, <1>1, <1>3, <2>2 DEF TypeInv, Types, VertexTypes
  <2> QED
    BY <2>1, <2>3, SameTypes DEF TypeInv, Types
<1>5. NewAreOwned'
  BY <1>0 DEF AddVertex, TypeInv, NewAreOwned, building, localg
<1>6. Counted'
  <2>1. IsFiniteSet(vertices_added')
    BY <1>1, <1>2, FS_AddElement
  <2>2. UNCHANGED edges_added
    BY DEF AddVertex
  <2> QED
    BY <2>1, <2>2 DEF TypeInv, Counted
<1> QED
  BY <1>4, <1>5, <1>6 DEF TypeInv

LEMMA CallFinalizeTypes ==
  ASSUME TypeInv, UNCHANGED nprocs, NEW p \in Proc, CallFinalize(p)
  PROVE  TypeInv'
<1>1. SameEdges /\ SameVertices /\ SameMasters /\ SameScores /\ SameGraph
  BY DEF CallFinalize, input, ingress, edgeExch, scores, masters, assigning, building, localg,
         SameEdges, SameVertices, SameMasters, SameScores, SameGraph
<1>2. EdgeTypes' /\ VertexTypes' /\ MasterTypes' /\ ScoreTypes' /\ GraphTypes'
  BY <1>1, SameTypes DEF TypeInv
<1>3. /\ UNCHANGED <<nprocs, round, edges_added, vertices_added>> /\ round < MaxRounds
      /\ Goto(p, "flush") /\ UNCHANGED <<vid2lvid_buffer, lvid2record>>
  BY DEF CallFinalize, input, building, localg
<1> QED
  BY <1>2, <1>3, StepTypes

\* The steps of all processes together that move them to the next phase.
LEMMA BarrierTypes ==
  ASSUME TypeInv, UNCHANGED nprocs, BeginFinalize \/ \E l \in DOMAIN After : Barrier(l)
  PROVE  TypeInv'
<1>0. Proc' = Proc
  BY SameCluster
<1>1. SameEdges /\ SameVertices /\ SameMasters /\ SameScores /\ SameGraph
  BY DEF BeginFinalize, Barrier, input, ingress, edgeExch, scores, masters, assigning,
         building, localg, SameEdges, SameVertices, SameMasters, SameScores, SameGraph
<1>2. ControlTypes'
  <2>1. CASE BeginFinalize
    <3>1. PICK p \in Proc : TRUE
      BY Cluster DEF TypeInv, Types, ControlTypes, Proc
    <3>2. round < MaxRounds
      BY <2>1, <3>1 DEF BeginFinalize, AllAt, TypeInv, Types, ControlTypes
    <3>3. round' \in 0 .. MaxRounds
      BY <2>1, <3>2, GingerAssumption DEF BeginFinalize, TypeInv, Types, ControlTypes
    <3>4. \A q \in Proc : pc'[q] \in {"load", "alone", "collect"}
      BY <2>1 DEF BeginFinalize
    <3>5. DOMAIN pc' = Proc /\ pc' = [q \in Proc |-> pc'[q]]
      BY <2>1 DEF BeginFinalize
    <3> QED
      BY <1>0, <3>3, <3>4, <3>5 DEF TypeInv, Types, ControlTypes
  <2>2. ASSUME NEW l \in DOMAIN After, Barrier(l) PROVE ControlTypes'
    BY <1>0, <2>2 DEF Barrier, After, input, TypeInv, Types, ControlTypes
  <2> QED
    BY <2>1, <2>2
<1>3. NewAreOwned'
  <2>1. CASE BeginFinalize
    BY <1>0, <1>1, <2>1 DEF BeginFinalize, NewAreOwned
  <2>2. ASSUME NEW l \in DOMAIN After, Barrier(l) PROVE NewAreOwned'
    BY <1>0, <1>1, <2>2 DEF Barrier, After, AllAt, SameGraph, TypeInv, NewAreOwned
  <2> QED
    BY <2>1, <2>2
<1>4. Counted'
  BY <1>1 DEF SameEdges, SameVertices, TypeInv, Counted
<1> QED
  BY <1>1, <1>2, <1>3, <1>4, SameTypes DEF TypeInv, Types

LEMMA CollectTypes ==
  ASSUME TypeInv, UNCHANGED nprocs, NEW p \in Proc, CollectAll(p) \/ CollectEdges(p)
  PROVE  TypeInv'
<1>0. Proc' = Proc /\ Types
  BY SameCluster DEF TypeInv
<1>1. SameVertices /\ SameMasters /\ SameGraph
  BY DEF CollectAll, CollectEdges, input, masters, building, localg,
         SameVertices, SameMasters, SameGraph
<1>2. EdgeTypes'
  <2>1. CASE CollectAll(p)
    BY <1>0, <2>1 DEF CollectAll, input, edgeExch, assigning, localg, Types, EdgeTypes
  <2>2. CASE CollectEdges(p)
    BY <1>0, <2>2 DEF CollectEdges, input, edgeExch, building, localg, Types, EdgeTypes
  <2> QED
    BY <2>1, <2>2
<1>3. ScoreTypes'
  <2>1. UNCHANGED <<proc_score_exchange, proc_balance, proc_score_incr, placed>>
    BY DEF CollectAll, CollectEdges, scores
  <2>2. vcount' \in [Proc -> Nat]
    <3>1. vcount \in [Proc -> Nat]
      BY <1>0 DEF Types, ScoreTypes
    <3> QED
      BY <3>1 DEF CollectAll, CollectEdges, assigning
  <2> QED
    BY <1>0, <2>1, <2>2 DEF Types, ScoreTypes
<1>4. /\ UNCHANGED <<nprocs, round, edges_added, vertices_added>>
      /\ UNCHANGED <<vid2lvid_buffer, lvid2record>>
      /\ \E l \in {"full_barrier", "assign"} : Goto(p, l)
  BY DEF CollectAll, CollectEdges, input, building, localg
<1> QED
  BY <1>0, <1>1, <1>2, <1>3, <1>4, SameTypes, StepTypes DEF After

LEMMA RecordsFinite ==
  ASSUME TypeInv, NEW p \in Proc, NEW t
  PROVE  /\ Records(p, t) \subseteq raw_map[p]
         /\ IsFiniteSet(Records(p, t))
         /\ Cardinality(Records(p, t)) \in Nat
<1>1. Records(p, t) \subseteq raw_map[p] /\ raw_map[p] \subseteq edges_added
  BY DEF TypeInv, Types, EdgeTypes, Records
<1> QED
  BY <1>1, FS_Subset, FS_CardinalityType DEF TypeInv, Counted

LEMMA AssignHighTypes ==
  ASSUME TypeInv, UNCHANGED nprocs, NEW p \in Proc, NEW t \in Targets(raw_map[p]),
         AssignHigh(p, t)
  PROVE  TypeInv'
<1>0. Proc' = Proc /\ Types
  BY SameCluster DEF TypeInv
<1>1. SameVertices /\ SameMasters /\ SameGraph
  BY DEF AssignHigh, input, ingress, masters, building, localg,
         SameVertices, SameMasters, SameGraph
<1>2. EdgeTypes'
  <2>1. Records(p, t) \subseteq edges_added
    BY <1>0, RecordsFinite DEF Types, EdgeTypes
  <2> QED
    BY <1>0, <2>1 DEF AssignHigh, input, ingress, building, localg, Types, EdgeTypes
<1>3. ScoreTypes'
  <2>1. UNCHANGED <<proc_score_exchange, proc_balance, proc_score_incr, placed>>
    BY DEF AssignHigh, scores
  <2>2. vcount' \in [Proc -> Nat]
    BY <1>0 DEF AssignHigh, AfterTarget, Types, ScoreTypes
  <2> QED
    BY <1>0, <2>1, <2>2 DEF Types, ScoreTypes
<1>4. /\ UNCHANGED <<nprocs, round, edges_added, vertices_added>>
      /\ UNCHANGED <<vid2lvid_buffer, lvid2record>>
      /\ \E l \in {"sync", "assign"} : Goto(p, l)
  BY DEF AssignHigh, AfterTarget, Goto, input, building, localg
<1> QED
  BY <1>0, <1>1, <1>2, <1>3, <1>4, SameTypes, StepTypes

LEMMA AssignLowTypes ==
  ASSUME ScoresAreNumbers, TypeInv, UNCHANGED nprocs, NEW p \in Proc,
         NEW t \in Targets(raw_map[p]), AssignLow(p, t)
  PROVE  TypeInv' /\ GingerToProc(p, Records(p, t)) \in Proc /\ t \in VertexId
<1> DEFINE recs  == Records(p, t)
           owner == GingerToProc(p, recs)
<1>0. Proc' = Proc /\ MaybeProc' = MaybeProc /\ MasterPair' = MasterPair /\ Types
  BY SameCluster DEF TypeInv
<1>1. SameVertices /\ SameGraph
  BY DEF AssignLow, input, ingress, building, localg, SameVertices, SameGraph
<1>2. recs \subseteq edges_added /\ IsFiniteSet(recs) /\ Cardinality(recs) \in Nat
  BY <1>0, RecordsFinite DEF Types, EdgeTypes
<1>3. owner \in Proc
  BY <1>0, <1>2, GingerNamesAProcess DEF Types, ControlTypes, ScoreTypes
<1>4. t \in VertexId
  BY <1>0 DEF Types, EdgeTypes, Targets, Edge
<1>5. Cardinality(recs) \in 1 .. Threshold /\ Weight(Cardinality(recs)) \in Nat
  <2>1. Cardinality(recs) \in 1 .. Threshold /\ 0 \in Nat
    BY DEF AssignLow, recs
  <2> QED
    BY <2>1, WeighedIs
<1> HIDE DEF recs, owner
<1>6. EdgeTypes'
  BY <1>0, <1>2, <1>3 DEF AssignLow, input, ingress, building, localg, Types, EdgeTypes,
                          recs, owner
<1>7. MasterTypes'
  <2>1. [vid |-> t, master |-> owner] \in MasterPair /\ owner \in MaybeProc
    BY <1>3, <1>4 DEF MasterPair, MaybeProc
  <2>2. mht' = [mht EXCEPT ![p][t] = owner]
    BY DEF AssignLow, owner, recs
  <2>3. mht_exchange' = [q \in Proc |-> IF q = p THEN mht_exchange[q]
                                       ELSE mht_exchange[q] \cup {[vid |-> t, master |-> owner]}]
    BY DEF AssignLow, owner, recs
  <2>4. mht' \in [Proc -> [VertexId -> MaybeProc]]
    BY <1>0, <1>4, <2>1, <2>2 DEF Types, MasterTypes
  <2>5. mht_exchange' \in [Proc -> SUBSET MasterPair]
    BY <1>0, <2>1, <2>3 DEF Types, MasterTypes
  <2> QED
    BY <1>0, <2>4, <2>5 DEF MasterTypes
<1>8. ScoreTypes'
  <2> DEFINE degree == Cardinality(recs)
  <2>1. /\ proc_balance' = [proc_balance EXCEPT ![p][owner] = Weighed(@, degree)]
        /\ proc_score_incr' = [proc_score_incr EXCEPT ![p][owner] = Weighed(@, degree)]
        /\ placed' = [placed EXCEPT ![owner] = [targets |-> @.targets + 1,
                                                weight  |-> @.weight + Weight(degree)]]
        /\ vcount' = [vcount EXCEPT ![p] = @ + 1]
        /\ UNCHANGED proc_score_exchange
    BY DEF AssignLow, AfterTarget, recs, owner
  <2>2. \A b \in Nat : Weighed(b, degree) \in Nat
    BY <1>5, WeighedIs
  <2>5. Weight(degree) \in Nat
    BY <1>5
  <2> HIDE DEF degree
  <2>3. proc_balance' \in [Proc -> [Proc -> Nat]]
    BY <1>0, <1>3, <2>1, <2>2 DEF Types, ScoreTypes
  <2>4. proc_score_incr' \in [Proc -> [Proc -> Nat]]
    BY <1>0, <1>3, <2>1, <2>2 DEF Types, ScoreTypes
  <2>6. placed' \in [Proc -> [targets : Nat, weight : Nat]]
    <3> DEFINE t0 == placed[owner].targets + 1
               w0 == placed[owner].weight + Weight(degree)
    <3>1. placed \in [Proc -> [targets : Nat, weight : Nat]]
      BY <1>0 DEF Types, ScoreTypes
    <3>2. placed[owner].targets \in Nat /\ placed[owner].weight \in Nat
      BY <1>3, <3>1
    <3>3. t0 \in Nat /\ w0 \in Nat
      BY <2>5, <3>2
    <3>4. placed' = [placed EXCEPT ![owner] = [targets |-> t0, weight |-> w0]]
      BY <2>1
    <3> HIDE DEF t0, w0
    <3>5. [targets |-> t0, weight |-> w0] \in [targets : Nat, weight : Nat]
      BY <3>3
    <3> QED
      BY <3>1, <3>4, <3>5
  <2>7. vcount' \in [Proc -> Nat]
    <3>1. vcount \in [Proc -> Nat]
      BY <1>0 DEF Types, ScoreTypes
    <3> QED
      BY <2>1, <3>1
  <2>8. \A c \in Proc \X Proc : proc_score_exchange'[c] \in Seq([Proc -> Nat])
    BY <1>0, <2>1 DEF Types, ScoreTypes
  <2> QED
    BY <1>0, <2>3, <2>4, <2>6, <2>7, <2>8 DEF ScoreTypes
<1>9. /\ UNCHANGED <<nprocs, round, edges_added, vertices_added>>
      /\ UNCHANGED <<vid2lvid_buffer, lvid2record>>
      /\ \E l \in {"sync", "assign"} : Goto(p, l)
  BY DEF AssignLow, AfterTarget, Goto, input, building, localg
<1> QED
  BY <1>0, <1>1, <1>3, <1>4, <1>6, <1>7, <1>8, <1>9, SameTypes, StepTypes DEF recs, owner

LEMMA TableTypes ==
  ASSUME nprocs \in ClusterSizes, NEW m \in [VertexId -> MaybeProc]
  PROVE  /\ \A pairs \in SUBSET MasterPair : WithPairs(m, pairs) \in [VertexId -> MaybeProc]
         /\ \A vs : WithHashes(m, vs) \in [VertexId -> MaybeProc]
         /\ \A vs : \A v \in vs \cap VertexId : WithHashes(m, vs)[v] \in Proc
<1>1. ASSUME NEW pairs \in SUBSET MasterPair, NEW v \in VertexId,
             \E x \in pairs : x.vid = v
      PROVE  (CHOOSE x \in pairs : x.vid = v).master \in Proc
  <2>1. (CHOOSE x \in pairs : x.vid = v) \in pairs
    BY <1>1
  <2> QED
    BY <2>1 DEF MasterPair
<1>2. \A pairs \in SUBSET MasterPair : WithPairs(m, pairs) \in [VertexId -> MaybeProc]
  BY <1>1 DEF WithPairs, MaybeProc
<1>3. \A vs : WithHashes(m, vs) \in [VertexId -> MaybeProc]
  BY Cluster DEF WithHashes, MaybeProc
<1>4. \A vs : \A v \in vs \cap VertexId : WithHashes(m, vs)[v] \in Proc
  BY Cluster DEF WithHashes, MaybeProc
<1> QED
  BY <1>2, <1>3, <1>4

\* The increments that arrive, added up, and those left behind.
LEMMA ArrivedTypes ==
  ASSUME Types, NEW p \in Proc, NEW r \in Proc, NEW n \in Nat,
         n <= Len(proc_score_exchange[<<r, p>>])
  PROVE  LET c     == <<r, p>>
             first == SubSeq(proc_score_exchange[c], 1, n)
             rest  == SubSeq(proc_score_exchange[c], n + 1, Len(proc_score_exchange[c]))
         IN /\ proc_score_exchange[c] \in Seq([Proc -> Nat])
            /\ first \in Seq([Proc -> Nat]) /\ rest \in Seq([Proc -> Nat])
            /\ Total(first) \in [Proc -> Nat]
<1> DEFINE s == proc_score_exchange[<<r, p>>]
<1>1. s \in Seq([Proc -> Nat])
  BY DEF Types, ScoreTypes
<1>3. n <= Len(s)
  OBVIOUS
<1>2. SubSeq(s, 1, n) \in Seq([Proc -> Nat]) /\ SubSeq(s, n + 1, Len(s)) \in Seq([Proc -> Nat])
  <2> HIDE DEF s
  <2>1. \A i \in 1 .. Len(s) : s[i] \in [Proc -> Nat]
    BY <1>1
  <2>2. Len(s) \in Nat
    BY <1>1
  <2>3. (\A i \in 1 .. n : s[i] \in [Proc -> Nat])
        /\ (\A i \in n + 1 .. Len(s) : s[i] \in [Proc -> Nat])
    BY <1>3, <2>1, <2>2
  <2> QED
    BY <2>2, <2>3, SubSeqProperties
<1> QED
  BY <1>1, <1>2, TotalType

LEMMA SyncHeuristicTypes ==
  ASSUME TypeInv, UNCHANGED nprocs, NEW p \in Proc, SyncHeuristic(p)
  PROVE  TypeInv'
<1>0. Proc' = Proc /\ MaybeProc' = MaybeProc /\ MasterPair' = MasterPair /\ Types
  BY SameCluster DEF TypeInv
<1>1. SameVertices /\ SameEdges /\ SameGraph
  BY DEF SyncHeuristic, input, ingress, edgeExch, assigning, building, localg,
         SameVertices, SameEdges, SameGraph
<1>2. MasterTypes'
  <2>1. PICK pairs \in SUBSET mht_exchange[p] :
           /\ mht' = [mht EXCEPT ![p] = WithPairs(@, pairs)]
           /\ mht_exchange' = [mht_exchange EXCEPT ![p] = @ \ pairs]
    BY DEF SyncHeuristic
  <2>2. pairs \in SUBSET MasterPair /\ mht[p] \in [VertexId -> MaybeProc]
    BY <1>0 DEF Types, MasterTypes
  <2>3. WithPairs(mht[p], pairs) \in [VertexId -> MaybeProc]
    BY <1>0, <2>2, TableTypes DEF Types, ControlTypes
  <2> QED
    BY <1>0, <2>1, <2>3 DEF Types, MasterTypes
<1>3. ScoreTypes'
  <2>1. PICK arrived \in [Proc -> 0 .. MaxEdges] :
          LET first(r) == SubSeq(proc_score_exchange[<<r, p>>], 1, arrived[r])
              rest(r)  == SubSeq(proc_score_exchange[<<r, p>>], arrived[r] + 1,
                                 Len(proc_score_exchange[<<r, p>>]))
              got      == [r \in Proc |-> Total(first(r))]
          IN /\ \A r \in Proc : arrived[r] <= Len(proc_score_exchange[<<r, p>>])
             /\ proc_balance' = [proc_balance EXCEPT ![p] =
                    [q \in Proc |-> @[q] + SumFunction([r \in Proc |-> got[r][q]])]]
             /\ proc_score_exchange' = [c \in Proc \X Proc |->
                    CASE c[2] = p              -> rest(c[1])
                      [] c[1] = p /\ c[2] # p  -> Append(proc_score_exchange[c], SentIncr(p))
                      [] OTHER                 -> proc_score_exchange[c]]
    BY DEF SyncHeuristic
  <2> DEFINE first(r) == SubSeq(proc_score_exchange[<<r, p>>], 1, arrived[r])
             rest(r)  == SubSeq(proc_score_exchange[<<r, p>>], arrived[r] + 1,
                                Len(proc_score_exchange[<<r, p>>]))
             got      == [r \in Proc |-> Total(first(r))]
  <2>2. ASSUME NEW r \in Proc
        PROVE  rest(r) \in Seq([Proc -> Nat]) /\ got[r] \in [Proc -> Nat]
    <3>1. arrived[r] \in Nat
      BY GingerAssumption
    <3>2. arrived[r] <= Len(proc_score_exchange[<<r, p>>])
      BY <2>1
    <3> QED
      BY <1>0, <3>1, <3>2, ArrivedTypes
  <2>3. ASSUME NEW q \in Proc
        PROVE  SumFunction([r \in Proc |-> got[r][q]]) \in Nat
    <3>1. [r \in Proc |-> got[r][q]] \in [Proc -> Nat]
      BY <2>2
    <3>2. IsFiniteSet(Proc)
      BY <1>0, Cluster DEF Types, ControlTypes
    <3> HIDE DEF got
    <3> QED
      BY <3>1, <3>2, SumType
  <2>4. proc_balance' \in [Proc -> [Proc -> Nat]]
    <3>1. proc_balance' = [proc_balance EXCEPT ![p] =
                              [q \in Proc |-> @[q] + SumFunction([r \in Proc |-> got[r][q]])]]
      BY <2>1
    <3> DEFINE sum(q) == SumFunction([r \in Proc |-> got[r][q]])
    <3> HIDE DEF got
    <3>2. [q \in Proc |-> proc_balance[p][q] + sum(q)] \in [Proc -> Nat]
      <4>1. \A q \in Proc : sum(q) \in Nat
        BY <2>3
      <4> HIDE DEF sum
      <4> QED
        BY <1>0, <4>1 DEF Types, ScoreTypes
    <3> QED
      BY <1>0, <3>1, <3>2 DEF Types, ScoreTypes
  <2>5. proc_score_incr' \in [Proc -> [Proc -> Nat]]
    BY <1>0 DEF SyncHeuristic, KeptIncr, Types, ScoreTypes
  <2>6. ASSUME NEW r \in Proc, NEW q \in Proc
        PROVE  proc_score_exchange'[<<r, q>>] \in Seq([Proc -> Nat])
    <3>1. proc_score_exchange'[<<r, q>>] =
             CASE q = p            -> rest(r)
               [] r = p /\ q # p   -> Append(proc_score_exchange[<<r, q>>], SentIncr(p))
               [] OTHER            -> proc_score_exchange[<<r, q>>]
      BY <2>1
    <3>2. proc_score_exchange[<<r, q>>] \in Seq([Proc -> Nat])
      BY <1>0 DEF Types, ScoreTypes
    <3>3. SentIncr(p) \in [Proc -> Nat]
      BY <1>0 DEF SentIncr, Types, ScoreTypes
    <3>4. Append(proc_score_exchange[<<r, q>>], SentIncr(p)) \in Seq([Proc -> Nat])
      BY <3>2, <3>3
    <3> HIDE DEF rest
    <3> QED
      BY <2>2, <3>1, <3>2, <3>4
  <2>7. \A c \in Proc \X Proc : \E r, q \in Proc : c = <<r, q>>
    OBVIOUS
  <2>8. vcount' \in [Proc -> Nat] /\ placed' \in [Proc -> [targets : Nat, weight : Nat]]
    <3>1. vcount \in [Proc -> Nat] /\ placed \in [Proc -> [targets : Nat, weight : Nat]]
      BY <1>0 DEF Types, ScoreTypes
    <3> QED
      BY <3>1 DEF SyncHeuristic, assigning
  <2>9. \A c \in Proc \X Proc : proc_score_exchange'[c] \in Seq([Proc -> Nat])
    BY <2>6, <2>7
  <2> QED
    BY <1>0, <2>4, <2>5, <2>8, <2>9 DEF ScoreTypes
<1>4. /\ UNCHANGED <<nprocs, round, edges_added, vertices_added>>
      /\ UNCHANGED <<vid2lvid_buffer, lvid2record>> /\ Goto(p, "assign")
  BY DEF SyncHeuristic, input, building, localg
<1> QED
  BY <1>0, <1>1, <1>2, <1>3, <1>4, SameTypes, StepTypes

LEMMA AssignEndsTypes ==
  ASSUME TypeInv, UNCHANGED nprocs, NEW p \in Proc, AssignEnds(p)
  PROVE  TypeInv'
<1>1. SameEdges /\ SameVertices /\ SameMasters /\ SameScores /\ SameGraph
  BY DEF AssignEnds, input, ingress, edgeExch, scores, masters, assigning, building, localg,
         SameEdges, SameVertices, SameMasters, SameScores, SameGraph
<1>2. EdgeTypes' /\ VertexTypes' /\ MasterTypes' /\ ScoreTypes' /\ GraphTypes'
  BY <1>1, SameTypes DEF TypeInv
<1>3. /\ UNCHANGED <<nprocs, round, edges_added, vertices_added>>
      /\ Goto(p, "mht_flush") /\ UNCHANGED <<vid2lvid_buffer, lvid2record>>
  BY DEF AssignEnds, input, building, localg
<1> QED
  BY <1>2, <1>3, StepTypes DEF After

LEMMA LastSynchronizeTypes ==
  ASSUME TypeInv, UNCHANGED nprocs, NEW p \in Proc, LastSynchronize(p)
  PROVE  TypeInv'
<1>0. Proc' = Proc /\ MaybeProc' = MaybeProc /\ MasterPair' = MasterPair /\ Types
  BY SameCluster DEF TypeInv
<1>1. SameEdges /\ SameVertices /\ SameScores /\ SameGraph
  BY DEF LastSynchronize, input, ingress, edgeExch, scores, assigning, building, localg,
         SameEdges, SameVertices, SameScores, SameGraph
<1>2. MasterTypes'
  <2>1. WithPairs(mht[p], ReceivedPairs(p)) \in [VertexId -> MaybeProc]
    BY <1>0, TableTypes DEF Types, ControlTypes, MasterTypes, ReceivedPairs
  <2> QED
    BY <1>0, <2>1 DEF LastSynchronize, Types, MasterTypes
<1>3. /\ UNCHANGED <<nprocs, round, edges_added, vertices_added>>
      /\ Goto(p, "edge_flush") /\ UNCHANGED <<vid2lvid_buffer, lvid2record>>
  BY DEF LastSynchronize, input, building, localg
<1> QED
  BY <1>0, <1>1, <1>2, <1>3, SameTypes, StepTypes DEF After

LEMMA PlaceEdgesTypes ==
  ASSUME TypeInv, UNCHANGED nprocs, NEW p \in Proc, PlaceEdges(p)
  PROVE  TypeInv'
<1> DEFINE vs == Sources(low_edge_exchange[p] \cup high_edge_exchange[p])
           m  == WithHashes(mht[p], vs)
<1>0. Proc' = Proc /\ MaybeProc' = MaybeProc /\ MasterPair' = MasterPair /\ Types
  BY SameCluster DEF TypeInv
<1>1. SameVertices /\ SameScores /\ SameGraph
  BY DEF PlaceEdges, input, scores, assigning, localg, SameVertices, SameScores, SameGraph
<1>2. mht' = [mht EXCEPT ![p] = m] /\ UNCHANGED mht_exchange
  BY DEF PlaceEdges
<1>3. m \in [VertexId -> MaybeProc]
  BY <1>0, TableTypes DEF Types, ControlTypes, MasterTypes
<1> HIDE DEF vs
<1>4. EdgeTypes'
  <2>1. \A q \in Proc : SentTo(p, m, q) \subseteq edges_added
    BY <1>0 DEF SentTo, Types, EdgeTypes
  <2>2. /\ hybrid_edges' = [hybrid_edges EXCEPT ![p] = @ \cup low_edge_exchange[p] \cup Kept(p, m)]
        /\ hybrid_edge_exchange' = [q \in Proc |-> IF q = p THEN hybrid_edge_exchange[q]
                                              ELSE hybrid_edge_exchange[q] \cup SentTo(p, m, q)]
        /\ low_edge_exchange' = [low_edge_exchange EXCEPT ![p] = {}]
        /\ high_edge_exchange' = [high_edge_exchange EXCEPT ![p] = {}]
        /\ UNCHANGED <<edges_added, raw_map, local_edges>>
    BY DEF PlaceEdges, input, assigning, localg, vs
  <2> HIDE DEF m
  <2>3. Kept(p, m) \subseteq edges_added
    BY <2>1 DEF Kept
  <2> QED
    BY <1>0, <2>1, <2>2, <2>3 DEF Types, EdgeTypes
<1> HIDE DEF m
<1>5. MasterTypes'
  BY <1>0, <1>2, <1>3 DEF Types, MasterTypes
<1>6. /\ UNCHANGED <<nprocs, round, edges_added, vertices_added>>
      /\ Goto(p, "resend_flush") /\ UNCHANGED <<vid2lvid_buffer, lvid2record>>
  BY DEF PlaceEdges, input, localg
<1> QED
  BY <1>0, <1>1, <1>4, <1>5, <1>6, SameTypes, StepTypes DEF After

LEMMA ReceiveHighTypes ==
  ASSUME TypeInv, UNCHANGED nprocs, NEW p \in Proc, ReceiveHigh(p)
  PROVE  TypeInv'
<1>0. Proc' = Proc /\ MaybeProc' = MaybeProc /\ MasterPair' = MasterPair /\ Types
  BY SameCluster DEF TypeInv
<1>1. SameVertices /\ SameScores /\ SameGraph
  BY DEF ReceiveHigh, input, scores, assigning, localg, SameVertices, SameScores, SameGraph
<1>2. EdgeTypes'
  BY <1>0 DEF ReceiveHigh, input, edgeExch, assigning, localg, Types, EdgeTypes
<1>3. MasterTypes'
  BY <1>0 DEF ReceiveHigh, Types, MasterTypes, MaybeProc
<1>4. /\ UNCHANGED <<nprocs, round, edges_added, vertices_added>>
      /\ Goto(p, "full_barrier") /\ UNCHANGED <<vid2lvid_buffer, lvid2record>>
  BY DEF ReceiveHigh, input, localg
<1> QED
  BY <1>0, <1>1, <1>2, <1>3, <1>4, SameTypes, StepTypes DEF After

LEMMA BuildLocalGraphTypes ==
  ASSUME TypeInv, UNCHANGED nprocs, NEW p \in Proc, BuildLocalGraph(p)
  PROVE  TypeInv'
<1> DEFINE vs == hybrid_vertex_exchange[p]
           m  == WithHashes(mht[p], {x.vid : x \in vs})
<1>0. Proc' = Proc /\ MaybeProc' = MaybeProc /\ MasterPair' = MasterPair /\ Record' = Record /\ Types
  BY SameCluster DEF TypeInv
<1>1. SameScores
  BY DEF BuildLocalGraph, scores, assigning, SameScores
<1>2. mht' = [mht EXCEPT ![p] = m] /\ UNCHANGED mht_exchange
  BY DEF BuildLocalGraph
<1>3. MasterTypes'
  <2>1. m \in [VertexId -> MaybeProc]
    BY <1>0, TableTypes DEF Types, ControlTypes, MasterTypes
  <2> HIDE DEF m
  <2> QED
    BY <1>0, <1>2, <2>1 DEF Types, MasterTypes
<1>4. EdgeTypes'
  BY <1>0 DEF BuildLocalGraph, input, edgeExch, assigning, Types, EdgeTypes
<1>5. VertexTypes'
  <2>1. /\ resend_vertex_exchange' = [q \in Proc |-> resend_vertex_exchange[q]
                                         \cup {x \in vs : DataOwner(m, x.vid) = q}]
        /\ hybrid_vertex_exchange' = [hybrid_vertex_exchange EXCEPT ![p] = {}]
        /\ UNCHANGED vertices_added
    BY DEF BuildLocalGraph, input
  <2> HIDE DEF m
  <2> QED
    BY <1>0, <2>1 DEF Types, VertexTypes
<1>6. GraphTypes'
  <2>1. Sources(hybrid_edges[p]) \cup Targets(hybrid_edges[p]) \subseteq VertexId
    BY <1>0 DEF Types, EdgeTypes, Sources, Targets, Edge
  <2>2. /\ vid2lvid_buffer' = [vid2lvid_buffer EXCEPT ![p] =
                (Sources(hybrid_edges[p]) \cup Targets(hybrid_edges[p])) \ vid2lvid[p]]
        /\ UNCHANGED <<vid_buffer, local_data, vid2lvid, lvid2record, counts>>
    BY DEF BuildLocalGraph
  <2> QED
    BY <1>0, <2>1, <2>2 DEF Types, GraphTypes
<1>7. NewAreOwned'
  BY <1>0 DEF BuildLocalGraph, Goto, TypeInv, NewAreOwned, Types, ControlTypes, GraphTypes
<1>8. /\ UNCHANGED <<nprocs, round, edges_added, vertices_added>> /\ Goto(p, "vertex_flush")
  BY DEF BuildLocalGraph, input
<1> QED
  BY <1>0, <1>1, <1>3, <1>4, <1>5, <1>6, <1>7, <1>8, SameTypes, StepTypes DEF After

LEMMA ReceiveVerticesTypes ==
  ASSUME TypeInv, UNCHANGED nprocs, NEW p \in Proc, ReceiveVertices(p)
  PROVE  TypeInv'
<1> DEFINE got == resend_vertex_exchange[p]
           new == vid2lvid_buffer[p] \cup ({x.vid : x \in got} \ vid2lvid[p])
           m   == WithHashes(mht[p], new)
<1>0. Proc' = Proc /\ MaybeProc' = MaybeProc /\ MasterPair' = MasterPair /\ Record' = Record /\ Types
  BY SameCluster DEF TypeInv
<1>1. SameScores /\ SameEdges
  BY DEF ReceiveVertices, input, ingress, edgeExch, scores, assigning, SameScores, SameEdges
<1>2. got \subseteq VertexRec /\ {x.vid : x \in got} \subseteq VertexId /\ new \subseteq VertexId
  BY <1>0 DEF Types, VertexTypes, GraphTypes, VertexRec
<1>3. \A v \in new : OwnerOf(p, m, v) \in Proc
  <2>1. mht[p] \in [VertexId -> MaybeProc]
    BY <1>0 DEF Types, MasterTypes
  <2> HIDE DEF new
  <2> QED
    BY <1>0, <1>2, <2>1, TableTypes DEF Types, ControlTypes, OwnerOf
<1>4. MasterTypes'
  BY <1>0 DEF ReceiveVertices, Types, MasterTypes, MaybeProc
<1>5. VertexTypes'
  BY <1>0 DEF ReceiveVertices, input, ingress, Types, VertexTypes
<1>6. /\ vid2lvid_buffer' = [vid2lvid_buffer EXCEPT ![p] = new]
      /\ lvid2record' = [lvid2record EXCEPT ![p] = [v \in VertexId |->
             IF v \in new THEN [NoRecord EXCEPT !.owner = OwnerOf(p, m, v)] ELSE @[v]]]
      /\ vid_buffer' = [q \in Proc |-> IF q = p THEN vid_buffer[q] ELSE vid_buffer[q] \cup
             {[vid |-> v, mirror |-> p] : v \in {w \in new : OwnerOf(p, m, w) = q}}]
      /\ UNCHANGED <<vid2lvid, counts>>
  BY DEF ReceiveVertices
<1>7. local_data' \in [Proc -> [VertexId -> 0 .. MaxVertices]]
  <2>1. PICK last \in [{x.vid : x \in got} -> 1 .. MaxVertices] :
           local_data' = [local_data EXCEPT ![p] =
              [v \in VertexId |-> IF v \in DOMAIN last THEN last[v] ELSE @[v]]]
    BY DEF ReceiveVertices
  <2>2. \A v \in DOMAIN last : last[v] \in 0 .. MaxVertices
    BY GingerAssumption
  <2> HIDE DEF got
  <2> QED
    BY <1>0, <2>1, <2>2 DEF Types, GraphTypes
<1> HIDE DEF got, new, m
<1>8. \A v \in new : [NoRecord EXCEPT !.owner = OwnerOf(p, m, v)] \in Record
  BY <1>3 DEF NoRecord, Record, MaybeProc
<1>9. GraphTypes'
  <2>1. lvid2record' \in [Proc -> [VertexId -> Record]]
    BY <1>0, <1>6, <1>8 DEF Types, GraphTypes
  <2>2. ASSUME NEW q \in Proc, NEW v \in vid2lvid[q]
        PROVE  lvid2record'[q][v].owner \in Proc
    <3>1. v \in VertexId /\ lvid2record[q][v].owner \in Proc
      BY <1>0 DEF Types, GraphTypes
    <3>2. CASE q = p /\ v \in new
      <4>1. lvid2record'[q][v] = [NoRecord EXCEPT !.owner = OwnerOf(p, m, v)]
        BY <1>0, <1>6, <3>1, <3>2 DEF Types, GraphTypes
      <4> QED
        BY <1>3, <3>2, <4>1 DEF NoRecord
    <3>3. CASE ~(q = p /\ v \in new)
      <4>1. lvid2record'[q][v] = lvid2record[q][v]
        BY <1>0, <1>6, <3>1, <3>3 DEF Types, GraphTypes
      <4> QED
        BY <3>1, <4>1
    <3> QED
      BY <3>2, <3>3
  <2>3. vid_buffer' \in [Proc -> SUBSET [vid : VertexId, mirror : Proc]]
    BY <1>0, <1>2, <1>6 DEF Types, GraphTypes
  <2>4. vid2lvid_buffer' \in [Proc -> SUBSET VertexId]
    BY <1>0, <1>2, <1>6 DEF Types, GraphTypes
  <2>5. /\ vid2lvid' \in [Proc -> SUBSET VertexId]
        /\ counts' \in [Proc -> [DOMAIN NoCounts -> Nat]]
    BY <1>0, <1>6 DEF Types, GraphTypes
  <2>6. \A q \in Proc : \A v \in vid2lvid'[q] : lvid2record'[q][v].owner \in Proc
    BY <1>6, <2>2
  <2> QED
    BY <1>0, <1>7, <2>1, <2>3, <2>4, <2>5, <2>6 DEF GraphTypes
<1>10. NewAreOwned'
  <2>1. pc' = [pc EXCEPT ![p] = "vid_flush"]
    BY DEF ReceiveVertices, Goto
  <2>2. ASSUME NEW v \in new PROVE lvid2record'[p][v].owner \in Proc
    <3>1. lvid2record'[p][v] = [NoRecord EXCEPT !.owner = OwnerOf(p, m, v)]
      BY <1>0, <1>2, <1>6 DEF Types, GraphTypes
    <3> QED
      BY <1>3, <3>1 DEF NoRecord
  <2>3. ASSUME NEW q \in Proc, q # p
        PROVE  /\ pc'[q] = pc[q] /\ vid2lvid_buffer'[q] = vid2lvid_buffer[q]
               /\ lvid2record'[q] = lvid2record[q]
    BY <1>0, <1>6, <2>1, <2>3 DEF Types, ControlTypes, GraphTypes
  <2>4. vid2lvid_buffer'[p] = new
    BY <1>0, <1>6 DEF Types, GraphTypes
  <2> QED
    BY <1>0, <2>2, <2>3, <2>4 DEF TypeInv, NewAreOwned
<1>11. /\ UNCHANGED <<nprocs, round, edges_added, vertices_added>> /\ Goto(p, "vid_flush")
  BY DEF ReceiveVertices, input
<1> QED
  BY <1>0, <1>1, <1>4, <1>5, <1>9, <1>10, <1>11, SameTypes, StepTypes DEF After

LEMMA HandshakeTypes ==
  ASSUME TypeInv, UNCHANGED nprocs, NEW p \in Proc, Handshake(p)
  PROVE  TypeInv'
<1> DEFINE got     == vid_buffer[p]
           present == vid2lvid[p] \cup vid2lvid_buffer[p]
           flying  == {x.vid : x \in got} \ present
           from(v) == {x.mirror : x \in {y \in got : y.vid = v}}
           rec     == lvid2record[p]
<1>0. Proc' = Proc /\ MaybeProc' = MaybeProc /\ MasterPair' = MasterPair /\ Record' = Record /\ Types
  BY SameCluster DEF TypeInv
<1>1. SameEdges /\ SameVertices /\ SameMasters /\ SameScores
  BY DEF Handshake, input, ingress, edgeExch, scores, masters, assigning, SameEdges,
         SameVertices, SameMasters, SameScores
<1>2. /\ lvid2record' = [lvid2record EXCEPT ![p] = [v \in VertexId |->
             IF v \in flying THEN [NoRecord EXCEPT !.owner = p, !.mirrors = from(v)]
             ELSE [rec[v] EXCEPT !.mirrors = @ \cup from(v)]]]
      /\ vid2lvid' = [vid2lvid EXCEPT ![p] = present \cup flying]
      /\ vid2lvid_buffer' = [vid2lvid_buffer EXCEPT ![p] = {}]
      /\ vid_buffer' = [vid_buffer EXCEPT ![p] = {}]
      /\ UNCHANGED <<local_data, counts>>
  BY DEF Handshake
<1>3. /\ flying \subseteq VertexId /\ present \subseteq VertexId
      /\ \A v : from(v) \subseteq Proc
      /\ rec \in [VertexId -> Record]
  BY <1>0 DEF Types, GraphTypes
<1>4. \A v \in present : rec[v].owner \in Proc
  BY <1>0 DEF Handshake, TypeInv, NewAreOwned, Types, GraphTypes
<1> HIDE DEF got, present, flying, from
<1>5. ASSUME NEW v \in VertexId
      PROVE  /\ [NoRecord EXCEPT !.owner = p, !.mirrors = from(v)] \in Record
             /\ [rec[v] EXCEPT !.mirrors = @ \cup from(v)] \in Record
             /\ [NoRecord EXCEPT !.owner = p, !.mirrors = from(v)].owner = p
             /\ [rec[v] EXCEPT !.mirrors = @ \cup from(v)].owner = rec[v].owner
  <2>1. rec[v] \in Record
    BY <1>3
  <2> HIDE DEF rec
  <2> QED
    BY <1>3, <2>1 DEF NoRecord, Record, MaybeProc
<1>6. lvid2record' \in [Proc -> [VertexId -> Record]]
  <2> HIDE DEF rec
  <2> QED
    BY <1>0, <1>2, <1>5 DEF Types, GraphTypes
<1>7. ASSUME NEW q \in Proc, NEW v \in vid2lvid'[q]
      PROVE  lvid2record'[q][v].owner \in Proc
  <2>1. CASE q # p
    BY <1>0, <1>2, <2>1 DEF Types, GraphTypes
  <2>2. CASE q = p
    <3>1. v \in present \cup flying /\ v \in VertexId
      BY <1>0, <1>2, <1>3, <2>2 DEF Types, GraphTypes
    <3>2. lvid2record'[p][v] = IF v \in flying THEN [NoRecord EXCEPT !.owner = p, !.mirrors = from(v)]
                                  ELSE [rec[v] EXCEPT !.mirrors = @ \cup from(v)]
      BY <1>0, <1>2, <3>1 DEF Types, GraphTypes
    <3> QED
      BY <1>4, <1>5, <2>2, <3>1, <3>2
  <2> QED
    BY <2>1, <2>2
<1>8. GraphTypes'
  <2>1. /\ vid_buffer' \in [Proc -> SUBSET [vid : VertexId, mirror : Proc]]
        /\ local_data' \in [Proc -> [VertexId -> 0 .. MaxVertices]]
        /\ counts' \in [Proc -> [DOMAIN NoCounts -> Nat]]
        /\ vid2lvid_buffer' \in [Proc -> SUBSET VertexId]
    BY <1>0, <1>2 DEF Types, GraphTypes
  <2>2. vid2lvid' \in [Proc -> SUBSET VertexId]
    BY <1>0, <1>2, <1>3 DEF Types, GraphTypes
  <2>3. \A q \in Proc : \A v \in vid2lvid'[q] : lvid2record'[q][v].owner \in Proc
    BY <1>7
  <2> QED
    BY <1>0, <1>6, <2>1, <2>2, <2>3 DEF GraphTypes
<1>9. NewAreOwned'
  BY <1>0, <1>2 DEF Handshake, Goto, TypeInv, NewAreOwned, Types, ControlTypes, GraphTypes
<1>10. /\ UNCHANGED <<nprocs, round, edges_added, vertices_added>> /\ Goto(p, "sync_meta")
  BY DEF Handshake, input
<1> QED
  BY <1>0, <1>1, <1>8, <1>9, <1>10, SameTypes, StepTypes

\* The vertices that were added, by themselves or as an end of an edge.
Named == Sources(edges_added) \cup Targets(edges_added) \cup {x.vid : x \in vertices_added}

\* The vertices of a local graph, those about to enter it and those masters are
\* told of are vertices that were added.
OnlyNamed ==
    \A p \in Proc : /\ vid2lvid[p] \subseteq Named
                    /\ vid2lvid_buffer[p] \subseteq Named
                    /\ {x.vid : x \in vid_buffer[p]} \subseteq Named

LEMMA FiniteImage ==
  ASSUME NEW S, NEW T, NEW f \in [S -> T], IsFiniteSet(S), \A t \in T : \E s \in S : f[s] = t
  PROVE  IsFiniteSet(T)
<1>1. f \in Surjection(S, T)
  BY DEF Surjection
<1> QED
  BY <1>1, FS_Surjection

LEMMA NamedFinite ==
  ASSUME TypeInv
  PROVE  IsFiniteSet(Named)
<1>1. IsFiniteSet(Sources(edges_added))
  <2> DEFINE f == [e \in edges_added |-> e.source]
  <2>1. f \in [edges_added -> Sources(edges_added)]
        /\ \A v \in Sources(edges_added) : \E e \in edges_added : f[e] = v
    BY DEF Sources
  <2> QED
    BY <2>1, FiniteImage DEF TypeInv, Counted
<1>2. IsFiniteSet(Targets(edges_added))
  <2> DEFINE f == [e \in edges_added |-> e.target]
  <2>1. f \in [edges_added -> Targets(edges_added)]
        /\ \A v \in Targets(edges_added) : \E e \in edges_added : f[e] = v
    BY DEF Targets
  <2> QED
    BY <2>1, FiniteImage DEF TypeInv, Counted
<1>3. IsFiniteSet({x.vid : x \in vertices_added})
  <2> DEFINE f == [x \in vertices_added |-> x.vid]
             T == {x.vid : x \in vertices_added}
  <2>1. f \in [vertices_added -> T] /\ \A v \in T : \E x \in vertices_added : f[x] = v
    OBVIOUS
  <2> QED
    BY <2>1, FiniteImage DEF TypeInv, Counted
<1> QED
  BY <1>1, <1>2, <1>3, FS_Union DEF Named

LEMMA LocalVerticesFinite ==
  ASSUME TypeInv, OnlyNamed, NEW p \in Proc
  PROVE  IsFiniteSet(vid2lvid[p])
  BY NamedFinite, FS_Subset DEF OnlyNamed

LEMMA DegreesTypes ==
  ASSUME TypeInv, NEW m, NEW v
  PROVE  NumInEdges(m, v) \in Nat /\ NumOutEdges(m, v) \in Nat
<1> DEFINE in  == [q \in GatheredBy(m, v) |-> Cardinality({e \in local_edges[q] : e.target = v})]
           out == [q \in GatheredBy(m, v) |-> Cardinality({e \in local_edges[q] : e.source = v})]
<1>1. GatheredBy(m, v) \subseteq Proc /\ IsFiniteSet(GatheredBy(m, v))
  BY Cluster, FS_Subset DEF GatheredBy, TypeInv, Types, ControlTypes
<1>2. ASSUME NEW q \in Proc, NEW S, S \subseteq local_edges[q]
      PROVE  Cardinality(S) \in Nat
  <2>1. S \subseteq edges_added
    BY <1>2 DEF TypeInv, Types, EdgeTypes
  <2> QED
    BY <2>1, FS_Subset, FS_CardinalityType DEF TypeInv, Counted
<1>3. in \in [GatheredBy(m, v) -> Nat] /\ out \in [GatheredBy(m, v) -> Nat]
  BY <1>1, <1>2
<1>4. SumFunction(in) \in Nat /\ SumFunction(out) \in Nat
  <2> HIDE DEF in, out
  <2> QED
    BY <1>1, <1>3, SumType
<1> QED
  BY <1>4 DEF NumInEdges, NumOutEdges

LEMMA SyncMetaTypes ==
  ASSUME TypeInv, UNCHANGED nprocs, SyncMeta
  PROVE  TypeInv'
<1>0. Proc' = Proc /\ MaybeProc' = MaybeProc /\ MasterPair' = MasterPair /\ Record' = Record /\ Types
  BY SameCluster DEF TypeInv
<1>1. SameEdges /\ SameVertices /\ SameMasters /\ SameScores
  BY DEF SyncMeta, input, ingress, edgeExch, scores, masters, assigning, SameEdges,
         SameVertices, SameMasters, SameScores
<1>2. ASSUME NEW q \in Proc, NEW v \in VertexId
      PROVE  /\ lvid2record'[q][v] \in Record
             /\ lvid2record'[q][v].owner = lvid2record[q][v].owner
             /\ local_data'[q][v] \in 0 .. MaxVertices
  <2> DEFINE m == lvid2record[q][v].owner
  <2>1. lvid2record[q][v] \in Record /\ local_data[q][v] \in 0 .. MaxVertices
    BY <1>0 DEF Types, GraphTypes
  <2>2. /\ lvid2record'[q][v] =
             IF ~Applied(q, v) THEN lvid2record[q][v]
             ELSE [lvid2record[q][v] EXCEPT !.num_in_edges = NumInEdges(m, v),
                                            !.num_out_edges = NumOutEdges(m, v),
                                            !.mirrors = lvid2record[m][v].mirrors]
        /\ local_data'[q][v] = IF ~Applied(q, v) THEN local_data[q][v] ELSE local_data[m][v]
    BY DEF SyncMeta
  <2>3. ASSUME Applied(q, v) PROVE m \in Proc
    BY <1>0, <2>3 DEF Applied, Types, GraphTypes
  <2>4. ASSUME Applied(q, v)
        PROVE  lvid2record[m][v].mirrors \in SUBSET Proc /\ local_data[m][v] \in 0 .. MaxVertices
    BY <1>0, <2>3, <2>4 DEF Record, Types, GraphTypes
  <2>5. NumInEdges(m, v) \in Nat /\ NumOutEdges(m, v) \in Nat
    BY DegreesTypes
  <2>6. ASSUME NEW in \in Nat, NEW out \in Nat, NEW set \in SUBSET Proc
        PROVE  LET rec == [lvid2record[q][v] EXCEPT !.num_in_edges = in,
                                                    !.num_out_edges = out,
                                                    !.mirrors = set]
               IN rec \in Record /\ rec.owner = m
    BY <2>1 DEF Record
  <2> HIDE DEF m
  <2>7. CASE ~Applied(q, v)
    <3>1. lvid2record'[q][v] = lvid2record[q][v] /\ local_data'[q][v] = local_data[q][v]
      BY <2>2, <2>7
    <3> QED
      BY <2>1, <3>1
  <2>8. CASE Applied(q, v)
    <3>1. LET rec == [lvid2record[q][v] EXCEPT !.num_in_edges = NumInEdges(m, v),
                                               !.num_out_edges = NumOutEdges(m, v),
                                               !.mirrors = lvid2record[m][v].mirrors]
          IN rec \in Record /\ rec.owner = m
      BY <2>4, <2>5, <2>6, <2>8
    <3> QED
      BY <2>2, <2>4, <2>8, <3>1 DEF m
  <2> QED
    BY <2>7, <2>8
<1>3. GraphTypes'
  <2>1. /\ lvid2record' \in [Proc -> [VertexId -> Record]]
        /\ local_data' \in [Proc -> [VertexId -> 0 .. MaxVertices]]
    <3>1. /\ lvid2record' = [q \in Proc |-> [v \in VertexId |-> lvid2record'[q][v]]]
          /\ local_data' = [q \in Proc |-> [v \in VertexId |-> local_data'[q][v]]]
      BY DEF SyncMeta
    <3> QED
      BY <1>2, <3>1
  <2>2. UNCHANGED <<vid_buffer, vid2lvid, vid2lvid_buffer, counts>>
    BY DEF SyncMeta
  <2>3. /\ vid_buffer' \in [Proc -> SUBSET [vid : VertexId, mirror : Proc]]
        /\ counts' \in [Proc -> [DOMAIN NoCounts -> Nat]]
        /\ vid2lvid_buffer' \in [Proc -> SUBSET VertexId]
        /\ vid2lvid' \in [Proc -> SUBSET VertexId]
    BY <1>0, <2>2 DEF Types, GraphTypes
  <2>4. \A q \in Proc : \A v \in vid2lvid'[q] : lvid2record'[q][v].owner \in Proc
    BY <1>0, <1>2, <2>2 DEF Types, GraphTypes
  <2> QED
    BY <1>0, <2>1, <2>3, <2>4 DEF GraphTypes
<1>4. ControlTypes' /\ NewAreOwned'
  BY <1>0 DEF SyncMeta, input, Types, ControlTypes, NewAreOwned
<1>5. Counted'
  BY <1>1 DEF SameEdges, SameVertices, TypeInv, Counted
<1> QED
  BY <1>0, <1>1, <1>3, <1>4, <1>5, SameTypes DEF TypeInv, Types

LEMMA SetDegreeTypeTypes ==
  ASSUME TypeInv, OnlyNamed, UNCHANGED nprocs, NEW p \in Proc, SetDegreeType(p)
  PROVE  TypeInv'
<1>0. Proc' = Proc /\ MaybeProc' = MaybeProc /\ MasterPair' = MasterPair /\ Record' = Record /\ Types
  BY SameCluster DEF TypeInv
<1>1. SameEdges /\ SameVertices /\ SameMasters /\ SameScores
  BY DEF SetDegreeType, input, ingress, edgeExch, scores, masters, assigning, SameEdges,
         SameVertices, SameMasters, SameScores
<1> DEFINE typed(v) == [lvid2record[p][v] EXCEPT !.dtype = TypeOf(lvid2record[p][v])]
<1>2. ASSUME NEW v \in VertexId
      PROVE  typed(v) \in Record /\ typed(v).owner = lvid2record[p][v].owner
  <2>1. lvid2record[p][v] \in Record
    BY <1>0 DEF Types, GraphTypes
  <2> QED
    BY <2>1 DEF Record, TypeOf
<1>3. lvid2record' = [lvid2record EXCEPT ![p] =
          [v \in VertexId |-> IF v \in vid2lvid[p] THEN typed(v) ELSE lvid2record[p][v]]]
  BY <1>0 DEF SetDegreeType, Types, GraphTypes
<1> HIDE DEF typed
<1>4. lvid2record' \in [Proc -> [VertexId -> Record]]
  BY <1>0, <1>2, <1>3 DEF Types, GraphTypes
<1>5. counts' \in [Proc -> [DOMAIN NoCounts -> Nat]]
  <2>1. \A dtype : \A own : Owned(p, dtype, own) \in Nat
    BY LocalVerticesFinite, FS_Subset, FS_CardinalityType DEF Owned
  <2> DEFINE c == [high_master |-> Owned(p, "HIGH", TRUE), high_mirror |-> Owned(p, "HIGH", FALSE),
                   low_master  |-> Owned(p, "LOW", TRUE),  low_mirror  |-> Owned(p, "LOW", FALSE)]
  <2>5. ASSUME NEW i \in Nat, NEW j \in Nat, NEW k \in Nat, NEW l \in Nat
        PROVE  [high_master |-> i, high_mirror |-> j, low_master |-> k, low_mirror |-> l]
                   \in [DOMAIN NoCounts -> Nat]
    BY DEF NoCounts
  <2>3. c \in [DOMAIN NoCounts -> Nat]
    BY <2>1, <2>5
  <2>4. counts' = [counts EXCEPT ![p] = c]
    BY DEF SetDegreeType
  <2> HIDE DEF c
  <2> QED
    BY <1>0, <2>3, <2>4 DEF Types, GraphTypes
<1>6. GraphTypes'
  <2>1. UNCHANGED <<vid_buffer, vid2lvid, vid2lvid_buffer, local_data>>
    BY DEF SetDegreeType
  <2>2. \A q \in Proc : \A v \in vid2lvid[q] : lvid2record'[q][v].owner \in Proc
    BY <1>0, <1>2, <1>3 DEF Types, GraphTypes
  <2> QED
    BY <1>0, <1>4, <1>5, <2>1, <2>2 DEF Types, GraphTypes
<1>7. NewAreOwned'
  <2>1. pc' = [pc EXCEPT ![p] = "gather_counts"] /\ UNCHANGED vid2lvid_buffer
    BY DEF SetDegreeType, Goto
  <2>2. \A q \in Proc : pc'[q] \in {"vid_flush", "handshake"} => q # p /\ pc'[q] = pc[q]
    BY <1>0, <2>1 DEF Types, ControlTypes
  <2>3. \A q \in Proc : q # p => lvid2record'[q] = lvid2record[q]
    BY <1>0, <1>3 DEF Types, GraphTypes
  <2> QED
    BY <1>0, <2>1, <2>2, <2>3 DEF TypeInv, NewAreOwned
<1>8. /\ UNCHANGED <<nprocs, round, edges_added, vertices_added>> /\ Goto(p, "gather_counts")
  BY DEF SetDegreeType, input
<1> QED
  BY <1>0, <1>1, <1>6, <1>7, <1>8, SameTypes, StepTypes

LEMMA GatherCountsTypes ==
  ASSUME TypeInv, UNCHANGED nprocs, GatherCounts
  PROVE  TypeInv'
<1>0. Proc' = Proc /\ Types
  BY SameCluster DEF TypeInv
<1>1. SameEdges /\ SameVertices /\ SameMasters /\ SameScores
  BY DEF GatherCounts, localg, input, ingress, edgeExch, scores, masters, assigning, SameEdges,
         SameVertices, SameMasters, SameScores
<1>2. ASSUME NEW k \in DOMAIN NoCounts PROVE SumFunction([q \in Proc |-> counts[q][k]]) \in Nat
  <2> DEFINE f == [q \in Proc |-> counts[q][k]]
  <2>1. f \in [Proc -> Nat] /\ IsFiniteSet(Proc)
    BY <1>0, Cluster DEF Types, ControlTypes, GraphTypes
  <2> HIDE DEF f
  <2>2. SumFunction(f) \in Nat
    BY <2>1, SumType
  <2> QED
    BY <2>2 DEF f
<1>3. counts' \in [Proc -> [DOMAIN NoCounts -> Nat]]
  BY <1>2 DEF GatherCounts
<1>4. UNCHANGED <<vid_buffer, local_data, vid2lvid, vid2lvid_buffer, lvid2record>>
  BY DEF GatherCounts, building, localg
<1>5. GraphTypes'
  <2> Record' = Record
    BY SameCluster
  <2> QED
    BY <1>0, <1>3, <1>4 DEF Types, GraphTypes
<1>6. ControlTypes' /\ NewAreOwned'
  BY <1>0 DEF GatherCounts, input, Types, ControlTypes, NewAreOwned
<1>7. Counted'
  BY <1>1 DEF SameEdges, SameVertices, TypeInv, Counted
<1> QED
  BY <1>0, <1>1, <1>5, <1>6, <1>7, SameTypes DEF TypeInv, Types

\* The names only grow.
LEMMA NamesKept ==
  ASSUME Next
  PROVE  /\ edges_added \subseteq edges_added' /\ vertices_added \subseteq vertices_added'
         /\ Named \subseteq Named'

<1>1. CASE \E p \in Proc, s, t \in VertexId : AddEdge(p, s, t)
  <2>1. edges_added \subseteq edges_added' /\ UNCHANGED vertices_added
    BY <1>1 DEF AddEdge
  <2> QED
    BY <2>1 DEF Named, Sources, Targets
<1>2. CASE \E p \in Proc, v \in VertexId : AddVertex(p, v)
  <2>1. vertices_added \subseteq vertices_added' /\ UNCHANGED edges_added
    BY <1>2 DEF AddVertex
  <2> QED
    BY <2>1 DEF Named, Sources, Targets
<1>3. CASE (\E p \in Proc : CallFinalize(p) \/ Step(p)) \/ Collective
  <2>1. CASE (\E p \in Proc : CallFinalize(p)) \/ Collective
    BY <2>1 DEF CallFinalize, Collective, BeginFinalize, Barrier, SyncMeta, GatherCounts,
                input, Named, Sources, Targets
  <2>2. CASE \E p \in Proc : Step(p)
    <3>1. PICK p \in Proc : Step(p)
      BY <2>2
    <3>2. UNCHANGED input
      <4>1. ASSUME SyncHeuristic(p) PROVE UNCHANGED input
        BY <4>1 DEF SyncHeuristic
      <4>2. ASSUME ReceiveVertices(p) PROVE UNCHANGED input
        BY <4>2 DEF ReceiveVertices
      <4>3. ASSUME NEW t, AssignHigh(p, t) \/ AssignLow(p, t) PROVE UNCHANGED input
        BY <4>3 DEF AssignHigh, AssignLow
      <4>4. ASSUME \/ CollectAll(p) \/ CollectEdges(p) \/ AssignEnds(p) \/ LastSynchronize(p)
                   \/ PlaceEdges(p) \/ ReceiveHigh(p)
            PROVE UNCHANGED input
        BY <4>4 DEF CollectAll, CollectEdges, AssignEnds, LastSynchronize, PlaceEdges, ReceiveHigh
      <4>5. ASSUME BuildLocalGraph(p) \/ Handshake(p) \/ SetDegreeType(p) PROVE UNCHANGED input
        BY <4>5 DEF BuildLocalGraph, Handshake, SetDegreeType
      <4> QED
        BY <3>1, <4>1, <4>2, <4>3, <4>4, <4>5 DEF Step
    <3> QED
      BY <3>2 DEF input, Named, Sources, Targets
  <2> QED
    BY <1>3, <2>1, <2>2
<1> QED
  BY <1>1, <1>2, <1>3 DEF Next, Load

LEMMA NextNamed ==
  ASSUME TypeInv, OnlyNamed, Next
  PROVE  OnlyNamed'
<1>0. Proc' = Proc /\ Types
  BY SameCluster DEF TypeInv, Next
<1>1. Named \subseteq Named'
  BY NamesKept
<1>2. ASSUME UNCHANGED <<vid2lvid, vid2lvid_buffer, vid_buffer>> PROVE OnlyNamed'
  BY <1>0, <1>1, <1>2 DEF OnlyNamed
<1>3. ASSUME NEW p \in Proc, BuildLocalGraph(p) PROVE OnlyNamed'
  <2>1. Sources(hybrid_edges[p]) \cup Targets(hybrid_edges[p]) \subseteq Named
    BY <1>0 DEF Types, EdgeTypes, Named, Sources, Targets
  <2>2. /\ vid2lvid_buffer' = [vid2lvid_buffer EXCEPT ![p] =
               (Sources(hybrid_edges[p]) \cup Targets(hybrid_edges[p])) \ vid2lvid[p]]
        /\ UNCHANGED <<vid2lvid, vid_buffer>>
    BY <1>3 DEF BuildLocalGraph
  <2> QED
    BY <1>0, <1>1, <2>1, <2>2 DEF Types, GraphTypes, OnlyNamed
<1>4. ASSUME NEW p \in Proc, ReceiveVertices(p) PROVE OnlyNamed'
  <2> DEFINE new == vid2lvid_buffer[p] \cup ({x.vid : x \in resend_vertex_exchange[p]} \ vid2lvid[p])
             m   == WithHashes(mht[p], new)
  <2>1. new \subseteq Named
    BY <1>0 DEF Types, VertexTypes, OnlyNamed, Named
  <2>2. /\ vid2lvid_buffer' = [vid2lvid_buffer EXCEPT ![p] = new]
        /\ vid_buffer' = [q \in Proc |-> IF q = p THEN vid_buffer[q] ELSE vid_buffer[q] \cup
             {[vid |-> v, mirror |-> p] : v \in {w \in new : OwnerOf(p, m, w) = q}}]
        /\ UNCHANGED vid2lvid
    BY <1>4 DEF ReceiveVertices
  <2> HIDE DEF new, m
  <2> QED
    BY <1>0, <1>1, <2>1, <2>2 DEF Types, GraphTypes, OnlyNamed
<1>5. ASSUME NEW p \in Proc, Handshake(p) PROVE OnlyNamed'
  <2>1. /\ vid2lvid' = [vid2lvid EXCEPT ![p] = vid2lvid[p] \cup vid2lvid_buffer[p] \cup
               ({x.vid : x \in vid_buffer[p]} \ (vid2lvid[p] \cup vid2lvid_buffer[p]))]
        /\ vid2lvid_buffer' = [vid2lvid_buffer EXCEPT ![p] = {}]
        /\ vid_buffer' = [vid_buffer EXCEPT ![p] = {}]
    BY <1>5 DEF Handshake
  <2> QED
    BY <1>0, <1>1, <2>1 DEF Types, GraphTypes, OnlyNamed
<1>6. CASE (\E p \in Proc : Load(p)) \/ Collective
  <2>1. UNCHANGED <<vid2lvid, vid2lvid_buffer, vid_buffer>>
    BY <1>6 DEF Load, AddEdge, AddVertex, CallFinalize, Collective, BeginFinalize, Barrier, SyncMeta,
                GatherCounts, building, localg
  <2> QED
    BY <1>2, <2>1
<1>7. ASSUME NEW p \in Proc, Step(p) PROVE OnlyNamed'
  <2>1. \/ UNCHANGED <<vid2lvid, vid2lvid_buffer, vid_buffer>>
        \/ BuildLocalGraph(p) \/ ReceiveVertices(p) \/ Handshake(p)
    BY <1>7 DEF Step, CollectAll, CollectEdges, AssignHigh, AssignLow, SyncHeuristic, AssignEnds,
                LastSynchronize, PlaceEdges, ReceiveHigh, SetDegreeType, building, localg
  <2> QED
    BY <1>2, <1>3, <1>4, <1>5, <2>1
<1> QED
  BY <1>6, <1>7 DEF Next

\* Every step keeps the types.
LEMMA NextTypes ==
  ASSUME ScoresAreNumbers, TypeInv, OnlyNamed, Next
  PROVE  TypeInv'
<1>0. UNCHANGED nprocs
  BY DEF Next
<1>1. ASSUME NEW p \in Proc, Load(p) PROVE TypeInv'
  BY <1>0, <1>1, AddEdgeTypes, AddVertexTypes, CallFinalizeTypes DEF Load
<1>2. ASSUME NEW p \in Proc, Step(p) PROVE TypeInv'
  <2>1. CASE \E t \in Targets(raw_map[p]) : AssignHigh(p, t) \/ AssignLow(p, t)
    <3>1. Targets(raw_map[p]) \subseteq VertexId
      BY DEF TypeInv, Types, EdgeTypes, Targets, Edge
    <3> QED
      BY <1>0, <2>1, <3>1, AssignHighTypes, AssignLowTypes
  <2>2. CASE CollectAll(p) \/ CollectEdges(p)
    BY <1>0, <2>2, CollectTypes
  <2>3. CASE SyncHeuristic(p)
    BY <1>0, <2>3, SyncHeuristicTypes
  <2>4. CASE AssignEnds(p)
    BY <1>0, <2>4, AssignEndsTypes
  <2>5. CASE LastSynchronize(p)
    BY <1>0, <2>5, LastSynchronizeTypes
  <2>6. CASE PlaceEdges(p)
    BY <1>0, <2>6, PlaceEdgesTypes
  <2>7. CASE ReceiveHigh(p)
    BY <1>0, <2>7, ReceiveHighTypes
  <2>8. CASE BuildLocalGraph(p)
    BY <1>0, <2>8, BuildLocalGraphTypes
  <2>9. CASE ReceiveVertices(p)
    BY <1>0, <2>9, ReceiveVerticesTypes
  <2>10. CASE Handshake(p)
    BY <1>0, <2>10, HandshakeTypes
  <2>11. CASE SetDegreeType(p)
    BY <1>0, <2>11, SetDegreeTypeTypes
  <2> QED
    BY <1>2, <2>1, <2>2, <2>3, <2>4, <2>5, <2>6, <2>7, <2>8, <2>9, <2>10, <2>11 DEF Step
<1>3. CASE Collective
  BY <1>0, <1>3, BarrierTypes, SyncMetaTypes, GatherCountsTypes DEF Collective
<1> QED
  BY <1>1, <1>2, <1>3 DEF Next

\* The invariant of the types.
GingerTypes == TypeInv /\ OnlyNamed

LEMMA GingerTypesInvariant ==
  ASSUME ScoresAreNumbers
  PROVE  Spec => []GingerTypes
<1>1. Init => GingerTypes
  <2>1. Init => OnlyNamed
    BY DEF Init, OnlyNamed
  <2> QED
    BY <2>1, InitTypes DEF GingerTypes
<1>2. GingerTypes /\ [Next]_vars => GingerTypes'
  <2>1. ASSUME GingerTypes, Next PROVE GingerTypes'
    BY <2>1, NextTypes, NextNamed DEF GingerTypes
  <2>2. ASSUME GingerTypes, UNCHANGED vars PROVE GingerTypes'
    <3>1. UNCHANGED nprocs /\ SameControl /\ SameEdges /\ SameVertices /\ SameMasters /\ SameScores /\ SameGraph
      BY <2>2 DEF vars, input, ingress, edgeExch, scores, masters, assigning, building, localg,
                  SameControl, SameEdges, SameVertices, SameMasters, SameScores, SameGraph
    <3>2. Types'
      BY <2>2, <3>1, SameTypes DEF GingerTypes, TypeInv, Types
    <3>3. Proc' = Proc
      BY <3>1, SameCluster
    <3>4. NewAreOwned' /\ Counted'
      BY <2>2, <3>1, <3>3 DEF GingerTypes, TypeInv, NewAreOwned, Counted, SameControl, SameEdges,
                              SameVertices, SameGraph
    <3>5. OnlyNamed'
      BY <2>2, <3>1, <3>3 DEF GingerTypes, OnlyNamed, Named, Sources, Targets, SameEdges,
                              SameVertices, SameGraph
    <3> QED
      BY <3>2, <3>4, <3>5 DEF GingerTypes, TypeInv
  <2> QED
    BY <2>1, <2>2
<1> QED
  BY <1>1, <1>2, PTL DEF Spec

\* The type invariant, for any cluster, hash, threshold and score: the tables
\* stay total, no balance is negative, and every vertex of a local graph has
\* an owner.
THEOREM GingerTypeCorrect ==
  ASSUME ScoresAreNumbers
  PROVE  Spec => []TypeOK
<1>1. GingerTypes => TypeOK
  BY TypesAreTypeOK DEF GingerTypes, TypeInv
<1> QED
  BY <1>1, GingerTypesInvariant, PTL

-----------------------------------------------------------------------------
(* Edges.                                                                  *)

\* Edge e is in p's k-th store.
In(e, k, p) ==
    \/ k = 1 /\ e \in hybrid_edge_exchange[p]
    \/ k = 2 /\ e \in raw_map[p]
    \/ k = 3 /\ e \in high_edge_exchange[p]
    \/ k = 4 /\ e \in low_edge_exchange[p]
    \/ k = 5 /\ e \in hybrid_edges[p]
    \/ k = 6 /\ e \in local_edges[p]

OnePlace ==
    \A e \in edges_added : \E k \in 1 .. 6, p \in Proc :
        \A l \in 1 .. 6, q \in Proc : In(e, l, q) <=> l = k /\ q = p

\* The map of a process that is not assigning is empty: what collects the
\* edges overwrites it.
MapEmpty == \A p \in Proc : pc[p] \notin {"assign", "sync"} => raw_map[p] = {}

EdgeInv == OnePlace /\ MapEmpty

LEMMA OnePlaceIsOne ==
  ASSUME OnePlace
  PROVE  EdgeAtOnePlace
<1> SUFFICES ASSUME NEW e \in edges_added
             PROVE Cardinality({x \in (DOMAIN Stores) \X Proc : e \in Stores[x[1]][x[2]]}) = 1
  BY DEF EdgeAtOnePlace
<1>1. DOMAIN Stores = 1 .. 6
  BY DEF Stores
<1>2. \A k \in 1 .. 6 : \A p \in Proc : e \in Stores[k][p] <=> In(e, k, p)
  BY DEF Stores, In
<1>3. PICK k \in 1 .. 6, p \in Proc : \A l \in 1 .. 6, q \in Proc : In(e, l, q) <=> l = k /\ q = p
  BY DEF OnePlace
<1>4. {x \in (1 .. 6) \X Proc : e \in Stores[x[1]][x[2]]} = {<<k, p>>}
  BY <1>2, <1>3
<1> QED
  BY <1>1, <1>4, FS_Singleton

\* The edges of a set each go to one place, and the others stay.
LEMMA EdgesMove ==
  ASSUME OnePlace, UNCHANGED <<nprocs, edges_added>>, NEW S, NEW to,
         \A e \in S : to[e] \in (1 .. 6) \X Proc,
         \A e \in edges_added : \A l \in 1 .. 6, q \in Proc :
             In(e, l, q)' <=> IF e \in S THEN to[e] = <<l, q>> ELSE In(e, l, q)
  PROVE  OnePlace'
<1>0. Proc' = Proc
  BY SameCluster
<1> SUFFICES ASSUME NEW e \in edges_added
             PROVE  \E k \in 1 .. 6, p \in Proc :
                        \A l \in 1 .. 6, q \in Proc : In(e, l, q)' <=> l = k /\ q = p
  BY <1>0 DEF OnePlace
<1>1. CASE e \in S
  <2>1. PICK k \in 1 .. 6, p \in Proc : to[e] = <<k, p>>
    BY <1>1
  <2>2. \A l \in 1 .. 6, q \in Proc : In(e, l, q)' <=> l = k /\ q = p
    BY <1>1, <2>1
  <2> QED
    BY <2>2
<1>2. CASE e \notin S
  BY <1>2 DEF OnePlace
<1> QED
  BY <1>1, <1>2

\* An edge that is in a store is in no other one.
LEMMA NotElsewhere ==
  ASSUME OnePlace, NEW e \in edges_added, NEW k \in 1 .. 6, NEW p \in Proc, In(e, k, p)
  PROVE  \A l \in 1 .. 6, q \in Proc : In(e, l, q) <=> l = k /\ q = p
  BY DEF OnePlace

SameStores == UNCHANGED <<hybrid_edge_exchange, high_edge_exchange, low_edge_exchange, raw_map,
                          hybrid_edges, local_edges>>

LEMMA TakeEdges ==
  ASSUME TypeInv, EdgeInv, UNCHANGED nprocs, NEW p \in Proc, CollectAll(p) \/ ReceiveHigh(p)
  PROVE  EdgeInv'
<1> DEFINE S  == hybrid_edge_exchange[p]
           to == [e \in S |-> <<5, p>>]
<1>0. Proc' = Proc /\ Types /\ OnePlace
  BY SameCluster DEF TypeInv, EdgeInv
<1>1. /\ hybrid_edges' = [hybrid_edges EXCEPT ![p] = @ \cup S]
      /\ hybrid_edge_exchange' = [hybrid_edge_exchange EXCEPT ![p] = {}]
      /\ UNCHANGED <<edges_added, raw_map, high_edge_exchange, low_edge_exchange, local_edges>>
      /\ pc' = [pc EXCEPT ![p] = "full_barrier"] /\ pc[p] \in {"alone", "receive_high"}
  BY DEF CollectAll, ReceiveHigh, Goto, input, edgeExch, assigning, localg
<1>2. ASSUME NEW e \in edges_added, NEW l \in 1 .. 6, NEW q \in Proc
      PROVE  In(e, l, q)' <=> IF e \in S THEN to[e] = <<l, q>> ELSE In(e, l, q)
  <2>1. In(e, l, q)' <=>
          \/ l = 1 /\ e \in hybrid_edge_exchange[q] /\ q # p
          \/ l = 5 /\ (e \in hybrid_edges[q] \/ (q = p /\ e \in S))
          \/ l \notin {1, 5} /\ In(e, l, q)
    BY <1>0, <1>1 DEF In, Types, EdgeTypes
  <2>2. In(e, 1, p) <=> e \in S
    BY DEF In
  <2>3. e \in S => \A k \in 1 .. 6, r \in Proc : In(e, k, r) <=> k = 1 /\ r = p
    BY <1>0, <2>2, NotElsewhere
  <2> QED
    BY <2>1, <2>2, <2>3 DEF In
<1>3. OnePlace'
  <2>1. \A e \in S : to[e] \in (1 .. 6) \X Proc
    OBVIOUS
  <2> HIDE DEF S, to
  <2> QED
    BY <1>0, <1>1, <1>2, <2>1, EdgesMove
<1>4. MapEmpty'
  BY <1>0, <1>1 DEF EdgeInv, MapEmpty, Types, ControlTypes
<1> QED
  BY <1>3, <1>4 DEF EdgeInv

LEMMA CollectEdgesEdges ==
  ASSUME TypeInv, EdgeInv, UNCHANGED nprocs, NEW p \in Proc, CollectEdges(p)
  PROVE  EdgeInv'
<1> DEFINE S  == hybrid_edge_exchange[p]
           to == [e \in S |-> <<2, p>>]
<1>0. Proc' = Proc /\ Types /\ OnePlace
  BY SameCluster DEF TypeInv, EdgeInv
<1>1. /\ raw_map' = [raw_map EXCEPT ![p] = S]
      /\ hybrid_edge_exchange' = [hybrid_edge_exchange EXCEPT ![p] = {}]
      /\ UNCHANGED <<edges_added, hybrid_edges, high_edge_exchange, low_edge_exchange, local_edges>>
      /\ pc' = [pc EXCEPT ![p] = "assign"] /\ pc[p] = "collect"
  BY DEF CollectEdges, Goto, input, edgeExch, building, localg
<1>2. raw_map[p] = {}
  BY <1>1 DEF EdgeInv, MapEmpty
<1>3. ASSUME NEW e \in edges_added, NEW l \in 1 .. 6, NEW q \in Proc
      PROVE  In(e, l, q)' <=> IF e \in S THEN to[e] = <<l, q>> ELSE In(e, l, q)
  <2>1. In(e, l, q)' <=>
          \/ l = 1 /\ e \in hybrid_edge_exchange[q] /\ q # p
          \/ l = 2 /\ (e \in raw_map[q] \/ (q = p /\ e \in S))
          \/ l \notin {1, 2} /\ In(e, l, q)
    BY <1>0, <1>1, <1>2 DEF In, Types, EdgeTypes
  <2>2. In(e, 1, p) <=> e \in S
    BY DEF In
  <2>3. e \in S => \A k \in 1 .. 6, r \in Proc : In(e, k, r) <=> k = 1 /\ r = p
    BY <1>0, <2>2, NotElsewhere
  <2> QED
    BY <2>1, <2>2, <2>3 DEF In
<1>4. OnePlace'
  <2>1. \A e \in S : to[e] \in (1 .. 6) \X Proc
    OBVIOUS
  <2> HIDE DEF S, to
  <2> QED
    BY <1>0, <1>1, <1>3, <2>1, EdgesMove
<1>5. MapEmpty'
  BY <1>0, <1>1 DEF EdgeInv, MapEmpty, Types, ControlTypes, EdgeTypes
<1> QED
  BY <1>4, <1>5 DEF EdgeInv

LEMMA AssignHighEdges ==
  ASSUME TypeInv, EdgeInv, UNCHANGED nprocs, NEW p \in Proc, NEW t \in Targets(raw_map[p]),
         AssignHigh(p, t)
  PROVE  EdgeInv'
<1> DEFINE S  == Records(p, t)
           to == [e \in S |-> <<3, Hash(t)>>]
<1>0. Proc' = Proc /\ Types /\ OnePlace
  BY SameCluster DEF TypeInv, EdgeInv
<1>1. /\ high_edge_exchange' = [high_edge_exchange EXCEPT ![Hash(t)] = @ \cup S]
      /\ raw_map' = [raw_map EXCEPT ![p] = @ \ S]
      /\ UNCHANGED <<edges_added, hybrid_edge_exchange, low_edge_exchange, hybrid_edges, local_edges>>
      /\ pc[p] = "assign" /\ \E l \in {"sync", "assign"} : pc' = [pc EXCEPT ![p] = l]
  BY DEF AssignHigh, AfterTarget, input, ingress, building, localg
<1>2. Hash(t) \in Proc
  BY <1>0, Cluster DEF Types, ControlTypes, EdgeTypes, Edge, Targets
<1>3. ASSUME NEW e \in edges_added, NEW l \in 1 .. 6, NEW q \in Proc
      PROVE  In(e, l, q)' <=> IF e \in S THEN to[e] = <<l, q>> ELSE In(e, l, q)
  <2>0. S \subseteq raw_map[p]
    BY RecordsFinite
  <2> HIDE DEF S
  <2>1. In(e, l, q)' <=>
          \/ l = 2 /\ e \in raw_map[q] /\ ~(q = p /\ e \in S)
          \/ l = 3 /\ (e \in high_edge_exchange[q] \/ (q = Hash(t) /\ e \in S))
          \/ l \notin {2, 3} /\ In(e, l, q)
    BY <1>0, <1>1, <1>2 DEF In, Types, EdgeTypes
  <2>2. e \in S => In(e, 2, p)
    BY <2>0 DEF In
  <2>3. e \in S => \A k \in 1 .. 6, r \in Proc : In(e, k, r) <=> k = 2 /\ r = p
    BY <1>0, <2>2, NotElsewhere
  <2> QED
    BY <2>1, <2>2, <2>3 DEF In
<1>4. OnePlace'
  <2>1. \A e \in S : to[e] \in (1 .. 6) \X Proc
    BY <1>2
  <2> HIDE DEF S, to
  <2> QED
    BY <1>0, <1>1, <1>3, <2>1, EdgesMove
<1>5. MapEmpty'
  BY <1>0, <1>1 DEF EdgeInv, MapEmpty, Types, ControlTypes, EdgeTypes
<1> QED
  BY <1>4, <1>5 DEF EdgeInv

LEMMA AssignLowEdges ==
  ASSUME ScoresAreNumbers, TypeInv, EdgeInv, UNCHANGED nprocs, NEW p \in Proc,
         NEW t \in Targets(raw_map[p]), AssignLow(p, t)
  PROVE  EdgeInv'
<1> DEFINE S     == Records(p, t)
           owner == GingerToProc(p, S)
           to    == [e \in S |-> <<4, owner>>]
<1>0. Proc' = Proc /\ Types /\ OnePlace
  BY SameCluster DEF TypeInv, EdgeInv
<1>1. /\ low_edge_exchange' = [low_edge_exchange EXCEPT ![owner] = @ \cup S]
      /\ raw_map' = [raw_map EXCEPT ![p] = @ \ S]
      /\ UNCHANGED <<edges_added, hybrid_edge_exchange, high_edge_exchange, hybrid_edges, local_edges>>
      /\ pc[p] = "assign" /\ \E l \in {"sync", "assign"} : pc' = [pc EXCEPT ![p] = l]
  BY DEF AssignLow, AfterTarget, input, ingress, building, localg
<1>2. owner \in Proc
  BY AssignLowTypes
<1> HIDE DEF owner
<1>3. ASSUME NEW e \in edges_added, NEW l \in 1 .. 6, NEW q \in Proc
      PROVE  In(e, l, q)' <=> IF e \in S THEN to[e] = <<l, q>> ELSE In(e, l, q)
  <2>0. S \subseteq raw_map[p]
    BY RecordsFinite
  <2> HIDE DEF S
  <2>1. In(e, l, q)' <=>
          \/ l = 2 /\ e \in raw_map[q] /\ ~(q = p /\ e \in S)
          \/ l = 4 /\ (e \in low_edge_exchange[q] \/ (q = owner /\ e \in S))
          \/ l \notin {2, 4} /\ In(e, l, q)
    BY <1>0, <1>1, <1>2 DEF In, Types, EdgeTypes
  <2>2. e \in S => In(e, 2, p)
    BY <2>0 DEF In
  <2>3. e \in S => \A k \in 1 .. 6, r \in Proc : In(e, k, r) <=> k = 2 /\ r = p
    BY <1>0, <2>2, NotElsewhere
  <2> QED
    BY <2>1, <2>2, <2>3 DEF In
<1>4. OnePlace'
  <2>1. \A e \in S : to[e] \in (1 .. 6) \X Proc
    BY <1>2
  <2> HIDE DEF S, to
  <2> QED
    BY <1>0, <1>1, <1>3, <2>1, EdgesMove
<1>5. MapEmpty'
  BY <1>0, <1>1 DEF EdgeInv, MapEmpty, Types, ControlTypes, EdgeTypes
<1> QED
  BY <1>4, <1>5 DEF EdgeInv

LEMMA PlaceEdgesEdges ==
  ASSUME TypeInv, EdgeInv, UNCHANGED nprocs, NEW p \in Proc, PlaceEdges(p)
  PROVE  EdgeInv'
<1> DEFINE low  == low_edge_exchange[p]
           high == high_edge_exchange[p]
           m    == WithHashes(mht[p], Sources(low \cup high))
           to   == [e \in low \cup high |-> IF e \in low \/ HighOwner(m, e) = p THEN <<5, p>>
                                            ELSE <<1, HighOwner(m, e)>>]
<1>0. Proc' = Proc /\ Types /\ OnePlace
  BY SameCluster DEF TypeInv, EdgeInv
<1>1. /\ hybrid_edges' = [hybrid_edges EXCEPT ![p] = @ \cup low \cup SentTo(p, m, p)]
      /\ hybrid_edge_exchange' = [q \in Proc |-> IF q = p THEN hybrid_edge_exchange[q]
                                                 ELSE hybrid_edge_exchange[q] \cup SentTo(p, m, q)]
      /\ low_edge_exchange' = [low_edge_exchange EXCEPT ![p] = {}]
      /\ high_edge_exchange' = [high_edge_exchange EXCEPT ![p] = {}]
      /\ UNCHANGED <<edges_added, raw_map, local_edges>>
      /\ pc' = [pc EXCEPT ![p] = "resend_flush"] /\ pc[p] = "place"
  BY DEF PlaceEdges, Kept, Goto, input, assigning, localg
<1>2. \A e \in high : HighOwner(m, e) \in Proc
  <2>1. mht[p] \in [VertexId -> MaybeProc]
    BY <1>0 DEF Types, MasterTypes
  <2>2. \A e \in high : e.source \in VertexId /\ e.source \in Sources(low \cup high)
    BY <1>0 DEF Types, EdgeTypes, Edge, Sources
  <2>3. \A v \in Sources(low \cup high) \cap VertexId : WithHashes(mht[p], Sources(low \cup high))[v] \in Proc
    BY <1>0, <2>1, TableTypes DEF Types, ControlTypes
  <2> QED
    BY <2>2, <2>3 DEF HighOwner
<1>3. \A q : SentTo(p, m, q) = {e \in high : HighOwner(m, e) = q}
  BY DEF SentTo
<1> HIDE DEF m
<1>4. ASSUME NEW e \in edges_added, NEW l \in 1 .. 6, NEW q \in Proc
      PROVE  In(e, l, q)' <=> IF e \in low \cup high THEN to[e] = <<l, q>> ELSE In(e, l, q)
  <2>1. In(e, l, q)' <=>
          \/ l = 1 /\ (e \in hybrid_edge_exchange[q] \/ (q # p /\ e \in high /\ HighOwner(m, e) = q))
          \/ l = 3 /\ e \in high_edge_exchange[q] /\ q # p
          \/ l = 4 /\ e \in low_edge_exchange[q] /\ q # p
          \/ l = 5 /\ (e \in hybrid_edges[q]
                         \/ (q = p /\ (e \in low \/ (e \in high /\ HighOwner(m, e) = p))))
          \/ l \notin {1, 3, 4, 5} /\ In(e, l, q)
    BY <1>0, <1>1, <1>3 DEF In, Types, EdgeTypes
  <2>2. (In(e, 3, p) <=> e \in high) /\ (In(e, 4, p) <=> e \in low)
    BY DEF In
  <2>3. e \in high => \A k \in 1 .. 6, r \in Proc : In(e, k, r) <=> k = 3 /\ r = p
    BY <1>0, <2>2, NotElsewhere
  <2>4. e \in low => \A k \in 1 .. 6, r \in Proc : In(e, k, r) <=> k = 4 /\ r = p
    BY <1>0, <2>2, NotElsewhere
  <2>5. CASE e \in high /\ e \notin low
    <3>1. In(e, l, q)' <=> \/ l = 1 /\ q # p /\ HighOwner(m, e) = q
                           \/ l = 5 /\ q = p /\ HighOwner(m, e) = p
      BY <2>1, <2>3, <2>5 DEF In
    <3>2. to[e] = IF HighOwner(m, e) = p THEN <<5, p>> ELSE <<1, HighOwner(m, e)>>
      BY <2>5
    <3> HIDE DEF low, high, to
    <3> QED
      BY <2>5, <3>1, <3>2
  <2>6. CASE e \in low
    <3>1. In(e, l, q)' <=> l = 5 /\ q = p
      BY <2>1, <2>2, <2>3, <2>4, <2>6 DEF In
    <3>2. to[e] = <<5, p>>
      BY <2>6
    <3> HIDE DEF low, high, to
    <3> QED
      BY <2>6, <3>1, <3>2
  <2>7. CASE e \notin low \cup high
    BY <2>1, <2>2, <2>7 DEF In
  <2> QED
    BY <2>5, <2>6, <2>7
<1>5. OnePlace'
  <2>1. \A e \in low \cup high : to[e] \in (1 .. 6) \X Proc
    BY <1>2
  <2> DEFINE S == low \cup high
  <2> HIDE DEF S, to
  <2>2. \A e \in edges_added : \A l \in 1 .. 6, q \in Proc :
             In(e, l, q)' <=> IF e \in S THEN to[e] = <<l, q>> ELSE In(e, l, q)
    BY <1>4 DEF S
  <2>3. \A e \in S : to[e] \in (1 .. 6) \X Proc
    BY <2>1 DEF S
  <2> QED
    BY <1>0, <1>1, <2>2, <2>3, EdgesMove
<1>6. MapEmpty'
  BY <1>0, <1>1 DEF EdgeInv, MapEmpty, Types, ControlTypes
<1> QED
  BY <1>5, <1>6 DEF EdgeInv

LEMMA BuildLocalGraphEdges ==
  ASSUME TypeInv, EdgeInv, UNCHANGED nprocs, NEW p \in Proc, BuildLocalGraph(p)
  PROVE  EdgeInv'
<1> DEFINE S  == hybrid_edges[p]
           to == [e \in S |-> <<6, p>>]
<1>0. Proc' = Proc /\ Types /\ OnePlace
  BY SameCluster DEF TypeInv, EdgeInv
<1>1. /\ local_edges' = [local_edges EXCEPT ![p] = @ \cup S]
      /\ hybrid_edges' = [hybrid_edges EXCEPT ![p] = {}]
      /\ UNCHANGED <<edges_added, raw_map, high_edge_exchange, low_edge_exchange,
                     hybrid_edge_exchange>>
      /\ pc' = [pc EXCEPT ![p] = "vertex_flush"] /\ pc[p] = "build"
  BY DEF BuildLocalGraph, Goto, input, edgeExch, assigning, localg
<1>2. ASSUME NEW e \in edges_added, NEW l \in 1 .. 6, NEW q \in Proc
      PROVE  In(e, l, q)' <=> IF e \in S THEN to[e] = <<l, q>> ELSE In(e, l, q)
  <2>1. In(e, l, q)' <=>
          \/ l = 5 /\ e \in hybrid_edges[q] /\ q # p
          \/ l = 6 /\ (e \in local_edges[q] \/ (q = p /\ e \in S))
          \/ l \notin {5, 6} /\ In(e, l, q)
    BY <1>0, <1>1 DEF In, Types, EdgeTypes
  <2>2. In(e, 5, p) <=> e \in S
    BY DEF In
  <2>3. e \in S => \A k \in 1 .. 6, r \in Proc : In(e, k, r) <=> k = 5 /\ r = p
    BY <1>0, <2>2, NotElsewhere
  <2> QED
    BY <2>1, <2>2, <2>3 DEF In
<1>3. OnePlace'
  <2>1. \A e \in S : to[e] \in (1 .. 6) \X Proc
    OBVIOUS
  <2> HIDE DEF S, to
  <2> QED
    BY <1>0, <1>1, <1>2, <2>1, EdgesMove
<1>4. MapEmpty'
  BY <1>0, <1>1 DEF EdgeInv, MapEmpty, Types, ControlTypes
<1> QED
  BY <1>3, <1>4 DEF EdgeInv

LEMMA AddEdgeEdges ==
  ASSUME TypeInv, EdgeInv, UNCHANGED nprocs, NEW p \in Proc, NEW s \in VertexId, NEW t \in VertexId,
         AddEdge(p, s, t)
  PROVE  EdgeInv'
<1> DEFINE same == {e \in edges_added : e.source = s /\ e.target = t}
           rec  == [source |-> s, target |-> t, id |-> Cardinality(same) + 1]
<1>0. Proc' = Proc /\ Types /\ OnePlace
  BY SameCluster DEF TypeInv, EdgeInv
<1>1. /\ edges_added' = edges_added \cup {rec}
      /\ hybrid_edge_exchange' = [hybrid_edge_exchange EXCEPT ![Hash(t)] = @ \cup {rec}]
      /\ UNCHANGED <<raw_map, high_edge_exchange, low_edge_exchange, hybrid_edges, local_edges, pc>>
  BY DEF AddEdge, edgeExch, assigning, building, localg
<1>2. rec \notin edges_added
  BY EdgeIsNew
<1>3. Hash(t) \in Proc
  BY <1>0, Cluster DEF Types, ControlTypes
<1> HIDE DEF rec
<1>4. ASSUME NEW e \in edges_added', NEW l \in 1 .. 6, NEW q \in Proc
      PROVE  In(e, l, q)' <=> IF e = rec THEN l = 1 /\ q = Hash(t) ELSE In(e, l, q)
  <2>1. ~In(rec, l, q)
    BY <1>0, <1>2 DEF In, Types, EdgeTypes
  <2>2. In(e, l, q)' <=> In(e, l, q) \/ (l = 1 /\ q = Hash(t) /\ e = rec)
    BY <1>0, <1>1, <1>3 DEF In, Types, EdgeTypes
  <2> QED
    BY <2>1, <2>2
<1>5. ASSUME NEW e \in edges_added'
      PROVE  \E k \in 1 .. 6, r \in Proc : \A l \in 1 .. 6, q \in Proc : In(e, l, q)' <=> l = k /\ q = r
  <2>1. CASE e = rec
    BY <1>3, <1>4, <2>1
  <2>2. CASE e # rec
    <3>1. e \in edges_added
      BY <1>1, <2>2
    <3> QED
      BY <1>0, <1>4, <2>2, <3>1 DEF OnePlace
  <2> QED
    BY <2>1, <2>2
<1>6. OnePlace'
  BY <1>0, <1>5 DEF OnePlace
<1>7. MapEmpty'
  BY <1>0, <1>1 DEF EdgeInv, MapEmpty
<1> QED
  BY <1>6, <1>7 DEF EdgeInv

\* The other steps move no edge.
LEMMA EdgesStay ==
  ASSUME EdgeInv, UNCHANGED <<nprocs, edges_added>>, SameStores,
         \A p \in Proc : pc'[p] \notin {"assign", "sync"} =>
             pc[p] \notin {"assign", "sync"} \/ raw_map[p] = {}
  PROVE  EdgeInv'
<1>0. Proc' = Proc
  BY SameCluster
<1>1. OnePlace'
  BY <1>0 DEF EdgeInv, OnePlace, In, SameStores
<1>2. MapEmpty'
  BY <1>0 DEF EdgeInv, MapEmpty, SameStores
<1> QED
  BY <1>1, <1>2 DEF EdgeInv

LEMMA OtherEdges ==
  ASSUME TypeInv, EdgeInv, UNCHANGED nprocs, NEW p \in Proc,
         \/ \E v \in VertexId : AddVertex(p, v)
         \/ CallFinalize(p) \/ Collective \/ SyncHeuristic(p) \/ AssignEnds(p)
         \/ LastSynchronize(p) \/ ReceiveVertices(p) \/ Handshake(p) \/ SetDegreeType(p)
  PROVE  EdgeInv'
<1>1. CASE (\E v \in VertexId : AddVertex(p, v)) \/ CallFinalize(p)
  <2>1. UNCHANGED edges_added /\ SameStores
    BY <1>1 DEF AddVertex, CallFinalize, SameStores, input, ingress, edgeExch, assigning, building, localg
  <2>2. \A q \in Proc : pc'[q] = pc[q] \/ pc[q] = "load"
    BY <1>1 DEF AddVertex, CallFinalize, Goto, TypeInv, Types, ControlTypes
  <2> QED
    BY <2>1, <2>2, EdgesStay
<1>2. CASE Collective
  <2>1. UNCHANGED edges_added /\ SameStores
    BY <1>2 DEF Collective, BeginFinalize, Barrier, SyncMeta, GatherCounts,
                SameStores, input, ingress, edgeExch, assigning, building, localg
  <2>2. \A q \in Proc : pc[q] \notin {"assign", "sync"}
    BY <1>2 DEF Collective, BeginFinalize, Barrier, SyncMeta, GatherCounts, AllAt, After
  <2> QED
    BY <2>1, <2>2, EdgesStay
<1>3. CASE SyncHeuristic(p)
  <2>1. UNCHANGED edges_added /\ SameStores
    BY <1>3 DEF SyncHeuristic, SameStores, input, ingress, edgeExch, assigning, building, localg
  <2>2. \A q \in Proc : pc'[q] = pc[q] \/ pc'[q] = "assign"
    BY <1>3 DEF SyncHeuristic, Goto, TypeInv, Types, ControlTypes
  <2> QED
    BY <2>1, <2>2, EdgesStay
<1>4. CASE AssignEnds(p) \/ LastSynchronize(p)
  <2>1. UNCHANGED edges_added /\ SameStores
    BY <1>4 DEF AssignEnds, LastSynchronize, SameStores, input, ingress, edgeExch, assigning,
                building, localg
  <2>2. \A q \in Proc : pc'[q] = pc[q] \/ pc[q] = "mht_recv" \/ raw_map[q] = {}
    BY <1>4 DEF AssignEnds, LastSynchronize, Goto, TypeInv, Types, ControlTypes
  <2> QED
    BY <2>1, <2>2, EdgesStay
<1>5. CASE ReceiveVertices(p)
  <2>1. UNCHANGED edges_added /\ SameStores
    BY <1>5 DEF ReceiveVertices, SameStores, input, ingress, edgeExch, assigning
  <2>2. \A q \in Proc : pc'[q] = pc[q] \/ pc[q] = "vertices"
    BY <1>5 DEF ReceiveVertices, Goto, TypeInv, Types, ControlTypes
  <2> QED
    BY <2>1, <2>2, EdgesStay
<1>6. CASE Handshake(p) \/ SetDegreeType(p)
  <2>1. UNCHANGED edges_added /\ SameStores
    BY <1>6 DEF Handshake, SetDegreeType, SameStores, input, ingress, edgeExch, assigning
  <2>2. \A q \in Proc : pc'[q] = pc[q] \/ pc[q] \in {"handshake", "degree_type"}
    BY <1>6 DEF Handshake, SetDegreeType, Goto, TypeInv, Types, ControlTypes
  <2> QED
    BY <2>1, <2>2, EdgesStay
<1> QED
  BY <1>1, <1>2, <1>3, <1>4, <1>5, <1>6

LEMMA NextEdges ==
  ASSUME ScoresAreNumbers, TypeInv, EdgeInv, Next
  PROVE  EdgeInv'
<1>0. UNCHANGED nprocs
  BY DEF Next
<1>1. ASSUME NEW p \in Proc, Load(p) PROVE EdgeInv'
  BY <1>0, <1>1, AddEdgeEdges, OtherEdges DEF Load
<1>2. ASSUME NEW p \in Proc, Step(p) PROVE EdgeInv'
  <2>1. CASE \E t \in Targets(raw_map[p]) : AssignHigh(p, t) \/ AssignLow(p, t)
    BY <1>0, <2>1, AssignHighEdges, AssignLowEdges
  <2>2. CASE CollectAll(p) \/ ReceiveHigh(p)
    BY <1>0, <2>2, TakeEdges
  <2>3. CASE CollectEdges(p)
    BY <1>0, <2>3, CollectEdgesEdges
  <2>4. CASE PlaceEdges(p)
    BY <1>0, <2>4, PlaceEdgesEdges
  <2>5. CASE BuildLocalGraph(p)
    BY <1>0, <2>5, BuildLocalGraphEdges
  <2>6. CASE \/ SyncHeuristic(p) \/ AssignEnds(p) \/ LastSynchronize(p) \/ ReceiveVertices(p)
             \/ Handshake(p) \/ SetDegreeType(p)
    BY <1>0, <2>6, OtherEdges
  <2> QED
    BY <1>2, <2>1, <2>2, <2>3, <2>4, <2>5, <2>6 DEF Step
<1>3. CASE Collective
  <2>1. PICK p \in Proc : TRUE
    BY Cluster DEF TypeInv, Types, ControlTypes, Proc
  <2> QED
    BY <1>0, <1>3, <2>1, OtherEdges
<1> QED
  BY <1>1, <1>2, <1>3 DEF Next

LEMMA EdgeInvariant ==
  ASSUME ScoresAreNumbers
  PROVE  Spec => []EdgeInv
<1>1. Init => EdgeInv
  BY DEF Init, EdgeInv, OnePlace, MapEmpty
<1>2. GingerTypes /\ EdgeInv /\ [Next]_vars => EdgeInv'
  <2>1. ASSUME GingerTypes, EdgeInv, Next PROVE EdgeInv'
    BY <2>1, NextEdges DEF GingerTypes
  <2>2. ASSUME EdgeInv, UNCHANGED vars PROVE EdgeInv'
    <3>1. UNCHANGED <<nprocs, edges_added, pc>> /\ SameStores
      BY <2>2 DEF vars, input, ingress, edgeExch, assigning, building, localg, SameStores
    <3> QED
      BY <2>2, <3>1, EdgesStay
  <2> QED
    BY <2>1, <2>2
<1> QED
  BY <1>1, <1>2, GingerTypesInvariant, PTL DEF Spec

\* No edge is lost and none is kept twice, for any cluster, input, hash,
\* threshold and score, any number of finalizations, and whichever processes
\* are ahead of the others.
THEOREM NoEdgeLost ==
  ASSUME ScoresAreNumbers
  PROVE  Spec => []EdgeAtOnePlace
<1>1. EdgeInv => EdgeAtOnePlace
  BY OnePlaceIsOne DEF EdgeInv
<1> QED
  BY <1>1, EdgeInvariant, PTL

-----------------------------------------------------------------------------
(* Balances.                                                               *)

\* The total of what arrives and of what is left is the total.
LEMMA TotalSplit ==
  ASSUME NEW s \in Seq([Proc -> Nat]), NEW n \in 0 .. Len(s), NEW q \in Proc
  PROVE  Total(SubSeq(s, 1, n))[q] + Total(SubSeq(s, n + 1, Len(s)))[q] = Total(s)[q]
<1> DEFINE T(a, k) == Total(SubSeq(s, a, k))[q]
           Bad     == {k \in Nat : k >= n /\ k <= Len(s) /\ T(1, n) + T(n + 1, k) # T(1, k)}
<1>1. ASSUME NEW a \in 1 .. n + 1, NEW k \in Nat, k <= Len(s)
      PROVE  SubSeq(s, a, k) \in Seq([Proc -> Nat]) /\ T(a, k) \in Nat
  <2>1. SubSeq(s, a, k) \in Seq([Proc -> Nat])
    <3>1. \A i \in a .. k : s[i] \in [Proc -> Nat]
      BY <1>1
    <3> QED
      BY <1>1, <3>1, SubSeqProperties
  <2> QED
    BY <2>1, TotalType
<1>2. ASSUME NEW a \in 1 .. n + 1, NEW k \in Nat, a <= k + 1, k + 1 <= Len(s)
      PROVE  T(a, k + 1) = T(a, k) + s[k + 1][q]
  <2>1. SubSeq(s, a, k + 1) = Append(SubSeq(s, a, k), s[k + 1])
    BY <1>2
  <2>2. s[k + 1] \in [Proc -> Nat]
    BY <1>2
  <2>3. SubSeq(s, a, k) \in Seq([Proc -> Nat])
    BY <1>1, <1>2
  <2> QED
    BY <2>1, <2>2, <2>3, TotalAppend
<1>3. ASSUME Bad # {} PROVE FALSE
  <2>1. PICK k \in Bad : \A l \in Bad : k <= l
    <3>1. Bad \subseteq Nat
      OBVIOUS
    <3> HIDE DEF Bad
    <3> QED
      BY <1>3, <3>1, LeastNumber
  <2>2. k \in Nat /\ n \in Nat /\ k >= n /\ k <= Len(s) /\ T(1, n) + T(n + 1, k) # T(1, k)
    OBVIOUS
  <2>3. CASE k = n
    <3>1. SubSeq(s, n + 1, n) = <<>>
      BY <2>2
    <3>2. T(n + 1, n) = 0
      BY <3>1, TotalNone
    <3>3. T(1, n) \in Nat
      BY <1>1, <2>2
    <3> HIDE DEF T
    <3> QED
      BY <2>2, <2>3, <3>2, <3>3
  <2>4. CASE k # n
    <3>1. k - 1 \in Nat /\ k - 1 >= n /\ k - 1 <= Len(s) /\ k - 1 \notin Bad
      BY <2>1, <2>2, <2>4
    <3>2. T(1, n) + T(n + 1, k - 1) = T(1, k - 1)
      BY <3>1
    <3>3. T(1, k) = T(1, k - 1) + s[k][q] /\ T(n + 1, k) = T(n + 1, k - 1) + s[k][q]
      <4> DEFINE j == k - 1
      <4>1. j \in Nat /\ j + 1 = k /\ 1 \in 1 .. n + 1 /\ n + 1 \in 1 .. n + 1
            /\ 1 <= j + 1 /\ n + 1 <= j + 1 /\ j + 1 <= Len(s)
        BY <2>2, <3>1
      <4> HIDE DEF j, T
      <4>2. T(1, j + 1) = T(1, j) + s[j + 1][q] /\ T(n + 1, j + 1) = T(n + 1, j) + s[j + 1][q]
        BY <1>2, <4>1
      <4> QED
        BY <4>1, <4>2 DEF j
    <3>4. s[k][q] \in Nat
      <4>1. k \in 1 .. Len(s)
        BY <2>2, <2>4
      <4>2. s[k] \in [Proc -> Nat]
        BY <4>1
      <4> QED
        BY <4>2
    <3>5. T(1, n) \in Nat /\ T(1, k - 1) \in Nat /\ T(n + 1, k - 1) \in Nat
      <4>1. 1 \in 1 .. n + 1 /\ n + 1 \in 1 .. n + 1 /\ n <= Len(s)
        BY <2>2
      <4> HIDE DEF T
      <4> QED
        BY <1>1, <2>2, <3>1, <4>1
    <3> HIDE DEF T, Bad
    <3> QED
      BY <2>2, <3>2, <3>3, <3>4, <3>5
  <2> QED
    BY <2>3, <2>4
<1>4. T(1, n) + T(n + 1, Len(s)) = T(1, Len(s))
  BY <1>3
<1>5. SubSeq(s, 1, Len(s)) = s
  OBVIOUS
<1> QED
  BY <1>4, <1>5

Exchanges(x) == \A c \in Proc \X Proc : x[c] \in Seq([Proc -> Nat])
Table(b) == b \in [Proc -> [Proc -> Nat]]

\* The parts of EventualBalance, of any balances, exchanges and increments.
Flight(x, p, q) == SumFunction([r \in Proc |-> Total(x[<<r, p>>])[q]])
Unsent(i, p, q) == SumFunction([r \in Proc \ {p} |-> i[r][q]])
Eventual(b, x, i, p, q) == b[p][q] + Flight(x, p, q) + Unsent(i, p, q)

LEMMA EventualIs ==
  ASSUME UNCHANGED nprocs
  PROVE  \A p, q \in Proc :
           /\ EventualBalance(p, q) =
                Eventual(proc_balance, proc_score_exchange, proc_score_incr, p, q)
           /\ EventualBalance(p, q)' =
                Eventual(proc_balance', proc_score_exchange', proc_score_incr', p, q)
  BY SameCluster DEF EventualBalance, InFlight, Eventual, Flight, Unsent, Total

LEMMA FlightType ==
  ASSUME IsFiniteSet(Proc), NEW x, Exchanges(x), NEW p \in Proc, NEW q \in Proc
  PROVE  Flight(x, p, q) \in Nat /\ \A r \in Proc : Total(x[<<r, p>>])[q] \in Nat
<1> DEFINE f == [r \in Proc |-> Total(x[<<r, p>>])[q]]
<1>1. ASSUME NEW r \in Proc PROVE Total(x[<<r, p>>])[q] \in Nat
  <2>1. x[<<r, p>>] \in Seq([Proc -> Nat])
    BY DEF Exchanges
  <2>2. Total(x[<<r, p>>]) \in [Proc -> Nat]
    BY <2>1, TotalType
  <2> QED
    BY <2>2
<1>2. f \in [Proc -> Nat]
  BY <1>1
<1>3. Flight(x, p, q) = SumFunction(f)
  BY DEF Flight
<1> HIDE DEF f
<1> QED
  BY <1>1, <1>2, <1>3, SumType

LEMMA UnsentType ==
  ASSUME IsFiniteSet(Proc), NEW i, Table(i), NEW p \in Proc, NEW q \in Proc
  PROVE  Unsent(i, p, q) \in Nat
<1> DEFINE D == Proc \ {p}
           f == [r \in D |-> i[r][q]]
<1>1. f \in [D -> Nat] /\ IsFiniteSet(D)
  BY FS_Subset DEF Table
<1>2. Unsent(i, p, q) = SumFunction(f)
  BY DEF Unsent
<1> HIDE DEF f, D
<1> QED
  BY <1>1, <1>2, SumType

\* p0's number for owner has grown by w.
Heavier(f, g, p0, owner, w) ==
    \A p, q \in Proc : g[p][q] = f[p][q] + (IF p = p0 /\ q = owner THEN w ELSE 0)

\* What a low target weighs is added for every process: at the one that assigns
\* it to its own balance, for the others to what they will be sent, rounded there
\* as it may be.
LEMMA WeightReachesAll ==
  ASSUME IsFiniteSet(Proc), NEW x, Exchanges(x),
         NEW b, Table(b), NEW i, Table(i),
         NEW b1, Table(b1), NEW i1, Table(i1),
         NEW p0 \in Proc, NEW owner \in Proc, NEW w \in Int, NEW u \in Int,
         Heavier(b, b1, p0, owner, w), Heavier(i, i1, p0, owner, u),
         NEW p \in Proc, NEW q \in Proc
  PROVE  Eventual(b1, x, i1, p, q) =
           Eventual(b, x, i, p, q) + (IF q # owner THEN 0 ELSE IF p = p0 THEN w ELSE u)
<1> DEFINE f == [r \in Proc \ {p} |-> i[r][q]]
           g == [r \in Proc \ {p} |-> i1[r][q]]
           d == IF q # owner THEN 0 ELSE IF p = p0 THEN w ELSE u
           D == Proc \ {p}
<1>1. /\ Flight(x, p, q) \in Nat /\ Unsent(i, p, q) \in Nat
      /\ f \in [D -> Nat] /\ IsFiniteSet(D)
  BY FlightType, UnsentType, FS_Subset DEF Table
<1>2. g \in [D -> Nat]
  BY DEF Table
<1>3. Unsent(i, p, q) = SumFunction(f) /\ Unsent(i1, p, q) = SumFunction(g)
  BY DEF Unsent
<1>4. d \in Int /\ b[p][q] \in Nat
  BY DEF Table
<1>5. CASE p = p0
  <2>1. \A r \in D : i1[r][q] = i[r][q]
    <3>1. \A r \in D : i[r][q] \in Nat
      BY DEF Table
    <3> QED
      BY <1>5, <3>1 DEF Heavier
  <2>2. f = g
    BY <2>1
  <2>3. b1[p][q] = b[p][q] + d
    BY <1>5 DEF Heavier
  <2> HIDE DEF f, g, d
  <2> QED
    BY <1>1, <1>3, <1>4, <2>2, <2>3 DEF Eventual, d
<1>6. CASE p # p0
  <2>1. p0 \in D /\ g[p0] = f[p0] + d
    BY <1>6 DEF Heavier
  <2>2. \A r \in D \ {p0} : g[r] = f[r]
    <3>1. \A r \in D \ {p0} : i[r][q] \in Nat
      BY DEF Table
    <3> QED
      BY <3>1 DEF Heavier
  <2>3. b1[p][q] = b[p][q]
    BY <1>4, <1>6 DEF Heavier
  <2> HIDE DEF f, g, d, D
  <2>5. SumFunction(g) + f[p0] = SumFunction(f) + g[p0]
    BY <1>1, <1>2, <2>1, <2>2, SumChanged
  <2>6. SumFunction(f) \in Nat /\ SumFunction(g) \in Nat /\ f[p0] \in Nat
    BY <1>1, <1>2, <2>1, SumType
  <2>4. SumFunction(g) = SumFunction(f) + d
    BY <1>4, <2>1, <2>5, <2>6
  <2> QED
    BY <1>1, <1>3, <1>4, <2>3, <2>4 DEF Eventual, d
<1> QED
  BY <1>5, <1>6

\* What a synchronization does at p0, to which the first n[r] increments of r
\* have come: they are added to its balance, its own increments are reset, and
\* the exchanges have lost what arrived and got what it sent.
Arriving(n, x, p0) == \A r \in Proc : n[r] \in 0 .. Len(x[<<r, p0>>])
Balanced(b, b1, x, n, p0) ==
    /\ \A q \in Proc : b1[p0][q] = b[p0][q] +
          SumFunction([r \in Proc |-> Total(SubSeq(x[<<r, p0>>], 1, n[r]))[q]])
    /\ \A p \in Proc \ {p0} : b1[p] = b[p]
Reset(i, i1, p0) ==
    /\ \A q \in Proc : i1[p0][q] = 0
    /\ \A p \in Proc \ {p0} : i1[p] = i[p]
Delivered(x, x1, i, n, p0) ==
    /\ \A r \in Proc : x1[<<r, p0>>] = SubSeq(x[<<r, p0>>], n[r] + 1, Len(x[<<r, p0>>]))
    /\ \A p \in Proc \ {p0} : /\ x1[<<p0, p>>] = Append(x[<<p0, p>>], i[p0])
                               /\ \A r \in Proc \ {p0} : x1[<<r, p>>] = x[<<r, p>>]

\* A synchronization moves increments from what a process has to send to what
\* is under way, and from there to the balance; what each process will end at
\* stays the same.
LEMMA SyncKeepsEventual ==
  ASSUME IsFiniteSet(Proc), NEW x, Exchanges(x),
         NEW b, Table(b), NEW i, Table(i),
         NEW x1, Exchanges(x1),
         NEW b1, Table(b1), NEW i1, Table(i1),
         NEW p0 \in Proc, NEW n,
         Arriving(n, x, p0),
         Balanced(b, b1, x, n, p0), Reset(i, i1, p0), Delivered(x, x1, i, n, p0),
         NEW p \in Proc, NEW q \in Proc
  PROVE  Eventual(b1, x1, i1, p, q) = Eventual(b, x, i, p, q)
<1> DEFINE before == [r \in Proc |-> Total(x[<<r, p>>])[q]]
           after  == [r \in Proc |-> Total(x1[<<r, p>>])[q]]
           f      == [r \in Proc \ {p} |-> i[r][q]]
           g      == [r \in Proc \ {p} |-> i1[r][q]]
           D      == Proc \ {p}
<1>1. before \in [Proc -> Nat] /\ f \in [D -> Nat] /\ IsFiniteSet(D)
  BY FlightType, FS_Subset DEF Table
<1>2. after \in [Proc -> Nat] /\ g \in [D -> Nat]
  BY FlightType DEF Table
<1>3. /\ Flight(x, p, q) = SumFunction(before) /\ Flight(x1, p, q) = SumFunction(after)
      /\ Unsent(i, p, q) = SumFunction(f) /\ Unsent(i1, p, q) = SumFunction(g)
  BY DEF Flight, Unsent
<1>4. b[p][q] \in Nat /\ i[p0][q] \in Nat /\ i[p0] \in [Proc -> Nat]
  BY DEF Table
<1>5. /\ SumFunction(before) \in Nat /\ SumFunction(after) \in Nat
      /\ SumFunction(f) \in Nat /\ SumFunction(g) \in Nat
  <2> HIDE DEF before, after, f, g, D
  <2> QED
    BY <1>1, <1>2, SumType
<1>6. CASE p = p0
  <2> DEFINE in == [r \in Proc |-> Total(SubSeq(x[<<r, p>>], 1, n[r]))[q]]
  <2>1. ASSUME NEW r \in Proc
        PROVE  in[r] \in Nat /\ before[r] = in[r] + after[r]
    <3> DEFINE s == x[<<r, p>>]
               k == n[r]
    <3>1. s \in Seq([Proc -> Nat]) /\ k \in 0 .. Len(s)
      BY <1>6 DEF Exchanges, Arriving
    <3>2. x1[<<r, p>>] = SubSeq(s, k + 1, Len(s))
      BY <1>6 DEF Delivered
    <3>3. in[r] = Total(SubSeq(s, 1, k))[q] /\ before[r] = Total(s)[q]
          /\ after[r] = Total(SubSeq(s, k + 1, Len(s)))[q]
      BY <3>2
    <3> HIDE DEF s, k, in, before, after
    <3>4. Total(SubSeq(s, 1, k))[q] + Total(SubSeq(s, k + 1, Len(s)))[q] = Total(s)[q]
      BY <3>1, TotalSplit
    <3>5. SubSeq(s, 1, k) \in Seq([Proc -> Nat])
      <4>1. k \in Int /\ 1 \in Int /\ \A j \in 1 .. k : j \in 1 .. Len(s)
        BY <3>1
      <4>2. \A j \in 1 .. Len(s) : s[j] \in [Proc -> Nat]
        BY <3>1
      <4>3. \A j \in 1 .. k : s[j] \in [Proc -> Nat]
        BY <4>1, <4>2
      <4> QED
        BY <4>1, <4>3, SubSeqProperties
    <3>6. Total(SubSeq(s, 1, k)) \in [Proc -> Nat]
      BY <3>5, TotalType
    <3> QED
      BY <3>3, <3>4, <3>6
  <2>2. in \in [Proc -> Nat] /\ \A r \in Proc : before[r] = in[r] + after[r]
    BY <2>1
  <2>3. b1[p][q] = b[p][q] + SumFunction(in)
    BY <1>6 DEF Balanced
  <2>4. f = g
    BY <1>6 DEF Reset
  <2> HIDE DEF before, after, f, g, D, in
  <2>5. SumFunction(before) = SumFunction(in) + SumFunction(after) /\ SumFunction(in) \in Nat
    <3>1. ASSUME NEW E, IsFiniteSet(E), NEW f1 \in [E -> Nat], NEW g1 \in [E -> Nat],
                 NEW h1 \in [E -> Nat], \A r \in E : h1[r] = f1[r] + g1[r]
          PROVE  SumFunction(h1) = SumFunction(f1) + SumFunction(g1)
      BY <3>1, SumAdded
    <3> QED
      BY <1>1, <1>2, <2>2, <3>1, SumType
  <2> QED
    BY <1>3, <1>4, <1>5, <2>3, <2>4, <2>5 DEF Eventual
<1>7. CASE p # p0
  <2> DEFINE w == i[p0][q]
  <2>1. after[p0] = before[p0] + w
    <3>1. x1[<<p0, p>>] = Append(x[<<p0, p>>], i[p0])
      BY <1>7 DEF Delivered
    <3>2. x[<<p0, p>>] \in Seq([Proc -> Nat])
      BY DEF Exchanges
    <3>3. Total(Append(x[<<p0, p>>], i[p0]))[q] = Total(x[<<p0, p>>])[q] + i[p0][q]
      BY <1>4, <3>2, TotalAppend
    <3> QED
      BY <3>1, <3>3
  <2>2. \A r \in Proc \ {p0} : after[r] = before[r]
    <3>1. \A r \in Proc \ {p0} : x1[<<r, p>>] = x[<<r, p>>]
      BY <1>7 DEF Delivered
    <3> QED
      BY <3>1
  <2>3. p0 \in D /\ f[p0] = g[p0] + w /\ \A r \in D \ {p0} : f[r] = g[r]
    BY <1>4, <1>7 DEF Reset
  <2>4. w \in Nat /\ b1[p][q] = b[p][q]
    BY <1>4, <1>7 DEF Balanced
  <2> HIDE DEF before, after, f, g, D, w
  <2>7. /\ SumFunction(after) + before[p0] = SumFunction(before) + after[p0]
        /\ SumFunction(f) + g[p0] = SumFunction(g) + f[p0]
    BY <1>1, <1>2, <2>2, <2>3, SumChanged
  <2>8. before[p0] \in Nat /\ g[p0] \in Nat
    BY <1>1, <1>2, <2>3
  <2>5. SumFunction(after) = SumFunction(before) + w
    BY <1>5, <2>1, <2>4, <2>7, <2>8
  <2>6. SumFunction(f) = SumFunction(g) + w
    BY <1>5, <2>3, <2>4, <2>7, <2>8
  <2> QED
    BY <1>3, <1>4, <1>5, <2>4, <2>5, <2>6 DEF Eventual
<1> QED
  BY <1>6, <1>7

\* What is unsent is in what the others will end at.
LEMMA UnsentCounts ==
  ASSUME IsFiniteSet(Proc), NEW i, Table(i), NEW p0 \in Proc, NEW p \in Proc \ {p0}, NEW q \in Proc
  PROVE  i[p0][q] <= Unsent(i, p, q)
<1> DEFINE D == Proc \ {p}
           f == [r \in D |-> i[r][q]]
           E == D \ {p0}
           g == [r \in E |-> f[r]]
<1>1. f \in [D -> Nat] /\ IsFiniteSet(D) /\ IsFiniteSet(E) /\ p0 \in D
  BY FS_Subset DEF Table
<1>2. g \in [E -> Nat] /\ f[p0] = i[p0][q] /\ Unsent(i, p, q) = SumFunction(f)
  BY DEF Table, Unsent
<1>3. g = [r \in D \ {p0} |-> f[r]]
  OBVIOUS
<1> HIDE DEF f, g, D, E
<1>4. SumFunction(g) \in Nat
  BY <1>1, <1>2, SumType
<1>5. SumFunction(f) = f[p0] + SumFunction(g)
  BY <1>1, <1>3, SumRemove
<1>6. f[p0] \in Nat
  BY <1>1
<1> QED
  BY <1>2, <1>4, <1>5, <1>6

\* What a process has, and what it has yet to send, is part of what it or the
\* others will end at.
LEMMA EventualCounts ==
  ASSUME IsFiniteSet(Proc), NEW x, Exchanges(x), NEW b, Table(b), NEW i, Table(i),
         NEW p0 \in Proc, NEW p \in Proc, NEW q \in Proc
  PROVE  /\ Eventual(b, x, i, p, q) \in Nat
         /\ b[p][q] <= Eventual(b, x, i, p, q)
         /\ p # p0 => i[p0][q] <= Eventual(b, x, i, p, q)
<1>1. Flight(x, p, q) \in Nat /\ Unsent(i, p, q) \in Nat
  BY FlightType, UnsentType
<1>2. b[p][q] \in Nat /\ i[p0][q] \in Nat
  BY DEF Table
<1>3. p # p0 => i[p0][q] <= Unsent(i, p, q)
  BY UnsentCounts
<1> QED
  BY <1>1, <1>2, <1>3 DEF Eventual

\* A low target is placed with owner: its balance grows by w at every process,
\* rounded up at most, as long as a float counts by ones.
LEMMA AssignLowBalances ==
  ASSUME ScoresAreNumbers, TypeInv, UNCHANGED nprocs, NEW p0 \in Proc,
         NEW t \in Targets(raw_map[p0]), AssignLow(p0, t)
  PROVE  \E owner \in Proc, w \in Nat :
           /\ placed' = [placed EXCEPT ![owner] = [targets |-> @.targets + 1,
                                                   weight  |-> @.weight + w]]
           /\ \A p, q \in Proc : q # owner => EventualBalance(p, q)' = EventualBalance(p, q)
           /\ \A p \in Proc : EventualBalance(p, owner) + w < FloatLimit =>
                 EventualBalance(p, owner)'
                   \in EventualBalance(p, owner) + w .. EventualBalance(p, owner) + w + 1
<1>0. Types /\ IsFiniteSet(Proc)
  BY Cluster DEF TypeInv, Types, ControlTypes
<1>1. PICK owner \in Proc, degree \in 1 .. Threshold :
           owner = GingerToProc(p0, Records(p0, t)) /\ degree = Cardinality(Records(p0, t))
  <2>1. GingerToProc(p0, Records(p0, t)) \in Proc
    BY AssignLowTypes
  <2>2. Cardinality(Records(p0, t)) \in 1 .. Threshold
    BY DEF AssignLow
  <2> QED
    BY <2>1, <2>2
<1> DEFINE w  == Weight(degree)
           b  == proc_balance
           i  == proc_score_incr
           x  == proc_score_exchange
           db == Weighed(b[p0][owner], degree) - b[p0][owner]
           di == Weighed(i[p0][owner], degree) - i[p0][owner]
<1>2. /\ b' = [b EXCEPT ![p0][owner] = Weighed(@, degree)]
      /\ i' = [i EXCEPT ![p0][owner] = Weighed(@, degree)]
      /\ placed' = [placed EXCEPT ![owner] = [targets |-> @.targets + 1,
                                              weight  |-> @.weight + w]]
      /\ x' = x
  BY <1>1 DEF AssignLow
<1>3. Table(b) /\ Table(i) /\ Exchanges(x)
  BY <1>0 DEF Types, ScoreTypes, Table, Exchanges
<1>4. Table(b') /\ Table(i')
  <2>1. TypeInv' /\ Proc' = Proc
    BY AssignLowTypes, SameCluster
  <2> QED
    BY <2>1 DEF TypeInv, Types, ScoreTypes, Table
<1>5. b[p0][owner] \in Nat /\ i[p0][owner] \in Nat
  BY <1>1, <1>3 DEF Table
<1>6. /\ w \in Nat
      /\ \A a \in Nat : /\ Weighed(a, degree) \in Nat
                        /\ a + w < FloatLimit => Weighed(a, degree) \in a + w .. a + w + 1
  <2>1. w \in Nat
    BY <1>1, <1>5, WeighedIs
  <2>2. ASSUME NEW a \in Nat
        PROVE  /\ Weighed(a, degree) \in Nat
               /\ a + w < FloatLimit => Weighed(a, degree) \in a + w .. a + w + 1
    BY <1>1, WeighedIs
  <2> QED
    BY <2>1, <2>2
<1>7. /\ db \in Int /\ (b[p0][owner] + w < FloatLimit => db \in w .. w + 1)
      /\ di \in Int /\ (i[p0][owner] + w < FloatLimit => di \in w .. w + 1)
  <2> HIDE DEF w
  <2>1. ASSUME NEW a \in Nat
        PROVE  /\ Weighed(a, degree) - a \in Int
               /\ a + w < FloatLimit => Weighed(a, degree) - a \in w .. w + 1
    <3> DEFINE h == Weighed(a, degree)
    <3>1. h \in Nat /\ (a + w < FloatLimit => h \in a + w .. a + w + 1) /\ w \in Nat
      BY <1>6
    <3> HIDE DEF h
    <3>2. h - a \in Int /\ (a + w < FloatLimit => h - a \in w .. w + 1)
      BY <3>1
    <3> QED
      BY <3>2 DEF h
  <2> QED
    BY <1>5, <2>1
<1>8. Heavier(b, b', p0, owner, db) /\ Heavier(i, i', p0, owner, di)
  <2>1. ASSUME NEW c, Table(c), NEW c1, c1 = [c EXCEPT ![p0][owner] = Weighed(@, degree)]
        PROVE  Heavier(c, c1, p0, owner, Weighed(c[p0][owner], degree) - c[p0][owner])
    <3>1. ASSUME NEW p \in Proc, NEW q \in Proc
          PROVE  c1[p][q] = IF p = p0 /\ q = owner THEN Weighed(c[p0][owner], degree) ELSE c[p][q]
      BY <1>1, <2>1 DEF Table
    <3>2. ASSUME NEW p \in Proc, NEW q \in Proc PROVE c[p][q] \in Nat
      BY <2>1 DEF Table
    <3>3. c[p0][owner] \in Nat /\ Weighed(c[p0][owner], degree) \in Nat
      <4>1. c[p0][owner] \in Nat
        BY <1>1, <3>2
      <4> QED
        BY <1>6, <4>1
    <3>4. ASSUME NEW p \in Proc, NEW q \in Proc
          PROVE  c1[p][q] = c[p][q] + (IF p = p0 /\ q = owner
                                       THEN Weighed(c[p0][owner], degree) - c[p0][owner] ELSE 0)
      BY <3>1, <3>2, <3>3
    <3> QED
      BY <3>4 DEF Heavier
  <2> QED
    BY <1>2, <1>3, <2>1
<1> HIDE DEF w, b, i, x, db, di
<1>9. ASSUME NEW p \in Proc, NEW q \in Proc
      PROVE  /\ EventualBalance(p, q) = Eventual(b, x, i, p, q)
             /\ EventualBalance(p, q)' = EventualBalance(p, q)
                  + (IF q # owner THEN 0 ELSE IF p = p0 THEN db ELSE di)
  <2>1. Eventual(b', x, i', p, q) = Eventual(b, x, i, p, q)
          + (IF q # owner THEN 0 ELSE IF p = p0 THEN db ELSE di)
    BY <1>0, <1>1, <1>3, <1>4, <1>7, <1>8, WeightReachesAll
  <2> QED
    BY <1>2, <2>1, EventualIs DEF b, i, x
<1>10. ASSUME NEW p \in Proc, NEW q \in Proc, q # owner
       PROVE  EventualBalance(p, q)' = EventualBalance(p, q)
  <2>1. EventualBalance(p, q) \in Nat
    BY <1>0, <1>3, <1>9, EventualCounts
  <2> QED
    BY <1>9, <1>10, <2>1
<1>11. ASSUME NEW p \in Proc, EventualBalance(p, owner) + w < FloatLimit
       PROVE  EventualBalance(p, owner)'
                \in EventualBalance(p, owner) + w .. EventualBalance(p, owner) + w + 1
  <2> DEFINE e == EventualBalance(p, owner)
             d == IF p = p0 THEN db ELSE di
  <2>1. /\ e \in Nat /\ b[p][owner] <= e
        /\ p # p0 => i[p0][owner] <= e
    <3>1. e = Eventual(b, x, i, p, owner)
      BY <1>1, <1>9
    <3> QED
      BY <1>0, <1>1, <1>3, <3>1, EventualCounts
  <2>2. EventualBalance(p, owner)' = e + d
    <3>1. EventualBalance(p, owner)' = EventualBalance(p, owner)
            + (IF owner # owner THEN 0 ELSE IF p = p0 THEN db ELSE di)
      BY <1>1, <1>9
    <3> QED
      BY <3>1
  <2>3. d \in w .. w + 1
    BY <1>5, <1>6, <1>7, <1>11, <2>1, FloatAssumption
  <2> HIDE DEF e, d
  <2> QED
    BY <1>6, <2>1, <2>2, <2>3 DEF e
<1> QED
  BY <1>1, <1>2, <1>6, <1>10, <1>11

LEMMA SyncHeuristicBalances ==
  ASSUME TypeInv, UNCHANGED nprocs, NEW p0 \in Proc, SyncHeuristic(p0)
  PROVE  \A p, q \in Proc : EventualBalance(p, q)' = EventualBalance(p, q)
<1> DEFINE b == proc_balance
           i == proc_score_incr
           x == proc_score_exchange
<1>0. Types /\ IsFiniteSet(Proc)
  BY Cluster DEF TypeInv, Types, ControlTypes
<1>1. PICK arrived \in [Proc -> 0 .. MaxEdges] :
          LET first(r) == SubSeq(x[<<r, p0>>], 1, arrived[r])
              rest(r)  == SubSeq(x[<<r, p0>>], arrived[r] + 1, Len(x[<<r, p0>>]))
              got      == [r \in Proc |-> Total(first(r))]
          IN /\ \A r \in Proc : arrived[r] <= Len(x[<<r, p0>>])
             /\ b' = [b EXCEPT ![p0] =
                    [q \in Proc |-> @[q] + SumFunction([r \in Proc |-> got[r][q]])]]
             /\ x' = [c \in Proc \X Proc |->
                    CASE c[2] = p0               -> rest(c[1])
                      [] c[1] = p0 /\ c[2] # p0  -> Append(x[c], SentIncr(p0))
                      [] OTHER                   -> x[c]]
  BY DEF SyncHeuristic
<1>2. Table(b) /\ Table(i) /\ Exchanges(x)
  BY <1>0 DEF Types, ScoreTypes, Table, Exchanges
<1>3. Table(b') /\ Table(i') /\ Exchanges(x')
  <2>1. TypeInv' /\ Proc' = Proc
    BY SyncHeuristicTypes, SameCluster
  <2> QED
    BY <2>1 DEF TypeInv, Types, ScoreTypes, Table, Exchanges
<1>4. Reset(i, i', p0)
  <2>1. i' = [i EXCEPT ![p0] = [q \in Proc |-> 0]]
    BY DEF SyncHeuristic, KeptIncr
  <2> QED
    BY <1>2, <2>1 DEF Reset, Table
<1>5. Arriving(arrived, x, p0)
  <2>1. \A r \in Proc : arrived[r] \in Nat /\ arrived[r] <= Len(x[<<r, p0>>])
    BY <1>1, GingerAssumption
  <2>2. \A r \in Proc : Len(x[<<r, p0>>]) \in Nat
    BY <1>2 DEF Exchanges
  <2> HIDE DEF x
  <2> QED
    BY <2>1, <2>2 DEF Arriving
<1>6. Delivered(x, x', i, arrived, p0)
  <2> DEFINE rest(r) == SubSeq(x[<<r, p0>>], arrived[r] + 1, Len(x[<<r, p0>>]))
  <2>1. \A r, p \in Proc : x'[<<r, p>>] = IF p = p0 THEN rest(r)
                                          ELSE IF r = p0 THEN Append(x[<<r, p>>], SentIncr(p0))
                                          ELSE x[<<r, p>>]
    BY <1>1
  <2>2. SentIncr(p0) = i[p0]
    BY DEF SentIncr
  <2> HIDE DEF x, i
  <2> QED
    BY <2>1, <2>2 DEF Delivered
<1>7. Balanced(b, b', x, arrived, p0)
  <2> DEFINE got == [r \in Proc |-> Total(SubSeq(x[<<r, p0>>], 1, arrived[r]))]
  <2>1. b' = [b EXCEPT ![p0] =
                 [q \in Proc |-> @[q] + SumFunction([r \in Proc |-> got[r][q]])]]
    BY <1>1
  <2>2. \A q \in Proc : [r \in Proc |-> got[r][q]] =
                        [r \in Proc |-> Total(SubSeq(x[<<r, p0>>], 1, arrived[r]))[q]]
    OBVIOUS
  <2> HIDE DEF got, x, b
  <2>3. \A q \in Proc : b'[p0][q] = b[p0][q] + SumFunction([r \in Proc |-> got[r][q]])
    BY <1>2, <2>1 DEF Table
  <2>4. \A p \in Proc \ {p0} : b'[p] = b[p]
    BY <1>2, <2>1 DEF Table
  <2> QED
    BY <2>2, <2>3, <2>4 DEF Balanced
<1> HIDE DEF b, i, x
<1>8. ASSUME NEW p \in Proc, NEW q \in Proc
      PROVE  Eventual(b', x', i', p, q) = Eventual(b, x, i, p, q)
  BY <1>0, <1>2, <1>3, <1>4, <1>5, <1>6, <1>7, SyncKeepsEventual
<1> QED
  BY <1>8, EventualIs DEF b, x, i

LEMMA NextBalances ==
  ASSUME ScoresAreNumbers, TypeInv, BalancesAddUp, Next
  PROVE  BalancesAddUp'
<1>0. UNCHANGED nprocs /\ Proc' = Proc
  BY SameCluster DEF Next
<1>1. ASSUME UNCHANGED placed,
             \A p, q \in Proc : EventualBalance(p, q)' = EventualBalance(p, q)
      PROVE  BalancesAddUp'
  BY <1>0, <1>1 DEF BalancesAddUp
<1>2. ASSUME UNCHANGED scores PROVE BalancesAddUp'
  <2>1. \A p, q \in Proc : EventualBalance(p, q)' = EventualBalance(p, q)
    BY <1>0, <1>2, EventualIs DEF scores
  <2>2. UNCHANGED placed
    BY <1>2 DEF scores
  <2> QED
    BY <1>1, <2>1, <2>2
<1>3. ASSUME NEW p0 \in Proc, NEW t \in Targets(raw_map[p0]), AssignLow(p0, t)
      PROVE  BalancesAddUp'
  <2>1. PICK owner \in Proc, w \in Nat :
           /\ placed' = [placed EXCEPT ![owner] = [targets |-> @.targets + 1,
                                                   weight  |-> @.weight + w]]
           /\ \A p, q \in Proc : q # owner => EventualBalance(p, q)' = EventualBalance(p, q)
           /\ \A p \in Proc : EventualBalance(p, owner) + w < FloatLimit =>
                 EventualBalance(p, owner)'
                   \in EventualBalance(p, owner) + w .. EventualBalance(p, owner) + w + 1
    BY <1>0, <1>3, AssignLowBalances
  <2>2. placed \in [Proc -> [targets : Nat, weight : Nat]]
    BY DEF TypeInv, Types, ScoreTypes
  <2>3. ASSUME NEW q \in Proc, NEW p \in Proc,
               placed'[q].weight + placed'[q].targets < FloatLimit
        PROVE  EventualBalance(p, q)' \in
                 placed'[q].weight .. placed'[q].weight + placed'[q].targets
    <3> DEFINE W == placed[q].weight
               N == placed[q].targets
               e == EventualBalance(p, q)
    <3>1. W \in Nat /\ N \in Nat
      BY <2>2
    <3>2. W + N < FloatLimit => e \in W .. W + N
      BY DEF BalancesAddUp
    <3>3. CASE q # owner
      <4>1. placed'[q] = placed[q]
        BY <2>1, <2>2, <3>3
      <4> QED
        BY <2>1, <2>3, <3>2, <3>3, <4>1
    <3>4. CASE q = owner
      <4>1. placed'[q].weight = W + w /\ placed'[q].targets = N + 1
        BY <2>1, <2>2, <3>4
      <4>2. e + w < FloatLimit => e' \in e + w .. e + w + 1
        BY <2>1, <3>4
      <4> HIDE DEF W, N, e
      <4>3. e \in W .. W + N /\ e + w < FloatLimit
        BY <2>3, <3>1, <3>2, <4>1, FloatAssumption
      <4>4. e' \in W + w .. (W + w) + (N + 1)
        BY <3>1, <4>2, <4>3
      <4> QED
        BY <4>1, <4>4 DEF e
    <3> QED
      BY <3>3, <3>4
  <2> QED
    BY <1>0, <2>3 DEF BalancesAddUp
<1>4. ASSUME NEW p0 \in Proc, SyncHeuristic(p0) PROVE BalancesAddUp'
  <2>1. \A p, q \in Proc : EventualBalance(p, q)' = EventualBalance(p, q)
    BY <1>0, <1>4, SyncHeuristicBalances
  <2>2. UNCHANGED placed
    BY <1>4 DEF SyncHeuristic
  <2> QED
    BY <1>1, <2>1, <2>2
<1>5. CASE (\E p \in Proc : Load(p)) \/ Collective
  <2>1. UNCHANGED scores
    BY <1>5 DEF Load, AddEdge, AddVertex, CallFinalize, Collective, BeginFinalize, Barrier,
                SyncMeta, GatherCounts
  <2> QED
    BY <1>2, <2>1
<1>6. ASSUME NEW p \in Proc, Step(p) PROVE BalancesAddUp'
  <2>1. \/ UNCHANGED scores
        \/ \E t \in Targets(raw_map[p]) : AssignLow(p, t)
        \/ SyncHeuristic(p)
    BY <1>6 DEF Step, CollectAll, CollectEdges, AssignHigh, AssignEnds, LastSynchronize,
                PlaceEdges, ReceiveHigh, BuildLocalGraph, ReceiveVertices, Handshake,
                SetDegreeType
  <2> QED
    BY <1>2, <1>3, <1>4, <2>1
<1> QED
  BY <1>5, <1>6 DEF Next

\* No increment of a balance is dropped or counted twice, although each process
\* rounds on its own: whatever has been received and whatever is under way, what
\* every process would end at is the weight of what was placed, rounded up by
\* less than one for each target, for any cluster, input, hash, threshold and
\* score, as long as a float counts by ones.
THEOREM NoIncrementLost ==
  ASSUME ScoresAreNumbers
  PROVE  Spec => []BalancesAddUp
<1>1. Init => BalancesAddUp
  <2> SUFFICES ASSUME Init PROVE BalancesAddUp
    OBVIOUS
  <2>1. nprocs \in ClusterSizes /\ IsFiniteSet(Proc)
    BY Cluster DEF Init
  <2>2. ASSUME NEW p \in Proc, NEW q \in Proc PROVE EventualBalance(p, q) = 0
    <3> DEFINE f == [r \in Proc |-> Total(proc_score_exchange[<<r, p>>])[q]]
               D == Proc \ {p}
               g == [r \in D |-> proc_score_incr[r][q]]
    <3>1. ASSUME NEW r \in Proc PROVE Total(proc_score_exchange[<<r, p>>])[q] = 0
      <4>1. proc_score_exchange[<<r, p>>] = <<>>
        BY DEF Init
      <4> QED
        BY <4>1, TotalNone
    <3>2. f \in [Proc -> Nat] /\ \A r \in Proc : f[r] = 0
      BY <3>1
    <3>3. g \in [D -> Nat] /\ (\A r \in D : g[r] = 0) /\ IsFiniteSet(D)
      BY <2>1, FS_Subset DEF Init
    <3>4. InFlight(p, q) = SumFunction(f)
          /\ EventualBalance(p, q) = proc_balance[p][q] + InFlight(p, q) + SumFunction(g)
      BY DEF InFlight, EventualBalance
    <3>5. proc_balance[p][q] = 0
      BY DEF Init
    <3> HIDE DEF f, g, D
    <3> QED
      BY <2>1, <3>2, <3>3, <3>4, <3>5, SumZero
  <2>3. \A q \in Proc : placed[q].weight = 0 /\ placed[q].targets = 0
    BY DEF Init
  <2> QED
    BY <2>2, <2>3 DEF BalancesAddUp
<1>2. GingerTypes /\ BalancesAddUp /\ [Next]_vars => BalancesAddUp'
  <2>1. ASSUME GingerTypes, BalancesAddUp, Next PROVE BalancesAddUp'
    BY <2>1, NextBalances DEF GingerTypes
  <2>2. ASSUME BalancesAddUp, UNCHANGED vars PROVE BalancesAddUp'
    <3>1. UNCHANGED nprocs /\ UNCHANGED scores
      BY <2>2 DEF vars
    <3>2. \A p, q \in Proc : EventualBalance(p, q)' = EventualBalance(p, q)
      BY <3>1, EventualIs DEF scores
    <3> QED
      BY <2>2, <3>1, <3>2, SameCluster DEF BalancesAddUp, scores
  <2> QED
    BY <2>1, <2>2
<1> QED
  BY <1>1, <1>2, GingerTypesInvariant, PTL DEF Spec
=============================================================================
