------------------------- MODULE FixedBitsetProofs -------------------------
(***************************************************************************)
(* Proofs about fixed_dense_bitset and its iterator, for every length and  *)
(* every width of a word.  Bit b is at position b % W of word b \div W, so *)
(* the order of the bits is that of their words, then that of their        *)
(* positions; the two searches across words find the least bit behind      *)
(* their argument, and a loop over the iterator is sound because each ++   *)
(* makes such a search in the array as it is then.                         *)
(***************************************************************************)
EXTENDS FixedBitset, FiniteSetTheorems, WellFoundedInduction, TLAPS

-----------------------------------------------------------------------------
(* Words and positions.                                                    *)

LEMMA DivMod ==
  ASSUME NEW b \in Nat
  PROVE  /\ ArrPos(b) \in Nat /\ BitPos(b) \in 0 .. W - 1
         /\ b = ArrPos(b) * W + BitPos(b)
  BY WordAssumption DEF ArrPos, BitPos

LEMMA WordBit ==
  ASSUME NEW i \in Nat, NEW k \in 0 .. W - 1
  PROVE  /\ i * W + k \in Nat
         /\ ArrPos(i * W + k) = i /\ BitPos(i * W + k) = k
  BY WordAssumption DEF ArrPos, BitPos

LEMMA WordOrder ==
  ASSUME NEW i \in Nat, NEW j \in Nat, NEW k \in 0 .. W - 1, NEW l \in 0 .. W - 1
  PROVE  i * W + k < j * W + l <=> i < j \/ (i = j /\ k < l)
<1>1. W \in Nat /\ W > 0
  BY WordAssumption
<1>2. ASSUME NEW a \in Nat, NEW b \in Nat, a < b
      PROVE  a * W + W <= b * W
  <2>1. PICK c \in Nat : b = a + 1 + c
    <3>1. b - a - 1 \in Nat /\ b = a + 1 + (b - a - 1)
      BY <1>2
    <3> QED
      BY <3>1
  <2>2. b * W = a * W + W + c * W
    BY <1>1, <2>1
  <2>3. c * W \in Nat /\ a * W \in Nat
    BY <1>1
  <2> QED
    BY <1>1, <2>2, <2>3
<1>3. i * W \in Nat /\ j * W \in Nat
  BY <1>1
<1>4. CASE i < j
  <2>1. i * W + W <= j * W
    BY <1>2, <1>4
  <2> QED
    BY <1>1, <1>3, <1>4, <2>1
<1>5. CASE j < i
  <2>1. j * W + W <= i * W
    BY <1>2, <1>5
  <2> QED
    BY <1>1, <1>3, <1>5, <2>1
<1>6. CASE i = j
  BY <1>1, <1>3, <1>6
<1> QED
  BY <1>4, <1>5, <1>6

LEMMA ArrLenBounds ==
  ASSUME NEW n \in Nat
  PROVE  /\ ArrLen(n) \in Nat
         /\ ArrLen(n) = ArrPos(n) + (IF BitPos(n) > 0 THEN 1 ELSE 0)
         /\ \A b \in 0 .. n - 1 : ArrPos(b) < ArrLen(n)
<1>1. /\ ArrPos(n) \in Nat /\ BitPos(n) \in 0 .. W - 1
      /\ n = ArrPos(n) * W + BitPos(n)
  BY DivMod
<1>2. ArrLen(n) = ArrPos(n) + (IF BitPos(n) > 0 THEN 1 ELSE 0)
  BY DEF ArrLen, ArrPos, BitPos
<1>3. ASSUME NEW b \in 0 .. n - 1
      PROVE  ArrPos(b) < ArrLen(n)
  <2>1. /\ ArrPos(b) \in Nat /\ BitPos(b) \in 0 .. W - 1
        /\ b = ArrPos(b) * W + BitPos(b)
    BY DivMod
  <2>2. ArrPos(b) < ArrPos(n) \/ (ArrPos(b) = ArrPos(n) /\ BitPos(b) < BitPos(n))
    <3>1. ArrPos(b) * W + BitPos(b) < ArrPos(n) * W + BitPos(n)
      BY <1>1, <2>1
    <3> QED
      BY <1>1, <2>1, <3>1, WordOrder
  <2> QED
    BY <1>1, <1>2, <2>1, <2>2
<1> QED
  BY <1>1, <1>2, <1>3

\* There is a word for the bits the words have room for, and for no others.
LEMMA HasAWord ==
  ASSUME NEW n \in Nat, NEW b \in Nat
  PROVE  b \in 0 .. W * ArrLen(n) - 1 <=> ArrPos(b) \in 0 .. ArrLen(n) - 1
<1>1. ArrLen(n) \in Nat /\ W \in Nat
  BY ArrLenBounds, WordAssumption
<1>2. /\ ArrPos(b) \in Nat /\ BitPos(b) \in 0 .. W - 1
      /\ b = ArrPos(b) * W + BitPos(b)
  BY DivMod
<1>3. 0 \in 0 .. W - 1
  BY WordAssumption
<1>4. b < ArrLen(n) * W + 0 <=> ArrPos(b) < ArrLen(n)
  BY <1>1, <1>2, <1>3, WordOrder
<1> QED
  BY <1>1, <1>2, <1>4

\* A bitset with n bits, and what its bits are.
IsBitset(db, n) == db = [len |-> n, array |-> db.array] /\ db.array \in Array(n)

LEMMA BitsAre ==
  ASSUME NEW n \in Nat, NEW db, IsBitset(db, n)
  PROVE  /\ db.len = n
         /\ DOMAIN db.array = 0 .. ArrLen(n) - 1
         /\ \A i \in 0 .. ArrLen(n) - 1 : db.array[i] \subseteq 0 .. W - 1
         /\ \A b : b \in Bits(db) <=> /\ b \in Nat /\ ArrPos(b) \in 0 .. ArrLen(n) - 1
                                      /\ BitPos(b) \in db.array[ArrPos(b)]
<1>1. db.len = n /\ db.array \in [0 .. ArrLen(n) - 1 -> SUBSET (0 .. W - 1)]
  BY DEF IsBitset, Array, FullWord
<1>2. ArrLen(n) \in Nat /\ W \in Nat
  BY ArrLenBounds, WordAssumption
<1>3. ASSUME NEW b \in Nat
      PROVE  b \in 0 .. W * ArrLen(n) - 1 <=> ArrPos(b) \in 0 .. ArrLen(n) - 1
  BY HasAWord
<1>4. \A b \in 0 .. W * ArrLen(n) - 1 : b \in Nat
  OBVIOUS
<1> QED
  BY <1>1, <1>3, <1>4 DEF Bits

-----------------------------------------------------------------------------
(* The searches.                                                           *)

LEMMA LeastNumber ==
  ASSUME NEW T, T \subseteq Nat, T # {}
  PROVE  Min(T) \in T /\ \A m \in T : Min(T) <= m
<1>1. IsWellFoundedOn(OpToRel(<, Nat), Nat)
  BY NatLessThanWellFounded
<1>2. \E n \in T : \A m \in T : ~(<<m, n>> \in OpToRel(<, Nat))
  BY <1>1, WFMin
<1>3. PICK n \in T : \A m \in T : ~(<<m, n>> \in OpToRel(<, Nat))
  BY <1>2
<1>4. \A m \in T : ~(m < n)
  BY <1>3 DEF OpToRel
<1>5. \A m \in T : m \in Nat
  OBVIOUS
<1>6. \A m \in T : n <= m
  BY <1>4, <1>5
<1> QED
  BY <1>6 DEF Min

\* What a search is to return for the bits it looks for.
IsLeast(c, bits) == \/ bits = {} /\ c = NoBit
                    \/ c \in bits /\ \A b \in bits : c <= b

\* The first word that is not empty, and the first position in it.
LEMMA FirstWordIsLeast ==
  ASSUME NEW n \in Nat, NEW db, IsBitset(db, n), NEW i \in Nat
  PROVE  IsLeast(FirstWordFrom(db, i, LAMBDA word : word), {b \in Bits(db) : ArrPos(b) >= i})
<1> DEFINE found == {j \in i .. ArrLen(n) - 1 : db.array[j] # {}}
           ahead == {b \in Bits(db) : ArrPos(b) >= i}
           j     == Min(found)
           k     == Min(db.array[j])
<1>1. /\ db.len = n /\ ArrLen(n) \in Nat
      /\ \A a \in 0 .. ArrLen(n) - 1 : db.array[a] \subseteq 0 .. W - 1
      /\ \A b : b \in Bits(db) <=> /\ b \in Nat /\ ArrPos(b) \in 0 .. ArrLen(n) - 1
                                   /\ BitPos(b) \in db.array[ArrPos(b)]
  BY BitsAre, ArrLenBounds
<1>2. FirstWordFrom(db, i, LAMBDA word : word)
         = IF found = {} THEN NoBit ELSE j * W + FirstBitInBlock(db.array[j])
  BY <1>1 DEF FirstWordFrom
<1>3. \A b \in ahead : ArrPos(b) \in found
  BY <1>1
<1>4. CASE found = {}
  <2>1. ahead = {}
    BY <1>3, <1>4
  <2> HIDE DEF found, ahead
  <2> QED
    BY <1>2, <1>4, <2>1 DEF IsLeast, ahead
<1>5. CASE found # {}
  <2>1. j \in found /\ \A a \in found : j <= a
    <3>1. found \subseteq Nat
      OBVIOUS
    <3> HIDE DEF found
    <3> QED
      BY <1>5, <3>1, LeastNumber
  <2> HIDE DEF j
  <2>2. j \in Nat /\ j >= i /\ j \in 0 .. ArrLen(n) - 1 /\ db.array[j] # {}
    BY <1>1, <2>1
  <2>3. k \in db.array[j] /\ \A a \in db.array[j] : k <= a
    <3>1. db.array[j] \subseteq Nat
      BY <1>1, <2>2
    <3> QED
      BY <2>2, <3>1, LeastNumber
  <2>4. k \in 0 .. W - 1
    BY <1>1, <2>2, <2>3
  <2>5. FirstBitInBlock(db.array[j]) = k
    BY <2>2 DEF FirstBitInBlock
  <2> HIDE DEF k, found
  <2>6. /\ j * W + k \in Nat
        /\ ArrPos(j * W + k) = j /\ BitPos(j * W + k) = k
    BY <2>2, <2>4, WordBit
  <2>7. j * W + k \in ahead
    BY <1>1, <2>2, <2>3, <2>6
  <2>8. ASSUME NEW b \in ahead
        PROVE  j * W + k <= b
    <3>1. b \in Nat /\ ArrPos(b) \in Nat /\ BitPos(b) \in 0 .. W - 1
          /\ b = ArrPos(b) * W + BitPos(b)
      BY <1>1, DivMod
    <3>2. j <= ArrPos(b) /\ BitPos(b) \in db.array[ArrPos(b)]
      BY <1>1, <1>3, <2>1
    <3>3. ~(ArrPos(b) < j \/ (ArrPos(b) = j /\ BitPos(b) < k))
      BY <2>2, <2>3, <2>4, <3>1, <3>2
    <3>4. ~(ArrPos(b) * W + BitPos(b) < j * W + k)
      BY <2>2, <2>4, <3>1, <3>3, WordOrder
    <3> QED
      BY <2>6, <3>1, <3>4
  <2> HIDE DEF ahead
  <2>9. FirstWordFrom(db, i, LAMBDA word : word) = j * W + k
    BY <1>2, <1>5, <2>5
  <2>10. IsLeast(j * W + k, ahead)
    BY <2>7, <2>8 DEF IsLeast
  <2> QED
    BY <2>9, <2>10 DEF ahead
<1> QED
  BY <1>4, <1>5

\* begin() goes to the first bit.
LEMMA FirstBitIsLeast ==
  ASSUME NEW n \in Nat, NEW db, IsBitset(db, n)
  PROVE  IsLeast(FirstBit(db), Bits(db))
<1>1. {b \in Bits(db) : ArrPos(b) >= 0} = Bits(db)
  BY BitsAre
<1> QED
  BY <1>1, FirstWordIsLeast DEF FirstBit

\* ++ goes to the next one: in the word it is in or, as no position behind
\* another is 0, in the words that follow.
LEMMA NextBitIsLeast ==
  ASSUME NEW n \in Nat, NEW db, IsBitset(db, n),
         NEW b \in Nat, ArrPos(b) \in 0 .. ArrLen(n) - 1
  PROVE  IsLeast(NextBit(db, b), {c \in Bits(db) : b < c})
<1> DEFINE p      == ArrPos(b)
           word   == db.array[p]
           behind == {a \in word : a > BitPos(b)}
           ahead  == {c \in Bits(db) : b < c}
           later  == {c \in Bits(db) : ArrPos(c) >= p + 1}
           k      == Min(behind)
<1>1. /\ ArrLen(n) \in Nat
      /\ \A a \in 0 .. ArrLen(n) - 1 : db.array[a] \subseteq 0 .. W - 1
      /\ \A c : c \in Bits(db) <=> /\ c \in Nat /\ ArrPos(c) \in 0 .. ArrLen(n) - 1
                                   /\ BitPos(c) \in db.array[ArrPos(c)]
  BY BitsAre, ArrLenBounds
<1>2. /\ p \in Nat /\ BitPos(b) \in 0 .. W - 1
      /\ b = p * W + BitPos(b)
  BY DivMod
<1>3. word \subseteq 0 .. W - 1
  BY <1>1
<1>4. NextBit(db, b) = IF FirstBitInBlock(behind) # 0 THEN p * W + FirstBitInBlock(behind)
                       ELSE FirstWordFrom(db, p + 1, LAMBDA w : w)
  BY DEF NextBit, NextBitInBlock
<1>5. ASSUME NEW c \in Bits(db)
      PROVE  /\ c \in Nat /\ ArrPos(c) \in Nat /\ BitPos(c) \in 0 .. W - 1
             /\ c = ArrPos(c) * W + BitPos(c)
             /\ b < c <=> p < ArrPos(c) \/ (p = ArrPos(c) /\ BitPos(b) < BitPos(c))
  <2>1. /\ c \in Nat /\ ArrPos(c) \in Nat /\ BitPos(c) \in 0 .. W - 1
        /\ c = ArrPos(c) * W + BitPos(c)
    BY <1>1, DivMod
  <2>2. p * W + BitPos(b) < ArrPos(c) * W + BitPos(c)
           <=> p < ArrPos(c) \/ (p = ArrPos(c) /\ BitPos(b) < BitPos(c))
    BY <1>2, <2>1, WordOrder
  <2> QED
    BY <1>2, <2>1, <2>2
<1>6. CASE behind = {}
  <2>1. FirstBitInBlock(behind) = 0
    BY <1>6 DEF FirstBitInBlock
  <2>2. ahead = later
    <3>1. ASSUME NEW c \in Bits(db)
          PROVE  b < c <=> ArrPos(c) >= p + 1
      <4>1. ~(p = ArrPos(c) /\ BitPos(b) < BitPos(c))
        BY <1>1, <1>2, <1>5, <1>6
      <4> QED
        BY <1>2, <1>5, <4>1
    <3> QED
      BY <3>1
  <2>3. IsLeast(FirstWordFrom(db, p + 1, LAMBDA w : w), later)
    BY <1>2, FirstWordIsLeast
  <2>4. NextBit(db, b) = FirstWordFrom(db, p + 1, LAMBDA w : w)
    BY <1>4, <2>1
  <2> HIDE DEF ahead, later
  <2> QED
    BY <2>2, <2>3, <2>4 DEF ahead
<1>7. CASE behind # {}
  <2>1. k \in behind /\ \A a \in behind : k <= a
    <3>1. behind \subseteq Nat
      BY <1>3
    <3> HIDE DEF behind
    <3> QED
      BY <1>7, <3>1, LeastNumber
  <2>2. k \in word /\ k \in 0 .. W - 1 /\ k > BitPos(b)
    BY <1>3, <2>1
  <2> HIDE DEF k
  <2>3. FirstBitInBlock(behind) = k /\ k # 0
    BY <1>2, <1>7, <2>2 DEF FirstBitInBlock, k
  <2>4. NextBit(db, b) = p * W + k
    BY <1>4, <2>3
  <2>5. /\ p * W + k \in Nat
        /\ ArrPos(p * W + k) = p /\ BitPos(p * W + k) = k
    BY <1>2, <2>2, WordBit
  <2>6. p * W + k \in Bits(db)
    BY <1>1, <2>2, <2>5
  <2>7. p * W + k \in ahead
    BY <1>5, <2>2, <2>5, <2>6
  <2>8. ASSUME NEW c \in ahead
        PROVE  p * W + k <= c
    <3>1. /\ c \in Bits(db)
          /\ p < ArrPos(c) \/ (p = ArrPos(c) /\ BitPos(b) < BitPos(c))
      BY <1>5
    <3>2. /\ c \in Nat /\ ArrPos(c) \in Nat /\ BitPos(c) \in 0 .. W - 1
          /\ c = ArrPos(c) * W + BitPos(c)
      BY <1>5, <3>1
    <3>3. p = ArrPos(c) => BitPos(c) \in behind
      BY <1>1, <1>2, <3>1, <3>2
    <3>4. ~(ArrPos(c) < p \/ (ArrPos(c) = p /\ BitPos(c) < k))
      BY <1>2, <2>1, <2>2, <3>1, <3>2, <3>3
    <3>5. ~(ArrPos(c) * W + BitPos(c) < p * W + k)
      BY <1>2, <2>2, <3>2, <3>4, WordOrder
    <3> QED
      BY <2>5, <3>2, <3>5
  <2> HIDE DEF ahead
  <2>9. IsLeast(p * W + k, ahead)
    BY <2>7, <2>8 DEF IsLeast
  <2> QED
    BY <2>4, <2>9 DEF ahead
<1> QED
  BY <1>6, <1>7

-----------------------------------------------------------------------------
(* The two bitsets.                                                        *)

BitsetsOK ==
    /\ self.len \in 1 .. MaxLen
    /\ IsBitset(self, self.len) /\ IsBitset(other, self.len)

\* The operations leave a bitset a bitset, and add no bits behind the length.
LEMMA OperationsKeep ==
  ASSUME NEW n \in Nat, NEW db, IsBitset(db, n)
  PROVE  /\ IsBitset(Cleared(db), n) /\ Bits(Cleared(db)) = {}
         /\ IsBitset(Filled(db), n) /\ Bits(Filled(db)) \subseteq 0 .. n - 1
         /\ \A b \in 0 .. W * ArrLen(n) - 1 :
               /\ IsBitset(WithBit(db, b), n)
               /\ Bits(WithBit(db, b)) \subseteq Bits(db) \cup {b}
               /\ IsBitset(WithoutBit(db, b), n)
               /\ Bits(WithoutBit(db, b)) \subseteq Bits(db)
<1>1. /\ db.len = n /\ DOMAIN db.array = 0 .. ArrLen(n) - 1
      /\ db.array \in [0 .. ArrLen(n) - 1 -> SUBSET FullWord]
      /\ db = [len |-> n, array |-> db.array]
  BY BitsAre DEF IsBitset, Array
<1>2. \A array \in Array(n) : IsBitset([db EXCEPT !.array = array], n)
                              /\ [db EXCEPT !.array = array].array = array
  BY <1>1 DEF IsBitset
<1>3. FullWord = 0 .. W - 1 /\ W \in Nat
  BY WordAssumption DEF FullWord
<1>4. IsBitset(Cleared(db), n) /\ Bits(Cleared(db)) = {}
  <2> DEFINE none == [i \in 0 .. ArrLen(n) - 1 |-> {}]
  <2>1. Cleared(db) = [db EXCEPT !.array = none]
    BY <1>1 DEF Cleared, MapWords
  <2>2. none \in Array(n)
    BY DEF Array
  <2>3. IsBitset(Cleared(db), n) /\ Cleared(db).array = none
    BY <1>2, <2>1, <2>2
  <2>4. \A b : b \in Bits(Cleared(db)) => ArrPos(b) \in 0 .. ArrLen(n) - 1
                                          /\ BitPos(b) \in none[ArrPos(b)]
    BY <2>3, BitsAre
  <2> QED
    BY <2>3, <2>4
<1>5. IsBitset(Filled(db), n) /\ Bits(Filled(db)) \subseteq 0 .. n - 1
  <2> DEFINE full  == [i \in 0 .. ArrLen(n) - 1 |-> FullWord]
             fixed == FixTrailingBits(full, n)
  <2>1. Filled(db) = [db EXCEPT !.array = fixed]
    BY <1>1 DEF Filled
  <2>2. fixed = [i \in 0 .. ArrLen(n) - 1 |->
                   IF n % W # 0 /\ i = ArrLen(n) - 1 THEN {k \in FullWord : k < n % W}
                   ELSE FullWord]
    BY DEF FixTrailingBits
  <2>3. fixed \in Array(n)
    BY <2>2 DEF Array
  <2> HIDE DEF fixed
  <2>4. IsBitset(Filled(db), n) /\ Filled(db).array = fixed
    BY <1>2, <2>1, <2>3
  <2>5. ASSUME NEW b \in Bits(Filled(db))
        PROVE  b \in 0 .. n - 1
    <3>1. b \in Nat /\ ArrPos(b) \in 0 .. ArrLen(n) - 1 /\ BitPos(b) \in fixed[ArrPos(b)]
      BY <2>4, BitsAre
    <3>2. /\ ArrPos(b) \in Nat /\ BitPos(b) \in 0 .. W - 1
          /\ b = ArrPos(b) * W + BitPos(b)
      BY <3>1, DivMod
    <3>3. /\ ArrPos(n) \in Nat /\ BitPos(n) \in 0 .. W - 1
          /\ n = ArrPos(n) * W + BitPos(n)
          /\ ArrLen(n) = ArrPos(n) + (IF BitPos(n) > 0 THEN 1 ELSE 0)
      BY DivMod, ArrLenBounds
    <3>4. BitPos(n) # 0 /\ ArrPos(b) = ArrLen(n) - 1 => BitPos(b) < BitPos(n)
      BY <2>2, <3>1 DEF BitPos
    <3>5. ArrPos(b) < ArrPos(n) \/ (ArrPos(b) = ArrPos(n) /\ BitPos(b) < BitPos(n))
      BY <3>1, <3>2, <3>3, <3>4
    <3>6. b < n
      BY <3>2, <3>3, <3>5, WordOrder
    <3> QED
      BY <3>1, <3>6
  <2> QED
    BY <2>4, <2>5
<1>6. ASSUME NEW b \in 0 .. W * ArrLen(n) - 1
      PROVE  /\ IsBitset(WithBit(db, b), n)
             /\ Bits(WithBit(db, b)) \subseteq Bits(db) \cup {b}
             /\ IsBitset(WithoutBit(db, b), n)
             /\ Bits(WithoutBit(db, b)) \subseteq Bits(db)
  <2> DEFINE p    == ArrPos(b)
             with == [db.array EXCEPT ![p] = @ \cup {BitPos(b)}]
             less == [db.array EXCEPT ![p] = @ \ {BitPos(b)}]
  <2>1. /\ p \in 0 .. ArrLen(n) - 1 /\ BitPos(b) \in FullWord
        /\ b = p * W + BitPos(b)
    <3>1. p \in Nat /\ BitPos(b) \in 0 .. W - 1 /\ b = p * W + BitPos(b)
      BY DivMod
    <3>2. p \in 0 .. ArrLen(n) - 1
      BY HasAWord
    <3> QED
      BY <1>3, <3>1, <3>2
  <2>2. WithBit(db, b) = [db EXCEPT !.array = with] /\ WithoutBit(db, b) = [db EXCEPT !.array = less]
    BY <1>1 DEF WithBit, WithoutBit
  <2>3. with \in Array(n) /\ less \in Array(n)
    BY <1>1, <2>1 DEF Array
  <2>4. /\ \A i \in 0 .. ArrLen(n) - 1 : with[i] = IF i = p THEN db.array[i] \cup {BitPos(b)}
                                                   ELSE db.array[i]
        /\ \A i \in 0 .. ArrLen(n) - 1 : less[i] \subseteq db.array[i]
    BY <1>1
  <2> HIDE DEF with, less
  <2>5. /\ IsBitset(WithBit(db, b), n) /\ WithBit(db, b).array = with
        /\ IsBitset(WithoutBit(db, b), n) /\ WithoutBit(db, b).array = less
    BY <1>2, <2>2, <2>3
  <2>6. ASSUME NEW c \in Bits(WithBit(db, b))
        PROVE  c \in Bits(db) \cup {b}
    <3>1. c \in Nat /\ ArrPos(c) \in 0 .. ArrLen(n) - 1 /\ BitPos(c) \in with[ArrPos(c)]
      BY <2>5, BitsAre
    <3>2. c = ArrPos(c) * W + BitPos(c)
      BY <3>1, DivMod
    <3>3. BitPos(c) \in db.array[ArrPos(c)] \/ (ArrPos(c) = p /\ BitPos(c) = BitPos(b))
      BY <2>4, <3>1
    <3> QED
      BY <2>1, <3>1, <3>2, <3>3, BitsAre
  <2>7. ASSUME NEW c \in Bits(WithoutBit(db, b))
        PROVE  c \in Bits(db)
    <3>1. c \in Nat /\ ArrPos(c) \in 0 .. ArrLen(n) - 1 /\ BitPos(c) \in less[ArrPos(c)]
      BY <2>5, BitsAre
    <3> QED
      BY <2>4, <3>1, BitsAre
  <2> QED
    BY <2>5, <2>6, <2>7
<1> QED
  BY <1>4, <1>5, <1>6

\* initialize_from_mem brings in words, and no more of them than there are.
LEMMA FromMemKeeps ==
  ASSUME NEW n \in Nat, NEW db, IsBitset(db, n),
         NEW m \in 1 .. ArrLen(n), NEW mem \in [1 .. m -> SUBSET FullWord]
  PROVE  IsBitset(FromMem(db, mem), n)
<1>1. /\ DOMAIN db.array = 0 .. ArrLen(n) - 1
      /\ db.array \in [0 .. ArrLen(n) - 1 -> SUBSET FullWord]
      /\ db = [len |-> n, array |-> db.array]
  BY BitsAre DEF IsBitset, Array
<1>2. ArrLen(n) \in Nat /\ m \in Nat
  BY ArrLenBounds
<1>3. Len(mem) = m
  BY <1>2
<1> DEFINE array == [i \in 0 .. ArrLen(n) - 1 |->
                       IF i < Len(mem) THEN mem[i + 1] ELSE db.array[i]]
<1>4. FromMem(db, mem) = [db EXCEPT !.array = array]
  BY <1>1 DEF FromMem
<1>5. array \in Array(n)
  BY <1>1, <1>2, <1>3 DEF Array
<1> HIDE DEF array
<1> QED
  BY <1>1, <1>4, <1>5 DEF IsBitset

\* What a call puts into self, and nothing else, is what the history follows.
LEMMA NextBitsets ==
  ASSUME BitsetsOK, [Next]_vars
  PROVE  /\ BitsetsOK'
         /\ self'.len = self.len
<1> DEFINE n == self.len
<1>1. /\ n \in Nat /\ n \in 1 .. MaxLen /\ IsBitset(self, n) /\ IsBitset(other, n)
      /\ self.len = n /\ other.len = n
      /\ self = [len |-> n, array |-> self.array] /\ self.array \in Array(n)
      /\ other = [len |-> n, array |-> other.array] /\ other.array \in Array(n)
  <2>1. n \in Nat
    BY LengthAssumption DEF BitsetsOK
  <2> QED
    BY <2>1, BitsAre DEF BitsetsOK, IsBitset
<1> HIDE DEF n
<1>2. ASSUME NEW db, IsBitset(db, n), self' = db, other' = other
      PROVE  BitsetsOK' /\ self'.len = self.len
  BY <1>1, <1>2, BitsAre DEF BitsetsOK
<1>3. CASE Clear
  BY <1>1, <1>2, <1>3, OperationsKeep DEF Clear, Becomes
<1>4. CASE Fill
  BY <1>1, <1>2, <1>4, OperationsKeep DEF Fill, Becomes
<1>5. ASSUME NEW b \in Positions(self), Becomes(WithBit(self, b)) \/ Becomes(WithoutBit(self, b))
      PROVE  BitsetsOK' /\ self'.len = self.len
  <2>1. b \in 0 .. W * ArrLen(n) - 1
    BY <1>1 DEF Positions
  <2>2. IsBitset(WithBit(self, b), n) /\ IsBitset(WithoutBit(self, b), n)
    BY <1>1, <2>1, OperationsKeep
  <2> QED
    BY <1>2, <1>5, <2>2 DEF Becomes
<1>6. CASE InitializeFromMem
  <2>1. PICK m \in 1 .. ArrLen(n) : \E mem \in [1 .. m -> SUBSET FullWord] :
           Becomes(FromMem(self, mem))
    BY <1>1, <1>6 DEF InitializeFromMem
  <2>2. PICK mem \in [1 .. m -> SUBSET FullWord] : Becomes(FromMem(self, mem))
    BY <2>1
  <2>3. IsBitset(FromMem(self, mem), n)
    BY <1>1, FromMemKeeps
  <2> QED
    BY <1>2, <2>2, <2>3 DEF Becomes
<1>7. CASE CopyFromOther
  <2>1. IsBitset([self EXCEPT !.array = other.array], n)
    BY <1>1 DEF IsBitset
  <2> QED
    BY <1>2, <1>7, <2>1 DEF CopyFromOther, Becomes
<1>8. CASE CopyToOther
  <2>1. IsBitset([other EXCEPT !.array = self.array], n)
    BY <1>1 DEF IsBitset
  <2> QED
    BY <1>1, <1>8, <2>1 DEF CopyToOther, BitsetsOK
<1>9. CASE UNCHANGED bitsets
  BY <1>1, <1>9 DEF BitsetsOK, bitsets
<1> QED
  BY <1>3, <1>4, <1>5, <1>6, <1>7, <1>8, <1>9 DEF Next, SetBit, ClearBit, Begin, Increment, vars

LEMMA InitBitsets == Init => BitsetsOK
<1> SUFFICES ASSUME Init PROVE BitsetsOK
  OBVIOUS
<1>1. PICK n \in 1 .. MaxLen : self = [len |-> n, array |-> Zeros(n)] /\ other = self
  BY DEF Init, Constructed
<1>2. Zeros(n) \in Array(n)
  BY DEF Zeros, Array
<1> QED
  BY <1>1, <1>2 DEF BitsetsOK, IsBitset

-----------------------------------------------------------------------------
(* The iterator.                                                           *)

\* Where the iterator is, it has yielded; a bit that stayed is there now, and
\* what is there now has been seen.
IteratorInv ==
    pos # NoIterator =>
        /\ yielded \in Seq(Nat)
        /\ pos # NoBit => /\ pos \in Nat /\ ArrPos(pos) \in 0 .. ArrLen(self.len) - 1
                          /\ Len(yielded) > 0 /\ yielded[Len(yielded)] = pos
        /\ stable \subseteq Bits(self) /\ Bits(self) \subseteq seen
        /\ \A i, j \in DOMAIN yielded : i < j => yielded[i] < yielded[j]
        /\ \A b \in stable : b <= pos \/ pos = NoBit => b \in Yielded
        /\ Yielded \subseteq seen

\* A call of the owner under the iterator.
LEMMA BecomesIterator ==
  ASSUME IteratorInv, NEW db, Becomes(db), self'.len = self.len
  PROVE  IteratorInv'
<1>1. /\ UNCHANGED <<pos, yielded>> /\ self' = db
      /\ stable' = stable \cap Bits(db)
      /\ pos # NoIterator => seen' = seen \cup Bits(db)
  BY DEF Becomes
<1>2. Yielded' = Yielded
  BY <1>1 DEF Yielded
<1> SUFFICES ASSUME pos # NoIterator PROVE IteratorInv'
  BY <1>1 DEF IteratorInv
<1>3. pos # NoBit => /\ pos \in Nat /\ ArrPos(pos) \in 0 .. ArrLen(self'.len) - 1
                     /\ Len(yielded) > 0 /\ yielded[Len(yielded)] = pos
  BY DEF IteratorInv
<1> QED
  BY <1>1, <1>2, <1>3 DEF IteratorInv

LEMMA BeginIterator ==
  ASSUME BitsetsOK, Begin
  PROVE  IteratorInv'
<1> DEFINE c == FirstBit(self)
<1>1. /\ self.len \in Nat /\ IsBitset(self, self.len)
  BY LengthAssumption DEF BitsetsOK
<1>2. /\ pos' = c /\ yielded' = (IF c = NoBit THEN <<>> ELSE <<c>>)
      /\ stable' = Bits(self) /\ seen' = Bits(self) /\ self' = self
  BY DEF Begin, bitsets
<1>3. \/ Bits(self) = {} /\ c = NoBit
      \/ c \in Bits(self) /\ \A b \in Bits(self) : c <= b
  BY <1>1, FirstBitIsLeast DEF IsLeast
<1>4. \A b \in Bits(self) : b \in Nat /\ ArrPos(b) \in 0 .. ArrLen(self.len) - 1
  BY <1>1, BitsAre
<1> HIDE DEF c
<1>5. CASE Bits(self) = {}
  <2>1. c = NoBit /\ yielded' = <<>>
    BY <1>2, <1>3, <1>5
  <2>2. Yielded' = {}
    BY <2>1 DEF Yielded
  <2> QED
    BY <1>2, <1>5, <2>1, <2>2 DEF IteratorInv
<1>6. CASE Bits(self) # {}
  <2>1. c \in Bits(self) /\ c \in Nat /\ c # NoBit /\ \A b \in Bits(self) : c <= b
    BY <1>3, <1>4, <1>6 DEF NoBit
  <2>2. yielded' = <<c>>
    BY <1>2, <2>1
  <2>3. /\ yielded' \in Seq(Nat) /\ Len(yielded') = 1 /\ yielded'[1] = c
        /\ DOMAIN yielded' = 1 .. 1
    BY <2>1, <2>2
  <2>4. Yielded' = {c}
    BY <2>3 DEF Yielded
  <2>5. \A b \in Bits(self) : b <= c => b = c
    BY <1>4, <2>1
  <2>6. \A i, j \in DOMAIN yielded' : ~(i < j)
    BY <2>3
  <2> QED
    BY <1>2, <1>4, <2>1, <2>3, <2>4, <2>5, <2>6 DEF IteratorInv
<1> QED
  BY <1>5, <1>6

LEMMA IncrementIterator ==
  ASSUME BitsetsOK, IteratorInv, Increment
  PROVE  IteratorInv'
<1> DEFINE c     == NextBit(self, pos)
           ahead == {b \in Bits(self) : pos < b}
<1>1. /\ self.len \in Nat /\ IsBitset(self, self.len)
  BY LengthAssumption DEF BitsetsOK
<1>2. /\ pos # NoIterator /\ pos # NoBit
      /\ pos' = c /\ yielded' = (IF c = NoBit THEN yielded ELSE Append(yielded, c))
      /\ stable' = stable /\ seen' = seen /\ self' = self
  BY DEF Increment, Following, bitsets
<1>3. /\ yielded \in Seq(Nat)
      /\ pos \in Nat /\ ArrPos(pos) \in 0 .. ArrLen(self.len) - 1
      /\ Len(yielded) > 0 /\ yielded[Len(yielded)] = pos
      /\ stable \subseteq Bits(self) /\ Bits(self) \subseteq seen
      /\ \A i, j \in DOMAIN yielded : i < j => yielded[i] < yielded[j]
      /\ \A b \in stable : b <= pos => b \in Yielded
      /\ Yielded \subseteq seen
  BY <1>2 DEF IteratorInv
<1>4. \/ ahead = {} /\ c = NoBit
      \/ c \in ahead /\ \A b \in ahead : c <= b
  BY <1>1, <1>3, NextBitIsLeast DEF IsLeast
<1>5. \A b \in Bits(self) : b \in Nat /\ ArrPos(b) \in 0 .. ArrLen(self.len) - 1
  BY <1>1, BitsAre
<1> HIDE DEF c
<1>6. CASE ahead = {}
  <2>1. c = NoBit /\ yielded' = yielded
    BY <1>2, <1>4, <1>6
  <2>2. \A b \in stable : b <= pos
    BY <1>3, <1>5, <1>6
  <2>3. Yielded' = Yielded
    BY <2>1 DEF Yielded
  <2> QED
    BY <1>2, <1>3, <2>1, <2>2, <2>3 DEF IteratorInv
<1>7. CASE ahead # {}
  <2>1. /\ c \in Bits(self) /\ pos < c /\ c \in Nat /\ c # NoBit
        /\ \A b \in Bits(self) : pos < b => c <= b
    BY <1>4, <1>5, <1>7 DEF NoBit
  <2>2. yielded' = Append(yielded, c)
    BY <1>2, <2>1
  <2> DEFINE l == Len(yielded)
  <2>3. /\ yielded' \in Seq(Nat) /\ Len(yielded') = l + 1 /\ yielded'[l + 1] = c
        /\ DOMAIN yielded = 1 .. l /\ DOMAIN yielded' = 1 .. l + 1 /\ l \in Nat
        /\ \A i \in 1 .. l : yielded'[i] = yielded[i]
    BY <1>3, <2>1, <2>2
  <2> HIDE DEF l
  <2>4. Yielded' = Yielded \cup {c}
    <3>1. \A i \in 1 .. l + 1 : i \in 1 .. l \/ i = l + 1
      BY <2>3
    <3>2. 1 .. l \subseteq 1 .. l + 1 /\ l + 1 \in 1 .. l + 1
      BY <2>3
    <3> QED
      BY <2>3, <3>1, <3>2 DEF Yielded
  <2>5. ASSUME NEW i \in 1 .. l + 1, NEW j \in 1 .. l + 1, i < j
        PROVE  yielded'[i] < yielded'[j]
    <3>1. i \in 1 .. l
      BY <2>3, <2>5
    <3>2. CASE j \in 1 .. l
      BY <1>3, <2>3, <2>5, <3>1, <3>2
    <3>3. CASE j = l + 1
      <4>1. yielded[i] \in Nat /\ l \in 1 .. l /\ yielded[l] = pos
        BY <1>3, <2>3, <3>1 DEF l
      <4>2. yielded[i] <= pos
        <5>1. i < l => yielded[i] < yielded[l]
          BY <1>3, <2>3, <3>1, <4>1
        <5>2. i = l \/ i < l
          BY <2>3, <3>1
        <5> QED
          BY <1>3, <4>1, <5>1, <5>2
      <4> QED
        BY <1>3, <2>1, <2>3, <3>1, <3>3, <4>1, <4>2
    <3> QED
      BY <2>3, <3>2, <3>3
  <2>6. ASSUME NEW b \in stable, b <= c
        PROVE  b \in Yielded'
    <3>1. b \in Bits(self) /\ b \in Nat
      BY <1>3, <1>5
    <3>2. b <= pos \/ b = c
      BY <1>3, <2>1, <2>6, <3>1
    <3> QED
      BY <1>3, <2>4, <3>2
  <2>7. Yielded' \subseteq seen
    BY <1>3, <2>1, <2>4
  <2>8. /\ ArrPos(c) \in 0 .. ArrLen(self.len) - 1
        /\ Len(yielded') > 0 /\ yielded'[Len(yielded')] = c
    BY <1>5, <2>1, <2>3
  <2> QED
    BY <1>2, <1>3, <2>1, <2>3, <2>5, <2>6, <2>7, <2>8 DEF IteratorInv
<1> QED
  BY <1>6, <1>7

LEMMA NextIterator ==
  ASSUME BitsetsOK, IteratorInv, [Next]_vars
  PROVE  IteratorInv'
<1>1. self'.len = self.len
  BY NextBitsets
<1>2. ASSUME NEW db, Becomes(db) PROVE IteratorInv'
  BY <1>1, <1>2, BecomesIterator
<1>3. CASE Begin
  BY <1>3, BeginIterator
<1>4. CASE Increment
  BY <1>4, IncrementIterator
<1>5. ASSUME UNCHANGED <<self, iterator>>
      PROVE  IteratorInv'
  <2>1. Yielded' = Yielded
    BY <1>5 DEF iterator, Yielded
  <2> QED
    BY <1>5, <2>1 DEF IteratorInv, iterator
<1> QED
  BY <1>2, <1>3, <1>4, <1>5
     DEF Next, Clear, Fill, SetBit, ClearBit, InitializeFromMem, CopyFromOther,
         CopyToOther, vars, bitsets

LEMMA BitsetsInvariance == Spec => [](BitsetsOK /\ IteratorInv)
<1>1. Init => BitsetsOK /\ IteratorInv
  BY InitBitsets DEF Init, IteratorInv
<1>2. BitsetsOK /\ IteratorInv /\ [Next]_vars => (BitsetsOK /\ IteratorInv)'
  BY NextBitsets, NextIterator
<1> QED
  BY <1>1, <1>2, PTL DEF Spec

\* A loop over a bitset whose owner goes on changing it meets every bit that
\* is one from begin() on, meets none that was never one, and only goes
\* forward, for every length and width of a word and whatever is changed
\* between two ++ (dense_bitset.hpp:667-712, 748-767; sync.cpp:139).
THEOREM IterationIsSound == Spec => []IterationSound
<1>1. IteratorInv => IterationSound
  BY DEF IteratorInv, IterationSound
<1> QED
  BY <1>1, BitsetsInvariance, PTL

-----------------------------------------------------------------------------
(* Bits behind the length.                                                 *)

\* The bits behind the length that an operation leaves were there before it, or
\* the caller of set_bit asked for one.
LEMMA NextTrailing ==
  ASSUME BitsetsOK, OnlyForeignTrailing, [Next]_vars
  PROVE  OnlyForeignTrailing'
<1> DEFINE n == self.len
<1>1. /\ n \in Nat /\ IsBitset(self, n) /\ IsBitset(other, n)
      /\ self.len = n /\ other.len = n
      /\ self = [len |-> n, array |-> self.array] /\ self.array \in Array(n)
      /\ other = [len |-> n, array |-> other.array] /\ other.array \in Array(n)
  <2>1. n \in Nat
    BY LengthAssumption DEF BitsetsOK
  <2> QED
    BY <2>1, BitsAre DEF BitsetsOK, IsBitset
<1> HIDE DEF n
<1>2. Bits(self) \ (0 .. n - 1) \subseteq foreign /\ Bits(other) \ (0 .. n - 1) \subseteq foreign
  BY <1>1 DEF OnlyForeignTrailing, Trailing, Indices
<1>3. ASSUME NEW db, IsBitset(db, n), self' = db, other' = other, foreign \subseteq foreign',
             Bits(db) \ (0 .. n - 1) \subseteq foreign'
      PROVE  OnlyForeignTrailing'
  <2>1. db.len = n
    BY <1>1, <1>3, BitsAre
  <2> QED
    BY <1>1, <1>2, <1>3, <2>1 DEF OnlyForeignTrailing, Trailing, Indices
<1>4. CASE Clear
  BY <1>1, <1>3, <1>4, OperationsKeep DEF Clear, Becomes
<1>5. CASE Fill
  BY <1>1, <1>3, <1>5, OperationsKeep DEF Fill, Becomes
<1>6. ASSUME NEW b \in Positions(self),
             \/ Becomes(WithBit(self, b)) /\ foreign' = foreign \cup ({b} \ Indices(self))
             \/ Becomes(WithoutBit(self, b)) /\ UNCHANGED foreign
      PROVE  OnlyForeignTrailing'
  <2>1. b \in 0 .. W * ArrLen(n) - 1
    BY <1>1 DEF Positions
  <2>2. /\ IsBitset(WithBit(self, b), n) /\ Bits(WithBit(self, b)) \subseteq Bits(self) \cup {b}
        /\ IsBitset(WithoutBit(self, b), n) /\ Bits(WithoutBit(self, b)) \subseteq Bits(self)
    BY <1>1, <2>1, OperationsKeep
  <2>3. Bits(self) \ (0 .. n - 1) \subseteq foreign' /\ foreign \subseteq foreign'
    BY <1>2, <1>6
  <2>4. CASE Becomes(WithBit(self, b)) /\ foreign' = foreign \cup ({b} \ Indices(self))
    <3>1. {b} \ (0 .. n - 1) \subseteq foreign'
      BY <1>1, <2>4 DEF Indices
    <3>2. Bits(WithBit(self, b)) \ (0 .. n - 1) \subseteq foreign'
      BY <2>2, <2>3, <3>1
    <3> QED
      BY <1>3, <2>2, <2>3, <2>4, <3>2 DEF Becomes
  <2>5. CASE Becomes(WithoutBit(self, b)) /\ UNCHANGED foreign
    <3>1. Bits(WithoutBit(self, b)) \ (0 .. n - 1) \subseteq foreign'
      BY <2>2, <2>3
    <3> QED
      BY <1>3, <2>2, <2>3, <2>5, <3>1 DEF Becomes
  <2> QED
    BY <1>6, <2>4, <2>5
<1>7. CASE InitializeFromMem
  <2>1. PICK db : Becomes(db) /\ foreign' = foreign \cup Trailing(db)
    BY <1>7 DEF InitializeFromMem
  <2>2. self' = db /\ other' = other
    BY <2>1 DEF Becomes
  <2> QED
    BY <2>1, <2>2 DEF OnlyForeignTrailing
<1>8. CASE CopyFromOther
  <2>1. [self EXCEPT !.array = other.array] = other
    BY <1>1
  <2> QED
    BY <1>1, <1>2, <1>3, <1>8, <2>1 DEF CopyFromOther, Becomes
<1>9. CASE CopyToOther
  <2>1. [other EXCEPT !.array = self.array] = self
    BY <1>1
  <2>2. other' = self /\ self' = self /\ foreign' = foreign
    BY <1>9, <2>1 DEF CopyToOther
  <2> QED
    BY <2>2 DEF OnlyForeignTrailing
<1>10. CASE UNCHANGED <<bitsets, foreign>>
  BY <1>10 DEF OnlyForeignTrailing, bitsets
<1> QED
  BY <1>4, <1>5, <1>6, <1>7, <1>8, <1>9, <1>10
     DEF Next, SetBit, ClearBit, Begin, Increment, vars

\* Only initialize_from_mem and a caller of set_bit who goes beyond the length
\* bring in bits behind it: no other operation and no copy makes one, and fill
\* clears them (dense_bitset.hpp:549-551, 568-571, 590-597).
THEOREM TrailingBitsAreForeign == Spec => []OnlyForeignTrailing
<1>1. Init => OnlyForeignTrailing
  <2> SUFFICES ASSUME Init PROVE OnlyForeignTrailing
    OBVIOUS
  <2>1. PICK n \in 1 .. MaxLen : self = [len |-> n, array |-> Zeros(n)] /\ other = self
    BY DEF Init, Constructed
  <2>2. Bits(self) = {}
    <3>1. n \in Nat /\ IsBitset(self, n)
      BY <2>1, LengthAssumption DEF IsBitset, Zeros, Array
    <3>2. \A b \in Bits(self) : ArrPos(b) \in 0 .. ArrLen(n) - 1 /\ BitPos(b) \in self.array[ArrPos(b)]
      BY <3>1, BitsAre
    <3>3. \A i \in 0 .. ArrLen(n) - 1 : self.array[i] = {}
      BY <2>1 DEF Zeros
    <3> QED
      BY <3>2, <3>3
  <2> QED
    BY <2>1, <2>2 DEF OnlyForeignTrailing, Trailing
<1>2. BitsetsOK /\ OnlyForeignTrailing /\ [Next]_vars => OnlyForeignTrailing'
  BY NextTrailing
<1> QED
  BY <1>1, <1>2, BitsetsInvariance, PTL DEF Spec
=============================================================================
