------------------------- MODULE DenseBitsetProofs -------------------------
(***************************************************************************)
(* Proofs about dense_bitset, for every length and every width of a word:  *)
(* each operation on words, whatever is in the array, is the operation on  *)
(* sets it is named for, so that a bit behind the length comes from a      *)
(* caller of set_bit or xor_bit only; a transfer that comes back short has *)
(* visited, and emptied, every word of the other bitset; and the searches, *)
(* the counts and the loop over a bitset are those of the set of its bits, *)
(* also when the engine goes through it word by word.                      *)
(***************************************************************************)
EXTENDS DenseBitset, FiniteSetTheorems, WellFoundedInduction, TLAPS

-----------------------------------------------------------------------------
(* Words and positions: bit b is at position b % W of word b \div W, and   *)
(* the order of the bits is that of their words, then of their positions.  *)

LEMMA DivMod ==
  ASSUME NEW b \in Nat
  PROVE  /\ ArrPos(b) \in Nat /\ BitPos(b) \in 0 .. W - 1
         /\ b = ArrPos(b) * W + BitPos(b)
  BY WordAssumption DEF ArrPos, BitPos

LEMMA WordBit ==
  ASSUME NEW i \in Nat, NEW k \in 0 .. W - 1
  PROVE  /\ i * W + k \in Nat
         /\ ArrPos(i * W + k) = i /\ BitPos(i * W + k) = k
  BY WordAssumption DEF ArrPos, BitPos

LEMMA WordOrder ==
  ASSUME NEW i \in Nat, NEW j \in Nat, NEW k \in 0 .. W - 1, NEW l \in 0 .. W - 1
  PROVE  i * W + k < j * W + l <=> i < j \/ (i = j /\ k < l)
<1>1. W \in Nat /\ W > 0
  BY WordAssumption
<1>2. ASSUME NEW a \in Nat, NEW b \in Nat, a < b
      PROVE  a * W + W <= b * W
  <2>1. PICK c \in Nat : b = a + 1 + c
    <3>1. b - a - 1 \in Nat /\ b = a + 1 + (b - a - 1)
      BY <1>2
    <3> QED
      BY <3>1
  <2>2. b * W = a * W + W + c * W
    BY <1>1, <2>1
  <2>3. c * W \in Nat /\ a * W \in Nat
    BY <1>1
  <2> QED
    BY <1>1, <2>2, <2>3
<1>3. i * W \in Nat /\ j * W \in Nat
  BY <1>1
<1>4. CASE i < j
  <2>1. i * W + W <= j * W
    BY <1>2, <1>4
  <2> QED
    BY <1>1, <1>3, <1>4, <2>1
<1>5. CASE j < i
  <2>1. j * W + W <= i * W
    BY <1>2, <1>5
  <2> QED
    BY <1>1, <1>3, <1>5, <2>1
<1>6. CASE i = j
  BY <1>1, <1>3, <1>6
<1> QED
  BY <1>4, <1>5, <1>6

LEMMA ArrLenBounds ==
  ASSUME NEW n \in Nat
  PROVE  /\ ArrLen(n) \in Nat
         /\ ArrLen(n) = ArrPos(n) + (IF BitPos(n) > 0 THEN 1 ELSE 0)
         /\ \A b \in 0 .. n - 1 : ArrPos(b) < ArrLen(n)
<1>1. /\ ArrPos(n) \in Nat /\ BitPos(n) \in 0 .. W - 1
      /\ n = ArrPos(n) * W + BitPos(n)
  BY DivMod
<1>2. ArrLen(n) = ArrPos(n) + (IF BitPos(n) > 0 THEN 1 ELSE 0)
  BY DEF ArrLen, ArrPos, BitPos
<1>3. ASSUME NEW b \in 0 .. n - 1
      PROVE  ArrPos(b) < ArrLen(n)
  <2>1. /\ ArrPos(b) \in Nat /\ BitPos(b) \in 0 .. W - 1
        /\ b = ArrPos(b) * W + BitPos(b)
    BY DivMod
  <2>2. ArrPos(b) < ArrPos(n) \/ (ArrPos(b) = ArrPos(n) /\ BitPos(b) < BitPos(n))
    <3>1. ArrPos(b) * W + BitPos(b) < ArrPos(n) * W + BitPos(n)
      BY <1>1, <2>1
    <3> QED
      BY <1>1, <2>1, <3>1, WordOrder
  <2> QED
    BY <1>1, <1>2, <2>1, <2>2
<1> QED
  BY <1>1, <1>2, <1>3

\* There is a word for the bits the words have room for, and for no others.
LEMMA HasAWord ==
  ASSUME NEW n \in Nat, NEW b \in Nat
  PROVE  b \in 0 .. W * ArrLen(n) - 1 <=> ArrPos(b) \in 0 .. ArrLen(n) - 1
<1>1. ArrLen(n) \in Nat /\ W \in Nat
  BY ArrLenBounds, WordAssumption
<1>2. /\ ArrPos(b) \in Nat /\ BitPos(b) \in 0 .. W - 1
      /\ b = ArrPos(b) * W + BitPos(b)
  BY DivMod
<1>3. 0 \in 0 .. W - 1
  BY WordAssumption
<1>4. b < ArrLen(n) * W + 0 <=> ArrPos(b) < ArrLen(n)
  BY <1>1, <1>2, <1>3, WordOrder
<1> QED
  BY <1>1, <1>2, <1>4

LEMMA BelowTheLength ==
  ASSUME NEW n \in Nat
  PROVE  0 .. n - 1 \subseteq 0 .. W * ArrLen(n) - 1
<1> SUFFICES ASSUME NEW b \in 0 .. n - 1
             PROVE  b \in 0 .. W * ArrLen(n) - 1
  OBVIOUS
<1>1. b \in Nat /\ ArrPos(b) \in Nat
  BY DivMod
<1>2. ArrPos(b) < ArrLen(n) /\ ArrLen(n) \in Nat
  BY ArrLenBounds
<1> QED
  BY <1>1, <1>2, HasAWord

\* A bitset with n bits, and what its bits are.
IsBitset(db, n) == db = [len |-> n, array |-> db.array] /\ db.array \in Array(n)

LEMMA BitsAre ==
  ASSUME NEW n \in Nat, NEW db, IsBitset(db, n)
  PROVE  /\ db.len = n
         /\ DOMAIN db.array = 0 .. ArrLen(n) - 1
         /\ \A i \in 0 .. ArrLen(n) - 1 : db.array[i] \subseteq 0 .. W - 1
         /\ \A b : b \in Bits(db) <=> /\ b \in Nat /\ ArrPos(b) \in 0 .. ArrLen(n) - 1
                                      /\ BitPos(b) \in db.array[ArrPos(b)]
<1>1. db.len = n /\ db.array \in [0 .. ArrLen(n) - 1 -> SUBSET (0 .. W - 1)]
  BY DEF IsBitset, Array, FullWord
<1>2. ArrLen(n) \in Nat /\ W \in Nat
  BY ArrLenBounds, WordAssumption
<1>3. ASSUME NEW b \in Nat
      PROVE  b \in 0 .. W * ArrLen(n) - 1 <=> ArrPos(b) \in 0 .. ArrLen(n) - 1
  BY HasAWord
<1>4. \A b \in 0 .. W * ArrLen(n) - 1 : b \in Nat
  OBVIOUS
<1> QED
  BY <1>1, <1>3, <1>4 DEF Bits

-----------------------------------------------------------------------------
(* The operations.                                                         *)

\* A bitset of n bits, of which those of the set are one.
Holds(db, n, bits) == IsBitset(db, n) /\ Bits(db) = bits

\* The position of a bit of n is below n, in the words there are and before
\* the cut of the last one.
LEMMA BehindTheCut ==
  ASSUME NEW n \in Nat, NEW i \in 0 .. ArrLen(n) - 1, NEW k \in 0 .. W - 1
  PROVE  i * W + k < n <=> (n % W # 0 /\ i = ArrLen(n) - 1 => k < n % W)
<1>1. /\ ArrPos(n) \in Nat /\ BitPos(n) \in 0 .. W - 1
      /\ n = ArrPos(n) * W + BitPos(n) /\ BitPos(n) = n % W
      /\ ArrLen(n) \in Nat /\ ArrLen(n) = ArrPos(n) + (IF BitPos(n) > 0 THEN 1 ELSE 0)
  BY DivMod, ArrLenBounds DEF BitPos
<1>2. i \in Nat /\ i < ArrLen(n)
  BY <1>1
<1>3. i * W + k < ArrPos(n) * W + BitPos(n)
        <=> i < ArrPos(n) \/ (i = ArrPos(n) /\ k < BitPos(n))
  BY <1>1, <1>2, WordOrder
<1> QED
  BY <1>1, <1>2, <1>3

\* The words say which bits are one.
LEMMA WordsSay ==
  ASSUME NEW n \in Nat, NEW array \in Array(n),
         NEW bits, bits \subseteq 0 .. W * ArrLen(n) - 1,
         \A i \in 0 .. ArrLen(n) - 1 : \A k \in 0 .. W - 1 :
            k \in array[i] <=> i * W + k \in bits
  PROVE  Holds([len |-> n, array |-> array], n, bits)
<1> DEFINE db == [len |-> n, array |-> array]
<1>1. IsBitset(db, n) /\ db.array = array
  BY DEF IsBitset
<1> HIDE DEF db
<1>2. \A b : b \in Bits(db) <=> /\ b \in Nat /\ ArrPos(b) \in 0 .. ArrLen(n) - 1
                                /\ BitPos(b) \in array[ArrPos(b)]
  BY <1>1, BitsAre
<1>3. ASSUME NEW b \in Bits(db)
      PROVE  b \in bits
  <2>1. b \in Nat /\ ArrPos(b) \in 0 .. ArrLen(n) - 1 /\ BitPos(b) \in array[ArrPos(b)]
    BY <1>2
  <2>2. BitPos(b) \in 0 .. W - 1 /\ b = ArrPos(b) * W + BitPos(b)
    BY <2>1, DivMod
  <2> QED
    BY <2>1, <2>2
<1>4. ASSUME NEW b \in bits
      PROVE  b \in Bits(db)
  <2>1. b \in Nat /\ b \in 0 .. W * ArrLen(n) - 1
    OBVIOUS
  <2>2. /\ ArrPos(b) \in Nat /\ BitPos(b) \in 0 .. W - 1
        /\ b = ArrPos(b) * W + BitPos(b)
    BY <2>1, DivMod
  <2>4. ArrPos(b) \in 0 .. ArrLen(n) - 1
    BY <2>1, HasAWord
  <2>5. BitPos(b) \in array[ArrPos(b)]
    BY <2>2, <2>4
  <2> QED
    BY <1>2, <2>1, <2>4, <2>5
<1> QED
  BY <1>1, <1>3, <1>4 DEF Holds, db

\* And the bits say what the words are.
LEMMA BitsSay ==
  ASSUME NEW n \in Nat, NEW db, IsBitset(db, n),
         NEW i \in 0 .. ArrLen(n) - 1, NEW k \in 0 .. W - 1
  PROVE  k \in db.array[i] <=> i * W + k \in Bits(db)
<1>1. i \in Nat
  BY ArrLenBounds
<1> QED
  BY <1>1, BitsAre, WordBit

\* fix_trailing_bits clears what is behind the length, and no more.
LEMMA FixCuts ==
  ASSUME NEW n \in Nat, NEW array \in Array(n)
  PROVE  /\ FixTrailingBits(array, n) \in Array(n)
         /\ \A i \in 0 .. ArrLen(n) - 1 : \A k \in 0 .. W - 1 :
               k \in FixTrailingBits(array, n)[i] <=> k \in array[i] /\ i * W + k < n
<1> DEFINE fixed == FixTrailingBits(array, n)
<1>1. array \in [0 .. ArrLen(n) - 1 -> SUBSET FullWord]
  BY DEF Array
<1>2. fixed = [i \in 0 .. ArrLen(n) - 1 |->
                 IF n % W # 0 /\ i = ArrLen(n) - 1 THEN {k \in array[i] : k < n % W}
                 ELSE array[i]]
  <2>1. CASE n % W = 0
    BY <1>1, <2>1 DEF FixTrailingBits
  <2>2. CASE n % W # 0
    BY <1>1, <2>2 DEF FixTrailingBits
  <2> QED
    BY <2>1, <2>2
<1>3. fixed \in Array(n)
  BY <1>1, <1>2 DEF Array
<1> HIDE DEF fixed
<1>4. ASSUME NEW i \in 0 .. ArrLen(n) - 1, NEW k \in 0 .. W - 1
      PROVE  k \in fixed[i] <=> k \in array[i] /\ i * W + k < n
  <2>1. k \in fixed[i] <=> k \in array[i] /\ (n % W # 0 /\ i = ArrLen(n) - 1 => k < n % W)
    BY <1>2
  <2> QED
    BY <2>1, BehindTheCut
<1> QED
  BY <1>3, <1>4 DEF fixed

\* A bitset the program can have.
Proper(db) == db.len \in Nat /\ IsBitset(db, db.len)

LEMMA ProperWords ==
  ASSUME NEW db, Proper(db)
  PROVE  /\ db.len \in Nat /\ db = [len |-> db.len, array |-> db.array]
         /\ db.array \in [0 .. ArrLen(db.len) - 1 -> SUBSET FullWord]
         /\ db.array \in Array(db.len)
         /\ DOMAIN db.array = 0 .. ArrLen(db.len) - 1
         /\ Bits(db) \subseteq 0 .. W * ArrLen(db.len) - 1
         /\ \A array : /\ [db EXCEPT !.array = array] = [len |-> db.len, array |-> array]
                       /\ [db EXCEPT !.array = array].array = array
BY DEF Proper, IsBitset, Array, Bits

LEMMA HoldsIsProper ==
  ASSUME NEW db, NEW n \in Nat, NEW bits, Holds(db, n, bits)
  PROVE  Proper(db) /\ db.len = n
<1>1. db.len = n
  BY DEF Holds, IsBitset
<1> QED
  BY <1>1 DEF Holds, Proper

\* clear, fill and invert.
LEMMA ClearedHolds ==
  ASSUME NEW db, Proper(db)
  PROVE  Holds(Cleared(db), db.len, {})
<1> DEFINE words == [i \in 0 .. ArrLen(db.len) - 1 |-> {}]
<1>1. DOMAIN db.array = 0 .. ArrLen(db.len) - 1
  BY ProperWords
<1>2. Cleared(db) = [db EXCEPT !.array = words]
  BY <1>1 DEF Cleared, MapWords
<1>3. words \in Array(db.len) /\ \A i \in 0 .. ArrLen(db.len) - 1 : words[i] = {}
  BY DEF Array
<1> HIDE DEF words
<1>4. db.len \in Nat /\ {} \subseteq 0 .. W * ArrLen(db.len) - 1
  BY ProperWords
<1>5. Cleared(db) = [len |-> db.len, array |-> words]
  BY <1>2, ProperWords
<1> QED
  BY <1>3, <1>4, <1>5, WordsSay

LEMMA FilledHolds ==
  ASSUME NEW db, Proper(db)
  PROVE  Holds(Filled(db), db.len, Indices(db))
<1> DEFINE n     == db.len
           words == [i \in 0 .. ArrLen(n) - 1 |-> FullWord]
           fixed == FixTrailingBits(words, n)
<1>1. n \in Nat /\ Indices(db) = 0 .. n - 1
  BY ProperWords DEF Indices
<1>2. Filled(db) = [len |-> n, array |-> fixed]
  <2>1. DOMAIN db.array = 0 .. ArrLen(n) - 1
    BY ProperWords
  <2>2. Filled(db) = [db EXCEPT !.array = fixed]
    BY <2>1 DEF Filled
  <2> HIDE DEF fixed
  <2> QED
    BY <2>2, ProperWords
<1>3. words \in Array(n) /\ \A i \in 0 .. ArrLen(n) - 1 : words[i] = 0 .. W - 1
  BY DEF Array, FullWord
<1> HIDE DEF words
<1>4. fixed \in Array(n)
  BY <1>1, <1>3, FixCuts
<1>5. ASSUME NEW i \in 0 .. ArrLen(n) - 1, NEW k \in 0 .. W - 1
      PROVE  k \in fixed[i] <=> i * W + k \in 0 .. n - 1
  <2>1. k \in fixed[i] <=> i * W + k < n
    BY <1>1, <1>3, FixCuts
  <2>2. i * W + k \in Nat
    BY <1>1, WordBit, ArrLenBounds
  <2> QED
    BY <1>1, <2>1, <2>2
<1> HIDE DEF fixed, n
<1>6. Holds([len |-> n, array |-> fixed], n, 0 .. n - 1)
  <2>1. 0 .. n - 1 \subseteq 0 .. W * ArrLen(n) - 1
    BY <1>1, BelowTheLength
  <2> QED
    BY <1>1, <1>4, <1>5, <2>1, WordsSay
<1> QED
  BY <1>1, <1>2, <1>6 DEF n

LEMMA InvertedHolds ==
  ASSUME NEW db, Proper(db)
  PROVE  Holds(Inverted(db), db.len, Indices(db) \ Bits(db))
<1> DEFINE n     == db.len
           words == [i \in 0 .. ArrLen(n) - 1 |-> FullWord \ db.array[i]]
           fixed == FixTrailingBits(words, n)
           bits  == Indices(db) \ Bits(db)
<1>1. n \in Nat /\ Indices(db) = 0 .. n - 1 /\ IsBitset(db, n)
  BY ProperWords DEF Indices, Proper
<1>2. Inverted(db) = [len |-> n, array |-> fixed]
  <2>1. DOMAIN db.array = 0 .. ArrLen(n) - 1
    BY ProperWords
  <2>2. Inverted(db) = [db EXCEPT !.array = fixed]
    BY <2>1 DEF Inverted
  <2> HIDE DEF fixed
  <2> QED
    BY <2>2, ProperWords
<1>3. words \in Array(n)
      /\ \A i \in 0 .. ArrLen(n) - 1 : words[i] = (0 .. W - 1) \ db.array[i]
  BY DEF Array, FullWord
<1> HIDE DEF words
<1>4. fixed \in Array(n)
  BY <1>1, <1>3, FixCuts
<1>5. ASSUME NEW i \in 0 .. ArrLen(n) - 1, NEW k \in 0 .. W - 1
      PROVE  k \in fixed[i] <=> i * W + k \in bits
  <2>1. k \in fixed[i] <=> k \notin db.array[i] /\ i * W + k < n
    BY <1>1, <1>3, FixCuts
  <2>2. i * W + k \in Nat
    BY <1>1, WordBit, ArrLenBounds
  <2>3. k \in db.array[i] <=> i * W + k \in Bits(db)
    BY <1>1, BitsSay
  <2> QED
    BY <1>1, <2>1, <2>2, <2>3
<1>6. bits \subseteq 0 .. W * ArrLen(n) - 1
  BY <1>1, BelowTheLength
<1> HIDE DEF fixed, n, bits
<1>7. Holds([len |-> n, array |-> fixed], n, bits)
  BY <1>1, <1>4, <1>5, <1>6, WordsSay
<1> QED
  BY <1>2, <1>7 DEF n, bits

\* resize.  The new words are empty; when there are none the last word is cut,
\* and when there are the old words are all below the new length.
LEMMA ResizedHolds ==
  ASSUME NEW db, Proper(db), NEW n \in Nat
  PROVE  Holds(Resized(db, n), n, Bits(db) \cap (0 .. n - 1))
<1> DEFINE m     == db.len
           grown == [i \in 0 .. ArrLen(n) - 1 |->
                       IF i < ArrLen(m) THEN db.array[i] ELSE {}]
           bits  == Bits(db) \cap (0 .. n - 1)
<1>1. /\ m \in Nat /\ IsBitset(db, m)
      /\ db.array \in [0 .. ArrLen(m) - 1 -> SUBSET FullWord]
      /\ ArrLen(m) \in Nat /\ ArrLen(n) \in Nat
  BY ProperWords, ArrLenBounds DEF Proper
<1>2. Resized(db, n) = [len |-> n, array |-> IF ArrLen(n) > ArrLen(m) THEN grown
                                             ELSE FixTrailingBits(grown, n)]
  BY DEF Resized
<1>3. /\ grown \in Array(n)
      /\ \A i \in 0 .. ArrLen(n) - 1 :
            grown[i] = IF i < ArrLen(m) THEN db.array[i] ELSE {}
  BY <1>1 DEF Array
<1>4. bits \subseteq 0 .. W * ArrLen(n) - 1
  BY BelowTheLength
<1> HIDE DEF m, grown
<1>5. ASSUME NEW i \in 0 .. ArrLen(n) - 1, NEW k \in 0 .. W - 1
      PROVE  k \in grown[i] <=> i * W + k \in Bits(db)
  <2>1. CASE i < ArrLen(m)
    <3>1. i \in 0 .. ArrLen(m) - 1
      BY <1>1, <2>1
    <3>2. k \in db.array[i] <=> i * W + k \in Bits(db)
      BY <1>1, <3>1, BitsSay
    <3> QED
      BY <1>3, <2>1, <3>2
  <2>2. CASE ~(i < ArrLen(m))
    <3>1. i \in Nat
      BY <1>1
    <3>2. ArrPos(i * W + k) = i
      BY <3>1, WordBit
    <3>3. i * W + k \notin Bits(db)
      BY <1>1, <2>2, <3>1, <3>2, BitsAre
    <3> QED
      BY <1>3, <2>2, <3>3
  <2> QED
    BY <2>1, <2>2
<1>6. CASE ArrLen(n) > ArrLen(m)
  <2>1. ASSUME NEW b \in Bits(db)
        PROVE  b \in 0 .. n - 1
    <3>1. b \in Nat /\ ArrPos(b) \in 0 .. ArrLen(m) - 1
      BY <1>1, BitsAre
    <3>2. /\ ArrPos(b) \in Nat /\ BitPos(b) \in 0 .. W - 1
          /\ b = ArrPos(b) * W + BitPos(b) /\ ArrPos(b) < ArrLen(m)
      BY <1>1, <3>1, DivMod
    <3>3. /\ ArrPos(b) \in 0 .. ArrLen(n) - 1
          /\ ArrPos(b) # ArrLen(n) - 1
      BY <1>1, <1>6, <3>2
    <3>4. ArrPos(b) * W + BitPos(b) < n
      BY <3>2, <3>3, BehindTheCut
    <3> QED
      BY <3>1, <3>2, <3>4
  <2>2. Bits(db) = bits
    BY <2>1
  <2> HIDE DEF bits
  <2>3. Holds([len |-> n, array |-> grown], n, bits)
    BY <1>3, <1>4, <1>5, <2>2, WordsSay
  <2> QED
    BY <1>2, <1>6, <2>3 DEF bits
<1>7. CASE ~(ArrLen(n) > ArrLen(m))
  <2> DEFINE fixed == FixTrailingBits(grown, n)
  <2>1. fixed \in Array(n)
    BY <1>3, FixCuts
  <2>2. ASSUME NEW i \in 0 .. ArrLen(n) - 1, NEW k \in 0 .. W - 1
        PROVE  k \in fixed[i] <=> i * W + k \in bits
    <3>1. k \in fixed[i] <=> k \in grown[i] /\ i * W + k < n
      BY <1>3, FixCuts
    <3>2. i * W + k \in Nat
      BY <1>1, WordBit
    <3> QED
      BY <1>5, <3>1, <3>2
  <2> HIDE DEF fixed, bits
  <2>3. Holds([len |-> n, array |-> fixed], n, bits)
    BY <1>4, <2>1, <2>2, WordsSay
  <2> QED
    BY <1>2, <1>7, <2>3 DEF fixed, bits
<1> QED
  BY <1>6, <1>7

\* The operations on one bit change one position.
LEMMA BitHolds ==
  ASSUME NEW db, Proper(db), NEW b \in Positions(db)
  PROVE  /\ Get(db, b) <=> b \in Bits(db)
         /\ Holds(WithBit(db, b), db.len, Bits(db) \cup {b})
         /\ Holds(WithoutBit(db, b), db.len, Bits(db) \ {b})
         /\ Holds(Flipped(db, b), db.len,
                  IF b \in Bits(db) THEN Bits(db) \ {b} ELSE Bits(db) \cup {b})
<1> DEFINE n    == db.len
           p    == ArrPos(b)
           with == [db.array EXCEPT ![p] = @ \cup {BitPos(b)}]
           less == [db.array EXCEPT ![p] = @ \ {BitPos(b)}]
<1>1. /\ n \in Nat /\ IsBitset(db, n) /\ Bits(db) \subseteq 0 .. W * ArrLen(n) - 1
      /\ db.array \in [0 .. ArrLen(n) - 1 -> SUBSET FullWord]
      /\ \A array : [db EXCEPT !.array = array] = [len |-> n, array |-> array]
  BY ProperWords DEF Proper
<1>2. b \in 0 .. W * ArrLen(n) - 1 /\ b \in Nat
  BY <1>1 DEF Positions
<1>3. /\ p \in Nat /\ BitPos(b) \in 0 .. W - 1 /\ b = p * W + BitPos(b)
      /\ ArrLen(n) \in Nat
  BY <1>1, <1>2, DivMod, ArrLenBounds
<1>4. p \in 0 .. ArrLen(n) - 1
  BY <1>1, <1>2, HasAWord
<1>5. Get(db, b) <=> b \in Bits(db)
  BY <1>1, <1>3, <1>4, BitsSay DEF Get
<1>6. with \in Array(n) /\ less \in Array(n)
  BY <1>1, <1>3, <1>4 DEF Array, FullWord
<1>7. \A i \in 0 .. ArrLen(n) - 1 :
         /\ with[i] = IF i = p THEN db.array[i] \cup {BitPos(b)} ELSE db.array[i]
         /\ less[i] = IF i = p THEN db.array[i] \ {BitPos(b)} ELSE db.array[i]
  BY <1>1, <1>4
<1>8. WithBit(db, b) = [db EXCEPT !.array = with] /\ WithoutBit(db, b) = [db EXCEPT !.array = less]
  BY <1>1 DEF WithBit, WithoutBit
<1> HIDE DEF n, with, less
<1>9. ASSUME NEW i \in 0 .. ArrLen(n) - 1, NEW k \in 0 .. W - 1
      PROVE  /\ k \in with[i] <=> i * W + k \in Bits(db) \cup {b}
             /\ k \in less[i] <=> i * W + k \in Bits(db) \ {b}
  <2>1. k \in db.array[i] <=> i * W + k \in Bits(db)
    BY <1>1, BitsSay
  <2>2. i = p /\ k = BitPos(b) <=> i * W + k = b
    <3>1. i \in Nat
      BY <1>3
    <3>2. ArrPos(i * W + k) = i /\ BitPos(i * W + k) = k
      BY <3>1, WordBit
    <3> QED
      BY <1>3, <3>2
  <2> QED
    BY <1>7, <2>1, <2>2
<1>10. Holds([len |-> n, array |-> with], n, Bits(db) \cup {b})
  BY <1>1, <1>2, <1>6, <1>9, WordsSay
<1>11. Holds([len |-> n, array |-> less], n, Bits(db) \ {b})
  BY <1>1, <1>2, <1>6, <1>9, WordsSay
<1>12. Holds(WithBit(db, b), n, Bits(db) \cup {b}) /\ Holds(WithoutBit(db, b), n, Bits(db) \ {b})
  BY <1>1, <1>8, <1>10, <1>11
<1> QED
  BY <1>5, <1>12 DEF n, Flipped

\* &=, |= and -=.
LEMMA PairsHold ==
  ASSUME NEW db, NEW o, Proper(db), Proper(o), o.len = db.len
  PROVE  /\ Holds(Anded(db, o), db.len, Bits(db) \cap Bits(o))
         /\ Holds(Ored(db, o), db.len, Bits(db) \cup Bits(o))
         /\ Holds(Minus(db, o), db.len, Bits(db) \ Bits(o))
<1> DEFINE n      == db.len
           anded  == [i \in 0 .. ArrLen(n) - 1 |-> db.array[i] \cap o.array[i]]
           ored   == [i \in 0 .. ArrLen(n) - 1 |-> db.array[i] \cup o.array[i]]
           minus  == [i \in 0 .. ArrLen(n) - 1 |-> db.array[i] \ (db.array[i] \cap o.array[i])]
<1>1. /\ n \in Nat /\ IsBitset(db, n) /\ IsBitset(o, n)
      /\ Bits(db) \subseteq 0 .. W * ArrLen(n) - 1 /\ Bits(o) \subseteq 0 .. W * ArrLen(n) - 1
      /\ db.array \in [0 .. ArrLen(n) - 1 -> SUBSET FullWord]
      /\ o.array \in [0 .. ArrLen(n) - 1 -> SUBSET FullWord]
      /\ DOMAIN db.array = 0 .. ArrLen(n) - 1
      /\ \A array : [db EXCEPT !.array = array] = [len |-> n, array |-> array]
  BY ProperWords DEF Proper
<1>2. anded \in Array(n) /\ ored \in Array(n) /\ minus \in Array(n)
  BY <1>1 DEF Array
<1>3. /\ Anded(db, o) = [db EXCEPT !.array = anded]
      /\ Ored(db, o) = [db EXCEPT !.array = ored]
      /\ Minus(db, o) = [db EXCEPT !.array = minus]
  BY <1>1 DEF Anded, Ored, Minus
<1>4. ASSUME NEW i \in 0 .. ArrLen(n) - 1, NEW k \in 0 .. W - 1
      PROVE  /\ k \in anded[i] <=> i * W + k \in Bits(db) \cap Bits(o)
             /\ k \in ored[i] <=> i * W + k \in Bits(db) \cup Bits(o)
             /\ k \in minus[i] <=> i * W + k \in Bits(db) \ Bits(o)
  <2>1. k \in db.array[i] <=> i * W + k \in Bits(db)
    BY <1>1, BitsSay
  <2>2. k \in o.array[i] <=> i * W + k \in Bits(o)
    BY <1>1, BitsSay
  <2> QED
    BY <2>1, <2>2
<1> HIDE DEF n, anded, ored, minus
<1>5. Holds([len |-> n, array |-> anded], n, Bits(db) \cap Bits(o))
  BY <1>1, <1>2, <1>4, WordsSay
<1>6. Holds([len |-> n, array |-> ored], n, Bits(db) \cup Bits(o))
  BY <1>1, <1>2, <1>4, WordsSay
<1>7. Holds([len |-> n, array |-> minus], n, Bits(db) \ Bits(o))
  BY <1>1, <1>2, <1>4, WordsSay
<1> QED
  BY <1>1, <1>3, <1>5, <1>6, <1>7 DEF n

\* The assignments, and a word that is zeroed.
LEMMA CopyHolds ==
  ASSUME NEW db, NEW o, Proper(db), Proper(o)
  PROVE  /\ AssignFrom(db, o) = o
         /\ o.len = db.len => [db EXCEPT !.array = o.array] = o
<1>1. o = [len |-> o.len, array |-> o.array] /\ db = [len |-> db.len, array |-> db.array]
  BY ProperWords
<1>2. \A words : [[len |-> o.len, array |-> words] EXCEPT !.array = o.array]
                  = [len |-> o.len, array |-> o.array]
  OBVIOUS
<1>3. \E words : Resized(db, o.len) = [len |-> o.len, array |-> words]
  BY DEF Resized
<1>4. AssignFrom(db, o) = [len |-> o.len, array |-> o.array]
  BY <1>2, <1>3 DEF AssignFrom
<1> QED
  BY <1>1, <1>4

WithWord(db, p, word) == [db EXCEPT !.array[p] = word]

\* A bitset one word of which is changed.
LEMMA WordChanged ==
  ASSUME NEW db, Proper(db), NEW p \in 0 .. ArrLen(db.len) - 1,
         NEW word, word \subseteq FullWord
  PROVE  /\ Proper(WithWord(db, p, word))
         /\ WithWord(db, p, word).len = db.len
         /\ \A i \in 0 .. ArrLen(db.len) - 1 :
               WithWord(db, p, word).array[i] = IF i = p THEN word ELSE db.array[i]
<1> DEFINE n   == db.len
           new == [db.array EXCEPT ![p] = word]
<1>1. /\ n \in Nat /\ db = [len |-> n, array |-> db.array]
      /\ db.array \in [0 .. ArrLen(n) - 1 -> SUBSET FullWord]
  BY ProperWords DEF Proper
<1>2. WithWord(db, p, word) = [len |-> n, array |-> new]
  BY <1>1 DEF WithWord
<1>3. new \in Array(n)
  BY <1>1 DEF Array
<1>4. \A i \in 0 .. ArrLen(n) - 1 : new[i] = IF i = p THEN word ELSE db.array[i]
  BY <1>1
<1> HIDE DEF n, new
<1>5. Proper([len |-> n, array |-> new])
  BY <1>1, <1>3 DEF Proper, IsBitset
<1> QED
  BY <1>2, <1>4, <1>5 DEF n

\* A bit of a bitset one word of which is changed is a bit of that word, or was
\* there before.
LEMMA BitsOfChanged ==
  ASSUME NEW db, Proper(db), NEW p \in 0 .. ArrLen(db.len) - 1,
         NEW word, word \subseteq FullWord, NEW o, Proper(o), o.len = db.len,
         word \subseteq db.array[p] \cup o.array[p]
  PROVE  Bits(WithWord(db, p, word)) \subseteq Bits(db) \cup Bits(o)
<1> DEFINE n   == db.len
           new == WithWord(db, p, word)
<1>1. n \in Nat /\ IsBitset(db, n) /\ IsBitset(o, n)
  BY DEF Proper
<1>2. /\ IsBitset(new, n)
      /\ \A i \in 0 .. ArrLen(n) - 1 : new.array[i] = IF i = p THEN word ELSE db.array[i]
  BY WordChanged DEF Proper
<1> HIDE DEF n, new
<1>3. ASSUME NEW b \in Bits(new)
      PROVE  b \in Bits(db) \cup Bits(o)
  <2>1. b \in Nat /\ ArrPos(b) \in 0 .. ArrLen(n) - 1 /\ BitPos(b) \in new.array[ArrPos(b)]
    BY <1>1, <1>2, BitsAre
  <2>2. BitPos(b) \in db.array[ArrPos(b)] \/ BitPos(b) \in o.array[ArrPos(b)]
    BY <1>2, <2>1
  <2> QED
    BY <1>1, <2>1, <2>2, BitsAre
<1> QED
  BY <1>3 DEF new

-----------------------------------------------------------------------------
(* The two bitsets, and the transfer from one to the other.                *)

BitsetsOK ==
    /\ Proper(self) /\ Proper(other)
    /\ self.len <= MaxLen /\ other.len <= MaxLen

\* The words the transfer has been to since it began: from the initial one up
\* to where it is, around the end of the array.
Visited(c) == IF c.initial <= c.arrpos THEN c.initial .. c.arrpos - 1
              ELSE 0 .. c.arrpos - 1

\* A call of transfer_approximate_unsafe, wherever it is.
IsCall(c) ==
    c \in [running : {TRUE}, arrpos : Nat, initial : Nat, b : Nat,
           transferred : Nat, returned : BOOLEAN]

\* What is true of a call, if there is a word at all.  When it is in front of
\* the initial word it has been at the end of the array, so that the words
\* behind are empty too.
TransferInv ==
    \/ tr = NoCall
    \/ /\ IsCall(tr)
       /\ self.len = other.len
       /\ ArrLen(self.len) > 0 =>
             /\ tr.arrpos \in 0 .. ArrLen(self.len) - 1
             /\ ~tr.returned =>
                   /\ \A i \in Visited(tr) : other.array[i] = {}
                   /\ tr.arrpos < tr.initial =>
                         \A i \in 0 .. ArrLen(self.len) - 1 :
                            tr.initial <= i => other.array[i] = {}
             /\ tr.returned => tr.transferred >= tr.b \/ Bits(other) = {}

LEMMA InitBitsets == Init => BitsetsOK /\ TransferInv
<1> SUFFICES ASSUME Init PROVE BitsetsOK /\ TransferInv
  OBVIOUS
<1>1. ASSUME NEW n \in 0 .. MaxLen
      PROVE  Proper([len |-> n, array |-> Zeros(n)])
  <2>1. n \in Nat /\ Zeros(n) \in Array(n)
    BY DEF Zeros, Array
  <2>2. \A i \in 0 .. ArrLen(n) - 1 : Zeros(n)[i] = {}
    BY DEF Zeros
  <2>3. {} \subseteq 0 .. W * ArrLen(n) - 1
    OBVIOUS
  <2>4. Holds([len |-> n, array |-> Zeros(n)], n, {})
    BY <2>1, <2>2, <2>3, WordsSay
  <2> QED
    BY <2>1, <2>3, <2>4, HoldsIsProper
<1>2. PICK n \in 0 .. MaxLen : self = [len |-> n, array |-> Zeros(n)]
  BY DEF Init
<1>3. 0 \in 0 .. MaxLen /\ other = [len |-> 0, array |-> Zeros(0)] /\ tr = NoCall
  BY BitsetAssumption DEF Init
<1>4. Proper(self) /\ self.len = n
  BY <1>1, <1>2
<1>5. Proper(other) /\ other.len = 0
  BY <1>1, <1>3
<1> QED
  BY <1>3, <1>4, <1>5, BitsetAssumption DEF BitsetsOK, TransferInv

\* What each call makes of self is proper.
LEMMA CallsKeepProper ==
  ASSUME BitsetsOK, NEW db, Becomes(db),
         \/ \E n \in 0 .. MaxLen : db = Resized(self, n)
         \/ db = Cleared(self)
         \/ db = Filled(self)
         \/ db = Inverted(self)
         \/ \E b \in Positions(self) : db \in {WithBit(self, b), WithoutBit(self, b),
                                              Flipped(self, b), WordZeroed(self, b)}
         \/ SameSize /\ db \in {Anded(self, other), Ored(self, other), Minus(self, other),
                                [self EXCEPT !.array = other.array]}
         \/ db = AssignFrom(self, other)
  PROVE  Proper(db) /\ db.len <= MaxLen
<1>1. /\ Proper(self) /\ Proper(other) /\ self.len \in Nat /\ other.len \in Nat
      /\ self.len <= MaxLen /\ other.len <= MaxLen /\ MaxLen \in Nat
      /\ Positions(self) = 0 .. W * ArrLen(self.len) - 1
  BY ProperWords, BitsetAssumption DEF BitsetsOK, Positions
<1>2. ASSUME NEW n \in 0 .. MaxLen, db = Resized(self, n)
      PROVE  Proper(db) /\ db.len <= MaxLen
  <2>1. Holds(db, n, Bits(self) \cap (0 .. n - 1))
    BY <1>1, <1>2, ResizedHolds
  <2>2. Proper(db) /\ db.len = n
    BY <2>1, HoldsIsProper
  <2> QED
    BY <1>1, <2>2
<1>3. ASSUME NEW bits, Holds(db, self.len, bits)
      PROVE  Proper(db) /\ db.len <= MaxLen
  BY <1>1, <1>3, HoldsIsProper
<1>4. CASE db = Cleared(self)
  BY <1>1, <1>3, <1>4, ClearedHolds
<1>5. CASE db = Filled(self)
  BY <1>1, <1>3, <1>5, FilledHolds
<1>6. CASE db = Inverted(self)
  BY <1>1, <1>3, <1>6, InvertedHolds
<1>7. ASSUME NEW b \in Positions(self),
             db \in {WithBit(self, b), WithoutBit(self, b), Flipped(self, b)}
      PROVE  Proper(db) /\ db.len <= MaxLen
  <2>1. \/ Holds(db, self.len, Bits(self) \cup {b})
        \/ Holds(db, self.len, Bits(self) \ {b})
    BY <1>1, <1>7, BitHolds
  <2> QED
    BY <1>3, <2>1
<1>8. ASSUME NEW b \in Positions(self), db = WordZeroed(self, b)
      PROVE  Proper(db) /\ db.len <= MaxLen
  <2>1. ArrPos(b) \in 0 .. ArrLen(self.len) - 1
    BY <1>1, HasAWord
  <2>2. /\ Proper(WithWord(self, ArrPos(b), {}))
        /\ WithWord(self, ArrPos(b), {}).len = self.len
    BY <1>1, <2>1, WordChanged
  <2>3. db = WithWord(self, ArrPos(b), {})
    BY <1>8 DEF WordZeroed, WithWord
  <2> QED
    BY <1>1, <2>2, <2>3
<1>9. ASSUME SameSize, db \in {Anded(self, other), Ored(self, other), Minus(self, other)}
      PROVE  Proper(db) /\ db.len <= MaxLen
  <2>1. \/ Holds(db, self.len, Bits(self) \cap Bits(other))
        \/ Holds(db, self.len, Bits(self) \cup Bits(other))
        \/ Holds(db, self.len, Bits(self) \ Bits(other))
    BY <1>1, <1>9, PairsHold DEF SameSize
  <2> QED
    BY <1>1, <1>3, <1>9, <2>1 DEF SameSize
<1>10. CASE SameSize /\ db = [self EXCEPT !.array = other.array]
  BY <1>1, <1>10, CopyHolds DEF SameSize
<1>11. CASE db = AssignFrom(self, other)
  BY <1>1, <1>11, CopyHolds
<1> QED
  BY <1>2, <1>4, <1>5, <1>6, <1>7, <1>8, <1>9, <1>10, <1>11

LEMMA BecomesKeeps ==
  ASSUME BitsetsOK, TransferInv, NEW db, Becomes(db), Proper(db), db.len <= MaxLen
  PROVE  BitsetsOK' /\ TransferInv'
<1>1. self' = db /\ other' = other
  BY DEF Becomes
<1>2. tr' = NoCall
  BY DEF Becomes, TransferInv, IsCall
<1> QED
  BY <1>1, <1>2 DEF BitsetsOK, TransferInv

LEMMA CallKeeps ==
  ASSUME BitsetsOK, TransferCall
  PROVE  BitsetsOK' /\ TransferInv'
<1> DEFINE n == self.len
<1>1. /\ n \in Nat /\ other.len = n /\ MaxLen \in Nat
      /\ self' = self /\ other' = other
  BY ProperWords, BitsetAssumption DEF BitsetsOK, TransferCall, SameSize
<1>2. PICK start \in 0 .. W * ArrLen(n), b \in 0 .. MaxLen :
        tr' = [running     |-> TRUE,
               arrpos      |-> IF ArrPos(start) >= ArrLen(n) THEN 0 ELSE ArrPos(start),
               initial     |-> ArrPos(start),
               b           |-> b,
               transferred |-> 0,
               returned    |-> b = 0]
  BY DEF TransferCall
<1>3. ArrLen(n) \in Nat /\ ArrPos(start) \in Nat
  <2>1. start \in Nat
    BY <1>1
  <2> QED
    BY <1>1, <2>1, DivMod, ArrLenBounds
<1>4. IsCall(tr)' /\ (ArrLen(n) > 0 => tr'.arrpos \in 0 .. ArrLen(n) - 1)
  BY <1>1, <1>2, <1>3 DEF IsCall
<1>5. /\ tr'.initial <= tr'.arrpos => tr'.arrpos = tr'.initial
      /\ tr'.arrpos < tr'.initial => tr'.arrpos = 0 /\ tr'.initial >= ArrLen(n)
  BY <1>2, <1>3
<1>6. tr'.initial \in Nat /\ tr'.arrpos \in Nat
  BY <1>4 DEF IsCall
<1>7. \A i \in Visited(tr)' : other'.array[i] = {}
  <2>1. Visited(tr)' = {}
    BY <1>5, <1>6 DEF Visited
  <2> QED
    BY <2>1
<1>8. tr'.arrpos < tr'.initial =>
        \A i \in 0 .. ArrLen(n) - 1 : tr'.initial <= i => other'.array[i] = {}
  BY <1>3, <1>5, <1>6
<1>9. tr'.returned => tr'.transferred >= tr'.b
  <2>1. (tr'.returned => b = 0) /\ tr'.transferred = 0 /\ tr'.b = b
    BY <1>2
  <2> QED
    BY <2>1
<1>10. TransferInv'
  BY <1>1, <1>4, <1>7, <1>8, <1>9 DEF TransferInv
<1> QED
  BY <1>1, <1>10 DEF BitsetsOK

\* One round of the loop moves a word, goes to the next one, and returns when
\* it has moved enough or come around.
LEMMA StepKeeps ==
  ASSUME BitsetsOK, TransferInv, TransferStep
  PROVE  BitsetsOK' /\ TransferInv'
<1> DEFINE n     == self.len
           p     == tr.arrpos
           q     == IF p + 1 >= ArrLen(n) THEN 0 ELSE p + 1
           word  == other.array[p]
           total == tr.transferred + Cardinality(word)
<1>1. tr.running /\ ~tr.returned /\ IsCall(tr)
  BY DEF TransferStep, TransferInv, NoCall
<1>0. ArrLen(n) > 0
  BY <1>1 DEF TransferStep, TransferInv, NoCall
<1>2. /\ n \in Nat /\ other.len = n /\ Proper(self) /\ Proper(other)
      /\ p \in 0 .. ArrLen(n) - 1
      /\ self.array \in [0 .. ArrLen(n) - 1 -> SUBSET FullWord]
      /\ other.array \in [0 .. ArrLen(n) - 1 -> SUBSET FullWord]
      /\ ArrLen(n) \in Nat
      /\ n <= MaxLen
  BY <1>1, <1>0, ProperWords, ArrLenBounds DEF BitsetsOK, TransferInv, NoCall
<1>3. /\ \A i \in Visited(tr) : other.array[i] = {}
      /\ tr.arrpos < tr.initial =>
            \A i \in 0 .. ArrLen(n) - 1 : tr.initial <= i => other.array[i] = {}
  BY <1>1, <1>0 DEF TransferInv, NoCall
<1>4. /\ self' = [self EXCEPT !.array[p] = @ \cup word]
      /\ other' = [other EXCEPT !.array[p] = {}]
      /\ tr' = [tr EXCEPT !.arrpos = q, !.transferred = total,
                          !.returned = Breaks(p, q) \/ total >= tr.b]
  BY <1>2 DEF TransferStep, TakenFromOther
<1>5. total \in Nat
  <2>1. word \subseteq 0 .. W - 1
    BY <1>2 DEF FullWord
  <2>2. IsFiniteSet(0 .. W - 1)
    BY WordAssumption, FS_Interval
  <2>3. Cardinality(word) \in Nat
    BY <2>1, <2>2, FS_Subset, FS_CardinalityType
  <2> QED
    BY <1>1, <2>3 DEF IsCall
<1> HIDE DEF total, n
<1>6. /\ IsCall(tr)' /\ tr'.arrpos = q /\ tr'.initial = tr.initial /\ tr'.b = tr.b
      /\ tr'.transferred = total
      /\ tr'.returned = (Breaks(p, q) \/ total >= tr.b)
      /\ p \in Nat /\ q \in 0 .. ArrLen(n) - 1 /\ tr.initial \in Nat
  <2>1. p \in Nat /\ q \in 0 .. ArrLen(n) - 1 /\ q \in Nat
    BY <1>2
  <2>2. (Breaks(p, q) \/ total >= tr.b) \in BOOLEAN
    OBVIOUS
  <2> HIDE DEF p, q
  <2> QED
    BY <1>1, <1>4, <1>5, <2>1, <2>2 DEF IsCall
<1>7. BitsetsOK' /\ self'.len = n /\ other'.len = n
  <2>1. /\ self' = WithWord(self, p, self.array[p] \cup word)
        /\ other' = WithWord(other, p, {})
    BY <1>4 DEF WithWord
  <2>2. /\ self.array[p] \cup word \subseteq FullWord
        /\ p \in 0 .. ArrLen(self.len) - 1 /\ p \in 0 .. ArrLen(other.len) - 1
        /\ other.len = self.len
    BY <1>2 DEF n
  <2> HIDE DEF p, word
  <2>3. Proper(self') /\ self'.len = self.len
    BY <1>2, <2>1, <2>2, WordChanged
  <2>4. Proper(other') /\ other'.len = other.len
    BY <1>2, <2>1, <2>2, WordChanged
  <2> QED
    BY <1>2, <2>2, <2>3, <2>4 DEF BitsetsOK, n
<1>8. \A i \in 0 .. ArrLen(n) - 1 : other'.array[i] = IF i = p THEN {} ELSE other.array[i]
  <2>1. other' = WithWord(other, p, {}) /\ p \in 0 .. ArrLen(other.len) - 1
    BY <1>2, <1>4 DEF WithWord
  <2> HIDE DEF p
  <2> QED
    BY <1>2, <2>1, WordChanged
<1>9. \A i \in Visited(tr)' : other'.array[i] = {}
  <2>1. ASSUME NEW i \in Visited(tr)'
        PROVE  i \in 0 .. ArrLen(n) - 1 /\ (i = p \/ i \in Visited(tr))
    <3>1. CASE p + 1 < ArrLen(n)
      <4>1. q = p + 1
        BY <1>2, <3>1
      <4> QED
        BY <1>2, <1>6, <4>1 DEF Visited
    <3>2. CASE ~(p + 1 < ArrLen(n))
      <4>1. q = 0
        BY <1>2, <3>2
      <4> QED
        BY <1>2, <1>6, <4>1 DEF Visited
    <3> QED
      BY <3>1, <3>2
  <2> QED
    BY <1>3, <1>8, <2>1
<1>10. tr'.arrpos < tr'.initial =>
         \A i \in 0 .. ArrLen(n) - 1 : tr'.initial <= i => other'.array[i] = {}
  <2> SUFFICES ASSUME q < tr.initial, NEW i \in 0 .. ArrLen(n) - 1, tr.initial <= i
               PROVE  other'.array[i] = {}
    BY <1>6
  <2>1. CASE p < tr.initial
    BY <1>3, <1>8, <2>1
  <2>2. CASE ~(p < tr.initial)
    <3>1. p = ArrLen(n) - 1
      BY <1>2, <1>6, <2>2
    <3>2. i = p \/ i \in Visited(tr)
      BY <1>2, <1>6, <2>2, <3>1 DEF Visited
    <3> QED
      BY <1>3, <1>8, <3>2
  <2> QED
    BY <2>1, <2>2
<1>11. tr'.returned => tr'.transferred >= tr'.b \/ Bits(other') = {}
  <2> SUFFICES ASSUME Breaks(p, q) PROVE Bits(other') = {}
    BY <1>6
  <2>1. p + 1 < ArrLen(n) /\ q = tr.initial /\ q = p + 1
    BY <1>2 DEF Breaks, n
  <2>2. ASSUME NEW i \in 0 .. ArrLen(n) - 1
        PROVE  other'.array[i] = {}
    <3>1. i = p \/ i \in Visited(tr) \/ tr.initial <= i
      BY <1>2, <1>6, <2>1 DEF Visited
    <3>2. p < tr.initial
      BY <1>6, <2>1
    <3> QED
      BY <1>3, <1>8, <3>1, <3>2
  <2>3. IsBitset(other', n)
    BY <1>7 DEF BitsetsOK, Proper
  <2>4. \A b : b \in Bits(other') => ArrPos(b) \in 0 .. ArrLen(n) - 1
                                     /\ BitPos(b) \in other'.array[ArrPos(b)]
    BY <1>2, <2>3, BitsAre
  <2> QED
    BY <2>2, <2>4
<1>12. TransferInv'
  BY <1>6, <1>7, <1>9, <1>10, <1>11 DEF TransferInv
<1> QED
  BY <1>7, <1>12

\* A round without a word to look at.
LEMMA NothingKeeps ==
  ASSUME BitsetsOK, TransferInv, TransferNothing
  PROVE  BitsetsOK' /\ TransferInv'
<1>1. tr.running /\ IsCall(tr) /\ self.len = other.len
  BY DEF TransferNothing, TransferInv, NoCall
<1>2. PICK found \in 0 .. W :
        tr' = [tr EXCEPT !.transferred = @ + found,
                         !.returned = tr.transferred + found >= tr.b]
  BY DEF TransferNothing
<1>3. found \in Nat /\ self' = self /\ other' = other /\ ArrLen(self.len) = 0
  BY <1>1, WordAssumption DEF TransferNothing
<1>4. IsCall(tr)'
  <2>1. tr.transferred + found \in Nat /\ (tr.transferred + found >= tr.b) \in BOOLEAN
    BY <1>1, <1>3 DEF IsCall
  <2> QED
    BY <1>1, <1>2, <2>1 DEF IsCall
<1>5. ~(ArrLen(self.len) > 0)
  BY <1>3
<1> QED
  BY <1>1, <1>3, <1>4, <1>5 DEF BitsetsOK, TransferInv

LEMMA NextKeeps ==
  ASSUME BitsetsOK, TransferInv, [Next]_vars
  PROVE  BitsetsOK' /\ TransferInv'
<1>1. ASSUME NEW db, Becomes(db),
             \/ \E n \in 0 .. MaxLen : db = Resized(self, n)
             \/ db = Cleared(self)
             \/ db = Filled(self)
             \/ db = Inverted(self)
             \/ \E b \in Positions(self) : db \in {WithBit(self, b), WithoutBit(self, b),
                                                  Flipped(self, b), WordZeroed(self, b)}
             \/ SameSize /\ db \in {Anded(self, other), Ored(self, other), Minus(self, other),
                                    [self EXCEPT !.array = other.array]}
             \/ db = AssignFrom(self, other)
      PROVE  BitsetsOK' /\ TransferInv'
  <2>1. Proper(db) /\ db.len <= MaxLen
    BY <1>1, CallsKeepProper
  <2> QED
    BY <1>1, <2>1, BecomesKeeps
<1>2. CASE Resize
  BY <1>1, <1>2 DEF Resize
<1>3. CASE Clear
  BY <1>1, <1>3 DEF Clear
<1>4. CASE Fill
  BY <1>1, <1>4 DEF Fill
<1>5. CASE Invert
  BY <1>1, <1>5 DEF Invert
<1>6. CASE SetBit
  BY <1>1, <1>6 DEF SetBit
<1>7. CASE ClearBit
  BY <1>1, <1>7 DEF ClearBit
<1>8. CASE XorBit
  BY <1>1, <1>8 DEF XorBit
<1>9. CASE TakeWord
  BY <1>1, <1>9 DEF TakeWord
<1>10. CASE And
  BY <1>1, <1>10 DEF And
<1>11. CASE Or
  BY <1>1, <1>11 DEF Or
<1>12. CASE Subtract
  BY <1>1, <1>12 DEF Subtract
<1>13. CASE Assign
  BY <1>1, <1>13 DEF Assign
<1>14. CASE CopyFromOther
  BY <1>1, <1>14 DEF CopyFromOther
<1>15. CASE CopyToOther
  <2>1. Proper(self) /\ Proper(other) /\ self.len <= MaxLen
    BY DEF BitsetsOK
  <2>2. other' = self /\ self' = self
    BY <1>15, <2>1, CopyHolds DEF CopyToOther
  <2>3. tr' = NoCall
    BY <1>15 DEF CopyToOther, TransferInv, IsCall
  <2> QED
    BY <2>1, <2>2, <2>3 DEF BitsetsOK, TransferInv
<1>16. CASE TransferCall
  BY <1>16, CallKeeps
<1>17. CASE TransferStep
  BY <1>17, StepKeeps
<1>20. CASE TransferNothing
  BY <1>20, NothingKeeps
<1>18. CASE TransferReturn
  BY <1>18 DEF TransferReturn, BitsetsOK, TransferInv
<1>19. CASE UNCHANGED vars
  BY <1>19 DEF vars, BitsetsOK, TransferInv, Visited
<1> QED
  BY <1>2, <1>3, <1>4, <1>5, <1>6, <1>7, <1>8, <1>9, <1>10, <1>11, <1>12, <1>13, <1>14,
     <1>15, <1>16, <1>17, <1>18, <1>19, <1>20 DEF Next

LEMMA DenseInvariance == Spec => [](BitsetsOK /\ TransferInv)
<1>1. Init => BitsetsOK /\ TransferInv
  BY InitBitsets
<1>2. BitsetsOK /\ TransferInv /\ [Next]_vars => (BitsetsOK /\ TransferInv)'
  BY NextKeeps
<1> QED
  BY <1>1, <1>2, PTL DEF Spec

\* The bits behind the length, of a bitset that holds certain bits.
LEMMA TrailingHeld ==
  ASSUME NEW db, NEW n \in Nat, NEW bits, Holds(db, n, bits)
  PROVE  Trailing(db) = bits \ (0 .. n - 1)
BY HoldsIsProper DEF Holds, Trailing, Indices

\* A call that brings self no bit behind its length brings none at all.
LEMMA NoneBrought ==
  ASSUME NEW db, Becomes(db), Trailing(db) \subseteq Strays
  PROVE  Strays' \subseteq Strays
BY DEF Becomes, Strays

LEMMA SameLengthBrings ==
  ASSUME BitsetsOK, NEW db, Becomes(db), NEW bits, Holds(db, self.len, bits),
         \/ bits \subseteq Bits(self)
         \/ other.len = self.len /\ bits \subseteq Bits(self) \cup Bits(other)
         \/ bits \subseteq Bits(self) \cup Indices(self)
  PROVE  Strays' \subseteq Strays
<1>1. self.len \in Nat
  BY DEF BitsetsOK, Proper
<1>2. Trailing(db) = bits \ (0 .. self.len - 1)
  BY <1>1, TrailingHeld
<1>3. Trailing(db) \subseteq Strays
  BY <1>2 DEF Strays, Trailing, Indices
<1> QED
  BY <1>3, NoneBrought

\* A call on one bit: below the length it brings none, and behind it is a
\* StrayBit or brings none.
LEMMA OneBitBrings ==
  ASSUME BitsetsOK, NEW b \in Positions(self)
  PROVE  /\ Becomes(WithBit(self, b)) => StrayBit \/ Strays' \subseteq Strays
         /\ Becomes(Flipped(self, b)) => StrayBit \/ Strays' \subseteq Strays
         /\ Becomes(WithoutBit(self, b)) => Strays' \subseteq Strays
         /\ Becomes(WordZeroed(self, b)) => Strays' \subseteq Strays
<1>1. Proper(self) /\ self.len \in Nat
  BY DEF BitsetsOK, Proper
<1>2. ASSUME NEW db, Becomes(db), Holds(db, self.len, Bits(self) \ {b})
      PROVE  Strays' \subseteq Strays
  <2>1. Bits(self) \ {b} \subseteq Bits(self)
    OBVIOUS
  <2> QED
    BY <1>2, <2>1, SameLengthBrings
<1>3. ASSUME NEW db, Becomes(db), Holds(db, self.len, Bits(self) \cup {b}), b \in Indices(self)
      PROVE  Strays' \subseteq Strays
  <2>1. Bits(self) \cup {b} \subseteq Bits(self) \cup Indices(self)
    BY <1>3
  <2> QED
    BY <1>2, <1>3, <2>1, SameLengthBrings
<1>4. Becomes(WithBit(self, b)) => StrayBit \/ Strays' \subseteq Strays
  BY <1>1, <1>3, BitHolds DEF StrayBit
<1>5. Becomes(Flipped(self, b)) => StrayBit \/ Strays' \subseteq Strays
  <2>1. \/ Holds(Flipped(self, b), self.len, Bits(self) \ {b})
        \/ Holds(Flipped(self, b), self.len, Bits(self) \cup {b})
    BY <1>1, BitHolds
  <2> QED
    BY <1>2, <1>3, <2>1 DEF StrayBit
<1>6. Becomes(WithoutBit(self, b)) => Strays' \subseteq Strays
  BY <1>1, <1>2, BitHolds
<1>7. ASSUME Becomes(WordZeroed(self, b)) PROVE Strays' \subseteq Strays
  <2> DEFINE p == ArrPos(b)
  <2>1. p \in 0 .. ArrLen(self.len) - 1
    <3>1. b \in Nat /\ b \in 0 .. W * ArrLen(self.len) - 1
      BY DEF Positions
    <3> QED
      BY <1>1, <3>1, HasAWord
  <2>2. WordZeroed(self, b) = WithWord(self, p, {})
    BY DEF WordZeroed, WithWord
  <2> HIDE DEF p
  <2>3. /\ WithWord(self, p, {}).len = self.len
        /\ Bits(WithWord(self, p, {})) \subseteq Bits(self)
    BY <1>1, <2>1, WordChanged, BitsOfChanged
  <2>4. Trailing(WordZeroed(self, b)) \subseteq Strays
    BY <2>2, <2>3 DEF Strays, Trailing, Indices
  <2> QED
    BY <1>7, <2>4, NoneBrought
<1> QED
  BY <1>4, <1>5, <1>6, <1>7

\* A round of the transfer moves the bits of a word, of two equally long bitsets.
LEMMA StepBrings ==
  ASSUME BitsetsOK, TransferInv, TransferStep
  PROVE  Strays' \subseteq Strays
<1> DEFINE p    == tr.arrpos
           word == other.array[p]
<1>1. /\ Proper(self) /\ Proper(other) /\ other.len = self.len
      /\ p \in 0 .. ArrLen(self.len) - 1 /\ p \in 0 .. ArrLen(other.len) - 1
      /\ self.array \in [0 .. ArrLen(self.len) - 1 -> SUBSET FullWord]
      /\ other.array \in [0 .. ArrLen(self.len) - 1 -> SUBSET FullWord]
  <2>1. Proper(self) /\ Proper(other) /\ other.len = self.len
    BY DEF BitsetsOK, TransferInv, TransferStep, NoCall
  <2>2. ArrLen(self.len) > 0
    BY <2>1 DEF TransferStep
  <2>3. p \in 0 .. ArrLen(self.len) - 1
    BY <2>2 DEF TransferInv, TransferStep, NoCall
  <2> HIDE DEF p
  <2> QED
    BY <2>1, <2>3, ProperWords
<1>2. /\ self' = WithWord(self, p, self.array[p] \cup word)
      /\ other' = WithWord(other, p, {})
  BY DEF TransferStep, TakenFromOther, WithWord
<1>3. /\ self.array[p] \cup word \subseteq FullWord
      /\ self.array[p] \cup word \subseteq self.array[p] \cup other.array[p]
  BY <1>1
<1> HIDE DEF p, word
<1>4. /\ self'.len = self.len
      /\ Bits(self') \subseteq Bits(self) \cup Bits(other)
  BY <1>1, <1>2, <1>3, WordChanged, BitsOfChanged
<1>5. /\ other'.len = other.len
      /\ Bits(other') \subseteq Bits(other)
  BY <1>1, <1>2, WordChanged, BitsOfChanged
<1> QED
  BY <1>1, <1>4, <1>5 DEF Strays, Trailing, Indices

LEMMA NextBrings ==
  ASSUME BitsetsOK, TransferInv, Next
  PROVE  StrayBit \/ Strays' \subseteq Strays
<1>1. /\ Proper(self) /\ Proper(other) /\ self.len \in Nat
      /\ \A n \in 0 .. MaxLen : n \in Nat
  BY DEF BitsetsOK, Proper
<1>2. CASE Resize
  <2>1. PICK n \in 0 .. MaxLen : Becomes(Resized(self, n))
    BY <1>2 DEF Resize
  <2>2. Trailing(Resized(self, n)) = (Bits(self) \cap (0 .. n - 1)) \ (0 .. n - 1)
    BY <1>1, ResizedHolds, TrailingHeld
  <2> QED
    BY <2>1, <2>2, NoneBrought
<1>3. CASE Clear
  <2>1. {} \subseteq Bits(self)
    OBVIOUS
  <2> QED
    BY <1>1, <1>3, <2>1, ClearedHolds, SameLengthBrings DEF Clear
<1>4. CASE Fill
  <2>1. Indices(self) \subseteq Bits(self) \cup Indices(self)
    OBVIOUS
  <2> QED
    BY <1>1, <1>4, <2>1, FilledHolds, SameLengthBrings DEF Fill
<1>5. CASE Invert
  <2>1. Indices(self) \ Bits(self) \subseteq Bits(self) \cup Indices(self)
    OBVIOUS
  <2> QED
    BY <1>1, <1>5, <2>1, InvertedHolds, SameLengthBrings DEF Invert
<1>6. CASE SetBit
  BY <1>6, OneBitBrings DEF SetBit
<1>7. CASE ClearBit
  BY <1>7, OneBitBrings DEF ClearBit
<1>8. CASE XorBit
  BY <1>8, OneBitBrings DEF XorBit
<1>9. CASE TakeWord
  BY <1>9, OneBitBrings DEF TakeWord
<1>10. ASSUME SameSize, NEW db \in {Anded(self, other), Ored(self, other), Minus(self, other)},
              Becomes(db)
       PROVE  Strays' \subseteq Strays
  <2>1. other.len = self.len
    BY <1>10 DEF SameSize
  <2>2. PICK bits : Holds(db, self.len, bits) /\ bits \subseteq Bits(self) \cup Bits(other)
    <3>1. \/ Holds(db, self.len, Bits(self) \cap Bits(other))
          \/ Holds(db, self.len, Bits(self) \cup Bits(other))
          \/ Holds(db, self.len, Bits(self) \ Bits(other))
      BY <1>1, <2>1, PairsHold
    <3> QED
      BY <3>1
  <2> QED
    BY <1>10, <2>1, <2>2, SameLengthBrings
<1>11. CASE And \/ Or \/ Subtract
  BY <1>10, <1>11 DEF And, Or, Subtract
<1>12. CASE Assign \/ CopyFromOther
  <2>1. Becomes(other)
    BY <1>1, <1>12, CopyHolds DEF Assign, CopyFromOther, SameSize
  <2>2. Trailing(other) \subseteq Strays
    BY DEF Strays
  <2> QED
    BY <2>1, <2>2, NoneBrought
<1>13. CASE CopyToOther
  <2>1. other' = self /\ self' = self
    BY <1>1, <1>13, CopyHolds DEF CopyToOther
  <2> QED
    BY <2>1 DEF Strays
<1>14. CASE TransferStep
  BY <1>14, StepBrings
<1>15. CASE TransferCall \/ TransferNothing \/ TransferReturn
  BY <1>15 DEF TransferCall, TransferNothing, TransferReturn, Strays
<1> QED
  BY <1>2, <1>3, <1>4, <1>5, <1>6, <1>7, <1>8, <1>9, <1>11, <1>12, <1>13, <1>14, <1>15 DEF Next

\* Only a caller of set_bit or xor_bit who goes beyond the length brings a bit
\* behind it: every operation that could do so cuts the last word
\* (dense_bitset.hpp:490-495), and the others move no bit to a new place.
THEOREM NoneBehindTheLength == Spec => NoNewTrailingBits
<1>1. BitsetsOK /\ TransferInv /\ [Next]_vars => [StrayBit \/ Strays' \subseteq Strays]_vars
  BY NextBrings
<1> QED
  BY <1>1, DenseInvariance, PTL DEF Spec, NoNewTrailingBits

\* Every operation on words is the operation on sets it is named for, in all
\* the states the calls lead to (dense_bitset.hpp:77-165, 199-253, 386-476).
THEOREM OperationsMeanWhatTheySay == Spec => []OperationsAreSetOperations
<1>1. ASSUME BitsetsOK
      PROVE  OperationsAreSetOperations
  <2>1. Proper(self) /\ Proper(other)
    BY <1>1 DEF BitsetsOK
  <2>2. Bits(Cleared(self)) = {}
    BY <2>1, ClearedHolds DEF Holds
  <2>3. Bits(Filled(self)) = Indices(self)
    BY <2>1, FilledHolds DEF Holds
  <2>4. Bits(Inverted(self)) = Indices(self) \ Bits(self)
    BY <2>1, InvertedHolds DEF Holds
  <2>5. \A n \in 0 .. MaxLen : Bits(Resized(self, n)) = Bits(self) \cap (0 .. n - 1)
    BY <2>1, ResizedHolds DEF Holds
  <2>6. \A b \in Positions(self) :
            /\ Get(self, b) <=> b \in Bits(self)
            /\ Bits(WithBit(self, b)) = Bits(self) \cup {b}
            /\ Bits(WithoutBit(self, b)) = Bits(self) \ {b}
            /\ Bits(Flipped(self, b))
                 = IF b \in Bits(self) THEN Bits(self) \ {b} ELSE Bits(self) \cup {b}
    BY <2>1, BitHolds DEF Holds
  <2>7. SameSize => /\ Bits(Anded(self, other)) = Bits(self) \cap Bits(other)
                    /\ Bits(Ored(self, other)) = Bits(self) \cup Bits(other)
                    /\ Bits(Minus(self, other)) = Bits(self) \ Bits(other)
    BY <2>1, PairsHold DEF SameSize, Holds
  <2>8. Bits(AssignFrom(self, other)) = Bits(other)
    BY <2>1, CopyHolds
  <2> QED
    BY <2>2, <2>3, <2>4, <2>5, <2>6, <2>7, <2>8 DEF OperationsAreSetOperations
<1>2. BitsetsOK => OperationsAreSetOperations
  BY <1>1
<1> QED
  BY <1>2, DenseInvariance, PTL

\* A transfer that returns has moved as many bits as it was asked for or has
\* left none behind (dense_bitset.hpp:170-197).
THEOREM TransferMovesEnough == Spec => []TransferEnough
<1>1. ASSUME BitsetsOK, TransferInv, tr.running, tr.returned
      PROVE  tr.transferred >= tr.b \/ Bits(other) = {}
  <2>1. self.len = other.len /\ other.len \in Nat /\ IsBitset(other, other.len)
    BY <1>1 DEF TransferInv, NoCall, BitsetsOK, Proper
  <2>2. CASE ArrLen(self.len) > 0
    BY <1>1, <2>2 DEF TransferInv, NoCall
  <2>3. CASE ~(ArrLen(self.len) > 0)
    <3>1. ArrLen(other.len) \in Nat
      BY <2>1, ArrLenBounds
    <3>2. 0 .. ArrLen(other.len) - 1 = {}
      BY <2>1, <2>3, <3>1
    <3> QED
      BY <2>1, <3>2, BitsAre
  <2> QED
    BY <2>2, <2>3
<1>2. BitsetsOK /\ TransferInv => TransferEnough
  BY <1>1 DEF TransferEnough
<1> QED
  BY <1>2, DenseInvariance, PTL

-----------------------------------------------------------------------------
(* The searches.                                                           *)

LEMMA LeastNumber ==
  ASSUME NEW T, T \subseteq Nat, T # {}
  PROVE  Min(T) \in T /\ \A m \in T : Min(T) <= m
<1>1. IsWellFoundedOn(OpToRel(<, Nat), Nat)
  BY NatLessThanWellFounded
<1>2. \E n \in T : \A m \in T : ~(<<m, n>> \in OpToRel(<, Nat))
  BY <1>1, WFMin
<1>3. PICK n \in T : \A m \in T : ~(<<m, n>> \in OpToRel(<, Nat))
  BY <1>2
<1>4. \A m \in T : ~(m < n)
  BY <1>3 DEF OpToRel
<1>5. \A m \in T : m \in Nat
  OBVIOUS
<1>6. \A m \in T : n <= m
  BY <1>4, <1>5
<1> QED
  BY <1>6 DEF Min

\* What a search is to return for the bits it looks for.
IsLeast(c, bits) == \/ bits = {} /\ c = NoBit
                    \/ c \in bits /\ \A b \in bits : c <= b

\* The first word that is not empty, and the first position in it.
LEMMA FirstWordIsLeast ==
  ASSUME NEW n \in Nat, NEW db, IsBitset(db, n), NEW i \in Nat
  PROVE  IsLeast(FirstWordFrom(db, i, LAMBDA word : word), {b \in Bits(db) : ArrPos(b) >= i})
<1> DEFINE found == {j \in i .. ArrLen(n) - 1 : db.array[j] # {}}
           ahead == {b \in Bits(db) : ArrPos(b) >= i}
           j     == Min(found)
           k     == Min(db.array[j])
<1>1. /\ db.len = n /\ ArrLen(n) \in Nat
      /\ \A a \in 0 .. ArrLen(n) - 1 : db.array[a] \subseteq 0 .. W - 1
      /\ \A b : b \in Bits(db) <=> /\ b \in Nat /\ ArrPos(b) \in 0 .. ArrLen(n) - 1
                                   /\ BitPos(b) \in db.array[ArrPos(b)]
  BY BitsAre, ArrLenBounds
<1>2. FirstWordFrom(db, i, LAMBDA word : word)
         = IF found = {} THEN NoBit ELSE j * W + FirstBitInBlock(db.array[j])
  BY <1>1 DEF FirstWordFrom
<1>3. \A b \in ahead : ArrPos(b) \in found
  BY <1>1
<1>4. CASE found = {}
  <2>1. ahead = {}
    BY <1>3, <1>4
  <2> HIDE DEF found, ahead
  <2> QED
    BY <1>2, <1>4, <2>1 DEF IsLeast, ahead
<1>5. CASE found # {}
  <2>1. j \in found /\ \A a \in found : j <= a
    <3>1. found \subseteq Nat
      OBVIOUS
    <3> HIDE DEF found
    <3> QED
      BY <1>5, <3>1, LeastNumber
  <2> HIDE DEF j
  <2>2. j \in Nat /\ j >= i /\ j \in 0 .. ArrLen(n) - 1 /\ db.array[j] # {}
    BY <1>1, <2>1
  <2>3. k \in db.array[j] /\ \A a \in db.array[j] : k <= a
    <3>1. db.array[j] \subseteq Nat
      BY <1>1, <2>2
    <3> QED
      BY <2>2, <3>1, LeastNumber
  <2>4. k \in 0 .. W - 1
    BY <1>1, <2>2, <2>3
  <2>5. FirstBitInBlock(db.array[j]) = k
    BY <2>2 DEF FirstBitInBlock
  <2> HIDE DEF k, found
  <2>6. /\ j * W + k \in Nat
        /\ ArrPos(j * W + k) = j /\ BitPos(j * W + k) = k
    BY <2>2, <2>4, WordBit
  <2>7. j * W + k \in ahead
    BY <1>1, <2>2, <2>3, <2>6
  <2>8. ASSUME NEW b \in ahead
        PROVE  j * W + k <= b
    <3>1. b \in Nat /\ ArrPos(b) \in Nat /\ BitPos(b) \in 0 .. W - 1
          /\ b = ArrPos(b) * W + BitPos(b)
      BY <1>1, DivMod
    <3>2. j <= ArrPos(b) /\ BitPos(b) \in db.array[ArrPos(b)]
      BY <1>1, <1>3, <2>1
    <3>3. ~(ArrPos(b) < j \/ (ArrPos(b) = j /\ BitPos(b) < k))
      BY <2>2, <2>3, <2>4, <3>1, <3>2
    <3>4. ~(ArrPos(b) * W + BitPos(b) < j * W + k)
      BY <2>2, <2>4, <3>1, <3>3, WordOrder
    <3> QED
      BY <2>6, <3>1, <3>4
  <2> HIDE DEF ahead
  <2>9. FirstWordFrom(db, i, LAMBDA word : word) = j * W + k
    BY <1>2, <1>5, <2>5
  <2>10. IsLeast(j * W + k, ahead)
    BY <2>7, <2>8 DEF IsLeast
  <2> QED
    BY <2>9, <2>10 DEF ahead
<1> QED
  BY <1>4, <1>5

\* begin() goes to the first bit.
LEMMA FirstBitIsLeast ==
  ASSUME NEW n \in Nat, NEW db, IsBitset(db, n)
  PROVE  IsLeast(FirstBit(db), Bits(db))
<1>1. {b \in Bits(db) : ArrPos(b) >= 0} = Bits(db)
  BY BitsAre
<1> QED
  BY <1>1, FirstWordIsLeast DEF FirstBit

\* ++ goes to the next one: in the word it is in or, as no position behind
\* another is 0, in the words that follow.
LEMMA NextBitIsLeast ==
  ASSUME NEW n \in Nat, NEW db, IsBitset(db, n),
         NEW b \in Nat, ArrPos(b) \in 0 .. ArrLen(n) - 1
  PROVE  IsLeast(NextBit(db, b), {c \in Bits(db) : b < c})
<1> DEFINE p      == ArrPos(b)
           word   == db.array[p]
           behind == {a \in word : a > BitPos(b)}
           ahead  == {c \in Bits(db) : b < c}
           later  == {c \in Bits(db) : ArrPos(c) >= p + 1}
           k      == Min(behind)
<1>1. /\ ArrLen(n) \in Nat
      /\ \A a \in 0 .. ArrLen(n) - 1 : db.array[a] \subseteq 0 .. W - 1
      /\ \A c : c \in Bits(db) <=> /\ c \in Nat /\ ArrPos(c) \in 0 .. ArrLen(n) - 1
                                   /\ BitPos(c) \in db.array[ArrPos(c)]
  BY BitsAre, ArrLenBounds
<1>2. /\ p \in Nat /\ BitPos(b) \in 0 .. W - 1
      /\ b = p * W + BitPos(b)
  BY DivMod
<1>3. word \subseteq 0 .. W - 1
  BY <1>1
<1>4. NextBit(db, b) = IF FirstBitInBlock(behind) # 0 THEN p * W + FirstBitInBlock(behind)
                       ELSE FirstWordFrom(db, p + 1, LAMBDA w : w)
  BY DEF NextBit, NextBitInBlock
<1>5. ASSUME NEW c \in Bits(db)
      PROVE  /\ c \in Nat /\ ArrPos(c) \in Nat /\ BitPos(c) \in 0 .. W - 1
             /\ c = ArrPos(c) * W + BitPos(c)
             /\ b < c <=> p < ArrPos(c) \/ (p = ArrPos(c) /\ BitPos(b) < BitPos(c))
  <2>1. /\ c \in Nat /\ ArrPos(c) \in Nat /\ BitPos(c) \in 0 .. W - 1
        /\ c = ArrPos(c) * W + BitPos(c)
    BY <1>1, DivMod
  <2>2. p * W + BitPos(b) < ArrPos(c) * W + BitPos(c)
           <=> p < ArrPos(c) \/ (p = ArrPos(c) /\ BitPos(b) < BitPos(c))
    BY <1>2, <2>1, WordOrder
  <2> QED
    BY <1>2, <2>1, <2>2
<1>6. CASE behind = {}
  <2>1. FirstBitInBlock(behind) = 0
    BY <1>6 DEF FirstBitInBlock
  <2>2. ahead = later
    <3>1. ASSUME NEW c \in Bits(db)
          PROVE  b < c <=> ArrPos(c) >= p + 1
      <4>1. ~(p = ArrPos(c) /\ BitPos(b) < BitPos(c))
        BY <1>1, <1>2, <1>5, <1>6
      <4> QED
        BY <1>2, <1>5, <4>1
    <3> QED
      BY <3>1
  <2>3. IsLeast(FirstWordFrom(db, p + 1, LAMBDA w : w), later)
    BY <1>2, FirstWordIsLeast
  <2>4. NextBit(db, b) = FirstWordFrom(db, p + 1, LAMBDA w : w)
    BY <1>4, <2>1
  <2> HIDE DEF ahead, later
  <2> QED
    BY <2>2, <2>3, <2>4 DEF ahead
<1>7. CASE behind # {}
  <2>1. k \in behind /\ \A a \in behind : k <= a
    <3>1. behind \subseteq Nat
      BY <1>3
    <3> HIDE DEF behind
    <3> QED
      BY <1>7, <3>1, LeastNumber
  <2>2. k \in word /\ k \in 0 .. W - 1 /\ k > BitPos(b)
    BY <1>3, <2>1
  <2> HIDE DEF k
  <2>3. FirstBitInBlock(behind) = k /\ k # 0
    BY <1>2, <1>7, <2>2 DEF FirstBitInBlock, k
  <2>4. NextBit(db, b) = p * W + k
    BY <1>4, <2>3
  <2>5. /\ p * W + k \in Nat
        /\ ArrPos(p * W + k) = p /\ BitPos(p * W + k) = k
    BY <1>2, <2>2, WordBit
  <2>6. p * W + k \in Bits(db)
    BY <1>1, <2>2, <2>5
  <2>7. p * W + k \in ahead
    BY <1>5, <2>2, <2>5, <2>6
  <2>8. ASSUME NEW c \in ahead
        PROVE  p * W + k <= c
    <3>1. /\ c \in Bits(db)
          /\ p < ArrPos(c) \/ (p = ArrPos(c) /\ BitPos(b) < BitPos(c))
      BY <1>5
    <3>2. /\ c \in Nat /\ ArrPos(c) \in Nat /\ BitPos(c) \in 0 .. W - 1
          /\ c = ArrPos(c) * W + BitPos(c)
      BY <1>5, <3>1
    <3>3. p = ArrPos(c) => BitPos(c) \in behind
      BY <1>1, <1>2, <3>1, <3>2
    <3>4. ~(ArrPos(c) < p \/ (ArrPos(c) = p /\ BitPos(c) < k))
      BY <1>2, <2>1, <2>2, <3>1, <3>2, <3>3
    <3>5. ~(ArrPos(c) * W + BitPos(c) < p * W + k)
      BY <1>2, <2>2, <3>2, <3>4, WordOrder
    <3> QED
      BY <2>5, <3>2, <3>5
  <2> HIDE DEF ahead
  <2>9. IsLeast(p * W + k, ahead)
    BY <2>7, <2>8 DEF IsLeast
  <2> QED
    BY <2>4, <2>9 DEF ahead
<1> QED
  BY <1>6, <1>7

-----------------------------------------------------------------------------
(* The loop over a bitset: its n-th round is at the n-th bit.              *)

Under(bits, b) == {c \in bits : c < b}

\* The n-th of a set of numbers, or NoBit when there are not so many.
IsNth(b, n, bits) == \/ b = NoBit /\ n >= Cardinality(bits)
                     \/ b \in bits /\ Cardinality(Under(bits, b)) = n

NumberSet(bits) == bits \subseteq Nat /\ IsFiniteSet(bits)

LEMMA UnderGrows ==
  ASSUME NEW bits, NumberSet(bits), NEW b \in bits
  PROVE  /\ Cardinality(bits) \in Nat /\ Cardinality(Under(bits, b)) \in Nat
         /\ Cardinality(Under(bits, b)) < Cardinality(bits)
         /\ \A c \in bits : b < c => /\ Cardinality(Under(bits, c)) \in Nat
                                     /\ Cardinality(Under(bits, b)) < Cardinality(Under(bits, c))
<1>1. ASSUME NEW S, S \subseteq bits, b \in S, \A x \in Under(bits, b) : x \in S
      PROVE  /\ Cardinality(S) \in Nat /\ Cardinality(Under(bits, b)) \in Nat
             /\ Cardinality(Under(bits, b)) < Cardinality(S)
  <2>1. IsFiniteSet(S) /\ Cardinality(S) \in Nat
    BY <1>1, FS_Subset, FS_CardinalityType DEF NumberSet
  <2>2. IsFiniteSet(S \ {b}) /\ Cardinality(S \ {b}) = Cardinality(S) - 1
    BY <1>1, <2>1, FS_RemoveElement
  <2>3. b \in Nat /\ \A x \in bits : x \in Nat
    BY DEF NumberSet
  <2>4. Under(bits, b) \subseteq S \ {b}
    <3>1. \A x \in Under(bits, b) : x \in bits /\ x < b
      BY DEF Under
    <3>2. b \notin Under(bits, b)
      BY <2>3, <3>1
    <3> QED
      BY <1>1, <3>2
  <2>5. /\ IsFiniteSet(Under(bits, b))
        /\ Cardinality(Under(bits, b)) <= Cardinality(S \ {b})
    BY <2>2, <2>4, FS_Subset
  <2>6. Cardinality(Under(bits, b)) \in Nat
    BY <2>5, FS_CardinalityType
  <2> QED
    BY <2>1, <2>2, <2>5, <2>6
<1>2. /\ Cardinality(bits) \in Nat /\ Cardinality(Under(bits, b)) \in Nat
      /\ Cardinality(Under(bits, b)) < Cardinality(bits)
  <2>1. \A x \in Under(bits, b) : x \in bits
    BY DEF Under
  <2> QED
    BY <1>1, <2>1
<1>3. ASSUME NEW c \in bits, b < c
      PROVE  /\ Cardinality(Under(bits, c)) \in Nat
             /\ Cardinality(Under(bits, b)) < Cardinality(Under(bits, c))
  <2>1. Under(bits, c) \subseteq bits /\ b \in Under(bits, c)
    BY <1>3 DEF Under
  <2>2. \A x \in Under(bits, b) : x \in Under(bits, c)
    <3>1. bits \subseteq Nat
      BY DEF NumberSet
    <3> QED
      BY <1>3, <3>1 DEF Under
  <2> QED
    BY <1>1, <2>1, <2>2
<1> QED
  BY <1>2, <1>3

\* There is only one n-th number.
LEMMA NthUnique ==
  ASSUME NEW bits, NumberSet(bits), NEW n \in Nat, NEW b, NEW c,
         IsNth(b, n, bits), IsNth(c, n, bits)
  PROVE  b = c
<1>1. \A x \in bits : x \in Nat
  BY DEF NumberSet
<1>2. CASE b \in bits /\ c \in bits
  <2>1. b \in Nat /\ c \in Nat /\ b # NoBit /\ c # NoBit
    BY <1>1, <1>2 DEF NoBit
  <2>2. Cardinality(Under(bits, b)) = n /\ Cardinality(Under(bits, c)) = n
    BY <2>1 DEF IsNth
  <2>3. ~(b < c) /\ ~(c < b)
    BY <1>2, <2>2, UnderGrows
  <2> QED
    BY <2>1, <2>3
<1>3. ASSUME NEW x \in bits, IsNth(x, n, bits)
      PROVE  ~(n >= Cardinality(bits))
  <2>1. x # NoBit
    BY <1>1 DEF NoBit
  <2>2. Cardinality(Under(bits, x)) = n
    BY <1>3, <2>1 DEF IsNth
  <2> QED
    BY <2>2, UnderGrows
<1>4. CASE b \notin bits /\ c \notin bits
  BY <1>4 DEF IsNth
<1>5. CASE b \in bits /\ c \notin bits
  BY <1>3, <1>5 DEF IsNth
<1>6. CASE b \notin bits /\ c \in bits
  BY <1>3, <1>6 DEF IsNth
<1> QED
  BY <1>2, <1>4, <1>5, <1>6

LEMMA FirstIsNth ==
  ASSUME NEW bits, NumberSet(bits), NEW b, IsLeast(b, bits)
  PROVE  IsNth(b, 0, bits)
<1>1. CASE bits = {} /\ b = NoBit
  BY <1>1, FS_EmptySet DEF IsNth
<1>2. CASE b \in bits /\ \A c \in bits : b <= c
  <2>1. \A x \in bits : x \in Nat
    BY DEF NumberSet
  <2>2. \A x \in bits : ~(x < b)
    BY <1>2, <2>1
  <2>3. Under(bits, b) = {}
    BY <2>2 DEF Under
  <2> QED
    BY <1>2, <2>3, FS_EmptySet DEF IsNth
<1> QED
  BY <1>1, <1>2 DEF IsLeast

LEMMA NextIsNth ==
  ASSUME NEW bits, NumberSet(bits), NEW n \in Nat, NEW b \in bits, IsNth(b, n, bits),
         NEW c, IsLeast(c, {x \in bits : b < x})
  PROVE  IsNth(c, n + 1, bits)
<1>1. /\ b \in Nat /\ bits \subseteq Nat /\ IsFiniteSet(bits)
      /\ Under(bits, b) \subseteq bits /\ IsFiniteSet(Under(bits, b))
  BY FS_Subset DEF NumberSet, Under
<1>2. Cardinality(Under(bits, b)) = n /\ b \notin Under(bits, b)
  <2>1. b # NoBit
    BY <1>1 DEF NoBit
  <2> QED
    BY <1>1, <2>1 DEF IsNth, Under
<1>3. Cardinality(Under(bits, b) \cup {b}) = n + 1
  BY <1>1, <1>2, FS_AddElement
<1>4. CASE {x \in bits : b < x} = {} /\ c = NoBit
  <2>1. bits = Under(bits, b) \cup {b}
    <3>1. ASSUME NEW x \in bits
          PROVE  x < b \/ x = b
      <4>1. x \in Nat /\ ~(b < x)
        BY <1>1, <1>4
      <4> QED
        BY <1>1, <4>1
    <3> QED
      BY <3>1 DEF Under
  <2>2. Cardinality(bits) = n + 1
    BY <1>3, <2>1
  <2> QED
    BY <1>4, <2>2 DEF IsNth
<1>5. CASE c \in {x \in bits : b < x} /\ \A x \in {y \in bits : b < y} : c <= x
  <2>1. c \in bits /\ c \in Nat /\ b < c
    BY <1>1, <1>5
  <2>2. Under(bits, c) = Under(bits, b) \cup {b}
    <3>1. ASSUME NEW x \in bits
          PROVE  x < c <=> x < b \/ x = b
      <4>1. x \in Nat /\ (b < x => c <= x)
        BY <1>1, <1>5
      <4> QED
        BY <1>1, <2>1, <4>1
    <3> QED
      BY <3>1 DEF Under
  <2> QED
    BY <1>3, <2>1, <2>2 DEF IsNth
<1> QED
  BY <1>4, <1>5 DEF IsLeast

\* What holds at 0 and from one number to the next holds up to n.
LEMMA UpToN ==
  ASSUME NEW n \in Nat, NEW Good, 0 \in Good,
         \A k \in 1 .. n : k - 1 \in Good => k \in Good
  PROVE  \A k \in 0 .. n : k \in Good
<1> DEFINE T == {k \in 0 .. n : k \notin Good}
<1>1. SUFFICES ASSUME T # {} PROVE FALSE
  OBVIOUS
<1>2. PICK k \in T : \A m \in T : k <= m
  <2>1. T \subseteq Nat
    OBVIOUS
  <2> HIDE DEF T
  <2> QED
    BY <1>1, <2>1, LeastNumber
<1>3. k \in 1 .. n /\ k - 1 \notin T
  BY <1>2
<1> QED
  BY <1>2, <1>3

LEMMA BitsAreNumbers ==
  ASSUME NEW n \in Nat, NEW db, IsBitset(db, n)
  PROVE  /\ NumberSet(Bits(db)) /\ W * ArrLen(n) \in Nat
         /\ Cardinality(Bits(db)) \in Nat /\ Cardinality(Bits(db)) <= W * ArrLen(n)
<1>1. db.len = n /\ ArrLen(n) \in Nat /\ W \in Nat
  BY BitsAre, ArrLenBounds, WordAssumption
<1>2. W * ArrLen(n) \in Nat
  BY <1>1
<1>3. Bits(db) \subseteq 0 .. W * ArrLen(n) - 1
  BY <1>1 DEF Bits
<1> DEFINE N == W * ArrLen(n)
<1> HIDE DEF N
<1>4. /\ IsFiniteSet(0 .. N - 1) /\ Cardinality(0 .. N - 1) = N
      /\ N \in Nat /\ Bits(db) \subseteq 0 .. N - 1
  <2>1. N \in Nat /\ Bits(db) \subseteq 0 .. N - 1
    BY <1>2, <1>3 DEF N
  <2> QED
    BY <2>1, FS_Interval
<1>5. IsFiniteSet(Bits(db)) /\ Cardinality(Bits(db)) \in Nat /\ Cardinality(Bits(db)) <= N
  BY <1>4, FS_Subset, FS_CardinalityType
<1> QED
  BY <1>2, <1>4, <1>5 DEF NumberSet, N

\* begin, then ++: every round goes from one bit to the next.
LEMMA RoundByRound ==
  ASSUME NEW n \in Nat, NEW db, IsBitset(db, n)
  PROVE  /\ IsNth(FirstBit(db), 0, Bits(db))
         /\ \A k \in Nat : \A b : IsNth(b, k, Bits(db)) =>
               IsNth(IF b = NoBit THEN NoBit ELSE NextBit(db, b), k + 1, Bits(db))
<1>1. NumberSet(Bits(db)) /\ Cardinality(Bits(db)) \in Nat
  BY BitsAreNumbers
<1>2. IsNth(FirstBit(db), 0, Bits(db))
  BY <1>1, FirstBitIsLeast, FirstIsNth
<1>3. ASSUME NEW k \in Nat, NEW b, IsNth(b, k, Bits(db))
      PROVE  IsNth(IF b = NoBit THEN NoBit ELSE NextBit(db, b), k + 1, Bits(db))
  <2>1. CASE b = NoBit
    <3>1. b \notin Bits(db)
      BY <1>1, <2>1 DEF NumberSet, NoBit
    <3>2. k >= Cardinality(Bits(db))
      BY <1>3, <3>1 DEF IsNth
    <3>3. k + 1 >= Cardinality(Bits(db))
      BY <1>1, <3>2
    <3> QED
      BY <2>1, <3>3 DEF IsNth
  <2>2. CASE b # NoBit
    <3>1. b \in Bits(db) /\ b \in Nat /\ ArrPos(b) \in 0 .. ArrLen(n) - 1
      <4>1. b \in Bits(db)
        BY <1>3, <2>2 DEF IsNth
      <4> QED
        BY <4>1, BitsAre
    <3>2. IsLeast(NextBit(db, b), {c \in Bits(db) : b < c})
      BY <3>1, NextBitIsLeast
    <3>3. IsNth(NextBit(db, b), k + 1, Bits(db))
      BY <1>1, <1>3, <3>1, <3>2, NextIsNth
    <3> QED
      BY <2>2, <3>3
  <2> QED
    BY <2>1, <2>2
<1> QED
  BY <1>2, <1>3

LEMMA NthExists ==
  ASSUME NEW n \in Nat, NEW db, IsBitset(db, n), NEW k \in Nat
  PROVE  \E b : IsNth(b, k, Bits(db))
<1> DEFINE Good == {i \in 0 .. k : \E b : IsNth(b, i, Bits(db))}
<1>1. 0 \in Good
  BY RoundByRound
<1>2. ASSUME NEW i \in 1 .. k, i - 1 \in Good
      PROVE  i \in Good
  <2>1. PICK b : IsNth(b, i - 1, Bits(db))
    BY <1>2
  <2>2. i - 1 \in Nat /\ (i - 1) + 1 = i
    OBVIOUS
  <2>3. IsNth(IF b = NoBit THEN NoBit ELSE NextBit(db, b), (i - 1) + 1, Bits(db))
    BY <2>1, <2>2, RoundByRound
  <2> QED
    BY <2>2, <2>3
<1>3. k \in Good
  <2> HIDE DEF Good
  <2> QED
    BY <1>1, <1>2, UpToN
<1> QED
  BY <1>3

\* The function Iterated is defined by.
IsLoop(g, db) ==
    g = [n \in 0 .. W * ArrLen(db.len) |->
            IF n = 0 THEN FirstBit(db)
            ELSE IF g[n - 1] = NoBit THEN NoBit ELSE NextBit(db, g[n - 1])]

Nth(n, bits) == CHOOSE b : IsNth(b, n, bits)

LEMMA IteratedIsNth ==
  ASSUME NEW n \in Nat, NEW db, IsBitset(db, n)
  PROVE  \A k \in 0 .. W * ArrLen(n) : IsNth(Iterated(db)[k], k, Bits(db))
<1> DEFINE N == W * ArrLen(n)
           h == [k \in 0 .. N |-> Nth(k, Bits(db))]
<1>1. db.len = n /\ NumberSet(Bits(db)) /\ N \in Nat
  BY BitsAre, BitsAreNumbers
<1> HIDE DEF N
<1>2. \A k \in Nat : IsNth(Nth(k, Bits(db)), k, Bits(db))
  BY NthExists DEF Nth
<1>3. Nth(0, Bits(db)) = FirstBit(db)
  BY <1>1, <1>2, RoundByRound, NthUnique
<1>4. ASSUME NEW k \in 1 .. N
      PROVE  Nth(k, Bits(db)) = IF Nth(k - 1, Bits(db)) = NoBit THEN NoBit
                                ELSE NextBit(db, Nth(k - 1, Bits(db)))
  <2> DEFINE b == Nth(k - 1, Bits(db))
  <2>1. k - 1 \in Nat /\ k \in Nat /\ (k - 1) + 1 = k
    BY <1>1
  <2>2. IsNth(b, k - 1, Bits(db))
    BY <1>2, <2>1
  <2> HIDE DEF b
  <2>3. IsNth(IF b = NoBit THEN NoBit ELSE NextBit(db, b), (k - 1) + 1, Bits(db))
    BY <2>1, <2>2, RoundByRound
  <2>4. IsNth(IF b = NoBit THEN NoBit ELSE NextBit(db, b), k, Bits(db))
    BY <2>1, <2>3
  <2>5. Nth(k, Bits(db)) = IF b = NoBit THEN NoBit ELSE NextBit(db, b)
    BY <1>1, <1>2, <2>1, <2>4, NthUnique
  <2> QED
    BY <2>5 DEF b
<1>5. IsLoop(h, db)
  <2>1. ASSUME NEW k \in 0 .. N
        PROVE  h[k] = IF k = 0 THEN FirstBit(db)
                      ELSE IF h[k - 1] = NoBit THEN NoBit ELSE NextBit(db, h[k - 1])
    <3>1. CASE k = 0
      BY <1>3, <3>1
    <3>2. CASE k # 0
      <4>1. k \in 1 .. N /\ k - 1 \in 0 .. N
        BY <1>1, <3>2
      <4> QED
        BY <1>4, <3>2, <4>1
    <3> QED
      BY <3>1, <3>2
  <2>2. h = [k \in 0 .. N |-> IF k = 0 THEN FirstBit(db)
                              ELSE IF h[k - 1] = NoBit THEN NoBit ELSE NextBit(db, h[k - 1])]
    BY <2>1
  <2> HIDE DEF h
  <2> QED
    BY <1>1, <2>2 DEF IsLoop, N
<1> HIDE DEF h
<1>6. IsLoop(Iterated(db), db)
  <2>1. Iterated(db) = CHOOSE g : IsLoop(g, db)
    BY DEF Iterated, IsLoop
  <2> QED
    BY <1>5, <2>1
<1> DEFINE g == Iterated(db)
           Good == {k \in 0 .. N : IsNth(g[k], k, Bits(db))}
<1> HIDE DEF g
<1>7. /\ g[0] = FirstBit(db)
      /\ \A k \in 1 .. N : g[k] = IF g[k - 1] = NoBit THEN NoBit ELSE NextBit(db, g[k - 1])
  <2>1. \A k \in 0 .. N : g[k] = IF k = 0 THEN FirstBit(db)
                                 ELSE IF g[k - 1] = NoBit THEN NoBit ELSE NextBit(db, g[k - 1])
    BY <1>1, <1>6 DEF IsLoop, N, g
  <2>2. 0 \in 0 .. N /\ \A k \in 1 .. N : k \in 0 .. N /\ k # 0
    BY <1>1
  <2> QED
    BY <2>1, <2>2
<1>8. 0 \in Good
  <2>1. 0 \in 0 .. N
    BY <1>1
  <2> QED
    BY <1>7, <2>1, RoundByRound
<1>9. ASSUME NEW k \in 1 .. N, k - 1 \in Good
      PROVE  k \in Good
  <2>1. k - 1 \in Nat /\ (k - 1) + 1 = k /\ k \in 0 .. N
    BY <1>1
  <2>2. IsNth(g[k - 1], k - 1, Bits(db))
    BY <1>9
  <2>3. IsNth(IF g[k - 1] = NoBit THEN NoBit ELSE NextBit(db, g[k - 1]), (k - 1) + 1, Bits(db))
    BY <2>1, <2>2, RoundByRound
  <2>4. IsNth(g[k], k, Bits(db))
    BY <1>7, <2>1, <2>3
  <2> QED
    BY <2>1, <2>4
<1>10. \A k \in 0 .. N : k \in Good
  <2> HIDE DEF Good
  <2> QED
    BY <1>1, <1>8, <1>9, UpToN
<1> QED
  BY <1>10 DEF N, g

-----------------------------------------------------------------------------
(* What the searches and the counts are for the set of the bits.           *)

LEMMA LeastIs ==
  ASSUME NEW bits, bits \subseteq Nat, NEW c, IsLeast(c, bits)
  PROVE  c = Least(bits)
<1>1. CASE bits = {}
  BY <1>1 DEF IsLeast, Least
<1>2. CASE bits # {}
  <2>1. c \in bits /\ \A b \in bits : c <= b
    BY <1>2 DEF IsLeast
  <2>2. Min(bits) \in bits /\ \A b \in bits : Min(bits) <= b
    BY <1>2, LeastNumber
  <2>3. c \in Nat /\ Min(bits) \in Nat /\ c <= Min(bits) /\ Min(bits) <= c
    BY <2>1, <2>2
  <2>4. c = Min(bits)
    BY <2>3
  <2> QED
    BY <1>2, <2>4 DEF Least
<1> QED
  BY <1>1, <1>2

\* The search for a zero is the search for a one in the complement.
Complement(db) == [len |-> db.len, array |-> [i \in DOMAIN db.array |-> FullWord \ db.array[i]]]

LEMMA ComplementBits ==
  ASSUME NEW n \in Nat, NEW db, IsBitset(db, n)
  PROVE  /\ IsBitset(Complement(db), n)
         /\ \A b \in 0 .. n - 1 : b \in Bits(Complement(db)) <=> b \notin Bits(db)
         /\ \A b \in Bits(Complement(db)) : b \in Nat /\ b \notin Bits(db)
         /\ FirstZeroBit(db) = FirstBit(Complement(db))
<1> DEFINE co == Complement(db)
<1>1. /\ db.len = n /\ DOMAIN db.array = 0 .. ArrLen(n) - 1
      /\ \A b : b \in Bits(db) <=> /\ b \in Nat /\ ArrPos(b) \in 0 .. ArrLen(n) - 1
                                   /\ BitPos(b) \in db.array[ArrPos(b)]
  BY BitsAre
<1>2. co.array = [i \in 0 .. ArrLen(n) - 1 |-> FullWord \ db.array[i]] /\ co.len = n
  BY <1>1 DEF Complement
<1>3. IsBitset(co, n)
  <2>1. co.array \in Array(n)
    BY <1>2 DEF Array
  <2>2. co = [len |-> n, array |-> co.array]
    BY <1>1 DEF Complement
  <2> QED
    BY <2>1, <2>2 DEF IsBitset
<1> HIDE DEF co
<1>4. \A b : b \in Bits(co) <=> /\ b \in Nat /\ ArrPos(b) \in 0 .. ArrLen(n) - 1
                                /\ BitPos(b) \in co.array[ArrPos(b)]
  BY <1>3, BitsAre
<1>5. \A b \in Nat : ArrPos(b) \in 0 .. ArrLen(n) - 1 =>
         (BitPos(b) \in co.array[ArrPos(b)] <=> BitPos(b) \notin db.array[ArrPos(b)])
  <2> SUFFICES ASSUME NEW b \in Nat, ArrPos(b) \in 0 .. ArrLen(n) - 1
               PROVE  BitPos(b) \in co.array[ArrPos(b)] <=> BitPos(b) \notin db.array[ArrPos(b)]
    OBVIOUS
  <2>1. BitPos(b) \in FullWord
    BY DivMod DEF FullWord
  <2> QED
    BY <1>2, <2>1
<1>6. \A b \in 0 .. n - 1 : b \in Nat /\ ArrPos(b) \in 0 .. ArrLen(n) - 1
  <2> SUFFICES ASSUME NEW b \in 0 .. n - 1
               PROVE  b \in Nat /\ ArrPos(b) \in 0 .. ArrLen(n) - 1
    OBVIOUS
  <2>1. b \in Nat /\ ArrPos(b) < ArrLen(n) /\ ArrLen(n) \in Nat
    BY ArrLenBounds
  <2>2. ArrPos(b) \in Nat
    BY <2>1, DivMod
  <2> QED
    BY <2>1, <2>2
<1>7. FirstZeroBit(db) = FirstBit(co)
  <2> DEFINE found  == {j \in 0 .. ArrLen(n) - 1 : FullWord \ db.array[j] # {}}
             cfound == {j \in 0 .. ArrLen(n) - 1 : co.array[j] # {}}
             j      == Min(found)
  <2>1. FirstZeroBit(db) = IF found = {} THEN NoBit
                           ELSE j * W + FirstBitInBlock(FullWord \ db.array[j])
    BY <1>1 DEF FirstZeroBit, FirstWordFrom
  <2>2. FirstBit(co) = IF cfound = {} THEN NoBit
                       ELSE Min(cfound) * W + FirstBitInBlock(co.array[Min(cfound)])
    BY <1>2 DEF FirstBit, FirstWordFrom
  <2>3. found = cfound
    BY <1>2
  <2>4. found # {} => j \in 0 .. ArrLen(n) - 1
    <3>1. found \subseteq Nat /\ found \subseteq 0 .. ArrLen(n) - 1
      OBVIOUS
    <3> HIDE DEF found
    <3> QED
      BY <3>1, LeastNumber
  <2> HIDE DEF found, cfound
  <2>5. found # {} => co.array[Min(cfound)] = FullWord \ db.array[j]
    BY <1>2, <2>3, <2>4
  <2> QED
    BY <2>1, <2>2, <2>3, <2>5
<1>8. \A b \in 0 .. n - 1 : b \in Bits(co) <=> b \notin Bits(db)
  BY <1>1, <1>4, <1>5, <1>6
<1>9. \A b \in Bits(co) : b \in Nat /\ b \notin Bits(db)
  BY <1>1, <1>4, <1>5
<1> QED
  BY <1>3, <1>7, <1>8, <1>9 DEF co

\* When there is a zero below the length, the first zero found is the least.
LEMMA FirstZeroIsLeast ==
  ASSUME NEW db, Proper(db), Indices(db) \ Bits(db) # {}
  PROVE  FirstZeroBit(db) = Least(Indices(db) \ Bits(db))
<1> DEFINE n    == db.len
           ones == Bits(Complement(db))
           zero == FirstZeroBit(db)
<1>1. n \in Nat /\ IsBitset(db, n)
  BY DEF Proper
<1>2. /\ IsBitset(Complement(db), n)
      /\ \A b \in 0 .. n - 1 : b \in ones <=> b \notin Bits(db)
      /\ \A b \in ones : b \in Nat /\ b \notin Bits(db)
      /\ zero = FirstBit(Complement(db))
  BY <1>1, ComplementBits
<1>3. IsLeast(zero, ones)
  BY <1>1, <1>2, FirstBitIsLeast
<1> HIDE DEF n, ones, zero
<1>4. PICK b \in 0 .. n - 1 : b \notin Bits(db)
  BY DEF Indices, n
<1>5. zero \in ones /\ \A c \in ones : zero <= c
  BY <1>2, <1>3, <1>4 DEF IsLeast
<1>6. zero \in Nat /\ zero <= b /\ zero \notin Bits(db)
  BY <1>2, <1>4, <1>5
<1>7. zero \in (0 .. n - 1) \ Bits(db) /\ \A c \in (0 .. n - 1) \ Bits(db) : zero <= c
  BY <1>1, <1>2, <1>4, <1>5, <1>6
<1>8. IsLeast(zero, (0 .. n - 1) \ Bits(db))
  BY <1>7 DEF IsLeast
<1>9. (0 .. n - 1) \ Bits(db) \subseteq Nat
  OBVIOUS
<1>10. zero = Least((0 .. n - 1) \ Bits(db))
  BY <1>8, <1>9, LeastIs
<1> QED
  BY <1>10 DEF zero, n, Indices

\* The bits of some words.
BitsOf(db, s) == {b \in Bits(db) : ArrPos(b) \in s}

\* A word has as many bits as there are positions in it.
LEMMA WordCount ==
  ASSUME NEW n \in Nat, NEW db, IsBitset(db, n), NEW i \in 0 .. ArrLen(n) - 1
  PROVE  Cardinality(db.array[i]) = Cardinality(BitsOf(db, {i}))
<1> DEFINE word == db.array[i]
           S    == BitsOf(db, {i})
           f    == [b \in S |-> BitPos(b)]
<1>1. /\ i \in Nat /\ word \subseteq 0 .. W - 1
      /\ \A b : b \in Bits(db) <=> /\ b \in Nat /\ ArrPos(b) \in 0 .. ArrLen(n) - 1
                                   /\ BitPos(b) \in db.array[ArrPos(b)]
  <2>1. i \in Nat
    OBVIOUS
  <2>2. word \subseteq 0 .. W - 1
    BY BitsAre
  <2> QED
    BY <2>1, <2>2, BitsAre
<1>2. \A b \in S : b \in Nat /\ ArrPos(b) = i /\ BitPos(b) \in word
  BY <1>1 DEF BitsOf
<1>3. \A b \in S : b = i * W + BitPos(b)
  BY <1>2, DivMod
<1>4. ASSUME NEW k \in word
      PROVE  i * W + k \in S /\ BitPos(i * W + k) = k
  <2>1. k \in 0 .. W - 1
    BY <1>1
  <2>2. i * W + k \in Nat /\ ArrPos(i * W + k) = i /\ BitPos(i * W + k) = k
    BY <1>1, <2>1, WordBit
  <2> QED
    BY <1>1, <2>2 DEF BitsOf
<1>5. IsFiniteSet(S)
  <2>1. S \subseteq Bits(db)
    BY DEF BitsOf
  <2> HIDE DEF S
  <2> QED
    BY <2>1, BitsAreNumbers, FS_Subset DEF NumberSet
<1> HIDE DEF S, word
<1>6. f \in Injection(S, word)
  <2>1. f \in [S -> word]
    BY <1>2
  <2>2. \A a, b \in S : f[a] = f[b] => a = b
    BY <1>3
  <2> QED
    BY <2>1, <2>2 DEF Injection, IsInjective
<1>7. f \in Surjection(S, word)
  <2>1. f \in [S -> word]
    BY <1>2
  <2>2. \A k \in word : \E b \in S : f[b] = k
    BY <1>4
  <2> QED
    BY <2>1, <2>2 DEF Surjection
<1>8. ExistsBijection(S, word)
  BY <1>6, <1>7 DEF ExistsBijection, Bijection
<1>9. Cardinality(word) = Cardinality(S)
  BY <1>5, <1>8, FS_Bijection
<1> QED
  BY <1>9 DEF S, word

LEMMA SmallestSet ==
  ASSUME NEW S, IsFiniteSet(S), NEW Bad, Bad \subseteq SUBSET S, Bad # {}
  PROVE  \E s \in Bad : \A x \in s : s \ {x} \notin Bad
<1> DEFINE T == {Cardinality(s) : s \in Bad}
<1>1. \A s \in SUBSET S : IsFiniteSet(s) /\ Cardinality(s) \in Nat
  BY FS_Subset, FS_CardinalityType
<1>2. T \subseteq Nat /\ T # {}
  BY <1>1
<1>3. PICK n \in T : \A m \in T : n <= m
  <2> HIDE DEF T
  <2> QED
    BY <1>2, LeastNumber
<1>4. PICK s \in Bad : Cardinality(s) = n
  OBVIOUS
<1>5. ASSUME NEW x \in s, s \ {x} \in Bad
      PROVE  FALSE
  <2>1. IsFiniteSet(s) /\ Cardinality(s) \in Nat
    BY <1>1
  <2>2. Cardinality(s \ {x}) = Cardinality(s) - 1
    BY <2>1, FS_RemoveElement
  <2>3. n <= Cardinality(s \ {x})
    BY <1>3, <1>5
  <2> QED
    BY <1>4, <2>1, <2>2, <2>3
<1> QED
  BY <1>5

\* The function MapThenSumSet adds the words' counts up with.
Picked(s) == CHOOSE i \in s : TRUE
IsCounts(g, db, S) ==
    g = [s \in SUBSET S |-> IF s = {} THEN 0
                            ELSE Cardinality(db.array[Picked(s)]) + g[s \ {Picked(s)}]]

LEMMA WordsAddUp ==
  ASSUME NEW n \in Nat, NEW db, IsBitset(db, n), NEW S, S = 0 .. ArrLen(n) - 1
  PROVE  MapThenSumSet(LAMBDA i : Cardinality(db.array[i]), S) = Cardinality(BitsOf(db, S))
<1>1. MapThenSumSet(LAMBDA i : Cardinality(db.array[i]), S) = (CHOOSE g : IsCounts(g, db, S))[S]
  BY DEF MapThenSumSet, MapThenFoldSet, IsCounts, Picked
<1>2. /\ IsFiniteSet(Bits(db)) /\ IsFiniteSet(S)
      /\ \A i \in S : Cardinality(db.array[i]) = Cardinality(BitsOf(db, {i}))
  <2>1. IsFiniteSet(Bits(db)) /\ ArrLen(n) \in Nat
    BY BitsAreNumbers, ArrLenBounds DEF NumberSet
  <2>2. IsFiniteSet(S)
    BY <2>1, FS_Interval
  <2>3. \A i \in S : Cardinality(db.array[i]) = Cardinality(BitsOf(db, {i}))
    BY WordCount
  <2> QED
    BY <2>1, <2>2, <2>3
<1>3. \A s : IsFiniteSet(BitsOf(db, s)) /\ Cardinality(BitsOf(db, s)) \in Nat
  <2> SUFFICES ASSUME NEW s
               PROVE  IsFiniteSet(BitsOf(db, s)) /\ Cardinality(BitsOf(db, s)) \in Nat
    OBVIOUS
  <2>1. BitsOf(db, s) \subseteq Bits(db)
    BY DEF BitsOf
  <2> QED
    BY <1>2, <2>1, FS_Subset, FS_CardinalityType
<1>4. ASSUME NEW s \in SUBSET S, NEW i \in s
      PROVE  Cardinality(BitsOf(db, s))
               = Cardinality(db.array[i]) + Cardinality(BitsOf(db, s \ {i}))
  <2> DEFINE a == BitsOf(db, {i})
             b == BitsOf(db, s \ {i})
  <2>1. BitsOf(db, s) = a \cup b /\ a \cap b = {}
    BY DEF BitsOf
  <2>2. /\ IsFiniteSet(a) /\ Cardinality(a) \in Nat
        /\ IsFiniteSet(b) /\ Cardinality(b) \in Nat
    BY <1>3
  <2>3. Cardinality(db.array[i]) = Cardinality(a)
    BY <1>2
  <2> HIDE DEF a, b
  <2>4. Cardinality(a \cup b) = Cardinality(a) + Cardinality(b)
    <3>1. Cardinality(a \cap b) = 0
      BY <2>1, FS_EmptySet
    <3>2. Cardinality(a \cup b) = Cardinality(a) + Cardinality(b) - Cardinality(a \cap b)
      BY <2>2, FS_Union
    <3> QED
      BY <2>2, <3>1, <3>2
  <2> QED
    BY <2>1, <2>3, <2>4 DEF b
<1>5. Cardinality(BitsOf(db, {})) = 0
  <2>1. BitsOf(db, {}) = {}
    BY DEF BitsOf
  <2> QED
    BY <2>1, FS_EmptySet
<1> DEFINE h == [s \in SUBSET S |-> Cardinality(BitsOf(db, s))]
<1>6. IsCounts(h, db, S)
  <2>1. ASSUME NEW s \in SUBSET S, s # {}
        PROVE  h[s] = Cardinality(db.array[Picked(s)]) + h[s \ {Picked(s)}]
    <3>1. Picked(s) \in s
      BY <2>1 DEF Picked
    <3> QED
      BY <1>4, <3>1
  <2>2. h = [s \in SUBSET S |-> IF s = {} THEN 0
                                ELSE Cardinality(db.array[Picked(s)]) + h[s \ {Picked(s)}]]
    BY <1>5, <2>1
  <2> HIDE DEF h
  <2> QED
    BY <2>2 DEF IsCounts
<1> HIDE DEF h
<1>7. PICK g : g = (CHOOSE f : IsCounts(f, db, S))
  OBVIOUS
<1>8. IsCounts(g, db, S)
  BY <1>6, <1>7
<1>9. \A s \in SUBSET S : g[s] = Cardinality(BitsOf(db, s))
  <2> DEFINE Bad == {s \in SUBSET S : g[s] # Cardinality(BitsOf(db, s))}
  <2>1. ASSUME Bad # {} PROVE FALSE
    <3>1. PICK s \in Bad : \A x \in s : s \ {x} \notin Bad
      <4>1. Bad \subseteq SUBSET S
        OBVIOUS
      <4> HIDE DEF Bad
      <4> QED
        BY <1>2, <2>1, <4>1, SmallestSet
    <3>2. s \in SUBSET S /\ g[s] # Cardinality(BitsOf(db, s))
      BY <3>1
    <3>3. s # {}
      BY <1>5, <1>8, <3>2 DEF IsCounts
    <3>4. Picked(s) \in s
      BY <3>3 DEF Picked
    <3>5. g[s] = Cardinality(db.array[Picked(s)]) + g[s \ {Picked(s)}]
      BY <1>8, <3>2, <3>3 DEF IsCounts
    <3>6. g[s \ {Picked(s)}] = Cardinality(BitsOf(db, s \ {Picked(s)}))
      BY <3>1, <3>2, <3>4
    <3> HIDE DEF Bad
    <3> QED
      BY <1>4, <3>2, <3>4, <3>5, <3>6
  <2> QED
    BY <2>1
<1>10. S \in SUBSET S
  OBVIOUS
<1> QED
  BY <1>1, <1>7, <1>9, <1>10

\* popcount, and empty.
LEMMA CountsRight ==
  ASSUME NEW n \in Nat, NEW db, IsBitset(db, n)
  PROVE  /\ PopCount(db) = Cardinality(Bits(db))
         /\ Empty(db) <=> Bits(db) = {}
<1>1. DOMAIN db.array = 0 .. ArrLen(n) - 1
  BY BitsAre
<1>2. \A b \in Bits(db) : /\ ArrPos(b) \in 0 .. ArrLen(n) - 1
                          /\ BitPos(b) \in db.array[ArrPos(b)]
  BY BitsAre
<1>3. BitsOf(db, 0 .. ArrLen(n) - 1) = Bits(db)
  BY <1>2 DEF BitsOf
<1>4. PopCount(db) = Cardinality(Bits(db))
  <2>1. MapThenSumSet(LAMBDA i : Cardinality(db.array[i]), 0 .. ArrLen(n) - 1)
          = Cardinality(BitsOf(db, 0 .. ArrLen(n) - 1))
    BY WordsAddUp
  <2> QED
    BY <1>1, <1>3, <2>1 DEF PopCount
<1>5. ASSUME Empty(db) PROVE Bits(db) = {}
  BY <1>1, <1>2, <1>5 DEF Empty
<1>6. ASSUME Bits(db) = {}, NEW i \in 0 .. ArrLen(n) - 1
      PROVE  db.array[i] = {}
  <2>1. \A k \in 0 .. W - 1 : k \notin db.array[i]
    BY <1>6, BitsSay
  <2>2. db.array[i] \subseteq 0 .. W - 1
    BY BitsAre
  <2> QED
    BY <2>1, <2>2
<1> QED
  BY <1>1, <1>4, <1>5, <1>6 DEF Empty

\* The n-th bit of the loop is the element with n elements below it.
LEMMA LoopGoesThrough ==
  ASSUME NEW n \in Nat, NEW db, IsBitset(db, n), NEW k \in 0 .. W * ArrLen(n)
  PROVE  Iterated(db)[k] = IF k < Cardinality(Bits(db))
                           THEN CHOOSE b \in Bits(db) : Cardinality({c \in Bits(db) : c < b}) = k
                           ELSE NoBit
<1> DEFINE bits == Bits(db)
           e    == Iterated(db)[k]
           x    == CHOOSE b \in bits : Cardinality({c \in bits : c < b}) = k
<1>1. NumberSet(bits) /\ Cardinality(bits) \in Nat /\ k \in Nat
  BY BitsAreNumbers
<1>2. IsNth(e, k, bits)
  BY IteratedIsNth
<1> HIDE DEF bits, e
<1>3. CASE k < Cardinality(bits)
  <2>1. e \in bits /\ Cardinality(Under(bits, e)) = k
    BY <1>1, <1>2, <1>3 DEF IsNth
  <2>2. x \in bits /\ Cardinality({c \in bits : c < x}) = k
    BY <2>1 DEF Under
  <2>3. IsNth(x, k, bits)
    BY <2>2 DEF IsNth, Under
  <2>4. e = x
    BY <1>1, <1>2, <2>3, NthUnique
  <2> QED
    BY <1>3, <2>4 DEF e, bits
<1>4. CASE ~(k < Cardinality(bits))
  <2>1. IsNth(NoBit, k, bits)
    BY <1>1, <1>4 DEF IsNth
  <2>2. e = NoBit
    BY <1>1, <1>2, <2>1, NthUnique
  <2> QED
    BY <1>4, <2>2 DEF e, bits
<1> QED
  BY <1>3, <1>4

\* The searches, the counts and the loop over a bitset are those of the set of
\* its bits, in all the states the calls lead to (dense_bitset.hpp:112-118,
\* 275-384, 398-404).
THEOREM SearchesFindTheLeast == Spec => []SearchesCorrect
<1>1. ASSUME BitsetsOK
      PROVE  SearchesCorrect
  <2>1. /\ Proper(self) /\ self.len \in Nat /\ IsBitset(self, self.len)
        /\ \A b \in Bits(self) : b \in Nat
    BY <1>1, BitsAre DEF BitsetsOK, Proper
  <2>2. FirstBit(self) = Least(Bits(self))
    <3>1. Bits(self) \subseteq Nat
      BY <2>1
    <3> QED
      BY <2>1, <3>1, FirstBitIsLeast, LeastIs
  <2>3. ASSUME NEW b \in Positions(self)
        PROVE  NextBit(self, b) = Least(From(Bits(self), b + 1))
    <3>1. b \in Nat /\ b \in 0 .. W * ArrLen(self.len) - 1
      BY DEF Positions
    <3>2. ArrPos(b) \in 0 .. ArrLen(self.len) - 1
      BY <2>1, <3>1, HasAWord
    <3>3. IsLeast(NextBit(self, b), {c \in Bits(self) : b < c})
      BY <2>1, <3>1, <3>2, NextBitIsLeast
    <3>4. {c \in Bits(self) : b < c} = From(Bits(self), b + 1)
      BY <2>1, <3>1 DEF From
    <3>5. From(Bits(self), b + 1) \subseteq Nat
      BY <2>1 DEF From
    <3> QED
      BY <3>3, <3>4, <3>5, LeastIs
  <2>4. Indices(self) \ Bits(self) # {} => FirstZeroBit(self) = Least(Indices(self) \ Bits(self))
    BY <2>1, FirstZeroIsLeast
  <2>5. PopCount(self) = Cardinality(Bits(self)) /\ (Empty(self) <=> Bits(self) = {})
    BY <2>1, CountsRight
  <2>6. \A k \in 0 .. W * ArrLen(self.len) :
            Iterated(self)[k]
              = IF k < Cardinality(Bits(self))
                THEN CHOOSE b \in Bits(self) : Cardinality({c \in Bits(self) : c < b}) = k
                ELSE NoBit
    BY <2>1, LoopGoesThrough
  <2> QED
    BY <2>2, <2>3, <2>4, <2>5, <2>6 DEF SearchesCorrect
<1>2. BitsetsOK => SearchesCorrect
  BY <1>1
<1> QED
  BY <1>2, DenseInvariance, PTL

\* The loop over a bitset meets the bits it has, and each is above the last.
LEMMA LoopMeetsAll ==
  ASSUME NEW n \in Nat, NEW db, IsBitset(db, n)
  PROVE  LET N == W * ArrLen(n) IN
         /\ \A k \in 0 .. N : Iterated(db)[k] # NoBit => Iterated(db)[k] \in Bits(db)
         /\ \A b \in Bits(db) : b # NoBit /\ \E k \in 0 .. N : Iterated(db)[k] = b
         /\ \A k \in 1 .. N : Iterated(db)[k] # NoBit => Iterated(db)[k - 1] < Iterated(db)[k]
<1> DEFINE N     == W * ArrLen(n)
           bits  == Bits(db)
           at(k) == Iterated(db)[k]
<1>1. NumberSet(bits) /\ Cardinality(bits) \in Nat /\ N \in Nat /\ Cardinality(bits) <= N
  BY BitsAreNumbers
<1>2. \A k \in 0 .. N : IsNth(at(k), k, bits)
  BY IteratedIsNth
<1>3. \A b \in bits : b \in Nat /\ b # NoBit
  BY <1>1 DEF NumberSet, NoBit
<1> HIDE DEF N, bits, at
<1>4. \A k \in 0 .. N : at(k) # NoBit => at(k) \in bits /\ Cardinality(Under(bits, at(k))) = k
  BY <1>2 DEF IsNth
<1>5. ASSUME NEW b \in bits
      PROVE  \E k \in 0 .. N : at(k) = b
  <2> DEFINE k == Cardinality(Under(bits, b))
  <2>1. k \in Nat /\ k < Cardinality(bits)
    BY <1>1, UnderGrows
  <2>2. IsNth(b, k, bits)
    BY DEF IsNth
  <2> HIDE DEF k
  <2>3. k \in 0 .. N
    BY <1>1, <2>1
  <2>4. at(k) = b
    BY <1>1, <1>2, <2>1, <2>2, <2>3, NthUnique
  <2> QED
    BY <2>3, <2>4
<1>6. ASSUME NEW k \in 1 .. N, at(k) # NoBit
      PROVE  at(k - 1) < at(k)
  <2>1. k \in 0 .. N /\ k - 1 \in 0 .. N /\ k \in Nat /\ k - 1 \in Nat
    BY <1>1
  <2>2. at(k) \in bits /\ Cardinality(Under(bits, at(k))) = k
    BY <1>4, <1>6, <2>1
  <2>3. k < Cardinality(bits)
    BY <1>1, <2>2, UnderGrows
  <2>4. at(k - 1) \in bits /\ Cardinality(Under(bits, at(k - 1))) = k - 1
    <3>1. ~(k - 1 >= Cardinality(bits))
      BY <1>1, <2>1, <2>3
    <3> QED
      BY <1>2, <2>1, <3>1 DEF IsNth
  <2>5. ~(at(k) < at(k - 1))
    BY <1>1, <2>1, <2>2, <2>4, UnderGrows
  <2>6. at(k) # at(k - 1)
    BY <2>1, <2>2, <2>4
  <2> QED
    BY <1>3, <2>2, <2>4, <2>5, <2>6
<1> QED
  BY <1>3, <1>4, <1>5, <1>6 DEF N, bits, at

\* What the engine's inner loop does with one word of a bitset: a bitset of
\* one word, and the loop over it (sync.cpp:131-140).
LEMMA OneBlock ==
  ASSUME NEW n \in Nat, NEW db, IsBitset(db, n), NEW i \in 0 .. ArrLen(n) - 1
  PROVE  LET block == FixedFromWord(ContainingWord(db, i * W)) IN
         /\ IsBitset(block, W) /\ W * ArrLen(W) = W
         /\ \A k \in 0 .. W - 1 : k \in Bits(block) <=> i * W + k \in Bits(db)
         /\ \A k \in Bits(block) : k \in 0 .. W - 1
<1> DEFINE word  == db.array[i]
           block == FixedFromWord(ContainingWord(db, i * W))
<1>1. W \in Nat /\ W > 0 /\ i \in Nat /\ 0 \in 0 .. W - 1
  BY WordAssumption, ArrLenBounds
<1>2. word \subseteq 0 .. W - 1
  BY BitsAre
<1>3. block = [len |-> W, array |-> [j \in {0} |-> word]]
  <2>1. ArrPos(i * W + 0) = i
    BY <1>1, WordBit
  <2>2. i * W + 0 = i * W
    BY <1>1
  <2> QED
    BY <2>1, <2>2 DEF FixedFromWord, ContainingWord
<1>4. ArrLen(W) = 1
  BY <1>1 DEF ArrLen
<1> HIDE DEF word, block
<1>5. IsBitset(block, W)
  <2>1. 0 .. ArrLen(W) - 1 = {0}
    BY <1>4
  <2> QED
    BY <1>2, <1>3, <2>1 DEF IsBitset, Array, FullWord
<1>6. \A k \in Bits(block) : k \in 0 .. W - 1
  <2>1. block.len = W /\ W * 1 = W
    BY <1>1, <1>3
  <2> QED
    BY <1>4, <2>1 DEF Bits
<1>7. ASSUME NEW k \in 0 .. W - 1
      PROVE  k \in Bits(block) <=> i * W + k \in Bits(db)
  <2>1. 0 * W + k = k /\ 0 \in 0 .. ArrLen(W) - 1 /\ block.array[0] = word
    BY <1>1, <1>3, <1>4
  <2>2. k \in block.array[0] <=> 0 * W + k \in Bits(block)
    BY <1>1, <1>5, <2>1, BitsSay
  <2>3. k \in word <=> i * W + k \in Bits(db)
    BY BitsSay DEF word
  <2> QED
    BY <2>1, <2>2, <2>3
<1> QED
  BY <1>1, <1>4, <1>5, <1>6, <1>7 DEF block

\* The engine, which takes the vertices word by word, meets the vertices of
\* every block, in order (sync.cpp:131-140; dense_bitset.hpp:154-158).
THEOREM BlocksAreIterated == Spec => []BlockIteration
<1>1. ASSUME BitsetsOK
      PROVE  BlockIteration
  <2> SUFFICES ASSUME NEW i \in 0 .. ArrLen(self.len) - 1
               PROVE  LET start == i * W
                          at    == Iterated(FixedFromWord(ContainingWord(self, start)))
                          found == {start + at[n] : n \in {k \in 0 .. W : at[k] # NoBit}}
                      IN /\ found = {b \in Bits(self) : start <= b /\ b < start + W}
                         /\ \A n \in 1 .. W : at[n] # NoBit => at[n - 1] < at[n]
    BY DEF BlockIteration
  <2> DEFINE start == i * W
             block == FixedFromWord(ContainingWord(self, start))
             at    == Iterated(block)
             found == {start + at[n] : n \in {k \in 0 .. W : at[k] # NoBit}}
  <2>1. /\ self.len \in Nat /\ IsBitset(self, self.len)
        /\ \A b \in Bits(self) : b \in Nat
    BY <1>1, BitsAre DEF BitsetsOK, Proper
  <2>2. /\ IsBitset(block, W) /\ W * ArrLen(W) = W
        /\ \A k \in 0 .. W - 1 : k \in Bits(block) <=> start + k \in Bits(self)
        /\ \A k \in Bits(block) : k \in 0 .. W - 1
    BY <2>1, OneBlock
  <2>3. W \in Nat /\ i \in Nat /\ start \in Nat
    <3>1. W \in Nat /\ i \in Nat
      BY <2>1, ArrLenBounds, WordAssumption
    <3> QED
      BY <3>1
  <2> HIDE DEF block, start
  <2>4. /\ \A k \in 0 .. W : at[k] # NoBit => at[k] \in Bits(block)
        /\ \A b \in Bits(block) : b # NoBit /\ \E k \in 0 .. W : at[k] = b
        /\ \A k \in 1 .. W : at[k] # NoBit => at[k - 1] < at[k]
    BY <2>2, <2>3, LoopMeetsAll
  <2> HIDE DEF at
  <2>5. ASSUME NEW b \in found
        PROVE  b \in Bits(self) /\ start <= b /\ b < start + W
    <3>1. PICK k \in 0 .. W : at[k] # NoBit /\ b = start + at[k]
      OBVIOUS
    <3>2. at[k] \in Bits(block) /\ at[k] \in 0 .. W - 1
      BY <2>2, <2>4, <3>1
    <3> QED
      BY <2>2, <2>3, <3>1, <3>2
  <2>6. ASSUME NEW b \in Bits(self), start <= b, b < start + W
        PROVE  b \in found
    <3>1. b - start \in 0 .. W - 1 /\ start + (b - start) = b
      BY <2>1, <2>3, <2>6
    <3>2. b - start \in Bits(block)
      BY <2>2, <3>1
    <3>3. PICK k \in 0 .. W : at[k] = b - start /\ at[k] # NoBit
      BY <2>4, <3>2
    <3> QED
      BY <3>1, <3>3
  <2>7. found = {b \in Bits(self) : start <= b /\ b < start + W}
    <3> HIDE DEF found
    <3> QED
      BY <2>5, <2>6
  <2> QED
    BY <2>4, <2>7 DEF at, block, start
<1>2. BitsetsOK => BlockIteration
  BY <1>1
<1> QED
  BY <1>2, DenseInvariance, PTL
=============================================================================
