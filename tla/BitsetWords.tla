----------------------------- MODULE BitsetWords -----------------------------
(***************************************************************************)
(* The arithmetic of words that dense_bitset and fixed_dense_bitset share, *)
(* line for line (util/dense_bitset.hpp): a bitset is an array of words of *)
(* W bits and a length.  A word is the set of its positions that are one,  *)
(* so `|', `&' and `~' are union, intersection and complement.  The bits   *)
(* of the last word behind the length are what this representation can get *)
(* wrong: popcount, empty and the searches count on their being zero.      *)
(***************************************************************************)
EXTENDS Integers, Sequences, FiniteSets, FiniteSetsExt

CONSTANT W      \* 8 * sizeof(size_t)

ASSUME WordAssumption == W \in Nat \ {0}

FullWord == 0 .. W - 1

\* The words that len bits need; bit_to_pos.
ArrLen(len) == (len \div W) + (IF len % W > 0 THEN 1 ELSE 0)
ArrPos(b)   == b \div W
BitPos(b)   == b % W

Array(len) == [0 .. ArrLen(len) - 1 -> SUBSET FullWord]

\* The bits the words have room for: no operation on a bit checks for more.
Positions(db) == 0 .. W * ArrLen(db.len) - 1

\* All the bits that are one, those behind the length included.
Bits(db) == {b \in 0 .. W * ArrLen(db.len) - 1 : BitPos(b) \in db.array[ArrPos(b)]}

\* The bits of the last word behind the length are cleared.
\* (Wrong: they are not.)
LeaveTrailingBits(array, len) == array
FixTrailingBits(array, len) ==
    IF len % W = 0 THEN array
    ELSE [array EXCEPT ![ArrLen(len) - 1] = {k \in @ : k < len % W}]

\* The numbers below the length of a bitset, and its bits that are not.
Indices(db)  == 0 .. db.len - 1
Trailing(db) == Bits(db) \ Indices(db)

Zeros(len) == [i \in 0 .. ArrLen(len) - 1 |-> {}]

\* realloc keeps the words both lengths have.  The new words are cleared; when
\* there are none the new last word may have bits behind the new length.
Resized(db, n) ==
    LET grown == [i \in 0 .. ArrLen(n) - 1 |->
                     IF i < ArrLen(db.len) THEN db.array[i] ELSE {}]
    IN [len   |-> n,
        array |-> IF ArrLen(n) > ArrLen(db.len) THEN grown
                                                ELSE FixTrailingBits(grown, n)]

MapWords(db, Op(_)) ==
    [db EXCEPT !.array = [i \in DOMAIN @ |-> Op(db.array[i])]]

Filled(db) ==
    [db EXCEPT !.array = FixTrailingBits([i \in DOMAIN @ |-> FullWord], db.len)]

Inverted(db) ==
    [db EXCEPT !.array =
        FixTrailingBits([i \in DOMAIN @ |-> FullWord \ db.array[i]], db.len)]

Cleared(db) == MapWords(db, LAMBDA word : {})

\* &=, |= and -= of two bitsets of one size.
Anded(db, o) ==
    [db EXCEPT !.array = [i \in DOMAIN @ |-> db.array[i] \cap o.array[i]]]
Ored(db, o) ==
    [db EXCEPT !.array = [i \in DOMAIN @ |-> db.array[i] \cup o.array[i]]]
\* (Wrong: exclusive or, which adds the bits only the other has.)
Differing(db, o) ==
    [db EXCEPT !.array = [i \in DOMAIN @ |->
                             (db.array[i] \ o.array[i]) \cup (o.array[i] \ db.array[i])]]
Minus(db, o) ==
    [db EXCEPT !.array = [i \in DOMAIN @ |->
                             db.array[i] \ (db.array[i] \cap o.array[i])]]

\* The atomic operations on one bit touch one word.
WithBit(db, b)    == [db EXCEPT !.array[ArrPos(b)] = @ \cup {BitPos(b)}]
WithoutBit(db, b) == [db EXCEPT !.array[ArrPos(b)] = @ \ {BitPos(b)}]
Get(db, b)        == BitPos(b) \in db.array[ArrPos(b)]
Flipped(db, b)    == IF Get(db, b) THEN WithoutBit(db, b) ELSE WithBit(db, b)

ContainingWord(db, b) == db.array[ArrPos(b)]
WordZeroed(db, b)     == [db EXCEPT !.array[ArrPos(b)] = {}]

\* The end iterator, size_t(-1), for the searches that find nothing.
NoBit == -1

\* first_bit_in_block; 0 for an empty word, as in the code.
\* (Wrong: the highest bit.)
LastBitInBlock(word)  == IF word = {} THEN 0 ELSE Max(word)
FirstBitInBlock(word) == IF word = {} THEN 0 ELSE Min(word)

\* next_bit_in_block: the positions above k; 0 stands for none.
\* (Wrong: k itself is not masked out.)
BitInBlockFrom(k, word)  == FirstBitInBlock({j \in word : j >= k})
NextBitInBlock(k, word) == FirstBitInBlock({j \in word : j > k})

\* The first word from position i on with a bit that is one.
FirstWordFrom(db, i, Word(_)) ==
    LET found == {j \in i .. ArrLen(db.len) - 1 : Word(db.array[j]) # {}}
    IN IF found = {} THEN NoBit
       ELSE LET j == Min(found) IN j * W + FirstBitInBlock(Word(db.array[j]))

FirstBit(db)     == FirstWordFrom(db, 0, LAMBDA word : word)
FirstZeroBit(db) == FirstWordFrom(db, 0, LAMBDA word : FullWord \ word)

NextBit(db, b) ==
    LET k == NextBitInBlock(BitPos(b), db.array[ArrPos(b)])
    IN IF k # 0 THEN ArrPos(b) * W + k
       ELSE FirstWordFrom(db, ArrPos(b) + 1, LAMBDA word : word)

PopCount(db) == MapThenSumSet(LAMBDA i : Cardinality(db.array[i]), DOMAIN db.array)

Empty(db) == \A i \in DOMAIN db.array : db.array[i] = {}

\* The n-th bit of the loop `for (auto e : db)': begin, then ++.
Iterated(db) ==
    LET at[n \in 0 .. W * ArrLen(db.len)] ==
            IF n = 0 THEN FirstBit(db)
            ELSE IF at[n - 1] = NoBit THEN NoBit ELSE NextBit(db, at[n - 1])
    IN at

\* fixed_dense_bitset<W> initialised from one word.
FixedFromWord(word) == [len |-> W, array |-> [i \in {0} |-> word]]

\* The bits from b on, and the first of a set.
From(set, b) == {c \in set : c >= b}
Least(set)   == IF set = {} THEN NoBit ELSE Min(set)
=============================================================================
