----------------------------- MODULE DenseBitset -----------------------------
(***************************************************************************)
(* dense_bitset (util/dense_bitset.hpp, the first class): a bitset whose   *)
(* length changes.  Every operation of the class is called, in any order,  *)
(* with another bitset as the argument of those that take one.             *)
(***************************************************************************)
EXTENDS BitsetWords

CONSTANT MaxLen     \* bound on the lengths

ASSUME BitsetAssumption == MaxLen \in Nat

Bitsets == UNION {[len : {n}, array : Array(n)] : n \in 0 .. MaxLen}

-----------------------------------------------------------------------------
VARIABLES self, other,      \* two bitsets
          tr                \* a call of transfer_approximate_unsafe, or NoCall

vars == <<self, other, tr>>

NoCall == [running |-> FALSE]

Call == [running     : {TRUE},
         arrpos      : 0 .. ArrLen(MaxLen),
         initial     : 0 .. ArrLen(MaxLen),
         b           : 0 .. MaxLen,
         transferred : 0 .. MaxLen + W,
         returned    : BOOLEAN]

Init == /\ \E n \in 0 .. MaxLen : self = [len |-> n, array |-> Zeros(n)]
        /\ other = [len |-> 0, array |-> Zeros(0)]
        /\ tr = NoCall

\* A call that changes self at once.
Becomes(db) == /\ ~tr.running
               /\ self' = db
               /\ UNCHANGED <<other, tr>>

Resize      == \E n \in 0 .. MaxLen : Becomes(Resized(self, n))
Clear       == Becomes(Cleared(self))
Fill        == Becomes(Filled(self))
Invert      == Becomes(Inverted(self))

\* The operations on one bit do not compare it with the length.  (Behind the
\* array they touch memory that is not the bitset's, which is left out.)
SetBit      == \E b \in Positions(self) : Becomes(WithBit(self, b))
ClearBit    == \E b \in Positions(self) : Becomes(WithoutBit(self, b))
XorBit      == \E b \in Positions(self) : Becomes(Flipped(self, b))
TakeWord    == \E b \in Positions(self) : Becomes(WordZeroed(self, b))

\* The operators assert that the sizes agree.
SameSize == self.len = other.len
And         == SameSize /\ Becomes(Anded(self, other))
Or          == SameSize /\ Becomes(Ored(self, other))
Subtract    == SameSize /\ Becomes(Minus(self, other))
Assign      == SameSize /\ Becomes([self EXCEPT !.array = other.array])

\* self = other, and other = self: resize, then memcpy of the other's words.
AssignFrom(db, from) == [Resized(db, from.len) EXCEPT !.array = from.array]
CopyFromOther == Becomes(AssignFrom(self, other))
CopyToOther   == /\ ~tr.running
                 /\ other' = AssignFrom(other, self)
                 /\ UNCHANGED <<self, tr>>

\* self.transfer_approximate_unsafe(other, start, b).  A start behind the array
\* is the first word.
TransferCall ==
    /\ ~tr.running
    /\ SameSize
    /\ \E start \in 0 .. W * ArrLen(self.len), b \in 0 .. MaxLen :
        tr' = [running     |-> TRUE,
               arrpos      |-> IF ArrPos(start) >= ArrLen(self.len)
                               THEN 0 ELSE ArrPos(start),
               initial     |-> ArrPos(start),
               b           |-> b,
               transferred |-> 0,
               returned    |-> b = 0]
    /\ UNCHANGED <<self, other>>

\* What is left of the other bitset.
TakenFromOther(p) == [other EXCEPT !.array[p] = {}]

\* The break of the loop, which moves on from word p to word q.  (Wrong: at
\* the end of the array.)
BreaksAtEnd(p, q) == p + 1 >= ArrLen(other.len)
Breaks(p, q)      == p + 1 < ArrLen(other.len) /\ q = tr.initial

\* One round of the loop on the word at arrpos.
TransferStep ==
    /\ tr.running
    /\ ~tr.returned
    /\ ArrLen(other.len) > 0
    /\ LET p     == tr.arrpos
           q     == IF p + 1 >= ArrLen(other.len) THEN 0 ELSE p + 1
           total == tr.transferred + Cardinality(other.array[p])
       IN /\ self' = [self EXCEPT !.array[p] = @ \cup other.array[p]]
          /\ other' = TakenFromOther(p)
          /\ tr' = [tr EXCEPT !.arrpos = q,
                              !.transferred = total,
                              !.returned = Breaks(p, q) \/ total >= tr.b]

\* A round when there is no word at all: it takes the bits it finds at array[0],
\* which is nobody's (or the program ends there).
TransferNothing ==
    /\ tr.running
    /\ ~tr.returned
    /\ ArrLen(other.len) = 0
    /\ \E found \in 0 .. W :
        tr' = [tr EXCEPT !.transferred = @ + found,
                         !.returned = tr.transferred + found >= tr.b]
    /\ UNCHANGED <<self, other>>

TransferReturn ==
    /\ tr.running
    /\ tr.returned
    /\ tr' = NoCall
    /\ UNCHANGED <<self, other>>

Next == \/ Resize
        \/ Clear
        \/ Fill
        \/ Invert
        \/ SetBit
        \/ ClearBit
        \/ XorBit
        \/ TakeWord
        \/ And
        \/ Or
        \/ Subtract
        \/ Assign
        \/ CopyFromOther
        \/ CopyToOther
        \/ TransferCall
        \/ TransferStep
        \/ TransferNothing
        \/ TransferReturn

\* A thread in a loop keeps running.
Spec == /\ Init
        /\ [][Next]_vars
        /\ WF_vars(TransferStep \/ TransferNothing \/ TransferReturn)
-----------------------------------------------------------------------------
(* Properties.                                                             *)

TypeOK == /\ self \in Bitsets
          /\ other \in Bitsets
          /\ tr \in Call \cup {NoCall}

\* Setting or flipping a bit behind the length, as far as the last word goes.
StrayBit == \E b \in Positions(self) \ Indices(self) :
                Becomes(WithBit(self, b)) \/ Becomes(Flipped(self, b))

Strays == Trailing(self) \cup Trailing(other)

\* Only the caller of set_bit or xor_bit, which do not look at the length
\* (dense_bitset.hpp:135-151), can bring a bit behind it: resize, fill, invert,
\* the assignments and a transfer never do, whatever the lengths before and
\* after (they call fix_trailing_bits, 490-495, where they must).  Otherwise
\* popcount would count vertices that are not there, and the engine would never
\* see an empty superstep.
NoNewTrailingBits == [][StrayBit \/ Strays' \subseteq Strays]_vars

\* Every operation on words, whatever is in the array, is the operation on sets
\* it is named for.  Resize does more than its comment promises: "the value of
\* the new bits are undefined" and it "may still leave the "deleted" bits in
\* place which will mess up the popcount" (dense_bitset.hpp:84-90), but the code
\* keeps the bits below both lengths, has no other bit below the new one except
\* those that were behind the old one, and never leaves a deleted bit (91-105).
OperationsAreSetOperations ==
    LET bits == Bits(self)
        obits == Bits(other)
    IN /\ Bits(Cleared(self)) = {}
       /\ Bits(Filled(self)) = Indices(self)
       /\ Bits(Inverted(self)) = Indices(self) \ bits
       /\ \A n \in 0 .. MaxLen : Bits(Resized(self, n)) = bits \cap (0 .. n - 1)
       /\ \A b \in Positions(self) :
            /\ Get(self, b) <=> b \in bits
            /\ Bits(WithBit(self, b)) = bits \cup {b}
            /\ Bits(WithoutBit(self, b)) = bits \ {b}
            /\ Bits(Flipped(self, b)) = IF b \in bits THEN bits \ {b} ELSE bits \cup {b}
       /\ SameSize => /\ Bits(Anded(self, other)) = bits \cap obits
                      /\ Bits(Ored(self, other)) = bits \cup obits
                      /\ Bits(Minus(self, other)) = bits \ obits
       /\ Bits(AssignFrom(self, other)) = obits

\* The searches across words find the least element there is, and the loop
\* over the iterators meets every element once, in order.  First_zero_bit is
\* right as long as there is a zero below the length to find.
SearchesCorrect ==
    LET bits == Bits(self)
        zeros == Indices(self) \ bits
        iterated == Iterated(self)
    IN /\ FirstBit(self) = Least(bits)
       /\ \A b \in Positions(self) : NextBit(self, b) = Least(From(bits, b + 1))
       /\ zeros # {} => FirstZeroBit(self) = Least(zeros)
       /\ PopCount(self) = Cardinality(bits)
       /\ Empty(self) <=> bits = {}
       /\ \A n \in 0 .. W * ArrLen(self.len) :
            iterated[n] = IF n < Cardinality(bits)
                          THEN CHOOSE b \in bits : Cardinality({c \in bits : c < b}) = n
                          ELSE NoBit

\* What the engine does with a word (sync.cpp:131-140): containing_word of a
\* multiple of W, copied into a fixed_dense_bitset<W> and iterated over, gives
\* the elements of the block, in order.  SyncEngine's blocks rest on it.
BlockIteration ==
    \A i \in 0 .. ArrLen(self.len) - 1 :
        LET start == i * W
            at    == Iterated(FixedFromWord(ContainingWord(self, start)))
            found == {start + at[n] : n \in {k \in 0 .. W : at[k] # NoBit}}
        IN /\ found = {b \in Bits(self) : start <= b /\ b < start + W}
           /\ \A n \in 1 .. W : at[n] # NoBit => at[n - 1] < at[n]

\* "Moves at least b bits ... if no more bits, return" (dense_bitset.hpp:170,
\* 186): a transfer that comes back short has emptied the other bitset.
TransferEnough ==
    tr.running /\ tr.returned => tr.transferred >= tr.b \/ Bits(other) = {}

\* "if no more bits, return" (dense_bitset.hpp:186): the call returns, at least
\* when it starts at a bit there is.
TransferReturns == tr.running /\ tr.initial < ArrLen(other.len) ~> ~tr.running

\* "If such a bit does not exist, this function returns false"
\* (dense_bitset.hpp:338).
NoZeroNotFound == Bits(self) = Indices(self) => FirstZeroBit(self) = NoBit
=============================================================================
