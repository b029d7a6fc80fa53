----------------------------- MODULE FixedBitset -----------------------------
(***************************************************************************)
(* fixed_dense_bitset<len> (util/dense_bitset.hpp, the second class): a    *)
(* bitset whose length is fixed, and an iterator that walks over it while  *)
(* its owner goes on changing it.  The iterator keeps a position and no    *)
(* more; each ++ searches the array as it is then.                         *)
(*                                                                         *)
(* The engine has one such bitset per worker, of one word, which it fills  *)
(* again for every block (sync.cpp:128-138).                               *)
(***************************************************************************)
EXTENDS BitsetWords

CONSTANT MaxLen     \* bound on the template parameter len

ASSUME LengthAssumption == MaxLen \in Nat \ {0}

VARIABLES
    self, other,    \* two bitsets of one length
    pos,            \* the iterator over self: NoIterator, NoBit at the end
    yielded,        \* history: the positions the iterator was at, in order
    stable,         \* history: the bits that were one ever since begin()
    seen,           \* history: those that were one at some time since
    foreign         \* history: bits behind the length that a caller brought in

bitsets  == <<self, other>>
iterator == <<pos, yielded, stable, seen>>
vars     == <<bitsets, iterator, foreign>>

NoIterator == -2

\* The constructor clears.
Constructed(n) == [len |-> n, array |-> Zeros(n)]

Init == /\ \E n \in 1 .. MaxLen : self = Constructed(n)
        /\ other = self
        /\ pos = NoIterator
        /\ yielded = <<>>
        /\ stable = {}
        /\ seen = {}
        /\ foreign = {}

\* A call that changes self, under the iterator if there is one.
Becomes(db) ==
    /\ self' = db
    /\ stable' = stable \cap Bits(db)
    /\ seen' = IF pos = NoIterator THEN {} ELSE seen \cup Bits(db)
    /\ UNCHANGED <<other, pos, yielded>>

Clear    == Becomes(Cleared(self)) /\ UNCHANGED foreign
Fill     == Becomes(Filled(self)) /\ UNCHANGED foreign

\* The operations on one bit do not compare it with the length.
SetBit   == \E b \in Positions(self) : /\ Becomes(WithBit(self, b))
                                      /\ foreign' = foreign \cup ({b} \ Indices(self))
ClearBit == \E b \in Positions(self) : Becomes(WithoutBit(self, b)) /\ UNCHANGED foreign

\* initialize_from_mem: the first words are mem's, all their bits; the trailing
\* ones are not cleared.  The engine gives it the whole array, one word.
FromMem(db, mem) ==
    [db EXCEPT !.array = [i \in DOMAIN @ |->
                             IF i < Len(mem) THEN mem[i + 1] ELSE db.array[i]]]

InitializeFromMem ==
    \E n \in 1 .. ArrLen(self.len) : \E mem \in [1 .. n -> SUBSET FullWord] :
        /\ Becomes(FromMem(self, mem))
        /\ foreign' = foreign \cup Trailing(FromMem(self, mem))

\* Copies of one bitset to the other.
CopyFromOther == Becomes([self EXCEPT !.array = other.array]) /\ UNCHANGED foreign
CopyToOther   == /\ other' = [other EXCEPT !.array = self.array]
                 /\ UNCHANGED <<self, iterator, foreign>>

\* begin(): the first bit, or the end.
Begin ==
    /\ pos' = FirstBit(self)
    /\ yielded' = IF FirstBit(self) = NoBit THEN <<>> ELSE <<FirstBit(self)>>
    /\ stable' = Bits(self)
    /\ seen' = Bits(self)
    /\ UNCHANGED <<bitsets, foreign>>

\* Where ++ goes: next_bit.  (Wrong: the rest of the array begins a word late.)
SkipsAWord ==
    LET k == NextBitInBlock(BitPos(pos), self.array[ArrPos(pos)])
    IN IF k # 0 THEN ArrPos(pos) * W + k
       ELSE FirstWordFrom(self, ArrPos(pos) + 2, LAMBDA word : word)
Following  == NextBit(self, pos)

\* ++, not at the end.
Increment ==
    /\ pos \notin {NoIterator, NoBit}
    /\ pos' = Following
    /\ yielded' = IF Following = NoBit THEN yielded ELSE Append(yielded, Following)
    /\ UNCHANGED <<bitsets, stable, seen, foreign>>

Next == \/ Clear
        \/ Fill
        \/ SetBit
        \/ ClearBit
        \/ InitializeFromMem
        \/ CopyFromOther
        \/ CopyToOther
        \/ Begin
        \/ Increment

Spec == Init /\ [][Next]_vars
-----------------------------------------------------------------------------
(* Properties.                                                             *)

TypeOK ==
    /\ self.len \in 1 .. MaxLen /\ self.array \in Array(self.len)
    /\ other.len = self.len /\ other.array \in Array(self.len)
    /\ pos \in -2 .. W * ArrLen(self.len) - 1
    /\ stable \cup seen \cup foreign \subseteq 0 .. W * ArrLen(self.len) - 1

\* The elements of yielded.
Yielded == {yielded[i] : i \in DOMAIN yielded}

\* A loop over a bitset that is changed meanwhile is still a loop: positions
\* only increase (so it ends, after at most as many rounds as there are bits),
\* a bit that is one from begin() on is met, wherever the iterator stands on
\* its way past it, and no bit is met that was never one.  For a bitset left
\* alone that is: each of its bits, once, in order (dense_bitset.hpp:667-712,
\* 748-767; the loop of sync.cpp:139).
IterationSound ==
    pos # NoIterator =>
        /\ \A i, j \in DOMAIN yielded : i < j => yielded[i] < yielded[j]
        /\ \A b \in stable : b <= pos \/ pos = NoBit => b \in Yielded
        /\ Yielded \subseteq seen

\* Bits behind the length are those a caller asked for: they get in through
\* initialize_from_mem, which does not clear them as fill does, or through
\* set_bit, which does not look at the length (dense_bitset.hpp:549-551,
\* 568-571, 590-597), and no copy and no operation brings in one of its own.
OnlyForeignTrailing == Trailing(self) \cup Trailing(other) \subseteq foreign
=============================================================================
