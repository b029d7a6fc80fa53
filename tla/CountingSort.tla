---------------------------- MODULE CountingSort ----------------------------
(***************************************************************************)
(* counting_sort (util/counting_sort.hpp): given a vector of values not    *)
(* above max_val, the permutation that sorts it and the prefix sums of the *)
(* number of times each value occurs.  The vectors of the code are indexed *)
(* from 0; here a vector of n elements is a function on 0 .. n - 1, or a   *)
(* sequence whose element i + 1 is element i of the vector.                *)
(***************************************************************************)
EXTENDS Naturals, Sequences, SequencesExt

\* Element i of a vector.
At(vec, i) == vec[i + 1]

\* for (i = 0; i < size; i++) counter[value_vec[i]]++
Counted(vals, max_val) ==
    FoldLeft(LAMBDA counter, val : [counter EXCEPT ![val] = @ + 1],
             [val \in 0 .. max_val |-> 0], vals)

\* for (i = 1; i < counter.size(); i++) counter[i] += counter[i - 1]
Summed(counter, max_val) ==
    LET sum[val \in 0 .. max_val] ==
            IF val = 0 THEN counter[0] ELSE counter[val] + sum[val - 1]
    IN sum

\* The order in which the last loop takes the elements.  (Wrong: forwards.)
Forwards(n)  == [i \in 1 .. n |-> i - 1]
Backwards(n) == [i \in 1 .. n |-> n - i]

\* pos = --counter[value_vec[i]]; permute_index[pos] = i
Place(vals, state, i) ==
    LET pos == state.counter[At(vals, i)] - 1
    IN [counter |-> [state.counter EXCEPT ![At(vals, i)] = pos],
        permute |-> [state.permute EXCEPT ![pos] = i]]

\* The result; both vectors are left as they are, empty, for an empty input.
Sorted(vals, max_val) ==
    IF vals = <<>> THEN [permute |-> <<>>, prefix |-> <<>>]
    ELSE LET n       == Len(vals)
             sums    == Summed(Counted(vals, max_val), max_val)
             start   == [counter |-> sums, permute |-> [pos \in 0 .. n - 1 |-> 0]]
             permute == FoldLeft(LAMBDA state, i : Place(vals, state, i),
                                 start, Backwards(n)).permute
         IN [permute |-> [k \in 1 .. n |-> permute[k - 1]],
             prefix  |-> [k \in 1 .. max_val + 2 |->
                             IF k = 1 THEN 0 ELSE sums[k - 2]]]

-----------------------------------------------------------------------------
\* What the function is for.  The permutation is stable, and the elements of
\* value val are those at the positions prefix[val] .. prefix[val + 1] - 1.

Before(vals, i, j) == \/ At(vals, i) < At(vals, j)
                      \/ At(vals, i) = At(vals, j) /\ i < j

IsStableSort(vals, permute) ==
    /\ Len(permute) = Len(vals)
    /\ {At(permute, k) : k \in 0 .. Len(permute) - 1} = 0 .. Len(vals) - 1
    /\ \A k \in 1 .. Len(permute) - 1 :
          Before(vals, At(permute, k - 1), At(permute, k))

HasPrefixSums(vals, max_val, permute, prefix) ==
    vals # <<>> =>
        /\ Len(prefix) = max_val + 2
        /\ \A val \in 0 .. max_val :
              {At(permute, k) : k \in At(prefix, val) .. At(prefix, val + 1) - 1}
                 = {i \in 0 .. Len(vals) - 1 : At(vals, i) = val}
=============================================================================
