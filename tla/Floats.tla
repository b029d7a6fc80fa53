-------------------------------- MODULE Floats --------------------------------
(***************************************************************************)
(* The arithmetic of `float' on numbers that are not negative, as far as a *)
(* sum of small numbers can tell it from that of fractions.  A float is a  *)
(* fraction <<n, d>>: n is at most FloatLimit, 2^24 in the code, times a   *)
(* power of two, and d is a power of two.                                  *)
(***************************************************************************)
EXTENDS Integers, FiniteSetsExt

CONSTANTS FloatLimit,   \* the integers up to it are floats
          MaxScale      \* bound: the largest power of two

\* The powers of two: but for 1, no odd number divides them.
Scales == {k \in 1 .. MaxScale : \A m \in 2 .. k : k % m = 0 => m % 2 = 0}

ASSUME FloatAssumption ==
    /\ FloatLimit \in Nat \ {0, 1}
    /\ MaxScale \in Nat \ {0}
    /\ MaxScale \in Scales

\* The integer nearest to n / d, of two the even one.
RoundsDown(n, d) == \/ 2 * (n % d) < d
                    \/ 2 * (n % d) = d /\ (n \div d) % 2 = 0
Rounded(n, d) == IF RoundsDown(n, d) THEN n \div d ELSE n \div d + 1

\* The float nearest to n / d.  The larger the number, the coarser its unit:
\* a fraction below the limit, a multiple of 2 beyond it.
Unit(n, d)     == Min({s \in Scales : n < d * s * FloatLimit} \cup {MaxScale})
Fraction(n, d) == Max({k \in Scales : n * k < d * FloatLimit})
Nearest(n, d) == IF n < d * FloatLimit
                 THEN <<Rounded(n * Fraction(n, d), d), Fraction(n, d)>>
                 ELSE <<Rounded(n, d * Unit(n, d)) * Unit(n, d), 1>>
Float == [x \in Nat \X (Nat \ {0}) |-> Nearest(x[1], x[2])]

\* The operations of float, each rounded, and the conversion of an integer.
FloatSum(x, y)      == Float[<<x[1] * y[2] + y[1] * x[2], x[2] * y[2]>>]
FloatProduct(x, y)  == Float[<<x[1] * y[1], x[2] * y[2]>>]
FloatQuotient(x, y) == Float[<<x[1] * y[2], x[2] * y[1]>>]
Whole(n)            == Float[<<n, 1>>]

\* The conversion back to an integer drops the fraction.
Truncated(x) == x[1] \div x[2]

\* `acc += x' of an integer acc and a float x.
Increased(acc, x) == Truncated(FloatSum(Whole(acc), x))
=============================================================================
