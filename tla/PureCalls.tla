----------------------------- MODULE PureCalls -----------------------------
(***************************************************************************)
(* Functions that keep no state between calls.  A behaviour makes one call *)
(* and ends: what a property says of a call and its result is checked for  *)
(* every call there is.                                                    *)
(***************************************************************************)
EXTENDS Integers, Sequences

VARIABLE call \* the function that was called, its arguments and its result

NoCall == [fn |-> "none"]

CallInit == call = NoCall

\* Adding up a sequence of integers, from its first: the sums of its beginnings, and of the whole.
Sums(v) ==
  LET sum[k \in 0..Len(v)] == IF k = 0 THEN 0 ELSE sum[k - 1] + v[k]
  IN  sum

Sum(v) == Sums(v)[Len(v)]

\* The whole numbers nearest to n / d.  A product with a fraction is computed in
\* floating point: of two that are equally near it may come out as either.
Rounded(n, d) == {r \in (n \div d)..(n \div d + 1) : 2 * (n - r * d) \in -d..d}
=============================================================================
