------------------------------ MODULE Rationals ------------------------------
(***************************************************************************)
(* Exact fractions <<numerator, denominator>>, in lowest terms with a      *)
(* positive denominator, for the scores that the program keeps as floats.  *)
(***************************************************************************)
EXTENDS Integers, Sequences, FiniteSetsExt, Functions

\* Euclid's algorithm: the second number only gets smaller.
Gcd(a, b) ==
  LET euclid[p \in Nat \X (0 .. b)] ==
        IF p[2] = 0 THEN p[1] ELSE euclid[<<p[2], p[1] % p[2]>>]
  IN  euclid[<<a, b>>]

Ratio(n, d) ==
  LET g == Gcd(IF n < 0 THEN -n ELSE n, d)
  IN  <<n \div g, d \div g>>

Zero == <<0, 1>>
One == <<1, 1>>
Half == <<1, 2>>
Hundredths(n) == Ratio(n, 100)

Plus(a, b) == Ratio(a[1] * b[2] + b[1] * a[2], a[2] * b[2])
Minus(a, b) == Ratio(a[1] * b[2] - b[1] * a[2], a[2] * b[2])
Times(a, b) == Ratio(a[1] * b[1], a[2] * b[2])
Over(a, b) == Ratio(a[1] * b[2], a[2] * b[1])
AtMost(a, b) == a[1] * b[2] <= b[1] * a[2]
Less(a, b) == a[1] * b[2] < b[1] * a[2]
Distance(a, b) == IF AtMost(a, b) THEN Minus(b, a) ELSE Minus(a, b)
LeastOf(a, b) == IF AtMost(a, b) THEN a ELSE b

\* The sum of f[x], a fraction, over a finite set.
SumOf(f, S) == FoldFunctionOnSet(Plus, Zero, f, S)

\* The plain mean of f[x] over a set that is not empty, and the mean weighted by w[x].
MeanOf(f, S) == Over(SumOf(f, S), <<Cardinality(S), 1>>)
WeightedMeanOf(f, w, S) == Over(SumOf([x \in S |-> Times(f[x], w[x])], S), SumOf(w, S))
=============================================================================
