--------------------------- MODULE ExactRationals ---------------------------
(* Exact fractions <<n, d>> in lowest terms with d > 0.  The code computes *)
(* these values with 50 significant decimal digits; the model keeps them   *)
(* exact, so a property here says nothing about the fiftieth digit.        *)
EXTENDS Integers, Sequences

Gcd[a \in Nat, b \in Nat] == IF b = 0 THEN a ELSE Gcd[b, a % b]
Abs(n) == IF n < 0 THEN -n ELSE n

\* The fraction n / d in lowest terms.
Lowest[n \in Int, d \in Int] ==
  LET g == Gcd[Abs(n), Abs(d)]
      s == IF d < 0 THEN -1 ELSE 1
  IN  IF n = 0 THEN <<0, 1>> ELSE <<s * (n \div g), s * (d \div g)>>
Frac(n, d) == Lowest[n, d]

Whole(n) == <<n, 1>>
Zero == Whole(0)
One == Whole(1)

Added[x \in Int \X Int, y \in Int \X Int] ==
  LET g == Gcd[x[2], y[2]]
  IN  Frac(x[1] * (y[2] \div g) + y[1] * (x[2] \div g), x[2] * (y[2] \div g))
Plus(x, y) == Added[x, y]
Minus(x, y) == Plus(x, <<-y[1], y[2]>>)

\* Reduced across before multiplying, to stay within TLC's integers.
Multiplied[x \in Int \X Int, y \in Int \X Int] ==
  LET a == Frac(x[1], y[2])
      b == Frac(y[1], x[2])
  IN  IF x[1] = 0 \/ y[1] = 0 THEN Zero ELSE <<a[1] * b[1], a[2] * b[2]>>
Times(x, y) == Multiplied[x, y]
Over(x, y) == Times(x, Frac(y[2], y[1]))

Less(x, y) == Minus(x, y)[1] < 0
AtMost(x, y) == ~Less(y, x)

\* The sum of the fractions s[1], ..., s[Len(s)].
Summed[s \in Seq(Int \X Int)] ==
  IF s = <<>> THEN Zero ELSE Plus(Head(s), Summed[Tail(s)])
Total(s) == Summed[s \o <<>>]
Dot(x, y) == Total([i \in 1 .. Len(x) |-> Times(x[i], y[i])])
=============================================================================
