------------------------- MODULE MCValueConversions -------------------------
(* A machine of 5 bits: doubles of 2 bits, ints of 2.  A unit is 1/4.       *)
EXTENDS ValueConversions

MCInfinity == 1000

\* The distance of neighbouring doubles at x.
Ulp(x) ==
  CASE x < 4 -> 1 [] x \in 4..7 -> 2 [] x \in 8..15 -> 4 [] x \in 16..31 -> 8
    [] x \in 32..63 -> 16 [] x > 63 -> 32

\* Rounding to nearest, ties to even.
Rounded(x) ==
  LET u == Ulp(x)
      q == x \div u
      r == 2 * (x % u)
  IN  IF r > u \/ (r = u /\ q % 2 = 1) THEN (q + 1) * u ELSE q * u

MCNearest == [x \in -128..128 |-> IF x < 0 THEN -Rounded(-x) ELSE Rounded(x)]

Finite    == {MCNearest[x] : x \in -128..128} \cup {192, 256, -192, -256}
MCDoubles == Finite \cup {MCInfinity, -MCInfinity, NaN}

MCTexts ==
  {4 * n : n \in -32..32} \cup Finite \cup {MCInfinity, -MCInfinity, NaN, NoNumber}
=============================================================================
