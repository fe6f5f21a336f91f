------------------------------ MODULE Fractions ------------------------------
(***************************************************************************)
(* Numbers, int and float alike, as exact fractions <<n, d>> in lowest     *)
(* terms: what the backends are compared by is the value.  Undef, of no    *)
(* value, comes out of a division by zero and out of every operation on    *)
(* it; rounding and the special floats are left out.                       *)
(***************************************************************************)
EXTENDS Integers, Bitwise

Undef == <<0, 0>>
Trap  == <<1, 0>>   \* machine code was stopped by the processor
Whole(n) == <<n, 1>>
Bit(b) == Whole(IF b THEN 1 ELSE 0)
Zero == Whole(0)

Magnitude(n) == IF n < 0 THEN -n ELSE n
RECURSIVE Gcd(_, _)
Gcd(m, n) == IF n = 0 THEN m ELSE Gcd(n, m % n)

Lowest(n, d, g) == IF d < 0 THEN <<-n \div g, -d \div g>> ELSE <<n \div g, d \div g>>
Fraction(n, d) ==
  IF d = 0 THEN Undef ELSE Lowest(n, d, Gcd(Magnitude(n), Magnitude(d)))

Defined(a)  == a[2] # 0
IsWhole(a)  == a[2] = 1
Negated(a)  == <<-a[1], a[2]>>
Plus(a, b)  == Fraction(a[1] * b[2] + b[1] * a[2], a[2] * b[2])
Times(a, b) == Fraction(a[1] * b[1], a[2] * b[2])
Over(a, b)  == IF Defined(b) THEN Fraction(a[1] * b[2], a[2] * b[1]) ELSE Undef
Floor(a)    == IF Defined(a) THEN Whole(a[1] \div a[2]) ELSE Undef
Ceiling(a)  == Negated(Floor(Negated(a)))
Truncated(a) == IF a[1] >= 0 THEN Floor(a) ELSE Ceiling(a)

\* Whole powers only; the others are of no value here.
Power(a, b) ==
  CASE Defined(a) /\ b = Zero -> Whole(1)
    [] Defined(a) /\ IsWhole(b) /\ b[1] > 0 -> <<a[1] ^ b[1], a[2] ^ b[1]>>
    [] OTHER -> Undef

\* & | ^ of whole numbers of w bits, in two's complement.
BitOp(op, a, b, w) ==
  LET bits(n) == n[1] % 2 ^ w
      both == bits(a) & bits(b)
      r == CASE op = "bitand" -> both
             [] op = "bitor"  -> bits(a) + bits(b) - both
             [] op = "bitxor" -> bits(a) + bits(b) - 2 * both
  IN  IF ~(IsWhole(a) /\ IsWhole(b)) THEN Undef
      ELSE Whole(IF r < 2 ^ (w - 1) THEN r ELSE r - 2 ^ w)

Compared(op, a, b) ==
  LET m == a[1] * b[2]
      n == b[1] * a[2]
  IN  CASE op = "lt" -> m < n [] op = "le" -> m <= n [] op = "gt" -> m > n
        [] op = "ge" -> m >= n [] op = "eq" -> m = n [] op = "ne" -> m # n

\* The functions of math that stay within the fractions; the others are of no
\* value here.
MathValue(f, a) ==
  CASE f = "floor" -> Floor(a)
    [] f = "ceil" -> Ceiling(a)
    [] f \in {"abs", "fabs"} -> IF a[1] < 0 THEN Negated(a) ELSE a
    [] OTHER -> Undef
=============================================================================
