------------------------------- MODULE Rounding -------------------------------
(* Integer arithmetic as Go and its math package round it.                 *)
EXTENDS Integers

Smaller(a, b) == IF a <= b THEN a ELSE b

Larger(a, b) == IF a >= b THEN a ELSE b

\* math.Floor and math.Ceil of a quotient; (a + b - 1) / b where the code
\* divides positive integers.
FloorDiv(a, b) == a \div b

CeilDiv(a, b) == -((-a) \div b)

\* Go's integer division.
TruncDiv(a, b) == IF a >= 0 THEN a \div b ELSE -((-a) \div b)

=============================================================================
