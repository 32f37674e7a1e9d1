--------------------------- MODULE MCBigIntegers ---------------------------
(***************************************************************************)
(* What the operations of BigIntegers mean, and the widths for TLC.        *)
(***************************************************************************)
EXTENDS BigIntegers

FloorDiv(a, b) == IF b > 0 THEN a \div b ELSE (-a) \div (-b)
Divides(d, a) == IF d = 0 THEN a = 0 ELSE FloorDiv(a, d) * d = a
Gcd(a, b) ==
    IF a = 0 /\ b = 0 THEN 0
    ELSE LET common == {d \in 1..(Abs(a) + Abs(b)) : Divides(d, a) /\ Divides(d, b)}
         IN  CHOOSE d \in common : \A e \in common : e <= d

Meaning(a, b, op) ==
    CASE op = "add" -> a + b
      [] op = "sub" -> a - b
      [] op = "mul" -> a * b
      [] op = "gcd" -> Gcd(a, b)
      [] op = "div" -> FloorDiv(a, b)
      [] op = "mod" -> a - b * FloorDiv(a, b)
      [] op = "quot" -> CQuot(a, b)
      [] op = "rem" -> a - b * CQuot(a, b)

\* Every operation gives the exact result, whatever mix of machine integers
\* and limbs its arguments are: no carry, borrow or sign goes wrong.
\* Comparison is that of the values, and the conversion to Int keeps the low
\* bits in two's complement.
Exact ==
    /\ \A op \in Operations :
          (op \in Divisions => Value(y) # 0) =>
          Value(integer_op(x, y, op)) = Meaning(Value(x), Value(y), op)
    /\ Value(p_integer_negate(x)) = -Value(x)
    /\ integer_cmp(x, y) = IF Value(x) < Value(y) THEN -1 ELSE IF Value(x) > Value(y) THEN 1 ELSE 0
    /\ LET i == Value(p_integer_to_int(x))
       IN  i \in Longs /\ i % ULongs = Value(x) % ULongs

\* eval.c: "An Integer is an INT when it fits in a long, and a BIG when it does
\* not": a value has one representation after any sequence of operations.
Canonical ==
    IF Value(x) \in Longs THEN x.kind = "INT"
    ELSE x.kind = "BIG" /\ x.d[Len(x.d)] # 0 /\ \A i \in DOMAIN x.d : x.d[i] \in 0..(Base - 1)
=============================================================================
