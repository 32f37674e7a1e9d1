---------------------------- MODULE BigIntegers ----------------------------
(***************************************************************************)
(* The arithmetic of Integer (src/eval.c, "Integer"): values that fit in a *)
(* long are machine integers, the others a sign and limbs of LIMB_BITS     *)
(* bits, the least significant first.  The widths are parameters, and what *)
(* C computes in an unsigned long is taken modulo ULongs.                  *)
(***************************************************************************)
EXTENDS Integers, Sequences
LOCAL INSTANCE SequencesExt

CONSTANTS LIMB_BITS, LONG_BITS, Bound

ASSUME WidthAssumption ==
    /\ LIMB_BITS \in Nat \ {0} /\ LONG_BITS \in Nat
    /\ LONG_BITS >= 2 * LIMB_BITS /\ LONG_BITS % LIMB_BITS = 0 /\ LONG_BITS % 2 = 0

VARIABLES x, y     \* two Integer objects in weak head normal form

vars == <<x, y>>

Base == 2 ^ LIMB_BITS
ULongs == 2 ^ LONG_BITS
LONG_LIMBS == LONG_BITS \div LIMB_BITS
LONG_MAX == 2 ^ (LONG_BITS - 1) - 1
LONG_MIN == -(2 ^ (LONG_BITS - 1))
Longs == LONG_MIN..LONG_MAX

-----------------------------------------------------------------------------
\* Magnitudes: sequences of limbs, and a Big with its sign.
Limb(d, i) == IF i \in DOMAIN d THEN d[i] ELSE 0
UpTo(n) == [i \in 1..n |-> i]
Downto(n) == [i \in 1..n |-> n + 1 - i]
Zeros(n) == [i \in 1..n |-> 0]
Longer(a, b) == IF Len(a) > Len(b) THEN Len(a) ELSE Len(b)

big_trim(b) ==
    LET n == CHOOSE n \in 0..Len(b.d) : /\ n = 0 \/ b.d[n] # 0
                                        /\ \A i \in (n + 1)..Len(b.d) : b.d[i] = 0
    IN  [neg |-> b.neg /\ n > 0, d |-> [i \in 1..n |-> b.d[i]]]

big_from_long(l) ==
    LET u == IF l < 0 THEN (0 - l) % ULongs ELSE l
    IN  big_trim([neg |-> l < 0,
                  d |-> [i \in 1..(LONG_LIMBS + 1) |-> (u \div Base ^ (i - 1)) % Base]])

mag_cmp(a, b) ==
    LET differ == {i \in 1..Longer(a, b) : Limb(a, i) # Limb(b, i)}
        top == CHOOSE i \in differ : \A j \in differ : j <= i
    IN  IF differ = {} THEN 0 ELSE IF Limb(a, top) < Limb(b, top) THEN -1 ELSE 1

mag_add(a, b) ==
    LET AddLimb(r, i) ==
            LET s == (r.carry + Limb(a, i) + Limb(b, i)) % ULongs
            IN  [d |-> Append(r.d, s % Base), carry |-> s \div Base]
        r == FoldLeft(AddLimb, [d |-> <<>>, carry |-> 0], UpTo(Longer(a, b)))
    IN  Append(r.d, r.carry)

mag_sub_late(a, b) ==
    LET SubLimb(r, i) ==
            LET s == Limb(b, i) + r.borrow
            IN  [d |-> Append(r.d, IF a[i] >= s THEN a[i] - s ELSE a[i] + Base - s),
                 borrow |-> IF a[i] >= Limb(b, i) THEN 0 ELSE 1]
    IN  FoldLeft(SubLimb, [d |-> <<>>, borrow |-> 0], UpTo(Len(a))).d
mag_sub_from(a, b) ==
    LET SubLimb(r, i) ==
            LET s == Limb(b, i) + r.borrow
            IN  [d |-> Append(r.d, IF a[i] >= s THEN a[i] - s ELSE a[i] + Base - s),
                 borrow |-> IF a[i] >= s THEN 0 ELSE 1]
    IN  FoldLeft(SubLimb, [d |-> <<>>, borrow |-> 0], UpTo(Len(a))).d

\* a + b, where b has the sign bneg.
big_add(a, b, bneg) ==
    big_trim(CASE a.neg = bneg -> [neg |-> a.neg, d |-> mag_add(a.d, b.d)]
               [] a.neg # bneg /\ mag_cmp(a.d, b.d) >= 0 ->
                    [neg |-> a.neg, d |-> mag_sub_from(a.d, b.d)]
               [] OTHER -> [neg |-> bneg, d |-> mag_sub_from(b.d, a.d)])

big_mul(a, b) ==
    LET MulLimb(r, i) ==
            LET Add(s, j) ==
                    LET t == (a.d[i] * b.d[j] + s.d[i + j - 1] + s.carry) % ULongs
                    IN  [d |-> [s.d EXCEPT ![i + j - 1] = t % Base], carry |-> t \div Base]
                s == FoldLeft(Add, [d |-> r, carry |-> 0], UpTo(Len(b.d)))
            IN  [s.d EXCEPT ![i + Len(b.d)] = s.carry]
    IN  big_trim([neg |-> a.neg # b.neg,
                  d |-> FoldLeft(MulLimb, Zeros(Len(a.d) + Len(b.d)), UpTo(Len(a.d)))])

\* |a| by |b|: limb by limb when b has one limb, otherwise bit by bit.
mag_divmod(a, b) ==
    LET Limbwise(s, i) ==
            LET rem == (s.rem * Base + a[i]) % ULongs
            IN  [q |-> [s.q EXCEPT ![i] = rem \div b[1]], rem |-> rem % b[1]]
        Bitwise(s, k) ==
            LET i == (k - 1) \div LIMB_BITS + 1
                bit == 2 ^ ((k - 1) % LIMB_BITS)
                ShiftLimb(u, j) ==
                    LET t == s.r[j] * 2 + u.carry
                    IN  [d |-> Append(u.d, t % Base), carry |-> t \div Base]
                r == FoldLeft(ShiftLimb, [d |-> <<>>, carry |-> (a[i] \div bit) % 2],
                              UpTo(Len(s.r))).d
            IN  IF mag_cmp(r, b) >= 0
                THEN [q |-> [s.q EXCEPT ![i] = @ + bit], r |-> mag_sub_from(r, b)]
                ELSE [q |-> s.q, r |-> r]
        one == FoldLeft(Limbwise, [q |-> Zeros(Len(a)), rem |-> 0], Downto(Len(a)))
        long == FoldLeft(Bitwise, [q |-> Zeros(Len(a)), r |-> Zeros(Len(b) + 1)],
                         Downto(Len(a) * LIMB_BITS))
        Big(d) == big_trim([neg |-> FALSE, d |-> d])
    IN  IF Len(b) = 1 THEN [q |-> Big(one.q), r |-> Big(<<one.rem>>)]
                      ELSE [q |-> Big(long.q), r |-> Big(long.r)]

\* The signs of the quotient and the remainder, b # 0.
big_divide(a, b, floored) ==
    LET m == mag_divmod(a.d, b.d)
        q == [m.q EXCEPT !.neg = m.q.d # <<>> /\ a.neg # b.neg]
        r == [m.r EXCEPT !.neg = m.r.d # <<>> /\ a.neg]
    IN  IF floored /\ r.d # <<>> /\ a.neg # b.neg
        THEN [q |-> big_add(q, big_from_long(1), TRUE), r |-> big_add(r, b, b.neg)]
        ELSE [q |-> q, r |-> r]

\* Euclid's algorithm; the second magnitude gets smaller at each step.
big_gcd(a, b) ==
    LET Euclid(s, k) == IF s[2].d = <<>> THEN s
                        ELSE <<s[2], mag_divmod(s[1].d, s[2].d).r>>
        steps == UpTo(LONG_BITS * (Len(b.d) + 1))
    IN  [FoldLeft(Euclid, <<a, b>>, steps)[1] EXCEPT !.neg = FALSE]

-----------------------------------------------------------------------------
\* Integer objects.
INT(i) == [kind |-> "INT", i |-> i]
BIG(b) == [kind |-> "BIG", neg |-> b.neg, d |-> b.d]

big_of(o) == IF o.kind = "INT" THEN big_from_long(o.i) ELSE [neg |-> o.neg, d |-> o.d]

\* A long when the value fits in one; an unsigned long holds the magnitude.
big_obj_even(b) ==
    LET t == big_trim(b)
        u == FoldRight(LAMBDA l, u : (u * Base + l) % ULongs, t.d, 0)
    IN  IF Len(t.d) <= LONG_LIMBS /\ u <= LONG_MAX THEN INT(IF t.neg THEN -u ELSE u) ELSE BIG(t)
big_obj(b) ==
    LET t == big_trim(b)
        u == FoldRight(LAMBDA l, u : (u * Base + l) % ULongs, t.d, 0)
    IN  CASE Len(t.d) <= LONG_LIMBS /\ ~t.neg /\ u <= LONG_MAX -> INT(u)
          [] Len(t.d) <= LONG_LIMBS /\ t.neg /\ u <= LONG_MAX + 1 -> INT(-u)
          [] OTHER -> BIG(t)

\* C's division of longs rounds toward zero.
Abs(i) == IF i < 0 THEN -i ELSE i
CQuot(i, j) == IF (i < 0) = (j < 0) THEN Abs(i) \div Abs(j) ELSE -(Abs(i) \div Abs(j))
CRem(i, j) == i - CQuot(i, j) * j
p_int_div(i, j) ==
    LET q == CQuot(i, j)
    IN  IF CRem(i, j) # 0 /\ (i < 0) # (j < 0) THEN q - 1 ELSE q
p_int_mod(i, j) ==
    LET r == CRem(i, j)
    IN  IF r # 0 /\ (r < 0) # (j < 0) THEN r + j ELSE r

Half == 2 ^ (LONG_BITS \div 2 - 1)
Operations == {"add", "sub", "mul", "quot", "rem", "div", "mod", "gcd"}
Divisions == {"quot", "rem", "div", "mod"}

\* The fast path of integer_op, when the result fits in a long.
FastAdd(i, j) == IF j >= 0 THEN i <= LONG_MAX - j ELSE i >= LONG_MIN - j
FastSub(i, j) == IF j >= 0 THEN i >= LONG_MIN + j ELSE i <= LONG_MAX + j
FastMul(i, j) == i \in -Half..Half /\ j \in -Half..Half
FastDivision(i, j) == ~(i = LONG_MIN /\ j = -1)
Fast(i, j, op) ==
    CASE op = "add" -> FastAdd(i, j)
      [] op = "sub" -> FastSub(i, j)
      [] op = "mul" -> FastMul(i, j)
      [] op = "gcd" -> FALSE
      [] OTHER -> FastDivision(i, j)
Long(i, j, op) ==
    CASE op = "add" -> i + j
      [] op = "sub" -> i - j
      [] op = "mul" -> i * j
      [] op = "quot" -> CQuot(i, j)
      [] op = "rem" -> CRem(i, j)
      [] op = "div" -> p_int_div(i, j)
      [] op = "mod" -> p_int_mod(i, j)

Slow(a, b, op) ==
    CASE op = "add" -> big_add(a, b, b.neg)
      [] op = "sub" -> big_add(a, b, b.d # <<>> /\ ~b.neg)
      [] op = "mul" -> big_mul(a, b)
      [] op = "gcd" -> big_gcd(a, b)
      [] op = "quot" -> big_divide(a, b, FALSE).q
      [] op = "rem" -> big_divide(a, b, FALSE).r
      [] op = "div" -> big_divide(a, b, TRUE).q
      [] op = "mod" -> big_divide(a, b, TRUE).r

integer_op(o, p, op) ==
    IF o.kind = "INT" /\ p.kind = "INT" /\ Fast(o.i, p.i, op)
    THEN INT(Long(o.i, p.i, op))
    ELSE big_obj(Slow(big_of(o), big_of(p), op))

integer_cmp(o, p) ==
    LET a == big_of(o)
        b == big_of(p)
    IN  IF o.kind = "INT" /\ p.kind = "INT"
        THEN IF o.i < p.i THEN -1 ELSE IF o.i > p.i THEN 1 ELSE 0
        ELSE IF a.neg # b.neg THEN (IF a.neg THEN -1 ELSE 1)
        ELSE IF a.neg THEN -mag_cmp(a.d, b.d) ELSE mag_cmp(a.d, b.d)

p_integer_negate(o) ==
    IF o.kind = "INT" /\ o.i # LONG_MIN THEN INT(-o.i)
    ELSE big_obj([big_of(o) EXCEPT !.neg = big_of(o).d # <<>> /\ ~big_of(o).neg])

make_bits(u) == INT(IF u <= LONG_MAX THEN u ELSE -(ULongs - 1 - u) - 1)
p_integer_to_int(o) ==
    LET n == IF Len(o.d) > LONG_LIMBS THEN LONG_LIMBS ELSE Len(o.d)
        u == FoldRight(LAMBDA l, v : (v * Base + l) % ULongs, [i \in 1..n |-> o.d[i]], 0)
    IN  IF o.kind = "INT" THEN o ELSE make_bits(IF o.neg THEN (0 - u) % ULongs ELSE u)

-----------------------------------------------------------------------------
\* What an Integer object stands for.
Value(o) ==
    IF o.kind = "INT" THEN o.i
    ELSE (IF o.neg THEN -1 ELSE 1) * FoldRight(LAMBDA l, v : v * Base + l, o.d, 0)
IsZero(o) == integer_cmp(o, INT(0)) = 0

\* A program computes with two Integers: each result replaces one of them.
Small(o) == Value(o) \in -Bound..Bound

Operate ==
    \E op \in Operations :
        /\ op \in Divisions => ~IsZero(y)
        /\ x' = integer_op(x, y, op)
        /\ y' \in {x, y}

Negate == x' = p_integer_negate(x) /\ y' = y
ToInt == x' = p_integer_to_int(x) /\ y' = y

Init == x \in {INT(i) : i \in Longs} /\ y \in {INT(i) : i \in Longs}

Next == (Operate \/ Negate \/ ToInt) /\ Small(x') /\ Small(y')

Spec == Init /\ [][Next]_vars
=============================================================================
