-------------------------------- MODULE Field --------------------------------
(***************************************************************************)
(* Arithmetic modulo 2^255 - 19 and modulo the order of the base point     *)
(* (fe.c and sc.c of sm/src/ed25519, the same code in bootrom and sdk), in *)
(* its real size.  An element has ten limbs of 26 and 25 bits in turn,     *)
(* signed, not unique; limb i of the code is h[i + 1].                     *)
(*                                                                         *)
(* An int32_t is an integer of TLC, which has the same width; an int64_t   *)
(* is a pair, as below.  TLC stops where one overflows.                    *)
(***************************************************************************)
EXTENDS Integers, Sequences

(***************************************************************************)
(* The int64_t of the code: <<hi, lo>> stands for hi * 2^31 + lo, lo in    *)
(* 0 .. 2^31 - 1.  TLC, whose integers have 32 bits, stops if hi           *)
(* overflows, that is for sizes beyond 2^62.                               *)
(***************************************************************************)
K15 == 32768
K16 == 65536
K30 == 1073741824

\* hi * 2^31 + mid * 2^15 + low
Wide(hi, mid, low) ==
    LET m == mid + (low \div K15)
    IN  <<hi + (m \div K16), ((m % K16) * K15) + (low % K15)>>
OfInt(x) == IF x >= 0 THEN <<0, x>> ELSE <<-1, (x + K30) + K30>>
\* The cast to int32_t.
ToInt(x) == IF x[1] % 2 = 0 THEN x[2] ELSE (x[2] - K30) - K30
Sum(x, y) == Wide(x[1] + y[1], (x[2] \div K15) + (y[2] \div K15), (x[2] % K15) + (y[2] % K15))
\* The product of two int32_t, of which x has at most 28 bits.
Times(x, y) ==
    LET high == (x \div K15) * (y \div K15) IN
    Sum(Wide(high \div 2, (high % 2) * K15, (x % K15) * (y % K15)),
        Sum(Wide(0, (x \div K15) * (y % K15), 0), Wide(0, (x % K15) * (y \div K15), 0)))
Scaled(c, x) == Wide(c * x[1], c * (x[2] \div K15), c * (x[2] % K15))
ShiftRight(x, w) == <<x[1] \div 2^w, ((x[1] % 2^w) * 2^(31 - w)) + (x[2] \div 2^w)>>

\* The element of a set of one.
Only(set) == CHOOSE x \in set : TRUE

(***************************************************************************)
(* Limbs.                                                                  *)
(***************************************************************************)
Width(i) == IF i % 2 = 0 THEN 26 ELSE 25
Start(i) == (51 * i + 1) \div 2

Limbs(f(_)) == <<f(0), f(1), f(2), f(3), f(4), f(5), f(6), f(7), f(8), f(9)>>
Plus(f(_)) == f(0) + f(1) + f(2) + f(3) + f(4) + f(5) + f(6) + f(7) + f(8) + f(9)

Total(f(_)) ==
    LET x == Limbs(f) IN
    Wide(Plus(LAMBDA i : x[i + 1][1]),
         Plus(LAMBDA i : x[i + 1][2] \div K15), Plus(LAMBDA i : x[i + 1][2] % K15))

(***************************************************************************)
(* Carries: what limb i has beyond its width, rounded, moves to the next   *)
(* limb, from the last one as 19 times as much to the first.               *)
(***************************************************************************)

Carry(h, i) ==
    LET half == 2^(Width(i) - 1)
        up == Sum(h[i + 1], <<0, half>>)
        c == ShiftRight(up, Width(i))
    IN  Limbs(LAMBDA j : IF j = i THEN OfInt((up[2] % 2^Width(i)) - half)
                         ELSE IF j = (i + 1) % 10
                         THEN Sum(h[j + 1], IF i = 9 THEN Scaled(19, c) ELSE c)
                         ELSE h[j + 1])

RECURSIVE Carried(_, _)
Carried(h, order) ==
    LET n == Len(order) IN
    IF n = 1 THEN Carry(h, order[1])
    ELSE Only({Carried(g, SubSeq(order, (n \div 2) + 1, n)) :
               g \in {Carried(h, SubSeq(order, 1, n \div 2))}})

\* The carries in an order, and the casts to int32_t at their end.
Casted(h, order) ==
    Only({Limbs(LAMBDA i : ToInt(c[i + 1])) : c \in {Carried(g, order) : g \in {h}}})

\* The carries of fe_mul, fe_sq and fe_sq2.
Tight(h) == Casted(h, <<0, 4, 1, 5, 2, 6, 3, 7, 4, 8, 9, 0>>)
\* Those of fe_frombytes and fe_mul121666.
Loose(h) == Casted(h, <<9, 1, 3, 5, 7, 0, 2, 4, 6, 8>>)

(***************************************************************************)
(* Operations.                                                             *)
(***************************************************************************)
fe_0 == Limbs(LAMBDA i : 0)
fe_1 == Limbs(LAMBDA i : IF i = 0 THEN 1 ELSE 0)
fe_add(f, g) == Limbs(LAMBDA i : f[i + 1] + g[i + 1])
fe_sub(f, g) == Limbs(LAMBDA i : f[i + 1] - g[i + 1])
fe_neg(f) == Limbs(LAMBDA i : -f[i + 1])
fe_copy(f) == f
fe_cmov(f, g, b) == IF b = 1 THEN g ELSE f
fe_cswap(f, g, b) == IF b = 1 THEN <<g, f>> ELSE <<f, g>>

Odd(i) == i % 2 = 1

\* Limb k of a product: f_i g_j belongs to it if i + j = k modulo 10, twice if both
\* limbs are odd, 19 times if i + j = k + 10.
MulLimb(f, g, k) ==
    Total(LAMBDA i :
        LET j == (k - i) % 10 IN
        Times(IF Odd(i) /\ Odd(j) THEN 2 * f[i + 1] ELSE f[i + 1],
              IF i + j >= 10 THEN 19 * g[j + 1] ELSE g[j + 1]))
fe_mul(f, g) == Tight(Limbs(LAMBDA k : MulLimb(f, g, k)))

\* Limb k of a square: every product of two limbs once, with its factor of 1, 2, 4,
\* 19, 38 or 76 divided between them as f0_2 .. f7_2, f5_38 .. f9_38.
SqLimb(f, k) ==
    Total(LAMBDA i :
        LET j == (k - i) % 10
            left == IF i + j >= 10 THEN i < j /\ (~Odd(j) \/ Odd(i)) ELSE i < j \/ Odd(i)
            right == IF i + j >= 10 THEN IF Odd(j) THEN 38 ELSE 19
                     ELSE IF i < j /\ Odd(i) /\ Odd(j) THEN 2 ELSE 1
        IN  IF i > j THEN <<0, 0>>
            ELSE Times(IF left THEN 2 * f[i + 1] ELSE f[i + 1], right * f[j + 1]))
fe_sq(f) == Tight(Limbs(LAMBDA k : SqLimb(f, k)))
fe_sq2(f) == Tight(Limbs(LAMBDA k : Sum(SqLimb(f, k), SqLimb(f, k))))

fe_mul121666(f) == Loose(Limbs(LAMBDA i : Times(f[i + 1], 121666)))

(***************************************************************************)
(* Encoding in 32 bytes, the lowest first.                                 *)
(***************************************************************************)
load_3(s, k) == Wide(0, 2 * s[k + 3], s[k + 1] + 256 * s[k + 2])
load_4(s, k) == Wide(0, 2 * s[k + 3] + 512 * s[k + 4], s[k + 1] + 256 * s[k + 2])

\* The highest bit of the string is ignored.
fe_frombytes(s) ==
    Loose(<<load_4(s, 0), Scaled(64, load_3(s, 4)), Scaled(32, load_3(s, 7)),
            Scaled(8, load_3(s, 10)), Scaled(4, load_3(s, 13)), load_4(s, 16),
            Scaled(128, load_3(s, 20)), Scaled(32, load_3(s, 23)), Scaled(16, load_3(s, 26)),
            OfInt(4 * (ToInt(load_3(s, 29)) % 8388608))>>)

\* q: how often 2^255 - 19 is contained in h.
RECURSIVE Quotient(_, _, _)
Quotient(h, i, q) ==
    IF i = 10 THEN q ELSE Quotient(h, i + 1, (h[i + 1] + q) \div 2^Width(i))

Multiples(h) == Quotient(h, 0, (19 * h[10] + 2^24) \div 2^25)

\* The limbs from i on after the carry c into limb i, each within its width.
RECURSIVE Within(_, _, _)
Within(h, i, c) ==
    IF i = 10 THEN <<>>
    ELSE LET x == h[i + 1] + c IN <<x % 2^Width(i)>> \o Within(h, i + 1, x \div 2^Width(i))

\* Byte k of the string: bits of one limb or of two.
StoredByte(d, k) ==
    LET l == (16 * k) \div 51
        next == Start(l + 1) - (8 * k)
    IN  ((d[l + 1] \div 2^((8 * k) - Start(l)))
           + (IF l < 9 /\ next < 8 THEN (d[l + 2] % 256) * 2^next ELSE 0)) % 256

fe_tobytes(h) ==
    LET d == Within([h EXCEPT ![1] = @ + 19 * Multiples(h)], 0, 0)
    IN  <<>> \o [k \in 1 .. 32 |-> StoredByte(d, k - 1)]

fe_isnegative(f) == fe_tobytes(f)[1] % 2
fe_isnonzero(f) == \E k \in 1 .. 32 : fe_tobytes(f)[k] # 0

(***************************************************************************)
(* What these compute: numbers modulo 2^255 - 19, as 51 digits to the base *)
(* 32, of which a representation may first have any integers.              *)
(***************************************************************************)
N == 51
\* The digits lo .. hi after the carry c into digit lo, each below 32, and the carry behind them.
RECURSIVE Spread(_, _, _, _)
Spread(d, lo, hi, c) ==
    LET mid == (lo + hi) \div 2
        n == mid - lo + 1
    IN  IF lo = hi THEN <<(d[lo] + c) % 32, (d[lo] + c) \div 32>>
        ELSE Only({SubSeq(low, 1, n) \o Spread(d, mid + 1, hi, low[n + 1]) : low \in {Spread(d, lo, mid, c)}})

\* 2^255 - 19 has the digits 13, 31, ..., 31.
AtLeastP(d) == d[1] >= 13 /\ \A k \in 2 .. N : d[k] = 31

RECURSIVE Number(_)
Number(d) ==
    LET s == Spread(d, 1, N, 0)
        low == SubSeq(s, 1, N)
    IN  IF s[N + 1] # 0 THEN Number([low EXCEPT ![1] = @ + 19 * s[N + 1]])
        ELSE IF AtLeastP(low) THEN <<low[1] - 13>> \o [k \in 1 .. N - 1 |-> 0]
        ELSE low

\* Limb i, at bit Start(i), is part of digit Start(i) \div 5.
OfLimbs(h) ==
    Number(<<>> \o [k \in 1 .. N |->
        LET i == ((10 * k) - 2) \div 51 IN
        IF Start(i) \div 5 = k - 1 THEN h[i + 1] * 2^(Start(i) % 5) ELSE 0])

\* The number a string of bytes stands for, its highest bit left out.
BitOf(s, n) == (s[(n \div 8) + 1] \div 2^(n % 8)) % 2
OfBytes(s) ==
    Number(<<>> \o [k \in 1 .. N |->
        LET n == 5 * (k - 1) IN
        BitOf(s, n) + 2 * BitOf(s, n + 1) + 4 * BitOf(s, n + 2) + 8 * BitOf(s, n + 3)
          + 16 * BitOf(s, n + 4)])

\* Products of digits i and k + 1 - i, and 19 times those of i and k + 1 + N - i.
RECURSIVE Convolve(_, _, _, _, _)
Convolve(a, b, k, lo, hi) ==
    IF lo < hi
    THEN LET mid == (lo + hi) \div 2
         IN  Convolve(a, b, k, lo, mid) + Convolve(a, b, k, mid + 1, hi)
    ELSE IF lo <= k THEN a[lo] * b[k + 1 - lo] ELSE 19 * a[lo] * b[k + 1 + N - lo]
Product(a, b) == Number(<<>> \o [k \in 1 .. N |-> Convolve(a, b, k, 1, N)])
Linear(x, a, y, b) == Number(<<>> \o [k \in 1 .. N |-> x * a[k] + y * b[k]])

(***************************************************************************)
(* Elements and scalars in use: two elements on which the operations of    *)
(* fe.c are applied one after the other, as ge.c does, within the bounds   *)
(* that the comments on fe_mul, fe_sq, fe_mul121666 and fe_tobytes         *)
(* require, and scalars on which those of sc.c are.  A bound is b if limb  *)
(* i is at most b / 100 * 2^(Width(i) - 1): 330 is 1.65 * 2^26,            *)
(* 1.65 * 2^25, ...                                                        *)
(***************************************************************************)
CONSTANT MaxOps         \* operations applied one after the other (a bound)

VARIABLES
    acc,        \* the element operations change: limbs h, the number v they stand for, bound b
    other,      \* the other operand
    ops         \* operations so far

fieldVars == <<acc, other, ops>>

Bound(b, i) == ((b * 2^(Width(i) - 6)) \div 100) * 32
Element(h, b) == [h |-> h, v |-> OfLimbs(h), b |-> b]

\* Elements at their bounds, 2^255 - 19 itself, zero, one and one in between.
Samples ==
    {Element(Limbs(LAMBDA i : Bound(330, i)), 330),
     Element(Limbs(LAMBDA i : IF i % 3 = 0 THEN -Bound(330, i) ELSE Bound(330, i)), 330),
     Element(Limbs(LAMBDA i : -Bound(101, i)), 101),
     Element(Limbs(LAMBDA i : IF i = 0 THEN 2^26 - 19 ELSE 2^Width(i) - 1), 200),
     Element(fe_0, 0), Element(fe_1, 1),
     Element(Limbs(LAMBDA i : ((i * 9795703) + 12345) % 2^(Width(i) - 1)), 100)}

\* Strings: all ones, 2^255 - 19, one less, one more, and one in between.
Strings ==
    LET NearP(x) == <<x>> \o [k \in 1 .. 30 |-> 255] \o <<127>> IN
    {NearP(236), NearP(237), NearP(238), NearP(255), [k \in 1 .. 32 |-> 255],
     [k \in 1 .. 32 |-> (k * 37) % 256]}

FieldIdle == acc = <<>> /\ other = <<>> /\ ops = 0
FieldStart == acc \in Samples /\ other \in Samples /\ ops = 0

Becomes(h, v, b) ==
    /\ acc' = [h |-> h, v |-> v, b |-> b]
    /\ UNCHANGED other

FeAdd ==
    /\ acc.b + other.b <= 330
    /\ Becomes(fe_add(acc.h, other.h), Linear(1, acc.v, 1, other.v), acc.b + other.b)
FeSub ==
    /\ acc.b + other.b <= 330
    /\ Becomes(fe_sub(acc.h, other.h), Linear(1, acc.v, -1, other.v), acc.b + other.b)
FeNeg == Becomes(fe_neg(acc.h), Linear(-1, acc.v, 0, acc.v), acc.b)
FeMul == Becomes(fe_mul(acc.h, other.h), Product(acc.v, other.v), 101)
FeSq == Becomes(fe_sq(acc.h), Product(acc.v, acc.v), 101)
FeSq2 ==
    LET square == Product(acc.v, acc.v)
    IN  Becomes(fe_sq2(acc.h), Linear(1, square, 1, square), 101)
FeMul121666 ==
    /\ acc.b <= 220
    /\ Becomes(fe_mul121666(acc.h), Linear(121666, acc.v, 0, acc.v), 110)
FeCmov(b) ==
    /\ acc' = [h |-> fe_cmov(acc.h, other.h, b), v |-> IF b = 1 THEN other.v ELSE acc.v,
               b |-> IF b = 1 THEN other.b ELSE acc.b]
    /\ UNCHANGED other
FeCswap(b) ==
    LET h == fe_cswap(acc.h, other.h, b) IN
    /\ acc' = [IF b = 1 THEN other ELSE acc EXCEPT !.h = h[1]]
    /\ other' = [IF b = 1 THEN acc ELSE other EXCEPT !.h = h[2]]
FeCopy == other' = [acc EXCEPT !.h = fe_copy(@)] /\ UNCHANGED acc
FeFromBytes(s) == Becomes(fe_frombytes(s), OfBytes(s), 110)
FeReload == acc.b <= 220 /\ Becomes(fe_frombytes(fe_tobytes(acc.h)), acc.v, 110)

FieldNext ==
    /\ acc # <<>> /\ ops < MaxOps
    /\ ops' = ops + 1
    /\ \/ FeAdd \/ FeSub \/ FeNeg \/ FeMul \/ FeSq \/ FeSq2 \/ FeMul121666 \/ FeCopy \/ FeReload
       \/ \E b \in 0 .. 1 : FeCmov(b) \/ FeCswap(b)
       \/ \E s \in Strings : FeFromBytes(s)

(***************************************************************************)
(* The two long powers of fe.c, fe_invert and fe_pow22523: fixed chains of *)
(* squarings and multiplications over registers, in their real length.     *)
(* Next to its value, a register has the power of z it should hold.        *)
(***************************************************************************)
VARIABLES
    chain,      \* the chain that runs: "invert", "pow22523" or "none"
    at,         \* its step, and the squarings done in it
    reg         \* the registers: value h and exponent e, in 18 digits to the base 2^15

powerVars == <<chain, at, reg>>

\* n squarings, the first from a into t; a multiplication of a and b into t.
Square(t, a, n) == [t |-> t, a |-> a, b |-> a, n |-> n]
Multiply(t, a, b) == [t |-> t, a |-> a, b |-> b, n |-> 0]

fe_invert ==
    <<Square("t0", "z", 1), Square("t1", "t0", 2), Multiply("t1", "z", "t1"),
      Multiply("t0", "t0", "t1"), Square("t2", "t0", 1), Multiply("t1", "t1", "t2"),
      Square("t2", "t1", 5), Multiply("t1", "t2", "t1"), Square("t2", "t1", 10),
      Multiply("t2", "t2", "t1"), Square("t3", "t2", 20), Multiply("t2", "t3", "t2"),
      Square("t2", "t2", 10), Multiply("t1", "t2", "t1"), Square("t2", "t1", 50),
      Multiply("t2", "t2", "t1"), Square("t3", "t2", 100), Multiply("t2", "t3", "t2"),
      Square("t2", "t2", 50), Multiply("t1", "t2", "t1"), Square("t1", "t1", 5),
      Multiply("out", "t1", "t0")>>

fe_pow22523 ==
    <<Square("t0", "z", 1), Square("t1", "t0", 2), Multiply("t1", "z", "t1"),
      Multiply("t0", "t0", "t1"), Square("t0", "t0", 1), Multiply("t0", "t1", "t0"),
      Square("t1", "t0", 5), Multiply("t0", "t1", "t0"), Square("t1", "t0", 10),
      Multiply("t1", "t1", "t0"), Square("t2", "t1", 20), Multiply("t1", "t2", "t1"),
      Square("t1", "t1", 10), Multiply("t0", "t1", "t0"), Square("t1", "t0", 50),
      Multiply("t1", "t1", "t0"), Square("t2", "t1", 100), Multiply("t1", "t2", "t1"),
      Square("t1", "t1", 50), Multiply("t0", "t1", "t0"), Square("t0", "t0", 2),
      Multiply("out", "t0", "z")>>

Steps == [invert |-> fe_invert, pow22523 |-> fe_pow22523]

\* The power of z that a chain ends with.
RECURSIVE Squared(_, _)
Squared(x, n) ==
    IF n = 1 THEN fe_sq(x) ELSE Only({Squared(y, n - (n \div 2)) : y \in {Squared(x, n \div 2)}})
RECURSIVE Performed(_, _)
Performed(r, steps) ==
    LET n == Len(steps)
        s == steps[1]
    IN  IF n = 1
        THEN [r EXCEPT ![s.t] = IF s.n > 0 THEN Squared(r[s.a], s.n) ELSE fe_mul(r[s.a], r[s.b])]
        ELSE Only({Performed(q, SubSeq(steps, (n \div 2) + 1, n)) :
                   q \in {Performed(r, SubSeq(steps, 1, n \div 2))}})
Power(z, steps) ==
    Performed([z |-> z, t0 |-> fe_0, t1 |-> fe_0, t2 |-> fe_0, t3 |-> fe_0, out |-> fe_0],
              steps)["out"]

E == 18
SmallExponent(x) == <<x>> \o [k \in 1 .. E - 1 |-> 0]
RECURSIVE AddDigits(_, _, _, _)
AddDigits(d, e, k, c) ==
    IF k > E THEN <<>>
    ELSE LET s == d[k] + e[k] + c IN <<s % 32768>> \o AddDigits(d, e, k + 1, s \div 32768)
AddExponents(d, e) == AddDigits(d, e, 1, 0)

\* What a register holds that was not written yet.
Unset == [h |-> fe_0, e |-> SmallExponent(0)]
Z == Limbs(LAMBDA i : ((i * 9795703) + 12345) % 2^(Width(i) - 1))

PowersIdle == chain = "none" /\ at = <<1, 0>> /\ reg = <<>>
PowersStart ==
    /\ chain \in {"invert", "pow22523"}
    /\ at = <<1, 0>>
    /\ reg = [r \in {"z", "t0", "t1", "t2", "t3", "out"} |->
                IF r = "z" THEN [h |-> Z, e |-> SmallExponent(1)] ELSE Unset]

\* One squaring or multiplication.
PowersNext ==
    /\ chain # "none" /\ at[1] <= Len(Steps[chain])
    /\ LET s == Steps[chain][at[1]]
           a == IF s.n > 0 /\ at[2] > 0 THEN reg[s.t] ELSE reg[s.a]
           b == IF s.n > 0 THEN a ELSE reg[s.b]
       IN  /\ reg' = [reg EXCEPT ![s.t] =
                        [h |-> IF s.n > 0 THEN fe_sq(a.h) ELSE fe_mul(a.h, b.h),
                         e |-> AddExponents(a.e, b.e)]]
           /\ at' = IF at[2] + 1 < s.n THEN <<at[1], at[2] + 1>> ELSE <<at[1] + 1, 0>>
    /\ UNCHANGED chain

(***************************************************************************)
(* Properties.                                                             *)
(***************************************************************************)
\* After any operations, the limbs stand for the number that the same operations
\* modulo 2^255 - 19 give, even where every limb is at the bound that the comments
\* allow; no int32_t and no int64_t overflows on the way (fe.c).
FieldExact == acc # <<>> => OfLimbs(acc.h) = acc.v /\ OfLimbs(other.h) = other.v

\* The limbs of every result are within the bound its comment promises, so that it
\* may be an operand of the next operation (the carries of fe_mul, fe_sq, fe_sq2,
\* fe_mul121666 and fe_frombytes).
LimbsBounded ==
    acc # <<>> =>
        \A i \in 0 .. 9 : acc.h[i + 1] \in -Bound(acc.b, i) - 32 .. Bound(acc.b, i) + 32

\* The bytes of a number below 2^255 - 19, given by its digits.
BitOfDigits(d, n) == IF n = 255 THEN 0 ELSE (d[(n \div 5) + 1] \div 2^(n % 5)) % 2
BytesOf(d) ==
    [k \in 1 .. 32 |->
        LET b(n) == BitOfDigits(d, (8 * (k - 1)) + n) * 2^n
        IN  b(0) + b(1) + b(2) + b(3) + b(4) + b(5) + b(6) + b(7)]

\* Representations of one number have one encoding, that of the number below
\* 2^255 - 19, and fe_isnegative and fe_isnonzero depend on the number alone
\* (fe_tobytes).
EncodingUnique ==
    acc # <<>> /\ acc.b <= 220 =>
        /\ fe_tobytes(acc.h) = BytesOf(acc.v)
        /\ fe_isnegative(acc.h) = acc.v[1] % 2
        /\ fe_isnonzero(acc.h) = (acc.v # Number([k \in 1 .. N |-> 0]))

\* 2^n - x, for x <= 2^15.
Below2(n, x) ==
    <<32768 - x>> \o [k \in 1 .. E - 1 |-> IF 15 * (k + 1) <= n THEN 32767
                                          ELSE IF 15 * k < n THEN 2^(n - (15 * k)) - 1 ELSE 0]

\* fe_invert ends with z^(p - 2) and fe_pow22523 with z^((p - 5) / 8), for p =
\* 2^255 - 19; the value of the first, multiplied with z, is one.
PowersExact ==
    chain # "none" /\ at[1] > Len(Steps[chain]) =>
        /\ reg["out"].e = IF chain = "invert" THEN Below2(255, 21) ELSE Below2(252, 3)
        /\ chain = "invert" =>
              Product(OfLimbs(reg["out"].h), OfLimbs(Z)) = OfLimbs(fe_1)

(***************************************************************************)
(* Scalars of ed25519 (sm/src/ed25519/sc.c, the same code in bootrom and   *)
(* sdk) in their real size: numbers modulo l = 2^252 + 27742...648493, the *)
(* order of the base point, as strings of bytes, the lowest first, and     *)
(* inside sc_reduce and sc_muladd as 24 limbs of 21 bits.  Limb i of the   *)
(* code is s[i + 1].                                                       *)
(***************************************************************************)
VARIABLES
    scal,       \* three scalars: bytes s and the number v they stand for
    scOps       \* operations so far

CONSTANT MaxScOps       \* operations applied one after the other (a bound)

scVars == <<scal, scOps>>

(***************************************************************************)
(* Limbs.                                                                  *)
(***************************************************************************)
\* The bits from bit n on: load_3 if the 21 bits of a limb are in 3 bytes, else load_4.
Loaded(s, n, last) ==
    LET k == n \div 8
        low == s[k + 1] + 256 * s[k + 2] + 65536 * s[k + 3]
    IN  (low \div 2^(n % 8)) + IF n % 8 > 3 \/ last THEN s[k + 4] * 2^(24 - (n % 8)) ELSE 0

\* The limbs 0 .. top of a string, of which the highest has all the remaining bits.
ScLimb(s, i, top) ==
    IF i > top THEN 0
    ELSE IF i = top THEN Loaded(s, 21 * i, TRUE) ELSE Loaded(s, 21 * i, FALSE) % 2^21

\* Byte k of the result: bits of one limb or of two.
ScByte(d, k) ==
    LET l == (8 * k) \div 21
        next == (21 * (l + 1)) - (8 * k)
    IN  ((d[l + 1] \div 2^((8 * k) - (21 * l)))
           + (IF l < 11 /\ next < 8 THEN (d[l + 2] % 256) * 2^next ELSE 0)) % 256

(***************************************************************************)
(* Reduction.                                                              *)
(***************************************************************************)
\* l = 2^252 minus these, each times 2^21 as often as its place says.
Mu == <<666643, 470296, 654183, -997805, 136657, -683901>>

\* Limbs lo .. hi, from 12 on, are replaced by their multiples of 2^252 - l.
FoldLimbs(s, lo, hi) ==
    LET Part(t, k) == IF k \in lo .. hi /\ t - k + 12 \in 0 .. 5
                      THEN Times(ToInt(s[k + 1]), Mu[t - k + 13]) ELSE <<0, 0>>
    IN  <<>> \o [i \in 1 .. 24 |->
            IF i - 1 \in lo .. hi THEN <<0, 0>>
            ELSE LET t == i - 1 IN
                 Sum(Sum(Sum(s[i], Part(t, t + 7)), Sum(Part(t, t + 8), Part(t, t + 9))),
                     Sum(Sum(Part(t, t + 10), Part(t, t + 11)), Part(t, t + 12)))]

\* What limb i has beyond 21 bits, rounded by half, moves to limb i + 1.
ScCarry(s, i, half) ==
    LET up == Sum(s[i + 1], <<0, half>>) IN
    [s EXCEPT ![i + 1] = OfInt((up[2] % 2^21) - half), ![i + 2] = Sum(@, ShiftRight(up, 21))]

RECURSIVE ScCarried(_, _, _)
ScCarried(s, order, half) ==
    LET n == Len(order) IN
    IF n = 1 THEN ScCarry(s, order[1], half)
    ELSE Only({ScCarried(t, SubSeq(order, (n \div 2) + 1, n), half) :
               t \in {ScCarried(s, SubSeq(order, 1, n \div 2), half)}})

Rounded(s, order) == ScCarried(s, order, 2^20)
Plain(s, top) == ScCarried(s, <<>> \o [i \in 1 .. top + 1 |-> i - 1], 0)

\* Mutant: the second fold of limb 12 is left out.
LastFold_out(s) == Plain(s, 10)

LastFold(s) == Plain(FoldLimbs(s, 12, 12), 10)

\* The results of f on a set of one value at a time.
Each(f(_), set) == {f(x) : x \in set}

\* From 24 limbs to the 32 bytes of the number modulo l.
Reduced(s) ==
    LET F1(t) == Rounded(FoldLimbs(t, 18, 23), <<6, 8, 10, 12, 14, 16, 7, 9, 11, 13, 15>>)
        F2(t) == Rounded(FoldLimbs(t, 12, 17), <<0, 2, 4, 6, 8, 10, 1, 3, 5, 7, 9, 11>>)
        F3(t) == Plain(FoldLimbs(t, 12, 12), 11)
        Stored(t) ==
            LET d == <<>> \o [i \in 1 .. 12 |-> ToInt(t[i])]
            IN  <<>> \o [k \in 1 .. 32 |-> ScByte(d, k - 1)]
    IN  Only(Each(Stored, Each(LastFold, Each(F3, Each(F2, Each(F1, {s}))))))

sc_reduce(s) == Reduced(<<>> \o [i \in 1 .. 24 |-> OfInt(ScLimb(s, i - 1, 23))])

\* Limb k of a * b + c, before any carry.
RECURSIVE ScProducts(_, _, _, _, _)
ScProducts(a, b, k, lo, hi) ==
    IF lo > hi THEN <<0, 0>>
    ELSE IF lo = hi THEN Times(a[lo + 1], b[k - lo + 1])
    ELSE LET mid == (lo + hi) \div 2
         IN  Sum(ScProducts(a, b, k, lo, mid), ScProducts(a, b, k, mid + 1, hi))

sc_muladd(a, b, c) ==
    LET Of(s) == <<>> \o [i \in 1 .. 24 |-> ScLimb(s, i - 1, 11)]
        x == Of(a)
        y == Of(b)
        z == Of(c)
        s == <<>> \o [i \in 1 .. 24 |->
                LET k == i - 1 IN
                Sum(OfInt(z[i]), ScProducts(x, y, k, IF k > 11 THEN k - 11 ELSE 0,
                                            IF k > 11 THEN 11 ELSE k))]
    IN  Reduced(Rounded(s, <<0, 2, 4, 6, 8, 10, 12, 14, 16, 18, 20, 22,
                             1, 3, 5, 7, 9, 11, 13, 15, 17, 19, 21>>))

(***************************************************************************)
(* What these compute: numbers below l in 17 digits to the base 2^15, from *)
(* the highest byte of a string to the lowest.                             *)
(***************************************************************************)
D == 17
L == <<21485, 14827, 3177, 16531, 19813, 24307, 30632, 28540, 20,
       0, 0, 0, 0, 0, 0, 0, 4096>>
SmallScalar(x) == <<x, 0, 0, 0, 0, 0, 0, 0, 0, 0, 0, 0, 0, 0, 0, 0, 0>>

\* x * a + y * b digit by digit, from digit k on, after the carry c; the last carry
\* is a digit more.
RECURSIVE Combined(_, _, _, _, _, _)
Combined(x, a, y, b, k, c) ==
    IF k > D THEN <<c>>
    ELSE LET s == x * a[k] + y * b[k] + c
         IN  <<s % 32768>> \o Combined(x, a, y, b, k + 1, s \div 32768)

\* The number of the digits and the last carry r, modulo l: l is taken off as often
\* as 2^252 is contained in it, which is once too often at most.
LessL(r) ==
    LET top == (8 * r[D + 1]) + (r[D] \div 4096) IN
    Only({IF r[D + 1] + t[D + 1] < 0 THEN SubSeq(Combined(1, t, 1, L, 1, 0), 1, D)
          ELSE SubSeq(t, 1, D) : t \in {Combined(1, r, -top, L, 1, 0)}})
LinearMod(x, a, y, b) == Only(Each(LessL, {Combined(x, a, y, b, 1, 0)}))

\* 256 * v + byte * b for the bytes hi, hi - 1, .., lo of s.
RECURSIVE Horner(_, _, _, _, _)
Horner(v, b, s, lo, hi) ==
    IF lo = hi THEN LinearMod(256, v, s[lo], b)
    ELSE LET mid == (lo + hi) \div 2
         IN  Only({Horner(w, b, s, lo, mid) : w \in {Horner(v, b, s, mid + 1, hi)}})

TimesMod(s, b) == Horner(SmallScalar(0), b, s, 1, Len(s))
ModL(s) == TimesMod(s, SmallScalar(1))

\* The digits of 32 bytes, not reduced.
ScBit(s, n) == IF n < 256 THEN (s[(n \div 8) + 1] \div 2^(n % 8)) % 2 ELSE 0
RECURSIVE BitsFrom(_, _, _)
BitsFrom(s, n, m) == IF m = 0 THEN 0 ELSE ScBit(s, n) + 2 * BitsFrom(s, n + 1, m - 1)
DigitsOf(s) == <<>> \o [k \in 1 .. D |-> BitsFrom(s, 15 * (k - 1), IF k = D THEN 16 ELSE 15)]

(***************************************************************************)
(* Scalars in use.                                                         *)
(***************************************************************************)
OrderBytes == <<237, 211, 245, 92, 26, 99, 18, 88, 214, 156, 247, 162, 222, 249, 222, 20>>
                \o [k \in 1 .. 15 |-> 0] \o <<16>>
Bytes32(f(_)) == <<>> \o [k \in 1 .. 32 |-> f(k)]

\* l - 1, l, 2^255 - 1 with all bits that a clamped secret may have, 2^252 and others.
Short ==
    {[OrderBytes EXCEPT ![1] = @ - 1], OrderBytes, Bytes32(LAMBDA k : 255),
     Bytes32(LAMBDA k : IF k = 32 THEN 16 ELSE 0), Bytes32(LAMBDA k : (k * 59) % 256)}

\* Hashes of 64 bytes: each half one of these.
Long == {a \o b : a, b \in Short \cup {Bytes32(LAMBDA k : 0)}}

Scalar(s) == [s |-> s, v |-> ModL(s), result |-> FALSE]
Result(s, v) == [s |-> s, v |-> v, result |-> TRUE]

ScIdle == scal = <<>> /\ scOps = 0
ScStart ==
    /\ scOps = 0
    /\ \E a, b \in Short, c \in {OrderBytes, Bytes32(LAMBDA k : 255)} :
          scal = [a |-> Scalar(a), b |-> Scalar(b), c |-> Scalar(c)]

ScReduce(s) ==
    /\ scOps = 0
    /\ scal' = [scal EXCEPT !.a = Result(sc_reduce(s), ModL(s))]
ScMuladd ==
    scal' = [scal EXCEPT !.c = Result(sc_muladd(scal.a.s, scal.b.s, scal.c.s),
                                     LinearMod(1, TimesMod(scal.a.s, scal.b.v), 1, scal.c.v))]

ScNext ==
    /\ scal # <<>> /\ scOps < MaxScOps
    /\ scOps' = scOps + 1
    /\ \/ \E s \in Long : ScReduce(s)
       \/ ScMuladd

(***************************************************************************)
(* Properties.                                                             *)
(***************************************************************************)
\* A result of sc_reduce or sc_muladd is the number below l that the same operation
\* modulo l gives, for operands of any size the bytes allow, so that a scalar has
\* one encoding.
ScalarsExact ==
    scal # <<>> => \A r \in {scal.a, scal.c} : r.result => DigitsOf(r.s) = r.v
=============================================================================
