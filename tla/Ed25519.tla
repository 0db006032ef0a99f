------------------------------- MODULE Ed25519 -------------------------------
(***************************************************************************)
(* Points of the curve -x^2 + y^2 = 1 + d x^2 y^2 (sm/src/ed25519/ge.c,    *)
(* the same code in bootrom and sdk), over any field elements.  Modules    *)
(* BasePoint and SmallCurve take it with those of module Field, in their   *)
(* real size, and with those of a small field.                             *)
(*                                                                         *)
(* Representations, as in ge.h: p2 is (X/Z, Y/Z), p3 has T = XY/Z as well, *)
(* p1p1 is (X/Z, Y/T); cached and precomp are prepared for an addition.    *)
(***************************************************************************)
EXTENDS Integers, Sequences

CONSTANTS
    fe_0, fe_1, fe_add(_, _), fe_sub(_, _), fe_neg(_), fe_mul(_, _), fe_sq(_), fe_sq2(_),
    fe_invert(_), fe_pow22523(_), fe_isnonzero(_), fe_isnegative(_),
    fe_tobytes(_), fe_frombytes(_),
    d, d2, sqrtm1,      \* the constants of the curve, and a root of -1
    base,               \* base[i + 1][j] is j * 256^i * B
    Bi,                 \* Bi[j + 1] is (2 * j + 1) * B
    BYTES               \* of a scalar and of an encoded point, 32

BITS == 8 * BYTES

\* f(x), with x evaluated first.
Apply(f(_), x) == CHOOSE r \in {f(y) : y \in {x}} : TRUE

(***************************************************************************)
(* Conversions, addition and doubling.                                     *)
(***************************************************************************)
ge_p2_0 == [X |-> fe_0, Y |-> fe_1, Z |-> fe_1]
ge_p3_0 == [X |-> fe_0, Y |-> fe_1, Z |-> fe_1, T |-> fe_0]

ge_p1p1_to_p2(p) ==
    [X |-> fe_mul(p.X, p.T), Y |-> fe_mul(p.Y, p.Z), Z |-> fe_mul(p.Z, p.T)]
ge_p1p1_to_p3(p) ==
    [X |-> fe_mul(p.X, p.T), Y |-> fe_mul(p.Y, p.Z), Z |-> fe_mul(p.Z, p.T),
     T |-> fe_mul(p.X, p.Y)]
ge_p3_to_p2(p) == [X |-> p.X, Y |-> p.Y, Z |-> p.Z]
ge_p3_to_cached(p) ==
    [YplusX |-> fe_add(p.Y, p.X), YminusX |-> fe_sub(p.Y, p.X), Z |-> p.Z,
     T2d |-> fe_mul(p.T, d2)]

ge_p2_dbl(p) ==
    LET xx == fe_sq(p.X)
        yy == fe_sq(p.Y)
        sum == fe_sq(fe_add(p.X, p.Y))
        y == fe_add(yy, xx)
        z == fe_sub(yy, xx)
    IN  [X |-> fe_sub(sum, y), Y |-> y, Z |-> z, T |-> fe_sub(fe_sq2(p.Z), z)]
ge_p3_dbl(p) == ge_p2_dbl(ge_p3_to_p2(p))

\* The sum from the products of p with the parts of q: a with y + x, b with y - x,
\* c with 2dxy, and twice that of the Zs.
Added(a, b, c, zz2) ==
    [X |-> fe_sub(a, b), Y |-> fe_add(a, b), Z |-> fe_add(zz2, c), T |-> fe_sub(zz2, c)]
Subtracted(a, b, c, zz2) ==
    [X |-> fe_sub(a, b), Y |-> fe_add(a, b), Z |-> fe_sub(zz2, c), T |-> fe_add(zz2, c)]
Twice(x) == fe_add(x, x)

ge_add(p, q) ==
    Added(fe_mul(fe_add(p.Y, p.X), q.YplusX), fe_mul(fe_sub(p.Y, p.X), q.YminusX),
          fe_mul(q.T2d, p.T), Twice(fe_mul(p.Z, q.Z)))
ge_sub(p, q) ==
    Subtracted(fe_mul(fe_add(p.Y, p.X), q.YminusX), fe_mul(fe_sub(p.Y, p.X), q.YplusX),
               fe_mul(q.T2d, p.T), Twice(fe_mul(p.Z, q.Z)))
ge_madd(p, q) ==
    Added(fe_mul(fe_add(p.Y, p.X), q.yplusx), fe_mul(fe_sub(p.Y, p.X), q.yminusx),
          fe_mul(q.xy2d, p.T), Twice(p.Z))
ge_msub(p, q) ==
    Subtracted(fe_mul(fe_add(p.Y, p.X), q.yminusx), fe_mul(fe_sub(p.Y, p.X), q.yplusx),
               fe_mul(q.xy2d, p.T), Twice(p.Z))

(***************************************************************************)
(* Encoding: y, with the lowest bit of x in the highest bit.               *)
(***************************************************************************)
ge_tobytes(h) ==
    LET Divided(recip) == <<fe_mul(h.X, recip), fe_mul(h.Y, recip)>>
        Encoded(xy) == [fe_tobytes(xy[2]) EXCEPT ![BYTES] = @ + 128 * fe_isnegative(xy[1])]
    IN  Apply(Encoded, Apply(Divided, fe_invert(h.Z)))
ge_p3_tobytes(h) == ge_tobytes(ge_p3_to_p2(h))

Invalid == <<>>

\* A root of u / v if there is one, up to a factor of sqrtm1.
CandidateRoot(u, v) ==
    LET v3 == fe_mul(fe_sq(v), v)
        uv7 == fe_mul(fe_mul(fe_sq(v3), v), u)
    IN  Apply(LAMBDA r : fe_mul(fe_mul(r, v3), u), Apply(fe_pow22523, uv7))

\* Mutant: the first root is taken although its square is the negative of the right one.
PointOf_root(s, y, u, v, root) ==
    LET vxx == fe_mul(fe_sq(root), v)
        none == fe_isnonzero(fe_sub(vxx, u)) /\ fe_isnonzero(fe_add(vxx, u))
        x == IF fe_isnegative(root) = s[BYTES] \div 128 THEN fe_neg(root) ELSE root
    IN  IF none THEN Invalid ELSE [X |-> x, Y |-> y, Z |-> fe_1, T |-> fe_mul(x, y)]

PointOf(s, y, u, v, root) ==
    LET vxx == fe_mul(fe_sq(root), v)
        other == fe_isnonzero(fe_sub(vxx, u))
        none == other /\ fe_isnonzero(fe_add(vxx, u))
        r == IF other THEN fe_mul(root, sqrtm1) ELSE root
        x == IF fe_isnegative(r) = s[BYTES] \div 128 THEN fe_neg(r) ELSE r
    IN  IF none THEN Invalid ELSE [X |-> x, Y |-> y, Z |-> fe_1, T |-> fe_mul(x, y)]

\* The point of the encoding s, negated, or Invalid (-1): y^2 - 1 = x^2 (d y^2 + 1).
ge_frombytes_negate_vartime(s) ==
    LET OfY(y) ==
            LET u == fe_sub(fe_sq(y), fe_1)
                v == fe_add(fe_mul(fe_sq(y), d), fe_1)
            IN  Apply(LAMBDA root : PointOf(s, y, u, v, root), CandidateRoot(u, v))
    IN  Apply(OfY, fe_frombytes(s))

(***************************************************************************)
(* Multiples of the base point.                                            *)
(***************************************************************************)
Bit(a, i) == (a[(i \div 8) + 1] \div 2^(i % 8)) % 2
Nibble(a, i) == (a[(i \div 2) + 1] \div (IF i % 2 = 0 THEN 1 ELSE 16)) % 16

\* The digits e[i], e[i + 1], ... to the base 16, each but the last in -8 .. 7, after
\* a carry into e[i].
RECURSIVE SignedDigits(_, _, _)
SignedDigits(a, i, carry) ==
    LET e == Nibble(a, i) + carry
        up == (e + 8) \div 16
    IN  IF i = (2 * BYTES) - 1 THEN <<e>>
        ELSE <<e - 16 * up>> \o SignedDigits(a, i + 1, up)

\* b * 256^pos * B for a digit b, by conditional moves.
select(pos, b) ==
    LET babs == IF b < 0 THEN -b ELSE b
        t == IF babs = 0 THEN [yplusx |-> fe_1, yminusx |-> fe_1, xy2d |-> fe_0]
             ELSE base[pos + 1][babs]
    IN  IF b < 0 THEN [yplusx |-> t.yminusx, yminusx |-> t.yplusx, xy2d |-> fe_neg(t.xy2d)] ELSE t

\* h plus what select gives for the digits 2 * lo + odd, .., 2 * hi + odd of e.
RECURSIVE SelectedSum(_, _, _, _, _)
SelectedSum(h, e, odd, lo, hi) ==
    IF lo = hi THEN Apply(ge_p1p1_to_p3, ge_madd(h, select(lo, e[(2 * lo) + odd + 1])))
    ELSE LET mid == (lo + hi) \div 2
         IN  Apply(LAMBDA g : SelectedSum(g, e, odd, mid + 1, hi), SelectedSum(h, e, odd, lo, mid))

\* The odd digits, four doublings, the even digits.
ge_scalarmult_base(a) ==
    LET Doubled(p) == Apply(ge_p1p1_to_p2, ge_p2_dbl(p))
        Times8(h) == Apply(Doubled, Apply(Doubled, Doubled(ge_p3_to_p2(h))))
        Times16(h) == Apply(ge_p1p1_to_p3, Apply(ge_p2_dbl, Times8(h)))
        OfDigits(e) ==
            LET OddDigits == SelectedSum(ge_p3_0, e, 1, 0, BYTES - 1)
            IN  Apply(LAMBDA h : SelectedSum(h, e, 0, 0, BYTES - 1), Apply(Times16, OddDigits))
    IN  Apply(OfDigits, SignedDigits(a, 0, 0))

(***************************************************************************)
(* a * A + b * B, by digits that are zero or odd.                          *)
(***************************************************************************)
\* r[k], r[k + 1], ... plus one: the ones up to the first zero become zero, and it one.
Borrowed(r, k) ==
    LET zeros == {j \in k .. BITS - 1 : r[j + 1] = 0}
        first == IF zeros = {} THEN BITS ELSE CHOOSE j \in zeros : \A i \in zeros : j <= i
    IN  <<>> \o [j \in 1 .. BITS |-> IF j - 1 \in k .. first - 1 THEN 0
                                    ELSE IF j - 1 = first THEN 1 ELSE r[j]]

\* The bits b, b + 1, .. 6 places above bit i are added into digit i, as long as it
\* stays in -15 .. 15.
RECURSIVE SlideAt(_, _, _)
SlideAt(r, i, b) ==
    LET x == r[i + 1]
        y == r[i + b + 1] * 2^b
    IN  IF b > 6 \/ i + b >= BITS THEN r
        ELSE IF r[i + b + 1] = 0 THEN SlideAt(r, i, b + 1)
        ELSE IF x + y <= 15
        THEN SlideAt([r EXCEPT ![i + 1] = x + y, ![i + b + 1] = 0], i, b + 1)
        ELSE IF x - y >= -15
        THEN SlideAt(Borrowed([r EXCEPT ![i + 1] = x - y], i + b), i, b + 1)
        ELSE r

RECURSIVE SlideFrom(_, _, _)
SlideFrom(r, lo, hi) ==
    IF lo = hi THEN IF r[lo + 1] = 0 THEN r ELSE SlideAt(r, lo, 1)
    ELSE LET mid == (lo + hi) \div 2
         IN  Apply(LAMBDA t : SlideFrom(t, mid + 1, hi), SlideFrom(r, lo, mid))
slide(a) == SlideFrom(<<>> \o [i \in 1 .. BITS |-> Bit(a, i - 1)], 0, BITS - 1)

\* A, 3A, 5A, .., 15A.
RECURSIVE OddMultiples(_, _, _)
OddMultiples(A2, q, n) ==
    IF n = 1 THEN <<q>>
    ELSE <<q>> \o Apply(LAMBDA next : OddMultiples(A2, next, n - 1),
                        Apply(ge_p3_to_cached, Apply(ge_p1p1_to_p3, ge_add(A2, q))))

\* What digits da and db add to t.
WithA(t, Ai, da) ==
    IF da > 0 THEN Apply(LAMBDA u : ge_add(u, Ai[(da \div 2) + 1]), ge_p1p1_to_p3(t))
    ELSE IF da < 0 THEN Apply(LAMBDA u : ge_sub(u, Ai[((-da) \div 2) + 1]), ge_p1p1_to_p3(t))
    ELSE t
WithB(t, db) ==
    IF db > 0 THEN Apply(LAMBDA u : ge_madd(u, Bi[(db \div 2) + 1]), ge_p1p1_to_p3(t))
    ELSE IF db < 0 THEN Apply(LAMBDA u : ge_msub(u, Bi[((-db) \div 2) + 1]), ge_p1p1_to_p3(t))
    ELSE t

\* The loop over the digits hi, hi - 1, .., lo.
RECURSIVE Ladder(_, _, _, _, _, _)
Ladder(r, Ai, as, bs, lo, hi) ==
    IF lo = hi
    THEN Apply(ge_p1p1_to_p2,
               Apply(LAMBDA t : WithB(t, bs[lo + 1]),
                     Apply(LAMBDA t : WithA(t, Ai, as[lo + 1]), ge_p2_dbl(r))))
    ELSE LET mid == (lo + hi) \div 2
         IN  Apply(LAMBDA q : Ladder(q, Ai, as, bs, lo, mid), Ladder(r, Ai, as, bs, mid + 1, hi))

\* From the highest digit that is not zero in both.
ge_double_scalarmult_vartime(a, A, b) ==
    LET Tables(A2) == OddMultiples(A2, ge_p3_to_cached(A), 8)
        OfDigits(as, bs, Ai) ==
            LET used == {i \in 0 .. BITS - 1 : as[i + 1] # 0 \/ bs[i + 1] # 0}
                top == CHOOSE i \in used : \A j \in used : j <= i
            IN  IF used = {} THEN ge_p2_0 ELSE Ladder(ge_p2_0, Ai, as, bs, 0, top)
    IN  Apply(LAMBDA x : OfDigits(x[1], x[2], x[3]),
              <<slide(a), slide(b), Apply(Tables, Apply(ge_p1p1_to_p3, ge_p3_dbl(A)))>>)

(***************************************************************************)
(* Keys and signatures (keypair.c and sign.c, the same code in bootrom;    *)
(* sdk/src/verifier/ed25519/verify.c).  The hash, SHA3-512, gives twice as *)
(* many bytes as a scalar.                                                 *)
(***************************************************************************)
CONSTANTS
    sc_reduce(_), sc_muladd(_, _, _),   \* module Field
    sha3(_)                             \* the hash of a string

Half(s) == SubSeq(s, 1, BYTES)
OtherHalf(s) == SubSeq(s, BYTES + 1, 2 * BYTES)

ed25519_create_keypair(seed) ==
    LET Clamped(h) == [h EXCEPT ![1] = @ - (@ % 8), ![BYTES] = (@ % 64) + 64]
        Pair(private) ==
            [private |-> private,
             public |-> Apply(ge_p3_tobytes, ge_scalarmult_base(Half(private)))]
    IN  Apply(Pair, Clamped(sha3(seed)))

Response(R, r, message, public, private) ==
    Apply(LAMBDA hram : sc_muladd(hram, Half(private), r),
          sc_reduce(sha3(R \o public \o message)))

ed25519_sign(message, public, private) ==
    LET WithNonce(r) ==
            Apply(LAMBDA R : R \o Response(R, r, message, public, private),
                  Apply(ge_p3_tobytes, ge_scalarmult_base(r)))
    IN  Apply(WithNonce, sc_reduce(sha3(OtherHalf(private) \o message)))

\* The encoding of S * B - h * A, which is to be the first half of the signature.
Checker(signature, message, public, A) ==
    Apply(ge_tobytes, Apply(LAMBDA h : ge_double_scalarmult_vartime(h, A, OtherHalf(signature)),
                            sc_reduce(sha3(Half(signature) \o public \o message))))

consttime_equal(x, y) == x = y

ed25519_verify(signature, message, public) ==
    Apply(LAMBDA A : /\ signature[2 * BYTES] < 32
                     /\ A # Invalid
                     /\ consttime_equal(Checker(signature, message, public, A), Half(signature)),
          ge_frombytes_negate_vartime(public))
=============================================================================
