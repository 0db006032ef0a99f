----------------------------- MODULE SmallCurve -----------------------------
(***************************************************************************)
(* Points, keys and signatures over a small field: modulo 2^15 - 19 in     *)
(* place of 2^255 - 19, on a curve of 8 * 4111 points, 4111 = 2^12 + 15 in *)
(* place of 2^252 + 27742...648493; a scalar has 2 bytes and a hash 4.     *)
(*                                                                         *)
(* An element is its value v with the bound b that its limbs would have:   *)
(* what module Field checks of the operations of fe.c is here their        *)
(* definition.  An operation whose operands exceed the bounds it requires  *)
(* gives no useful value.                                                  *)
(***************************************************************************)
EXTENDS Field

CONSTANTS
    BaseScalars,        \* numbers that multiply the base point
    Scalars,            \* numbers that multiply a point and the base point
    Encodings,          \* strings that are decoded, as numbers
    Seeds, Messages     \* of keys, and what is signed

VARIABLES
    pt,         \* the last operation on points: its name, operands and result
    ed          \* a key, a signature, and what the verifier is given

pointVars == <<pt>>
edVars == <<ed>>

P == 32749
Order == 4111

Value(v, b) == [v |-> v % P, b |-> b]
Over == Value(0, 1000)
smul(x, y) == IF x.b <= 330 /\ y.b <= 330 THEN Value(x.v * y.v, 101) ELSE Over
sadd(x, y) == Value(x.v + y.v, x.b + y.b)
ssub(x, y) == Value(x.v - y.v, x.b + y.b)
sneg(x) == Value(-x.v, x.b)
ssq(x) == smul(x, x)
ssq2(x) == LET y == smul(x, x) IN Value(2 * y.v, y.b)

\* x^n, and the inverse of x.
RECURSIVE Powered(_, _)
Powered(x, n) ==
    LET Times4(quarter) == Only({(y * y) % P : y \in {(quarter * quarter) % P}})
        rest == <<1, x, (x * x) % P, (((x * x) % P) * x) % P>>[(n % 4) + 1]
    IN  IF n = 0 THEN 1 ELSE Only({(Times4(quarter) * rest) % P : quarter \in {Powered(x, n \div 4)}})
PowerMod(x, n) == Only({Powered(y, n) : y \in {x}})
InverseMod(x) == PowerMod(x, P - 2)

spow(x, n) == IF x.b <= 330 THEN Value(PowerMod(x.v, n), 101) ELSE Over
sinvert(x) == spow(x, P - 2)
spow22523(x) == spow(x, (P - 5) \div 8)
Canonical(x) == IF x.b <= 220 THEN x.v ELSE 0
Bytes2(n) == <<n % 256, n \div 256>>
Of2(s) == s[1] + 256 * s[2]
stobytes(x) == Bytes2(Canonical(x))
sfrombytes(s) == Value(Of2(s) % 32768, 110)
snonzero(x) == Canonical(x) # 0
snegative(x) == Canonical(x) % 2

(***************************************************************************)
(* The curve, by the law of addition.                                      *)
(***************************************************************************)
Dv == 40
B == <<29820, 15>>
Neutral == <<0, 1>>
Root == 15645           \* of -1
OnCurve(p) ==
    LET xx == (p[1] * p[1]) % P
        yy == (p[2] * p[2]) % P
    IN  (yy - xx - 1) % P = (Dv * ((xx * yy) % P)) % P

PointSum(p, q) ==
    LET xy == (p[1] * q[2]) % P
        yx == (p[2] * q[1]) % P
        k == (Dv * ((xy * yx) % P)) % P
        yy == ((p[2] * q[2]) + ((p[1] * q[1]) % P)) % P
    IN  <<(((xy + yx) % P) * InverseMod((1 + k) % P)) % P, (yy * InverseMod((1 - k) % P)) % P>>

RECURSIVE Multiplied(_, _)
Multiplied(n, p) ==
    IF n = 0 THEN Neutral
    ELSE Only({LET double == PointSum(half, half) IN IF n % 2 = 0 THEN double ELSE PointSum(double, p) :
               half \in {Multiplied(n \div 2, p)}})
Multiple(n, p) == Only({Multiplied(x[1], x[2]) : x \in {<<n, p>>}})

\* The tables, from the base point.
PrecompOf(p) ==
    [yplusx |-> Value(p[2] + p[1], 100), yminusx |-> Value(p[2] - p[1], 100),
     xy2d |-> Value(((2 * p[1] * p[2]) % P) * Dv, 100)]
PointTable ==
    <<<<<<29820, 15>>, <<8920, 8580>>, <<32079, 8899>>, <<31803, 17519>>,
        <<9917, 23733>>, <<22963, 22519>>, <<15271, 1659>>, <<9742, 24694>>>>,
      <<<<31501, 30354>>, <<8736, 2935>>, <<9906, 567>>, <<3302, 29397>>,
        <<21834, 27173>>, <<26901, 27135>>, <<11835, 10028>>, <<7581, 15494>>>>>>
OddTable == <<<<29820, 15>>, <<32079, 8899>>, <<9917, 23733>>, <<15271, 1659>>,
              <<10402, 10805>>, <<29024, 21177>>, <<25559, 17439>>, <<15982, 23289>>>>
Prepared(points) ==
    <<PrecompOf(points[1]), PrecompOf(points[2]), PrecompOf(points[3]), PrecompOf(points[4]),
      PrecompOf(points[5]), PrecompOf(points[6]), PrecompOf(points[7]), PrecompOf(points[8])>>
sbase == <<Prepared(PointTable[1]), Prepared(PointTable[2])>>
sBi == Prepared(OddTable)

ASSUME SmallTables ==
    /\ OnCurve(B) /\ Multiple(Order, B) = Neutral
    /\ \A j \in 1 .. 8 : /\ PointTable[1][j] = Multiple(j, B)
                         /\ PointTable[2][j] = Multiple(256 * j, B)
                         /\ OddTable[j] = Multiple((2 * j) - 1, B)
    /\ (Root * Root) % P = P - 1

(***************************************************************************)
(* Scalars and the hash.                                                   *)
(***************************************************************************)
sreduce(s) == Bytes2((((Of2(<<s[3], s[4]>>) % Order) * (65536 % Order)) + Of2(s)) % Order)
smuladd(a, b, c) == Bytes2((((Of2(a) % Order) * (Of2(b) % Order)) + Of2(c)) % Order)

\* A stand-in for SHA3-512 with four bytes.
RECURSIVE Mixed(_, _)
Mixed(s, m) == IF s = <<>> THEN m ELSE Mixed(Tail(s), ((m * 263) + Head(s) + 71) % 8000009)
ssha3(s) == LET a == Mixed(s, 5)
                b == Mixed(s, 1234)
            IN  Bytes2(a % 65536) \o Bytes2(b % 65536)

Small == INSTANCE Ed25519 WITH
    fe_0 <- Value(0, 0), fe_1 <- Value(1, 1), fe_add <- sadd, fe_sub <- ssub, fe_neg <- sneg,
    fe_mul <- smul, fe_sq <- ssq, fe_sq2 <- ssq2, fe_invert <- sinvert, fe_pow22523 <- spow22523,
    fe_isnonzero <- snonzero, fe_isnegative <- snegative,
    fe_tobytes <- stobytes, fe_frombytes <- sfrombytes,
    d <- Value(Dv, 100), d2 <- Value(2 * Dv, 100), sqrtm1 <- Value(Root, 100),
    base <- sbase, Bi <- sBi, BYTES <- 2,
    sc_reduce <- sreduce, sc_muladd <- smuladd, sha3 <- ssha3

(***************************************************************************)
(* Points in use.                                                          *)
(***************************************************************************)
PointsIdle == pt = [op |-> "idle"]
PointsStart == pt = [op |-> "start"]

MultBase(a) ==
    /\ pt.op = "start"
    /\ pt' = [op |-> "base", a |-> a, out |-> Small!ge_scalarmult_base(Bytes2(a))]
Decode(n) ==
    /\ pt.op = "start"
    /\ pt' = [op |-> "decode", s |-> n, out |-> Small!ge_frombytes_negate_vartime(Bytes2(n))]
MultDouble(a, b) ==
    /\ pt.op = "decode" /\ pt.out # Small!Invalid
    /\ pt' = [op |-> "double", a |-> a, b |-> b, A |-> pt.out,
              out |-> Small!ge_double_scalarmult_vartime(Bytes2(a), pt.out, Bytes2(b))]
Encode ==
    /\ pt.op \in {"base", "double"}
    /\ pt' = [op |-> "encode", p |-> pt.out, out |-> Small!ge_tobytes(Small!ge_p3_to_p2(pt.out))]

PointsNext ==
    \/ \E a \in BaseScalars : MultBase(a)
    \/ \E n \in Encodings : Decode(n)
    \/ \E a, b \in Scalars : MultDouble(a, b)
    \/ Encode

(***************************************************************************)
(* Signatures in use: one is made, and the verifier is given it or one     *)
(* that differs, with the same or another message and key.                 *)
(***************************************************************************)
EdIdle == ed = [stage |-> "idle"]
EdStart == ed = [stage |-> "start"]

CreateKey(seed) ==
    /\ ed.stage = "start"
    /\ ed' = [stage |-> "key", key |-> Small!ed25519_create_keypair(<<seed>>)]
Sign(m) ==
    /\ ed.stage = "key"
    /\ ed' = [stage |-> "signed", key |-> ed.key, m |-> <<m>>,
              sig |-> Small!ed25519_sign(<<m>>, ed.key.public, ed.key.private)]

Others(sig) ==
    LET S == Of2(SubSeq(sig, 3, 4)) IN
    {SubSeq(sig, 1, 2) \o Bytes2(n % 65536) : n \in {S + 1, S + Order, S + 8192, Order - S}}
      \cup {[sig EXCEPT ![1] = (@ + 1) % 256], [sig EXCEPT ![2] = (@ + 128) % 256]}

Verify(sig, m, pk) ==
    /\ ed.stage = "signed"
    /\ ed' = [stage |-> "verified", key |-> ed.key, genuine |-> <<sig, m, pk>> =
                  <<ed.sig, ed.m, ed.key.public>>,
              sig |-> sig, m |-> m, pk |-> pk, ok |-> Small!ed25519_verify(sig, m, pk)]

EdNext ==
    \/ \E seed \in Seeds : CreateKey(seed)
    \/ \E m \in Messages : Sign(m)
    \/ ed.stage = "signed" /\
         \/ \E sig \in {ed.sig} \cup Others(ed.sig) : Verify(sig, ed.m, ed.key.public)
         \/ \E m \in Messages : Verify(ed.sig, <<m>>, ed.key.public)
         \/ \E n \in Encodings : Verify(ed.sig, ed.m, Bytes2(n))

(***************************************************************************)
(* Properties.                                                             *)
(***************************************************************************)
\* The point of a p2 or p3, whose coordinates are within the bounds of a product.
Affine(p) == LET recip == InverseMod(p.Z.v) IN <<(p.X.v * recip) % P, (p.Y.v * recip) % P>>
Bounded(p) == p.X.b <= 330 /\ p.Y.b <= 330 /\ p.Z.b <= 330 /\ p.Z.v # 0
EncodingOf(p) == Bytes2(p[2] + 32768 * (p[1] % 2))

\* ge_scalarmult_base gives a * B and ge_double_scalarmult_vartime a * A + b * B, as
\* the law of addition has it, with operands in bounds for every operation on the way
\* (fe.c's comments), for scalars whose digits carry, are negative or are zero; and
\* points are encoded as y and the lowest bit of x (ge_tobytes).
MultiplesExact ==
    /\ pt.op = "base" => /\ Bounded(pt.out) /\ Affine(pt.out) = Multiple(pt.a, B)
                         /\ (pt.out.T.v * pt.out.Z.v) % P = (pt.out.X.v * pt.out.Y.v) % P
    /\ pt.op = "double" =>
          /\ Bounded(pt.out)
          /\ Affine(pt.out) = PointSum(Multiple(pt.a, Affine(pt.A)), Multiple(pt.b, B))
    /\ pt.op = "encode" => pt.out = EncodingOf(Affine(pt.p))

\* A string is decoded to the negative of the point on the curve that it encodes, and
\* refused if there is none (ge_frombytes_negate_vartime).
DecodingExact ==
    pt.op = "decode" =>
        LET y == (pt.s % 32768) % P
            u == ((y * y) - 1) % P
            v == (Dv * ((y * y) % P) + 1) % P
            square == (u * InverseMod(v)) % P
            p == Affine(pt.out)
        IN  IF PowerMod(square, (P - 1) \div 2) \notin {0, 1} THEN pt.out = Small!Invalid
            ELSE /\ pt.out # Small!Invalid
                 /\ Bounded(pt.out) /\ p[2] = y /\ OnCurve(p)
                 /\ p[1] # 0 => (P - p[1]) % 2 = pt.s \div 32768

\* A signature is accepted with the message and the key it was made for, under every
\* key; and what is accepted satisfies S * B = R + h * A with S below 2^253 (here
\* 2^13), whatever the verifier is given (ed25519_sign, ed25519_verify).
AcceptedIffEquation ==
    ed.stage = "verified" =>
        LET S == Of2(SubSeq(ed.sig, 3, 4))
            R == SubSeq(ed.sig, 1, 2)
            h == Of2(sreduce(ssha3(R \o ed.pk \o ed.m)))
            A == Small!ge_frombytes_negate_vartime(ed.pk)
        IN  /\ ed.genuine => ed.ok
            /\ ed.ok <=> /\ S < 8192 /\ A # Small!Invalid
                         /\ EncodingOf(PointSum(Multiple(S, B), Multiple(h, Affine(A)))) = R

\* Over a small curve, multiples and decoded points are those of the group, and a
\* signature is accepted exactly if it satisfies its equation (ge.c, sign.c, verify.c).
SmallCurveExact == MultiplesExact /\ DecodingExact /\ AcceptedIffEquation
=============================================================================
