------------------------------- MODULE Crypto -------------------------------
(***************************************************************************)
(* The hash, the key derivation and the signatures that the boot ROM, the  *)
(* monitor and the verifier share: the sponge of sm/src/sha3, HMAC and     *)
(* HKDF over it (sm/src/hmac_sha3, sm/src/hkdf_sha3_512), ed25519.         *)
(*                                                                         *)
(* The permutation of the sponge and the signature scheme are symbolic:    *)
(* their results are the terms they were computed from.  What is modelled  *)
(* is the code around them: how messages that arrive in pieces are cut     *)
(* into blocks and padded, how keys are prepared, and how output of any    *)
(* length is put together.                                                 *)
(***************************************************************************)
EXTENDS Integers, Sequences, SequencesExt

CONSTANTS
    RATE,           \* rsiz: bytes of a block of the sponge, SHA3_512_BLOCK_LEN
    HASH_LEN,       \* SHA3_512_HASH_LEN
    MAX_COUNT       \* largest unsigned char, the width of the counter in hkdf_expand

ASSUME CryptoAssumption ==
    RATE \in Nat \ {0, 1} /\ HASH_LEN \in 1 .. RATE /\ MAX_COUNT \in Nat \ {0}

Zero(n) == [i \in 1 .. n |-> 0]

(***************************************************************************)
(* The sponge.  A context holds the state after the last permutation and   *)
(* the pt bytes that were added to it since.                               *)
(***************************************************************************)
keccakf(st, block) == [before |-> st, block |-> block]
sha3_init == [st |-> <<>>, added |-> <<>>]

RECURSIVE sha3_update(_, _)
sha3_update(c, data) ==
    IF data = <<>> THEN c
    ELSE IF Len(c.added) + 1 >= RATE
    THEN sha3_update([st |-> keccakf(c.st, Append(c.added, Head(data))), added |-> <<>>], Tail(data))
    ELSE sha3_update([c EXCEPT !.added = Append(@, Head(data))], Tail(data))

\* The context after several updates.
RECURSIVE Updated(_, _)
Updated(c, pieces) ==
    IF pieces = <<>> THEN c ELSE Updated(sha3_update(c, Head(pieces)), Tail(pieces))

\* 0x06 behind the message and 0x80 into the last byte of the block, which may be the same.
sha3_final(c) ==
    LET pt == Len(c.added)
        padded == IF pt = RATE - 1 THEN <<134>> ELSE <<6>> \o Zero(RATE - pt - 2) \o <<128>>
    IN  keccakf(c.st, c.added \o padded)

\* The HASH_LEN bytes of a result, for where a hash is a part of other data.
Bytes(term) == [i \in 1 .. HASH_LEN |-> <<term, i>>]

\* A hash where only its identity matters.
Hash(message) == [sha3 |-> message]

(***************************************************************************)
(* HMAC and HKDF.                                                          *)
(***************************************************************************)
\* A key longer than a block is hashed; the rest of the block is zero.
prepare_key(key) ==
    LET short == IF Len(key) > RATE THEN <<Hash(key)>> ELSE key
        len == IF Len(key) > RATE THEN HASH_LEN ELSE Len(key)
    IN  [key |-> short, zeros |-> RATE - len]

hmac_sha3(key, text) == [hmac |-> prepare_key(key), text |-> text]

hkdf_extract(salt, ikm) == hmac_sha3(IF salt = <<>> THEN Zero(HASH_LEN) ELSE salt, ikm)

div_ceil(a, b) == IF a % b = 0 THEN a \div b ELSE (a \div b) + 1

\* Mutant: a previous block is only mixed in from the third on.
NextBlock_fresh(prk, info, t, i) ==
    hmac_sha3(Bytes(prk), (IF i > 2 THEN Bytes(t) ELSE <<>>) \o info \o <<i>>)

NextBlock(prk, info, t, i) ==
    hmac_sha3(Bytes(prk), (IF i > 1 THEN Bytes(t) ELSE <<>>) \o info \o <<i>>)

\* The loop of hkdf_expand: all of a block is output, of the last what is still
\* missing.  The counter wraps, so the loop does not end if n is MAX_COUNT.
hkdf_expand(prk, info, okm_len) ==
    LET n == div_ceil(okm_len, HASH_LEN)
        Step(s, i) ==
            LET t == NextBlock(prk, info, s.t, i)
                len == IF i < n THEN HASH_LEN ELSE okm_len - (i - 1) * HASH_LEN
            IN  [t |-> t, okm |-> s.okm \o SubSeq(Bytes(t), 1, len)]
    IN  FoldLeftDomain(LAMBDA s, i : Step(s, i), [t |-> <<>>, okm |-> <<>>], Zero(n)).okm

hkdf_sha3_512(salt, ikm, info, okm_len) == hkdf_expand(hkdf_extract(salt, ikm), info, okm_len)

(***************************************************************************)
(* Signatures.                                                             *)
(***************************************************************************)
ed25519_create_keypair(seed) == [public |-> [pk |-> seed], secret |-> [sk |-> seed]]
ed25519_sign(message, secret) == [by |-> secret, message |-> message]
ed25519_verify(signature, message, public) ==
    signature.message = message /\ signature.by.sk = public.pk

(***************************************************************************)
(* What the standards say.                                                 *)
(***************************************************************************)
\* FIPS 202: the message, 06 00 .. 00 80 up to a whole block, block by block.
Padding(m) ==
    LET q == RATE - (Len(m) % RATE) IN IF q = 1 THEN <<134>> ELSE <<6>> \o Zero(q - 2) \o <<128>>
Blocks(m) ==
    [k \in 1 .. Len(m) \div RATE |-> SubSeq(m, (k - 1) * RATE + 1, k * RATE)]
SHA3(m) ==
    LET blocks == Blocks(m \o Padding(m))
        after[k \in 0 .. Len(blocks)] == IF k = 0 THEN <<>> ELSE keccakf(after[k - 1], blocks[k])
    IN  after[Len(blocks)]

\* RFC 5869: T(i) is the HMAC of T(i - 1), info and i.
T(prk, info) ==
    LET t[i \in 1 .. MAX_COUNT] ==
            hmac_sha3(Bytes(prk), (IF i = 1 THEN <<>> ELSE Bytes(t[i - 1])) \o info \o <<i>>)
    IN  t

\* The first okm_len bytes of T(1), T(2), ...
HKDF(prk, info, okm_len) ==
    LET t == T(prk, info) IN
    [j \in 1 .. okm_len |-> Bytes(t[((j - 1) \div HASH_LEN) + 1])[((j - 1) % HASH_LEN) + 1]]
=============================================================================
