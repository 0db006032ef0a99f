------------------------------- MODULE Modes -------------------------------
(***************************************************************************)
(* The modes of operation of runtime/crypto/aes.c, over any block cipher:  *)
(* module AesSha256 has the real one, PageCrypto one of terms.  Texts,     *)
(* blocks and initial vectors are sequences of bytes.                      *)
(***************************************************************************)
EXTENDS Integers, Sequences, SequencesExt

CONSTANTS
    BYTE,               \* values of a byte
    AES_BLOCK_SIZE,
    aes_encrypt(_, _),  \* of a block, under a key
    aes_decrypt(_, _),
    Xor(_, _)           \* of two bytes

xor_buf(in, out) == [i \in DOMAIN out |-> Xor(in[i], out[i])]
Blocks(text) == Len(text) \div AES_BLOCK_SIZE
BlockOf(text, i) == SubSeq(text, (i - 1) * AES_BLOCK_SIZE + 1, i * AES_BLOCK_SIZE)

(***************************************************************************)
(* Counter mode.  The counter is the last bytes of the vector, the most    *)
(* significant first.                                                      *)
(***************************************************************************)
increment_iv(iv, counter_size) ==
    LET first == AES_BLOCK_SIZE - counter_size + 1
        below == {i \in first .. AES_BLOCK_SIZE : iv[i] # BYTE - 1}
        stop == IF below = {} THEN first ELSE CHOOSE i \in below : \A j \in below : j <= i
    IN  [i \in 1 .. AES_BLOCK_SIZE |-> IF i < stop THEN iv[i] ELSE (iv[i] + 1) % BYTE]

\* iv_buf after n iterations.
IvAfter(iv, n) == FoldLeft(LAMBDA v, i : increment_iv(v, AES_BLOCK_SIZE), iv, [i \in 1 .. n |-> i])

\* Iterations before the last block, which may be short.
Iterations(in_len) == IF in_len > AES_BLOCK_SIZE THEN (in_len - 1) \div AES_BLOCK_SIZE ELSE 0

aes_encrypt_ctr(in, key, iv) ==
    LET last == Iterations(Len(in))
        pad == [j \in 0 .. last |-> aes_encrypt(key, IvAfter(iv, j))]
        at(i) == IF i <= last * AES_BLOCK_SIZE THEN (i - 1) \div AES_BLOCK_SIZE ELSE last
    IN  [i \in DOMAIN in |-> Xor(pad[at(i)][i - at(i) * AES_BLOCK_SIZE], in[i])]

aes_decrypt_ctr(in, key, iv) == aes_encrypt_ctr(in, key, iv)

(***************************************************************************)
(* Cipher block chaining, for texts of whole blocks.                       *)
(***************************************************************************)
CbcBlocks(in, key, iv) ==
    LET c[i \in 0 .. Blocks(in)] ==
            IF i = 0 THEN iv ELSE aes_encrypt(key, xor_buf(c[i - 1], BlockOf(in, i)))
    IN  c

aes_encrypt_cbc(in, key, iv) ==
    FlattenSeq([i \in 1 .. Blocks(in) |-> CbcBlocks(in, key, iv)[i]])

aes_encrypt_cbc_mac(in, key, iv) == CbcBlocks(in, key, iv)[Blocks(in)]

Chained(in, iv, i) == IF i = 1 THEN iv ELSE BlockOf(in, i - 1)

aes_decrypt_cbc(in, key, iv) ==
    FlattenSeq([i \in 1 .. Blocks(in) |->
                xor_buf(Chained(in, iv, i), aes_decrypt(key, BlockOf(in, i)))])
=============================================================================
