----------------------------- MODULE PageCrypto -----------------------------
(***************************************************************************)
(* How runtime/mm/page_swap.c encrypts pages: the key made on first use,   *)
(* by whichever caller comes first, the initial vector made of the pageout *)
(* counter, and counter mode over the page.  Module Paging has texts that  *)
(* remember what they were made of; this one has the bytes.                *)
(*                                                                         *)
(* The cipher is one of terms: a byte of a text is the set of terms it is  *)
(* the exclusive or of.                                                    *)
(***************************************************************************)
EXTENDS Integers, Sequences, FiniteSets

CONSTANTS
    Callers,        \* threads, each with a backing page of its own
    BootKeys,       \* what rt_util_getrandom may return
    BYTE,           \* values of a byte
    AES_BLOCK_SIZE,
    CTR_BYTES,      \* bytes of a pageout counter
    PAGE_BLOCKS,    \* blocks of a page
    FirstCounters,  \* the counters of the callers' pages at first, which are random
    MaxSwaps        \* MaxSwaps[c]: evictions of the page of c (a bound)

ASSUME PageCryptoAssumption ==
    CTR_BYTES > 1 /\ AES_BLOCK_SIZE > CTR_BYTES /\ PAGE_BLOCKS <= BYTE

VARIABLES
    pswap_boot_key, pswap_boot_key_reserved, pswap_boot_key_set,
    caller      \* per caller: where it is, its boot_key_tmp, its counter and its texts

pswap == <<pswap_boot_key, pswap_boot_key_reserved, pswap_boot_key_set, caller>>

NoKey == "none"
CTR == BYTE ^ CTR_BYTES

XorTerms(a, b) == (a \ b) \cup (b \ a)
Pad(key, iv) == [i \in 1 .. AES_BLOCK_SIZE |-> {<<key, iv, i>>}]
Terms == INSTANCE Modes WITH aes_encrypt <- Pad, aes_decrypt <- Pad, Xor <- XorTerms

\* What the page of a caller holds.
Page(c) == [i \in 1 .. PAGE_BLOCKS * AES_BLOCK_SIZE |-> {<<c, i>>}]

\* Mutant: the counter lies in the vector the way counter mode counts.
CtrBytes_big(ctr) == [i \in 1 .. CTR_BYTES |-> (ctr \div BYTE^(CTR_BYTES - i)) % BYTE]

\* The counter as it lies in memory, the least significant byte first.
CtrBytes(ctr) == [i \in 1 .. CTR_BYTES |-> (ctr \div BYTE^(i - 1)) % BYTE]

Iv(ctr) == [i \in 1 .. AES_BLOCK_SIZE - CTR_BYTES |-> 0] \o CtrBytes(ctr)

pswap_encrypt(page, ctr) == Terms!aes_encrypt_ctr(page, pswap_boot_key, Iv(ctr))
pswap_decrypt(text, ctr) == Terms!aes_decrypt_ctr(text, pswap_boot_key, Iv(ctr))

PswapIdle ==
    /\ pswap_boot_key = NoKey /\ pswap_boot_key_reserved = FALSE /\ pswap_boot_key_set = FALSE
    /\ caller = [c \in Callers |-> [at |-> "idle"]]

PswapStart ==
    /\ pswap_boot_key = NoKey /\ pswap_boot_key_reserved = FALSE /\ pswap_boot_key_set = FALSE
    /\ \E first \in FirstCounters :
          caller = [c \in Callers |-> [at |-> "check", tmp |-> NoKey, ctr |-> first[c], texts |-> <<>>]]

(***************************************************************************)
(* pswap_establish_boot_key, split at its atomic operations.               *)
(***************************************************************************)
Goto(c, at) == caller' = [caller EXCEPT ![c].at = at]

CheckKey(c) ==
    /\ caller[c].at = "check"
    /\ Goto(c, IF pswap_boot_key_set THEN "swap" ELSE "random")
    /\ UNCHANGED <<pswap_boot_key, pswap_boot_key_reserved, pswap_boot_key_set>>

GetRandom(c) ==
    /\ caller[c].at = "random"
    /\ \E key \in BootKeys : caller' = [caller EXCEPT ![c].at = "reserve", ![c].tmp = key]
    /\ UNCHANGED <<pswap_boot_key, pswap_boot_key_reserved, pswap_boot_key_set>>

Lost == "spin"

Reserve(c) ==
    /\ caller[c].at = "reserve"
    /\ Goto(c, IF pswap_boot_key_reserved THEN Lost ELSE "copy")
    /\ pswap_boot_key_reserved' = TRUE
    /\ UNCHANGED <<pswap_boot_key, pswap_boot_key_set>>

CopyKey(c) ==
    /\ caller[c].at = "copy"
    /\ pswap_boot_key' = caller[c].tmp
    /\ Goto(c, "publish")
    /\ UNCHANGED <<pswap_boot_key_reserved, pswap_boot_key_set>>

Publish(c) ==
    /\ caller[c].at = "publish"
    /\ pswap_boot_key_set' = TRUE
    /\ Goto(c, "swap")
    /\ UNCHANGED <<pswap_boot_key, pswap_boot_key_reserved>>

Spin(c) ==
    /\ caller[c].at = "spin" /\ pswap_boot_key_set
    /\ Goto(c, "swap")
    /\ UNCHANGED <<pswap_boot_key, pswap_boot_key_reserved, pswap_boot_key_set>>

(***************************************************************************)
(* The rest of page_swap_epm: the page goes out under the next counter.    *)
(***************************************************************************)
SwapOut(c) ==
    LET ctr == (caller[c].ctr + 1) % CTR
        text == [ctr |-> ctr, key |-> pswap_boot_key, bytes |-> pswap_encrypt(Page(c), ctr)]
    IN  /\ caller[c].at = "swap" /\ Len(caller[c].texts) < MaxSwaps[c]
        /\ caller' = [caller EXCEPT ![c].at = "check", ![c].ctr = ctr,
                                    ![c].texts = Append(@, text)]
        /\ UNCHANGED <<pswap_boot_key, pswap_boot_key_reserved, pswap_boot_key_set>>

PswapNext ==
    \E c \in Callers : CheckKey(c) \/ GetRandom(c) \/ Reserve(c) \/ CopyKey(c) \/ Publish(c)
                       \/ Spin(c) \/ SwapOut(c)

(***************************************************************************)
(* Properties.                                                             *)
(***************************************************************************)
\* Whatever other callers did in the meantime, a text decrypts with the key and the
\* counter of now to the page it was made of: the key is set once and before it is
\* used (pswap_establish_boot_key, pswap_encrypt, pswap_decrypt).
TextsDecrypt ==
    \A c \in Callers : caller[c].at # "idle" =>
        \A i \in 1 .. Len(caller[c].texts) :
            LET t == caller[c].texts[i] IN pswap_decrypt(t.bytes, t.ctr) = Page(c)

\* The terms of the cipher in a text.
PadOf(c, t) == UNION {t.bytes[i] \ Page(c)[i] : i \in DOMAIN t.bytes}

\* No byte of pad is used for two evictions of a page, wherever its counter started
\* and whichever bytes it carried into, until the counter wraps or has counted
\* through nearly all but its highest byte: the blocks of a page count in the last
\* byte of the vector, which is that one (increment_iv, pswap_encrypt, page_swap_epm).
PadsFresh ==
    \A c \in Callers : caller[c].at # "idle" =>
        LET texts == caller[c].texts IN
        \A i, j \in 1 .. Len(texts) :
            texts[j].ctr - texts[i].ctr \in 1 .. BYTE^(CTR_BYTES - 1) - BYTE^(CTR_BYTES - 2) - 1
                => PadOf(c, texts[i]) \cap PadOf(c, texts[j]) = {}

\* An evicted page decrypts to itself and no pad encrypts two of its versions
\* (pswap_establish_boot_key, pswap_encrypt, increment_iv).
PagesSealed == TextsDecrypt /\ PadsFresh
=============================================================================
