-------------------------- MODULE MCRuntimeCrypto --------------------------
(***************************************************************************)
(* Small instances of the four parts of the runtime's cryptography and of  *)
(* its formatted output, one of which moves in a behaviour:                *)
(*   - Merkle: four keys, which make trees of every shape up to depth      *)
(*     five, in two pages that the nodes fill but for one;                 *)
(*   - AesSha256: the examples of the standards; texts that end before, at *)
(*     and behind the end of a block with vectors that carry;              *)
(*     messages of two pieces that end before, at and behind the last      *)
(*     eight bytes of a block;                                             *)
(*   - PageCrypto: two callers that race for the key, bytes of three       *)
(*     values, and every counter a page may start with;                    *)
(*   - Printf: every set of flags with widths around the length of the     *)
(*     number, every length with arguments beyond its range, and formats   *)
(*     of three directives into buffers of no byte, one, and some.         *)
(***************************************************************************)
EXTENDS Merkle, AesSha256, PageCrypto, Printf, TLC

CONSTANTS h1, h2, c1, c2

MCKeys == 1 .. 4
MCHashes == {h1, h2}
Symmetry == Permutations(MCHashes)

\* Examples of FIPS 197 (appendix C) and SP 800-38A (appendix F).
Count(n) == [i \in 1 .. n |-> i - 1]
Elevens == [i \in 1 .. 16 |-> 17 * (i - 1)]
Key256 == <<96, 61, 235, 16, 21, 202, 113, 190, 43, 115, 174, 240, 133, 125, 119, 129,
            31, 53, 44, 7, 59, 97, 8, 215, 45, 152, 16, 163, 9, 20, 223, 244>>
Text == <<107, 193, 190, 226, 46, 64, 159, 150, 233, 61, 126, 17, 115, 147, 23, 42,
          174, 45, 138, 87, 30, 3, 172, 156, 158, 183, 111, 172, 69, 175, 142, 81>>
CtrStart == [i \in 1 .. 16 |-> 239 + i]
Use(mode, key, text, iv) == [mode |-> mode, key |-> key, text |-> text, iv |-> iv]
Answer(u, out) == [use |-> u, out |-> out]
MCKnownAnswers == {
    Answer(Use("block", Count(16), Elevens, <<>>),
           <<105, 196, 224, 216, 106, 123, 4, 48, 216, 205, 183, 128, 112, 180, 197, 90>>),
    Answer(Use("block", Count(24), Elevens, <<>>),
           <<221, 169, 124, 164, 134, 76, 223, 224, 110, 175, 112, 160, 236, 13, 113, 145>>),
    Answer(Use("block", Count(32), Elevens, <<>>),
           <<142, 162, 183, 202, 81, 103, 69, 191, 234, 252, 73, 144, 75, 73, 96, 137>>),
    Answer(Use("ctr", Key256, Text, CtrStart),
           <<96, 30, 195, 19, 119, 87, 137, 165, 183, 167, 245, 4, 187, 243, 210, 40,
             244, 67, 227, 202, 77, 98, 181, 154, 202, 132, 233, 144, 202, 202, 245, 197>>),
    Answer(Use("cbc", Key256, Text, Count(16)),
           <<245, 140, 76, 4, 214, 229, 241, 186, 119, 158, 171, 251, 95, 123, 251, 214,
             156, 252, 78, 150, 126, 219, 128, 141, 103, 159, 119, 123, 198, 112, 44, 125>>),
    Answer(Use("mac", Key256, Text, Count(16)),
           <<156, 252, 78, 150, 126, 219, 128, 141, 103, 159, 119, 123, 198, 112, 44, 125>>)}
MCIvs == {Count(16), [i \in 1 .. 16 |-> 255], [i \in 1 .. 16 |-> IF i < 15 THEN i ELSE 255]}
MCUses ==
    {a.use : a \in MCKnownAnswers}
      \cup {Use("ctr", Count(32), [i \in 1 .. n |-> (7 * i) % 256], iv) :
                n \in {1, 15, 16, 17, 33}, iv \in MCIvs}

\* Examples of FIPS 180-4 ("abc" and the message of 448 bits).
ABC == <<97, 98, 99>>
Long == [i \in 1 .. 56 |-> 97 + ((i - 1) \div 4) + ((i - 1) % 4)]
MCKnownHashes == {
    [message |-> ABC,
     hash |-> <<186, 120, 22, 191, 143, 1, 207, 234, 65, 65, 64, 222, 93, 174, 34, 35,
                176, 3, 97, 163, 150, 23, 122, 156, 180, 16, 255, 97, 242, 0, 21, 173>>],
    [message |-> Long,
     hash |-> <<36, 141, 106, 97, 210, 6, 56, 184, 229, 192, 38, 147, 12, 62, 96, 57,
                163, 60, 228, 89, 100, 255, 33, 103, 246, 236, 237, 212, 25, 219, 6, 193>>]}
MCPieces == {ABC, Long} \cup {[i \in 1 .. n |-> i] : n \in {8, 61, 64}}

MCFirstCounters == {f \in [{c1, c2} -> 0 .. 26] : f[c2] = 0}
MCMaxSwaps == [c \in {c1, c2} |-> IF c = c1 THEN 6 ELSE 1]

MCBits == [char |-> 3, short |-> 4, int |-> 5, long |-> 8]
MCPart(flags, width, star, prec, length, spec, arg) ==
    [flags |-> flags, width |-> width, star |-> star, prec |-> prec,
     length |-> length, spec |-> spec, arg |-> arg]
MCIntegers == {MCPart(f, w, FALSE, p, <<>>, s, a) :
    f \in SUBSET {"0", "-", "+", " ", "#"}, w \in {0, 3, 4, 5}, p \in {-1, 0, 3},
    s \in {"d", "u", "x", "X", "o", "b"}, a \in {0, 5, -5, 12, -16}}
MCLengths == {MCPart({"0"}, 6, TRUE, -1, l, s, a) :
    l \in {<<>>, <<"h">>, <<"h", "h">>, <<"l">>, <<"l", "l">>, <<"t">>, <<"j">>, <<"z">>},
    s \in {"i", "u", "x"}, a \in -40 .. 40}
MCPlain(spec, arg) == MCPart({}, 0, FALSE, -1, <<>>, spec, arg)
MCStrings ==
    {MCPart(f, w, star, p, <<>>, "s", a) : f \in SUBSET {"0", "-"}, w \in {0, 2, 5}, star \in BOOLEAN,
                                           p \in {-1, 0, 2, 5}, a \in {<<>>, <<"a", "b", "c">>}}
    \cup {MCPart(f, w, TRUE, -1, <<>>, "c", "k") : f \in SUBSET {"-"}, w \in {0, 2, -3}}
    \cup {MCPlain("char", "k"), MCPlain("%", "k")} \cup {MCPlain("p", n) : n \in {0, 10, 63}}
MCJobs ==
    {[parts |-> <<p>>, size |-> 4] : p \in MCIntegers \cup MCLengths \cup MCStrings}
    \cup {[parts |-> <<p, MCPart({}, 2, TRUE, 1, <<"l">>, "d", 1), p>>, size |-> z] :
              p \in MCStrings, z \in {0, 1, 4, 9}}

MCInit ==
    /\ Init
    /\ \/ CipherIdle /\ HasherIdle /\ PswapIdle /\ PrintIdle
       \/ CipherStart /\ HasherIdle /\ PswapIdle /\ PrintIdle
       \/ CipherIdle /\ HasherStart /\ PswapIdle /\ PrintIdle
       \/ CipherIdle /\ HasherIdle /\ PswapStart /\ PrintIdle
       \/ CipherIdle /\ HasherIdle /\ PswapIdle /\ PrintStart
MCNext ==
    \/ /\ CipherIdle /\ HasherIdle /\ PswapIdle /\ PrintIdle /\ Next
       /\ UNCHANGED <<use, hasher, pswap, print>>
    \/ CipherNext /\ UNCHANGED <<vars, hasher, pswap, print>>
    \/ HasherNext /\ UNCHANGED <<vars, use, pswap, print>>
    \/ PswapNext /\ UNCHANGED <<vars, use, hasher, print>>
    \/ PrintNext /\ UNCHANGED <<vars, use, hasher, pswap>>
MCSpec == MCInit /\ [][MCNext]_<<vars, use, hasher, pswap, print>>

\* The tables of the cipher are those of its field, what is encrypted decrypts, a hash is
\* that of the whole message, and both agree with their standards (aes.c, sha256.c).
MatchStandards ==
    TablesGenuine /\ Decrypts /\ MatchesStandard /\ HashesWhole /\ HashesMatchStandard
=============================================================================
