----------------------------- MODULE AesSha256 -----------------------------
(***************************************************************************)
(* The block cipher of runtime/crypto/aes.c and the hash of                *)
(* runtime/crypto/sha256.c, byte for byte.  A word of the cipher is a      *)
(* sequence of four bytes, the most significant first; its state is the    *)
(* sequence of its columns.                                                *)
(***************************************************************************)
EXTENDS Integers, Sequences, SequencesExt, Bitwise

(***************************************************************************)
(* The tables, entry by entry: the substitution of bytes and its inverse,  *)
(* by high and low nibble, and for every byte its products with 2, 3, 9,   *)
(* 11, 13 and 14.                                                          *)
(***************************************************************************)
aes_sbox == <<
    <<99, 124, 119, 123, 242, 107, 111, 197, 48, 1, 103, 43, 254, 215, 171, 118>>,
    <<202, 130, 201, 125, 250, 89, 71, 240, 173, 212, 162, 175, 156, 164, 114, 192>>,
    <<183, 253, 147, 38, 54, 63, 247, 204, 52, 165, 229, 241, 113, 216, 49, 21>>,
    <<4, 199, 35, 195, 24, 150, 5, 154, 7, 18, 128, 226, 235, 39, 178, 117>>,
    <<9, 131, 44, 26, 27, 110, 90, 160, 82, 59, 214, 179, 41, 227, 47, 132>>,
    <<83, 209, 0, 237, 32, 252, 177, 91, 106, 203, 190, 57, 74, 76, 88, 207>>,
    <<208, 239, 170, 251, 67, 77, 51, 133, 69, 249, 2, 127, 80, 60, 159, 168>>,
    <<81, 163, 64, 143, 146, 157, 56, 245, 188, 182, 218, 33, 16, 255, 243, 210>>,
    <<205, 12, 19, 236, 95, 151, 68, 23, 196, 167, 126, 61, 100, 93, 25, 115>>,
    <<96, 129, 79, 220, 34, 42, 144, 136, 70, 238, 184, 20, 222, 94, 11, 219>>,
    <<224, 50, 58, 10, 73, 6, 36, 92, 194, 211, 172, 98, 145, 149, 228, 121>>,
    <<231, 200, 55, 109, 141, 213, 78, 169, 108, 86, 244, 234, 101, 122, 174, 8>>,
    <<186, 120, 37, 46, 28, 166, 180, 198, 232, 221, 116, 31, 75, 189, 139, 138>>,
    <<112, 62, 181, 102, 72, 3, 246, 14, 97, 53, 87, 185, 134, 193, 29, 158>>,
    <<225, 248, 152, 17, 105, 217, 142, 148, 155, 30, 135, 233, 206, 85, 40, 223>>,
    <<140, 161, 137, 13, 191, 230, 66, 104, 65, 153, 45, 15, 176, 84, 187, 22>>>>

aes_invsbox == <<
    <<82, 9, 106, 213, 48, 54, 165, 56, 191, 64, 163, 158, 129, 243, 215, 251>>,
    <<124, 227, 57, 130, 155, 47, 255, 135, 52, 142, 67, 68, 196, 222, 233, 203>>,
    <<84, 123, 148, 50, 166, 194, 35, 61, 238, 76, 149, 11, 66, 250, 195, 78>>,
    <<8, 46, 161, 102, 40, 217, 36, 178, 118, 91, 162, 73, 109, 139, 209, 37>>,
    <<114, 248, 246, 100, 134, 104, 152, 22, 212, 164, 92, 204, 93, 101, 182, 146>>,
    <<108, 112, 72, 80, 253, 237, 185, 218, 94, 21, 70, 87, 167, 141, 157, 132>>,
    <<144, 216, 171, 0, 140, 188, 211, 10, 247, 228, 88, 5, 184, 179, 69, 6>>,
    <<208, 44, 30, 143, 202, 63, 15, 2, 193, 175, 189, 3, 1, 19, 138, 107>>,
    <<58, 145, 17, 65, 79, 103, 220, 234, 151, 242, 207, 206, 240, 180, 230, 115>>,
    <<150, 172, 116, 34, 231, 173, 53, 133, 226, 249, 55, 232, 28, 117, 223, 110>>,
    <<71, 241, 26, 113, 29, 41, 197, 137, 111, 183, 98, 14, 170, 24, 190, 27>>,
    <<252, 86, 62, 75, 198, 210, 121, 32, 154, 219, 192, 254, 120, 205, 90, 244>>,
    <<31, 221, 168, 51, 136, 7, 199, 49, 177, 18, 16, 89, 39, 128, 236, 95>>,
    <<96, 81, 127, 169, 25, 181, 74, 13, 45, 229, 122, 159, 147, 201, 156, 239>>,
    <<160, 224, 59, 77, 174, 42, 245, 176, 200, 235, 187, 60, 131, 83, 153, 97>>,
    <<23, 43, 4, 126, 186, 119, 214, 38, 225, 105, 20, 99, 85, 33, 12, 125>>>>

gf_mul == <<
    <<0, 0, 0, 0, 0, 0>>, <<2, 3, 9, 11, 13, 14>>, <<4, 6, 18, 22, 26, 28>>,
    <<6, 5, 27, 29, 23, 18>>, <<8, 12, 36, 44, 52, 56>>, <<10, 15, 45, 39, 57, 54>>,
    <<12, 10, 54, 58, 46, 36>>, <<14, 9, 63, 49, 35, 42>>, <<16, 24, 72, 88, 104, 112>>,
    <<18, 27, 65, 83, 101, 126>>, <<20, 30, 90, 78, 114, 108>>, <<22, 29, 83, 69, 127, 98>>,
    <<24, 20, 108, 116, 92, 72>>, <<26, 23, 101, 127, 81, 70>>, <<28, 18, 126, 98, 70, 84>>,
    <<30, 17, 119, 105, 75, 90>>, <<32, 48, 144, 176, 208, 224>>, <<34, 51, 153, 187, 221, 238>>,
    <<36, 54, 130, 166, 202, 252>>, <<38, 53, 139, 173, 199, 242>>, <<40, 60, 180, 156, 228, 216>>,
    <<42, 63, 189, 151, 233, 214>>, <<44, 58, 166, 138, 254, 196>>, <<46, 57, 175, 129, 243, 202>>,
    <<48, 40, 216, 232, 184, 144>>, <<50, 43, 209, 227, 181, 158>>, <<52, 46, 202, 254, 162, 140>>,
    <<54, 45, 195, 245, 175, 130>>, <<56, 36, 252, 196, 140, 168>>, <<58, 39, 245, 207, 129, 166>>,
    <<60, 34, 238, 210, 150, 180>>, <<62, 33, 231, 217, 155, 186>>, <<64, 96, 59, 123, 187, 219>>,
    <<66, 99, 50, 112, 182, 213>>, <<68, 102, 41, 109, 161, 199>>, <<70, 101, 32, 102, 172, 201>>,
    <<72, 108, 31, 87, 143, 227>>, <<74, 111, 22, 92, 130, 237>>, <<76, 106, 13, 65, 149, 255>>,
    <<78, 105, 4, 74, 152, 241>>, <<80, 120, 115, 35, 211, 171>>, <<82, 123, 122, 40, 222, 165>>,
    <<84, 126, 97, 53, 201, 183>>, <<86, 125, 104, 62, 196, 185>>, <<88, 116, 87, 15, 231, 147>>,
    <<90, 119, 94, 4, 234, 157>>, <<92, 114, 69, 25, 253, 143>>, <<94, 113, 76, 18, 240, 129>>,
    <<96, 80, 171, 203, 107, 59>>, <<98, 83, 162, 192, 102, 53>>, <<100, 86, 185, 221, 113, 39>>,
    <<102, 85, 176, 214, 124, 41>>, <<104, 92, 143, 231, 95, 3>>, <<106, 95, 134, 236, 82, 13>>,
    <<108, 90, 157, 241, 69, 31>>, <<110, 89, 148, 250, 72, 17>>, <<112, 72, 227, 147, 3, 75>>,
    <<114, 75, 234, 152, 14, 69>>, <<116, 78, 241, 133, 25, 87>>, <<118, 77, 248, 142, 20, 89>>,
    <<120, 68, 199, 191, 55, 115>>, <<122, 71, 206, 180, 58, 125>>, <<124, 66, 213, 169, 45, 111>>,
    <<126, 65, 220, 162, 32, 97>>, <<128, 192, 118, 246, 109, 173>>, <<130, 195, 127, 253, 96, 163>>,
    <<132, 198, 100, 224, 119, 177>>, <<134, 197, 109, 235, 122, 191>>, <<136, 204, 82, 218, 89, 149>>,
    <<138, 207, 91, 209, 84, 155>>, <<140, 202, 64, 204, 67, 137>>, <<142, 201, 73, 199, 78, 135>>,
    <<144, 216, 62, 174, 5, 221>>, <<146, 219, 55, 165, 8, 211>>, <<148, 222, 44, 184, 31, 193>>,
    <<150, 221, 37, 179, 18, 207>>, <<152, 212, 26, 130, 49, 229>>, <<154, 215, 19, 137, 60, 235>>,
    <<156, 210, 8, 148, 43, 249>>, <<158, 209, 1, 159, 38, 247>>, <<160, 240, 230, 70, 189, 77>>,
    <<162, 243, 239, 77, 176, 67>>, <<164, 246, 244, 80, 167, 81>>, <<166, 245, 253, 91, 170, 95>>,
    <<168, 252, 194, 106, 137, 117>>, <<170, 255, 203, 97, 132, 123>>, <<172, 250, 208, 124, 147, 105>>,
    <<174, 249, 217, 119, 158, 103>>, <<176, 232, 174, 30, 213, 61>>, <<178, 235, 167, 21, 216, 51>>,
    <<180, 238, 188, 8, 207, 33>>, <<182, 237, 181, 3, 194, 47>>, <<184, 228, 138, 50, 225, 5>>,
    <<186, 231, 131, 57, 236, 11>>, <<188, 226, 152, 36, 251, 25>>, <<190, 225, 145, 47, 246, 23>>,
    <<192, 160, 77, 141, 214, 118>>, <<194, 163, 68, 134, 219, 120>>, <<196, 166, 95, 155, 204, 106>>,
    <<198, 165, 86, 144, 193, 100>>, <<200, 172, 105, 161, 226, 78>>, <<202, 175, 96, 170, 239, 64>>,
    <<204, 170, 123, 183, 248, 82>>, <<206, 169, 114, 188, 245, 92>>, <<208, 184, 5, 213, 190, 6>>,
    <<210, 187, 12, 222, 179, 8>>, <<212, 190, 23, 195, 164, 26>>, <<214, 189, 30, 200, 169, 20>>,
    <<216, 180, 33, 249, 138, 62>>, <<218, 183, 40, 242, 135, 48>>, <<220, 178, 51, 239, 144, 34>>,
    <<222, 177, 58, 228, 157, 44>>, <<224, 144, 221, 61, 6, 150>>, <<226, 147, 212, 54, 11, 152>>,
    <<228, 150, 207, 43, 28, 138>>, <<230, 149, 198, 32, 17, 132>>, <<232, 156, 249, 17, 50, 174>>,
    <<234, 159, 240, 26, 63, 160>>, <<236, 154, 235, 7, 40, 178>>, <<238, 153, 226, 12, 37, 188>>,
    <<240, 136, 149, 101, 110, 230>>, <<242, 139, 156, 110, 99, 232>>, <<244, 142, 135, 115, 116, 250>>,
    <<246, 141, 142, 120, 121, 244>>, <<248, 132, 177, 73, 90, 222>>, <<250, 135, 184, 66, 87, 208>>,
    <<252, 130, 163, 95, 64, 194>>, <<254, 129, 170, 84, 77, 204>>, <<27, 155, 236, 247, 218, 65>>,
    <<25, 152, 229, 252, 215, 79>>, <<31, 157, 254, 225, 192, 93>>, <<29, 158, 247, 234, 205, 83>>,
    <<19, 151, 200, 219, 238, 121>>, <<17, 148, 193, 208, 227, 119>>, <<23, 145, 218, 205, 244, 101>>,
    <<21, 146, 211, 198, 249, 107>>, <<11, 131, 164, 175, 178, 49>>, <<9, 128, 173, 164, 191, 63>>,
    <<15, 133, 182, 185, 168, 45>>, <<13, 134, 191, 178, 165, 35>>, <<3, 143, 128, 131, 134, 9>>,
    <<1, 140, 137, 136, 139, 7>>, <<7, 137, 146, 149, 156, 21>>, <<5, 138, 155, 158, 145, 27>>,
    <<59, 171, 124, 71, 10, 161>>, <<57, 168, 117, 76, 7, 175>>, <<63, 173, 110, 81, 16, 189>>,
    <<61, 174, 103, 90, 29, 179>>, <<51, 167, 88, 107, 62, 153>>, <<49, 164, 81, 96, 51, 151>>,
    <<55, 161, 74, 125, 36, 133>>, <<53, 162, 67, 118, 41, 139>>, <<43, 179, 52, 31, 98, 209>>,
    <<41, 176, 61, 20, 111, 223>>, <<47, 181, 38, 9, 120, 205>>, <<45, 182, 47, 2, 117, 195>>,
    <<35, 191, 16, 51, 86, 233>>, <<33, 188, 25, 56, 91, 231>>, <<39, 185, 2, 37, 76, 245>>,
    <<37, 186, 11, 46, 65, 251>>, <<91, 251, 215, 140, 97, 154>>, <<89, 248, 222, 135, 108, 148>>,
    <<95, 253, 197, 154, 123, 134>>, <<93, 254, 204, 145, 118, 136>>, <<83, 247, 243, 160, 85, 162>>,
    <<81, 244, 250, 171, 88, 172>>, <<87, 241, 225, 182, 79, 190>>, <<85, 242, 232, 189, 66, 176>>,
    <<75, 227, 159, 212, 9, 234>>, <<73, 224, 150, 223, 4, 228>>, <<79, 229, 141, 194, 19, 246>>,
    <<77, 230, 132, 201, 30, 248>>, <<67, 239, 187, 248, 61, 210>>, <<65, 236, 178, 243, 48, 220>>,
    <<71, 233, 169, 238, 39, 206>>, <<69, 234, 160, 229, 42, 192>>, <<123, 203, 71, 60, 177, 122>>,
    <<121, 200, 78, 55, 188, 116>>, <<127, 205, 85, 42, 171, 102>>, <<125, 206, 92, 33, 166, 104>>,
    <<115, 199, 99, 16, 133, 66>>, <<113, 196, 106, 27, 136, 76>>, <<119, 193, 113, 6, 159, 94>>,
    <<117, 194, 120, 13, 146, 80>>, <<107, 211, 15, 100, 217, 10>>, <<105, 208, 6, 111, 212, 4>>,
    <<111, 213, 29, 114, 195, 22>>, <<109, 214, 20, 121, 206, 24>>, <<99, 223, 43, 72, 237, 50>>,
    <<97, 220, 34, 67, 224, 60>>, <<103, 217, 57, 94, 247, 46>>, <<101, 218, 48, 85, 250, 32>>,
    <<155, 91, 154, 1, 183, 236>>, <<153, 88, 147, 10, 186, 226>>, <<159, 93, 136, 23, 173, 240>>,
    <<157, 94, 129, 28, 160, 254>>, <<147, 87, 190, 45, 131, 212>>, <<145, 84, 183, 38, 142, 218>>,
    <<151, 81, 172, 59, 153, 200>>, <<149, 82, 165, 48, 148, 198>>, <<139, 67, 210, 89, 223, 156>>,
    <<137, 64, 219, 82, 210, 146>>, <<143, 69, 192, 79, 197, 128>>, <<141, 70, 201, 68, 200, 142>>,
    <<131, 79, 246, 117, 235, 164>>, <<129, 76, 255, 126, 230, 170>>, <<135, 73, 228, 99, 241, 184>>,
    <<133, 74, 237, 104, 252, 182>>, <<187, 107, 10, 177, 103, 12>>, <<185, 104, 3, 186, 106, 2>>,
    <<191, 109, 24, 167, 125, 16>>, <<189, 110, 17, 172, 112, 30>>, <<179, 103, 46, 157, 83, 52>>,
    <<177, 100, 39, 150, 94, 58>>, <<183, 97, 60, 139, 73, 40>>, <<181, 98, 53, 128, 68, 38>>,
    <<171, 115, 66, 233, 15, 124>>, <<169, 112, 75, 226, 2, 114>>, <<175, 117, 80, 255, 21, 96>>,
    <<173, 118, 89, 244, 24, 110>>, <<163, 127, 102, 197, 59, 68>>, <<161, 124, 111, 206, 54, 74>>,
    <<167, 121, 116, 211, 33, 88>>, <<165, 122, 125, 216, 44, 86>>, <<219, 59, 161, 122, 12, 55>>,
    <<217, 56, 168, 113, 1, 57>>, <<223, 61, 179, 108, 22, 43>>, <<221, 62, 186, 103, 27, 37>>,
    <<211, 55, 133, 86, 56, 15>>, <<209, 52, 140, 93, 53, 1>>, <<215, 49, 151, 64, 34, 19>>,
    <<213, 50, 158, 75, 47, 29>>, <<203, 35, 233, 34, 100, 71>>, <<201, 32, 224, 41, 105, 73>>,
    <<207, 37, 251, 52, 126, 91>>, <<205, 38, 242, 63, 115, 85>>, <<195, 47, 205, 14, 80, 127>>,
    <<193, 44, 196, 5, 93, 113>>, <<199, 41, 223, 24, 74, 99>>, <<197, 42, 214, 19, 71, 109>>,
    <<251, 11, 49, 202, 220, 215>>, <<249, 8, 56, 193, 209, 217>>, <<255, 13, 35, 220, 198, 203>>,
    <<253, 14, 42, 215, 203, 197>>, <<243, 7, 21, 230, 232, 239>>, <<241, 4, 28, 237, 229, 225>>,
    <<247, 1, 7, 240, 242, 243>>, <<245, 2, 14, 251, 255, 253>>, <<235, 19, 121, 146, 180, 167>>,
    <<233, 16, 112, 153, 185, 169>>, <<239, 21, 107, 132, 174, 187>>, <<237, 22, 98, 143, 163, 181>>,
    <<227, 31, 93, 190, 128, 159>>, <<225, 28, 84, 181, 141, 145>>, <<231, 25, 79, 168, 154, 131>>,
    <<229, 26, 70, 163, 151, 141>>>>

(***************************************************************************)
(* The cipher.                                                             *)
(***************************************************************************)
Bytes == 0 .. 255

\* SubSeq of a whole sequence: the same sequence, element by element.
Whole(s) == SubSeq(s, 1, Len(s))

\* Row and column of an element, and the element at a row and a column.
Row(i) == (i - 1) % 4
Column(i) == (i - 1) \div 4
At(state, r, c) == state[4 * (c % 4) + (r % 4) + 1]

XOR == Whole([a \in 1 .. 256 |-> Whole([b \in 1 .. 256 |-> (a - 1) ^^ (b - 1)])])
XorBytes(a, b) == XOR[a + 1][b + 1]
XorWords(a, b) == Whole([i \in 1 .. 4 |-> XorBytes(a[i], b[i])])

Substitute(table, x) == table[(x \div 16) + 1][(x % 16) + 1]

SubBytes(state) == [i \in 1 .. 16 |-> Substitute(aes_sbox, state[i])]
InvSubBytes(state) == [i \in 1 .. 16 |-> Substitute(aes_invsbox, state[i])]

ShiftRows(state) == [i \in 1 .. 16 |-> At(state, Row(i), Column(i) + Row(i))]
InvShiftRows(state) == [i \in 1 .. 16 |-> At(state, Row(i), Column(i) - Row(i))]

\* The products of gf_mul, whose columns are 2, 3, 9, 11, 13 and 14.
Times(factor, x) ==
    IF factor = 1 THEN x
    ELSE gf_mul[x + 1][CHOOSE i \in 1 .. 6 : <<2, 3, 9, 11, 13, 14>>[i] = factor]

\* An element of the product with the circulant matrix that has the given first row.
Mixed(state, row, i) ==
    LET term(k) == Times(row[((k - Row(i)) % 4) + 1], At(state, k, Column(i)))
    IN  XorBytes(XorBytes(term(0), term(1)), XorBytes(term(2), term(3)))

MixColumns(state) == [i \in 1 .. 16 |-> Mixed(state, <<2, 3, 1, 1>>, i)]
InvMixColumns(state) == [i \in 1 .. 16 |-> Mixed(state, <<14, 11, 13, 9>>, i)]

AddRoundKey(state, w, round) ==
    [i \in 1 .. 16 |-> XorBytes(state[i], w[4 * round + Column(i) + 1][Row(i) + 1])]

(***************************************************************************)
(* The key schedule.                                                       *)
(***************************************************************************)
SubWord(word) == [i \in 1 .. 4 |-> Substitute(aes_sbox, word[i])]
KE_ROTWORD(word) == Append(Tail(word), Head(word))
Rcon == <<1, 2, 4, 8, 16, 32, 64, 128, 27, 54, 108, 216, 171, 77, 154>>

Nk(keysize) == keysize \div 32
Nr(keysize) == Nk(keysize) + 6

Temp(word, idx, nk) ==
    IF idx % nk = 0 THEN XorWords(SubWord(KE_ROTWORD(word)), <<Rcon[(idx - 1) \div nk + 1], 0, 0, 0>>)
    ELSE IF nk > 6 /\ idx % nk = 4 THEN SubWord(word)
    ELSE word

\* The one element of a set.  A result bound as one is computed once, first.
One(set) == CHOOSE x \in set : TRUE

\* The words lo to hi of the schedule, behind the ones before them.
RECURSIVE Expanded(_, _, _, _)
Expanded(w, nk, lo, hi) ==
    LET mid == (lo + hi) \div 2 IN
    IF lo = hi THEN Append(w, XorWords(w[lo + 1 - nk], Temp(w[lo], lo, nk)))
    ELSE One({Expanded(v, nk, mid + 1, hi) : v \in {Expanded(w, nk, lo, mid)}})

\* w as a sequence: word idx of the code is the element idx + 1.
aes_key_setup(key, keysize) ==
    LET nk == Nk(keysize)
        first == [i \in 1 .. nk |-> SubSeq(key, 4 * i - 3, 4 * i)]
    IN  Expanded(first, nk, nk, 4 * (Nr(keysize) + 1) - 1)

(***************************************************************************)
(* Blocks.  A key is a schedule with its size.                             *)
(***************************************************************************)
EncryptRound(state, w, round) == Whole(AddRoundKey(MixColumns(ShiftRows(SubBytes(state))), w, round))
DecryptRound(state, w, round) ==
    Whole(InvMixColumns(AddRoundKey(InvSubBytes(InvShiftRows(state)), w, round)))

\* Rounds lo to hi, and rounds hi to lo.
RECURSIVE EncryptRounds(_, _, _, _), DecryptRounds(_, _, _, _)
EncryptRounds(state, w, lo, hi) ==
    LET mid == (lo + hi) \div 2 IN
    IF lo = hi THEN EncryptRound(state, w, lo)
    ELSE One({EncryptRounds(s, w, mid + 1, hi) : s \in {EncryptRounds(state, w, lo, mid)}})
DecryptRounds(state, w, lo, hi) ==
    LET mid == (lo + hi) \div 2 IN
    IF lo = hi THEN DecryptRound(state, w, lo)
    ELSE One({DecryptRounds(s, w, lo, mid) : s \in {DecryptRounds(state, w, mid + 1, hi)}})

aes_encrypt(key, in) ==
    LET first == Whole(AddRoundKey(in, key.w, 0))
        state == EncryptRounds(first, key.w, 1, Nr(key.size) - 1)
    IN  Whole(AddRoundKey(ShiftRows(SubBytes(state)), key.w, Nr(key.size)))

aes_decrypt(key, in) ==
    LET first == Whole(AddRoundKey(in, key.w, Nr(key.size)))
        state == DecryptRounds(first, key.w, 1, Nr(key.size) - 1)
    IN  Whole(AddRoundKey(InvSubBytes(InvShiftRows(state)), key.w, 0))

Real == INSTANCE Modes WITH BYTE <- 256, AES_BLOCK_SIZE <- 16, Xor <- XorBytes

(***************************************************************************)
(* A use of the cipher: a key is set up, then a text is encrypted and      *)
(* decrypted, in one of the modes.                                         *)
(***************************************************************************)
CONSTANT Uses       \* the uses there are, records of mode, key, text and iv

VARIABLE use        \* the use under way, with its schedule and the two results

NoUse == [stage |-> "none"]
CipherIdle == use = NoUse
CipherStart == \E u \in Uses : use = [stage |-> "start", in |-> u]

KeySetup ==
    /\ use.stage = "start"
    /\ LET size == 8 * Len(use.in.key) IN
       use' = [stage |-> "keyed", in |-> use.in,
               key |-> [size |-> size, w |-> aes_key_setup(use.in.key, size)]]

Encrypted(mode, key, text, iv) ==
    CASE mode = "block" -> aes_encrypt(key, text)
      [] mode = "ctr" -> Real!aes_encrypt_ctr(text, key, iv)
      [] mode = "cbc" -> Real!aes_encrypt_cbc(text, key, iv)
      [] mode = "mac" -> Real!aes_encrypt_cbc_mac(text, key, iv)

Decrypted(mode, key, text, iv) ==
    CASE mode = "block" -> aes_decrypt(key, text)
      [] mode = "ctr" -> Real!aes_decrypt_ctr(text, key, iv)
      [] mode = "cbc" -> Real!aes_decrypt_cbc(text, key, iv)

Encrypt ==
    /\ use.stage = "keyed"
    /\ use' = [stage |-> IF use.in.mode = "mac" THEN "ended" ELSE "encrypted", in |-> use.in,
               key |-> use.key, out |-> Encrypted(use.in.mode, use.key, use.in.text, use.in.iv)]

Decrypt ==
    /\ use.stage = "encrypted"
    /\ use' = [stage |-> "ended", in |-> use.in, key |-> use.key, out |-> use.out,
               back |-> Decrypted(use.in.mode, use.key, use.out, use.in.iv)]

CipherNext == KeySetup \/ Encrypt \/ Decrypt

(***************************************************************************)
(* What they should be: FIPS 197 and SP 800-38A.                           *)
(***************************************************************************)
\* A product of polynomials modulo x^8 + x^4 + x^3 + x + 1.
Doubled(x) == IF x < 128 THEN 2 * x ELSE XorBytes(2 * x - 256, 27)
Product(a, b) ==
    FoldLeft(LAMBDA sum, bit : IF bit = 1 THEN XorBytes(Doubled(sum), a) ELSE Doubled(sum),
             0, [i \in 1 .. 8 |-> (b \div 2^(8 - i)) % 2])

\* The inverse of the affine map: three rotations of a byte, and 5.
Rotated(x, n) == ((x * 2^n) % 256) + (x \div 2^(8 - n))
InvAffine(x) == XorBytes(XorBytes(Rotated(x, 1), Rotated(x, 3)), XorBytes(Rotated(x, 6), 5))

\* The tables are those of the field: every substitution is the affine map of the
\* byte's inverse, the inverse table undoes it, and every product is one modulo the
\* polynomial (aes_sbox, aes_invsbox, gf_mul, and how the code indexes them).
TablesGenuine ==
    use.stage = "keyed" =>
        \A x \in Bytes :
            /\ LET y == InvAffine(Substitute(aes_sbox, x))
               IN  IF x = 0 THEN y = 0 ELSE Product(x, y) = 1
            /\ Substitute(aes_invsbox, Substitute(aes_sbox, x)) = x
            /\ \A factor \in {2, 3, 9, 11, 13, 14} : Times(factor, x) = Product(x, factor)

\* What was encrypted decrypts to what it was, for every size of key, for texts that
\* end within a block and with one, and when the counter carries over many bytes
\* (aes_decrypt, aes_decrypt_ctr, aes_decrypt_cbc).
Decrypts == use.stage = "ended" /\ use.in.mode # "mac" => use.back = use.in.text

CONSTANT KnownAnswers   \* the standards' examples: records of a use and its output

\* The examples of the standards encrypt to what the standards say (aes_key_setup,
\* aes_encrypt, the modes).
MatchesStandard ==
    use.stage = "ended" => \A a \in KnownAnswers : use.in = a.use => use.out = a.out

(***************************************************************************)
(* The hash of pages and tree nodes, runtime/crypto/sha256.c.  A word of   *)
(* 32 bits is the pair of its halves, the upper one first.                 *)
(***************************************************************************)
HALF == 65536

(***************************************************************************)
(* Words.                                                                  *)
(***************************************************************************)
Both(f(_, _, _), x, y, z) == <<f(x[1], y[1], z[1]), f(x[2], y[2], z[2])>>
Parity(a, b, c) == (a ^^ b) ^^ c
Xor3(x, y, z) == Both(Parity, x, y, z)
Sum2(x, y) ==
    LET low == x[2] + y[2] IN <<(x[1] + y[1] + low \div HALF) % HALF, low % HALF>>
Sum4(w, x, y, z) == Sum2(Sum2(w, x), Sum2(y, z))

\* Shifted right by less than 16, with the bits that leave the lower half in front.
Shift(x, n) ==
    <<x[1] \div 2^n, (x[2] \div 2^n) + ((x[1] % 2^n) * 2^(16 - n))>>
ROTRIGHT(a, b) ==
    LET x == IF b < 16 THEN a ELSE <<a[2], a[1]>>
        n == b % 16
    IN  <<(x[1] \div 2^n) + ((x[2] % 2^n) * 2^(16 - n)), (x[2] \div 2^n) + ((x[1] % 2^n) * 2^(16 - n))>>

CH(x, y, z) == Both(LAMBDA a, b, c : (a & b) ^^ ((HALF - 1 - a) & c), x, y, z)
MAJ(x, y, z) == Both(LAMBDA a, b, c : Parity(a & b, a & c, b & c), x, y, z)
EP0(x) == Xor3(ROTRIGHT(x, 2), ROTRIGHT(x, 13), ROTRIGHT(x, 22))
EP1(x) == Xor3(ROTRIGHT(x, 6), ROTRIGHT(x, 11), ROTRIGHT(x, 25))
SIG0(x) == Xor3(ROTRIGHT(x, 7), ROTRIGHT(x, 18), Shift(x, 3))
SIG1(x) == Xor3(ROTRIGHT(x, 17), ROTRIGHT(x, 19), Shift(x, 10))

k == <<
    <<17034, 12184>>, <<28983, 17553>>, <<46528, 64463>>, <<59829, 56229>>, <<14678, 49755>>,
    <<23025, 4593>>, <<37439, 33444>>, <<43804, 24277>>, <<55303, 43672>>, <<4739, 23297>>,
    <<9265, 34238>>, <<21772, 32195>>, <<29374, 23924>>, <<32990, 45566>>, <<39900, 1703>>,
    <<49563, 61812>>, <<58523, 27073>>, <<61374, 18310>>, <<4033, 40390>>, <<9228, 41420>>,
    <<11753, 11375>>, <<19060, 33962>>, <<23728, 43484>>, <<30457, 35034>>, <<38974, 20818>>,
    <<43057, 50797>>, <<45059, 10184>>, <<48985, 32711>>, <<50912, 3059>>, <<54695, 37191>>,
    <<1738, 25425>>, <<5161, 10599>>, <<10167, 2693>>, <<11803, 8504>>, <<19756, 28156>>,
    <<21304, 3347>>, <<25866, 29524>>, <<30314, 2747>>, <<33218, 51502>>, <<37490, 11397>>,
    <<41663, 59553>>, <<43034, 26187>>, <<49739, 35696>>, <<51052, 20899>>, <<53650, 59417>>,
    <<54937, 1572>>, <<62478, 13701>>, <<4202, 41072>>, <<6564, 49430>>, <<7735, 27656>>,
    <<10056, 30540>>, <<13488, 48309>>, <<14620, 3251>>, <<20184, 43594>>, <<23452, 51791>>,
    <<26670, 28659>>, <<29839, 33518>>, <<30885, 25455>>, <<33992, 30740>>, <<36039, 520>>,
    <<37054, 65530>>, <<42064, 27883>>, <<48889, 41975>>, <<50801, 30962>>>>

(***************************************************************************)
(* One block.                                                              *)
(***************************************************************************)
Word(data, i) == <<data[4 * i - 3] * 256 + data[4 * i - 2], data[4 * i - 1] * 256 + data[4 * i]>>

\* The one element of a set.  A result bound as one is computed once, first.
Only(set) == CHOOSE x \in set : TRUE

\* The words lo to hi of m, made of the ones before them.
NextWord(m, i) == Sum4(SIG1(m[i - 2]), m[i - 7], SIG0(m[i - 15]), m[i - 16])
RECURSIVE Schedule(_, _, _)
Schedule(m, lo, hi) ==
    LET mid == (lo + hi) \div 2 IN
    IF lo = hi THEN Append(m, NextWord(m, lo))
    ELSE Only({Schedule(n, mid + 1, hi) : n \in {Schedule(m, lo, mid)}})

\* The variables a to h after one round.
Round(v, ki, mi) ==
    LET t1 == Sum2(Sum4(v[8], EP1(v[5]), CH(v[5], v[6], v[7]), ki), mi)
        t2 == Sum2(EP0(v[1]), MAJ(v[1], v[2], v[3]))
    IN  <<Sum2(t1, t2), v[1], v[2], v[3], Sum2(v[4], t1), v[5], v[6], v[7]>>

\* Rounds lo to hi.
RECURSIVE AllRounds(_, _, _, _)
AllRounds(v, m, lo, hi) ==
    LET mid == (lo + hi) \div 2 IN
    IF lo = hi THEN Round(v, k[lo], m[lo])
    ELSE Only({AllRounds(w, m, mid + 1, hi) : w \in {AllRounds(v, m, lo, mid)}})

sha256_transform(state, data) ==
    LET words == [i \in 1 .. 16 |-> Word(data, i)]
        v == Only({AllRounds(state, m, 1, 64) : m \in {Schedule(words, 17, 64)}})
    IN  <<Sum2(state[1], v[1]), Sum2(state[2], v[2]), Sum2(state[3], v[3]), Sum2(state[4], v[4]),
          Sum2(state[5], v[5]), Sum2(state[6], v[6]), Sum2(state[7], v[7]), Sum2(state[8], v[8])>>

(***************************************************************************)
(* Messages.                                                               *)
(***************************************************************************)
H0 == <<
    <<27145, 58983>>, <<47975, 44677>>, <<15470, 62322>>, <<42319, 62778>>, <<20750, 21119>>,
    <<39685, 26764>>, <<8067, 55723>>, <<23520, 52505>>>>

Zeros(n) == [i \in 1 .. n |-> 0]
sha256_init == [data |-> Zeros(64), datalen |-> 0, bitlen |-> 0, state |-> H0]

\* Bytes go into the buffer; whenever it is full it is transformed.
Stored(ctx, data) ==
    [ctx EXCEPT !.datalen = @ + Len(data),
                !.data = SubSeq(@, 1, ctx.datalen) \o data \o SubSeq(@, ctx.datalen + Len(data) + 1, 64)]
Transformed(ctx) ==
    [ctx EXCEPT !.datalen = 0, !.bitlen = @ + 512, !.state = sha256_transform(@, ctx.data)]

RECURSIVE sha256_update(_, _)
sha256_update(ctx, data) ==
    LET room == 64 - ctx.datalen IN
    IF Len(data) < room THEN Stored(ctx, data)
    ELSE sha256_update(Transformed(Stored(ctx, SubSeq(data, 1, room))), SubSeq(data, room + 1, Len(data)))

\* A number as bytes, the most significant first.
BigEndian(n, len) == [i \in 1 .. len |-> IF len - i > 3 THEN 0 ELSE (n \div 256^(len - i)) % 256]

\* Mutant: the length is put behind the data as if it always fitted into the block.
Padded_one(ctx) ==
    [state |-> ctx.state,
     data |-> SubSeq(SubSeq(ctx.data, 1, ctx.datalen) \o <<128>> \o Zeros(63 - ctx.datalen), 1, 56)]

\* The state and the first 56 bytes of the last block.
Padded(ctx) ==
    LET full == SubSeq(ctx.data, 1, ctx.datalen) \o <<128>> \o Zeros(63 - ctx.datalen) IN
    IF ctx.datalen < 56 THEN [state |-> ctx.state, data |-> SubSeq(full, 1, 56)]
    ELSE [state |-> sha256_transform(ctx.state, full), data |-> Zeros(56)]

sha256_final(ctx) ==
    LET pad == Padded(ctx)
        bitlen == ctx.bitlen + ctx.datalen * 8
        state == sha256_transform(pad.state, pad.data \o BigEndian(bitlen, 8))
    IN  FlattenSeq([i \in 1 .. 8 |-> BigEndian(state[i][1], 2) \o BigEndian(state[i][2], 2)])

(***************************************************************************)
(* A message hashed in pieces.                                             *)
(***************************************************************************)
CONSTANTS
    Pieces,     \* the pieces there are
    MaxPieces   \* pieces of a message (a bound)

VARIABLE hasher     \* the context, the pieces so far and the hash

NoHasher == [stage |-> "none"]
HasherIdle == hasher = NoHasher
HasherStart == hasher = [stage |-> "open", ctx |-> sha256_init, pieces |-> <<>>]

Update(piece) ==
    /\ hasher.stage = "open" /\ Len(hasher.pieces) < MaxPieces
    /\ hasher' = [hasher EXCEPT !.ctx = sha256_update(@, piece), !.pieces = Append(@, piece)]

Final ==
    /\ hasher.stage = "open"
    /\ hasher' = [stage |-> "ended", pieces |-> hasher.pieces, hash |-> sha256_final(hasher.ctx)]

HasherNext == Final \/ \E piece \in Pieces : Update(piece)

(***************************************************************************)
(* What the hash of a message should be: FIPS 180-4.                       *)
(***************************************************************************)
\* The message, a one bit, zeros up to 8 bytes before the end of a block, its length.
PaddedMessage(m) ==
    m \o <<128>> \o Zeros((55 - Len(m)) % 64) \o BigEndian(8 * Len(m), 8)

HashOf(m) ==
    LET p == PaddedMessage(m)
        blocks == [i \in 1 .. Len(p) \div 64 |-> SubSeq(p, 64 * i - 63, 64 * i)]
        state == FoldLeft(sha256_transform, H0, blocks)
    IN  FlattenSeq([i \in 1 .. 8 |-> BigEndian(state[i][1], 2) \o BigEndian(state[i][2], 2)])

\* However a message is cut into updates, and wherever it ends in a block, the hash
\* is that of the standard's padding of the whole (sha256_update, sha256_final).
HashesWhole ==
    hasher.stage = "ended" => hasher.hash = HashOf(FlattenSeq(hasher.pieces))

CONSTANT KnownHashes    \* the standard's examples: records of a message and its hash

\* The examples of the standard have the hashes it says (sha256_transform).
HashesMatchStandard ==
    hasher.stage = "ended" =>
        \A a \in KnownHashes : FlattenSeq(hasher.pieces) = a.message => hasher.hash = a.hash
=============================================================================
