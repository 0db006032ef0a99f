------------------------------- MODULE Copies -------------------------------
(***************************************************************************)
(* The code that moves bytes between worlds: the monitor's copies to and   *)
(* from the memory of its caller (sm/src/mprv.h, mprv.S), the runtime's    *)
(* copies to and from its user (runtime/tmplib/uaccess.S), and its         *)
(* memcpy, memset, memcmp, strcmp and strlen (runtime/util/string.c).      *)
(*                                                                         *)
(* A byte of memory holds its own address until something is copied over   *)
(* it.  The lower half of memory is the copying side's own, the upper half *)
(* is its caller's or user's, of which some bytes may not be mapped.       *)
(***************************************************************************)
EXTENDS Integers, Sequences, SequencesExt, FiniteSets, Bitwise, TLC

CONSTANTS
    REGBYTES,       \* bytes of a word; also SZREG and sizeof(uintptr_t)
    UNROLL,         \* words of a block: 8, and COPY_USER_UNROLL
    HalfSize,       \* bytes of either half of memory
    Places,         \* where in its half a buffer may start (a bound)
    Lengths,        \* lengths of copies (a bound)
    Holes,          \* sets of bytes that the caller has not mapped
    Chars           \* bytes of strings (a bound)

MPRV_BLOCK == REGBYTES * UNROLL
OwnHalf == 0 .. HalfSize - 1
OtherHalf == HalfSize .. 2 * HalfSize - 1
Memory == OwnHalf \cup OtherHalf
BYTE == -1          \* what memset stores

ASSUME CopiesAssumption ==
    /\ REGBYTES > 1 /\ UNROLL > 0 /\ HalfSize % REGBYTES = 0
    /\ \A p \in Places, n \in Lengths : p + n <= HalfSize

VARIABLE copy       \* the call in progress, with the memory and registers it works on

Bytes(a, n) == a .. a + n - 1
Load(mem, a, n) == [i \in 1 .. n |-> mem[a + i - 1]]
Store(mem, a, s) == [x \in Memory |-> IF x \in Bytes(a, Len(s)) THEN s[x - a + 1] ELSE mem[x]]
Aligned(a) == a % REGBYTES = 0
Down(a, n) == a - (a % n)

\* The registers a copy uses, at the call.
Hart == [mtvec |-> "monitor", mepc |-> "ecall", mcause |-> "ecall", mpp |-> "S",
         mprv |-> FALSE, sum |-> FALSE]

CopyIdle == copy = [op |-> "none"]
CopyStart == copy = [op |-> "wait"]

Begun(op, src, dst, len, hole) ==
    [op |-> op, at |-> "run", src |-> src, dst |-> dst, len |-> len, hole |-> hole,
     from |-> src, to |-> dst, n |-> len, mem |-> [a \in Memory |-> a], hart |-> Hart,
     seen |-> {}, ret |-> 0]

Disjoint(src, dst, len) == Bytes(src, len) \cap Bytes(dst, len) = {}
Finished(c, ret) == [c EXCEPT !.at = "done", !.ret = ret]

(***************************************************************************)
(* The monitor's copies.                                                   *)
(***************************************************************************)
TRY(h) == [h EXCEPT !.mtvec = "err"]
SET_MPRV(h) == [h EXCEPT !.mprv = TRUE]
UNSET_MPRV(h) == [h EXCEPT !.mprv = FALSE]

\* The hart traps to mtvec and keeps where from, why and from which mode.
HartTrap(h) == [h EXCEPT !.mepc = "access", !.mcause = "fault", !.mpp = "M"]

\* The handler returns from the trap to the end of the copy.
CATCH_ERR(h) == [h EXCEPT !.mepc = "err_real", !.mpp = "U"]

TRY_END(h, saved) ==
    [h EXCEPT !.mtvec = saved.mtvec, !.mepc = saved.mepc, !.mcause = saved.mcause,
              !.mpp = saved.mpp, !.mprv = saved.mprv]

\* With MPRV set an access is made as the mode MPP would make it: a caller
\* reaches what it has mapped, and nothing of the monitor.
Allowed(c, h, a) == IF h.mprv /\ h.mpp = "S" THEN a \in OtherHalf \ c.hole ELSE a \in Memory

Unit_to_sm(c, n) ==
    LET try == SET_MPRV(TRY(c.hart))
        ok == \A a \in Bytes(c.src, n) : Allowed(c, try, a)
        caught == IF ok THEN UNSET_MPRV(try) ELSE CATCH_ERR(HartTrap(try))
    IN  [mem |-> IF ok THEN Store(c.mem, c.dst, Load(c.mem, c.src, n)) ELSE c.mem,
         hart |-> UNSET_MPRV(TRY_END(caught, c.hart)),
         res |-> IF ok THEN 0 ELSE -1]

\* The words are stored one after the other, up to the first that faults.
Unit_from_sm(c, n) ==
    LET try == SET_MPRV(TRY(c.hart))
        word == IF n = 1 THEN 1 ELSE REGBYTES
        upTo(i) == Down(i, word) + word
        stored == {i \in 0 .. n - 1 : \A a \in Bytes(c.dst, upTo(i)) : Allowed(c, try, a)}
        ok == stored = 0 .. n - 1
        caught == IF ok THEN try ELSE CATCH_ERR(HartTrap(try))
    IN  [mem |-> Store(c.mem, c.dst, Load(c.mem, c.src, Cardinality(stored))),
         hart |-> UNSET_MPRV(TRY_END(caught, c.hart)),
         res |-> IF ok THEN 0 ELSE -1]

copy_block_to_sm(c) == Unit_to_sm(c, MPRV_BLOCK)
copy_word_to_sm(c) == Unit_to_sm(c, REGBYTES)
copy1_to_sm(c) == Unit_to_sm(c, 1)
copy_block_from_sm(c) == Unit_from_sm(c, MPRV_BLOCK)
copy_word_from_sm(c) == Unit_from_sm(c, REGBYTES)
copy1_from_sm(c) == Unit_from_sm(c, 1)

\* After a piece of n bytes: the next one, or the return of its error.
Moved(c, r, n) ==
    LET d == [c EXCEPT !.mem = r.mem, !.hart = r.hart] IN
    IF r.res # 0 THEN Finished(d, r.res)
    ELSE [d EXCEPT !.src = @ + n, !.dst = @ + n, !.len = @ - n]

\* Words and blocks are moved only if both buffers were aligned at the call.
Fast(c) == Aligned(c.from) /\ Aligned(c.to)

copy_to_sm(c) ==
    CASE c.len = 0 -> Finished(c, 0)
      [] Fast(c) /\ c.len >= MPRV_BLOCK -> Moved(c, copy_block_to_sm(c), MPRV_BLOCK)
      [] Fast(c) /\ c.len \in REGBYTES .. MPRV_BLOCK - 1 -> Moved(c, copy_word_to_sm(c), REGBYTES)
      [] OTHER -> Moved(c, copy1_to_sm(c), 1)

copy_from_sm(c) ==
    CASE c.len = 0 -> Finished(c, 0)
      [] Fast(c) /\ c.len >= MPRV_BLOCK -> Moved(c, copy_block_from_sm(c), MPRV_BLOCK)
      [] Fast(c) /\ c.len \in REGBYTES .. MPRV_BLOCK - 1 -> Moved(c, copy_word_from_sm(c), REGBYTES)
      [] OTHER -> Moved(c, copy1_from_sm(c), 1)

\* The monitor's buffer is its own; the caller's pointer may be anything.
copy_enclave_data ==
    \E dst \in Places, place \in Places, half \in {0, HalfSize}, len \in Lengths, hole \in Holes :
        /\ Disjoint(half + place, dst, len)
        /\ copy' = Begun("to_sm", half + place, dst, len, hole)

copy_enclave_report ==
    \E src \in Places, place \in Places, half \in {0, HalfSize}, len \in Lengths, hole \in Holes :
        /\ Disjoint(src, half + place, len)
        /\ copy' = Begun("from_sm", src, half + place, len, hole)

ToMonitor == copy.op = "to_sm" /\ copy.at = "run" /\ copy' = copy_to_sm(copy)
FromMonitor == copy.op = "from_sm" /\ copy.at = "run" /\ copy' = copy_from_sm(copy)

(***************************************************************************)
(* The runtime's copies to and from its user, which never fault: a page    *)
(* that is out is brought back below them.  The labels are the code's.     *)
(***************************************************************************)
COPY_USER_BLKSZ == UNROLL * REGBYTES

\* Mutant: the blocks are counted up to the end of the last one.
Blocks_up(n) == Down(n + COPY_USER_BLKSZ - 1, COPY_USER_BLKSZ)

\* The bytes that whole blocks hold.
Blocks(n) == Down(n, COPY_USER_BLKSZ)

copy_user ==
    \E src \in Places, dst \in Places, up \in BOOLEAN, len \in Lengths :
        LET a0 == IF up THEN HalfSize + dst ELSE dst
            a1 == IF up THEN src ELSE HalfSize + src
            a3 == a0 + len
            t1 == Down(a0 + REGBYTES - 1, REGBYTES)
            blocks == Blocks(a3 - t1)
            words == t1 < a3 /\ blocks # 0
        IN  copy' = [t1 |-> t1, t0 |-> t1 + blocks, t3 |-> <<>>]
                    @@ [Begun("user", a1, a0, len, {}) EXCEPT
                           !.hart.sum = TRUE,
                           !.at = IF ~words THEN "3" ELSE IF a0 < t1 THEN "6" ELSE "1"]

\* n bytes are loaded at the source and stored at the destination.
Copied(c, n) ==
    [c EXCEPT !.mem = Store(@, c.dst, Load(@, c.src, n)), !.seen = Bytes(c.src, n),
              !.src = @ + n, !.dst = @ + n]

\* 6: bytes up to an aligned destination.
Initial ==
    /\ copy.op = "user" /\ copy.at = "6"
    /\ copy' = [Copied(copy, 1) EXCEPT !.at = IF copy.dst + 1 < copy.t1 THEN "6" ELSE "1"]

\* 1, 7: is the source aligned too; if not, its first word is loaded.
SourceAlignment ==
    /\ copy.op = "user" /\ copy.at = "1"
    /\ LET t1 == copy.src % REGBYTES
           a1 == copy.src - t1
       IN  copy' = IF t1 = 0 THEN [copy EXCEPT !.at = "2"]
                   ELSE [copy EXCEPT !.at = "8", !.t1 = t1, !.src = a1, !.seen = Bytes(a1, REGBYTES),
                                     !.t3 = Load(copy.mem, a1, REGBYTES)]

\* 2: aligned blocks.
AlignedBlock ==
    /\ copy.op = "user" /\ copy.at = "2"
    /\ LET c == Copied(copy, COPY_USER_BLKSZ) IN
       copy' = [c EXCEPT !.at = IF c.dst < c.t0 THEN "2" ELSE IF c.dst >= copy.to + copy.n THEN "5" ELSE "3"]

\* A word merged from the upper bytes of one word and the lower ones of the next.
fixup_unaligned(before, after, t1) == SubSeq(before, t1 + 1, REGBYTES) \o SubSeq(after, 1, t1)

\* 8: blocks from an unaligned source, each word of which is loaded once.
UnalignedBlock ==
    /\ copy.op = "user" /\ copy.at = "8"
    /\ LET word(i) == IF i = 0 THEN copy.t3 ELSE Load(copy.mem, copy.src + i * REGBYTES, REGBYTES)
           merged == [i \in 1 .. UNROLL |-> fixup_unaligned(word(i - 1), word(i), copy.t1)]
           a0 == copy.dst + COPY_USER_BLKSZ
           a1 == copy.src + COPY_USER_BLKSZ
       IN  copy' = [copy EXCEPT !.mem = Store(@, copy.dst, FlattenSeq(merged)),
                                !.t3 = word(UNROLL), !.dst = a0,
                                !.seen = Bytes(copy.src + REGBYTES, COPY_USER_BLKSZ),
                                !.at = IF a0 < copy.t0 THEN "8" ELSE "3",
                                !.src = IF a0 < copy.t0 THEN a1 ELSE a1 + copy.t1]

\* 3, 4: the bytes that remain; 5: the return.
Remainder ==
    /\ copy.op = "user" /\ copy.at = "3"
    /\ copy' = IF copy.dst < copy.to + copy.n THEN Copied(copy, 1) ELSE [copy EXCEPT !.at = "5"]

UserReturn ==
    /\ copy.op = "user" /\ copy.at = "5"
    /\ copy' = [Finished(copy, 0) EXCEPT !.hart.sum = FALSE]

(***************************************************************************)
(* string.c.                                                               *)
(***************************************************************************)
WordFits(c) == c.dst < c.to + c.n - (REGBYTES - 1)

memcpy(c) ==
    CASE Aligned(c.from) /\ Aligned(c.to) /\ WordFits(c) -> Copied(c, REGBYTES)
      [] ~(Aligned(c.from) /\ Aligned(c.to) /\ WordFits(c)) /\ c.dst < c.to + c.n -> Copied(c, 1)
      [] OTHER -> Finished(c, 0)

memset(c) ==
    LET n == IF Aligned(c.to) /\ Aligned(c.n) THEN REGBYTES ELSE 1 IN
    IF c.dst < c.to + c.n
    THEN [c EXCEPT !.mem = Store(@, c.dst, [i \in 1 .. n |-> BYTE]), !.dst = @ + n]
    ELSE Finished(c, 0)

CallMemory ==
    \E op \in {"memcpy", "memset"}, src \in Places, dst \in Places, len \in Lengths :
        copy' = Begun(op, HalfSize + src, dst, len, {})

MemcpyStep == copy.op = "memcpy" /\ copy.at = "run" /\ copy' = memcpy(copy)
MemsetStep == copy.op = "memset" /\ copy.at = "run" /\ copy' = memset(copy)

RECURSIVE memcmp(_, _, _)
memcmp(s1, s2, n) ==
    IF n = 0 THEN 0
    ELSE IF Head(s1) # Head(s2) THEN Head(s1) - Head(s2)
    ELSE memcmp(Tail(s1), Tail(s2), n - 1)

RECURSIVE strcmp(_, _)
strcmp(s1, s2) ==
    IF Head(s1) = 0 \/ Head(s1) # Head(s2) THEN Head(s1) - Head(s2)
    ELSE strcmp(Tail(s1), Tail(s2))

\* The test of a word for a zero byte, in words of two bytes.
LONGWORD == 2
lomagic == 257
himagic == 128 * lomagic
WORDSIZE == 256 * 256

HasZero(longword) ==
    ((((longword + WORDSIZE) - lomagic) % WORDSIZE) & (WORDSIZE - 1 - longword)) & himagic # 0

\* Where the first zero byte is from char_ptr on, in memory that starts at 0.
RECURSIVE scan(_, _)
scan(mem, char_ptr) ==
    LET byte(i) == mem[char_ptr + i + 1] IN
    IF char_ptr % LONGWORD # 0
    THEN IF byte(0) = 0 THEN char_ptr ELSE scan(mem, char_ptr + 1)
    ELSE IF HasZero(byte(0) + 256 * byte(1)) /\ byte(0) = 0 THEN char_ptr
    ELSE IF HasZero(byte(0) + 256 * byte(1)) /\ byte(1) = 0 THEN char_ptr + 1
    ELSE scan(mem, char_ptr + LONGWORD)

strlen(mem, str) == scan(mem, str) - str

Texts == [1 .. 2 * LONGWORD -> Chars]
Ends(mem, str) == {i \in str .. Len(mem) - 1 : mem[i + 1] = 0}

CallStrings ==
    \/ \E mem \in Texts, str \in 0 .. LONGWORD - 1 :
          /\ Ends(mem, str) # {}
          /\ copy' = [op |-> "strlen", at |-> "done", one |-> mem, str |-> str, ret |-> strlen(mem, str)]
    \/ \E one \in [1 .. 3 -> Chars], two \in [1 .. 3 -> Chars], n \in 0 .. 3 :
          copy' = [op |-> "memcmp", at |-> "done", one |-> one, two |-> two, n |-> n,
                   ret |-> memcmp(one, two, n)]
    \/ \E one \in [1 .. 3 -> Chars], two \in [1 .. 3 -> Chars] :
          /\ Ends(one, 0) # {} /\ Ends(two, 0) # {}
          /\ copy' = [op |-> "strcmp", at |-> "done", one |-> one, two |-> two, ret |-> strcmp(one, two)]

\* The caller goes on.
CopyReturn == copy.op # "wait" /\ copy.at = "done" /\ copy' = [op |-> "wait"]

CopyNext ==
    \/ copy.op = "wait" /\ (copy_enclave_data \/ copy_enclave_report \/ copy_user \/ CallMemory \/ CallStrings)
    \/ copy.op # "wait" /\ ( \/ ToMonitor \/ FromMonitor
                             \/ Initial \/ SourceAlignment \/ AlignedBlock \/ UnalignedBlock \/ Remainder \/ UserReturn
                             \/ MemcpyStep \/ MemsetStep)
    \/ CopyReturn

(***************************************************************************)
(* Properties.                                                             *)
(***************************************************************************)
Moves == copy.op \in {"to_sm", "from_sm", "user", "memcpy", "memset"}
Done == copy.at = "done"
ByMonitor == copy.op \in {"to_sm", "from_sm"}

\* The caller's side of a copy of the monitor, and what of it the caller reaches.
Callers == IF copy.op = "to_sm" THEN copy.from ELSE copy.to
Reached(i) == Callers + i \in OtherHalf \ copy.hole

\* Whatever the alignment of the buffers and the length, a copy that succeeds
\* has stored every byte at its place, and no copy, at any of its steps, has
\* changed a byte outside its destination or given one inside it another value
\* (copy_to_sm, copy_from_sm, __asm_copy_to_user, memcpy, memset).
CopiesExact ==
    Moves => \A a \in Memory :
        LET i == a - copy.to
            right == IF copy.op = "memset" THEN BYTE ELSE copy.from + i
        IN  IF i \in 0 .. copy.n - 1
            THEN copy.mem[a] = right \/ (copy.mem[a] = a /\ ~(Done /\ copy.ret = 0))
            ELSE copy.mem[a] = a

\* A copy of the monitor succeeds if and only if its caller can reach every byte
\* on its side, no byte moves that the caller cannot reach, and whichever piece
\* faults the hart is as it was at the call (TRY, CATCH_ERR, TRY_END, SET_MPRV).
CopiesAsCaller ==
    Moves /\ ByMonitor =>
        /\ Done => (copy.ret = 0) = (\A i \in 0 .. copy.n - 1 : Reached(i))
        /\ \A i \in 0 .. copy.n - 1 : copy.mem[copy.to + i] # copy.to + i => Reached(i)
        /\ copy.hart = Hart

\* A copy to or from the user loads only words that hold bytes of its source,
\* also where words are merged, and leaves the user's memory closed
\* (__asm_copy_to_user, memcpy).
LoadsInside ==
    copy.op \in {"user", "memcpy"} =>
        /\ \A a \in copy.seen : \E b \in Bytes(Down(a, REGBYTES), REGBYTES) :
               b \in Bytes(copy.from, copy.n)
        /\ Done => ~copy.hart.sum

Sign(n) == IF n > 0 THEN 1 ELSE IF n < 0 THEN -1 ELSE 0
\* The first place at which the two differ, or both end.
Order(one, two, n, stops) ==
    LET at == {i \in 1 .. n : one[i] # two[i] \/ (stops /\ one[i] = 0)}
        first == CHOOSE i \in at : \A j \in at : i <= j
    IN  IF at = {} THEN 0 ELSE Sign(one[first] - two[first])

\* strlen finds the first zero byte wherever the string starts and whatever
\* bytes precede and follow it; memcmp and strcmp order by the first byte that
\* differs (strlen, memcmp, strcmp).
StringsRight ==
    /\ copy.op = "strlen" =>
          copy.str + copy.ret = CHOOSE i \in Ends(copy.one, copy.str) :
                                    \A j \in Ends(copy.one, copy.str) : i <= j
    /\ copy.op = "memcmp" => Sign(copy.ret) = Order(copy.one, copy.two, copy.n, FALSE)
    /\ copy.op = "strcmp" => Sign(copy.ret) = Order(copy.one, copy.two, 3, TRUE)

\* Memory is copied, filled, compared and measured as the C standard says, for every
\* alignment and length, and across protection only as the caller may (mprv.S, mprv.h,
\* uaccess.S, string.c).
MemoryFunctionsExact == CopiesExact /\ CopiesAsCaller /\ LoadsInside /\ StringsRight
=============================================================================
