-------------------------------- MODULE Elf ---------------------------------
(***************************************************************************)
(* The ELF library of the runtime, the loader and the host                 *)
(* (runtime/loader/elf*.c, sdk/src/host/elf*.c are the same code) and      *)
(* the host's ElfFile: which files are accepted, what is handed out of     *)
(* an accepted one, and the bounds of its addresses.                       *)
(*                                                                         *)
(* A file is unknown until it is read: a field is chosen when the code     *)
(* first looks at it.  Sizes and offsets are in units of four bytes, so    *)
(* that headers have their true sizes; words wrap at WORD and HALF, for    *)
(* 2^64 and 2^32.                                                          *)
(***************************************************************************)
EXTENDS Integers, FiniteSetsExt, TLC

CONSTANTS
    WORD, HALF,     \* 2 ^ the width of the words of the two classes
    ElfPage,        \* PAGE_SIZE
    FileSizes,      \* sizes of files (a bound)
    Offsets,        \* offsets and sizes in a file (a bound)
    Counts,         \* numbers of headers (a bound)
    Addresses       \* addresses and sizes in memory (a bound)

ASSUME ElfAssumption ==
    /\ FileSizes \cup Offsets \cup Counts \subseteq 0 .. WORD - 1 /\ HALF <= WORD
    /\ Addresses \subseteq 0 .. WORD - 1
    /\ \A n \in Counts : 16 * n < HALF

VARIABLE elf    \* where the reader is, elfSize and elfClass, what it read and handed out

sizeofEhdr(c) == IF c = 32 THEN 13 ELSE 16
sizeofPhdr(c) == IF c = 32 THEN 8 ELSE 14
sizeofShdr(c) == IF c = 32 THEN 10 ELSE 16
Width(c) == IF c = 32 THEN HALF ELSE WORD

(***************************************************************************)
(* elf_newFile.                                                            *)
(***************************************************************************)
HeaderOk(f, c) ==
    /\ f.size >= sizeofEhdr(c)
    /\ f.magic /\ f.class = c
    /\ f.phentsize = sizeofPhdr(c) /\ f.shentsize = sizeofShdr(c)
    /\ f.shstrndx < f.shnum

elf32_checkFile(f) == HeaderOk(f, 32)
elf64_checkFile(f) == HeaderOk(f, 64)
elf_checkFile(f) == elf32_checkFile(f) \/ elf64_checkFile(f)

\* Mutant: the end of a table is not compared with its start.
TableOk_end(f, off, n, entry, width) == f.size >= (off + n * entry) % width

\* The end is computed in the words of the class.
TableOk(f, off, n, entry, width) ==
    LET end == (off + n * entry) % width IN f.size >= end /\ end >= off

elf32_checkTable(f, off, n, entry) == TableOk(f, off, n, entry, HALF)
elf64_checkTable(f, off, n, entry) == TableOk(f, off, n, entry, WORD)
CheckTable(f, off, n, entry) ==
    IF f.class = 32 THEN elf32_checkTable(f, off, n, entry) ELSE elf64_checkTable(f, off, n, entry)

elf_checkProgramHeaderTable(f) == CheckTable(f, f.phoff, f.phnum, sizeofPhdr(f.class))
elf_checkSectionTable(f) == CheckTable(f, f.shoff, f.shnum, sizeofShdr(f.class))

Fields(c) == {o \in Offsets : o < Width(c)}

\* A file that cannot be opened or measured has size 0 and is refused all the same.
OpenFile ==
    /\ elf.at = "file"
    /\ \E size \in FileSizes, magic \in BOOLEAN, c, other \in {32, 64},
          shnum, shstrndx \in Counts :
          LET f == [size |-> size, magic |-> magic, class |-> c, phentsize |-> sizeofPhdr(other),
                    shentsize |-> sizeofShdr(other), shnum |-> shnum, shstrndx |-> shstrndx]
          IN  elf' = [at |-> IF elf_checkFile(f) THEN "segments" ELSE "refused", file |-> f]

CheckProgramHeaders ==
    /\ elf.at = "segments"
    /\ \E off \in Fields(elf.file.class), n \in Counts :
          LET f == [phoff |-> off, phnum |-> n] @@ elf.file IN
          elf' = [at |-> IF elf_checkProgramHeaderTable(f) THEN "sections" ELSE "refused",
                  file |-> f]

CheckSections ==
    /\ elf.at = "sections"
    /\ \E off \in Fields(elf.file.class) :
          LET f == [shoff |-> off] @@ elf.file IN
          elf' = [at |-> IF elf_checkSectionTable(f) THEN "open" ELSE "refused", file |-> f]

(***************************************************************************)
(* Accesses to an accepted file.  Its headers are in the file at           *)
(* Entry(table, i, size); ranges are pairs of a first and an end offset.   *)
(***************************************************************************)
Entry(table, i, size) == <<table + i * size, table + (i + 1) * size>>
elf32_getProgramHeader(f, i) == Entry(f.phoff, i, sizeofPhdr(32))
elf64_getProgramHeader(f, i) == Entry(f.phoff, i, sizeofPhdr(64))
elf32_getSectionHeader(f, i) == Entry(f.shoff, i, sizeofShdr(32))
elf64_getSectionHeader(f, i) == Entry(f.shoff, i, sizeofShdr(64))
ProgramHeader(f, i) ==
    IF f.class = 32 THEN elf32_getProgramHeader(f, i) ELSE elf64_getProgramHeader(f, i)
SectionHeader(f, i) ==
    IF f.class = 32 THEN elf32_getSectionHeader(f, i) ELSE elf64_getSectionHeader(f, i)

Sections(c) == [offset : Fields(c), size : Fields(c)]
Segments(c) == [offset : Fields(c), filesz : Fields(c)]

\* elf_getProgramSegment and elf_getSection: what they hand out, if anything.
Inside(f, offset, size) ==
    LET end == (offset + size) % WORD IN
    IF end > f.size \/ end < offset THEN {} ELSE {<<offset, offset + size>>}

elf_getProgramSegment(f, ph) == Inside(f, ph.offset, ph.filesz)

elf_getSection(f, i, sh) ==
    IF i = 0 \/ i >= f.shnum \/ sh.size = 0 THEN {} ELSE Inside(f, sh.offset, sh.size)

\* The table is null-terminated: a name in it ends at its end at the latest.
elf_getStringTable(f, sh, strtab, terminated) ==
    IF strtab /\ terminated THEN elf_getSection(f, f.shstrndx, sh) ELSE {}

elf_getSectionName(f, sh, offset, strtab, terminated) ==
    IF offset > sh.size THEN {}
    ELSE {<<t[1] + offset, t[2]>> : t \in elf_getStringTable(f, sh, strtab, terminated)}

Got(ranges) == elf' = [at |-> "got", size |-> elf.file.size, ranges |-> ranges]

Segment ==
    /\ elf.at = "open"
    /\ \E i \in 0 .. elf.file.phnum - 1, ph \in Segments(elf.file.class) :
          Got({ProgramHeader(elf.file, i)} \cup elf_getProgramSegment(elf.file, ph))

Section ==
    /\ elf.at = "open"
    /\ \E i \in 0 .. elf.file.shnum, sh \in Sections(elf.file.class) :
          Got({SectionHeader(elf.file, j) : j \in {i} \cap 1 .. elf.file.shnum - 1}
                \cup elf_getSection(elf.file, i, sh))

Name ==
    /\ elf.at = "open"
    /\ \E i \in 0 .. elf.file.shnum - 1, sh \in Sections(elf.file.class),
          offset \in Fields(32), strtab, terminated \in BOOLEAN :
          Got({SectionHeader(elf.file, i), SectionHeader(elf.file, elf.file.shstrndx)}
                \cup elf_getSectionName(elf.file, sh, offset, strtab, terminated))

(***************************************************************************)
(* elf_getMemoryBounds, one header a step, and the end of ElfFile::ElfFile *)
(***************************************************************************)
Loads(c) == [vaddr : {a \in Addresses : a < Width(c)}, memsz : {a \in Addresses : a < Width(c)}]

ElfFileBounds ==
    /\ elf.at = "open"
    /\ elf' = [at |-> "bounds", class |-> elf.file.class, left |-> elf.file.phnum,
               min |-> WORD - 1, max |-> 0, loads |-> {}]

Bounded(b, ph) ==
    IF ph.memsz = 0 THEN b
    ELSE [b EXCEPT !.max = Max({@, (ph.vaddr + ph.memsz) % WORD}), !.min = Min({@, ph.vaddr})]

elf_getMemoryBounds ==
    /\ elf.at = "bounds" /\ elf.left > 0
    /\ \E ph \in Loads(elf.class) :
          elf' = Bounded([elf EXCEPT !.left = @ - 1, !.loads = @ \cup {ph}], ph)

ROUND_UP(n) == (((((n - 1) % WORD) \div ElfPage) + 1) * ElfPage) % WORD

\* If the first address is not that of a page, the end is left as it is.
ElfFileRound ==
    /\ elf.at = "bounds" /\ elf.left = 0
    /\ elf' = [elf EXCEPT !.at = "sized",
                          !.max = IF elf.min % ElfPage # 0 THEN @ ELSE ROUND_UP(@)]

\* ElfFile::~ElfFile; the next file is opened.
CloseFile == elf.at \in {"refused", "got", "sized"} /\ elf' = [at |-> "file"]

ElfIdle == elf = [at |-> "none"]
ElfStart == elf = [at |-> "file"]
ElfNext ==
    \/ OpenFile \/ CheckProgramHeaders \/ CheckSections
    \/ Segment \/ Section \/ Name
    \/ ElfFileBounds \/ elf_getMemoryBounds \/ ElfFileRound \/ CloseFile

(***************************************************************************)
(* Properties.                                                             *)
(***************************************************************************)
\* A file is accepted exactly if it has a header of its class and both tables
\* are inside of it; no sum of offsets that wraps around is taken for a small
\* one (elf_newFile).
AcceptedIffWellFormed ==
    LET f == elf.file
        Within(off, n, size) == off + n * size <= f.size
    IN  /\ elf.at = "open" =>
              /\ f.size >= sizeofEhdr(f.class) /\ f.magic /\ f.shstrndx < f.shnum
              /\ Within(f.phoff, f.phnum, f.phentsize) /\ Within(f.shoff, f.shnum, f.shentsize)
        /\ elf.at = "refused" =>
              \/ f.size < sizeofEhdr(f.class) \/ ~f.magic \/ f.shstrndx >= f.shnum
              \/ f.phentsize # sizeofPhdr(f.class) \/ f.shentsize # sizeofShdr(f.class)
              \/ "phoff" \in DOMAIN f /\ ~Within(f.phoff, f.phnum, f.phentsize)
              \/ "shoff" \in DOMAIN f /\ ~Within(f.shoff, f.shnum, f.shentsize)

\* Every header read, and every segment, section or name handed out of an
\* accepted file lies in the file, whatever its headers say (elf_getProgramSegment,
\* elf_getSection, elf_getSectionName).
RangesInside ==
    elf.at = "got" => \A r \in elf.ranges : r[1] <= r[2] /\ r[2] <= elf.size

\* If the segments and the last page end within the address space, the bounds
\* ElfFile computes hold every segment in whole pages and start with one, in
\* whatever order the segments are (elf_getMemoryBounds, ElfFile::ElfFile).
BoundsHoldSegments ==
    LET used == {ph \in elf.loads : ph.memsz # 0}
        Ends == {ph.vaddr + ph.memsz : ph \in used}
    IN  elf.at = "sized" /\ used # {} /\ Max(Ends) <= WORD - ElfPage =>
          /\ elf.min = Min({ph.vaddr : ph \in used})
          /\ elf.min % ElfPage = 0 => elf.max % ElfPage = 0
          /\ elf.max - Max(Ends) \in 0 .. ElfPage - 1

\* Whatever a file holds, it is accepted exactly if it is well formed, nothing behind
\* its end is read, and its bounds are those of its segments (elf.c, ElfFile.cpp).
FilesReadSafely == AcceptedIffWellFormed /\ RangesInside /\ BoundsHoldSegments
=============================================================================
