------------------------------- MODULE Loader -------------------------------
(***************************************************************************)
(* How an enclave gets into its memory, is measured and starts there.  The *)
(* SDK copies the loader, the runtime and the application page by page     *)
(* (sdk/src/host/Enclave.cpp); the monitor hashes the pages between the    *)
(* addresses it is given (sm/src/attest.c); a verifier computes the same   *)
(* hash from the files alone (Enclave::measure).                           *)
(*                                                                         *)
(* Then the loader maps the runtime's segments and the shared buffer       *)
(* (runtime/loader-binary), hands what is left of the free pages to the    *)
(* runtime, and the runtime maps the application's segments and its stack  *)
(* (runtime/sys/boot.c).  Both use loadElf (runtime/loader/loader.c) and the*)
(* page tables of runtime/mm/mm.c.                                         *)
(*                                                                         *)
(* A file is a sequence of bytes; enclave memory is a sequence of pages.   *)
(***************************************************************************)
EXTENDS Crypto, FiniteSets

CONSTANTS
    PAGE_SIZE,
    EXTRA_PAGES,    \* what calculate_required_pages adds for page tables and bss
    STALE           \* a byte of enclave memory before anything is copied there

ASSUME ImageAssumption == PAGE_SIZE \in Nat \ {0} /\ EXTRA_PAGES \in Nat

Roles == {"loader", "runtime", "eapp"}

PAGE_UP(n) == PAGE_SIZE * div_ceil(n, PAGE_SIZE)

\* The quotient is rounded down before ceil sees it.
calculate_required_pages(files) ==
    (Len(files.loader) \div PAGE_SIZE) + (Len(files.runtime) \div PAGE_SIZE)
        + (Len(files.eapp) \div PAGE_SIZE) + EXTRA_PAGES

prepareEnclaveMemory(files, freemem) ==
    [i \in 1 .. calculate_required_pages(files) + PAGE_UP(freemem) \div PAGE_SIZE |->
        [b \in 1 .. PAGE_SIZE |-> STALE]]

\* The page of a file from a byte on, with zeros behind the end of the file.
PageFrom(file, done) ==
    [b \in 1 .. PAGE_SIZE |-> IF done + b <= Len(file) THEN file[done + b] ELSE 0]

WritePage(epm, file, done) ==
    [epm EXCEPT !.pages[epm.used + 1] = PageFrom(file, done), !.used = @ + 1]

RECURSIVE copyFrom(_, _, _)
copyFrom(epm, file, done) ==
    IF done >= Len(file) THEN epm ELSE copyFrom(WritePage(epm, file, done), file, done + PAGE_SIZE)

copyFile(epm, file) == copyFrom(epm, file, 0)

\* Enclave::init: memory with the three files, and where each of them starts, in pages.
LaidOut(files, freemem) ==
    LET empty == [pages |-> prepareEnclaveMemory(files, freemem), used |-> 0]
        loader == copyFile(empty, files.loader)
        runtime == copyFile(loader, files.runtime)
        eapp == copyFile(runtime, files.eapp)
    IN  [pages |-> eapp.pages, runtime |-> loader.used, user |-> runtime.used, free |-> eapp.used]

(***************************************************************************)
(* The two measurements.                                                   *)
(***************************************************************************)
RECURSIVE measureFrom(_, _, _)
measureFrom(ctx, file, fptr) ==
    IF fptr >= Len(file) THEN ctx
    ELSE measureFrom(ctx \o PageFrom(file, fptr), file, fptr + PAGE_SIZE)

measureElfFile(ctx, file) == measureFrom(ctx, file, 0)

measure(files) ==
    LET sizes == <<PAGE_UP(Len(files.loader)), PAGE_UP(Len(files.runtime)), PAGE_UP(Len(files.eapp))>>
    IN  Hash(measureElfFile(measureElfFile(measureElfFile(sizes, files.loader), files.runtime),
                            files.eapp))

Sizes(epm) == <<PAGE_SIZE * epm.runtime, PAGE_SIZE * (epm.user - epm.runtime),
                PAGE_SIZE * (epm.free - epm.user)>>

\* The bytes of the pages in use, one page behind the other.
BytesOf(epm) ==
    [i \in 1 .. PAGE_SIZE * epm.free |-> epm.pages[((i - 1) \div PAGE_SIZE) + 1][((i - 1) % PAGE_SIZE) + 1]]

validate_and_hash_enclave(epm) == Hash(Sizes(epm) \o BytesOf(epm))

\* What is measured of a file: its bytes, and zeros up to a whole page.
Measured(files) == [r \in Roles |-> measureElfFile(<<>>, files[r])]

(***************************************************************************)
(* The start.  Physical pages are numbered from the start of enclave memory.*)
(* A record m has the pages, the number of the first free one, the page    *)
(* tables in use, the mappings from virtual page numbers, and how loading  *)
(* goes.                                                                   *)
(***************************************************************************)
CONSTANTS
    FANOUT,         \* entries of a page table
    UTM_VPN, UTM_PAGES,     \* where the shared buffer is mapped, and its size
    STACK_VPN, STACK_PAGES, \* the application's stack
    Inputs          \* files, the segments of runtime and application, and free memory

VARIABLES
    input,      \* what is started
    stage,      \* how far it is
    epm,        \* enclave memory as the SDK left it
    memory      \* enclave memory as the boot leaves it, a record m

loaderVars == <<input, stage, epm, memory>>

\* A segment: virtual address, offset in the file, bytes in the file and in memory, access.
Segment == [vaddr : Nat, offset : Nat, filesz : Nat, memsz : Nat, mode : {"RW", "RX"}]

Offset(a) == a % PAGE_SIZE
PAGE_DOWN(a) == a - Offset(a)
vpn(a) == a \div PAGE_SIZE
ByteAt(m, a) == m.pages[vpn(a) + 1][Offset(a) + 1]

(***************************************************************************)
(* Pages and page tables.                                                  *)
(***************************************************************************)
\* The first free page, zeroed; without one the enclave stops at an assertion.
spa_get_zero(m) ==
    IF m.free >= Len(m.pages) THEN [m EXCEPT !.status = "no memory"]
    ELSE [m EXCEPT !.pages[m.free + 1] = Zero(PAGE_SIZE), !.free = @ + 1]

\* The tables that a walk goes through below the root.
Path(v) == <<<<2, v \div (FANOUT * FANOUT)>>, <<3, v \div FANOUT>>>>

walk_create(m, v) ==
    FoldLeft(LAMBDA n, table : IF table \in DOMAIN n.tables THEN n
                 ELSE [spa_get_zero(n) EXCEPT !.tables = (table :> n.free) @@ @],
             m, Path(v))

Entry(page, mode, user) == [page |-> page, mode |-> mode, user |-> user]

\* A page that is mapped already stays as it is, and the caller does not notice.
Mapped(m, v, entry) == IF v \in DOMAIN m.map THEN m ELSE [m EXCEPT !.map = (v :> entry) @@ @]
map_page(m, v, page, mode, user) == Mapped(walk_create(m, v), v, Entry(page, mode, user))

\* For a page that is mapped already the address returned is made from the whole
\* entry and not from its page number, so that what is written next goes astray.
Allocated(m, v, mode, user) ==
    IF v \in DOMAIN m.map THEN [m EXCEPT !.status = "astray"]
    ELSE [spa_get_zero(m) EXCEPT !.map = (v :> Entry(m.free, mode, user)) @@ @]
alloc_page(m, v, mode, user) == Allocated(walk_create(m, v), v, mode, user)

\* len bytes of memory from physical address src on.
Read(m, src, len) ==
    SubSeq(FlattenSeq(SubSeq(m.pages, vpn(src) + 1, vpn(src + len - 1) + 1)),
           Offset(src) + 1, Offset(src) + len)

Good(m) == m.status = "ok"

\* memcpy of them into the page at v, from byte at on, if there is such a page.
CopyInto(m, v, at, src, len) ==
    IF ~Good(m) THEN m
    ELSE [m EXCEPT !.pages[m.map[v].page + 1] =
            SubSeq(@, 1, at) \o Read(m, src, len) \o SubSeq(@, at + len + 1, PAGE_SIZE)]

(***************************************************************************)
(* loadElf.                                                                *)
(***************************************************************************)
\* A first page that the segment does not own from its start on.
FirstPage(m, seg, src, user) ==
    IF Offset(seg.vaddr) = 0 THEN m
    ELSE IF Offset(seg.vaddr) # Offset(src) THEN [m EXCEPT !.status = "misaligned"]
    ELSE CopyInto(alloc_page(m, vpn(seg.vaddr), seg.mode, user), vpn(seg.vaddr), Offset(seg.vaddr),
                  src, PAGE_SIZE - Offset(seg.vaddr))

\* Mutant: a page that the file ends in is mapped like a whole one.
Whole_over(va, file_end) == va < file_end

Whole(va, file_end) == va + PAGE_SIZE <= file_end

\* Whole pages of the file are mapped where they are.
RECURSIVE MapWhole(_, _, _, _, _)
MapWhole(m, seg, va, src, user) ==
    IF ~Good(m) \/ ~Whole(va, seg.vaddr + seg.filesz) THEN [m |-> m, va |-> va, src |-> src]
    ELSE MapWhole(map_page(m, vpn(va), vpn(src), seg.mode, user), seg,
                  va + PAGE_SIZE, src + PAGE_SIZE, user)

\* The rest is in new pages, of which the first may begin with the end of the file.
FileEnd(m, seg, va, src) ==
    IF va < seg.vaddr + seg.filesz THEN CopyInto(m, vpn(va), 0, src, seg.vaddr + seg.filesz - va) ELSE m

RECURSIVE AllocRest(_, _, _)
AllocRest(at, seg, user) ==
    IF ~Good(at.m) \/ at.va >= seg.vaddr + seg.memsz THEN at.m
    ELSE AllocRest([at EXCEPT !.m = FileEnd(alloc_page(at.m, vpn(at.va), seg.mode, user), seg, at.va, at.src),
                              !.va = @ + PAGE_SIZE], seg, user)

loadSegment(m, src, seg, user) ==
    LET up(a) == IF Offset(seg.vaddr) # 0 THEN PAGE_DOWN(a) + PAGE_SIZE ELSE a
    IN  AllocRest(MapWhole(FirstPage(m, seg, src, user), seg, up(seg.vaddr), up(src), user), seg, user)

loadElf(m, base, segments, user) ==
    FoldLeft(LAMBDA n, seg : IF Good(n) THEN loadSegment(n, base * PAGE_SIZE + seg.offset, seg, user) ELSE n,
             m, segments)

(***************************************************************************)
(* The stages of the start.                                                *)
(***************************************************************************)
Idle == input = <<>> /\ stage = "idle" /\ epm = <<>> /\ memory = <<>>

Start ==
    /\ input \in Inputs
    /\ stage = "files" /\ epm = <<>> /\ memory = <<>>

Lay ==
    /\ stage = "files"
    /\ epm' = LaidOut(input.files, input.freemem)
    /\ stage' = "laid out"
    /\ UNCHANGED <<input, memory>>

\* Pages of the shared buffer lie outside enclave memory.
map_untrusted_memory(m) ==
    FoldLeftDomain(LAMBDA n, i : IF Good(n) THEN map_page(n, UTM_VPN + i - 1, -i, "RW", FALSE) ELSE n,
                   m, Zero(UTM_PAGES))

Fresh == [pages |-> epm.pages, free |-> epm.free, tables |-> <<>>, map |-> <<>>, status |-> "ok"]

load_runtime ==
    /\ stage = "laid out"
    /\ memory' = map_untrusted_memory(loadElf(Fresh, epm.runtime, input.runtime, FALSE))
    /\ stage' = IF Good(memory') THEN "loaded" ELSE "failed"
    /\ UNCHANGED <<input, epm>>

\* What the loader has left of it.
free_base_final == memory.free

init_user_stack(m) ==
    FoldLeftDomain(LAMBDA n, i : IF Good(n) THEN alloc_page(n, STACK_VPN + i - 1, "RW", TRUE) ELSE n,
                   m, Zero(STACK_PAGES))

eyrie_boot ==
    /\ stage = "loaded"
    /\ memory' = init_user_stack(loadElf([memory EXCEPT !.free = free_base_final],
                                         epm.user, input.eapp, TRUE))
    /\ stage' = IF Good(memory') THEN "booted" ELSE "failed"
    /\ UNCHANGED <<input, epm>>

\* The enclave ends, after a failure in error_and_exit or at an assertion.
End ==
    /\ stage \in {"booted", "failed"}
    /\ input' = <<>> /\ stage' = "idle" /\ epm' = <<>> /\ memory' = <<>>

LoaderNext == Lay \/ load_runtime \/ eyrie_boot \/ End

(***************************************************************************)
(* Properties.                                                             *)
(***************************************************************************)
\* What a linker makes: segments in order, no page in two of them, offsets that
\* match the addresses; and zeros behind the file's part of a segment do not begin
\* in a page that the segment shares, where loadElf copies what follows in the file.
Linked(segments) ==
    /\ \A s \in ToSet(segments) :
          /\ Offset(s.vaddr) = Offset(s.offset)
          /\ \/ Offset(s.vaddr) = 0 \/ s.filesz = s.memsz
             \/ s.vaddr + s.filesz >= PAGE_DOWN(s.vaddr) + PAGE_SIZE
    /\ \A i, j \in DOMAIN segments : i < j =>
          /\ vpn(segments[i].vaddr + segments[i].memsz - 1) < vpn(segments[j].vaddr)
          /\ segments[i].offset + segments[i].filesz <= segments[j].offset

\* A segment reads as the file's bytes and zeros behind them, with its access.
Loaded(m, segments, file, user) ==
    \A s \in ToSet(segments) : \A a \in s.vaddr .. s.vaddr + s.memsz - 1 :
        LET entry == m.map[vpn(a)] IN
        /\ entry.mode = s.mode /\ entry.user = user
        /\ ByteAt(m, entry.page * PAGE_SIZE + Offset(a))
             = IF a < s.vaddr + s.filesz THEN file[s.offset + a - s.vaddr + 1] ELSE 0

\* Every page taken is one page table or one page mapped, once.
Owned(m) ==
    \A p \in epm.free .. m.free - 1 :
        Cardinality({t \in DOMAIN m.tables : m.tables[t] = p})
            + Cardinality({v \in DOMAIN m.map : m.map[v].page = p}) = 1

\* When the boot is through, the runtime and the application read as linked, in
\* pages of their own, and the stack is zero: wherever segments start and end in
\* a page, and whichever pages the loader took first; and a boot fails only for
\* want of memory (load_runtime, eyrie_boot, loadElf).
BootsAsLinked ==
    /\ stage = "failed" => memory.status = "no memory"
    /\ stage = "booted" =>
          /\ Loaded(memory, input.runtime, input.files.runtime, FALSE)
          /\ Loaded(memory, input.eapp, input.files.eapp, TRUE)
          /\ Owned(memory)
          /\ \A v \in STACK_VPN .. STACK_VPN + STACK_PAGES - 1 :
                memory.pages[memory.map[v].page + 1] = Zero(PAGE_SIZE)

\* Files of any sizes fit into the memory asked for them although the page count
\* is rounded down, and the monitor's hash of that memory is the one a verifier
\* computes from the files alone (calculate_required_pages, copyFile, measure,
\* validate_and_hash_epm).
MeasuresAgree ==
    stage = "laid out" =>
        epm.free <= Len(epm.pages) /\ validate_and_hash_enclave(epm) = measure(input.files)

\* Hashed piece by piece, the sizes first and then page after page, enclave memory
\* has the hash of all its bytes in a row, wherever pieces end in a block of the
\* sponge (hash_extend, hash_extend_page, sha3_update, sha3_final).
PiecesHashAlike ==
    stage = "laid out" =>
        sha3_final(Updated(sha3_init, <<Sizes(epm)>> \o SubSeq(epm.pages, 1, epm.free)))
            = SHA3(Sizes(epm) \o BytesOf(epm))

\* What the host lays out is what the verifier measures, and what the loader boots
\* from it is what the files were linked to be (Enclave.cpp, loader.c, elf.c, attest.c).
LoadedIsMeasured == MeasuresAgree /\ PiecesHashAlike /\ BootsAsLinked
=============================================================================
