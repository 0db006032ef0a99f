------------------------------- MODULE Paging -------------------------------
(***************************************************************************)
(* Memory of an application under the Eyrie runtime (runtime/mm, the       *)
(* memory calls of runtime/call/linux_wrap.c), built with USE_PAGING,      *)
(* USE_PAGE_CRYPTO and USE_PAGE_HASH: the list of free frames, the leaf    *)
(* page table entries, and eviction to an untrusted backing store, which   *)
(* also holds the pageout counters and the nodes of the Merkle tree.       *)
(*                                                                         *)
(* An instruction or system call of the application is a job; the runtime  *)
(* handles it a page at a time.  The tree is kept as the map from backing  *)
(* pages to hashes that it stands for.  A hash is the text and counter it  *)
(* is taken over, a ciphertext the text and counter it is made from.       *)
(***************************************************************************)
EXTENDS Integers, Sequences, SequencesExt, FiniteSets, FiniteSetsExt

CONSTANTS
    Frames,         \* page frames of the enclave: the application file's and the free ones
    ElfPages,       \* ElfPages[v]: the frame of the file mapped in place at page v
    FilePages,      \* pages of the application file
    MAX_VPN,        \* user pages are 1 .. MAX_VPN (a bound)
    STACK,          \* the pages of the user stack, <<first, last>>
    ANON_START,     \* EYRIE_ANON_REGION_START
    BREAK_START,    \* the program break at boot
    PT_ENTRIES,     \* pages under one leaf page table
    BackPages,      \* pages of the backing store
    CTRS_PER_PAGE,  \* pageout counters in a page
    NODES_PER_PAGE, \* MERK_NODES_PER_PAGE
    CTR,            \* 2 ^ 64, the range of a pageout counter
    ULONG,          \* 2 ^ the width of paging_user_page_count
    Values,         \* what the application stores
    MaxPages,       \* the largest range of a call (a bound)
    Protectable     \* the pages the application calls mprotect for (a bound)

Vpns == 1 .. MAX_VPN
N == Cardinality(BackPages)
None == -1
Zeros == "zeros"
Garbage == "garbage"
Contents == Values \cup {Zeros, Garbage}
Prots == {"R", "RW"}
Tables == {v \div PT_ENTRIES : v \in Vpns}
Indirects == {b \div CTRS_PER_PAGE : b \in BackPages}
NoHash == <<>>
Idle == [op |-> "idle"]
Unmapped == [data |-> Garbage, prot |-> "none"]
PickRetries == 3

ASSUME PagingAssumption ==
    /\ BackPages = 0 .. N - 1 /\ N > 1
    /\ NODES_PER_PAGE > 2 /\ PT_ENTRIES > 0 /\ CTRS_PER_PAGE > 0
    /\ Frames \subseteq Nat \ {0}
    /\ DOMAIN ElfPages \subseteq Vpns /\ \A v \in DOMAIN ElfPages : ElfPages[v] \in Frames
    /\ \A v, w \in DOMAIN ElfPages : ElfPages[v] = ElfPages[w] => v = w
    /\ ANON_START <= BREAK_START /\ BREAK_START <= MAX_VPN
    /\ {Zeros, Garbage} \cap Values = {}

VARIABLES
    free,               \* spa_free_pages
    frame,              \* frame[f]: what frame f holds
    pte,                \* pte[v]: the leaf entry of page v
    table,              \* table[t]: the frame of leaf table t, 0 if it was there at boot
    user_page_count,    \* paging_user_page_count
    next_offset,        \* paging_next_backing_page_offset, in pages
    inc_offset,         \* paging_inc_backing_page_offset_by, in pages
    store,              \* store[b]: the ciphertext in backing page b
    ctr,                \* ctr[b]: the pageout counter of b, itself in the backing store
    ctr_indirect_ptrs,  \* the backing pages that hold the counters
    merk,               \* merk[b]: the hash the Merkle tree holds for b
    node_pages,         \* the backing pages that hold the nodes of the tree
    program_break,      \* current_program_break
    job,                \* what the application executes
    alive               \* FALSE once an assert failed or the runtime left by sbi_exit_enclave

epm == <<free, frame, pte, table, user_page_count>>
swap == <<next_offset, store, ctr, ctr_indirect_ptrs, merk, node_pages>>
vars == <<epm, swap, inc_offset, program_break, job, alive>>

NoPte == [at |-> "none", page |-> None, prot |-> "R"]
Mapped(f, prot) == [at |-> "frame", page |-> f, prot |-> prot]
Table(v) == v \div PT_ENTRIES
Indirect(b) == b \div CTRS_PER_PAGE
Call(op, from, to, prot) == [op |-> op, at |-> from, end |-> to, prot |-> prot]

gcd(a, b) == Max({d \in 1 .. a : a % d = 0 /\ b % d = 0})

find_coprime_of(n) == {c \in n \div 2 .. n \div 2 + n \div 2 - 1 : c > 0 /\ gcd(c, n) = 1}

\* The boot of the runtime up to the allocation of the user stack.  The counters
\* are random in the code; where they start makes no difference here.
Init ==
    /\ free = SetToSortSeq({f \in Frames : \A v \in DOMAIN ElfPages : ElfPages[v] # f}, <)
    /\ frame = [f \in Frames |-> IF \E v \in DOMAIN ElfPages : ElfPages[v] = f
                                 THEN Zeros ELSE Garbage]
    /\ pte = [v \in Vpns |-> IF v \in DOMAIN ElfPages THEN Mapped(ElfPages[v], "RW") ELSE NoPte]
    /\ table = [t \in Tables |-> IF \E v \in DOMAIN ElfPages : Table(v) = t THEN 0 ELSE None]
    /\ user_page_count = FilePages
    /\ next_offset = 0
    /\ inc_offset \in find_coprime_of(N)
    /\ store = [b \in BackPages |-> [data |-> Garbage, ctr |-> 0]]
    /\ ctr = [b \in BackPages |-> 0]
    /\ ctr_indirect_ptrs = [i \in Indirects |-> None]
    /\ merk = [b \in BackPages |-> NoHash]
    /\ node_pages = {}
    /\ program_break = BREAK_START
    /\ job = Call("stack", STACK[1], STACK[2] + 1, "RW")
    /\ alive = TRUE

(***************************************************************************)
(* The backing store.                                                      *)
(***************************************************************************)

\* The page that the k-th of the coming allocations returns.
backing_page(k) == (next_offset + k * inc_offset) % N

\* An allocation fails when the offset after it would be 0 again.
can_alloc_backing_pages(k) == \A j \in 1 .. k : backing_page(j) # 0

paging_remaining_pages == N - next_offset

\* A tree of k keys has k leaves and k - 1 inner nodes; an insertion takes its
\* nodes before it returns the leaf it replaces.  One node of a page is its list.
merk_nodes(keys) == IF keys = 0 THEN 0 ELSE 2 * keys - 1
merk_needs_page(b) ==
    LET keys == Cardinality({k \in BackPages : merk[k] # NoHash})
        peak == IF merk[b] # NoHash THEN merk_nodes(keys) + 1 ELSE merk_nodes(keys + 1)
    IN  peak > Cardinality(node_pages) * (NODES_PER_PAGE - 1)

pswap_hash(data, c) == <<data, c>>
pswap_encrypt(data, c) == [data |-> data, ctr |-> c]
pswap_decrypt(text, c) == IF text.ctr = c THEN text.data ELSE Garbage

\* What a load finds in backing page b and in its counter: the store is memory
\* of the host, who may change it up to that moment.
Stored(b) == [text |-> store[b], ctr |-> ctr[b]]
Seen == [text : [data : Contents, ctr : 0 .. CTR - 1], ctr : 0 .. CTR - 1]

\* What it decrypts to.
loaded(seen) == pswap_decrypt(seen.text, seen.ctr)

\* Mutant: the result of the verification is ignored.
merk_verify_ignored(b, seen) == TRUE

\* Does the tree vouch for it?
merk_verify(b, seen) == merk[b] = pswap_hash(loaded(seen), seen.ctr)

needs_ctr_page(b) == ctr_indirect_ptrs[Indirect(b)] = None

One(cond) == IF cond THEN 1 ELSE 0

\* Mutant: the page of counters is not taken from the allocator.
taken_uncounted(b, new) == One(new) + One(merk_needs_page(b))

\* Backing pages that a swap with b takes: b itself if it is new, a page of
\* counters, a page of nodes.
taken(b, new) == One(new) + One(needs_ctr_page(b)) + One(merk_needs_page(b))

swap_possible(b, new) == can_alloc_backing_pages(taken(b, new))

\* Frame f goes to backing page b, whose counter reads old.
page_swap_epm(b, f, new, old) ==
    LET c == (old + 1) % CTR IN
    /\ swap_possible(b, new)
    /\ next_offset' = backing_page(taken(b, new))
    /\ ctr_indirect_ptrs' = IF needs_ctr_page(b)
                            THEN [ctr_indirect_ptrs EXCEPT ![Indirect(b)] = backing_page(One(new))]
                            ELSE ctr_indirect_ptrs
    /\ node_pages' = IF merk_needs_page(b)
                     THEN node_pages \cup {backing_page(One(new) + One(needs_ctr_page(b)))}
                     ELSE node_pages
    /\ store' = [store EXCEPT ![b] = pswap_encrypt(frame[f], c)]
    /\ merk' = [merk EXCEPT ![b] = pswap_hash(frame[f], c)]
    /\ ctr' = [ctr EXCEPT ![b] = c]

(***************************************************************************)
(* Choosing what to evict.                                                 *)
(***************************************************************************)
Resident == {v \in Vpns : pte[v].at = "frame"}

\* A random number in 1 .. paging_user_page_count counts resident pages in the
\* order of the table, which is walked up to three times.
rank(v) == Cardinality({w \in Resident : w <= v})
pick_page == {v \in Resident : rank(v) <= user_page_count}
pick_may_fail == user_page_count = 0 \/ user_page_count > PickRetries * Cardinality(Resident)

\* The entry of the victim afterwards.
Evicted(v, b) == [at |-> "back", page |-> b, prot |-> pte[v].prot]

\* An assert fails, or the runtime gives up in rt_page_fault: the enclave exits.
Dies == /\ alive' = FALSE
        /\ job' = Idle
        /\ UNCHANGED <<epm, swap, inc_offset, program_break>>

(***************************************************************************)
(* __spa_get: the head of the list, or the frame of an evicted page.       *)
(***************************************************************************)
eviction_may_fail ==
    pick_may_fail \/ ~swap_possible(backing_page(0), TRUE)

spa_get_may_fail == free = <<>> /\ eviction_may_fail

\* The pages spa_get may evict; None if it needs to evict none.
spa_victims == IF free = <<>> THEN pick_page ELSE {None}
spa_frame(u) == IF u = None THEN Head(free) ELSE pte[u].page
spa_pte(u) == IF u = None THEN pte ELSE [pte EXCEPT ![u] = Evicted(u, backing_page(0))]
spa_count(u) == user_page_count - One(u # None)

spa_get_zero(u) ==
    /\ IF u = None
       THEN free' = Tail(free) /\ UNCHANGED swap
       ELSE page_swap_epm(backing_page(0), pte[u].page, TRUE, ctr[backing_page(0)]) /\ UNCHANGED free
    /\ frame' = [frame EXCEPT ![spa_frame(u)] = Zeros]

spa_available == Len(free) + paging_remaining_pages

(***************************************************************************)
(* The calls that allocate.                                                *)
(***************************************************************************)
Allocating == alive /\ job.op \in {"stack", "mmap", "brk"} /\ job.at < job.end
Done == job' = [job EXCEPT !.at = @ + 1]

\* __walk_create: the leaf table of the page is missing.
continue_walk_create ==
    /\ Allocating /\ table[Table(job.at)] = None
    /\ \E u \in spa_victims :
          /\ spa_get_zero(u)
          /\ table' = [table EXCEPT ![Table(job.at)] = spa_frame(u)]
          /\ pte' = spa_pte(u)
          /\ user_page_count' = spa_count(u) % ULONG
    /\ UNCHANGED <<inc_offset, program_break, job, alive>>

alloc_page ==
    /\ Allocating /\ table[Table(job.at)] # None
    /\ pte[job.at].at # "frame"
    /\ \E u \in spa_victims :
          /\ spa_get_zero(u)
          /\ pte' = [spa_pte(u) EXCEPT ![job.at] = Mapped(spa_frame(u), job.prot)]
          /\ user_page_count' = (spa_count(u) + 1) % ULONG
    /\ Done
    /\ UNCHANGED <<table, inc_offset, program_break, alive>>

\* assert(new_page) in __continue_walk_create, assert(page) in alloc_page.
alloc_fails ==
    /\ Allocating
    /\ table[Table(job.at)] = None \/ pte[job.at].at # "frame"
    /\ spa_get_may_fail
    /\ Dies

\* The first pages of the anonymous region that test_va_range finds unused.
Unused(from, n) == \A v \in from .. from + n - 1 : pte[v] = NoPte
first_fit(n) == {s \in ANON_START .. MAX_VPN + 1 - n :
                    Unused(s, n) /\ \A r \in ANON_START .. s - 1 : ~Unused(r, n)}

Idles == alive /\ job = Idle
Issue(call) == job' = call /\ UNCHANGED <<epm, swap, inc_offset, program_break, alive>>

\* A call that asks for more than spa_available returns -1 and changes nothing.
syscall_mmap ==
    /\ Idles
    /\ \E n \in 1 .. MaxPages, prot \in Prots :
          /\ n <= spa_available
          /\ \E s \in first_fit(n) : Issue(Call("mmap", s, s + n, prot))

syscall_brk ==
    /\ Idles
    /\ \E n \in 1 .. MaxPages :
          /\ program_break + n <= MAX_VPN + 1
          /\ n <= spa_available
          /\ Issue(Call("brk", program_break, program_break + n, "RW"))

\* The end of a call; brk moves the break when all its pages are there.
Returns ==
    /\ alive /\ job.op \in {"stack", "mmap", "brk"} /\ job.at = job.end
    /\ program_break' = IF job.op = "brk" THEN job.end ELSE program_break
    /\ job' = Idle
    /\ UNCHANGED <<epm, swap, inc_offset, alive>>

\* alloc_page finds the page there already.
page_present ==
    /\ Allocating /\ table[Table(job.at)] # None
    /\ pte[job.at].at = "frame"
    /\ Done
    /\ UNCHANGED <<epm, swap, inc_offset, program_break, alive>>

(***************************************************************************)
(* The calls that change a range of pages, first .. last.                  *)
(***************************************************************************)
Ranges == {r \in Vpns \X Vpns : r[1] <= r[2] /\ r[2] - r[1] < MaxPages}

\* free_pages skips the pages that are not in memory.  A free frame holds the
\* link of the list.
syscall_munmap ==
    /\ Idles
    /\ \E r \in Ranges :
          LET pages == (r[1] .. r[2]) \cap Resident
              frames == {pte[v].page : v \in pages}
          IN  /\ pte' = [v \in Vpns |-> IF v \in pages THEN NoPte ELSE pte[v]]
              /\ user_page_count' = (user_page_count - Cardinality(pages)) % ULONG
              /\ free' = free \o [i \in 1 .. Cardinality(pages) |->
                                    pte[CHOOSE v \in pages : rank(v) - rank(r[1] - 1) = i].page]
              /\ frame' = [f \in Frames |-> IF f \in frames THEN Garbage ELSE frame[f]]
    /\ UNCHANGED <<table, swap, inc_offset, program_break, job, alive>>

\* realloc_page fails on a page that is not in memory, and the call stops there.
syscall_mprotect ==
    /\ Idles
    /\ \E r \in Ranges \cap (Protectable \X Protectable), prot \in Prots :
          pte' = [v \in Vpns |-> IF v \in r[1] .. r[2] /\ r[1] .. v \subseteq Resident
                                 THEN [pte[v] EXCEPT !.prot = prot] ELSE pte[v]]
    /\ UNCHANGED <<free, frame, table, user_page_count, swap, inc_offset, program_break,
                   job, alive>>

(***************************************************************************)
(* Loads and stores, retried by the hart after the page fault handler.     *)
(***************************************************************************)
Access(op, v, d) == [op |-> op, at |-> v, data |-> d]
load == Idles /\ \E v \in Vpns : Issue(Access("load", v, Zeros))
store_insn == Idles /\ \E v \in Vpns, d \in Values : Issue(Access("store", v, d))

Accessing == alive /\ job.op \in {"load", "store"}
Permitted == job.op = "load" \/ pte[job.at].prot = "RW"

access ==
    /\ Accessing /\ job.at \in Resident /\ Permitted
    /\ frame' = IF job.op = "store" THEN [frame EXCEPT ![pte[job.at].page] = job.data] ELSE frame
    /\ job' = Idle
    /\ UNCHANGED <<free, pte, table, user_page_count, swap, inc_offset, program_break,
                   alive>>

\* The page is loaded into the frame of the page that takes its place in the
\* backing store.
paging_handle_page_fault ==
    /\ Accessing /\ pte[job.at].at = "back"
    /\ \E u \in pick_page, seen \in Seen :
          LET b == pte[job.at].page
              f == pte[u].page
          IN  /\ merk_verify(b, seen)
              /\ page_swap_epm(b, f, FALSE, seen.ctr)
              /\ frame' = [frame EXCEPT ![f] = loaded(seen)]
              /\ pte' = [pte EXCEPT ![u] = Evicted(u, b), ![job.at] = Mapped(f, pte[job.at].prot)]
    /\ UNCHANGED <<free, table, user_page_count, inc_offset, program_break, job, alive>>

\* The page was never mapped, the access is not permitted, no page can be
\* picked, the backing store is full, or what is loaded does not verify.
fatal_page_fault ==
    /\ Accessing
    /\ \/ pte[job.at] = NoPte
       \/ job.at \in Resident /\ ~Permitted
       \/ /\ pte[job.at].at = "back"
          /\ \/ pick_may_fail
             \/ ~swap_possible(pte[job.at].page, FALSE)
             \/ {seen \in Seen : ~merk_verify(pte[job.at].page, seen)} # {}
    /\ Dies

Runtime ==
    \/ continue_walk_create \/ alloc_page \/ page_present \/ alloc_fails \/ Returns
    \/ access \/ paging_handle_page_fault \/ fatal_page_fault

Next ==
    \/ syscall_mmap \/ syscall_brk \/ syscall_munmap \/ syscall_mprotect \/ load \/ store_insn
    \/ Runtime

Spec == Init /\ [][Next]_vars

(***************************************************************************)
(* Properties.                                                             *)
(***************************************************************************)
\* Every variable has its type.
TypeOK ==
    /\ free \in Seq(Frames) /\ frame \in [Frames -> Contents]
    /\ pte \in [Vpns -> [at : {"none", "frame", "back"},
                         page : Frames \cup BackPages \cup {None}, prot : Prots]]
    /\ table \in [Tables -> Frames \cup {0, None}]
    /\ user_page_count \in 0 .. ULONG - 1
    /\ next_offset \in BackPages /\ inc_offset \in BackPages
    /\ store \in [BackPages -> [data : Contents, ctr : 0 .. CTR - 1]]
    /\ ctr \in [BackPages -> 0 .. CTR - 1]
    /\ ctr_indirect_ptrs \in [Indirects -> BackPages \cup {None}]
    /\ merk \in [BackPages -> (Contents \X (0 .. CTR - 1)) \cup {NoHash}]
    /\ node_pages \subseteq BackPages
    /\ program_break \in BREAK_START .. MAX_VPN + 1
    /\ job.op \in {"idle", "stack", "mmap", "brk", "load", "store"}
    /\ alive \in BOOLEAN

\* Every frame of the enclave has exactly one use: it is in the list of free
\* pages, once, or holds a leaf table, or is mapped by one entry (freemem.c,
\* mm.c, paging.c).
FramesOwned ==
    LET ptes == {<<"page", v, pte[v].page>> : v \in Resident}
        tables == {<<"table", t, table[t]>> : t \in {t \in Tables : table[t] \in Frames}}
        frees == {<<"free", i, free[i]>> : i \in DOMAIN free}
    IN  \A f \in Frames : Cardinality({use \in ptes \cup tables \cup frees : use[3] = f}) = 1

\* A page of the backing store has at most one use, evicted page, counters or
\* tree nodes, and none that is in use is handed out again
\* (paging_alloc_backing_page, pswap_pageout_ctr, merk_alloc_page).
BackingOwned ==
    LET swapped == {v \in Vpns : pte[v].at = "back"}
        counters == {i \in Indirects : ctr_indirect_ptrs[i] # None}
        uses == {<<"page", v, pte[v].page>> : v \in swapped}
                  \cup {<<"ctr", i, ctr_indirect_ptrs[i]>> : i \in counters}
                  \cup {<<"node", b, b>> : b \in node_pages}
    IN  /\ \A p, q \in uses : p[3] = q[3] => p = q
        /\ \A k \in 0 .. N : can_alloc_backing_pages(k + 1) =>
              \A p \in uses : p[3] # backing_page(k)

\* paging_user_page_count moves with the number of resident user pages: it
\* stays as far from it as the size of the application file put it at boot
\* (init_paging).
CountTracksResident ==
    (user_page_count - Cardinality(Resident)) % ULONG
        = (FilePages - Cardinality(DOMAIN ElfPages)) % ULONG

\* The application's view: an evicted page holds what its hash vouches for.
mem ==
    [v \in Vpns |->
        IF ~alive \/ pte[v] = NoPte THEN Unmapped
        ELSE [data |-> IF v \in Resident THEN frame[pte[v].page] ELSE merk[pte[v].page][1],
              prot |-> pte[v].prot]]

Ideal == INSTANCE IdealMemory

\* Paging is invisible: whatever is evicted and loaded, and whatever becomes of
\* texts and counters in the backing store, the application finds in every page
\* what it last stored there, zeros in a page it was just given, and the protection
\* it asked for, or the enclave exits (page_swap_epm, paging_handle_page_fault, alloc_page).
PagingInvisible == Ideal!Spec

\* What was evicted can be loaded again: while the host leaves the backing store
\* alone, its text and counter are the ones the tree vouches for, and decrypt
\* (page_swap_epm).
EvictedVerifies ==
    \A v \in Vpns : pte[v].at = "back" => merk_verify(pte[v].page, Stored(pte[v].page))

\* Every frame and every page of the backing store has one use, the counters follow,
\* and what was evicted verifies, while pages are mapped, unmapped, evicted and loaded in
\* any order (freemem.c, mm.c, paging.c, page_swap.c).
PagesAccounted ==
    TypeOK /\ FramesOwned /\ BackingOwned /\ CountTracksResident /\ EvictedVerifies
=============================================================================
