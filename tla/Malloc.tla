------------------------------- MODULE Malloc -------------------------------
(***************************************************************************)
(* The allocator of the SDK (sdk/src/app/tiny-malloc.c), whose heap grows  *)
(* upwards from __malloc_start towards the stack, and an application that  *)
(* allocates, fills, resizes and frees chunks.                             *)
(*                                                                         *)
(* Memory is an array of machine words: an address or a size is a number   *)
(* of words, and a request for sz bytes is for the words they take.  A     *)
(* block has its size in its first word and, while it is on the free list, *)
(* the next block in its second, where the chunk of a block in use begins. *)
(***************************************************************************)
EXTENDS Integers, Sequences, FiniteSets, FiniteSetsExt, SequencesExt

CONSTANTS
    START,          \* __malloc_start
    LIMIT,          \* MALLOC_LIMIT: the frame of the caller, which is always the same one
    GAP,            \* MALLOC_MINIMUM_GAP
    Sizes,          \* sizes that are asked for
    Aligns,         \* alignments that are asked for
    VALLOC_ALIGN,   \* the alignment of valloc and pvalloc
    MaxLive         \* chunks the application holds at a time (a bound)

NULL == 0
Freelist == 0       \* the cell of __malloc_freelist
ENTRY == 2          \* sizeof(struct freelist_entry)
Junk == -1000       \* a word that no one may read

Powers == {2^k : k \in 0 .. 8}

ASSUME MallocAssumption ==
    /\ START > Freelist /\ GAP > 0 /\ START + GAP <= LIMIT
    /\ Sizes \subseteq Nat /\ Aligns \subseteq Nat /\ VALLOC_ALIGN \in Powers

VARIABLES
    heap,           \* mem: the words up to LIMIT, and end: __malloc_end
    live            \* live[p]: what was asked for, and what the application wrote, of chunk p

heapVars == <<heap, live>>

HeapInit ==
    /\ heap = [mem |-> [a \in 0 .. LIMIT |-> IF a = Freelist THEN NULL ELSE Junk], end |-> NULL]
    /\ live = <<>>

M_ALIGN(x, align) == (-x) % align

CAN_ALLOC_P(h, required) == LIMIT - h.end - GAP >= required

REAL_SIZE(sz) == IF sz < ENTRY - 1 THEN ENTRY ELSE sz + 1

Result(h, p) == [heap |-> h, p |-> p]
Failed(h) == Result(h, NULL)

(***************************************************************************)
(* malloc and free.  A cell is the address of a pointer to a block: the    *)
(* variable nextfree of the code.                                          *)
(***************************************************************************)

\* The first part of a free block is taken, all of it if no block fits into the rest.
Take(h, cell, real) ==
    LET block == h.mem[cell]
        rest == block + real
    IN  IF h.mem[block] < real + ENTRY
        THEN Result([h EXCEPT !.mem[cell] = h.mem[block + 1]], block + 1)
        ELSE Result([h EXCEPT !.mem[cell] = rest, !.mem[rest] = h.mem[block] - real,
                              !.mem[rest + 1] = h.mem[block + 1], !.mem[block] = real],
                    block + 1)

\* The last free block, which ends where the heap ends, becomes as large as needed.
Enlarge(h, cell, real) ==
    LET block == h.mem[cell] IN
    IF ~CAN_ALLOC_P(h, real - h.mem[block]) THEN Failed(h)
    ELSE Result([h EXCEPT !.mem[cell] = NULL, !.mem[block] = real, !.end = block + real],
                block + 1)

Extend(h, real) ==
    IF ~CAN_ALLOC_P(h, real) THEN Failed(h)
    ELSE Result([h EXCEPT !.mem[h.end] = real, !.end = @ + real], h.end + 1)

AtEnd(h, block) == h.mem[block + 1] = NULL /\ h.end = block + h.mem[block]

RECURSIVE FirstFit(_, _, _)
FirstFit(h, cell, real) ==
    LET block == h.mem[cell] IN
    IF block = NULL THEN Extend(h, real)
    ELSE IF h.mem[block] >= real THEN Take(h, cell, real)
    ELSE IF AtEnd(h, block) THEN Enlarge(h, cell, real)
    ELSE FirstFit(h, block + 1, real)

malloc(h, sz) ==
    FirstFit(IF h.end = NULL THEN [h EXCEPT !.end = START] ELSE h, Freelist, REAL_SIZE(sz))

\* A block goes in front of the block that a cell points to.
Insert(h, cell, block) ==
    [h EXCEPT !.mem[block + 1] = h.mem[cell], !.mem[cell] = block]

\* Mutant: the block after the freed one is not joined to the one before it.
MergeBefore_one(h, this, block) == [h EXCEPT !.mem[this] = @ + h.mem[block]]

\* The block grows by the freed one behind it, and by the free one behind that.
MergeBefore(h, this, block) ==
    LET next == h.mem[this + 1]
        size == h.mem[this] + h.mem[block]
    IN  IF next # NULL /\ block + h.mem[block] = next
        THEN [h EXCEPT !.mem[this] = size + h.mem[next], !.mem[this + 1] = h.mem[next + 1]]
        ELSE [h EXCEPT !.mem[this] = size]

MergeAfter(h, cell, this, block) ==
    [h EXCEPT !.mem[block] = @ + h.mem[this], !.mem[block + 1] = h.mem[this + 1],
              !.mem[cell] = block]

RECURSIVE FreeFrom(_, _, _)
FreeFrom(h, cell, block) ==
    LET this == h.mem[cell] IN
    IF this = NULL THEN Insert(h, cell, block)
    ELSE IF this + h.mem[this] = block THEN MergeBefore(h, this, block)
    ELSE IF this = block + h.mem[block] THEN MergeAfter(h, cell, this, block)
    ELSE IF this > block THEN Insert(h, cell, block)
    ELSE FreeFrom(h, this + 1, block)

Freed(h, p) == IF p = NULL THEN h ELSE FreeFrom(h, Freelist, p - 1)

(***************************************************************************)
(* realloc, calloc and memalign.                                           *)
(***************************************************************************)
memcpy(h, dst, src, n) ==
    [h EXCEPT !.mem = [a \in DOMAIN @ |-> IF a - dst \in 0 .. n - 1 THEN @[a - dst + src] ELSE @[a]]]

memset(h, dst, c, n) ==
    [h EXCEPT !.mem = [a \in DOMAIN @ |-> IF a - dst \in 0 .. n - 1 THEN c ELSE @[a]]]

\* Mutant: the old chunk is freed before it is copied.
Move_freed(h, p, sz) ==
    LET old_size == h.mem[p - 1] - 1
        r == malloc(Freed(h, p), sz)
    IN  IF r.p = NULL THEN r
        ELSE Result(memcpy(r.heap, r.p, p, IF old_size < sz THEN old_size ELSE sz), r.p)

\* The chunk is copied to a larger one and freed.
Move(h, p, sz) ==
    LET old_size == h.mem[p - 1] - 1
        r == malloc(h, sz)
    IN  IF r.p = NULL THEN r
        ELSE Result(Freed(memcpy(r.heap, r.p, p, IF old_size < sz THEN old_size ELSE sz), p), r.p)

\* The words that are not needed become a block, if one fits into them.
Shrink(h, p, real) ==
    LET block == p - 1
        old == h.mem[block]
    IN  IF old - real < ENTRY THEN Result(h, p)
        ELSE Result(Freed([h EXCEPT !.mem[block] = real, !.mem[block + real] = old - real],
                         block + real + 1), p)

realloc(h, p, sz) ==
    IF p = NULL THEN malloc(h, sz)
    ELSE IF h.mem[p - 1] < REAL_SIZE(sz) THEN Move(h, p, sz)
    ELSE Shrink(h, p, REAL_SIZE(sz))

calloc(h, n, elem_size) ==
    LET r == malloc(h, n * elem_size) IN
    IF r.p = NULL THEN r ELSE Result(memset(r.heap, r.p, 0, n * elem_size), r.p)

\* The words in front of the chunk in a block, which are none or a block.
BeforeSize(block, align) ==
    IF M_ALIGN(block + 1, align) = 0 THEN 0
    ELSE ENTRY + M_ALIGN(block + ENTRY + 1, align)

\* A chunk inside a free block, which keeps the words in front of it and, if a
\* block fits, those behind.
CarveInside(h, cell, before, real) ==
    LET old_block == h.mem[cell]
        block == old_block + before
        left == h.mem[old_block] - before
        new_block == block + real
    IN  IF left <= real + ENTRY
        THEN Result([h EXCEPT !.mem[old_block] = before, !.mem[block] = left], block + 1)
        ELSE Result([h EXCEPT !.mem[old_block] = before, !.mem[old_block + 1] = new_block,
                              !.mem[new_block] = left - real,
                              !.mem[new_block + 1] = h.mem[old_block + 1],
                              !.mem[block] = real],
                    block + 1)

\* The code keeps a rest of exactly ENTRY words in the chunk here, unlike malloc.
CarveFirst(h, cell, real) ==
    LET block == h.mem[cell] IN
    IF h.mem[block] <= real + ENTRY
    THEN Result([h EXCEPT !.mem[cell] = h.mem[block + 1]], block + 1)
    ELSE Take(h, cell, real)

\* The end of the free list: a new block, with room for the alignment, goes there.
AddBlock(h, cell, real, align) ==
    LET size == real + M_ALIGN(h.end + 1, align) IN
    IF ~CAN_ALLOC_P(h, size) THEN Failed(h)
    ELSE Result([h EXCEPT !.mem[cell] = h.end, !.mem[h.end] = size, !.mem[h.end + 1] = NULL,
                          !.end = @ + size], h.end)

\* The block of a cell, made larger if it is the last one and too small.
Widened(h, cell, size) ==
    LET block == h.mem[cell] IN
    IF h.mem[block] < size /\ AtEnd(h, block)
    THEN IF ~CAN_ALLOC_P(h, size - h.mem[block]) THEN Failed(h)
         ELSE Result([h EXCEPT !.mem[block] = size, !.end = block + size], block)
    ELSE Result(h, block)

RECURSIVE AlignedFit(_, _, _, _)
AlignedFit(h, cell, real, align) ==
    LET a == IF h.mem[cell] = NULL THEN AddBlock(h, cell, real, align) ELSE Result(h, h.mem[cell])
        before == BeforeSize(a.p, align)
        w == Widened(a.heap, cell, real + before)
    IN  IF a.p = NULL THEN a
        ELSE IF w.p = NULL THEN w
        ELSE IF w.heap.mem[w.p] < real + before THEN AlignedFit(w.heap, w.p + 1, real, align)
        ELSE IF before # 0 THEN CarveInside(w.heap, cell, before, real)
        ELSE CarveFirst(w.heap, cell, real)

memalign(h, align, sz) ==
    IF align \notin Powers THEN Failed(h) ELSE AlignedFit(h, Freelist, REAL_SIZE(sz), align)

valloc(h, sz) == memalign(h, VALLOC_ALIGN, sz)
pvalloc(h, sz) == memalign(h, VALLOC_ALIGN, sz + M_ALIGN(sz, VALLOC_ALIGN))

(***************************************************************************)
(* The application.  It fills a chunk when it gets it, and holds it until  *)
(* it frees it.                                                            *)
(***************************************************************************)
Holding == DOMAIN live
Tags == {live[p].tag : p \in Holding}
NewTag == Min((1 .. MaxLive) \ Tags)

\* The free blocks in the order of the list, which a bound makes finite.
RECURSIVE BlocksFrom(_, _, _)
BlocksFrom(h, cell, bound) ==
    IF h.mem[cell] = NULL \/ bound = 0 THEN <<>>
    ELSE <<h.mem[cell]>> \o BlocksFrom(h, h.mem[cell] + 1, bound - 1)

FreeBlocks(h) == BlocksFrom(h, Freelist, LIMIT)

Readable(h, held) ==
    {Freelist} \cup UNION {{b, b + 1} : b \in ToSet(FreeBlocks(h))}
               \cup UNION {p - 1 .. p + held[p].n - 1 : p \in DOMAIN held}

\* Words that no one may read are all the same.
Set(h, held) ==
    /\ LET readable == Readable(h, held) IN
       heap' = [h EXCEPT !.mem = [a \in DOMAIN @ |-> IF a \in readable THEN @[a] ELSE Junk]]
    /\ live' = held

Fill(h, p, from, n, tag) == memset(h, p + from, -tag, n - from)

Hold(r, n, tag, align) ==
    IF r.p = NULL THEN Set(r.heap, live)
    ELSE Set(Fill(r.heap, r.p, 0, n, tag),
             live @@ (r.p :> [n |-> n, tag |-> tag, align |-> align]))

Room == Cardinality(Holding) < MaxLive

Malloc(sz) == Room /\ Hold(malloc(heap, sz), sz, NewTag, 1)

\* The product is one that a size_t holds.
Calloc(n, elem_size) == Room /\ Hold(calloc(heap, n, elem_size), n * elem_size, 0, 1)

\* An application has called malloc before: memalign alone does not set __malloc_end.
Memalign(align, sz) == Room /\ heap.end # NULL /\ Hold(memalign(heap, align, sz), sz, NewTag, align)

Valloc(sz) ==
    /\ Room /\ heap.end # NULL
    /\ \/ Hold(valloc(heap, sz), sz, NewTag, VALLOC_ALIGN)
       \/ Hold(pvalloc(heap, sz), sz, NewTag, VALLOC_ALIGN)

Free(p) ==
    Set(Freed(heap, p), [q \in Holding \ {p} |-> live[q]])

\* What realloc has copied stays, and the application fills the rest.
Realloc(p, sz) ==
    LET r == realloc(heap, p, sz)
        kept == IF live[p].n < sz THEN live[p].n ELSE sz
        others == [q \in Holding \ {p} |-> live[q]]
    IN  IF r.p = NULL THEN Set(r.heap, live)
        ELSE Set(Fill(r.heap, r.p, kept, sz, live[p].tag),
                 others @@ (r.p :> [n |-> sz, tag |-> live[p].tag, align |-> 1]))

HeapNext ==
    \/ \E sz \in Sizes : Malloc(sz) \/ Valloc(sz)
    \/ \E n, elem_size \in Sizes : Calloc(n, elem_size)
    \/ \E align \in Aligns, sz \in Sizes : Memalign(align, sz)
    \/ \E p \in Holding : Free(p)
    \/ \E p \in Holding, sz \in Sizes : Realloc(p, sz)

HeapSpec == HeapInit /\ [][HeapNext]_heapVars

(***************************************************************************)
(* Properties.                                                             *)
(***************************************************************************)
\* The end of the heap keeps its distance from the stack, and chunks are words
\* of the heap (CAN_ALLOC_P).
HeapTypeOK ==
    /\ DOMAIN heap.mem = 0 .. LIMIT /\ heap.end \in {NULL} \cup START .. LIMIT - GAP
    /\ \A p \in Holding : p \in START + 1 .. heap.end /\ live[p].n \in Nat

BlockWords(block) == block .. block + heap.mem[block] - 1

\* Free blocks and blocks in use are disjoint and together are all the words of
\* the heap, so that none is lost, whatever was split, joined, moved or aligned;
\* and a block in use is large enough for its chunk (malloc, free, realloc, memalign).
Tiled ==
    LET blocks == FreeBlocks(heap) \o SetToSeq({p - 1 : p \in Holding}) IN
    /\ \A i, j \in DOMAIN blocks : i # j => BlockWords(blocks[i]) \cap BlockWords(blocks[j]) = {}
    /\ UNION {BlockWords(b) : b \in ToSet(blocks)} =
         IF heap.end = NULL THEN {} ELSE START .. heap.end - 1
    /\ \A p \in Holding : heap.mem[p - 1] > live[p].n /\ heap.mem[p - 1] >= ENTRY

\* The free list is in the order of addresses, and no two free blocks touch (free).
Joined ==
    LET blocks == FreeBlocks(heap) IN
    \A i \in 1 .. Len(blocks) - 1 : blocks[i] + heap.mem[blocks[i]] < blocks[i + 1]

\* The contents of the chunks in use.
chunks == [p \in Holding |-> [i \in 1 .. live[p].n |-> heap.mem[p + i - 1]]]
Chunks == INSTANCE IdealHeap

\* No call of the allocator changes a word of a chunk in use, and a chunk that
\* realloc moves keeps the words that fit (malloc, free, realloc, memalign).
ImplementsHeap == Chunks!Spec

\* A chunk of memalign is at a multiple of the alignment, and there is none for
\* an alignment that is no power of two (memalign).
Aligned == \A p \in Holding : live[p].align \in Powers /\ p % live[p].align = 0

\* After any calls, the blocks tile the heap below its limit, free ones are joined, and
\* chunks are large and aligned as asked for (malloc, free, realloc, memalign).
HeapSound == HeapTypeOK /\ Tiled /\ Joined /\ Aligned
=============================================================================
