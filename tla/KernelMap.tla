------------------------------ MODULE KernelMap ------------------------------
(***************************************************************************)
(* The runtime's view of physical memory: the loader maps the enclave's    *)
(* memory and the runtime the backing store of its pages, each through     *)
(* page tables reserved for it (map_with_reserved_page_table for 64-bit    *)
(* words), with pages or, for a large range, megapages.                    *)
(*                                                                         *)
(* A table is named; an entry is empty, points to a table, or is a leaf    *)
(* with a physical address.                                                *)
(***************************************************************************)
EXTENDS Integers, FiniteSets

CONSTANTS
    RISCV_PAGE_BITS, RISCV_PT_INDEX_BITS,
    MapBases,       \* physical addresses of the ranges (a bound)
    MapSizes        \* their sizes (a bound)

RISCV_PT_LEVELS == 3
RISCV_GET_LVL_PGSIZE(n) == 2 ^ (RISCV_PT_INDEX_BITS * (RISCV_PT_LEVELS - n) + RISCV_PAGE_BITS)
Entries == 2 ^ RISCV_PT_INDEX_BITS
RISCV_GET_PT_INDEX(addr, n) == (addr \div RISCV_GET_LVL_PGSIZE(n)) % Entries
VirtualAddresses == 0 .. Entries * RISCV_GET_LVL_PGSIZE(1) - 1

\* Two parts of the address space with a root entry each.
EYRIE_LOAD_START == 0
EYRIE_PAGING_START == RISCV_GET_LVL_PGSIZE(1)

ASSUME KernelMapAssumption ==
    /\ RISCV_PAGE_BITS > 0 /\ RISCV_PT_INDEX_BITS > 0
    /\ \A a \in MapBases \cup MapSizes : a > 0 /\ a % RISCV_GET_LVL_PGSIZE(3) = 0

VARIABLE kmap   \* the tables, and the ranges that were mapped

Tables == {"root", "load_l2", "load_l3", "paging_l2", "paging_l3"}
NoEntry == [kind |-> "none"]
ptd_create(table) == [kind |-> "table", table |-> table]
Leaf(pa) == [kind |-> "leaf", pa |-> pa]

MapIdle == kmap = [at |-> "none"]
NoRange == [base |-> 0, size |-> 0]

\* The loader's tables are cleared with the rest of its data.
Cleared == [at |-> "loader", tables |-> [t \in Tables |-> [i \in 0 .. Entries - 1 |-> NoEntry]],
            dram |-> NoRange, store |-> NoRange, given |-> NoRange]
MapStart == kmap = Cleared

(***************************************************************************)
(* Mapping a range.                                                        *)
(***************************************************************************)
\* Mutant: one page too many at the end of a range.
Offsets_end(size, step) == {o \in 0 .. size : o % step = 0}
Offsets_(size, step) == {o \in 0 .. size - 1 : o % step = 0}

\* The assertions at the head of the function.
MapAsserts(base, size, ptr, leaf_level) ==
    /\ size <= RISCV_GET_LVL_PGSIZE(leaf_level - 1)
    /\ base % RISCV_GET_LVL_PGSIZE(leaf_level) = 0
    /\ ptr % RISCV_GET_LVL_PGSIZE(leaf_level - 1) = 0

map_with_reserved_page_table_64(tables, base, size, ptr, l2, l3, leaf_level) ==
    LET leaf == IF leaf_level = 3 THEN l3 ELSE l2
        step == RISCV_GET_LVL_PGSIZE(leaf_level)
        linked == [tables EXCEPT
                      !["root"][RISCV_GET_PT_INDEX(ptr, 1)] = ptd_create(l2),
                      ![l2][RISCV_GET_PT_INDEX(ptr, 2)] = IF leaf_level = 3 THEN ptd_create(l3) ELSE @]
        written(i) == {o \in Offsets_(size, step) : RISCV_GET_PT_INDEX(ptr + o, leaf_level) = i}
    IN  [linked EXCEPT ![leaf] = [i \in 0 .. Entries - 1 |->
            IF written(i) = {} THEN @[i]
            ELSE Leaf(base + CHOOSE o \in written(i) : \A p \in written(i) : p <= o)]]

LeafLevel(size) == IF size > RISCV_GET_LVL_PGSIZE(2) THEN 2 ELSE 3

\* The enclave ends if an assertion fails.
map_with_reserved_page_table(tables, base, size, ptr, l2, l3, next) ==
    LET leaf_level == LeafLevel(size) IN
    IF MapAsserts(base, size, ptr, leaf_level)
    THEN [at |-> next,
          tables |-> map_with_reserved_page_table_64(tables, base, size, ptr, l2, l3, leaf_level)]
    ELSE [at |-> "asserted", tables |-> tables]

map_physical_memory ==
    /\ kmap.at = "loader"
    /\ \E base \in MapBases, size \in MapSizes :
          LET m == map_with_reserved_page_table(kmap.tables, base, size, EYRIE_LOAD_START,
                                                "load_l2", "load_l3", "runtime")
          IN  kmap' = [kmap EXCEPT !.at = m.at, !.tables = m.tables, !.dram = [base |-> base, size |-> size]]

MEGAPAGE_DOWN(n) == n - (n % RISCV_GET_LVL_PGSIZE(2))
MEGAPAGE_UP(n) == ((n - 1) \div RISCV_GET_LVL_PGSIZE(2) + 1) * RISCV_GET_LVL_PGSIZE(2)

\* The monitor has a store of the size at the address, or none.
init_paging ==
    /\ kmap.at = "runtime"
    /\ \/ kmap' = [kmap EXCEPT !.at = "booted"]
       \/ \E base \in MapBases, size \in MapSizes :
             LET bytes == MEGAPAGE_DOWN(size)
                 addr == MEGAPAGE_UP(base)
                 m == map_with_reserved_page_table(kmap.tables, addr, bytes, EYRIE_PAGING_START,
                                                   "paging_l2", "paging_l3", "booted")
             IN  IF bytes = 0 THEN kmap' = [kmap EXCEPT !.at = "booted"]
                 ELSE kmap' = [kmap EXCEPT !.at = m.at, !.tables = m.tables,
                                           !.store = [base |-> addr, size |-> bytes],
                                           !.given = [base |-> base, size |-> size]]

\* The enclave ends and another one starts.
MapEnd == kmap.at \in {"booted", "asserted"} /\ kmap' = Cleared

MapNext == map_physical_memory \/ init_paging \/ MapEnd

(***************************************************************************)
(* Walks.                                                                  *)
(***************************************************************************)
\* The hart's walk, which stops at a leaf of any level; -1 is a fault.
HartWalk(va) ==
    LET step(t, n) == kmap.tables[t][RISCV_GET_PT_INDEX(va, n)]
        reached(e, n) == e.pa + (va % RISCV_GET_LVL_PGSIZE(n))
        e1 == step("root", 1)
        e2 == step(e1.table, 2)
        e3 == step(e2.table, 3)
    IN  CASE e1.kind = "none" -> -1
          [] e1.kind = "leaf" -> reached(e1, 1)
          [] e1.kind = "table" /\ e2.kind = "none" -> -1
          [] e1.kind = "table" /\ e2.kind = "leaf" -> reached(e2, 2)
          [] OTHER -> IF e3.kind = "leaf" THEN reached(e3, 3) ELSE -1

paging_backpage_inbounds(va) ==
    va >= EYRIE_PAGING_START /\ va < EYRIE_PAGING_START + kmap.store.size

\* __pa and __va.
__pa(va) == (va - EYRIE_LOAD_START) + kmap.dram.base
InLoad(va) == va >= EYRIE_LOAD_START /\ va < EYRIE_LOAD_START + kmap.dram.size

(***************************************************************************)
(* Properties.                                                             *)
(***************************************************************************)
\* Whatever the sizes and addresses, a virtual address of the enclave's memory is
\* mapped to the physical address that __pa computes for it, one of the backing
\* store to its offset in the store, and nothing else is mapped but the rest of
\* the last page or megapage; the part of the store that is used starts inside
\* it and, if the store is aligned, ends inside it
\* (map_with_reserved_page_table, init_paging, __pa).
MapsRanges ==
    kmap.at = "booted" =>
        /\ kmap.store.base >= kmap.given.base
        /\ kmap.given.base % RISCV_GET_LVL_PGSIZE(2) = 0 =>
              kmap.store.base + kmap.store.size <= kmap.given.base + kmap.given.size
        /\ \A va \in VirtualAddresses :
            LET pa == HartWalk(va)
                store == kmap.store
                rest(off, size) == size > RISCV_GET_LVL_PGSIZE(2) /\ off < MEGAPAGE_UP(size)
            IN  /\ InLoad(va) => pa = __pa(va)
                /\ paging_backpage_inbounds(va) => pa = store.base + (va - EYRIE_PAGING_START)
                /\ pa # -1 => \/ InLoad(va) \/ paging_backpage_inbounds(va)
                              \/ va < EYRIE_PAGING_START /\ rest(va - EYRIE_LOAD_START, kmap.dram.size)

\* The kernel's ranges are refused only for a size above a gigapage, or a large
\* range of memory that is not aligned to a megapage: never for the backing
\* store, whose address is rounded first (the assertions of
\* map_with_reserved_page_table, init_paging).
RefusedOnlyIf ==
    kmap.at = "asserted" =>
        \E r \in {kmap.dram, kmap.store} :
            \/ r.size > RISCV_GET_LVL_PGSIZE(1)
            \/ r = kmap.dram /\ r.size > RISCV_GET_LVL_PGSIZE(2) /\ r.base % RISCV_GET_LVL_PGSIZE(2) # 0

\* The runtime maps its memory and the backing store as it computes with them, for
\* every size and place the host gives it, or refuses at boot (vm.c, paging.c).
MapsExactly == MapsRanges /\ RefusedOnlyIf
=============================================================================
