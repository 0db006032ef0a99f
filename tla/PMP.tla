-------------------------------- MODULE PMP --------------------------------
(***************************************************************************)
(* The PMP region table of the security monitor (sm/src/pmp.c): a global   *)
(* table of memory regions, the bitmap of the slots in use, and the bitmap *)
(* of the PMP registers handed out.  All three are guarded by pmp_lock, so *)
(* every operation is one atomic step.                                     *)
(*                                                                         *)
(* The module also has the operators that write a region into the PMP      *)
(* register file of one hart; the modules that own the harts use them.     *)
(*                                                                         *)
(* Addresses are machine words, 0 .. MAXUL; MAXUL is the code's -1UL and   *)
(* addition is checked for wrapping where the code checks it.              *)
(***************************************************************************)
EXTENDS Integers

CONSTANTS
    PMP_N_REG,          \* PMP registers of a hart
    PMP_MAX_N_REGION,   \* slots of the region table
    MAXUL,              \* largest machine word
    RISCV_PGSIZE,       \* granularity of a region
    SMM_BASE, SMM_SIZE  \* memory of the security monitor

ASSUME PMPAssumption ==
    /\ PMP_N_REG \in Nat /\ PMP_N_REG >= 2
    /\ PMP_MAX_N_REGION \in Nat /\ PMP_MAX_N_REGION >= 2
    /\ MAXUL \in Nat /\ RISCV_PGSIZE \in Nat \ {0}
    /\ SMM_BASE \in Nat /\ SMM_SIZE \in Nat \ {0}
    /\ SMM_BASE + SMM_SIZE <= MAXUL

Word == 0 .. MAXUL
RegionIds == 0 .. PMP_MAX_N_REGION - 1
RegIds == 0 .. PMP_N_REG - 1
Bottom == PMP_N_REG - 1
Priorities == {"ANY", "TOP", "BOTTOM"}

VARIABLES
    regions,            \* the region table
    region_def_bitmap,  \* the slots that hold a region
    reg_bitmap          \* the PMP registers handed out

pmpVars == <<regions, region_def_bitmap, reg_bitmap>>

Region == [addr : Word, size : Word, addrmode : {"OFF", "TOR", "NAPOT"},
           allow_overlap : BOOLEAN, reg_idx : RegIds]

(***************************************************************************)
(* Reading the table.                                                      *)
(***************************************************************************)
ClearedRegion == [addr |-> 0, size |-> 0, addrmode |-> "OFF",
                  allow_overlap |-> FALSE, reg_idx |-> 0]

is_pmp_region_valid(i) == i \in region_def_bitmap

region_needs_two_entries(i) == regions[i].addrmode = "TOR" /\ regions[i].reg_idx > 0

\* The lowest i with the width bits i, i+1, ... of the bitmap all clear, or -1.
search_rightmost_unset(bitmap, max, width) ==
    LET fits == {i \in 0 .. max - width : i .. (i + width - 1) \cap bitmap = {}}
    IN  IF fits = {} THEN -1 ELSE CHOOSE i \in fits : \A j \in fits : i <= j

get_free_region_idx == search_rightmost_unset(region_def_bitmap, PMP_MAX_N_REGION, 1)
get_free_reg_idx == search_rightmost_unset(reg_bitmap, PMP_N_REG, 1)
get_conseq_free_reg_idx == search_rightmost_unset(reg_bitmap, PMP_N_REG, 2)

\* A range that wraps counts as overlapping (CHECKED_ADD).
detect_region_overlap(addr, size) ==
    \/ addr + size > MAXUL
    \/ \E i \in region_def_bitmap :
          /\ ~regions[i].allow_overlap
          /\ regions[i].addr < addr + size
          /\ regions[i].addr + regions[i].size > addr

(***************************************************************************)
(* Allocating a region.  A range that covers all memory, or is a naturally *)
(* aligned power of two, takes one register (NAPOT); any other range takes *)
(* two adjacent ones (TOR), or register 0 alone when it is the top entry.  *)
(***************************************************************************)
IsPowerOfTwo(n) == \E k \in 0 .. n : n = 2 ^ k

is_napot(start, size) ==
    \/ start = 0 /\ size = MAXUL
    \/ IsPowerOfTwo(size) /\ start % size = 0

napot_reg(priority) ==
    CASE priority = "ANY" -> get_free_reg_idx
      [] priority = "TOP" -> IF 0 \in reg_bitmap THEN -1 ELSE 0
      [] priority = "BOTTOM" -> Bottom

tor_reg(start, priority) ==
    CASE priority = "ANY" -> get_conseq_free_reg_idx
      [] priority = "TOP" /\ start = 0 -> IF 0 \in reg_bitmap THEN -1 ELSE 0
      [] OTHER -> -1

first_reg(start, size, priority) ==
    IF is_napot(start, size) THEN napot_reg(priority) ELSE tor_reg(start, priority)

\* The register that carries the region's permissions.
last_reg(start, size, priority) ==
    LET reg == first_reg(start, size, priority)
    IN  IF ~is_napot(start, size) /\ reg > 0 THEN reg + 1 ELSE reg

pmp_region_can_init(start, size, priority, allow_overlap) ==
    /\ size # 0
    /\ allow_overlap \/ ~detect_region_overlap(start, size)
    /\ size = MAXUL \/ size % RISCV_PGSIZE = 0
    /\ start % RISCV_PGSIZE = 0
    /\ get_free_region_idx # -1
    /\ first_reg(start, size, priority) # -1

\* A successful pmp_region_init_atomic that returns rid.
pmp_region_init_atomic(start, size, priority, allow_overlap, rid) ==
    /\ pmp_region_can_init(start, size, priority, allow_overlap)
    /\ rid = get_free_region_idx
    /\ regions' = [regions EXCEPT ![rid] =
            [addr |-> start, size |-> size,
             addrmode |-> IF is_napot(start, size) THEN "NAPOT" ELSE "TOR",
             allow_overlap |-> allow_overlap,
             reg_idx |-> last_reg(start, size, priority)]]
    /\ region_def_bitmap' = region_def_bitmap \cup {rid}
    /\ reg_bitmap' = reg_bitmap \cup
            (first_reg(start, size, priority) .. last_reg(start, size, priority))

region_registers(i) ==
    {regions[i].reg_idx} \cup
        (IF region_needs_two_entries(i) THEN {regions[i].reg_idx - 1} ELSE {})

\* Mutant: the second register of a TOR region is not given back.
pmp_region_free_atomic_one(rid) ==
    IF is_pmp_region_valid(rid)
    THEN /\ region_def_bitmap' = region_def_bitmap \ {rid}
         /\ reg_bitmap' = reg_bitmap \ {regions[rid].reg_idx}
         /\ regions' = [regions EXCEPT ![rid] = ClearedRegion]
    ELSE UNCHANGED pmpVars

pmp_region_free_atomic(rid) ==
    IF is_pmp_region_valid(rid)
    THEN /\ region_def_bitmap' = region_def_bitmap \ {rid}
         /\ reg_bitmap' = reg_bitmap \ region_registers(rid)
         /\ regions' = [regions EXCEPT ![rid] = ClearedRegion]
    ELSE UNCHANGED pmpVars

(***************************************************************************)
(* The PMP register file of one hart.  A register in mode NAPOT matches    *)
(* the range lo .. hi - 1; one in mode TOR matches from the address in the *)
(* register before it up to its own.                                       *)
(***************************************************************************)
PmpReg == [mode : {"OFF", "TOR", "NAPOT"}, lo : Word, hi : Nat, perm : BOOLEAN]
UnsetReg == [mode |-> "OFF", lo |-> 0, hi |-> 0, perm |-> FALSE]

pmp_init == [n \in RegIds |-> UnsetReg]

region_end(i) ==
    IF regions[i].addr = 0 /\ regions[i].size = MAXUL
    THEN MAXUL + 1 ELSE regions[i].addr + regions[i].size

\* The register file after pmp_set_keystone(rid, perm) on it.
pmp_set_keystone(file, rid, perm) ==
    IF ~is_pmp_region_valid(rid) THEN file
    ELSE [n \in RegIds |->
            IF n = regions[rid].reg_idx
            THEN [mode |-> regions[rid].addrmode, hi |-> region_end(rid), perm |-> perm,
                  lo |-> IF regions[rid].addrmode = "NAPOT" THEN regions[rid].addr ELSE 0]
            ELSE IF region_needs_two_entries(rid) /\ n = regions[rid].reg_idx - 1
            THEN [mode |-> "OFF", lo |-> 0, hi |-> regions[rid].addr, perm |-> FALSE]
            ELSE file[n]]

pmp_unset(file, rid) ==
    IF ~is_pmp_region_valid(rid) THEN file
    ELSE [n \in RegIds |-> IF n \in region_registers(rid) THEN UnsetReg ELSE file[n]]

\* What the hardware does with a file: the lowest matching register decides,
\* and an S- or U-mode access that matches no register is denied.
pmp_matches(file, n, a) ==
    CASE file[n].mode = "NAPOT" -> file[n].lo <= a /\ a < file[n].hi
      [] file[n].mode = "TOR" -> a < file[n].hi /\ (n = 0 \/ file[n - 1].hi <= a)
      [] file[n].mode = "OFF" -> FALSE

pmp_allows(file, a) ==
    \E n \in RegIds : /\ pmp_matches(file, n, a)
                      /\ file[n].perm
                      /\ \A m \in 0 .. n - 1 : ~pmp_matches(file, m, a)

(***************************************************************************)
(* The table on its own: sm_init has allocated the regions of the monitor  *)
(* (smm_init, top register) and of the OS (osm_init, bottom register, all  *)
(* of memory); from then on create_enclave allocates private regions       *)
(* (PMP_PRI_ANY) and shared ones (PMP_PRI_BOTTOM), and both creation and   *)
(* destruction free what creation allocated.                               *)
(***************************************************************************)
sm_region_id == 0
os_region_id == 1

BootRegions ==
    [i \in RegionIds |->
        IF i = sm_region_id
        THEN [addr |-> SMM_BASE, size |-> SMM_SIZE, 
              addrmode |-> IF is_napot(SMM_BASE, SMM_SIZE) THEN "NAPOT" ELSE "TOR",
              allow_overlap |-> FALSE, reg_idx |-> 0]
        ELSE IF i = os_region_id
        THEN [addr |-> 0, size |-> MAXUL, addrmode |-> "NAPOT",
              allow_overlap |-> TRUE, reg_idx |-> Bottom]
        ELSE ClearedRegion]

PMPInit ==
    /\ regions = BootRegions
    /\ region_def_bitmap = {sm_region_id, os_region_id}
    /\ reg_bitmap = {0, Bottom}

AllocPrivate(start, size) ==
    pmp_region_init_atomic(start, size, "ANY", FALSE, get_free_region_idx)

AllocShared(start, size) ==
    pmp_region_init_atomic(start, size, "BOTTOM", FALSE, get_free_region_idx)

Free(rid) ==
    /\ rid \in region_def_bitmap \ {sm_region_id, os_region_id}
    /\ pmp_region_free_atomic(rid)

PMPNext ==
    \/ \E start, size \in Word : AllocPrivate(start, size) \/ AllocShared(start, size)
    \/ \E rid \in RegionIds : Free(rid)

PMPSpec == PMPInit /\ [][PMPNext]_pmpVars

(***************************************************************************)
(* Properties.                                                             *)
(***************************************************************************)
\* The table holds well-formed regions and the bitmaps hold slots and registers.
PMPTypeOK ==
    /\ regions \in [RegionIds -> Region]
    /\ region_def_bitmap \subseteq RegionIds
    /\ reg_bitmap \subseteq RegIds

Exclusive(i) == i \in region_def_bitmap /\ ~regions[i].allow_overlap

\* Two regions that do not allow overlap never share an address, and none of them
\* wraps: whatever pmp_region_init and pmp_region_free_atomic do, in any order,
\* detect_region_overlap keeps private, shared and monitor memory apart.
RegionsDisjoint ==
    \A i \in RegionIds : Exclusive(i) =>
        /\ regions[i].addr + regions[i].size <= MAXUL
        /\ \A j \in RegionIds \ {i} : Exclusive(j) =>
              \/ regions[i].addr + regions[i].size <= regions[j].addr
              \/ regions[j].addr + regions[j].size <= regions[i].addr

\* Above the shared bottom register, reg_bitmap is exactly the set of registers
\* that regions occupy and no register belongs to two regions, through every
\* mix of one-register (NAPOT) and two-register (TOR) allocations and frees.
RegistersExact ==
    \A n \in RegIds \ {Bottom} :
        /\ n \in reg_bitmap <=> \E i \in region_def_bitmap : n \in region_registers(i)
        /\ \A i, j \in region_def_bitmap :
              n \in region_registers(i) /\ n \in region_registers(j) => i = j

\* The region table and the registers are right, whatever is allocated and freed:
\* exclusive regions are apart, and the bitmaps say exactly which slots and which
\* registers are in use (pmp_region_init, pmp_region_free_atomic).
PMPInv == PMPTypeOK /\ RegionsDisjoint /\ RegistersExact
=============================================================================
