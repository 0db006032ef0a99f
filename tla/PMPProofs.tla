----------------------------- MODULE PMPProofs -----------------------------
(***************************************************************************)
(* Proofs about the PMP region table, for every number of registers and    *)
(* slots and every word size.                                              *)
(***************************************************************************)
EXTENDS PMP, TLAPS
LOCAL INSTANCE WellFoundedInduction

\* Every non-empty set of naturals has a least element; CHOOSE in
\* search_rightmost_unset depends on it.
LEMMA LeastExists ==
    ASSUME NEW S \in SUBSET Nat, S # {}
    PROVE  \E i \in S : \A j \in S : i <= j
<1> DEFINE R == OpToRel(<, Nat)
<1>1. PICK i \in S : \A j \in S : ~(<<j, i>> \in R)
  BY NatLessThanWellFounded, WFMin
<1>2. \A j \in S : i <= j
  <2>1. SUFFICES ASSUME NEW j \in S, j < i PROVE FALSE
    OBVIOUS
  <2>2. <<j, i>> \in Nat \X Nat
    OBVIOUS
  <2>3. <<j, i>> \in R
    BY <2>1, <2>2 DEF OpToRel
  <2> QED BY <2>3, <1>1
<1> QED BY <1>2

\* search_rightmost_unset returns -1 or a position whose bits are all clear.
LEMMA SearchResult ==
    ASSUME NEW bitmap, NEW max \in Nat, NEW width \in Nat,
           NEW r, r = search_rightmost_unset(bitmap, max, width), r # -1
    PROVE  r \in 0 .. max - width /\ (r .. (r + width - 1)) \cap bitmap = {}
<1> DEFINE fits == {i \in 0 .. max - width : i .. (i + width - 1) \cap bitmap = {}}
<1>1. r = IF fits = {} THEN -1 ELSE CHOOSE i \in fits : \A j \in fits : i <= j
  BY DEF search_rightmost_unset
<1>2. fits # {}
  BY <1>1
<1>3. fits \in SUBSET Nat
  OBVIOUS
<1>4. \E i \in fits : \A j \in fits : i <= j
  BY <1>2, <1>3, LeastExists
<1>5. r = CHOOSE i \in fits : \A j \in fits : i <= j
  BY <1>1, <1>2
<1> HIDE DEF fits
<1>6. r \in fits
  BY <1>4, <1>5
<1> QED BY <1>6 DEF fits

\* The slot a successful allocation takes is free and inside the table.
LEMMA FreeSlot ==
    ASSUME get_free_region_idx # -1
    PROVE  get_free_region_idx \in RegionIds /\ get_free_region_idx \notin region_def_bitmap
<1> DEFINE r == get_free_region_idx
<1>1. PMP_MAX_N_REGION \in Nat /\ 1 \in Nat
  BY PMPAssumption
<1>2. r = search_rightmost_unset(region_def_bitmap, PMP_MAX_N_REGION, 1)
  BY DEF get_free_region_idx
<1> HIDE DEF r
<1>3. r \in 0 .. PMP_MAX_N_REGION - 1 /\ (r .. (r + 1 - 1)) \cap region_def_bitmap = {}
  BY <1>1, <1>2, SearchResult DEF r
<1>4. r \in r .. (r + 1 - 1)
  BY <1>3
<1> QED BY <1>3, <1>4 DEF RegionIds, r

\* The registers a successful allocation takes exist, and they are free unless the
\* region asked for the bottom register.
LEMMA FreeRegisters ==
    ASSUME NEW start, NEW size, NEW priority \in Priorities,
           first_reg(start, size, priority) # -1
    PROVE  LET f == first_reg(start, size, priority)
               l == last_reg(start, size, priority)
           IN  /\ f \in RegIds /\ l \in RegIds
               /\ l = f \/ (l = f + 1 /\ f > 0)
               /\ l # f <=> (~is_napot(start, size) /\ l > 0)
               /\ (f .. l) \cap reg_bitmap = {} \/ (f = Bottom /\ l = Bottom)
<1> DEFINE f == first_reg(start, size, priority)
           l == last_reg(start, size, priority)
<1>0. PMP_N_REG \in Nat /\ PMP_N_REG >= 2 /\ 1 \in Nat /\ 2 \in Nat
  BY PMPAssumption
<1>1. l = IF ~is_napot(start, size) /\ f > 0 THEN f + 1 ELSE f
  BY DEF last_reg
<1>2. CASE is_napot(start, size)
  <2>1. f = napot_reg(priority)
    BY <1>2 DEF first_reg
  <2>2. CASE priority = "ANY"
    <3>1. f = search_rightmost_unset(reg_bitmap, PMP_N_REG, 1)
      BY <2>1, <2>2 DEF napot_reg, get_free_reg_idx
    <3> HIDE DEF f
    <3>2. f # -1
      BY DEF f
    <3>3. f \in 0 .. PMP_N_REG - 1 /\ (f .. (f + 1 - 1)) \cap reg_bitmap = {}
      BY <3>1, <3>2, <1>0, SearchResult
    <3>4. l = f
      BY <1>1, <1>2
    <3> QED BY <3>3, <3>4, <1>2 DEF RegIds, f
  <2>3. CASE priority = "TOP"
    <3>1. f = 0 /\ 0 \notin reg_bitmap
      BY <2>1, <2>3 DEF napot_reg
    <3> QED BY <3>1, <1>1, <1>0, <1>2 DEF RegIds
  <2>4. CASE priority = "BOTTOM"
    <3>1. f = Bottom /\ l = Bottom
      BY <2>1, <2>4, <1>1, <1>2 DEF napot_reg
    <3> QED BY <3>1, <1>0, <1>2 DEF RegIds, Bottom
  <2> QED BY <2>2, <2>3, <2>4 DEF Priorities
<1>3. CASE ~is_napot(start, size)
  <2>1. f = tor_reg(start, priority)
    BY <1>3 DEF first_reg
  <2>2. CASE priority = "ANY"
    <3>1. f = search_rightmost_unset(reg_bitmap, PMP_N_REG, 2)
      BY <2>1, <2>2 DEF tor_reg, get_conseq_free_reg_idx
    <3> HIDE DEF f
    <3>2. f # -1
      BY DEF f
    <3>3. f \in 0 .. PMP_N_REG - 2 /\ (f .. (f + 2 - 1)) \cap reg_bitmap = {}
      BY <3>1, <3>2, <1>0, SearchResult
    <3>4. l = IF f > 0 THEN f + 1 ELSE f
      BY <1>1, <1>3 DEF f
    <3>5. (f .. l) \subseteq (f .. (f + 2 - 1))
      BY <3>3, <3>4
    <3>6. l \in Int /\ (l # f <=> l > 0) /\ (l = f \/ (l = f + 1 /\ f > 0))
      BY <3>3, <3>4
    <3> QED BY <3>3, <3>4, <3>5, <3>6, <1>3, <1>0 DEF RegIds, f
  <2>3. CASE priority # "ANY"
    <3>1. f = 0 /\ 0 \notin reg_bitmap
      BY <2>1, <2>3 DEF tor_reg
    <3> QED BY <3>1, <1>1, <1>0, <1>3 DEF RegIds
  <2> QED BY <2>2, <2>3
<1> QED BY <1>2, <1>3

\* An allocation keeps the table well-formed.
LEMMA AllocType ==
    ASSUME PMPTypeOK, NEW start \in Word, NEW size \in Word,
           NEW priority \in Priorities, NEW allow \in BOOLEAN, NEW rid,
           pmp_region_init_atomic(start, size, priority, allow, rid)
    PROVE  PMPTypeOK' /\ rid \in RegionIds /\ rid \notin region_def_bitmap
<1> DEFINE f == first_reg(start, size, priority)
           l == last_reg(start, size, priority)
           new == [addr |-> start, size |-> size,
                   addrmode |-> IF is_napot(start, size) THEN "NAPOT" ELSE "TOR",
                   allow_overlap |-> allow, reg_idx |-> l]
<1>1. rid \in RegionIds /\ rid \notin region_def_bitmap
  BY FreeSlot DEF pmp_region_init_atomic, pmp_region_can_init
<1>2. f \in RegIds /\ l \in RegIds
  BY FreeRegisters DEF pmp_region_init_atomic, pmp_region_can_init
<1>3. regions' = [regions EXCEPT ![rid] = new]
  BY DEF pmp_region_init_atomic
<1>4. region_def_bitmap' = region_def_bitmap \cup {rid} /\ reg_bitmap' = reg_bitmap \cup (f .. l)
  BY DEF pmp_region_init_atomic
<1> HIDE DEF f, l
<1>5. new \in Region
  BY <1>2 DEF Region
<1> HIDE DEF new
<1>6. regions' \in [RegionIds -> Region]
  BY <1>3, <1>5 DEF PMPTypeOK
<1>7. (f .. l) \subseteq RegIds
  BY <1>2, PMPAssumption DEF RegIds
<1> QED BY <1>1, <1>4, <1>6, <1>7 DEF PMPTypeOK

\* What a successful allocation adds to the table.
LEMMA AllocEffect ==
    ASSUME PMPTypeOK, NEW start \in Word, NEW size \in Word,
           NEW priority \in Priorities, NEW allow \in BOOLEAN, NEW rid,
           pmp_region_init_atomic(start, size, priority, allow, rid)
    PROVE  /\ region_def_bitmap' = region_def_bitmap \cup {rid}
           /\ \A i \in RegionIds : i # rid => regions'[i] = regions[i]
           /\ regions'[rid].addr = start /\ regions'[rid].size = size
           /\ regions'[rid].allow_overlap = allow
           /\ regions'[rid].addrmode = IF is_napot(start, size) THEN "NAPOT" ELSE "TOR"
           /\ regions'[rid].reg_idx = last_reg(start, size, priority)
<1>1. rid \in RegionIds
  BY AllocType
<1>2. rid \in DOMAIN regions
  BY <1>1 DEF PMPTypeOK
<1> QED BY <1>2 DEF pmp_region_init_atomic, PMPTypeOK

\* An allocation keeps the regions disjoint: detect_region_overlap compares the new
\* range with every region that does not allow overlap.
LEMMA AllocDisjoint ==
    ASSUME PMPTypeOK, RegionsDisjoint, NEW start \in Word, NEW size \in Word,
           NEW priority \in Priorities, NEW allow \in BOOLEAN, NEW rid,
           pmp_region_init_atomic(start, size, priority, allow, rid)
    PROVE  RegionsDisjoint'
<1>1. rid \in RegionIds /\ rid \notin region_def_bitmap
  BY AllocType
<1>2. /\ region_def_bitmap' = region_def_bitmap \cup {rid}
      /\ \A i \in RegionIds : i # rid => regions'[i] = regions[i]
      /\ regions'[rid].addr = start /\ regions'[rid].size = size
      /\ regions'[rid].allow_overlap = allow
  BY AllocEffect
<1>3. allow \/ ~detect_region_overlap(start, size)
  BY DEF pmp_region_init_atomic, pmp_region_can_init
<1>4. \A i \in RegionIds : i # rid => (Exclusive(i)' <=> Exclusive(i))
  BY <1>2 DEF Exclusive
<1>5. \A i \in RegionIds : regions[i].addr \in Int /\ regions[i].size \in Int
  BY PMPAssumption DEF PMPTypeOK, Region, Word
<1>5a. start \in Int /\ size \in Int /\ MAXUL \in Int
  BY PMPAssumption DEF Word
<1>6. ~allow => /\ start + size <= MAXUL
                /\ \A i \in RegionIds : Exclusive(i) =>
                      \/ regions[i].addr + regions[i].size <= start
                      \/ start + size <= regions[i].addr
  <2>1. SUFFICES ASSUME ~allow
                 PROVE  /\ start + size <= MAXUL
                        /\ \A i \in RegionIds : Exclusive(i) =>
                              \/ regions[i].addr + regions[i].size <= start
                              \/ start + size <= regions[i].addr
    OBVIOUS
  <2>2. ~detect_region_overlap(start, size)
    BY <2>1, <1>3
  <2> QED BY <2>2, <1>5, <1>5a DEF detect_region_overlap, Exclusive
<1>7. Exclusive(rid)' <=> ~allow
  BY <1>2 DEF Exclusive
<1>8. SUFFICES ASSUME NEW i \in RegionIds, Exclusive(i)'
               PROVE  /\ regions'[i].addr + regions'[i].size <= MAXUL
                      /\ \A j \in RegionIds \ {i} : Exclusive(j)' =>
                            \/ regions'[i].addr + regions'[i].size <= regions'[j].addr
                            \/ regions'[j].addr + regions'[j].size <= regions'[i].addr
  BY DEF RegionsDisjoint
<1>9. CASE i = rid
  BY <1>1, <1>2, <1>4, <1>6, <1>7, <1>8, <1>9
<1>10. CASE i # rid
  <2>1. Exclusive(i) /\ regions'[i] = regions[i]
    BY <1>2, <1>4, <1>8, <1>10
  <2>2. regions[i].addr + regions[i].size <= MAXUL
    BY <2>1 DEF RegionsDisjoint
  <2>3. ASSUME NEW j \in RegionIds \ {i}, Exclusive(j)'
        PROVE  \/ regions'[i].addr + regions'[i].size <= regions'[j].addr
               \/ regions'[j].addr + regions'[j].size <= regions'[i].addr
    <3>1. CASE j = rid
      BY <3>1, <2>1, <2>3, <1>2, <1>6, <1>7
    <3>2. CASE j # rid
      BY <3>2, <2>1, <2>3, <1>2, <1>4 DEF RegionsDisjoint
    <3> QED BY <3>1, <3>2
  <2> QED BY <2>1, <2>2, <2>3
<1> QED BY <1>9, <1>10

\* An allocation keeps the register bookkeeping exact above the bottom register.
LEMMA AllocRegisters ==
    ASSUME PMPTypeOK, RegistersExact, NEW start \in Word, NEW size \in Word,
           NEW priority \in Priorities, NEW allow \in BOOLEAN, NEW rid,
           pmp_region_init_atomic(start, size, priority, allow, rid)
    PROVE  RegistersExact'
<1> DEFINE f == first_reg(start, size, priority)
           l == last_reg(start, size, priority)
<1>1. rid \in RegionIds /\ rid \notin region_def_bitmap
  BY AllocType
<1>2. /\ region_def_bitmap' = region_def_bitmap \cup {rid}
      /\ \A i \in RegionIds : i # rid => regions'[i] = regions[i]
      /\ regions'[rid].addrmode = IF is_napot(start, size) THEN "NAPOT" ELSE "TOR"
      /\ regions'[rid].reg_idx = l
  BY AllocEffect
<1>3. /\ f \in RegIds /\ l \in RegIds
      /\ l = f \/ (l = f + 1 /\ f > 0)
      /\ l # f <=> (~is_napot(start, size) /\ l > 0)
      /\ (f .. l) \cap reg_bitmap = {} \/ (f = Bottom /\ l = Bottom)
  BY FreeRegisters DEF pmp_region_init_atomic, pmp_region_can_init
<1>4. reg_bitmap' = reg_bitmap \cup (f .. l)
  BY DEF pmp_region_init_atomic
<1> HIDE DEF f, l
<1>5. f \in Int /\ l \in Int /\ f >= 0
  BY <1>3, PMPAssumption DEF RegIds
<1>6. region_registers(rid)' = f .. l
  <2>1. region_needs_two_entries(rid)' <=> l # f
    BY <1>2, <1>3 DEF region_needs_two_entries
  <2>2. CASE l = f
    BY <2>1, <2>2, <1>2, <1>5 DEF region_registers
  <2>3. CASE l # f
    <3>1. l = f + 1 /\ l - 1 = f
      BY <2>3, <1>3, <1>5
    <3>2. region_registers(rid)' = {l, l - 1}
      BY <2>1, <2>3, <1>2 DEF region_registers
    <3>3. f .. l = {f, f + 1}
      BY <3>1, <1>5
    <3> QED BY <3>1, <3>2, <3>3
  <2> QED BY <2>2, <2>3
<1>7. \A i \in region_def_bitmap : i # rid /\ region_registers(i)' = region_registers(i)
  BY <1>1, <1>2 DEF PMPTypeOK, region_registers, region_needs_two_entries
<1>8. SUFFICES ASSUME NEW n \in RegIds \ {Bottom}
               PROVE  /\ n \in reg_bitmap' <=> \E i \in region_def_bitmap' : n \in region_registers(i)'
                      /\ \A i, j \in region_def_bitmap' :
                            n \in region_registers(i)' /\ n \in region_registers(j)' => i = j
  BY DEF RegistersExact, RegIds, Bottom
<1>9. /\ n \in reg_bitmap <=> \E i \in region_def_bitmap : n \in region_registers(i)
      /\ \A i, j \in region_def_bitmap :
            n \in region_registers(i) /\ n \in region_registers(j) => i = j
  BY DEF RegistersExact
<1>10. n \in f .. l => n \notin reg_bitmap
  BY <1>3, <1>5
<1>11. n \in reg_bitmap' <=> \E i \in region_def_bitmap' : n \in region_registers(i)'
  BY <1>2, <1>4, <1>6, <1>7, <1>9
<1>12. ASSUME NEW i \in region_def_bitmap', NEW j \in region_def_bitmap',
              n \in region_registers(i)', n \in region_registers(j)'
       PROVE  i = j
  BY <1>2, <1>6, <1>7, <1>9, <1>10, <1>12
<1> QED BY <1>11, <1>12

\* Freeing a region, or an id that is not in use, keeps all three facts.
LEMMA FreeKeeps ==
    ASSUME PMPTypeOK, NEW rid, pmp_region_free_atomic(rid)
    PROVE  /\ PMPTypeOK'
           /\ RegionsDisjoint => RegionsDisjoint'
           /\ RegistersExact => RegistersExact'
           /\ region_def_bitmap' = region_def_bitmap \ {rid}
           /\ \A i \in RegionIds : i # rid => regions'[i] = regions[i]
<1>1. CASE rid \notin region_def_bitmap
  <2>1. regions' = regions /\ region_def_bitmap' = region_def_bitmap /\ reg_bitmap' = reg_bitmap
    BY <1>1 DEF pmp_region_free_atomic, is_pmp_region_valid, pmpVars
  <2>2. PMPTypeOK' /\ region_def_bitmap' = region_def_bitmap \ {rid}
    BY <2>1, <1>1 DEF PMPTypeOK
  <2>3. RegionsDisjoint => RegionsDisjoint'
    BY <2>1 DEF RegionsDisjoint, Exclusive
  <2>4. RegistersExact => RegistersExact'
    BY <2>1 DEF RegistersExact, region_registers, region_needs_two_entries
  <2> QED BY <2>1, <2>2, <2>3, <2>4
<1>2. CASE rid \in region_def_bitmap
  <2>1. /\ region_def_bitmap' = region_def_bitmap \ {rid}
        /\ reg_bitmap' = reg_bitmap \ region_registers(rid)
        /\ regions' = [regions EXCEPT ![rid] = ClearedRegion]
    BY <1>2 DEF pmp_region_free_atomic, is_pmp_region_valid
  <2>2. ClearedRegion \in Region
    BY PMPAssumption DEF ClearedRegion, Region, Word, RegIds
  <2>3. PMPTypeOK'
    BY <2>1, <2>2 DEF PMPTypeOK
  <2>4. \A i \in RegionIds : i # rid => regions'[i] = regions[i]
    BY <2>1 DEF PMPTypeOK
  <2>5. RegionsDisjoint => RegionsDisjoint'
    BY <2>1, <2>4 DEF RegionsDisjoint, Exclusive
  <2>6. ASSUME RegistersExact PROVE RegistersExact'
    <3>1. \A i \in region_def_bitmap' : /\ i \in region_def_bitmap /\ i # rid
                                         /\ region_registers(i)' = region_registers(i)
      BY <2>1, <2>4 DEF PMPTypeOK, region_registers, region_needs_two_entries
    <3>2. SUFFICES ASSUME NEW n \in RegIds \ {Bottom}
                   PROVE  /\ n \in reg_bitmap' <=> \E i \in region_def_bitmap' : n \in region_registers(i)'
                          /\ \A i, j \in region_def_bitmap' :
                                n \in region_registers(i)' /\ n \in region_registers(j)' => i = j
      BY DEF RegistersExact, RegIds, Bottom
    <3>3. /\ n \in reg_bitmap <=> \E i \in region_def_bitmap : n \in region_registers(i)
          /\ \A i, j \in region_def_bitmap :
                n \in region_registers(i) /\ n \in region_registers(j) => i = j
      BY <2>6 DEF RegistersExact
    <3>4. n \in reg_bitmap' <=> \E i \in region_def_bitmap' : n \in region_registers(i)'
      BY <1>2, <2>1, <3>1, <3>3
    <3>5. \A i, j \in region_def_bitmap' :
             n \in region_registers(i)' /\ n \in region_registers(j)' => i = j
      BY <3>1, <3>3
    <3> QED BY <3>4, <3>5
  <2> QED BY <2>1, <2>3, <2>4, <2>5, <2>6
<1> QED BY <1>1, <1>2

\* The table that sm_init leaves satisfies the invariant.
LEMMA PMPInitInv == PMPInit => PMPInv
<1> SUFFICES ASSUME PMPInit PROVE PMPInv
  OBVIOUS
<1> USE PMPAssumption
<1>1. sm_region_id \in RegionIds /\ os_region_id \in RegionIds /\ sm_region_id # os_region_id
  BY DEF RegionIds, sm_region_id, os_region_id
<1>2. PMPTypeOK
  <2>1. regions \in [RegionIds -> Region]
    BY <1>1 DEF PMPInit, BootRegions, Region, Word, RegIds, Bottom, ClearedRegion
  <2> QED BY <1>1, <2>1 DEF PMPInit, PMPTypeOK, RegIds, Bottom
<1>3. /\ regions[sm_region_id].addr = SMM_BASE /\ regions[sm_region_id].size = SMM_SIZE
      /\ regions[sm_region_id].reg_idx = 0
      /\ regions[os_region_id].allow_overlap = TRUE
      /\ regions[os_region_id].addrmode = "NAPOT" /\ regions[os_region_id].reg_idx = Bottom
  BY <1>1 DEF PMPInit, BootRegions
<1>4. RegionsDisjoint
  BY <1>3 DEF PMPInit, RegionsDisjoint, Exclusive
<1>5. region_registers(sm_region_id) = {0} /\ region_registers(os_region_id) = {Bottom}
  BY <1>3 DEF region_registers, region_needs_two_entries
<1>6. RegistersExact
  BY <1>5 DEF PMPInit, RegistersExact
<1> QED BY <1>2, <1>4, <1>6 DEF PMPInv

\* RegionsDisjoint and RegistersExact hold in every reachable state of the table,
\* for any number of registers, slots and any address range: the overlap check and
\* the two bitmaps of pmp.c are kept right by every allocation and every free.
THEOREM PMPCorrect == PMPSpec => []PMPInv
<1>1. PMPInit => PMPInv
  BY PMPInitInv
<1>2. PMPInv /\ [PMPNext]_pmpVars => PMPInv'
  <2> SUFFICES ASSUME PMPInv, [PMPNext]_pmpVars PROVE PMPInv'
    OBVIOUS
  <2> USE DEF PMPInv
  <2>1. ASSUME NEW start \in Word, NEW size \in Word, NEW priority \in Priorities,
               pmp_region_init_atomic(start, size, priority, FALSE, get_free_region_idx)
        PROVE  PMPInv'
    <3>1. PICK rid : rid = get_free_region_idx
      OBVIOUS
    <3>2. pmp_region_init_atomic(start, size, priority, FALSE, rid)
      BY <2>1, <3>1
    <3> QED BY <3>2, AllocType, AllocDisjoint, AllocRegisters
  <2>2. ASSUME NEW rid \in RegionIds, Free(rid) PROVE PMPInv'
    BY <2>2, FreeKeeps DEF Free
  <2>3. CASE UNCHANGED pmpVars
    <3>1. regions' = regions /\ region_def_bitmap' = region_def_bitmap /\ reg_bitmap' = reg_bitmap
      BY <2>3 DEF pmpVars
    <3>2. PMPTypeOK'
      BY <3>1 DEF PMPTypeOK
    <3>3. RegionsDisjoint'
      BY <3>1 DEF RegionsDisjoint, Exclusive
    <3>4. RegistersExact'
      BY <3>1 DEF RegistersExact, region_registers, region_needs_two_entries
    <3> QED BY <3>2, <3>3, <3>4
  <2>4. ASSUME NEW start \in Word, NEW size \in Word, AllocPrivate(start, size) PROVE PMPInv'
    BY <2>1, <2>4 DEF AllocPrivate, Priorities
  <2>5. ASSUME NEW start \in Word, NEW size \in Word, AllocShared(start, size) PROVE PMPInv'
    BY <2>1, <2>5 DEF AllocShared, Priorities
  <2> QED BY <2>2, <2>3, <2>4, <2>5 DEF PMPNext
<1> QED BY <1>1, <1>2, PTL DEF PMPSpec
=============================================================================
