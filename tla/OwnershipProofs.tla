-------------------------- MODULE OwnershipProofs ---------------------------
(***************************************************************************)
(* The steps of module Enclave keep who has which region, from the call    *)
(* that allocates it to the call that frees it; who waits for IPIs, who is *)
(* leaving an enclave, and which context is loaded and which one is saved; *)
(* for any number of harts, enclaves and regions.                          *)
(***************************************************************************)
EXTENDS StepProofs

\* Most leaves need no arithmetic: Zenon first, then the SMT solver.
USE Zenon, SMT

(***************************************************************************)
(* Who has which region.  Has changes for the enclave a step works on, and *)
(* there it can be read from the one hart that works on it.                *)
(***************************************************************************)
\* The calls at these labels are those of create and of destroy.
LEMMA HolderLabels ==
    /\ \A k \in Kinds : CHolds(k) \subseteq CLabels /\ DHolds(k) \subseteq DLabels
    /\ \A k \in Kinds : \A l : l \in CHolds(k) \/ l \in DHolds(k) => l \in BLabels
  BY DEF Kinds, CHolds, DHolds, CLabels, DLabels, BLabels

Local(g, d, k, r, args) ==
    \/ /\ Alive(d) \/ pc[g] \in DHolds(k)
       /\ r = OwnRegion(d, k) /\ args = enclaves[d].params
    \/ /\ pc[g] \in CHolds(k)
       /\ r = FrameRegion(g, k) /\ args = frame[g].args

\* A step of g that works on d changes what d has, and nobody else's.
LEMMA HasStep ==
    ASSUME RunInv, NEW g \in Harts, NEW d \in Eids, OnlyHart(g), EncOthers(d),
           pc[g] \in BLabels => EidOf(g) = d,
           pc'[g] \in BLabels => EidOf(g)' = d,
           pc[g] \in BLabels \/ enclaves[d].state \notin {ALLOCATED, DESTROYING, RUNNING},
           NEW k \in Kinds, NEW r, NEW args
    PROVE  /\ \A e \in Eids : e # d => (Has(e, k, r, args)' <=> Has(e, k, r, args))
           /\ Has(d, k, r, args) <=> Local(g, d, k, r, args)
           /\ Has(d, k, r, args)' <=> Local(g, d, k, r, args)'
<1>1. \A h \in Harts : h # g => ~Busy(h, d)
  <2>1. CASE pc[g] \in BLabels
    BY <2>1 DEF Busy, RunInv, Alone, EidOf
  <2>2. CASE enclaves[d].state \notin {ALLOCATED, DESTROYING, RUNNING}
    BY <2>2, HeldFacts DEF RunInv, Holds, State
  <2> QED BY <2>1, <2>2
<1>2. \A h \in Harts : h # g => pc'[h] = pc[h] /\ frame'[h] = frame[h]
  BY DEF OnlyHart
<1>3. \A h \in Harts : h # g /\ frame[h].eid = d => pc[h] \notin CHolds(k) /\ pc[h] \notin DHolds(k)
  BY <1>1, HolderLabels DEF Busy
<1>4. /\ pc[g] \in CHolds(k) \/ pc[g] \in DHolds(k) => frame[g].eid = d
      /\ pc'[g] \in CHolds(k) \/ pc'[g] \in DHolds(k) => frame'[g].eid = d
  BY HolderLabels DEF EidOf
<1>5. Has(d, k, r, args) <=> Local(g, d, k, r, args)
  BY <1>3, <1>4 DEF Has, Local
<1>6. Has(d, k, r, args)' <=> Local(g, d, k, r, args)'
  BY <1>2, <1>3, <1>4 DEF Has, Local, FrameRegion
<1>7. ASSUME NEW e \in Eids, e # d PROVE Has(e, k, r, args)' <=> Has(e, k, r, args)
  <2>1. enclaves'[e] = enclaves[e]
    BY <1>7 DEF EncOthers
  <2>2. /\ \A h \in Harts : pc'[h] \in CHolds(k) /\ frame'[h].eid = e <=>
                              pc[h] \in CHolds(k) /\ frame[h].eid = e
        /\ \A h \in Harts : pc'[h] \in DHolds(k) /\ frame'[h].eid = e <=>
                              pc[h] \in DHolds(k) /\ frame[h].eid = e
        /\ \A h \in Harts : pc[h] \in CHolds(k) /\ frame[h].eid = e => frame'[h] = frame[h]
    BY <1>2, <1>4, <1>7
  <2>3. (Alive(e)' <=> Alive(e)) /\ OwnRegion(e, k)' = OwnRegion(e, k)
    BY <2>1 DEF Alive, OwnRegion
  <2> QED BY <2>1, <2>2, <2>3 DEF Has, FrameRegion
<1> QED BY <1>5, <1>6, <1>7

\* A step that moves nobody in or out of the labels above and keeps the records.
LEMMA HasSame ==
    ASSUME NEW k \in Kinds, NEW r, NEW args,
           \A h \in Harts : /\ pc'[h] \in DHolds(k) <=> pc[h] \in DHolds(k)
                            /\ pc'[h] \in CHolds(k) <=> pc[h] \in CHolds(k)
                            /\ pc[h] \in DHolds(k) => frame'[h].eid = frame[h].eid
                            /\ pc[h] \in CHolds(k) => frame'[h] = frame[h],
           \A e \in Eids : /\ Alive(e)' <=> Alive(e)
                           /\ enclaves'[e].epm = enclaves[e].epm
                           /\ enclaves'[e].utm = enclaves[e].utm
                           /\ enclaves'[e].params = enclaves[e].params
    PROVE  \A e \in Eids : Has(e, k, r, args)' <=> Has(e, k, r, args)
<1> SUFFICES ASSUME NEW e \in Eids PROVE Has(e, k, r, args)' <=> Has(e, k, r, args)
  OBVIOUS
<1>1. OwnRegion(e, k)' = OwnRegion(e, k)
  BY DEF OwnRegion
<1>2. \A h \in Harts : pc[h] \in CHolds(k) => FrameRegion(h, k)' = FrameRegion(h, k)
  BY DEF FrameRegion
<1>3. (\E h \in Harts : pc[h] \in DHolds(k) /\ frame[h].eid = e)'
         <=> (\E h \in Harts : pc[h] \in DHolds(k) /\ frame[h].eid = e)
  OBVIOUS
<1> QED BY <1>1, <1>2, <1>3 DEF Has

SameHas == \A e \in Eids, k \in Kinds, r \in MaybeRegion, args \in Params :
               Has(e, k, r, args)' <=> Has(e, k, r, args)

\* A step that changes neither the table nor who has what.
LEMMA TableSame ==
    ASSUME PMPTypeOK, TableInv, SameHas, UNCHANGED pmpVars
    PROVE  TableInv'
<1>1. regions' = regions /\ region_def_bitmap' = region_def_bitmap
  BY DEF pmpVars
<1>2. region_def_bitmap \subseteq MaybeRegion
  BY DEF PMPTypeOK, MaybeRegion
<1>3. Backed'
  BY SMT, <1>1 DEF TableInv, Backed, SameHas, Holding
<1>4. OneOwner'
  BY SMT DEF TableInv, OneOwner, SameHas
<1>5. BootKept'
  BY <1>1 DEF TableInv, BootKept
<1>6. NoneLost'
  BY <1>1, <1>2 DEF TableInv, NoneLost, SameHas
<1> QED BY <1>3, <1>4, <1>5, <1>6 DEF TableInv

\* Region rid is allocated for d.
Gains(d, l, rid, a) ==
    \A e \in Eids, k \in Kinds, r \in MaybeRegion, args \in Params :
        Has(e, k, r, args)' <=> Has(e, k, r, args) \/ (e = d /\ k = l /\ r = rid /\ args = a)

\* What pmp_region_init allocates at the bottom is one NAPOT register, the last.
LEMMA SharedAtBottom ==
    ASSUME NEW start, NEW size, first_reg(start, size, "BOTTOM") # -1
    PROVE  is_napot(start, size) /\ last_reg(start, size, "BOTTOM") = Bottom
<1>1. tor_reg(start, "BOTTOM") = -1
  BY DEF tor_reg
<1>2. napot_reg("BOTTOM") = Bottom
  BY DEF napot_reg
<1>3. is_napot(start, size)
  BY <1>1 DEF first_reg
<1> QED BY <1>2, <1>3 DEF first_reg, last_reg

\* An allocation for d, of a region that d has from then on.
LEMMA TableAdd ==
    ASSUME PMPTypeOK, TableInv, NEW start \in Word, NEW size \in Word,
           NEW priority \in Priorities, NEW rid,
           pmp_region_init_atomic(start, size, priority, FALSE, rid),
           NEW d \in Eids, NEW l \in Kinds, NEW a \in Params, Gains(d, l, rid, a),
           l = "epm" => start = a.epm /\ size = a.epmsize,
           l = "utm" => start = a.utm /\ size = a.utmsize /\ priority = "BOTTOM"
    PROVE  TableInv'
<1>1. rid \in RegionIds /\ rid \notin region_def_bitmap /\ rid \in MaybeRegion
  BY AllocType DEF MaybeRegion
<1>2. /\ region_def_bitmap' = region_def_bitmap \cup {rid}
      /\ \A i \in RegionIds : i # rid => regions'[i] = regions[i]
      /\ regions'[rid].addr = start /\ regions'[rid].size = size
      /\ regions'[rid].allow_overlap = FALSE
      /\ regions'[rid].addrmode = IF is_napot(start, size) THEN "NAPOT" ELSE "TOR"
      /\ regions'[rid].reg_idx = last_reg(start, size, priority)
  <2>1. PICK no \in BOOLEAN : no = FALSE
    OBVIOUS
  <2>2. pmp_region_init_atomic(start, size, priority, no, rid)
    BY <2>1
  <2>3. /\ region_def_bitmap' = region_def_bitmap \cup {rid}
        /\ \A i \in RegionIds : i # rid => regions'[i] = regions[i]
        /\ regions'[rid].addr = start /\ regions'[rid].size = size
        /\ regions'[rid].allow_overlap = no
        /\ regions'[rid].addrmode = IF is_napot(start, size) THEN "NAPOT" ELSE "TOR"
        /\ regions'[rid].reg_idx = last_reg(start, size, priority)
    BY SMT, <2>2, AllocEffect
  <2> QED BY <2>1, <2>3
<1>3. region_def_bitmap \subseteq RegionIds
  BY DEF PMPTypeOK
<1>4. BootKept'
  BY <1>1, <1>2, BootIds DEF TableInv, BootKept
<1>5. rid \notin {sm_region_id, os_region_id}
  BY <1>1 DEF TableInv, BootKept
<1>6. l = "utm" => regions'[rid].addrmode = "NAPOT" /\ regions'[rid].reg_idx = Bottom
  <2>1. first_reg(start, size, priority) # -1
    BY DEF pmp_region_init_atomic, pmp_region_can_init
  <2> QED BY <1>2, <2>1, SharedAtBottom
<1>7. Holding(l, rid, a)'
  BY <1>2, <1>5, <1>6 DEF Holding, Kinds
<1>8. ASSUME NEW k \in Kinds, NEW r, NEW args, Holding(k, r, args)
      PROVE  Holding(k, r, args)' /\ r # rid
  <2>1. r \in RegionIds /\ r # rid /\ regions'[r] = regions[r]
    BY <1>1, <1>2, <1>3, <1>8 DEF Holding
  <2> QED BY <1>2, <1>8, <2>1 DEF Holding
<1>9. \A e \in Eids, k \in Kinds, r \in MaybeRegion, args \in Params :
         Has(e, k, r, args) => Holding(k, r, args)' /\ r # rid
  BY <1>8 DEF TableInv, Backed
<1>10. Backed'
  BY SMT, <1>7, <1>9 DEF Backed, Gains
<1>11. OneOwner'
  BY SMT, <1>9 DEF OneOwner, Gains, TableInv
<1>12. NoneLost'
  <2> SUFFICES ASSUME NEW r \in region_def_bitmap', r \notin {sm_region_id, os_region_id}
               PROVE  \E e \in Eids, k \in Kinds, args \in Params : Has(e, k, r, args)'
    BY DEF NoneLost
  <2>1. CASE r = rid
    BY <1>1, <2>1 DEF Gains
  <2>2. CASE r # rid
    <3>1. r \in region_def_bitmap /\ r \in MaybeRegion
      BY <1>2, <1>3, <2>2 DEF MaybeRegion
    <3> QED BY <3>1 DEF Gains, TableInv, NoneLost
  <2> QED BY <2>1, <2>2
<1> QED BY <1>4, <1>10, <1>11, <1>12 DEF TableInv

\* Region rid of d is freed.
Loses(d, l) ==
    \A e \in Eids, k \in Kinds, r \in MaybeRegion, args \in Params :
        Has(e, k, r, args)' <=> Has(e, k, r, args) /\ ~(e = d /\ k = l)

\* A free of a region that d had and has no longer.
LEMMA TableDrop ==
    ASSUME PMPTypeOK, TableInv, NEW rid \in MaybeRegion, pmp_region_free_atomic(rid),
           NEW d \in Eids, NEW l \in Kinds, NEW a \in Params, Has(d, l, rid, a), Loses(d, l),
           \A r \in MaybeRegion, args \in Params : Has(d, l, r, args) => r = rid
    PROVE  TableInv'
<1>1. /\ region_def_bitmap' = region_def_bitmap \ {rid}
      /\ \A i \in RegionIds : i # rid => regions'[i] = regions[i]
  BY FreeKeeps
<1>2. rid \notin {sm_region_id, os_region_id}
  BY DEF TableInv, Backed, Holding
<1>3. region_def_bitmap \subseteq RegionIds
  BY DEF PMPTypeOK
<1>4. BootKept'
  BY <1>1, <1>2, BootIds DEF TableInv, BootKept
<1>5. ASSUME NEW e \in Eids, NEW k \in Kinds, NEW r \in MaybeRegion, NEW args \in Params,
             Has(e, k, r, args), ~(e = d /\ k = l)
      PROVE  r # rid /\ Holding(k, r, args)'
  <2>1. r # rid
    BY SMT, <1>5 DEF TableInv, OneOwner
  <2>2. Holding(k, r, args)
    BY <1>5 DEF TableInv, Backed
  <2>3. regions'[r] = regions[r]
    BY <1>1, <1>3, <2>1, <2>2 DEF Holding
  <2> QED BY <1>1, <2>1, <2>2, <2>3 DEF Holding
<1>6. Backed'
  BY <1>5 DEF Backed, Loses
<1>7. OneOwner'
  BY SMT DEF OneOwner, Loses, TableInv
<1>8. NoneLost'
  <2> SUFFICES ASSUME NEW r \in region_def_bitmap', r \notin {sm_region_id, os_region_id}
               PROVE  \E e \in Eids, k \in Kinds, args \in Params : Has(e, k, r, args)'
    BY DEF NoneLost
  <2>1. r \in region_def_bitmap /\ r # rid /\ r \in MaybeRegion
    BY <1>1, <1>3 DEF MaybeRegion
  <2>2. PICK e \in Eids, k \in Kinds, args \in Params : Has(e, k, r, args)
    BY <2>1 DEF TableInv, NoneLost
  <2> QED BY SMT, <2>1, <2>2 DEF Loses
<1> QED BY <1>4, <1>6, <1>7, <1>8 DEF TableInv

\* A quiet step keeps the table and who has what.
LEMMA QuietTable ==
    ASSUME PMPTypeOK, TableInv, NEW g \in Harts, Quiet(g)
    PROVE  TableInv'
<1>1. SameHas
  <2> SUFFICES ASSUME NEW k \in Kinds, NEW r \in MaybeRegion, NEW args \in Params
               PROVE  \A e \in Eids : Has(e, k, r, args)' <=> Has(e, k, r, args)
    BY DEF SameHas
  <2>1. \A h \in Harts : /\ pc'[h] \in DHolds(k) <=> pc[h] \in DHolds(k)
                         /\ pc'[h] \in CHolds(k) <=> pc[h] \in CHolds(k)
                         /\ pc[h] \in DHolds(k) => frame'[h].eid = frame[h].eid
                         /\ pc[h] \in CHolds(k) => frame'[h] = frame[h]
    BY DEF Quiet, OnlyHart
  <2> QED BY <2>1, HasSame DEF Quiet, SameRecords
<1> QED BY <1>1, TableSame DEF Quiet

\* Running, leaving, IPIs and stores move no region.
LEMMA QuietSwitches ==
    ASSUME TypeInv, RunInv, NEW g \in Harts
    PROVE  /\ \A d \in Eids : RunEnclave(g, d) \/ ResumeEnclave(g, d) => Quiet(g)
           /\ StopEnclave(g) \/ ExitEnclave(g) => Quiet(g)
           /\ Switch(g) => Quiet(g)
           /\ \A src \in Harts : PmpIpi(g, src) => Quiet(g)
           /\ \A p \in Pages : HostWrite(g, p) \/ EnclaveWrite(g, p) => Quiet(g)
<1> USE QuietMoves
<1>1. ASSUME NEW d \in Eids, RunEnclave(g, d) \/ ResumeEnclave(g, d) PROVE Quiet(g)
  <2>1. /\ OnlyHart(g) /\ UNCHANGED pmpVars /\ pc[g] = "host" /\ pc'[g] \in {"e_load", "e_swap"}
        /\ EncOthers(d) /\ SameBody(d) /\ Alive(d) /\ Alive(d)'
    BY <1>1, EnterEffect DEF Alive
  <2> QED BY ZenonT(40), <2>1, RecordsKept DEF Quiet
<1>2. ASSUME StopEnclave(g) \/ ExitEnclave(g) PROVE Quiet(g)
  <2>1. /\ OnlyHart(g) /\ UNCHANGED pmpVars /\ pc[g] = "enclave" /\ pc'[g] = "x_pmp"
        /\ EncOthers(EidOf(g)) /\ SameBody(EidOf(g))
        /\ enclaves[EidOf(g)].state = RUNNING /\ enclaves'[EidOf(g)].state = STOPPED
    BY <1>2, LeaveEffect
  <2>2. PICK d \in Eids : d = EidOf(g)
    BY Shapes
  <2>3. Alive(d) /\ Alive(d)'
    BY <2>1, <2>2 DEF Alive
  <2>4. SameRecords
    BY <2>1, <2>2, <2>3, RecordsKept
  <2> QED BY SMT, <2>1, <2>4 DEF Quiet
<1>3. ASSUME SwapToEnclave(g) \/ SwapToHost(g) PROVE Quiet(g)
  <2>1. /\ OnlyHart(g) /\ UNCHANGED pmpVars /\ SameTable
        /\ pc[g] \in {"e_load", "e_swap", "x_swap"} /\ pc'[g] \in {"e_pmp", "host"}
    BY <1>3, SwapEffect
  <2> QED BY SMTT(30), <2>1, RecordsKept DEF Quiet
<1>4. ASSUME PmpToEnclave(g) \/ PmpToHost(g) PROVE Quiet(g)
  <2>1. /\ OnlyHart(g) /\ UNCHANGED pmpVars /\ enclaves' = enclaves
        /\ pc[g] \in {"e_pmp", "x_pmp"} /\ pc'[g] \in {"enclave", "x_swap"}
    BY <1>4, PmpEffect
  <2> QED BY SMTT(30), <2>1, RecordsKept DEF Quiet
<1>5. ASSUME UNCHANGED <<pc, frame, enclaves>>, UNCHANGED pmpVars PROVE Quiet(g)
  BY <1>5, RecordsKept DEF Quiet, OnlyHart
<1>6. ASSUME NEW src \in Harts, PmpIpi(g, src) PROVE Quiet(g)
  BY <1>5, <1>6 DEF PmpIpi
<1>7. ASSUME NEW p \in Pages, HostWrite(g, p) \/ EnclaveWrite(g, p) PROVE Quiet(g)
  BY <1>5, <1>7 DEF HostWrite, EnclaveWrite
<1> QED BY <1>1, <1>2, <1>3, <1>4, <1>6, <1>7 DEF Switch

\* Inside a call, what the call has is read from its label.
Calling(g, d, k, r, args) ==
    \/ pc[g] \in DHolds(k) /\ r = OwnRegion(d, k) /\ args = enclaves[d].params
    \/ pc[g] \in CHolds(k) /\ r = FrameRegion(g, k) /\ args = frame[g].args

\* During create and destroy of d, what d has can be read from the calling hart.
LEMMA HasInCall ==
    ASSUME TypeInv, RunInv, NEW g \in Harts, NEW d \in Eids, d = EidOf(g), OnlyHart(g),
           pc[g] \in CLabels \cup DLabels, pc'[g] \in CLabels \cup DLabels, EidOf(g)' = d,
           EncOthers(d), enclaves'[d].state = enclaves[d].state,
           NEW k \in Kinds, NEW r, NEW args
    PROVE  /\ \A e \in Eids : e # d => (Has(e, k, r, args)' <=> Has(e, k, r, args))
           /\ Has(d, k, r, args) <=> Calling(g, d, k, r, args)
           /\ Has(d, k, r, args)' <=> Calling(g, d, k, r, args)'
<1>1. pc[g] \in BLabels /\ ~Alive(d)
  BY CallNotAlive
<1>2. ~Alive(d)'
  BY <1>1 DEF Alive
<1>3. /\ \A e \in Eids : e # d => (Has(e, k, r, args)' <=> Has(e, k, r, args))
      /\ Has(d, k, r, args) <=> Local(g, d, k, r, args)
      /\ Has(d, k, r, args)' <=> Local(g, d, k, r, args)'
  BY <1>1, HasStep
<1> QED BY <1>1, <1>2, <1>3 DEF Local, Calling

\* The private region goes from the free slots to the frame of the call.
LEMMA TableCreateEpm ==
    ASSUME TypeInv, RunInv, TableInv, NEW g \in Harts, CreateEpm(g)
    PROVE  TableInv'
<1>0. PMPTypeOK
  BY DEF TypeInv
<1>1. CASE pc'[g] # "c_utm"
  BY <1>0, <1>1, QuietCalls, QuietTable
<1>2. CASE pc'[g] = "c_utm"
  <2>1. PICK d \in Eids, a \in Params : d = EidOf(g) /\ a = frame[g].args
    BY Shapes
  <2>2. PICK rid : rid = frame'[g].region
    OBVIOUS
  <2>3. /\ OnlyHart(g) /\ pc[g] = "c_epm" /\ enclaves' = enclaves /\ EidOf(g)' = d
        /\ frame'[g].args = a
        /\ pmp_region_init_atomic(a.epm, a.epmsize, "ANY", FALSE, rid)
    BY <1>2, <2>1, <2>2, CreateEpmEffect
  <2>4. Gains(d, "epm", rid, a)
    <3> SUFFICES ASSUME NEW e \in Eids, NEW k \in Kinds, NEW r \in MaybeRegion, NEW args \in Params
                 PROVE  Has(e, k, r, args)' <=>
                           Has(e, k, r, args) \/ (e = d /\ k = "epm" /\ r = rid /\ args = a)
      BY DEF Gains
    <3>1. pc[g] \in CLabels \cup DLabels /\ pc'[g] \in CLabels \cup DLabels
      BY <1>2, <2>3 DEF CLabels
    <3>2. EncOthers(d) /\ enclaves'[d].state = enclaves[d].state
      BY <2>3 DEF EncOthers
    <3>3. /\ e # d => (Has(e, k, r, args)' <=> Has(e, k, r, args))
          /\ Has(d, k, r, args) <=> Calling(g, d, k, r, args)
          /\ Has(d, k, r, args)' <=> Calling(g, d, k, r, args)'
      BY <2>1, <2>3, <3>1, <3>2, HasInCall
    <3>4. ~Calling(g, d, k, r, args)
      BY ZenonT(40), <2>3, QuietMoves DEF Calling
    <3>5. Calling(g, d, k, r, args)' <=> k = "epm" /\ r = rid /\ args = a
      BY ZenonT(40), <1>2, <2>2, <2>3, QuietMoves DEF Calling, FrameRegion
    <3> QED BY <3>3, <3>4, <3>5
  <2>5. a.epm \in Word /\ a.epmsize \in Word
    BY ParamsWords
  <2> QED BY <1>0, <2>3, <2>4, <2>5, TableAdd DEF Priorities, Kinds
<1> QED BY <1>1, <1>2

\* So does the shared region.
LEMMA TableCreateUtm ==
    ASSUME TypeInv, RunInv, TableInv, NEW g \in Harts, CreateUtm(g)
    PROVE  TableInv'
<1>0. PMPTypeOK
  BY DEF TypeInv
<1>1. CASE pc'[g] # "c_set"
  BY <1>0, <1>1, QuietCalls, QuietTable
<1>2. CASE pc'[g] = "c_set"
  <2>1. PICK d \in Eids, a \in Params : d = EidOf(g) /\ a = frame[g].args
    BY Shapes
  <2>2. PICK rid : rid = frame'[g].shared
    OBVIOUS
  <2>3. /\ OnlyHart(g) /\ pc[g] = "c_utm" /\ enclaves' = enclaves /\ EidOf(g)' = d
        /\ frame'[g].args = a /\ frame'[g].region = frame[g].region
        /\ pmp_region_init_atomic(a.utm, a.utmsize, "BOTTOM", FALSE, rid)
    BY <1>2, <2>1, <2>2, CreateUtmEffect
  <2>4. Gains(d, "utm", rid, a)
    <3> SUFFICES ASSUME NEW e \in Eids, NEW k \in Kinds, NEW r \in MaybeRegion, NEW args \in Params
                 PROVE  Has(e, k, r, args)' <=>
                           Has(e, k, r, args) \/ (e = d /\ k = "utm" /\ r = rid /\ args = a)
      BY DEF Gains
    <3>1. pc[g] \in CLabels \cup DLabels /\ pc'[g] \in CLabels \cup DLabels
      BY <1>2, <2>3 DEF CLabels
    <3>2. EncOthers(d) /\ enclaves'[d].state = enclaves[d].state
      BY <2>3 DEF EncOthers
    <3>3. /\ e # d => (Has(e, k, r, args)' <=> Has(e, k, r, args))
          /\ Has(d, k, r, args) <=> Calling(g, d, k, r, args)
          /\ Has(d, k, r, args)' <=> Calling(g, d, k, r, args)'
      BY ZenonT(40), <2>1, <2>3, <3>1, <3>2, HasInCall
    <3>4. Calling(g, d, k, r, args) <=> k = "epm" /\ r = frame[g].region /\ args = a
      BY SMTT(30), <2>1, <2>3, QuietMoves DEF Calling, FrameRegion
    <3>5. Calling(g, d, k, r, args)' <=>
             \/ k = "epm" /\ r = frame[g].region /\ args = a
             \/ k = "utm" /\ r = rid /\ args = a
      BY <1>2, <2>2, <2>3, QuietMoves DEF Calling, FrameRegion, Kinds
    <3> QED BY <3>3, <3>4, <3>5
  <2>5. a.utm \in Word /\ a.utmsize \in Word
    BY ParamsWords
  <2> QED BY <1>0, <2>3, <2>4, <2>5, TableAdd DEF Priorities, Kinds
<1> QED BY <1>1, <1>2

\* The calls free what they have, one region at a time.
LEMMA TableFree ==
    ASSUME TypeInv, RunInv, TableInv, NEW g \in Harts, NEW d \in Eids, d = EidOf(g),
           NEW from, NEW to, Moves(g, from, to), {from, to} \subseteq CLabels \cup DLabels,
           NEW l \in Kinds,
           \A k \in Kinds : /\ to \in CHolds(k) <=> from \in CHolds(k) /\ k # l
                            /\ to \in DHolds(k) <=> from \in DHolds(k) /\ k # l,
           NEW rid \in MaybeRegion, NEW a \in Params,
           Calling(g, d, l, rid, a), pmp_region_free_atomic(rid)
    PROVE  TableInv'
<1>1. /\ OnlyHart(g) /\ pc[g] = from /\ pc'[g] = to /\ frame' = frame /\ enclaves' = enclaves
      /\ pc[g] \in CLabels \cup DLabels /\ pc'[g] \in CLabels \cup DLabels
  BY DEF Moves
<1>2. EidOf(g)' = d /\ EncOthers(d) /\ enclaves'[d].state = enclaves[d].state
  BY <1>1 DEF EidOf, EncOthers
<1>3. ASSUME NEW e \in Eids, NEW k \in Kinds, NEW r \in MaybeRegion, NEW args \in Params
      PROVE  /\ e # d => (Has(e, k, r, args)' <=> Has(e, k, r, args))
             /\ Has(d, k, r, args) <=> Calling(g, d, k, r, args)
             /\ Has(d, k, r, args)' <=> Calling(g, d, k, r, args)'
  BY <1>1, <1>2, HasInCall
<1>4. ASSUME NEW k \in Kinds, NEW r \in MaybeRegion, NEW args \in Params
      PROVE  Calling(g, d, k, r, args)' <=> Calling(g, d, k, r, args) /\ k # l
  BY <1>1 DEF Calling, OwnRegion, FrameRegion
<1>5. Loses(d, l)
  BY ZenonT(40), <1>3, <1>4 DEF Loses
<1>6. ~(from \in CHolds(l) /\ from \in DHolds(l))
  BY HolderLabels, LabelFacts
<1>7. \A r \in MaybeRegion, args \in Params : Has(d, l, r, args) => r = rid
  BY <1>1, <1>3, <1>6 DEF Calling
<1>8. Has(d, l, rid, a)
  BY <1>3
<1> QED BY <1>5, <1>7, <1>8, TableDrop DEF TypeInv

\* The error path of create, and destroy, free what the enclave has, once.
LEMMA TableFrees ==
    ASSUME TypeInv, RunInv, OwnInv, NEW g \in Harts,
           CreateFreeUtm(g) \/ CreateFreeEpm(g) \/ DestroyFree(g) \/ DestroyUtm(g)
    PROVE  TableInv'
<1>0. TableInv
  BY DEF OwnInv, TableInv
<1>1. PICK d \in Eids : d = EidOf(g)
  BY Shapes
<1>2. PICK f : f = frame[g]
  OBVIOUS
<1>3. /\ f.args \in Params /\ f.region \in MaybeRegion /\ f.shared \in MaybeRegion
      /\ enclaves[d].params \in Params
      /\ enclaves[d].epm \in MaybeRegion /\ enclaves[d].utm \in MaybeRegion
  BY <1>2, Shapes
<1>4. /\ "utm" \in Kinds /\ "epm" \in Kinds
      /\ {"c_free_utm", "c_free_epm"} \subseteq CLabels \cup DLabels
      /\ {"c_free_epm", "c_free_eid"} \subseteq CLabels \cup DLabels
      /\ {"d_free", "d_utm"} \subseteq CLabels \cup DLabels
      /\ {"d_utm", "d_clear"} \subseteq CLabels \cup DLabels
  BY DEF Kinds, CLabels, DLabels
<1>5. CASE CreateFreeUtm(g)
  <2>1. Moves(g, "c_free_utm", "c_free_epm") /\ pmp_region_free_atomic(f.shared)
    BY <1>2, <1>5, CallMoves
  <2>2. Calling(g, d, "utm", f.shared, f.args)
    BY <1>2, <1>4, <2>1, QuietMoves DEF Calling, FrameRegion, Moves
  <2>3. \A k \in Kinds :
           /\ "c_free_epm" \in CHolds(k) <=> "c_free_utm" \in CHolds(k) /\ k # "utm"
           /\ "c_free_epm" \in DHolds(k) <=> "c_free_utm" \in DHolds(k) /\ k # "utm"
    BY QuietMoves DEF Kinds
  <2> QED BY <1>0, <1>1, <1>3, <1>4, <2>1, <2>2, <2>3, TableFree
<1>6. CASE CreateFreeEpm(g)
  <2>1. Moves(g, "c_free_epm", "c_free_eid") /\ pmp_region_free_atomic(f.region)
    BY <1>2, <1>6, CallMoves
  <2>2. Calling(g, d, "epm", f.region, f.args)
    BY ZenonT(40), <1>2, <1>4, <2>1, QuietMoves DEF Calling, FrameRegion, Moves
  <2>3. \A k \in Kinds :
           /\ "c_free_eid" \in CHolds(k) <=> "c_free_epm" \in CHolds(k) /\ k # "epm"
           /\ "c_free_eid" \in DHolds(k) <=> "c_free_epm" \in DHolds(k) /\ k # "epm"
    BY QuietMoves DEF Kinds
  <2> QED BY <1>0, <1>1, <1>3, <1>4, <2>1, <2>2, <2>3, TableFree
<1>7. CASE DestroyFree(g)
  <2>1. Moves(g, "d_free", "d_utm") /\ pmp_region_free_atomic(f.region)
    BY <1>2, <1>7, CallMoves
  <2>2. f.region = enclaves[d].epm
    BY <1>1, <1>2, <2>1 DEF OwnInv, LookedUp, Moves, EidOf
  <2>3. Calling(g, d, "epm", f.region, enclaves[d].params)
    BY ZenonT(40), <1>4, <2>1, <2>2, QuietMoves DEF Calling, OwnRegion, Moves
  <2>4. \A k \in Kinds :
           /\ "d_utm" \in CHolds(k) <=> "d_free" \in CHolds(k) /\ k # "epm"
           /\ "d_utm" \in DHolds(k) <=> "d_free" \in DHolds(k) /\ k # "epm"
    BY QuietMoves DEF Kinds
  <2> QED BY <1>0, <1>1, <1>3, <1>4, <2>1, <2>3, <2>4, TableFree
<1>8. CASE DestroyUtm(g)
  <2>1. Moves(g, "d_utm", "d_clear")
    BY <1>8, CallMoves
  <2>2. Calling(g, d, "utm", enclaves[d].utm, enclaves[d].params)
    BY <1>4, <2>1, QuietMoves DEF Calling, OwnRegion, Moves
  <2>3. enclaves[d].utm # NoRegion
    <3>1. pc[g] \in DHolds("utm") /\ frame[g].eid = d
      BY <1>1, <1>4, <2>1, QuietMoves DEF Moves, EidOf
    <3>2. Has(d, "utm", enclaves[d].utm, enclaves[d].params)
      BY <3>1 DEF Has, OwnRegion
    <3>3. enclaves[d].utm \in region_def_bitmap
      BY <1>0, <1>3, <1>4, <3>2 DEF TableInv, Backed, Holding
    <3> QED BY SMT, <3>3 DEF NoRegion, TypeInv, PMPTypeOK, RegionIds
  <2>4. pmp_region_free_atomic(enclaves[d].utm)
    BY <1>1, <1>8, <2>3, CallMoves
  <2>5. \A k \in Kinds :
           /\ "d_clear" \in CHolds(k) <=> "d_utm" \in CHolds(k) /\ k # "utm"
           /\ "d_clear" \in DHolds(k) <=> "d_utm" \in DHolds(k) /\ k # "utm"
    BY QuietMoves DEF Kinds
  <2> QED BY <1>0, <1>1, <1>3, <1>4, <2>1, <2>2, <2>4, <2>5, TableFree
<1> QED BY <1>5, <1>6, <1>7, <1>8

\* The region passes from the call that creates to the enclave, and from the enclave to
\* the call that destroys it.
LEMMA TableHands ==
    ASSUME SerialHost, TypeInv, RunInv, OwnInv, NEW g \in Harts,
           \/ CreateMeta(g) \/ CreateHash(g) \/ DestroyClear(g) \/ DestroyRead(g)
           \/ \E d \in Eids : DestroyEnclave(g, d)
    PROVE  TableInv'
<1>0. TableInv /\ PMPTypeOK
  BY DEF OwnInv, TableInv, TypeInv
<1>1. PICK d \in Eids : d = EidOf(g)
  BY Shapes
<1>2. CASE CreateMeta(g) \/ DestroyClear(g)
  <2>1. /\ OnlyHart(g) /\ EncOthers(d) /\ enclaves'[d].state = enclaves[d].state
        /\ frame' = frame /\ UNCHANGED pmpVars
        /\ \/ pc[g] = "c_meta" /\ pc'[g] \in {"c_hash", "c_unset"}
           \/ pc[g] = "d_clear" /\ pc'[g] = "d_eid"
    BY <1>1, <1>2, CreateMetaEffect, DestroyClearEffect
  <2>2. pc[g] \in CLabels \cup DLabels /\ pc'[g] \in CLabels \cup DLabels
    BY <2>1 DEF CLabels, DLabels
  <2>3. EidOf(g)' = d
    BY <1>1, <2>1 DEF EidOf
  <2>4. SameHas
    <3> SUFFICES ASSUME NEW e \in Eids, NEW k \in Kinds, NEW r \in MaybeRegion, NEW args \in Params
                 PROVE  Has(e, k, r, args)' <=> Has(e, k, r, args)
      BY DEF SameHas
    <3>1. /\ e # d => (Has(e, k, r, args)' <=> Has(e, k, r, args))
          /\ Has(d, k, r, args) <=> Calling(g, d, k, r, args)
          /\ Has(d, k, r, args)' <=> Calling(g, d, k, r, args)'
      BY <1>1, <2>1, <2>2, <2>3, HasInCall
    <3>2. Calling(g, d, k, r, args)' <=> Calling(g, d, k, r, args)
      BY SMTT(30), <2>1, QuietMoves DEF Calling, FrameRegion
    <3> QED BY <3>1, <3>2
  <2> QED BY <1>0, <2>1, <2>4, TableSame
<1>3. CASE CreateHash(g)
  <2>1. /\ OnlyHart(g) /\ EncOthers(d) /\ SameBody(d) /\ UNCHANGED pmpVars
        /\ pc[g] = "c_hash" /\ pc'[g] = "host" /\ enclaves'[d].state = FRESH
    BY <1>1, <1>3, CreateHashEffect
  <2>2. pc[g] \in BLabels /\ pc'[g] \notin BLabels /\ ~Alive(d)
    BY <1>1, <2>1, CallNotAlive, LabelFacts DEF CLabels
  <2>3. Alive(d)'
    BY <2>1 DEF Alive
  <2>4. SameHas
    <3> SUFFICES ASSUME NEW e \in Eids, NEW k \in Kinds, NEW r \in MaybeRegion, NEW args \in Params
                 PROVE  Has(e, k, r, args)' <=> Has(e, k, r, args)
      BY DEF SameHas
    <3>1. /\ e # d => (Has(e, k, r, args)' <=> Has(e, k, r, args))
          /\ Has(d, k, r, args) <=> Local(g, d, k, r, args)
          /\ Has(d, k, r, args)' <=> Local(g, d, k, r, args)'
      BY <1>1, <2>1, <2>2, HasStep
    <3>2. /\ enclaves[d].epm = frame[g].region /\ enclaves[d].utm = frame[g].shared
          /\ enclaves[d].params = frame[g].args
      BY <1>1, <2>1 DEF OwnInv, Filled, EidOf
    <3>3. OwnRegion(d, k)' = FrameRegion(g, k) /\ enclaves'[d].params = frame[g].args
      BY <2>1, <3>2 DEF SameBody, OwnRegion, FrameRegion
    <3>4. Local(g, d, k, r, args)' <=> Local(g, d, k, r, args)
      BY ZenonT(40), <2>1, <2>2, <2>3, <3>3, QuietMoves DEF Local
    <3> QED BY <3>1, <3>4
  <2> QED BY <1>0, <2>1, <2>4, TableSame
<1>4. ASSUME NEW c \in Eids, DestroyEnclave(g, c) PROVE TableInv'
  <2>1. /\ OnlyHart(g) /\ EncOthers(c) /\ SameBody(c) /\ UNCHANGED pmpVars
        /\ pc[g] = "host" /\ pc'[g] = "d_read" /\ EidOf(g)' = c
        /\ enclaves'[c].state = DESTROYING /\ enclaves[c].state <= STOPPED /\ c \in handles
    BY <1>4, DestroyEnclaveEffect
  <2>2. pc[g] \notin BLabels
    BY <2>1, LabelFacts
  <2>3. enclaves[c].state \in {FRESH, STOPPED}
    BY SMTT(30), <2>1 DEF RunInv, Handed, State, STOPPED, RUNNING
  <2>4. Alive(c) /\ ~Alive(c)' /\ enclaves[c].state \notin {ALLOCATED, DESTROYING, RUNNING}
    BY SMTT(30), <2>1, <2>3, AliveStates DEF Alive, STOPPED, RUNNING, FRESH, ALLOCATED, DESTROYING
  <2>5. SameHas
    <3> SUFFICES ASSUME NEW e \in Eids, NEW k \in Kinds, NEW r \in MaybeRegion, NEW args \in Params
                 PROVE  Has(e, k, r, args)' <=> Has(e, k, r, args)
      BY DEF SameHas
    <3>1. /\ e # c => (Has(e, k, r, args)' <=> Has(e, k, r, args))
          /\ Has(c, k, r, args) <=> Local(g, c, k, r, args)
          /\ Has(c, k, r, args)' <=> Local(g, c, k, r, args)'
      BY <2>1, <2>2, <2>4, HasStep
    <3>2. OwnRegion(c, k)' = OwnRegion(c, k) /\ enclaves'[c].params = enclaves[c].params
      BY <2>1 DEF SameBody, OwnRegion
    <3>3. Local(g, c, k, r, args)' <=> Local(g, c, k, r, args)
      BY ZenonT(40), <2>1, <2>4, <3>2, QuietMoves DEF Local
    <3> QED BY <3>1, <3>3
  <2> QED BY <1>0, <2>1, <2>5, TableSame
<1>5. CASE DestroyRead(g)
  <2>1. pc[g] = "d_read" /\ frame[g].eid = d
    BY <1>1, <1>5 DEF DestroyRead, EidOf
  <2>2. Has(d, "epm", enclaves[d].epm, enclaves[d].params)
    BY <2>1, QuietMoves DEF Has, OwnRegion, Kinds
  <2>3. enclaves[d].epm \in region_def_bitmap
    BY <1>0, <2>2, Shapes DEF TableInv, Backed, Holding, Kinds
  <2>4. enclaves[d].epm # NoRegion
    BY SMT, <2>3 DEF NoRegion, TypeInv, PMPTypeOK, RegionIds
  <2>5. PICK rid : rid = enclaves[EidOf(g)].epm
    OBVIOUS
  <2>6. is_pmp_region_valid(rid) /\ rid # NoRegion
    BY <1>1, <2>3, <2>4, <2>5 DEF is_pmp_region_valid
  <2>7. /\ OnlyHart(g) /\ pc'[g] = "d_zero" /\ EidOf(g)' = EidOf(g)
        /\ UNCHANGED <<pmpVars, enclaves>>
    BY <1>5, <2>5, <2>6, DestroyReadEffect
  <2>8. Quiet(g)
    BY ZenonT(40), <2>1, <2>7, RecordsKept, QuietMoves DEF Quiet, EidOf
  <2> QED BY <1>0, <2>8, QuietTable
<1> QED BY <1>2, <1>3, <1>4, <1>5

\* The other conjuncts of OwnInv say what the locals of a call mean.
SideInv == ArgsChecked /\ Filled /\ LookedUp

Calm(g) ==
    /\ OnlyHart(g)
    /\ \A e \in Eids : /\ Alive(e)' => Alive(e)
                       /\ enclaves'[e].epm = enclaves[e].epm
                       /\ enclaves'[e].utm = enclaves[e].utm
                       /\ enclaves'[e].params = enclaves[e].params
    /\ pc'[g] \in CLabels => pc[g] \in CLabels /\ frame'[g].args = frame[g].args
    /\ pc'[g] \in {"c_hash", "d_zero", "d_unset", "d_free"} =>
          /\ frame'[g] = frame[g]
          /\ pc'[g] = "c_hash" <=> pc[g] = "c_hash"
          /\ pc[g] \in {"c_hash", "d_zero", "d_unset", "d_free"}

\* A calm step keeps the arguments checked, the record filled in and what was looked up.
LEMMA CalmSide ==
    ASSUME TypeInv, SideInv, NEW g \in Harts, Calm(g)
    PROVE  SideInv'
<1>1. \A h \in Harts : frame[h].eid \in Eids
  BY Shapes DEF EidOf
<1>2. ArgsChecked'
  BY DEF SideInv, Calm, OnlyHart, ArgsChecked
<1>3. ASSUME NEW h \in Harts, pc'[h] = "c_hash"
      PROVE  pc[h] = "c_hash" /\ frame'[h] = frame[h]
  BY <1>3 DEF Calm, OnlyHart
<1>4. Filled'
  BY SMTT(30), <1>1, <1>3 DEF SideInv, Calm, Filled
<1>5. ASSUME NEW h \in Harts, pc'[h] \in {"d_zero", "d_unset", "d_free"}
      PROVE  pc[h] \in {"d_zero", "d_unset", "d_free"} /\ frame'[h] = frame[h]
  BY <1>5 DEF Calm, OnlyHart
<1>6. LookedUp'
  BY SMT, <1>1, <1>5 DEF SideInv, Calm, LookedUp
<1> QED BY <1>2, <1>4, <1>6 DEF SideInv

\* The steps of create and destroy that are calm.
LEMMA CalmCalls ==
    ASSUME TypeInv, RunInv, NEW g \in Harts
    PROVE  /\ CreateEpm(g) \/ CreateUtm(g) => Calm(g)
           /\ CreateSet(g) \/ CreateUnset(g) \/ CreateFreeUtm(g) \/ CreateFreeEpm(g) => Calm(g)
           /\ DestroyZero(g) \/ DestroyUnset(g) \/ DestroyFree(g) \/ DestroyUtm(g) => Calm(g)
           /\ CreateFreeEid(g) \/ DestroyFreeEid(g) => Calm(g)
<1>1. ASSUME CreateEpm(g) \/ CreateUtm(g) PROVE Calm(g)
  <2>1. /\ OnlyHart(g) /\ enclaves' = enclaves /\ frame'[g].args = frame[g].args
        /\ pc[g] \in {"c_epm", "c_utm"} /\ pc'[g] \in {"c_utm", "c_free_eid", "c_set", "c_free_epm"}
    BY <1>1, CreateEpmEffect, CreateUtmEffect
  <2> QED BY <2>1 DEF Calm, Alive, CLabels
<1>2. ASSUME \/ CreateSet(g) \/ CreateUnset(g) \/ CreateFreeUtm(g) \/ CreateFreeEpm(g)
             \/ DestroyZero(g) \/ DestroyUnset(g) \/ DestroyFree(g) \/ DestroyUtm(g)
      PROVE  Calm(g)
  <2>1. /\ OnlyHart(g) /\ UNCHANGED <<frame, enclaves>>
        /\ \/ /\ pc[g] \in {"c_set", "c_unset", "c_free_utm", "c_free_epm"}
              /\ pc'[g] \in {"c_meta", "c_free_utm", "c_free_epm", "c_free_eid"}
           \/ pc[g] \in {"d_zero", "d_unset"} /\ pc'[g] \in {"d_unset", "d_free"}
           \/ pc[g] \in {"d_free", "d_utm"} /\ pc'[g] \in {"d_utm", "d_clear"}
    BY <1>2, CallMoves DEF Moves
  <2> QED BY <2>1 DEF Calm, Alive, CLabels
<1>3. ASSUME CreateFreeEid(g) \/ DestroyFreeEid(g) PROVE Calm(g)
  <2>1. /\ OnlyHart(g) /\ pc[g] \in {"c_free_eid", "d_eid"} /\ pc'[g] = "host"
    BY <1>3, FreeEidEffect
  <2>2. SameRecords
    BY <1>3, QuietCalls DEF Quiet
  <2> QED BY <2>1, <2>2, LabelFacts DEF Calm, SameRecords
<1> QED BY <1>1, <1>2, <1>3

\* Running, leaving, IPIs and stores are calm.
LEMMA CalmSwitches ==
    ASSUME SerialHost, TypeInv, RunInv, NEW g \in Harts
    PROVE  /\ \A d \in Eids : \/ DestroyEnclave(g, d) \/ RunEnclave(g, d) \/ ResumeEnclave(g, d)
                              => Calm(g)
           /\ StopEnclave(g) \/ ExitEnclave(g) => Calm(g)
           /\ Switch(g) => Calm(g)
           /\ \A src \in Harts : PmpIpi(g, src) => Calm(g)
           /\ \A p \in Pages : HostWrite(g, p) \/ EnclaveWrite(g, p) => Calm(g)
<1>1. ASSUME Quiet(g), pc'[g] \in ELabels \cup {"host", "x_pmp", "x_swap"} PROVE Calm(g)
  <2>1. pc'[g] \notin CLabels /\ pc'[g] \notin {"c_hash", "d_zero", "d_unset", "d_free"}
    BY <1>1, LabelFacts DEF ELabels
  <2> QED BY <1>1, <2>1 DEF Quiet, SameRecords, Calm
<1>2. ASSUME NEW d \in Eids, DestroyEnclave(g, d) PROVE Calm(g)
  <2>1. /\ OnlyHart(g) /\ EncOthers(d) /\ SameBody(d) /\ pc'[g] = "d_read"
        /\ enclaves'[d].state = DESTROYING
    BY <1>2, DestroyEnclaveEffect
  <2>2. pc'[g] \notin CLabels
    BY <2>1 DEF CLabels
  <2> QED BY <2>1, <2>2, AliveStates DEF Calm, EncOthers, SameBody, Alive
<1>3. ASSUME NEW d \in Eids, RunEnclave(g, d) \/ ResumeEnclave(g, d) PROVE Calm(g)
  BY <1>1, <1>3, EnterEffect, QuietSwitches, LabelFacts
<1>4. ASSUME StopEnclave(g) \/ ExitEnclave(g) PROVE Calm(g)
  BY <1>1, <1>4, LeaveEffect, QuietSwitches
<1>5. ASSUME Switch(g) PROVE Calm(g)
  <2>1. pc'[g] \in {"e_pmp", "host", "enclave", "x_swap"}
    BY <1>5, SwapEffect, PmpEffect DEF Switch
  <2> QED BY <1>1, <1>5, <2>1, QuietSwitches, LabelFacts
<1>6. ASSUME UNCHANGED <<pc, frame, enclaves>> PROVE Calm(g)
  BY <1>6 DEF Calm, OnlyHart, Alive
<1>7. ASSUME NEW src \in Harts, PmpIpi(g, src) PROVE Calm(g)
  BY <1>6, <1>7 DEF PmpIpi
<1>8. ASSUME NEW p \in Pages, HostWrite(g, p) \/ EnclaveWrite(g, p) PROVE Calm(g)
  BY <1>6, <1>8 DEF HostWrite, EnclaveWrite
<1> QED BY <1>2, <1>3, <1>4, <1>5, <1>7, <1>8

\* The other steps: those that check arguments, fill in the record or look it up.
LEMMA SideRest ==
    ASSUME TypeInv, RunInv, OwnInv, NEW g \in Harts,
           \/ \E args \in CreateArgs : CreateEnclave(g, args)
           \/ CreateMeta(g) \/ CreateHash(g) \/ DestroyRead(g) \/ DestroyClear(g)
    PROVE  SideInv'
<1>0. SideInv /\ TableInv
  BY DEF OwnInv, SideInv, TableInv
<1>1. \A h \in Harts : frame[h].eid \in Eids
  BY Shapes DEF EidOf
<1>2. PICK d \in Eids : d = EidOf(g)
  BY Shapes
<1>3. ASSUME pc[g] \in BLabels, NEW h \in Harts, h # g, pc[h] \in BLabels PROVE frame[h].eid # d
  BY <1>2, <1>3 DEF RunInv, Alone, Busy, EidOf
<1>4. \A l \in {"c_hash", "d_zero", "d_unset", "d_free"} : l \in BLabels
  BY DEF BLabels, CLabels, DLabels
<1>5. ASSUME NEW args \in CreateArgs, CreateEnclave(g, args) PROVE SideInv'
  <2>1. /\ OnlyHart(g) /\ pc'[g] = "c_epm" /\ frame'[g].args = args /\ is_create_args_valid(args)
    BY <1>5, CreateEnclaveEffect
  <2>2. SameRecords
    BY <1>5, QuietCalls DEF Quiet
  <2>3. ArgsChecked'
    BY <1>0, <2>1, <2>2 DEF SideInv, ArgsChecked, OnlyHart, SameRecords
  <2>4. \A h \in Harts : pc'[h] \in {"c_hash", "d_zero", "d_unset", "d_free"} =>
            pc'[h] = pc[h] /\ frame'[h] = frame[h]
    BY <2>1 DEF OnlyHart
  <2>5. Filled' /\ LookedUp'
    BY SMTT(30), <1>0, <1>1, <2>2, <2>4 DEF SideInv, Filled, LookedUp, SameRecords
  <2> QED BY <2>3, <2>5 DEF SideInv
<1>6. CASE CreateMeta(g)
  <2>1. /\ OnlyHart(g) /\ pc[g] = "c_meta" /\ pc'[g] \in {"c_hash", "c_unset"} /\ frame' = frame
        /\ EncOthers(d) /\ enclaves'[d].state = enclaves[d].state
        /\ enclaves'[d].epm = frame[g].region /\ enclaves'[d].utm = frame[g].shared
        /\ enclaves'[d].params = frame[g].args
    BY <1>2, <1>6, CreateMetaEffect
  <2>2. pc[g] \in BLabels /\ pc[g] \in CLabels /\ pc'[g] \in CLabels /\ ~Alive(d)
    BY <1>2, <2>1, CallNotAlive DEF CLabels
  <2>3. ~Alive(d)'
    BY <2>1, <2>2 DEF Alive
  <2>4. ArgsChecked'
    <3>1. \A e \in Eids : Alive(e)' => e # d /\ Alive(e) /\ enclaves'[e] = enclaves[e]
      BY <2>1, <2>3 DEF EncOthers, Alive
    <3> QED BY <1>0, <2>1, <2>2, <3>1 DEF SideInv, ArgsChecked, OnlyHart
  <2>5. \A h \in Harts : h # g /\ pc'[h] \in {"c_hash", "d_zero", "d_unset", "d_free"} =>
            pc'[h] = pc[h] /\ enclaves'[frame[h].eid] = enclaves[frame[h].eid]
    BY <1>1, <1>3, <1>4, <2>1, <2>2 DEF OnlyHart, EncOthers
  <2>6. Filled'
    BY <1>0, <1>2, <2>1, <2>5 DEF SideInv, Filled, EidOf
  <2>7. LookedUp'
    BY <1>0, <2>1, <2>5 DEF SideInv, LookedUp
  <2> QED BY <2>4, <2>6, <2>7 DEF SideInv
<1>7. CASE CreateHash(g)
  <2>1. /\ OnlyHart(g) /\ pc[g] = "c_hash" /\ pc'[g] = "host"
        /\ EncOthers(d) /\ SameBody(d)
    BY <1>2, <1>7, CreateHashEffect
  <2>2. \A e \in Eids : /\ enclaves'[e].epm = enclaves[e].epm /\ enclaves'[e].utm = enclaves[e].utm
                        /\ enclaves'[e].params = enclaves[e].params
    BY <2>1 DEF EncOthers, SameBody
  <2>3. pc[g] \in CLabels /\ pc'[g] \notin CLabels
    BY <2>1 DEF CLabels
  <2>4. is_create_args_valid(enclaves[d].params)
    BY <1>0, <1>2, <2>1, <2>3 DEF SideInv, ArgsChecked, Filled, EidOf
  <2>5. \A e \in Eids : e # d /\ Alive(e)' => Alive(e)
    BY <2>1 DEF EncOthers, Alive
  <2>6. ArgsChecked'
    BY <1>0, <2>1, <2>2, <2>3, <2>4, <2>5 DEF SideInv, ArgsChecked, OnlyHart
  <2>7. \A h \in Harts : pc'[h] \in {"c_hash", "d_zero", "d_unset", "d_free"} =>
            pc'[h] = pc[h] /\ frame'[h] = frame[h]
    BY <2>1 DEF OnlyHart
  <2>8. Filled' /\ LookedUp'
    BY SMTT(30), <1>0, <1>1, <2>2, <2>7 DEF SideInv, Filled, LookedUp
  <2> QED BY <2>6, <2>8 DEF SideInv
<1>8. CASE DestroyRead(g)
  <2>1. pc[g] = "d_read" /\ frame[g].eid = d
    BY <1>2, <1>8 DEF DestroyRead, EidOf
  <2>2. Holding("epm", enclaves[d].epm, enclaves[d].params)
    <3>1. Has(d, "epm", enclaves[d].epm, enclaves[d].params)
      BY <2>1, QuietMoves DEF Has, OwnRegion, Kinds
    <3> QED BY <1>0, <3>1, Shapes DEF TableInv, Backed, Kinds
  <2>3. PICK rid : rid = enclaves[EidOf(g)].epm
    OBVIOUS
  <2>4. is_pmp_region_valid(rid) /\ rid # NoRegion
    BY SMTT(30), <1>2, <2>2, <2>3 DEF is_pmp_region_valid, Holding, NoRegion, TypeInv, PMPTypeOK,
       RegionIds
  <2>5. /\ OnlyHart(g) /\ pc'[g] = "d_zero" /\ frame'[g].eid = d /\ enclaves' = enclaves
        /\ frame'[g].region = rid
        /\ frame'[g].base = regions[rid].addr /\ frame'[g].size = regions[rid].size
    BY ZenonT(40), <1>2, <1>8, <2>3, <2>4, DestroyReadEffect DEF EidOf
  <2>6. ArgsChecked'
    BY <1>0, <2>5 DEF SideInv, ArgsChecked, OnlyHart, Alive, CLabels
  <2>7. Filled'
    BY ZenonT(40), <1>0, <2>5 DEF SideInv, Filled, OnlyHart
  <2>8. LookedUp'
    BY SMTT(30), <1>0, <1>2, <2>2, <2>3, <2>5 DEF SideInv, LookedUp, OnlyHart, Holding
  <2> QED BY <2>6, <2>7, <2>8 DEF SideInv
<1>9. CASE DestroyClear(g)
  <2>1. /\ OnlyHart(g) /\ pc[g] = "d_clear" /\ pc'[g] = "d_eid" /\ frame' = frame
        /\ EncOthers(d) /\ enclaves'[d].state = enclaves[d].state
    BY <1>2, <1>9, DestroyClearEffect
  <2>2. pc[g] \in BLabels /\ pc'[g] \notin CLabels /\ ~Alive(d)
    BY <1>2, <2>1, CallNotAlive DEF CLabels, DLabels
  <2>3. ~Alive(d)'
    BY <2>1, <2>2 DEF Alive
  <2>4. ArgsChecked'
    <3>1. \A e \in Eids : Alive(e)' => e # d /\ Alive(e) /\ enclaves'[e] = enclaves[e]
      BY <2>1, <2>3 DEF EncOthers, Alive
    <3> QED BY <1>0, <2>1, <2>2, <3>1 DEF SideInv, ArgsChecked, OnlyHart
  <2>5. \A h \in Harts : pc'[h] \in {"c_hash", "d_zero", "d_unset", "d_free"} =>
            pc'[h] = pc[h] /\ enclaves'[frame[h].eid] = enclaves[frame[h].eid]
    BY ZenonT(40), <1>1, <1>3, <1>4, <2>1, <2>2 DEF OnlyHart, EncOthers
  <2>6. Filled' /\ LookedUp'
    BY SMTT(30), <1>0, <2>1, <2>5 DEF SideInv, Filled, LookedUp
  <2> QED BY <2>4, <2>6 DEF SideInv
<1> QED BY <1>5, <1>6, <1>7, <1>8, <1>9

\* Every step of the monitor keeps OwnInv.
LEMMA OwnStep ==
    ASSUME SerialHost, TypeInv, RunInv, OwnInv, [Next]_vars
    PROVE  OwnInv'
<1>0. TableInv /\ SideInv /\ PMPTypeOK
  BY DEF OwnInv, TableInv, SideInv, TypeInv
<1>1. ASSUME NEW g \in Harts, Quiet(g), Calm(g) PROVE OwnInv'
  BY <1>0, <1>1, QuietTable, CalmSide DEF OwnInv, TableInv, SideInv
<1>2. ASSUME TableInv', SideInv' PROVE OwnInv'
  BY <1>2 DEF OwnInv, TableInv, SideInv
<1>3. ASSUME NEW g \in Harts, Create(g) PROVE OwnInv'
  <2>1. CASE CreateEpm(g) \/ CreateUtm(g)
    BY <1>0, <1>2, <2>1, TableCreateEpm, TableCreateUtm, CalmCalls, CalmSide
  <2>2. CASE CreateSet(g) \/ CreateUnset(g) \/ CreateFreeEid(g)
    BY <1>1, <2>2, QuietCalls, CalmCalls
  <2>3. CASE CreateMeta(g) \/ CreateHash(g)
    BY <1>2, <2>3, TableHands, SideRest
  <2>4. CASE CreateFreeUtm(g) \/ CreateFreeEpm(g)
    BY <1>0, <1>2, <2>4, TableFrees, CalmCalls, CalmSide
  <2> QED BY <1>3, <2>1, <2>2, <2>3, <2>4 DEF Create
<1>4. ASSUME NEW g \in Harts, Destroy(g) PROVE OwnInv'
  <2>1. CASE DestroyRead(g) \/ DestroyClear(g)
    BY <1>2, <2>1, TableHands, SideRest
  <2>2. CASE DestroyZero(g) \/ DestroyUnset(g) \/ DestroyFreeEid(g)
    BY <1>1, <2>2, QuietCalls, CalmCalls
  <2>3. CASE DestroyFree(g) \/ DestroyUtm(g)
    BY <1>0, <1>2, <2>3, TableFrees, CalmCalls, CalmSide
  <2> QED BY <1>4, <2>1, <2>2, <2>3 DEF Destroy
<1>5. ASSUME NEW g \in Harts,
             \/ \E args \in CreateArgs : CreateEnclave(g, args)
             \/ \E d \in Eids : DestroyEnclave(g, d)
      PROVE  OwnInv'
  <2>1. ASSUME NEW args \in CreateArgs, CreateEnclave(g, args) PROVE OwnInv'
    BY <1>0, <1>2, <2>1, QuietCalls, QuietTable, SideRest
  <2>2. ASSUME NEW d \in Eids, DestroyEnclave(g, d) PROVE OwnInv'
    BY <1>0, <1>2, <2>2, TableHands, CalmSwitches, CalmSide
  <2> QED BY <1>5, <2>1, <2>2
<1>6. ASSUME NEW g \in Harts,
             \/ \E d \in Eids : RunEnclave(g, d) \/ ResumeEnclave(g, d)
             \/ StopEnclave(g) \/ ExitEnclave(g) \/ Switch(g)
             \/ \E src \in Harts : PmpIpi(g, src)
             \/ \E p \in Pages : HostWrite(g, p) \/ EnclaveWrite(g, p)
      PROVE  OwnInv'
  <2>1. Quiet(g)
    BY <1>6, QuietSwitches
  <2>2. Calm(g)
    BY <1>6, CalmSwitches
  <2> QED BY <1>1, <2>1, <2>2
<1>7. CASE UNCHANGED vars
  <2>1. UNCHANGED <<pc, frame, enclaves>> /\ UNCHANGED pmpVars
    BY <1>7 DEF vars
  <2>2. SameHas
    BY <2>1, HasSame DEF SameHas, Alive
  <2>3. TableInv'
    BY <1>0, <2>1, <2>2, TableSame
  <2>4. SideInv'
    BY <1>0, <2>1 DEF SideInv, ArgsChecked, Filled, LookedUp, Alive
  <2> QED BY <1>2, <2>3, <2>4
<1>8. CASE Next
  BY <1>3, <1>4, <1>5, <1>6, <1>8 DEF Next, Monitor
<1> QED BY <1>7, <1>8

\* When no call is in progress, OwnInv says what RegionsAccounted says.
LEMMA OwnImplies == TypeInv /\ RunInv /\ OwnInv => RegionsAccounted
<1> SUFFICES ASSUME TypeInv, RunInv, OwnInv, \A h \in Harts : pc[h] \in {"host", "enclave"}
             PROVE  /\ \A e \in Eids : ENCLAVE_EXISTS(e) => Alive(e)
                    /\ region_def_bitmap = {sm_region_id, os_region_id} \cup
                           UNION {{enclaves[e].epm, enclaves[e].utm} : e \in {d \in Eids : Alive(d)}}
  BY DEF RegionsAccounted
<1>1. \A h \in Harts : pc[h] \notin CLabels /\ pc[h] \notin DLabels
  BY LabelFacts
<1>2. ASSUME NEW e \in Eids, ENCLAVE_EXISTS(e) PROVE Alive(e)
  <2>1. State(e) \notin {ALLOCATED, DESTROYING}
    BY SMTT(30), <1>1, HeldFacts, StateFacts DEF RunInv, Entered, Holds, Busy
  <2>2. enclaves[e].state \in States
    BY Shapes DEF EnclaveRec
  <2> QED BY SMTT(30), <1>2, <2>1, <2>2 DEF ENCLAVE_EXISTS, Alive, State, States, INVALID, DESTROYING,
        ALLOCATED, FRESH, STOPPED, RUNNING
<1>3. \A e \in Eids, k \in Kinds, r \in MaybeRegion, args \in Params :
         Has(e, k, r, args) <=> Alive(e) /\ r = OwnRegion(e, k) /\ args = enclaves[e].params
  BY <1>1, HolderLabels DEF Has
<1>4. ASSUME NEW r \in region_def_bitmap, r \notin {sm_region_id, os_region_id}
      PROVE  \E e \in Eids : Alive(e) /\ r \in {enclaves[e].epm, enclaves[e].utm}
  <2>1. PICK e \in Eids, k \in Kinds, args \in Params : Has(e, k, r, args)
    BY <1>4 DEF OwnInv, NoneLost
  <2>2. r \in MaybeRegion
    BY DEF TypeInv, PMPTypeOK, MaybeRegion
  <2> QED BY SMT, <1>3, <2>1, <2>2 DEF OwnRegion
<1>5. ASSUME NEW e \in Eids, Alive(e)
      PROVE  enclaves[e].epm \in region_def_bitmap /\ enclaves[e].utm \in region_def_bitmap
  <2>1. /\ Has(e, "epm", enclaves[e].epm, enclaves[e].params)
        /\ Has(e, "utm", enclaves[e].utm, enclaves[e].params)
    BY <1>5 DEF Has, OwnRegion
  <2> QED BY <2>1, Shapes DEF OwnInv, Backed, Holding, Kinds
<1>6. {sm_region_id, os_region_id} \subseteq region_def_bitmap
  BY DEF OwnInv, BootKept
<1> QED BY SMTT(30), <1>2, <1>4, <1>5, <1>6

\* Which context is loaded in a hart and which one is saved in threads[0].
Swapped == {"e_pmp", "enclave", "x_pmp", "x_swap"}

CtxInv ==
    /\ \A h \in Harts : IF pc[h] \in Swapped
                        THEN /\ regs[h] = EnclaveCtx(frame[h].eid)
                             /\ enclaves[frame[h].eid].thread = HostCtx(h)
                        ELSE regs[h] = HostCtx(h)
    /\ \A h \in Harts : pc[h] = "e_swap" =>
          enclaves[frame[h].eid].thread = EnclaveCtx(frame[h].eid)
    /\ \A e \in Eids : enclaves[e].state = STOPPED /\ (\A h \in Harts : ~Leaving(h, e)) =>
          enclaves[e].thread = EnclaveCtx(e)

\* Every step of the monitor keeps IpiInv.
LEMMA IpiStep ==
    ASSUME SerialHost, TypeInv, RunInv, IpiInv, [Next]_vars
    PROVE  IpiInv'
<1>1. ASSUME UNCHANGED <<pc, frame, ipi>> PROVE IpiInv'
  BY <1>1 DEF IpiInv, Synced
<1>2. ASSUME NEW g \in Harts, NoIpiStep(g) PROVE IpiInv'
  <2>1. Synced(g)
    BY <1>2 DEF NoIpiStep, IpiInv, Waits
  <2>2. \A h \in Harts : ~Synced(h)' => ~Synced(h) /\ pc'[h] = pc[h] /\ frame'[h] = frame[h]
    BY <1>2, <2>1 DEF NoIpiStep, OnlyHart, Synced
  <2> QED BY <1>2, <2>2 DEF NoIpiStep, IpiInv
<1>3. ASSUME NEW g \in Harts, Sends(g) PROVE IpiInv'
  <2>1. \A h \in Harts : h # g => pc'[h] = pc[h] /\ frame'[h] = frame[h] /\ ipi'[h] = ipi[h]
    BY ZenonT(40), <1>3, SendEffect DEF OnlyHart
  <2>2. ipi'[g].todo # {} => /\ pc'[g] \in {"c_meta", "c_free_utm", "d_free"}
                             /\ ipi'[g].rid = frame'[g].region
                             /\ ipi'[g].set <=> pc'[g] = "c_meta"
    BY <1>3, SendEffect DEF Sends
  <2> QED BY <2>1, <2>2 DEF IpiInv, Synced
<1>4. ASSUME NEW g \in Harts, NEW src \in Harts, PmpIpi(g, src) PROVE IpiInv'
  <2>1. pc' = pc /\ frame' = frame
    BY <1>4, IpiEffect
  <2>2. \A h \in Harts : ~Synced(h)' =>
           ~Synced(h) /\ ipi'[h].rid = ipi[h].rid /\ ipi'[h].set = ipi[h].set
    BY <1>4, IpiEffect DEF Synced
  <2> QED BY <2>1, <2>2 DEF IpiInv
<1>5. CASE Next
  <2>1. PICK g \in Harts :
        \/ \E args \in CreateArgs : CreateEnclave(g, args)
        \/ \E e \in Eids : DestroyEnclave(g, e) \/ RunEnclave(g, e) \/ ResumeEnclave(g, e)
        \/ StopEnclave(g) \/ ExitEnclave(g)
        \/ Create(g) \/ Destroy(g) \/ Switch(g)
        \/ \E src \in Harts : PmpIpi(g, src)
        \/ \E p \in Pages : HostWrite(g, p) \/ EnclaveWrite(g, p)
    BY <1>5 DEF Next, Monitor
  <2>2. CASE \E p \in Pages : HostWrite(g, p) \/ EnclaveWrite(g, p)
    BY <1>1, <2>2 DEF HostWrite, EnclaveWrite
  <2> QED BY <1>2, <1>3, <1>4, <2>1, <2>2, NoIpiSteps
<1> QED BY <1>1, <1>5 DEF vars

\* A step of hart g that works on d leaves the other enclaves' leavers alone.
LEMMA CoverStep ==
    ASSUME TypeInv, LeaveInv, NEW g \in Harts, NEW d \in Eids, OnlyHart(g),
           \A h \in Harts : h # g => ipi'[h] = ipi[h],
           \A e \in Eids : e # d => enclaves'[e].state = enclaves[e].state,
           pc[g] \in BLabels => EidOf(g) = d, pc'[g] \in BLabels => EidOf(g)' = d,
           \A e \in Eids : Leaving(g, e)' => Leaving(g, e),
           \A h \in Harts : Leaving(h, d) => Cover(h, d)'
    PROVE  LeaveInv'
<1>1. \A h \in Harts, e \in Eids : Leaving(h, e)' => Leaving(h, e)
  BY DEF OnlyHart, Leaving
<1>2. ASSUME NEW h \in Harts, NEW e \in Eids, Leaving(h, e), e # d PROVE Cover(h, e)'
  <2>1. Cover(h, e)
    BY <1>2, LeaveForm
  <2>2. CASE enclaves[e].state = STOPPED
    BY <1>2, <2>2 DEF Cover
  <2>3. ASSUME NEW k \in Harts, frame[k].eid = e,
               pc[k] \in Early \/ (pc[k] = "d_free" /\ h \in ipi[k].todo)
        PROVE  Cover(h, e)'
    <3>1. k # g
      BY <1>2, <2>3, EarlyLabels DEF EidOf
    <3>2. pc'[k] = pc[k] /\ frame'[k] = frame[k] /\ ipi'[k] = ipi[k]
      BY <3>1 DEF OnlyHart
    <3> QED BY <2>3, <3>2 DEF Cover
  <2> QED BY <2>1, <2>2, <2>3 DEF Cover
<1>3. \A h \in Harts, e \in Eids : Leaving(h, e)' => Cover(h, e)'
  BY <1>1, <1>2
<1>4. \A k, h \in Harts, e \in Eids : Leaving(k, e)' /\ Leaving(h, e)' => k = h
  BY <1>1, LeaveForm
<1>5. LeaveInv' <=> /\ \A h \in Harts, e \in Eids : Leaving(h, e)' => Cover(h, e)'
                    /\ \A k, h \in Harts, e \in Eids : Leaving(k, e)' /\ Leaving(h, e)' => k = h
  BY DEF LeaveInv, Cover, Early
<1> QED BY <1>3, <1>4, <1>5

\* Creating an enclave concerns none that a hart is leaving.
LEMMA LeaveCreate ==
    ASSUME SerialHost, TypeInv, RunInv, LeaveInv, NEW g \in Harts,
           Create(g) \/ \E args \in CreateArgs : CreateEnclave(g, args)
    PROVE  LeaveInv'
<1>1. ASSUME NEW d \in Eids, OnlyHart(g), \A h \in Harts : h # g => ipi'[h] = ipi[h],
             \A e \in Eids : e # d => enclaves'[e].state = enclaves[e].state,
             pc[g] \in BLabels => EidOf(g) = d, pc'[g] \in BLabels => EidOf(g)' = d,
             enclaves[d].state \in {INVALID, ALLOCATED}, pc'[g] \notin {"x_pmp", "x_swap"}
      PROVE  LeaveInv'
  <2>1. \A h \in Harts : ~Leaving(h, d)
    BY SMTT(30), <1>1, NoLeaver DEF INVALID, ALLOCATED, STOPPED, DESTROYING
  <2>2. \A e \in Eids : ~Leaving(g, e)'
    BY <1>1 DEF Leaving
  <2> QED BY <1>1, <2>1, <2>2, CoverStep
<1>2. ASSUME NEW args \in CreateArgs, CreateEnclave(g, args) PROVE LeaveInv'
  <2>1. PICK d \in Eids : /\ d = EidOf(g)' /\ EncOthers(d) /\ enclaves[d].state = INVALID
                          /\ OnlyHart(g) /\ pc[g] = "host" /\ pc'[g] = "c_epm"
    BY <1>2, CreateEnclaveEffect
  <2>2. ipi' = ipi
    BY <1>2, CallTouches
  <2>3. pc[g] \notin BLabels
    BY <2>1, HeldFacts
  <2>4. \A e \in Eids : e # d => enclaves'[e].state = enclaves[e].state
    BY <2>1 DEF EncOthers
  <2> QED BY <1>1, <2>1, <2>2, <2>3, <2>4
<1>3. ASSUME Create(g) PROVE LeaveInv'
  <2>1. PICK d \in Eids : d = EidOf(g)
    BY Shapes
  <2>2. \A h \in Harts : h # g => ipi'[h] = ipi[h]
    BY <1>3, NoIpiSteps, SendEffect DEF NoIpiStep
  <2>3. /\ OnlyHart(g) /\ pc[g] \in CLabels
        /\ \A e \in Eids : e # d => enclaves'[e].state = enclaves[e].state
        /\ \/ pc'[g] \in CLabels /\ frame'[g].eid = frame[g].eid
           \/ pc'[g] = "host"
    BY <1>3, <2>1, CreateSteps DEF Keeps, Returns, State, EidOf
  <2>4. enclaves[d].state = ALLOCATED
    BY <2>1, <2>3, CallNotAlive DEF State
  <2>5. pc'[g] \notin {"x_pmp", "x_swap"} /\ (pc'[g] \in BLabels => EidOf(g)' = d)
    BY <2>1, <2>3, LabelFacts, HeldFacts DEF EidOf
  <2> QED BY <1>1, <2>1, <2>2, <2>3, <2>4, <2>5
<1> QED BY <1>2, <1>3

\* A destroy does not get beyond its IPIs while a hart is leaving.
LEMMA LeaveDestroy ==
    ASSUME SerialHost, TypeInv, RunInv, OwnInv, LeaveInv, NEW g \in Harts,
           Destroy(g) \/ \E d \in Eids : DestroyEnclave(g, d)
    PROVE  LeaveInv'
<1>1. ASSUME NEW d \in Eids, DestroyEnclave(g, d) PROVE LeaveInv'
  <2>1. /\ OnlyHart(g) /\ pc[g] = "host" /\ pc'[g] = "d_read" /\ EidOf(g)' = d
        /\ ipi' = ipi /\ EncOthers(d)
    BY <1>1, DestroyEnclaveEffect
  <2>2. \A h \in Harts : Cover(h, d)'
    BY <2>1 DEF Cover, Early, EidOf
  <2>3. pc[g] \notin BLabels
    BY <2>1, HeldFacts
  <2>4. \A e \in Eids : ~Leaving(g, e)'
    BY <2>1 DEF Leaving
  <2>5. \A e \in Eids : e # d => enclaves'[e].state = enclaves[e].state
    BY <2>1 DEF EncOthers
  <2> QED BY <2>1, <2>2, <2>3, <2>4, <2>5, CoverStep
<1>2. ASSUME Destroy(g) PROVE LeaveInv'
  <2>1. PICK d \in Eids : d = EidOf(g)
    BY Shapes
  <2>2. \A h \in Harts : h # g => ipi'[h] = ipi[h]
    BY <1>2, NoIpiSteps, SendEffect DEF NoIpiStep
  <2>3. /\ OnlyHart(g) /\ pc[g] \in DLabels
        /\ \A e \in Eids : e # d => enclaves'[e].state = enclaves[e].state
        /\ \/ pc'[g] \in DLabels /\ frame'[g].eid = frame[g].eid
           \/ pc'[g] = "host"
    BY <1>2, <2>1, DestroySteps DEF Keeps, Returns, State, EidOf
  <2>4. enclaves[d].state = DESTROYING
    BY <2>1, <2>3, CallNotAlive DEF State
  <2>5. pc'[g] \notin {"x_pmp", "x_swap"} /\ (pc'[g] \in BLabels => EidOf(g)' = d)
    BY <2>1, <2>3, LabelFacts, HeldFacts DEF EidOf
  <2>6. \A e \in Eids : ~Leaving(g, e)'
    BY <2>5 DEF Leaving
  <2>7. ASSUME \A h \in Harts : Leaving(h, d) => Cover(h, d)' PROVE LeaveInv'
    BY <2>1, <2>2, <2>3, <2>5, <2>6, <2>7, CoverStep
  <2>8. CASE DestroyRead(g) \/ DestroyZero(g)
    <3>1. pc'[g] \in Early /\ frame'[g].eid = d
      <4>1. CASE DestroyZero(g)
        BY <2>1, <4>1, CallMoves DEF Moves, Early, EidOf
      <4>2. CASE DestroyRead(g)
        <5>1. pc[g] = "d_read" /\ frame[g].eid = d
          BY <2>1, <4>2 DEF DestroyRead, EidOf
        <5>2. Has(d, "epm", enclaves[d].epm, enclaves[d].params)
          BY <5>1, QuietMoves DEF Has, OwnRegion, Kinds
        <5>3. enclaves[d].epm \in region_def_bitmap
          BY <5>2, Shapes DEF OwnInv, Backed, Holding, Kinds
        <5>4. PICK rid : rid = enclaves[EidOf(g)].epm
          OBVIOUS
        <5>5. is_pmp_region_valid(rid) /\ rid # NoRegion
          BY SMTT(30), <2>1, <5>3, <5>4 DEF is_pmp_region_valid, NoRegion, TypeInv, PMPTypeOK,
             RegionIds
        <5> QED BY <2>1, <4>2, <5>4, <5>5, DestroyReadEffect DEF Early, EidOf
      <4> QED BY <2>8, <4>1, <4>2
    <3> QED BY <2>7, <3>1 DEF Cover
  <2>9. CASE DestroyUnset(g)
    <3>1. pc[g] = "d_unset" /\ frame[g].eid = d
      BY <2>1, <2>9 DEF DestroyUnset, EidOf
    <3>2. Has(d, "epm", enclaves[d].epm, enclaves[d].params)
      BY <3>1, QuietMoves DEF Has, OwnRegion, Kinds
    <3>3. is_pmp_region_valid(frame[g].region)
      BY <3>1, <3>2, Shapes DEF OwnInv, Backed, Holding, Kinds, LookedUp, is_pmp_region_valid
    <3>4. pc'[g] = "d_free" /\ frame'[g].eid = d /\ ipi'[g].todo = Harts
      BY <2>9, <3>1, <3>3, SendEffect DEF Sends
    <3> QED BY <2>7, <3>4 DEF Cover
  <2>10. CASE DestroyFree(g) \/ DestroyUtm(g) \/ DestroyClear(g) \/ DestroyFreeEid(g)
    <3>1. /\ pc[g] \in {"d_free", "d_utm", "d_clear", "d_eid"}
          /\ pc[g] = "d_free" => Synced(g)
      BY <2>10 DEF DestroyFree, DestroyUtm, DestroyClear, DestroyFreeEid
    <3>2. pc[g] \in DLabels \ Early /\ frame[g].eid = d
      BY <2>1, <3>1 DEF DLabels, Early, EidOf
    <3>3. enclaves[d].state # STOPPED
      BY SMTT(30), <2>4 DEF DESTROYING, STOPPED
    <3>4. \A h \in Harts : ~Leaving(h, d)
      BY <3>1, <3>2, <3>3, NoLeaver
    <3> QED BY <2>7, <3>4
  <2> QED BY <1>2, <2>8, <2>9, <2>10 DEF Destroy
<1> QED BY <1>1, <1>2

\* While hart g leaves d, no hart is inside d.
LEMMA LeaverAlone ==
    ASSUME RunInv, LeaveInv, NEW g \in Harts, NEW d \in Eids, Leaving(g, d)
    PROVE  /\ enclaves[d].state \in {STOPPED, DESTROYING}
           /\ \A h \in Harts : ~(pc[h] \in ELabels /\ frame[h].eid = d)
           /\ \A h \in Harts : Leaving(h, d) => h = g
<1>1. Cover(g, d)
  BY LeaveForm
<1>2. enclaves[d].state \in {STOPPED, DESTROYING}
  <2>1. ASSUME NEW k \in Harts, frame[k].eid = d, pc[k] \in Early \/ pc[k] = "d_free"
        PROVE  enclaves[d].state = DESTROYING
    BY <2>1, EarlyLabels, HeldFacts DEF Busy, RunInv, Holds, State
  <2> QED BY <1>1, <2>1 DEF Cover
<1>3. ASSUME NEW h \in Harts, pc[h] \in ELabels, frame[h].eid = d PROVE FALSE
  <2>1. State(d) = RUNNING
    BY <1>3, HeldFacts DEF Busy, RunInv, Holds
  <2> QED BY SMTT(30), <1>2, <2>1 DEF State, STOPPED, DESTROYING, RUNNING
<1> QED BY <1>2, <1>3, LeaveForm

\* One hart at a time enters and leaves an enclave.
LEMMA LeaveSwitch ==
    ASSUME SerialHost, TypeInv, RunInv, LeaveInv, NEW g \in Harts,
           \/ \E d \in Eids : RunEnclave(g, d) \/ ResumeEnclave(g, d)
           \/ StopEnclave(g) \/ ExitEnclave(g) \/ Switch(g)
    PROVE  LeaveInv'
<1>1. ASSUME NEW d \in Eids, RunEnclave(g, d) \/ ResumeEnclave(g, d) PROVE LeaveInv'
  <2>1. /\ OnlyHart(g) /\ pc[g] = "host" /\ EidOf(g)' = d /\ ipi' = ipi /\ EncOthers(d)
        /\ \A h \in Harts : ~Switching(h, d)
        /\ pc'[g] \in {"e_load", "e_swap"}
    BY <1>1, EnterEffect
  <2>2. \A h \in Harts : ~Leaving(h, d)
    BY <2>1 DEF Leaving, Switching
  <2>3. pc[g] \notin BLabels
    BY <2>1, HeldFacts
  <2>4. \A e \in Eids : ~Leaving(g, e)'
    BY <2>1 DEF Leaving
  <2>5. \A e \in Eids : e # d => enclaves'[e].state = enclaves[e].state
    BY <2>1 DEF EncOthers
  <2> QED BY <2>1, <2>2, <2>3, <2>4, <2>5, CoverStep
<1>2. PICK d \in Eids : d = EidOf(g)
  BY Shapes
<1>3. ASSUME StopEnclave(g) \/ ExitEnclave(g) PROVE LeaveInv'
  <2>1. /\ OnlyHart(g) /\ pc[g] = "enclave" /\ pc'[g] = "x_pmp" /\ frame'[g].eid = d
        /\ ipi' = ipi /\ EncOthers(d)
        /\ enclaves[d].state = RUNNING /\ enclaves'[d].state = STOPPED
    BY ZenonT(40), <1>2, <1>3, LeaveEffect DEF EidOf
  <2>2. \A h \in Harts : ~Leaving(h, d)
    BY SMTT(30), <2>1, NoLeaver DEF RUNNING, STOPPED, DESTROYING
  <2>3. ASSUME NEW h \in Harts, NEW e \in Eids, Leaving(h, e)'
        PROVE  (h = g /\ e = d) \/ (h # g /\ e # d /\ Leaving(h, e))
    BY <2>1, <2>2, <2>3 DEF Leaving, OnlyHart
  <2>4. ASSUME NEW h \in Harts, NEW e \in Eids, h # g, e # d, Leaving(h, e) PROVE Cover(h, e)'
    <3>1. Cover(h, e)
      BY <2>4, LeaveForm
    <3>2. enclaves'[e].state = enclaves[e].state
      BY <2>1, <2>4 DEF EncOthers
    <3>3. \A k \in Harts : pc[k] \in Early \/ pc[k] = "d_free" =>
                              pc'[k] = pc[k] /\ frame'[k] = frame[k]
      BY <2>1 DEF OnlyHart, Early
    <3> QED BY <2>1, <3>1, <3>2, <3>3 DEF Cover
  <2>5. Cover(g, d)'
    BY <2>1 DEF Cover
  <2>6. \A h \in Harts, e \in Eids : Leaving(h, e)' => Cover(h, e)'
    BY <2>3, <2>4, <2>5
  <2>7. \A k, h \in Harts, e \in Eids : Leaving(k, e)' /\ Leaving(h, e)' => k = h
    BY <2>3, LeaveForm
  <2> QED BY <2>6, <2>7 DEF LeaveInv, Cover, Early
<1>4. ASSUME OnlyHart(g), ipi' = ipi, \A e \in Eids : enclaves'[e].state = enclaves[e].state,
             pc[g] \in ELabels \cup {"x_pmp", "x_swap"}, pc'[g] \in ELabels \cup {"host", "x_swap"},
             pc'[g] \in ELabels \/ pc'[g] = "x_swap" => frame' = frame,
             pc'[g] \in ELabels => pc[g] \in ELabels, pc'[g] = "x_swap" => pc[g] = "x_pmp"
      PROVE  LeaveInv'
  <2>1. \A h \in Harts, e \in Eids : Leaving(h, e)' => Leaving(h, e)
    BY <1>4 DEF Leaving, OnlyHart, ELabels
  <2>2. \A k \in Harts : pc[k] \in Early \/ pc[k] = "d_free" =>
                            pc'[k] = pc[k] /\ frame'[k] = frame[k]
    BY <1>4 DEF OnlyHart, Early, ELabels
  <2>3. \A h \in Harts, e \in Eids : Cover(h, e) => Cover(h, e)'
    BY <1>4, <2>2 DEF Cover
  <2>4. \A h \in Harts, e \in Eids : Leaving(h, e)' => Cover(h, e)'
    BY <2>1, <2>3, LeaveForm
  <2>5. \A k, h \in Harts, e \in Eids : Leaving(k, e)' /\ Leaving(h, e)' => k = h
    BY <2>1, LeaveForm
  <2> QED BY <2>4, <2>5 DEF LeaveInv, Cover, Early
<1>5. ASSUME Switch(g) PROVE LeaveInv'
  <2>1. CASE SwapToEnclave(g) \/ SwapToHost(g)
    <3>1. /\ OnlyHart(g) /\ ipi' = ipi /\ SameTable
          /\ \/ pc[g] \in {"e_load", "e_swap"} /\ pc'[g] = "e_pmp" /\ frame' = frame
             \/ pc[g] = "x_swap" /\ pc'[g] = "host"
      BY <2>1, SwapEffect
    <3> QED BY <1>4, <3>1 DEF SameTable, ELabels
  <2>2. CASE PmpToEnclave(g) \/ PmpToHost(g)
    <3>1. /\ OnlyHart(g) /\ ipi' = ipi /\ enclaves' = enclaves /\ frame' = frame
          /\ \/ pc[g] = "e_pmp" /\ pc'[g] = "enclave"
             \/ pc[g] = "x_pmp" /\ pc'[g] = "x_swap"
      BY <2>2, PmpEffect
    <3> QED BY <1>4, <3>1 DEF ELabels
  <2> QED BY <1>5, <2>1, <2>2 DEF Switch
<1> QED BY <1>1, <1>3, <1>5

\* Every step of the monitor keeps LeaveInv.
LEMMA LeaveStep ==
    ASSUME SerialHost, TypeInv, RunInv, OwnInv, IpiInv, LeaveInv, [Next]_vars
    PROVE  LeaveInv'
<1>1. ASSUME UNCHANGED <<pc, frame, enclaves, ipi>> PROVE LeaveInv'
  BY ZenonT(40), <1>1 DEF LeaveInv, Leaving
<1>2. ASSUME NEW g \in Harts, NEW src \in Harts, PmpIpi(g, src) PROVE LeaveInv'
  <2>1. UNCHANGED <<pc, frame, enclaves>> /\ Interruptible(g)
        /\ \A h, k \in Harts : h # g /\ h \in ipi[k].todo => h \in ipi'[k].todo
    BY ZenonT(40), <1>2, IpiEffect
  <2>2. \A e \in Eids : ~Leaving(g, e)
    BY <2>1 DEF Interruptible, IpiInv, Leaving
  <2>3. \A h \in Harts, e \in Eids : Leaving(h, e)' <=> Leaving(h, e)
    BY <2>1 DEF Leaving
  <2>4. \A h \in Harts, e \in Eids : Leaving(h, e) => Cover(h, e)'
    BY SMTT(30), <2>1, <2>2, LeaveForm DEF Cover
  <2>5. \A h \in Harts, e \in Eids : Leaving(h, e)' => Cover(h, e)'
    BY <2>3, <2>4
  <2>6. \A k, h \in Harts, e \in Eids : Leaving(k, e)' /\ Leaving(h, e)' => k = h
    BY <2>3, LeaveForm
  <2> QED BY <2>5, <2>6 DEF LeaveInv, Cover, Early
<1>3. CASE Next
  BY <1>1, <1>2, <1>3, LeaveCreate, LeaveDestroy, LeaveSwitch
     DEF Next, Monitor, HostWrite, EnclaveWrite
<1> QED BY <1>1, <1>3 DEF vars

(***************************************************************************)
(* Which context is loaded and which one is saved.                         *)
(***************************************************************************)
\* What CtxInv says of one hart and of one enclave.
CtxHart(h) ==
    /\ pc[h] \in Swapped => /\ regs[h] = EnclaveCtx(frame[h].eid)
                            /\ enclaves[frame[h].eid].thread = HostCtx(h)
    /\ pc[h] \notin Swapped => regs[h] = HostCtx(h)
    /\ pc[h] = "e_swap" => enclaves[frame[h].eid].thread = EnclaveCtx(frame[h].eid)

CtxEnc(e) == enclaves[e].state = STOPPED /\ (\A h \in Harts : ~Leaving(h, e)) =>
                 enclaves[e].thread = EnclaveCtx(e)

\* CtxInv, hart by hart and enclave by enclave.
LEMMA CtxForm == CtxInv <=> (\A h \in Harts : CtxHart(h)) /\ (\A e \in Eids : CtxEnc(e))
  BY DEF CtxInv, CtxHart, CtxEnc

\* A step of hart g that works on d keeps what the other harts and the other enclaves have.
LEMMA CtxStep ==
    ASSUME TypeInv, CtxInv, NEW g \in Harts, NEW d \in Eids, OnlyHart(g),
           \A h \in Harts : h # g => regs'[h] = regs[h],
           \A e \in Eids : e # d => enclaves'[e].thread = enclaves[e].thread
                                    /\ enclaves'[e].state = enclaves[e].state,
           pc'[g] \in {"x_pmp", "x_swap"} => EidOf(g)' = d,
           pc[g] \in {"x_pmp", "x_swap"} => EidOf(g) = d,
           \/ enclaves'[d].thread = enclaves[d].thread
           \/ \A h \in Harts : h # g => ~Switching(h, d),
           CtxHart(g)', CtxEnc(d)'
    PROVE  CtxInv'
<1>1. ASSUME NEW h \in Harts, h # g PROVE CtxHart(h)'
  <2>1. pc'[h] = pc[h] /\ frame'[h] = frame[h] /\ regs'[h] = regs[h]
    BY <1>1 DEF OnlyHart
  <2>2. PICK e \in Eids : e = frame[h].eid
    BY Shapes DEF EidOf
  <2>3. CtxHart(h)
    BY CtxForm
  <2>4. pc[h] \in Swapped \/ pc[h] = "e_swap" => enclaves'[e].thread = enclaves[e].thread
    <3>1. pc[h] \in Swapped \/ pc[h] = "e_swap" => Switching(h, e)
      BY <2>2 DEF Swapped, Switching
    <3> QED BY <1>1, <3>1
  <2> QED BY <2>1, <2>2, <2>3, <2>4 DEF CtxHart
<1>2. ASSUME NEW e \in Eids, e # d PROVE CtxEnc(e)'
  <2>1. \A h \in Harts : Leaving(h, e)' <=> Leaving(h, e)
    BY SMTT(30), <1>2 DEF Leaving, OnlyHart, EidOf
  <2>2. CtxEnc(e)
    BY CtxForm
  <2> QED BY <1>2, <2>1, <2>2 DEF CtxEnc
<1>3. (\A h \in Harts : CtxHart(h)') /\ (\A e \in Eids : CtxEnc(e)')
  BY <1>1, <1>2
<1> QED BY <1>3 DEF CtxInv, CtxHart, CtxEnc

\* A step of a call of create or destroy, and run, load nothing.
LEMMA CtxCall ==
    ASSUME TypeInv, CtxInv, NEW g \in Harts, NEW d \in Eids, OnlyHart(g), regs' = regs,
           \A e \in Eids : e # d => enclaves'[e].thread = enclaves[e].thread
                                    /\ enclaves'[e].state = enclaves[e].state,
           pc[g] \notin Swapped, pc'[g] \notin Swapped, pc'[g] # "e_swap",
           enclaves'[d].state # STOPPED,
           \/ enclaves'[d].thread = enclaves[d].thread
           \/ \A h \in Harts : h # g => ~Switching(h, d)
    PROVE  CtxInv'
<1>1. CtxHart(g)'
  <2>1. CtxHart(g)
    BY CtxForm
  <2> QED BY <2>1 DEF CtxHart
<1>2. CtxEnc(d)'
  BY DEF CtxEnc
<1>3. pc[g] \notin {"x_pmp", "x_swap"} /\ pc'[g] \notin {"x_pmp", "x_swap"}
  BY DEF Swapped
<1> QED BY <1>1, <1>2, <1>3, CtxStep

\* create and destroy save no context; create_enclave clears one, that nobody uses.
LEMMA ThreadsKept ==
    ASSUME TypeInv, NEW g \in Harts, Create(g) \/ Destroy(g)
    PROVE  /\ \A e \in Eids : e # EidOf(g) => enclaves'[e].thread = enclaves[e].thread
           /\ ~CreateMeta(g) => enclaves'[EidOf(g)].thread = enclaves[EidOf(g)].thread
<1>1. PICK d \in Eids : d = EidOf(g)
  BY Shapes
<1>2. CASE CreateMeta(g)
  BY <1>1, <1>2, CreateMetaEffect DEF EncOthers
<1>3. CASE CreateHash(g) \/ CreateFreeEid(g) \/ DestroyFreeEid(g)
  BY <1>1, <1>3, CreateHashEffect, FreeEidEffect DEF EncOthers, SameBody
<1>4. CASE DestroyClear(g)
  BY <1>1, <1>4, DestroyClearEffect DEF EncOthers
<1>5. ASSUME \/ CreateEpm(g) \/ CreateUtm(g) \/ CreateSet(g) \/ CreateUnset(g)
             \/ CreateFreeUtm(g) \/ CreateFreeEpm(g) \/ DestroyRead(g) \/ DestroyZero(g)
             \/ DestroyUnset(g) \/ DestroyFree(g) \/ DestroyUtm(g)
      PROVE  enclaves' = enclaves
  BY <1>5 DEF CreateEpm, CreateUtm, CreateSet, CreateUnset, CreateFreeUtm, CreateFreeEpm,
              DestroyRead, DestroyZero, DestroyUnset, DestroyFree, DestroyUtm
<1> QED BY <1>1, <1>2, <1>3, <1>4, <1>5 DEF Create, Destroy

\* Creating and destroying an enclave touches no context that is in use.
LEMMA CtxCalls ==
    ASSUME SerialHost, TypeInv, RunInv, LeaveInv, CtxInv, NEW g \in Harts,
           \/ Create(g) \/ Destroy(g)
           \/ \E args \in CreateArgs : CreateEnclave(g, args)
           \/ \E d \in Eids : DestroyEnclave(g, d)
    PROVE  CtxInv'
<1>1. \A l \in CLabels \cup DLabels \cup {"host"} : l \notin Swapped /\ l # "e_swap"
  BY DEF CLabels, DLabels, Swapped
<1>2. STOPPED \notin {INVALID, ALLOCATED, FRESH, DESTROYING}
  BY SMTT(30) DEF INVALID, ALLOCATED, FRESH, DESTROYING, STOPPED
<1>3. ASSUME NEW args \in CreateArgs, CreateEnclave(g, args) PROVE CtxInv'
  <2>1. PICK d \in Eids : d = EidOf(g)'
    BY <1>3, CreateEnclaveEffect
  <2>2. /\ OnlyHart(g) /\ pc[g] = "host" /\ pc'[g] = "c_epm" /\ EncOthers(d)
        /\ enclaves'[d].state = ALLOCATED /\ enclaves'[d].thread = enclaves[d].thread
        /\ regs' = regs
    BY <1>3, <2>1, CreateEnclaveEffect, CallTouches
  <2>3. pc[g] \notin Swapped /\ pc'[g] \notin Swapped /\ pc'[g] # "e_swap"
    BY <2>2 DEF Swapped
  <2> QED BY <1>2, <2>2, <2>3, CtxCall DEF EncOthers
<1>4. ASSUME NEW d \in Eids, DestroyEnclave(g, d) PROVE CtxInv'
  <2>1. /\ OnlyHart(g) /\ pc[g] = "host" /\ pc'[g] = "d_read" /\ EncOthers(d)
        /\ enclaves'[d].state = DESTROYING /\ enclaves'[d].thread = enclaves[d].thread
        /\ regs' = regs
    BY <1>4, DestroyEnclaveEffect, CallTouches DEF SameBody
  <2>2. pc[g] \notin Swapped /\ pc'[g] \notin Swapped /\ pc'[g] # "e_swap"
    BY <2>1 DEF Swapped
  <2> QED BY <1>2, <2>1, <2>2, CtxCall DEF EncOthers
<1>5. ASSUME Create(g) \/ Destroy(g) PROVE CtxInv'
  <2>1. PICK d \in Eids : d = EidOf(g)
    BY Shapes
  <2>2. /\ OnlyHart(g) /\ pc[g] \in CLabels \cup DLabels
        /\ pc'[g] \in CLabels \cup DLabels \cup {"host"}
        /\ \A e \in Eids : e # d => enclaves'[e].state = enclaves[e].state
        /\ enclaves'[d].state \in {enclaves[d].state, FRESH, INVALID}
    BY <1>5, <2>1, CreateSteps, DestroySteps DEF Keeps, Returns, State, EidOf
  <2>3. enclaves[d].state \in {ALLOCATED, DESTROYING}
    BY <2>1, <2>2, CallNotAlive DEF State
  <2>4. enclaves'[d].state # STOPPED
    BY <1>2, <2>2, <2>3
  <2>5. \/ enclaves'[d].thread = enclaves[d].thread
        \/ \A h \in Harts : h # g => ~Switching(h, d)
    <3>1. CASE CreateMeta(g)
      <4>1. pc[g] \in CLabels
        BY <3>1 DEF CreateMeta, CLabels
      <4>2. enclaves[d].state = ALLOCATED /\ Busy(g, d)
        BY <2>1, <4>1, CallNotAlive DEF State, Busy, EidOf
      <4>3. \A h \in Harts : ~Leaving(h, d)
        BY SMTT(30), <4>2, NoLeaver DEF ALLOCATED, STOPPED, DESTROYING
      <4>4. \A h \in Harts : Busy(h, d) => h = g
        BY <4>2 DEF RunInv, Alone
      <4>5. \A h \in Harts : Switching(h, d) => Leaving(h, d) \/ Busy(h, d)
        BY LabelFacts DEF Switching, Leaving, Busy
      <4> QED BY <4>3, <4>4, <4>5
    <3>2. CASE ~CreateMeta(g)
      BY <1>5, <2>1, <3>2, ThreadsKept
    <3> QED BY <3>1, <3>2
  <2>6. regs' = regs /\ \A e \in Eids : e # d => enclaves'[e].thread = enclaves[e].thread
    BY <1>5, <2>1, StepTouches, ThreadsKept
  <2>7. pc[g] \notin Swapped /\ pc'[g] \notin Swapped /\ pc'[g] # "e_swap"
    BY <1>1, <2>2
  <2> QED BY <2>2, <2>4, <2>5, <2>6, <2>7, CtxCall
<1> QED BY <1>3, <1>4, <1>5

\* Entering and leaving swap the two contexts, and each comes back to its owner.
LEMMA CtxSwitch ==
    ASSUME SerialHost, TypeInv, RunInv, LeaveInv, CtxInv, NEW g \in Harts,
           \/ \E d \in Eids : RunEnclave(g, d) \/ ResumeEnclave(g, d)
           \/ StopEnclave(g) \/ ExitEnclave(g) \/ Switch(g)
    PROVE  CtxInv'
<1>1. ASSUME NEW d \in Eids, RunEnclave(g, d) \/ ResumeEnclave(g, d) PROVE CtxInv'
  <2>1. /\ OnlyHart(g) /\ pc[g] = "host" /\ EidOf(g)' = d /\ EncOthers(d)
        /\ \A h \in Harts : ~Switching(h, d)
        /\ enclaves'[d].thread = enclaves[d].thread /\ enclaves'[d].state = RUNNING
        /\ regs' = regs
        /\ \/ pc'[g] = "e_load"
           \/ pc'[g] = "e_swap" /\ enclaves[d].state = STOPPED
    BY <1>1, EnterEffect, CallTouches DEF SameBody
  <2>2. \A h \in Harts : ~Leaving(h, d)
    BY <2>1 DEF Leaving, Switching
  <2>3. pc'[g] = "e_swap" => enclaves[d].thread = EnclaveCtx(d)
    BY <2>1, <2>2, CtxForm DEF CtxEnc
  <2>4. regs[g] = HostCtx(g)
    BY <2>1, CtxForm DEF CtxHart, Swapped
  <2>5. CtxHart(g)'
    BY ZenonT(40), <2>1, <2>3, <2>4 DEF CtxHart, Swapped, EidOf
  <2>6. CtxEnc(d)'
    BY SMTT(30), <2>1 DEF CtxEnc, RUNNING, STOPPED
  <2> QED BY <2>1, <2>5, <2>6, CtxStep DEF EncOthers
<1>2. PICK d \in Eids : d = EidOf(g)
  BY Shapes
<1>3. ASSUME StopEnclave(g) \/ ExitEnclave(g) PROVE CtxInv'
  <2>1. /\ OnlyHart(g) /\ pc[g] = "enclave" /\ pc'[g] = "x_pmp" /\ EidOf(g)' = d /\ EncOthers(d)
        /\ enclaves'[d].thread = enclaves[d].thread /\ regs' = regs
    BY <1>2, <1>3, LeaveEffect, CallTouches DEF SameBody
  <2>2. CtxHart(g)'
    BY <1>2, <2>1, CtxForm DEF CtxHart, Swapped, EidOf
  <2>3. CtxEnc(d)'
    BY <2>1 DEF CtxEnc, Leaving, EidOf
  <2> QED BY <2>1, <2>2, <2>3, CtxStep DEF EncOthers
<1>4. ASSUME PmpToEnclave(g) \/ PmpToHost(g) PROVE CtxInv'
  <2>1. /\ OnlyHart(g) /\ enclaves' = enclaves /\ regs' = regs /\ frame' = frame
        /\ \/ pc[g] = "e_pmp" /\ pc'[g] = "enclave"
           \/ pc[g] = "x_pmp" /\ pc'[g] = "x_swap"
    BY <1>4, PmpEffect
  <2>2. CtxHart(g)'
    BY <2>1, CtxForm DEF CtxHart, Swapped
  <2>3. Leaving(g, d)' <=> Leaving(g, d)
    BY <2>1 DEF Leaving
  <2>4. CtxEnc(d)'
    <3>1. \A h \in Harts : Leaving(h, d)' <=> Leaving(h, d)
      BY <2>1, <2>3 DEF Leaving, OnlyHart
    <3> QED BY ZenonT(40), <2>1, <3>1, CtxForm DEF CtxEnc
  <2>5. EidOf(g)' = d /\ EidOf(g) = d
    BY <1>2, <2>1 DEF EidOf
  <2> QED BY <2>1, <2>2, <2>4, <2>5, CtxStep
<1>5. ASSUME SwapToEnclave(g) PROVE CtxInv'
  <2>1. pc[g] \in {"e_load", "e_swap"}
    BY <1>5 DEF SwapToEnclave
  <2>2. /\ OnlyHart(g) /\ SameTable /\ EncOthers(d) /\ enclaves'[d].thread = regs[g]
        /\ \A h \in Harts : h # g => regs'[h] = regs[h]
        /\ pc'[g] = "e_pmp" /\ frame' = frame
        /\ regs'[g] = IF pc[g] = "e_load" THEN EnclaveCtx(d) ELSE enclaves[d].thread
    BY <1>2, <1>5, <2>1, SwapEffect
  <2>3. regs'[g] = EnclaveCtx(d) /\ regs[g] = HostCtx(g)
    BY <1>2, <2>1, <2>2, CtxForm DEF CtxHart, Swapped, EidOf
  <2>4. Busy(g, d) /\ enclaves[d].state = RUNNING
    BY SMTT(30), <1>2, <2>1, LabelFacts, HeldFacts DEF Busy, RunInv, Holds, State, EidOf
  <2>5. \A h \in Harts : ~Leaving(h, d)
    BY SMTT(30), <2>4, NoLeaver DEF RUNNING, STOPPED, DESTROYING
  <2>6. \A h \in Harts : Switching(h, d) => Leaving(h, d) \/ Busy(h, d)
    BY LabelFacts DEF Switching, Leaving, Busy
  <2>7. \A h \in Harts : h # g => ~Switching(h, d)
    BY <2>4, <2>5, <2>6 DEF RunInv, Alone
  <2>8. CtxHart(g)'
    BY ZenonT(40), <1>2, <2>2, <2>3 DEF CtxHart, Swapped, EidOf
  <2>9. CtxEnc(d)'
    BY SMTT(30), <2>2, <2>4 DEF CtxEnc, SameTable, RUNNING, STOPPED
  <2> QED BY <1>2, <2>1, <2>2, <2>7, <2>8, <2>9, CtxStep DEF EncOthers
<1>6. ASSUME SwapToHost(g) PROVE CtxInv'
  <2>1. pc[g] = "x_swap"
    BY <1>6 DEF SwapToHost
  <2>2. /\ OnlyHart(g) /\ SameTable /\ EncOthers(d) /\ enclaves'[d].thread = regs[g]
        /\ \A h \in Harts : h # g => regs'[h] = regs[h]
        /\ pc'[g] = "host" /\ regs'[g] = enclaves[d].thread
    BY <1>2, <1>6, <2>1, SwapEffect
  <2>3. regs[g] = EnclaveCtx(d) /\ enclaves[d].thread = HostCtx(g)
    BY <1>2, <2>1, CtxForm DEF CtxHart, Swapped, EidOf
  <2>4. Leaving(g, d)
    BY <1>2, <2>1 DEF Leaving, EidOf
  <2>5. \A h \in Harts : Switching(h, d) => Leaving(h, d) \/ (pc[h] \in ELabels /\ frame[h].eid = d)
    BY LabelFacts DEF Switching, Leaving
  <2>6. \A h \in Harts : h # g => ~Switching(h, d)
    BY <2>4, <2>5, LeaverAlone
  <2>7. CtxHart(g)'
    BY <2>2, <2>3 DEF CtxHart, Swapped
  <2>8. CtxEnc(d)'
    BY <2>2, <2>3 DEF CtxEnc
  <2> QED BY <1>2, <2>1, <2>2, <2>6, <2>7, <2>8, CtxStep DEF EncOthers, SameTable
<1> QED BY <1>1, <1>3, <1>4, <1>5, <1>6 DEF Switch

\* Every step of the monitor keeps CtxInv.
LEMMA CtxNext ==
    ASSUME SerialHost, TypeInv, RunInv, LeaveInv, CtxInv, [Next]_vars
    PROVE  CtxInv'
<1>1. ASSUME UNCHANGED <<pc, frame, enclaves, regs>> PROVE CtxInv'
  BY <1>1 DEF CtxInv, Leaving
<1>2. CASE Next
  BY <1>1, <1>2, CtxCalls, CtxSwitch DEF Next, Monitor, PmpIpi, HostWrite, EnclaveWrite, harts
<1> QED BY <1>1, <1>2 DEF vars, harts
=============================================================================
