-------------------------- MODULE RegisterProofs ----------------------------
(***************************************************************************)
(* The steps of module Enclave keep what the PMP registers of the harts    *)
(* hold and for which regions they give permission, and so what a hart can *)
(* reach; for any number of harts, enclaves, regions and registers.        *)
(***************************************************************************)
EXTENDS StepProofs

\* Most leaves need no arithmetic: Zenon first, then the SMT solver.
USE Zenon, SMT

(***************************************************************************)
(* The part of the inductive invariant about registers and memory.         *)
(***************************************************************************)
\* The registers of a region, and that they hold its range in a file.
Regs(R) == {R.reg_idx} \cup (IF R.addrmode = "TOR" /\ R.reg_idx > 0 THEN {R.reg_idx - 1} ELSE {})

End(R) == IF R.addr = 0 /\ R.size = MAXUL THEN MAXUL + 1 ELSE R.addr + R.size

Fits(file, R) ==
    /\ file[R.reg_idx].mode = R.addrmode /\ file[R.reg_idx].hi = End(R)
    /\ R.addrmode = "NAPOT" => file[R.reg_idx].lo = R.addr
    /\ R.addrmode = "TOR" /\ R.reg_idx > 0 => file[R.reg_idx - 1].hi = R.addr

Utm(e) == regions[enclaves[e].utm]

FileSm == \A h \in Harts : Fits(pmpcfg[h], regions[sm_region_id])

FilePerm == \A h \in Harts, n \in RegIds \ {Bottom} : pmpcfg[h][n].perm =>
                pc[h] \in {"enclave", "x_pmp"} /\ n = Epm(frame[h].eid).reg_idx

FileEpm == \A h \in Harts, e \in Eids : Closed(e) /\ Bottom \notin Regs(Epm(e)) =>
               Fits(pmpcfg[h], Epm(e))

FileSet == \A h, g \in Harts :
               pc[g] = "c_meta" /\ h \notin ipi[g].todo
               /\ Bottom \notin Regs(regions[frame[g].region]) =>
                   Fits(pmpcfg[h], regions[frame[g].region])

FileUtm == \A h \in Harts : pc[h] = "enclave" => Fits(pmpcfg[h], Utm(frame[h].eid))

FileInv == FileSm /\ FilePerm /\ FileEpm /\ FileSet /\ FileUtm

(***************************************************************************)
(* The PMP registers of the harts: what one write does to a file.          *)
(***************************************************************************)
\* The registers of a region are its own, and its end is the one pmp.c writes.
LEMMA RegsFacts ==
    ASSUME PMPTypeOK, NEW r \in RegionIds
    PROVE  /\ region_registers(r) = Regs(regions[r]) /\ region_end(r) = End(regions[r])
           /\ Regs(regions[r]) \subseteq RegIds /\ regions[r].reg_idx \in Regs(regions[r])
           /\ regions[r].addrmode = "TOR" /\ regions[r].reg_idx > 0 =>
                  regions[r].reg_idx - 1 \in Regs(regions[r])
<1>1. regions[r] \in Region
  BY DEF PMPTypeOK
<1>2. regions[r].reg_idx \in RegIds
  BY <1>1 DEF Region
<1>3. Regs(regions[r]) \subseteq RegIds
  BY SMT, <1>2, PMPAssumption DEF Regs, RegIds
<1> QED BY <1>3 DEF region_registers, region_needs_two_entries, region_end, Regs, End

\* Registers that are not written keep what they hold.
LEMMA FitsKept ==
    ASSUME NEW R, NEW old, NEW new, \A n \in Regs(R) : new[n] = old[n], Fits(old, R)
    PROVE  Fits(new, R)
<1>1. new[R.reg_idx] = old[R.reg_idx]
  BY SMT DEF Regs
<1>2. R.addrmode = "TOR" /\ R.reg_idx > 0 => new[R.reg_idx - 1] = old[R.reg_idx - 1]
  BY DEF Regs
<1> QED BY <1>1, <1>2 DEF Fits

\* pmp_set_keystone writes the range of the region, and permission only for it.
LEMMA SetWrites ==
    ASSUME PMPTypeOK, NEW file \in [RegIds -> PmpReg], NEW rid \in region_def_bitmap,
           NEW perm \in BOOLEAN, NEW new, new = pmp_set_keystone(file, rid, perm)
    PROVE  /\ Fits(new, regions[rid])
           /\ \A n \in RegIds : n \notin Regs(regions[rid]) => new[n] = file[n]
           /\ \A n \in RegIds : new[n].perm =>
                 \/ n \notin Regs(regions[rid]) /\ file[n].perm
                 \/ n = regions[rid].reg_idx /\ perm
<1>1. rid \in RegionIds
  BY DEF PMPTypeOK
<1>2. PICK R \in Region : R = regions[rid]
  BY <1>1 DEF PMPTypeOK
<1>3. R.reg_idx \in RegIds /\ (R.reg_idx > 0 => R.reg_idx - 1 \in RegIds)
  BY SMT, <1>2, PMPAssumption DEF Region, RegIds
<1>4. new = [n \in RegIds |->
            IF n = R.reg_idx
            THEN [mode |-> R.addrmode, hi |-> End(R), perm |-> perm,
                  lo |-> IF R.addrmode = "NAPOT" THEN R.addr ELSE 0]
            ELSE IF (R.addrmode = "TOR" /\ R.reg_idx > 0) /\ n = R.reg_idx - 1
            THEN [mode |-> "OFF", lo |-> 0, hi |-> R.addr, perm |-> FALSE]
            ELSE file[n]]
  BY <1>2 DEF pmp_set_keystone, is_pmp_region_valid, region_needs_two_entries, region_end, End
<1>5. /\ new[R.reg_idx] = [mode |-> R.addrmode, hi |-> End(R), perm |-> perm,
                           lo |-> IF R.addrmode = "NAPOT" THEN R.addr ELSE 0]
      /\ R.addrmode = "TOR" /\ R.reg_idx > 0 =>
            new[R.reg_idx - 1] = [mode |-> "OFF", lo |-> 0, hi |-> R.addr, perm |-> FALSE]
      /\ \A n \in RegIds : n \notin Regs(R) => new[n] = file[n]
  BY SMTT(30), <1>3, <1>4, PMPAssumption DEF Regs, RegIds
<1>6. Fits(new, R)
  BY SMTT(30), <1>5 DEF Fits
<1>7. ASSUME NEW n \in RegIds, new[n].perm
      PROVE  \/ n \notin Regs(R) /\ file[n].perm
             \/ n = R.reg_idx /\ perm
  <2>1. CASE n = R.reg_idx
    BY SMTT(30), <1>5, <1>7, <2>1
  <2>2. CASE n # R.reg_idx /\ n \in Regs(R)
    BY SMTT(30), <1>5, <1>7, <2>2 DEF Regs
  <2>3. CASE n \notin Regs(R)
    BY <1>5, <1>7, <2>3
  <2> QED BY <2>1, <2>2, <2>3
<1> QED BY <1>2, <1>5, <1>6, <1>7

\* pmp_unset withdraws the permission of the region and of no other.
LEMMA UnsetWrites ==
    ASSUME PMPTypeOK, NEW file \in [RegIds -> PmpReg], NEW rid \in region_def_bitmap,
           NEW new, new = pmp_unset(file, rid)
    PROVE  /\ \A n \in RegIds : n \notin Regs(regions[rid]) => new[n] = file[n]
           /\ \A n \in RegIds : new[n].perm => n \notin Regs(regions[rid]) /\ file[n].perm
<1>1. rid \in RegionIds
  BY DEF PMPTypeOK
<1>2. new = [n \in RegIds |-> IF n \in Regs(regions[rid]) THEN UnsetReg ELSE file[n]]
  BY <1>1, RegsFacts DEF pmp_unset, is_pmp_region_valid
<1>3. UnsetReg.perm = FALSE
  BY DEF UnsetReg
<1> QED BY <1>2, <1>3

\* Regions above the bottom register share no register.
LEMMA RegsApart ==
    ASSUME PMPTypeOK, RegistersExact, NEW r \in region_def_bitmap, NEW s \in region_def_bitmap,
           r # s, Bottom \notin Regs(regions[r])
    PROVE  \A n \in Regs(regions[r]) : n \in RegIds /\ n \notin Regs(regions[s])
<1>1. r \in RegionIds /\ s \in RegionIds
  BY DEF PMPTypeOK
<1> QED BY SMT, <1>1, RegsFacts DEF RegistersExact

(***************************************************************************)
(* Steps that write no register.                                           *)
(***************************************************************************)
\* A hart that enters, executes or leaves an enclave finds its two regions allocated.
LEMMA UserHas ==
    ASSUME TypeInv, RunInv, LeaveInv, NEW h \in Harts, pc[h] \in {"e_pmp", "enclave", "x_pmp"},
           NEW k \in Kinds
    PROVE  Has(EidOf(h), k, OwnRegion(EidOf(h), k), enclaves[EidOf(h)].params)
<1>1. PICK e \in Eids : e = EidOf(h)
  BY Shapes
<1>2. Alive(e) \/ \E g \in Harts : pc[g] \in DHolds(k) /\ frame[g].eid = e
  <2>1. CASE pc[h] \in {"e_pmp", "enclave"}
    BY ZenonT(40), <1>1, <2>1, LabelFacts, HeldFacts DEF RunInv, Holds, Busy, EidOf, State, Alive
  <2>2. CASE pc[h] = "x_pmp"
    <3>1. Cover(h, e)
      BY <1>1, <2>2, LeaveForm DEF Leaving, EidOf
    <3> QED BY SMT, <3>1, QuietMoves DEF Cover, Early, Alive
  <2> QED BY <2>1, <2>2
<1> QED BY <1>1, <1>2 DEF Has

\* Nobody else works on d, or is leaving it.
Solo(g, d) == \A h \in Harts : h # g => ~Busy(h, d) /\ ~Leaving(h, d)

Untouched(d) == /\ enclaves'[d].epm = enclaves[d].epm /\ enclaves'[d].utm = enclaves[d].utm
                /\ regions' = regions

\* A step of g for d that writes no register, moves no region of another enclave, and
\* closes d only when all harts have its region.
LEMMA FileStep ==
    ASSUME TypeInv, RunInv, OwnInv, LeaveInv, FileInv, NEW g \in Harts, NEW d \in Eids,
           OnlyHart(g), EncOthers(d), pmpcfg' = pmpcfg,
           \A h \in Harts : h # g => ipi'[h] = ipi[h],
           pc[g] \in BLabels => EidOf(g) = d, pc'[g] \in BLabels => EidOf(g)' = d,
           regions'[sm_region_id] = regions[sm_region_id],
           \A e \in Eids, k \in Kinds, r \in MaybeRegion, args \in Params :
               e # d /\ Has(e, k, r, args) => regions'[r] = regions[r],
           Untouched(d) \/ Solo(g, d),
           pc'[g] # "enclave",
           pc[g] \in {"enclave", "x_pmp"} =>
               pc'[g] = "x_pmp" /\ EidOf(g) = d /\ EidOf(g)' = d /\ Untouched(d),
           Alive(d)' \/ pc'[g] \in {"c_hash", "d_read", "d_zero"} =>
               /\ regions' = regions
               /\ \/ Closed(d) /\ enclaves'[d].epm = enclaves[d].epm
                  \/ pc[g] = "c_meta" /\ Synced(g) /\ enclaves'[d].epm = frame[g].region,
           pc'[g] = "c_meta" => ipi'[g].todo = Harts
    PROVE  FileInv'
<1>1. FileSm'
  BY DEF FileInv, FileSm
<1>2. ASSUME NEW h \in Harts, h # g, NEW e \in Eids, e = EidOf(h), pc[h] \in {"enclave", "x_pmp"}
      PROVE  /\ pc'[h] = pc[h] /\ EidOf(h)' = e
             /\ Epm(e)' = Epm(e) /\ Utm(e)' = Utm(e)
  <2>1. pc'[h] = pc[h] /\ EidOf(h)' = e
    BY <1>2 DEF OnlyHart, EidOf
  <2>2. CASE e = d
    <3>1. Busy(h, d) \/ Leaving(h, d)
      BY <1>2, <2>2, LabelFacts DEF Busy, Leaving, EidOf
    <3>2. Untouched(d)
      BY <1>2, <3>1 DEF Solo
    <3> QED BY <2>1, <2>2, <3>2 DEF Untouched, Epm, Utm
  <2>3. CASE e # d
    <3>1. "epm" \in Kinds /\ "utm" \in Kinds
      BY DEF Kinds
    <3>2. /\ Has(e, "epm", enclaves[e].epm, enclaves[e].params)
          /\ Has(e, "utm", enclaves[e].utm, enclaves[e].params)
      BY <1>2, <3>1, UserHas DEF OwnRegion
    <3>3. /\ enclaves[e].epm \in MaybeRegion /\ enclaves[e].utm \in MaybeRegion
          /\ enclaves[e].params \in Params
      BY Shapes
    <3>4. regions'[enclaves[e].epm] = regions[enclaves[e].epm]
      BY <2>3, <3>1, <3>2, <3>3
    <3>5. regions'[enclaves[e].utm] = regions[enclaves[e].utm]
      BY <2>3, <3>1, <3>2, <3>3
    <3> QED BY <2>1, <2>3, <3>4, <3>5 DEF EncOthers, Epm, Utm
  <2> QED BY <2>2, <2>3
<1>3. FilePerm'
  <2> SUFFICES ASSUME NEW h \in Harts, NEW n \in RegIds \ {Bottom}, pmpcfg'[h][n].perm
               PROVE  pc'[h] \in {"enclave", "x_pmp"} /\ n = Epm(frame[h].eid)'.reg_idx
    BY DEF FilePerm
  <2>1. PICK e \in Eids : e = EidOf(h)
    BY Shapes
  <2>2. pc[h] \in {"enclave", "x_pmp"} /\ n = Epm(e).reg_idx
    BY <2>1 DEF FileInv, FilePerm, EidOf
  <2>3. pc'[h] \in {"enclave", "x_pmp"} /\ EidOf(h)' = e /\ Epm(e)' = Epm(e)
    <3>1. CASE h # g
      BY <1>2, <2>1, <2>2, <3>1
    <3>2. CASE h = g
      BY <2>1, <2>2, <3>2 DEF Untouched, Epm
    <3> QED BY <3>1, <3>2
  <2> QED BY <2>2, <2>3 DEF EidOf, Epm
<1>4. FileUtm'
  <2> SUFFICES ASSUME NEW h \in Harts, pc'[h] = "enclave"
               PROVE  Fits(pmpcfg[h], Utm(frame[h].eid))'
    BY DEF FileUtm
  <2>1. h # g /\ pc[h] = "enclave"
    BY DEF OnlyHart
  <2>2. PICK e \in Eids : e = EidOf(h)
    BY Shapes
  <2>3. EidOf(h)' = e /\ Utm(e)' = Utm(e)
    BY <1>2, <2>1, <2>2
  <2>4. Fits(pmpcfg[h], Utm(e))
    BY <2>1, <2>2 DEF FileInv, FileUtm, EidOf
  <2> QED BY <2>3, <2>4 DEF EidOf, Utm
<1>5. FileSet'
  <2> SUFFICES ASSUME NEW h \in Harts, NEW f \in Harts, pc'[f] = "c_meta", h \notin ipi'[f].todo,
                      Bottom \notin Regs(regions[frame[f].region])'
               PROVE  Fits(pmpcfg[h], regions[frame[f].region])'
    BY DEF FileSet
  <2>1. f # g
    OBVIOUS
  <2>2. pc[f] = "c_meta" /\ frame'[f] = frame[f] /\ ipi'[f] = ipi[f]
    BY <2>1 DEF OnlyHart
  <2>3. PICK e \in Eids, a \in Params : e = frame[f].eid /\ a = frame[f].args
    BY Shapes DEF EidOf
  <2>4. PICK r \in MaybeRegion : r = frame[f].region
    BY Shapes
  <2>5. regions'[r] = regions[r]
    <3>1. CASE e = d
      <4>1. Busy(f, d)
        BY <2>2, <2>3, <3>1, HeldFacts DEF Busy, CLabels
      <4> QED BY <2>1, <4>1 DEF Solo, Untouched
    <3>2. CASE e # d
      <4>1. "epm" \in Kinds
        BY DEF Kinds
      <4>2. Has(e, "epm", r, a)
        BY ZenonT(40), <2>2, <2>3, <2>4, <4>1, QuietMoves DEF Has, FrameRegion
      <4> QED BY <3>2, <4>1, <4>2
    <3> QED BY <3>1, <3>2
  <2>6. Fits(pmpcfg[h], regions[r])
    BY <2>2, <2>4, <2>5 DEF FileInv, FileSet
  <2> QED BY <2>2, <2>4, <2>5, <2>6
<1>6. FileEpm'
  <2> SUFFICES ASSUME NEW h \in Harts, NEW e \in Eids, Closed(e)', Bottom \notin Regs(Epm(e))'
               PROVE  Fits(pmpcfg[h], Epm(e))'
    BY DEF FileEpm
  <2>1. ASSUME Closed(e), Epm(e)' = Epm(e) PROVE Fits(pmpcfg[h], Epm(e))'
    <3>1. Bottom \notin Regs(Epm(e))
      BY <2>1
    <3>2. Fits(pmpcfg[h], Epm(e))
      BY <2>1, <3>1 DEF FileInv, FileEpm
    <3> QED BY <2>1, <3>2
  <2>2. CASE e # d
    <3>1. Closed(e)
      <4>1. Alive(e)' => Alive(e)
        BY <2>2 DEF EncOthers, Alive
      <4>2. ASSUME NEW f \in Harts, pc'[f] \in {"c_hash", "d_read", "d_zero"}, frame'[f].eid = e
            PROVE  Closed(e)
        <5>1. pc'[f] \in BLabels
          BY <4>2 DEF BLabels, CLabels, DLabels
        <5>2. f # g
          BY <2>2, <4>2, <5>1 DEF EidOf
        <5> QED BY <4>2, <5>2 DEF OnlyHart, Closed
      <4> QED BY <4>1, <4>2 DEF Closed
    <3>2. "epm" \in Kinds /\ enclaves[e].epm \in MaybeRegion /\ enclaves[e].params \in Params
      BY Shapes DEF Kinds
    <3>3. regions'[enclaves[e].epm] = regions[enclaves[e].epm]
      BY <2>2, <3>1, <3>2, ClosedHas
    <3> QED BY <2>1, <2>2, <3>1, <3>3 DEF EncOthers, Epm
  <2>3. CASE e = d
    <3>1. CASE Alive(d)' \/ pc'[g] \in {"c_hash", "d_read", "d_zero"}
      <4>1. CASE Closed(d) /\ enclaves'[d].epm = enclaves[d].epm
        BY <2>1, <2>3, <3>1, <4>1 DEF Epm
      <4>2. CASE pc[g] = "c_meta" /\ Synced(g) /\ enclaves'[d].epm = frame[g].region
        <5>1. PICK r : r = frame[g].region
          OBVIOUS
        <5>2. Epm(e)' = regions[r]
          BY <2>3, <3>1, <4>2, <5>1 DEF Epm
        <5>3. Fits(pmpcfg[h], regions[r])
          BY <4>2, <5>1, <5>2 DEF FileInv, FileSet, Synced
        <5> QED BY <5>2, <5>3
      <4> QED BY <3>1, <4>1, <4>2
    <3>2. ASSUME NEW f \in Harts, f # g, pc'[f] \in {"c_hash", "d_read", "d_zero"}, frame'[f].eid = d
          PROVE  Fits(pmpcfg[h], Epm(e))'
      <4>1. pc[f] = pc'[f] /\ frame[f].eid = d
        BY <3>2 DEF OnlyHart
      <4>2. Busy(f, d) /\ Closed(d)
        BY <3>2, <4>1 DEF Busy, BLabels, CLabels, DLabels, Closed
      <4>3. Untouched(d)
        BY <3>2, <4>2 DEF Solo
      <4> QED BY <2>1, <2>3, <4>2, <4>3 DEF Untouched, Epm
    <3> QED BY <2>3, <3>1, <3>2 DEF Closed
  <2> QED BY <2>2, <2>3
<1> QED BY <1>1, <1>3, <1>4, <1>5, <1>6 DEF FileInv

\* Who creates an enclave, or has begun to free its regions, is alone with it.
LEMMA SoloCall ==
    ASSUME TypeInv, RunInv, LeaveInv, NEW g \in Harts, NEW d \in Eids, d = EidOf(g),
           \/ pc[g] \in CLabels
           \/ pc[g] \in DLabels \ Early /\ (pc[g] = "d_free" => Synced(g))
    PROVE  Solo(g, d)
<1>1. Busy(g, d)
  BY HeldFacts DEF Busy, EidOf
<1>2. /\ enclaves[d].state # STOPPED
      /\ pc[g] \in CLabels => enclaves[d].state # DESTROYING
  BY SMTT(30), CallNotAlive DEF State, ALLOCATED, DESTROYING, STOPPED
<1>3. \A h \in Harts : ~Leaving(h, d)
  BY <1>2, NoLeaver DEF EidOf
<1>4. \A h \in Harts : Busy(h, d) => h = g
  BY <1>1 DEF RunInv, Alone
<1> QED BY <1>3, <1>4 DEF Solo

\* The steps of create keep FileInv.
LEMMA FileCreate ==
    ASSUME TypeInv, RunInv, OwnInv, LeaveInv, FileInv, NEW g \in Harts, Create(g)
    PROVE  FileInv'
<1>1. PICK d \in Eids : d = EidOf(g)
  BY Shapes
<1>2. /\ OnlyHart(g) /\ pc[g] \in CLabels
      /\ \/ pc'[g] \in CLabels /\ EidOf(g)' = d /\ enclaves'[d].state = enclaves[d].state
         \/ pc'[g] = "host"
  BY <1>1, CreateSteps DEF Keeps, Returns, State, EidOf
<1>3. \A h \in Harts : h # g => ipi'[h] = ipi[h]
  BY NoIpiSteps, SendEffect DEF NoIpiStep
<1>4. /\ pc[g] \in BLabels => EidOf(g) = d
      /\ pc'[g] \in BLabels => EidOf(g)' = d
      /\ pc'[g] # "enclave" /\ pc[g] \notin {"enclave", "x_pmp"}
  BY <1>1, <1>2, LabelFacts, HeldFacts
<1>5. Solo(g, d)
  BY <1>1, <1>2, SoloCall
<1>6. /\ regions'[sm_region_id] = regions[sm_region_id]
      /\ \A e \in Eids, k \in Kinds, r \in MaybeRegion, args \in Params :
             e # d /\ Has(e, k, r, args) => regions'[r] = regions[r]
  BY <1>1, RegionsStay
<1>7. EncOthers(d) /\ pmpcfg' = pmpcfg
  BY <1>1, CallRecords, StepTouches
<1>8. Alive(d)' \/ pc'[g] \in {"c_hash", "d_read", "d_zero"} =>
         /\ regions' = regions
         /\ \/ Closed(d) /\ enclaves'[d].epm = enclaves[d].epm
            \/ pc[g] = "c_meta" /\ Synced(g) /\ enclaves'[d].epm = frame[g].region
  <2>1. CASE CreateMeta(g)
    BY <1>1, <2>1, CreateMetaEffect DEF pmpVars
  <2>2. CASE CreateHash(g)
    <3>1. regions' = regions /\ pc[g] = "c_hash" /\ enclaves'[d].epm = enclaves[d].epm
      BY <1>1, <2>2, CreateHashEffect DEF pmpVars, SameBody
    <3> QED BY <1>1, <3>1 DEF Closed, EidOf
  <2>3. CASE CreateFreeEid(g)
    <3>1. pc'[g] = "host" /\ enclaves'[d].state = INVALID
      BY <1>1, <2>3, FreeEidEffect
    <3> QED BY <3>1, AliveStates DEF Alive
  <2>4. ASSUME \/ CreateEpm(g) \/ CreateUtm(g) \/ CreateSet(g) \/ CreateUnset(g)
               \/ CreateFreeUtm(g) \/ CreateFreeEpm(g)
        PROVE  ~Alive(d)' /\ pc'[g] \notin {"c_hash", "d_read", "d_zero"}
    <3>1. pc'[g] \in {"c_utm", "c_set", "c_meta", "c_free_utm", "c_free_epm", "c_free_eid"}
      <4>1. CASE CreateEpm(g) \/ CreateUtm(g)
        BY <4>1, CreateEpmEffect, CreateUtmEffect
      <4>2. CASE CreateSet(g) \/ CreateUnset(g) \/ CreateFreeUtm(g) \/ CreateFreeEpm(g)
        BY <4>2, CallMoves DEF Moves
      <4> QED BY <2>4, <4>1, <4>2
    <3>2. enclaves'[d].state = ALLOCATED
      BY <1>1, <1>2, <3>1, CallNotAlive DEF State
    <3> QED BY <3>1, <3>2, AliveStates DEF Alive
  <2> QED BY <2>1, <2>2, <2>3, <2>4 DEF Create
<1>9. pc'[g] = "c_meta" => ipi'[g].todo = Harts
  <2>1. CASE CreateSet(g)
    BY <2>1, CallMoves, SendEffect DEF Moves, Sends
  <2>2. CASE ~CreateSet(g)
    <3>1. pc'[g] # "c_meta"
      <4>1. CASE CreateEpm(g) \/ CreateUtm(g)
        BY <4>1, CreateEpmEffect, CreateUtmEffect
      <4>2. CASE CreateUnset(g) \/ CreateFreeUtm(g) \/ CreateFreeEpm(g)
        BY <4>2, CallMoves DEF Moves
      <4>3. CASE CreateMeta(g) \/ CreateHash(g) \/ CreateFreeEid(g)
        BY <4>3, CreateMetaEffect, CreateHashEffect, FreeEidEffect
      <4> QED BY <2>2, <4>1, <4>2, <4>3 DEF Create
    <3> QED BY <3>1
  <2> QED BY <2>1, <2>2
<1> QED BY <1>2, <1>3, <1>4, <1>5, <1>6, <1>7, <1>8, <1>9, FileStep

\* The steps of destroy keep FileInv.
LEMMA FileDestroy ==
    ASSUME TypeInv, RunInv, OwnInv, LeaveInv, FileInv, NEW g \in Harts, Destroy(g)
    PROVE  FileInv'
<1>1. PICK d \in Eids : d = EidOf(g)
  BY Shapes
<1>2. /\ OnlyHart(g) /\ pc[g] \in DLabels
      /\ enclaves'[d].state \in {enclaves[d].state, INVALID}
      /\ \/ pc'[g] \in DLabels /\ EidOf(g)' = d
         \/ pc'[g] = "host"
  BY <1>1, DestroySteps DEF Keeps, Returns, State, EidOf
<1>3. \A h \in Harts : h # g => ipi'[h] = ipi[h]
  BY NoIpiSteps, SendEffect DEF NoIpiStep
<1>4. /\ pc[g] \in BLabels => EidOf(g) = d
      /\ pc'[g] \in BLabels => EidOf(g)' = d
      /\ pc'[g] # "enclave" /\ pc[g] \notin {"enclave", "x_pmp"} /\ pc'[g] # "c_meta"
      /\ pc'[g] # "c_hash"
  <2>1. "c_meta" \notin DLabels /\ "c_hash" \notin DLabels
    BY DEF DLabels
  <2> QED BY <1>1, <1>2, <2>1, LabelFacts, HeldFacts
<1>5. ~Alive(d)'
  <2>1. enclaves[d].state = DESTROYING
    BY <1>1, <1>2, CallNotAlive DEF State
  <2> QED BY <1>2, <2>1, AliveStates DEF Alive
<1>6. /\ regions'[sm_region_id] = regions[sm_region_id]
      /\ \A e \in Eids, k \in Kinds, r \in MaybeRegion, args \in Params :
             e # d /\ Has(e, k, r, args) => regions'[r] = regions[r]
  BY <1>1, RegionsStay
<1>7. EncOthers(d) /\ pmpcfg' = pmpcfg
  BY <1>1, CallRecords, StepTouches
<1>8. CASE DestroyRead(g) \/ DestroyZero(g) \/ DestroyUnset(g)
  <2>1. Untouched(d)
    BY <1>8 DEF DestroyRead, DestroyZero, DestroyUnset, Untouched, pmpVars
  <2>2. pc[g] \in {"d_read", "d_zero"} => Closed(d)
    BY <1>1 DEF Closed, EidOf
  <2>3. pc'[g] \in {"d_read", "d_zero"} => Closed(d)
    <3>1. CASE DestroyRead(g)
      BY <2>2, <3>1 DEF DestroyRead
    <3>2. CASE DestroyZero(g) \/ DestroyUnset(g)
      BY <3>2, CallMoves DEF Moves
    <3> QED BY <1>8, <3>1, <3>2
  <2>4. regions' = regions /\ enclaves'[d].epm = enclaves[d].epm
    BY <2>1 DEF Untouched
  <2> QED BY <1>2, <1>3, <1>4, <1>5, <1>6, <1>7, <2>1, <2>3, <2>4, FileStep
<1>9. CASE DestroyFree(g) \/ DestroyUtm(g) \/ DestroyClear(g) \/ DestroyFreeEid(g)
  <2>1. /\ pc[g] \in {"d_free", "d_utm", "d_clear", "d_eid"}
        /\ pc[g] = "d_free" => Synced(g)
    BY <1>9 DEF DestroyFree, DestroyUtm, DestroyClear, DestroyFreeEid
  <2>2. pc[g] \in DLabels \ Early
    BY <2>1 DEF DLabels, Early
  <2>3. Solo(g, d)
    BY <1>1, <2>1, <2>2, SoloCall
  <2>4. pc'[g] \in {"d_utm", "d_clear", "d_eid", "host"}
    BY <1>9, CallMoves, DestroyClearEffect, FreeEidEffect DEF Moves
  <2> QED BY <1>2, <1>3, <1>4, <1>5, <1>6, <1>7, <2>3, <2>4, FileStep
<1> QED BY <1>8, <1>9 DEF Destroy

\* The calls that start or stop an enclave, and the swaps.
LEMMA FileEnter ==
    ASSUME SerialHost, TypeInv, RunInv, OwnInv, LeaveInv, FileInv, NEW g \in Harts,
           \/ \E args \in CreateArgs : CreateEnclave(g, args)
           \/ \E d \in Eids : DestroyEnclave(g, d) \/ RunEnclave(g, d) \/ ResumeEnclave(g, d)
           \/ StopEnclave(g) \/ ExitEnclave(g) \/ SwapToEnclave(g) \/ SwapToHost(g)
    PROVE  FileInv'
<1>1. ASSUME NEW d \in Eids, OnlyHart(g), EncOthers(d), pmpcfg' = pmpcfg, ipi' = ipi, Untouched(d),
             pc[g] \in BLabels => EidOf(g) = d, pc'[g] \in BLabels => EidOf(g)' = d,
             pc'[g] \notin {"enclave", "c_meta", "c_hash", "d_zero"},
             pc[g] \in {"enclave", "x_pmp"} => pc'[g] = "x_pmp" /\ EidOf(g) = d /\ EidOf(g)' = d,
             Alive(d)' \/ pc'[g] = "d_read" => Alive(d)
      PROVE  FileInv'
  <2>1. /\ regions'[sm_region_id] = regions[sm_region_id]
        /\ \A e \in Eids, k \in Kinds, r \in MaybeRegion, args \in Params :
               e # d /\ Has(e, k, r, args) => regions'[r] = regions[r]
    BY <1>1 DEF Untouched
  <2>2. Alive(d)' \/ pc'[g] \in {"c_hash", "d_read", "d_zero"} =>
           regions' = regions /\ Closed(d) /\ enclaves'[d].epm = enclaves[d].epm
    BY <1>1 DEF Untouched, Closed
  <2> QED BY <1>1, <2>1, <2>2, FileStep
<1>2. ASSUME NEW args \in CreateArgs, CreateEnclave(g, args) PROVE FileInv'
  <2>1. PICK d \in Eids : d = EidOf(g)'
    BY <1>2, CreateEnclaveEffect
  <2>2. /\ OnlyHart(g) /\ pc[g] = "host" /\ pc'[g] = "c_epm" /\ EncOthers(d)
        /\ enclaves'[d].state = ALLOCATED /\ regions' = regions
        /\ pmpcfg' = pmpcfg /\ ipi' = ipi
    BY <1>2, <2>1, CreateEnclaveEffect, CallTouches DEF pmpVars
  <2>3. Untouched(d)
    BY <1>2, <2>2, QuietCalls DEF Quiet, SameRecords, Untouched
  <2>4. ~Alive(d)'
    BY <2>2, AliveStates DEF Alive
  <2> QED BY <1>1, <2>1, <2>2, <2>3, <2>4, LabelFacts
<1>3. ASSUME NEW d \in Eids, DestroyEnclave(g, d) PROVE FileInv'
  <2>1. /\ OnlyHart(g) /\ pc[g] = "host" /\ pc'[g] = "d_read" /\ EidOf(g)' = d /\ EncOthers(d)
        /\ pmpcfg' = pmpcfg /\ ipi' = ipi /\ Untouched(d) /\ d \in handles
    BY <1>3, DestroyEnclaveEffect, CallTouches DEF pmpVars, SameBody, Untouched
  <2>2. Alive(d)
    BY <2>1 DEF RunInv, Handed, State, Alive
  <2> QED BY <1>1, <2>1, <2>2, LabelFacts
<1>4. ASSUME NEW d \in Eids, RunEnclave(g, d) \/ ResumeEnclave(g, d) PROVE FileInv'
  <2>1. /\ OnlyHart(g) /\ pc[g] = "host" /\ pc'[g] \in {"e_load", "e_swap"} /\ EidOf(g)' = d
        /\ EncOthers(d) /\ pmpcfg' = pmpcfg /\ ipi' = ipi /\ Untouched(d) /\ Alive(d)
    BY <1>4, EnterEffect, CallTouches DEF pmpVars, SameBody, Untouched, Alive
  <2> QED BY <1>1, <2>1, LabelFacts
<1>5. PICK d \in Eids : d = EidOf(g)
  BY Shapes
<1>6. ASSUME StopEnclave(g) \/ ExitEnclave(g) PROVE FileInv'
  <2>1. /\ OnlyHart(g) /\ pc[g] = "enclave" /\ pc'[g] = "x_pmp" /\ EidOf(g)' = d
        /\ EncOthers(d) /\ pmpcfg' = pmpcfg /\ ipi' = ipi /\ Untouched(d) /\ Alive(d)
    BY <1>5, <1>6, LeaveEffect, CallTouches DEF pmpVars, SameBody, Untouched, Alive
  <2> QED BY <1>1, <1>5, <2>1
<1>7. ASSUME SwapToEnclave(g) \/ SwapToHost(g) PROVE FileInv'
  <2>1. /\ OnlyHart(g) /\ EncOthers(d) /\ SameTable /\ regions' = regions
        /\ pmpcfg' = pmpcfg /\ ipi' = ipi
        /\ \/ pc[g] \in {"e_load", "e_swap"} /\ pc'[g] = "e_pmp" /\ frame' = frame
           \/ pc[g] = "x_swap" /\ pc'[g] = "host"
    BY <1>5, <1>7, SwapEffect DEF pmpVars
  <2>2. Untouched(d) /\ (Alive(d)' => Alive(d))
    BY <2>1 DEF SameTable, Untouched, Alive
  <2>3. /\ pc[g] \in BLabels => EidOf(g) = d
        /\ pc'[g] \in BLabels => EidOf(g)' = d
    BY <1>5, <2>1, LabelFacts DEF EidOf
  <2>4. /\ pc'[g] \notin {"enclave", "c_meta", "c_hash", "d_zero", "d_read"}
        /\ pc[g] \notin {"enclave", "x_pmp"}
    BY <2>1
  <2> QED BY <1>1, <2>1, <2>2, <2>3, <2>4
<1> QED BY <1>2, <1>3, <1>4, <1>6, <1>7

(***************************************************************************)
(* Steps that write registers.                                             *)
(***************************************************************************)
\* What a file of hart h must hold.
Guards(file, h) ==
    /\ Fits(file, regions[sm_region_id])
    /\ \A e \in Eids : Closed(e) /\ Bottom \notin Regs(Epm(e)) => Fits(file, Epm(e))
    /\ \A f \in Harts : pc[f] = "c_meta" /\ h \notin ipi[f].todo
                        /\ Bottom \notin Regs(regions[frame[f].region]) =>
                            Fits(file, regions[frame[f].region])

\* The parts of FileInv that speak of one register file at a time.
LEMMA GuardsForm == FileSm /\ FileEpm /\ FileSet <=> \A h \in Harts : Guards(pmpcfg[h], h)
  BY DEF FileSm, FileEpm, FileSet, Guards

\* The monitor has the first register, the OS region the last.
LEMMA SmRegs ==
    ASSUME BootKept
    PROVE  sm_region_id \in region_def_bitmap /\ Bottom \notin Regs(regions[sm_region_id])
           /\ Regs(regions[sm_region_id]) = {0}
           /\ os_region_id \in region_def_bitmap /\ Regs(regions[os_region_id]) = {Bottom}
           /\ regions[os_region_id].reg_idx = Bottom
<1>1. regions[sm_region_id].reg_idx = 0
  BY SMTT(30), BootIds DEF BootKept, BootRegions
<1>2. regions[os_region_id].reg_idx = Bottom /\ regions[os_region_id].addrmode = "NAPOT"
  BY SMT, BootIds DEF BootKept, BootRegions
<1>3. Bottom # 0
  BY SMT, PMPAssumption DEF Bottom
<1> QED BY SMTT(30), <1>1, <1>2, <1>3 DEF BootKept, Regs

\* The regions a file must hold are in the table.
LEMMA GuardedValid ==
    ASSUME TypeInv, OwnInv
    PROVE  /\ \A e \in Eids : Closed(e) => enclaves[e].epm \in region_def_bitmap
           /\ \A f \in Harts : pc[f] = "c_meta" => frame[f].region \in region_def_bitmap
<1>1. "epm" \in Kinds
  BY DEF Kinds
<1>2. ASSUME NEW e \in Eids, Closed(e) PROVE enclaves[e].epm \in region_def_bitmap
  BY <1>1, <1>2, ClosedHas, Shapes DEF OwnInv, Backed, Holding
<1>3. ASSUME NEW f \in Harts, pc[f] = "c_meta" PROVE frame[f].region \in region_def_bitmap
  <2>1. Has(EidOf(f), "epm", frame[f].region, frame[f].args)
    BY <1>1, <1>3, QuietMoves DEF Has, FrameRegion, EidOf
  <2> QED BY <1>1, <2>1, Shapes DEF OwnInv, Backed, Holding
<1> QED BY <1>2, <1>3

\* Setting a region keeps the guards of all others.
LEMMA GuardsSet ==
    ASSUME TypeInv, OwnInv, RegistersExact, NEW h \in Harts, NEW file \in [RegIds -> PmpReg],
           NEW rid \in region_def_bitmap, NEW perm \in BOOLEAN, Guards(file, h),
           NEW new, new = pmp_set_keystone(file, rid, perm)
    PROVE  Guards(new, h)
<1>0. PMPTypeOK /\ BootKept
  BY DEF TypeInv, OwnInv
<1>1. ASSUME NEW r \in region_def_bitmap, Bottom \notin Regs(regions[r]), Fits(file, regions[r])
      PROVE  Fits(new, regions[r])
  <2>1. CASE r = rid
    BY <1>0, <2>1, SetWrites
  <2>2. CASE r # rid
    <3>1. \A n \in Regs(regions[r]) : new[n] = file[n]
      BY SMTT(30), <1>0, <1>1, <2>2, RegsApart, SetWrites
    <3> QED BY <1>1, <3>1, FitsKept
  <2> QED BY <2>1, <2>2
<1>2. Fits(new, regions[sm_region_id])
  BY <1>0, <1>1, SmRegs DEF Guards
<1>3. ASSUME NEW e \in Eids, Closed(e), Bottom \notin Regs(Epm(e)) PROVE Fits(new, Epm(e))
  BY <1>1, <1>3, GuardedValid DEF Guards, Epm
<1>4. ASSUME NEW f \in Harts, pc[f] = "c_meta", h \notin ipi[f].todo,
             Bottom \notin Regs(regions[frame[f].region])
      PROVE  Fits(new, regions[frame[f].region])
  BY <1>1, <1>4, GuardedValid DEF Guards
<1> QED BY <1>2, <1>3, <1>4 DEF Guards

\* The register writes on the way into and out of an enclave keep FileInv.
LEMMA FileSwitch ==
    ASSUME TypeInv, RunInv, OwnInv, LeaveInv, RegistersExact, FileInv, NEW g \in Harts,
           PmpToEnclave(g) \/ PmpToHost(g)
    PROVE  FileInv'
<1>0. PMPTypeOK /\ BootKept /\ "epm" \in Kinds /\ "utm" \in Kinds
  BY DEF TypeInv, OwnInv, Kinds
<1>1. PICK d \in Eids : d = EidOf(g)
  BY Shapes
<1>2. pc[g] \in {"e_pmp", "x_pmp"}
  BY DEF PmpToEnclave, PmpToHost
<1>3. PICK r \in MaybeRegion, s \in MaybeRegion : r = enclaves[d].epm /\ s = enclaves[d].utm
  BY Shapes
<1>4. /\ r \in region_def_bitmap /\ s \in region_def_bitmap /\ r # NoRegion /\ s # NoRegion
      /\ Regs(regions[s]) = {Bottom} /\ regions[s].reg_idx = Bottom
  <2>1. /\ Has(d, "epm", r, enclaves[d].params)
        /\ Has(d, "utm", s, enclaves[d].params)
    BY <1>0, <1>1, <1>2, <1>3, UserHas DEF OwnRegion
  <2>2. /\ Holding("epm", r, enclaves[d].params)
        /\ Holding("utm", s, enclaves[d].params)
    BY <1>0, <2>1, Shapes DEF OwnInv, Backed
  <2>3. r \in region_def_bitmap /\ s \in region_def_bitmap
    BY <2>2 DEF Holding
  <2>4. regions[s].reg_idx = Bottom /\ regions[s].addrmode = "NAPOT"
    BY <2>2 DEF Holding
  <2> QED BY SMTT(30), <1>0, <2>3, <2>4 DEF PMPTypeOK, RegionIds, NoRegion, Regs
<1>5. /\ OnlyHart(g) /\ UNCHANGED <<pmpVars, enclaves, frame, ipi>>
      /\ \A h \in Harts : h # g => pmpcfg'[h] = pmpcfg[h]
      /\ \/ /\ pc[g] = "e_pmp" /\ pc'[g] = "enclave"
            /\ pmpcfg'[g] = set_enclave_regions(osm_pmp_set(pmpcfg[g], FALSE), d, TRUE)
         \/ /\ pc[g] = "x_pmp" /\ pc'[g] = "x_swap"
            /\ pmpcfg'[g] = osm_pmp_set(set_enclave_regions(pmpcfg[g], d, FALSE), TRUE)
  BY <1>1, PmpEffect
<1>6. PICK f0 \in [RegIds -> PmpReg] : f0 = pmpcfg[g]
  BY DEF TypeInv, FileType
<1>7. Guards(f0, g)
  BY <1>6, GuardsForm DEF FileInv
<1>8. os_region_id \in region_def_bitmap /\ Regs(regions[os_region_id]) = {Bottom}
      /\ regions[os_region_id].reg_idx = Bottom
  BY <1>0, SmRegs
<1>9. PICK yes \in BOOLEAN, no \in BOOLEAN : yes = TRUE /\ no = FALSE
  OBVIOUS
<1>10. \A n \in RegIds \ {Bottom} : f0[n].perm => pc[g] = "x_pmp" /\ n = regions[r].reg_idx
  BY <1>1, <1>2, <1>3, <1>6 DEF FileInv, FilePerm, Epm, EidOf
<1>11. /\ Guards(pmpcfg'[g], g)
       /\ pc'[g] = "enclave" => Fits(pmpcfg'[g], regions[s])
       /\ \A n \in RegIds \ {Bottom} : pmpcfg'[g][n].perm =>
             pc'[g] = "enclave" /\ n = regions[r].reg_idx
  <2>1. CASE pc[g] = "e_pmp"
    <3>1. PICK f1 : f1 = pmp_set_keystone(f0, os_region_id, no)
      OBVIOUS
    <3>2. f1 \in [RegIds -> PmpReg] /\ Guards(f1, g)
      BY <1>0, <1>7, <1>8, <3>1, SetType, GuardsSet
    <3>3. PICK f2 : f2 = pmp_set_keystone(f1, r, yes)
      OBVIOUS
    <3>4. f2 \in [RegIds -> PmpReg] /\ Guards(f2, g)
      BY <1>0, <1>4, <3>2, <3>3, SetType, GuardsSet
    <3>5. PICK f3 : f3 = pmp_set_keystone(f2, s, yes)
      OBVIOUS
    <3>6. f3 \in [RegIds -> PmpReg] /\ Guards(f3, g)
      BY <1>0, <1>4, <3>4, <3>5, SetType, GuardsSet
    <3>7. pmpcfg'[g] = f3 /\ pc'[g] = "enclave"
      BY <1>3, <1>4, <1>5, <1>6, <1>9, <2>1, <3>1, <3>3, <3>5 DEF set_enclave_regions, osm_pmp_set
    <3>8. Fits(f3, regions[s])
      BY ZenonT(40), <1>0, <1>4, <3>4, <3>5, SetWrites
    <3>9. \A n \in RegIds \ {Bottom} : f1[n].perm => f0[n].perm
      BY SMTT(30), <1>0, <1>8, <3>1, SetWrites
    <3>10. \A n \in RegIds \ {Bottom} : f2[n].perm => f1[n].perm \/ n = regions[r].reg_idx
      BY SMTT(30), <1>0, <1>4, <3>2, <3>3, SetWrites
    <3>11. \A n \in RegIds \ {Bottom} : f3[n].perm => f2[n].perm
      BY SMTT(30), <1>0, <1>4, <3>4, <3>5, SetWrites
    <3>12. \A n \in RegIds \ {Bottom} : f3[n].perm => n = regions[r].reg_idx
      BY <1>10, <2>1, <3>9, <3>10, <3>11
    <3> QED BY <3>6, <3>7, <3>8, <3>12
  <2>2. CASE pc[g] = "x_pmp"
    <3>1. PICK f1 : f1 = pmp_set_keystone(f0, r, no)
      OBVIOUS
    <3>2. f1 \in [RegIds -> PmpReg] /\ Guards(f1, g)
      BY <1>0, <1>4, <1>7, <3>1, SetType, GuardsSet
    <3>3. PICK f2 : f2 = pmp_set_keystone(f1, s, no)
      OBVIOUS
    <3>4. f2 \in [RegIds -> PmpReg] /\ Guards(f2, g)
      BY <1>0, <1>4, <3>2, <3>3, SetType, GuardsSet
    <3>5. PICK f3 : f3 = pmp_set_keystone(f2, os_region_id, yes)
      OBVIOUS
    <3>6. Guards(f3, g)
      BY <1>8, <3>4, <3>5, GuardsSet
    <3>7. pmpcfg'[g] = f3 /\ pc'[g] = "x_swap"
      BY <1>3, <1>4, <1>5, <1>6, <1>9, <2>2, <3>1, <3>3, <3>5 DEF set_enclave_regions, osm_pmp_set
    <3>8. \A n \in RegIds \ {Bottom} : f1[n].perm => f0[n].perm /\ n \notin Regs(regions[r])
      BY <1>0, <1>4, <1>9, <3>1, SetWrites
    <3>9. \A n \in RegIds \ {Bottom} : f2[n].perm => f1[n].perm
      BY <1>0, <1>4, <1>9, <3>2, <3>3, SetWrites
    <3>10. \A n \in RegIds \ {Bottom} : f3[n].perm => f2[n].perm
      BY SMTT(30), <1>0, <1>8, <3>4, <3>5, SetWrites
    <3>11. regions[r].reg_idx \in Regs(regions[r])
      BY DEF Regs
    <3>12. \A n \in RegIds \ {Bottom} : ~f3[n].perm
      BY <1>10, <3>8, <3>9, <3>10, <3>11
    <3> QED BY <3>6, <3>7, <3>12
  <2> QED BY <1>2, <2>1, <2>2
<1>12. regions' = regions /\ enclaves' = enclaves /\ frame' = frame /\ ipi' = ipi
  BY <1>5 DEF pmpVars
<1>13. \A f \in Harts : /\ pc'[f] \in {"c_meta", "c_hash", "d_read", "d_zero"} => pc[f] = pc'[f]
                        /\ pc[f] \in {"c_meta", "c_hash", "d_read", "d_zero"} => pc[f] = pc'[f]
  BY <1>5 DEF OnlyHart
<1>14. \A e \in Eids : Closed(e)' => Closed(e)
  BY <1>12, <1>13 DEF Closed, Alive
<1>15. ASSUME NEW h \in Harts PROVE Guards(pmpcfg[h], h)'
  <2>1. Guards(pmpcfg'[h], h)
    BY <1>5, <1>11, GuardsForm DEF FileInv
  <2> QED BY <1>12, <1>13, <1>14, <2>1 DEF Guards, Epm
<1>16. FileSm' /\ FileEpm' /\ FileSet'
  BY <1>15 DEF FileSm, FileEpm, FileSet, Guards
<1>17. FilePerm'
  <2> SUFFICES ASSUME NEW h \in Harts, NEW n \in RegIds \ {Bottom}, pmpcfg'[h][n].perm
               PROVE  pc'[h] \in {"enclave", "x_pmp"} /\ n = Epm(frame[h].eid)'.reg_idx
    BY DEF FilePerm
  <2>1. CASE h = g
    BY <1>1, <1>3, <1>11, <1>12, <2>1 DEF Epm, EidOf
  <2>2. CASE h # g
    <3>1. pc[h] \in {"enclave", "x_pmp"} /\ n = Epm(frame[h].eid).reg_idx /\ pc'[h] = pc[h]
      BY <1>5, <2>2 DEF FileInv, FilePerm, OnlyHart
    <3> QED BY <1>12, <3>1 DEF Epm
  <2> QED BY <2>1, <2>2
<1>18. FileUtm'
  <2> SUFFICES ASSUME NEW h \in Harts, pc'[h] = "enclave"
               PROVE  Fits(pmpcfg[h], Utm(frame[h].eid))'
    BY DEF FileUtm
  <2>1. CASE h = g
    BY <1>1, <1>3, <1>11, <1>12, <2>1 DEF Utm, EidOf
  <2>2. CASE h # g
    BY <1>5, <1>12, <2>2 DEF FileInv, FileUtm, OnlyHart, Utm
  <2> QED BY <2>1, <2>2
<1> QED BY <1>16, <1>17, <1>18 DEF FileInv

\* An IPI writes the private region of the call that sent it, and when it takes the region
\* out, that region guards nothing any more.
LEMMA IpiRegion ==
    ASSUME TypeInv, RunInv, OwnInv, IpiInv, NEW src \in Harts, ~Synced(src)
    PROVE  /\ ipi[src].rid \in region_def_bitmap \ {sm_region_id, os_region_id}
           /\ ~ipi[src].set =>
                 /\ \A e \in Eids : Closed(e) => enclaves[e].epm # ipi[src].rid
                 /\ \A f \in Harts : pc[f] = "c_meta" => frame[f].region # ipi[src].rid
<1>0. "epm" \in Kinds
  BY DEF Kinds
<1>1. PICK d \in Eids : d = EidOf(src)
  BY Shapes
<1>2. PICK r \in MaybeRegion : r = ipi[src].rid /\ r = frame[src].region
  BY Shapes DEF IpiInv
<1>3. pc[src] \in {"c_meta", "c_free_utm", "d_free"}
  BY DEF IpiInv
<1>4. PICK args \in Params : Has(d, "epm", r, args)
  <2>1. CASE pc[src] \in {"c_meta", "c_free_utm"}
    BY SMTT(30), <1>0, <1>1, <1>2, <2>1, QuietMoves, Shapes DEF Has, FrameRegion, EidOf
  <2>2. CASE pc[src] = "d_free"
    <3>1. r = enclaves[d].epm
      BY <1>1, <1>2, <2>2 DEF OwnInv, LookedUp, EidOf
    <3> QED BY ZenonT(40), <1>0, <1>1, <2>2, <3>1, QuietMoves, Shapes DEF Has, OwnRegion, EidOf
  <2> QED BY <1>3, <2>1, <2>2
<1>5. r \in region_def_bitmap \ {sm_region_id, os_region_id}
  BY <1>0, <1>4 DEF OwnInv, Backed, Holding
<1>6. ASSUME ~ipi[src].set, NEW e \in Eids, Closed(e) PROVE enclaves[e].epm # r
  <2>1. pc[src] \in {"c_free_utm", "d_free"}
    BY <1>3, <1>6 DEF IpiInv
  <2>2. pc[src] \in CLabels \cup DLabels
    BY <2>1 DEF CLabels, DLabels
  <2>3. ~Closed(d)
    <3>1. ~Alive(d) /\ Busy(src, d)
      BY <1>1, <2>2, CallNotAlive DEF Busy, EidOf
    <3>2. \A g \in Harts : g # src => ~Busy(g, d)
      BY <3>1 DEF RunInv, Alone
    <3>3. \A l \in {"c_hash", "d_read", "d_zero"} : l \in BLabels
      BY DEF BLabels, CLabels, DLabels
    <3> QED BY <2>1, <3>1, <3>2, <3>3 DEF Closed, Busy
  <2>4. Has(e, "epm", enclaves[e].epm, enclaves[e].params) /\ enclaves[e].params \in Params
    BY <1>6, ClosedHas, Shapes
  <2> QED BY SMTT(30), <1>0, <1>4, <1>6, <2>3, <2>4 DEF OwnInv, OneOwner
<1>7. ASSUME ~ipi[src].set, NEW f \in Harts, pc[f] = "c_meta" PROVE frame[f].region # r
  <2>1. pc[src] \in {"c_free_utm", "d_free"}
    BY <1>3, <1>7 DEF IpiInv
  <2>2. PICK e \in Eids : e = EidOf(f)
    BY Shapes
  <2>3. pc[src] \in BLabels /\ pc[f] \in BLabels
    BY <1>7, <2>1 DEF BLabels, CLabels, DLabels
  <2>4. e # d
    BY <1>1, <1>7, <2>1, <2>2, <2>3 DEF RunInv, Alone, Busy, EidOf
  <2>5. Has(e, "epm", frame[f].region, frame[f].args)
    BY <1>0, <1>7, <2>2, QuietMoves DEF Has, FrameRegion, EidOf
  <2> QED BY SMTT(30), <1>0, <1>4, <2>4, <2>5, Shapes DEF OwnInv, OneOwner
<1> QED BY <1>2, <1>5, <1>6, <1>7

\* Unsetting a region that nobody is closed by keeps all guards.
LEMMA GuardsUnset ==
    ASSUME TypeInv, OwnInv, RegistersExact, NEW h \in Harts, NEW file \in [RegIds -> PmpReg],
           NEW rid \in region_def_bitmap \ {sm_region_id}, Guards(file, h),
           \A e \in Eids : Closed(e) => enclaves[e].epm # rid,
           \A f \in Harts : pc[f] = "c_meta" => frame[f].region # rid,
           NEW new, new = pmp_unset(file, rid)
    PROVE  Guards(new, h)
<1>0. PMPTypeOK /\ BootKept
  BY DEF TypeInv, OwnInv
<1>1. ASSUME NEW r \in region_def_bitmap, r # rid, Bottom \notin Regs(regions[r]),
             Fits(file, regions[r])
      PROVE  Fits(new, regions[r])
  <2>1. \A n \in Regs(regions[r]) : n \in RegIds /\ n \notin Regs(regions[rid])
    BY <1>0, <1>1, RegsApart
  <2>2. \A n \in Regs(regions[r]) : new[n] = file[n]
    BY SMTT(30), <1>0, <2>1, UnsetWrites
  <2> QED BY <1>1, <2>2, FitsKept
<1>2. Fits(new, regions[sm_region_id])
  BY <1>0, <1>1, SmRegs DEF Guards
<1>3. ASSUME NEW e \in Eids, Closed(e), Bottom \notin Regs(Epm(e)) PROVE Fits(new, Epm(e))
  BY <1>1, <1>3, GuardedValid DEF Guards, Epm
<1>4. ASSUME NEW f \in Harts, pc[f] = "c_meta", h \notin ipi[f].todo,
             Bottom \notin Regs(regions[frame[f].region])
      PROVE  Fits(new, regions[frame[f].region])
  BY <1>1, <1>4, GuardedValid DEF Guards
<1> QED BY <1>2, <1>3, <1>4 DEF Guards

\* Serving an IPI keeps FileInv.
LEMMA FileIpi ==
    ASSUME TypeInv, RunInv, OwnInv, IpiInv, RegistersExact, FileInv,
           NEW g \in Harts, NEW src \in Harts, PmpIpi(g, src)
    PROVE  FileInv'
<1>0. PMPTypeOK /\ ~Synced(src) /\ pc[g] # "enclave" /\ pc' = pc
  BY IpiEffect DEF TypeInv, Synced, Interruptible, IpiInv
<1>1. /\ regions' = regions /\ enclaves' = enclaves /\ frame' = frame
      /\ sm_region_id' = sm_region_id
      /\ \A h \in Harts : h # g => pmpcfg'[h] = pmpcfg[h]
      /\ \A h \in Harts : h # src => ipi'[h] = ipi[h]
      /\ ipi'[src].todo = ipi[src].todo \ {g}
  BY IpiEffect DEF pmpVars
<1>2. PICK rid \in region_def_bitmap \ {sm_region_id, os_region_id} : rid = ipi[src].rid
  BY <1>0, IpiRegion
<1>3. PICK f0 \in [RegIds -> PmpReg] : f0 = pmpcfg[g]
  BY DEF TypeInv, FileType
<1>4. PICK new : new = pmpcfg'[g]
  OBVIOUS
<1>5. Guards(f0, g)
  BY <1>3, GuardsForm DEF FileInv
<1>6. PICK no \in BOOLEAN : no = FALSE
  OBVIOUS
<1>7. /\ Guards(new, g)
      /\ ipi[src].set => Fits(new, regions[rid])
      /\ \A n \in RegIds : new[n].perm => f0[n].perm
  <2>1. CASE ipi[src].set
    <3>1. new = pmp_set_keystone(f0, rid, no)
      BY <1>2, <1>3, <1>4, <1>6, <2>1, IpiEffect
    <3>2. Guards(new, g)
      BY <1>2, <1>5, <3>1, GuardsSet
    <3> QED BY SMTT(30), <1>0, <1>2, <1>6, <2>1, <3>1, <3>2, SetWrites
  <2>2. CASE ~ipi[src].set
    <3>1. new = pmp_unset(f0, rid)
      BY <1>2, <1>3, <1>4, <2>2, IpiEffect
    <3>2. Guards(new, g)
      BY <1>0, <1>2, <1>5, <2>2, <3>1, IpiRegion, GuardsUnset
    <3> QED BY <1>0, <1>2, <2>2, <3>1, <3>2, UnsetWrites
  <2> QED BY <2>1, <2>2
<1>8. \A e \in Eids : Closed(e)' <=> Closed(e)
  BY <1>0, <1>1 DEF Closed, Alive
<1>9. ASSUME NEW h \in Harts PROVE Guards(pmpcfg[h], h)'
  <2>1. Guards(pmpcfg'[h], h)
    BY <1>1, <1>4, <1>7, GuardsForm DEF FileInv
  <2>2. ASSUME NEW f \in Harts, pc[f] = "c_meta", h \notin ipi'[f].todo,
               Bottom \notin Regs(regions[frame[f].region])
        PROVE  Fits(pmpcfg'[h], regions[frame[f].region])
    <3>1. CASE h \notin ipi[f].todo
      BY <2>1, <2>2, <3>1 DEF Guards
    <3>2. CASE h \in ipi[f].todo
      <4>1. f = src /\ h = g
        BY <1>1, <2>2, <3>2
      <4>2. ipi[src].set /\ frame[src].region = rid
        BY <1>0, <1>2, <2>2, <4>1 DEF IpiInv
      <4> QED BY <1>4, <1>7, <4>1, <4>2
    <3> QED BY <3>1, <3>2
  <2> QED BY <1>0, <1>1, <1>8, <2>1, <2>2 DEF Guards, Epm
<1>10. FileSm' /\ FileEpm' /\ FileSet'
  BY <1>9 DEF FileSm, FileEpm, FileSet, Guards
<1>11. FilePerm'
  <2> SUFFICES ASSUME NEW h \in Harts, NEW n \in RegIds \ {Bottom}, pmpcfg'[h][n].perm
               PROVE  pc'[h] \in {"enclave", "x_pmp"} /\ n = Epm(frame[h].eid)'.reg_idx
    BY DEF FilePerm
  <2>1. pmpcfg[h][n].perm
    BY <1>1, <1>3, <1>4, <1>7
  <2> QED BY <1>0, <1>1, <2>1 DEF FileInv, FilePerm, Epm
<1>12. FileUtm'
  BY <1>0, <1>1 DEF FileInv, FileUtm, Utm
<1> QED BY <1>10, <1>11, <1>12 DEF FileInv

\* Every step of the monitor keeps FileInv.
LEMMA FileNext ==
    ASSUME SerialHost, TypeInv, RunInv, OwnInv, IpiInv, LeaveInv, RegistersExact, FileInv,
           [Next]_vars
    PROVE  FileInv'
<1>1. ASSUME UNCHANGED <<pmpVars, enclaves, pmpcfg, pc, frame, ipi>> PROVE FileInv'
  <2>1. \A e \in Eids : Closed(e)' <=> Closed(e)
    BY <1>1 DEF Closed, Alive
  <2>2. regions' = regions
    BY <1>1 DEF pmpVars
  <2> QED BY <1>1, <2>1, <2>2 DEF FileInv, FileSm, FilePerm, FileEpm, FileSet, FileUtm, Epm, Utm
<1>2. CASE Next
  BY <1>1, <1>2, FileCreate, FileDestroy, FileEnter, FileSwitch, FileIpi
     DEF Next, Monitor, Switch, HostWrite, EnclaveWrite, harts
<1> QED BY <1>1, <1>2 DEF vars, harts

\* What pages hold, when no private region uses the bottom register.
DyingReserved == \A e \in Eids : Kept(e) => Bottom \notin Regs(Epm(e))

OwnData == \A p \in Pages, e \in Eids : mem[p] = e => Kept(e) /\ p \in EpmPages(e)

MemInv == DyingReserved /\ OwnData /\ MeasuredIsLoaded

(***************************************************************************)
(* What the registers let a hart reach.                                    *)
(***************************************************************************)
\* A register file that holds a region matches every address of it.
LEMMA FitsMatches ==
    ASSUME NEW file \in [RegIds -> PmpReg], NEW R \in Region, R.addrmode # "OFF", Fits(file, R),
           NEW p \in Word, R.addr <= p, p < R.addr + R.size
    PROVE  pmp_matches(file, R.reg_idx, p)
<1>1. R.addr \in Nat /\ R.size \in Nat /\ p \in Nat /\ MAXUL \in Nat /\ R.reg_idx \in Nat
      /\ R.addr <= MAXUL
  BY SMTT(30), PMPAssumption DEF Region, Word, RegIds
<1>2. p < End(R)
  BY SMTT(30), <1>1 DEF End
<1>3. CASE R.addrmode = "NAPOT"
  BY ZenonT(40), <1>1, <1>2, <1>3 DEF Fits, pmp_matches
<1>4. CASE R.addrmode = "TOR"
  BY SMTT(30), <1>1, <1>2, <1>4 DEF Fits, pmp_matches
<1> QED BY <1>3, <1>4 DEF Region

\* And nothing else, unless it starts at register 0.
LEMMA MatchFits ==
    ASSUME NEW file \in [RegIds -> PmpReg], NEW R \in Region, Fits(file, R), R.addrmode # "OFF",
           R.reg_idx # 0 \/ R.addrmode = "NAPOT", R.addr # 0 \/ R.size # MAXUL,
           NEW p \in Word, pmp_matches(file, R.reg_idx, p)
    PROVE  R.addr <= p /\ p < R.addr + R.size
<1>1. R.addr \in Nat /\ R.size \in Nat /\ p \in Nat /\ R.reg_idx \in Nat
  BY SMTT(30), PMPAssumption DEF Region, Word, RegIds
<1>2. End(R) = R.addr + R.size
  BY DEF End
<1>3. CASE R.addrmode = "NAPOT"
  BY <1>1, <1>2, <1>3 DEF Fits, pmp_matches
<1>4. CASE R.addrmode = "TOR"
  BY SMTT(30), <1>1, <1>2, <1>4 DEF Fits, pmp_matches
<1> QED BY <1>3, <1>4 DEF Region

\* The memory of two regions, and of a region and the monitor, has no page in common.
LEMMA AreasApart ==
    ASSUME TypeInv, OwnInv, RegionsDisjoint, Modes,
           NEW e \in Eids, NEW k \in Kinds, NEW r \in MaybeRegion, NEW a \in Params, Has(e, k, r, a),
           NEW d \in Eids, NEW l \in Kinds, NEW s \in MaybeRegion, NEW b \in Params, Has(d, l, s, b),
           e # d \/ k # l
    PROVE  \A p \in Pages : ~(p \in Area(k, a) /\ p \in Area(l, b))
<1>1. r # s
  BY SMTT(30) DEF OwnInv, OneOwner
<1>2. /\ r \in RegionIds /\ Exclusive(r) /\ regions[r] \in Region
      /\ \A p \in Pages : p \in Area(k, a) <=>
                 regions[r].addr <= p /\ p < regions[r].addr + regions[r].size
  BY HasArea
<1>3. /\ s \in RegionIds /\ Exclusive(s) /\ regions[s] \in Region
      /\ \A p \in Pages : p \in Area(l, b) <=>
                 regions[s].addr <= p /\ p < regions[s].addr + regions[s].size
  BY HasArea
<1>4. \/ regions[r].addr + regions[r].size <= regions[s].addr
      \/ regions[s].addr + regions[s].size <= regions[r].addr
  BY <1>1, <1>2, <1>3 DEF RegionsDisjoint
<1>5. /\ regions[r].addr \in Nat /\ regions[r].size \in Nat
      /\ regions[s].addr \in Nat /\ regions[s].size \in Nat
  BY SMTT(30), <1>2, <1>3, PMPAssumption DEF Region, Word
<1>6. \A p \in Pages : p \in Nat
  BY SMTT(30), PMPAssumption DEF Pages, Word
<1> QED BY SMTT(30), <1>2, <1>3, <1>4, <1>5, <1>6

\* A hart in the host has no permission above the bottom register, and the private
\* entries come before it.
LEMMA HostReach ==
    ASSUME TypeInv, OwnInv, FileInv, RegionsDisjoint, Modes, DyingReserved,
           NEW h \in Harts, pc[h] = "host", NEW p \in Reach(h), NEW e \in Eids, Kept(e)
    PROVE  p \notin EpmPages(e)
<1> SUFFICES ASSUME p \in EpmPages(e) PROVE FALSE
  OBVIOUS
<1>0. PICK file \in [RegIds -> PmpReg] : file = pmpcfg[h]
  BY DEF TypeInv, FileType
<1>1. PICK n \in RegIds : /\ pmp_matches(file, n, p) /\ file[n].perm
                          /\ \A m \in 0 .. n - 1 : ~pmp_matches(file, m, p)
  BY <1>0 DEF Reach, pmp_allows
<1>2. n = Bottom
  BY SMTT(30), <1>0, <1>1 DEF FileInv, FilePerm
<1>3. PICK R : R = Epm(e)
  OBVIOUS
<1>4. /\ R \in Region /\ R.addrmode # "OFF" /\ "epm" \in Kinds
      /\ R.addr <= p /\ p < R.addr + R.size /\ p \in Pages
  BY SMTT(30), <1>3, KeptHas, HasArea DEF Epm, Kinds, Reach
<1>5. Bottom \notin Regs(R) /\ Fits(file, R)
  BY <1>0, <1>3, KeptHas DEF DyingReserved, FileInv, FileEpm
<1>6. pmp_matches(file, R.reg_idx, p)
  BY <1>4, <1>5, FitsMatches DEF Pages
<1>7. R.reg_idx \in 0 .. n - 1
  <2>1. R.reg_idx # Bottom /\ R.reg_idx \in RegIds
    BY <1>4, <1>5 DEF Regs, Region
  <2> QED BY SMTT(30), <1>2, <2>1, PMPAssumption DEF RegIds, Bottom
<1> QED BY <1>1, <1>6, <1>7

\* Register 0 holds the monitor's memory and never has a permission.
LEMMA MonitorReach ==
    ASSUME TypeInv, RunInv, OwnInv, LeaveInv, FileInv, RegistersExact, Modes,
           NEW h \in Harts, NEW p \in Reach(h)
    PROVE  p \notin PagesIn(SMM_BASE, SMM_SIZE)
<1> SUFFICES ASSUME p \in PagesIn(SMM_BASE, SMM_SIZE) PROVE FALSE
  OBVIOUS
<1>0. PICK file \in [RegIds -> PmpReg] : file = pmpcfg[h]
  BY DEF TypeInv, FileType
<1>1. PICK n \in RegIds : /\ pmp_matches(file, n, p) /\ file[n].perm
                          /\ \A m \in 0 .. n - 1 : ~pmp_matches(file, m, p)
  BY <1>0 DEF Reach, pmp_allows
<1>2. PICK R \in Region : R = regions[sm_region_id]
  BY BootIds DEF TypeInv, PMPTypeOK
<1>3. /\ R.reg_idx = 0 /\ R.addr = SMM_BASE /\ R.size = SMM_SIZE /\ R.addrmode # "OFF"
      /\ sm_region_id \in region_def_bitmap
  BY SMTT(30), <1>2, BootIds DEF OwnInv, BootKept, BootRegions, Modes
<1>4. Fits(file, R)
  BY <1>0, <1>2 DEF FileInv, FileSm
<1>5. p \in Word /\ R.addr <= p /\ p < R.addr + R.size
  BY <1>3 DEF PagesIn, Pages
<1>6. pmp_matches(file, 0, p)
  BY <1>3, <1>4, <1>5, FitsMatches
<1>7. n = 0
  BY SMTT(30), <1>1, <1>6, PMPAssumption DEF RegIds
<1>8. 0 \in RegIds \ {Bottom}
  BY SMTT(30), PMPAssumption DEF RegIds, Bottom
<1>9. pc[h] \in {"enclave", "x_pmp"} /\ 0 = Epm(EidOf(h)).reg_idx
  BY <1>0, <1>1, <1>7, <1>8 DEF FileInv, FilePerm, EidOf
<1>10. PICK r \in MaybeRegion : r = enclaves[EidOf(h)].epm
  BY Shapes
<1>11. r \in region_def_bitmap \ {sm_region_id, os_region_id}
  <2>1. Has(EidOf(h), "epm", r, enclaves[EidOf(h)].params) /\ "epm" \in Kinds
    BY <1>9, <1>10, UserHas DEF OwnRegion, Kinds
  <2> QED BY <2>1, Shapes DEF OwnInv, Backed, Holding
<1>12. r \in RegionIds /\ sm_region_id \in RegionIds
  BY <1>11, BootIds DEF TypeInv, PMPTypeOK
<1>13. 0 \in region_registers(r) /\ 0 \in region_registers(sm_region_id)
  BY <1>2, <1>3, <1>9, <1>10 DEF region_registers, Epm
<1> QED BY <1>3, <1>8, <1>11, <1>13 DEF RegistersExact

\* Inside an enclave the bottom register holds its shared buffer and the one other
\* register with a permission its private memory.
LEMMA EnclaveReach ==
    ASSUME TypeInv, RunInv, OwnInv, LeaveInv, FileInv, RegionsDisjoint, RegistersExact, Modes,
           DyingReserved, NEW h \in Harts, pc[h] = "enclave", NEW p \in Reach(h)
    PROVE  /\ cpus[h] = EidOf(h) /\ EidOf(h) \in Eids /\ Alive(EidOf(h))
           /\ p \in EpmPages(EidOf(h)) \cup UtmPages(EidOf(h))
<1>0. PICK file \in [RegIds -> PmpReg] : file = pmpcfg[h]
  BY DEF TypeInv, FileType
<1>1. PICK n \in RegIds : /\ pmp_matches(file, n, p) /\ file[n].perm
                          /\ \A m \in 0 .. n - 1 : ~pmp_matches(file, m, p)
  BY <1>0 DEF Reach, pmp_allows
<1>2. PICK d \in Eids : d = EidOf(h)
  BY Shapes
<1>3. cpus[h] = d /\ Alive(d)
  <2>1. cpus[h] = d
    BY <1>2 DEF TypeInv, InContext, EidOf
  <2>2. Busy(h, d) /\ pc[h] \in ELabels
    BY <1>2, HeldFacts DEF Busy, EidOf, ELabels
  <2> QED BY <2>1, <2>2, HeldFacts DEF RunInv, Holds, State, Alive
<1>4. p \in Pages /\ p \in Word /\ "epm" \in Kinds /\ "utm" \in Kinds /\ Kept(d)
  BY <1>3 DEF Reach, Pages, Kinds, Kept
<1>5. PICK r \in MaybeRegion, s \in MaybeRegion, args \in Params :
         r = enclaves[d].epm /\ s = enclaves[d].utm /\ args = enclaves[d].params
  BY Shapes
<1>6. Has(d, "epm", r, args) /\ Has(d, "utm", s, args)
  BY <1>2, <1>4, <1>5, UserHas DEF OwnRegion
<1>7. /\ regions[r] \in Region /\ regions[r].addrmode # "OFF"
      /\ regions[r].addr # 0 \/ regions[r].size # MAXUL
      /\ r \in region_def_bitmap \ {sm_region_id, os_region_id} /\ r \in RegionIds
      /\ p \in EpmPages(d) <=> regions[r].addr <= p /\ p < regions[r].addr + regions[r].size
  BY ZenonT(40), <1>4, <1>5, <1>6, HasArea DEF Area, Base, Size, EpmPages
<1>8. /\ regions[s] \in Region /\ regions[s].addrmode = "NAPOT" /\ regions[s].reg_idx = Bottom
      /\ regions[s].addr # 0 \/ regions[s].size # MAXUL
      /\ p \in UtmPages(d) <=> regions[s].addr <= p /\ p < regions[s].addr + regions[s].size
  <2>1. regions[s].addrmode = "NAPOT" /\ regions[s].reg_idx = Bottom
    BY ZenonT(40), <1>4, <1>6 DEF OwnInv, Backed, Holding
  <2> QED BY SMTT(30), <1>4, <1>5, <1>6, <2>1, HasArea DEF Area, Base, Size, UtmPages
<1>9. CASE n = Bottom
  <2>1. Fits(file, regions[s])
    BY <1>0, <1>2, <1>5 DEF FileInv, FileUtm, Utm, EidOf
  <2>2. regions[s].addr <= p /\ p < regions[s].addr + regions[s].size
    BY <1>1, <1>4, <1>8, <1>9, <2>1, MatchFits
  <2> QED BY <1>2, <1>3, <1>8, <2>2
<1>10. CASE n # Bottom
  <2>1. n = regions[r].reg_idx
    BY <1>0, <1>1, <1>2, <1>5, <1>10 DEF FileInv, FilePerm, Epm, EidOf
  <2>2. Fits(file, regions[r])
    BY <1>0, <1>4, <1>5, KeptHas DEF DyingReserved, FileInv, FileEpm, Epm
  <2>3. n # 0
    <3>1. /\ sm_region_id \in region_def_bitmap /\ 0 \in region_registers(sm_region_id)
      BY SMTT(30), BootIds DEF OwnInv, BootKept, BootRegions, region_registers
    <3>2. 0 \in RegIds \ {Bottom}
      BY SMTT(30), PMPAssumption DEF RegIds, Bottom
    <3>3. n \in region_registers(r)
      BY <2>1 DEF region_registers
    <3> QED BY SMTT(30), <1>7, <3>1, <3>2, <3>3 DEF RegistersExact
  <2>4. regions[r].addr <= p /\ p < regions[r].addr + regions[r].size
    BY <1>1, <1>4, <1>7, <2>1, <2>2, <2>3, MatchFits
  <2> QED BY <1>2, <1>3, <1>7, <2>4
<1> QED BY <1>9, <1>10

\* The invariants together say that enclaves are protected.
LEMMA ProtectedHolds ==
    ASSUME TypeInv, RunInv, OwnInv, LeaveInv, FileInv, RegionsDisjoint, RegistersExact, Modes, MemInv
    PROVE  Protected
<1>0. DyingReserved /\ OwnData
  BY DEF MemInv
<1>1. Isolation
  <2> SUFFICES ASSUME NEW h \in OutsideMonitor, NEW p \in Reach(h)
               PROVE  /\ pc[h] = "host" => \A e \in Eids : Alive(e) => p \notin EpmPages(e)
                      /\ pc[h] = "enclave" => p \in EpmPages(cpus[h]) \cup UtmPages(cpus[h])
                      /\ p \notin PagesIn(SMM_BASE, SMM_SIZE)
    BY DEF Isolation
  <2>1. h \in Harts
    BY DEF OutsideMonitor
  <2>2. ASSUME pc[h] = "host", NEW e \in Eids, Alive(e) PROVE p \notin EpmPages(e)
    BY <1>0, <2>1, <2>2, HostReach DEF Kept
  <2>3. ASSUME pc[h] = "enclave" PROVE p \in EpmPages(cpus[h]) \cup UtmPages(cpus[h])
    BY <1>0, <2>1, <2>3, EnclaveReach
  <2> QED BY <2>1, <2>2, <2>3, MonitorReach
<1>2. Secrecy
  <2> SUFFICES ASSUME NEW h \in OutsideMonitor, NEW p \in Reach(h)
               PROVE  /\ pc[h] = "host" => mem[p] \notin Eids
                      /\ pc[h] = "enclave" => mem[p] \notin Eids \ {cpus[h]}
    BY DEF Secrecy
  <2>1. h \in Harts /\ p \in Pages /\ "epm" \in Kinds /\ "utm" \in Kinds
    BY DEF OutsideMonitor, Reach, Kinds
  <2>2. ASSUME pc[h] = "host", mem[p] \in Eids PROVE FALSE
    <3>1. PICK e \in Eids : mem[p] = e
      BY <2>2
    <3> QED BY <1>0, <2>1, <2>2, <3>1, HostReach DEF OwnData
  <2>3. ASSUME pc[h] = "enclave", mem[p] \in Eids \ {cpus[h]} PROVE FALSE
    <3>1. PICK e \in Eids : mem[p] = e /\ e # cpus[h]
      BY <2>3
    <3>2. Kept(e) /\ p \in EpmPages(e)
      BY <1>0, <2>1, <3>1 DEF OwnData
    <3>3. PICK d \in Eids : d = cpus[h] /\ d = EidOf(h) /\ Alive(d)
                            /\ p \in EpmPages(d) \cup UtmPages(d)
      BY <1>0, <2>1, <2>3, EnclaveReach
    <3>4. PICK r \in MaybeRegion, a \in Params :
             Has(e, "epm", r, a) /\ p \in Area("epm", a)
      BY <3>2, KeptHas
    <3>5. PICK l \in Kinds, s \in MaybeRegion, b \in Params : Has(d, l, s, b) /\ p \in Area(l, b)
      <4>1. /\ Has(d, "epm", enclaves[d].epm, enclaves[d].params)
            /\ Has(d, "utm", enclaves[d].utm, enclaves[d].params)
        BY <3>3 DEF Has, OwnRegion
      <4>2. /\ enclaves[d].epm \in MaybeRegion /\ enclaves[d].utm \in MaybeRegion
            /\ enclaves[d].params \in Params
        BY Shapes
      <4>3. /\ EpmPages(d) = Area("epm", enclaves[d].params)
            /\ UtmPages(d) = Area("utm", enclaves[d].params)
        BY DEF EpmPages, UtmPages, Area, Base, Size
      <4> QED BY <2>1, <3>3, <4>1, <4>2, <4>3
    <3> QED BY <2>1, <3>1, <3>3, <3>4, <3>5, AreasApart
  <2> QED BY <2>2, <2>3
<1> QED BY <1>1, <1>2 DEF Protected

=============================================================================
