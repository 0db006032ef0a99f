--------------------------- MODULE EnclaveProofs ----------------------------
(***************************************************************************)
(* Proofs about the enclave life cycle of module Enclave, for any number   *)
(* of harts, enclaves, regions and PMP registers and any arguments of      *)
(* create: types, who owns an eid and who runs an enclave; then the kinds  *)
(* of steps that an enclave and its memory can tell apart.                 *)
(***************************************************************************)
EXTENDS StepProofs

\* Most leaves need no arithmetic: Zenon first, then the SMT solver.
USE Zenon, SMT

(***************************************************************************)
(* The types are invariant.                                                *)
(***************************************************************************)
\* The states an action writes are states; a count of harts stays a number.
LEMMA StateTypes ==
    /\ INVALID \in States /\ DESTROYING \in States /\ ALLOCATED \in States
    /\ FRESH \in States /\ STOPPED \in States /\ RUNNING \in States
    /\ 0 \in Counts /\ \A n \in Counts : n + 1 \in Counts /\ n - 1 \in Counts
  BY SMT DEF States, Counts, INVALID, DESTROYING, ALLOCATED, FRESH, STOPPED, RUNNING

\* Switching all regions of an enclave keeps a register file well formed.
LEMMA SetRegionsType ==
    ASSUME PMPTypeOK, NEW file \in [RegIds -> PmpReg], NEW e, NEW perm \in BOOLEAN
    PROVE  /\ set_enclave_regions(file, e, perm) \in [RegIds -> PmpReg]
           /\ osm_pmp_set(file, perm) \in [RegIds -> PmpReg]
<1>1. osm_pmp_set(file, perm) \in [RegIds -> PmpReg]
  BY SetType DEF osm_pmp_set
<1>2. PICK a, b : a = enclaves[e].epm /\ b = enclaves[e].utm
  OBVIOUS
<1>3. PICK f : f = IF a = NoRegion THEN file ELSE pmp_set_keystone(file, a, perm)
  OBVIOUS
<1>4. f \in [RegIds -> PmpReg]
  BY <1>3, SetType
<1>5. (IF b = NoRegion THEN f ELSE pmp_set_keystone(f, b, perm)) \in [RegIds -> PmpReg]
  BY <1>4, SetType
<1>6. set_enclave_regions(file, e, perm) \in [RegIds -> PmpReg]
  BY <1>2, <1>3, <1>5 DEF set_enclave_regions
<1> QED BY <1>1, <1>6

\* The values an action writes to start or end a call are of the right types.
LEMMA ConstTypes ==
    /\ 0 \in Eids /\ 0 \in Word /\ NoFrame \in Frames /\ NoParams \in Params
    /\ NoIpi \in [rid : MaybeRegion, set : BOOLEAN, todo : SUBSET Harts]
    /\ CleanCtx \in Contexts
    /\ \A h \in Harts : HostCtx(h) \in Contexts
    /\ \A e \in Eids : EnclaveCtx(e) \in Contexts
<1>1. 0 \in Eids /\ 0 \in Word
  BY SMTT(30), EnclaveAssumption, PMPAssumption DEF Eids, Word
<1> QED BY <1>1 DEF NoFrame, Frames, NoParams, Params, NoIpi, MaybeRegion, NoRegion, Contexts

\* The monitor starts with well-formed state.
LEMMA InitType == Init => TypeInv
<1> SUFFICES ASSUME Init PROVE TypeInv
  OBVIOUS
<1>1. PMPTypeOK
  BY PMPInitInv DEF Init, PMPInv
<1>2. EnclavesType
  <2>1. NoEnclave \in EnclaveRec({NoHash})
    BY ConstTypes, StateTypes DEF NoEnclave, EnclaveRec, MaybeRegion, NoRegion
  <2> QED BY <2>1 DEF Init, EnclavesType
<1>3. FileType
  <2>1. pmp_init \in [RegIds -> PmpReg]
    BY ConstTypes DEF pmp_init, UnsetReg, PmpReg
  <2>2. PICK f : f = pmp_set_keystone(pmp_init, sm_region_id, FALSE)
    OBVIOUS
  <2>3. f \in [RegIds -> PmpReg]
    BY <1>1, <2>1, <2>2, SetType
  <2>4. osm_pmp_set(f, TRUE) \in [RegIds -> PmpReg]
    BY <1>1, <2>3, SetRegionsType
  <2> QED BY <2>2, <2>4 DEF Init, FileType, BootFile
<1>4. HartType
  BY ConstTypes DEF Init, HartType
<1>5. CallType
  BY ConstTypes DEF Init, CallType, Labels
<1>6. IpiType
  BY ConstTypes DEF Init, IpiType
<1>7. MemType
  BY DEF Init, MemType, Data
<1>8. InContext
  BY DEF Init, InContext
<1> QED BY <1>1, <1>2, <1>3, <1>4, <1>5, <1>6, <1>7, <1>8 DEF TypeInv

TableKept ==
    /\ PMPTypeOK'
    /\ RegionsDisjoint => RegionsDisjoint'
    /\ RegistersExact => RegistersExact'
    /\ Modes => Modes'

\* Every step keeps the region table well formed, disjoint and its registers exact:
\* the pmp.c operations of create_enclave and destroy_enclave do.
LEMMA TableType ==
    ASSUME TypeInv, [Next]_vars
    PROVE  TableKept
<1> USE DEF TypeInv
<1>1. ASSUME NEW s \in Word, NEW z \in Word, NEW priority \in Priorities,
             pmp_region_init_atomic(s, z, priority, FALSE, get_free_region_idx)
      PROVE  TableKept
  <2>1. PICK rid : rid = get_free_region_idx
    OBVIOUS
  <2>2. pmp_region_init_atomic(s, z, priority, FALSE, rid)
    BY <1>1, <2>1
  <2>3. Modes => Modes'
    <3>1. PICK no \in BOOLEAN : no = FALSE
      OBVIOUS
    <3>2. pmp_region_init_atomic(s, z, priority, no, rid)
      BY <2>2, <3>1
    <3>3. /\ region_def_bitmap' = region_def_bitmap \cup {rid} /\ region_def_bitmap \subseteq RegionIds
          /\ \A i \in RegionIds : i # rid => regions'[i] = regions[i]
          /\ regions'[rid].addrmode # "OFF"
      BY SMTT(30), <3>2, AllocEffect DEF PMPTypeOK
    <3> QED BY <3>3 DEF Modes
  <2> QED BY <2>2, <2>3, AllocType, AllocDisjoint, AllocRegisters DEF TableKept
<1>2. ASSUME NEW rid, pmp_region_free_atomic(rid) PROVE TableKept
  <2>1. Modes => Modes'
    <3>1. region_def_bitmap' \subseteq region_def_bitmap /\ region_def_bitmap \subseteq RegionIds
      BY <1>2 DEF pmp_region_free_atomic, pmpVars, PMPTypeOK
    <3>2. \A i \in region_def_bitmap' : regions'[i] = regions[i]
      BY <1>2, <3>1 DEF pmp_region_free_atomic, pmpVars, PMPTypeOK
    <3> QED BY <3>1, <3>2 DEF Modes
  <2> QED BY <1>2, <2>1, FreeKeeps DEF TableKept
<1>3. ASSUME UNCHANGED pmpVars PROVE TableKept
  <2>1. regions' = regions /\ region_def_bitmap' = region_def_bitmap /\ reg_bitmap' = reg_bitmap
    BY <1>3 DEF pmpVars
  <2>2. PMPTypeOK'
    BY <2>1 DEF PMPTypeOK
  <2>3. RegionsDisjoint => RegionsDisjoint'
    BY <2>1 DEF RegionsDisjoint, Exclusive
  <2>4. RegistersExact => RegistersExact'
    BY SMTT(30), <2>1 DEF RegistersExact, region_registers, region_needs_two_entries
  <2>5. Modes => Modes'
    BY <2>1 DEF Modes
  <2> QED BY <2>2, <2>3, <2>4, <2>5 DEF TableKept
<1>4. ASSUME NEW g \in Harts, CreateEpm(g) PROVE TableKept
  <2>1. frame[g].args.epm \in Word /\ frame[g].args.epmsize \in Word
    BY ParamsWords DEF CallType, Frames
  <2>2. PICK s, z : s = frame[g].args.epm /\ z = frame[g].args.epmsize
    OBVIOUS
  <2>3. \/ UNCHANGED pmpVars
        \/ pmp_region_init_atomic(s, z, "ANY", FALSE, get_free_region_idx)
    BY <1>4, <2>2 DEF CreateEpm
  <2> QED BY <1>1, <1>3, <2>1, <2>2, <2>3 DEF Priorities
<1>5. ASSUME NEW g \in Harts, CreateUtm(g) PROVE TableKept
  <2>1. frame[g].args.utm \in Word /\ frame[g].args.utmsize \in Word
    BY ParamsWords DEF CallType, Frames
  <2>2. PICK s, z : s = frame[g].args.utm /\ z = frame[g].args.utmsize
    OBVIOUS
  <2>3. \/ UNCHANGED pmpVars
        \/ pmp_region_init_atomic(s, z, "BOTTOM", FALSE, get_free_region_idx)
    BY <1>5, <2>2 DEF CreateUtm
  <2> QED BY <1>1, <1>3, <2>1, <2>2, <2>3 DEF Priorities
<1>6. ASSUME NEW g \in Harts, CreateFreeUtm(g) \/ CreateFreeEpm(g) \/ DestroyFree(g) \/ DestroyUtm(g)
      PROVE  TableKept
  <2>1. PICK a, b, c : a = frame[g].shared /\ b = frame[g].region /\ c = enclaves[frame[g].eid].utm
    OBVIOUS
  <2>2. \/ UNCHANGED pmpVars
        \/ pmp_region_free_atomic(a) \/ pmp_region_free_atomic(b) \/ pmp_region_free_atomic(c)
    BY <1>6, <2>1 DEF CreateFreeUtm, CreateFreeEpm, DestroyFree, DestroyUtm
  <2> QED BY <1>2, <1>3, <2>2
<1>7. CASE UNCHANGED vars
  BY <1>3, <1>7 DEF vars
<1>8. CASE Next
  <2>1. PICK g \in Harts :
        \/ \E args \in CreateArgs : CreateEnclave(g, args)
        \/ \E e \in Eids : DestroyEnclave(g, e) \/ RunEnclave(g, e) \/ ResumeEnclave(g, e)
        \/ StopEnclave(g) \/ ExitEnclave(g)
        \/ Monitor(g)
        \/ \E src \in Harts : PmpIpi(g, src)
        \/ \E p \in Pages : HostWrite(g, p) \/ EnclaveWrite(g, p)
    BY <1>8 DEF Next
  <2>2. CASE Create(g)
    BY <2>2, <1>3, <1>4, <1>5, <1>6 DEF Create, CreateSet, CreateMeta, CreateHash,
         CreateUnset, CreateFreeEid
  <2>3. CASE Destroy(g)
    BY <2>3, <1>3, <1>6 DEF Destroy, DestroyRead, DestroyZero, DestroyUnset, DestroyClear,
         DestroyFreeEid
  <2>4. CASE Switch(g)
    BY <2>4, <1>3 DEF Switch, SwapToEnclave, PmpToEnclave, PmpToHost, SwapToHost
  <2> QED BY <1>3, <2>1, <2>2, <2>3, <2>4 DEF Monitor, CreateEnclave, DestroyEnclave,
        RunEnclave, ResumeEnclave, Enter, StopEnclave, ExitEnclave, Leave, PmpIpi, HostWrite,
        EnclaveWrite
<1> QED BY <1>7, <1>8

\* The edits the monitor makes to a frame and to an enclave record.
LEMMA FrameEdits ==
    ASSUME NEW f \in Frames
    PROVE  /\ \A r \in MaybeRegion : [f EXCEPT !.region = r] \in Frames
           /\ \A r \in MaybeRegion : [f EXCEPT !.shared = r] \in Frames
           /\ \A r \in MaybeRegion, b, z \in Word :
                 [f EXCEPT !.region = r, !.base = b, !.size = z] \in Frames
           /\ \A e \in Eids, args \in Params : [f EXCEPT !.eid = e, !.args = args] \in Frames
  BY DEF Frames

\* What the monitor writes into an enclave record keeps it one.
LEMMA RecEdits ==
    ASSUME NEW H, NEW r \in EnclaveRec(H)
    PROVE  /\ \A a, b \in MaybeRegion, p \in Params, c \in Contexts :
                 [r EXCEPT !.epm = a, !.utm = b, !.n_thread = 0, !.params = p, !.thread = c]
                 \in EnclaveRec(H)
           /\ \A a, b \in MaybeRegion, p \in Params :
                 [r EXCEPT !.n_thread = 0, !.params = p, !.epm = a, !.utm = b] \in EnclaveRec(H)
           /\ \A v : /\ r \in EnclaveRec(H \cup {v})
                     /\ [r EXCEPT !.hash = v, !.state = FRESH] \in EnclaveRec(H \cup {v})
<1>1. ASSUME NEW a \in MaybeRegion, NEW b \in MaybeRegion, NEW p \in Params, NEW c \in Contexts
      PROVE  [r EXCEPT !.epm = a, !.utm = b, !.n_thread = 0, !.params = p, !.thread = c]
                 \in EnclaveRec(H)
  BY StateTypes DEF EnclaveRec
<1>2. ASSUME NEW a \in MaybeRegion, NEW b \in MaybeRegion, NEW p \in Params
      PROVE  [r EXCEPT !.n_thread = 0, !.params = p, !.epm = a, !.utm = b] \in EnclaveRec(H)
  BY StateTypes DEF EnclaveRec
<1>3. ASSUME NEW v PROVE r \in EnclaveRec(H \cup {v})
  BY DEF EnclaveRec
<1>4. ASSUME NEW v PROVE [r EXCEPT !.hash = v, !.state = FRESH] \in EnclaveRec(H \cup {v})
  BY StateTypes DEF EnclaveRec
<1> QED BY <1>1, <1>2, <1>3, <1>4

\* The locals of the calls and the host's handles after any step.
LEMMA CallsType ==
    ASSUME TypeInv, [Next]_vars
    PROVE  CallType'
<1> USE ConstTypes DEF TypeInv, CallType
<1>1. ASSUME NEW g \in Harts, Create(g) PROVE CallType'
  <2>1. ASSUME CreateEpm(g) \/ CreateUtm(g) PROVE CallType'
    <3>1. PICK rid : rid = get_free_region_idx
      OBVIOUS
    <3>2. rid # -1 => rid \in RegionIds
      BY <3>1, FreeSlot
    <3>3. frame' # frame => rid \in RegionIds
      BY <2>1, <3>1, <3>2 DEF CreateEpm, CreateUtm, pmp_region_init_atomic, pmp_region_can_init
    <3>4. pc' \in [Harts -> Labels] /\ handles' = handles
      BY <2>1 DEF CreateEpm, CreateUtm, Goto, Labels
    <3>5. \/ frame' = frame
          \/ frame' = [frame EXCEPT ![g] = [frame[g] EXCEPT !.region = rid]]
          \/ frame' = [frame EXCEPT ![g] = [frame[g] EXCEPT !.shared = rid]]
      BY <2>1, <3>1 DEF CreateEpm, CreateUtm
    <3>6. frame' \in [Harts -> Frames]
      <4>1. PICK f \in Frames : f = frame[g]
        OBVIOUS
      <4>2. rid \in MaybeRegion => /\ [f EXCEPT !.region = rid] \in Frames
                                  /\ [f EXCEPT !.shared = rid] \in Frames
        BY FrameEdits
      <4> QED BY <3>3, <3>5, <4>1, <4>2 DEF MaybeRegion
    <3> QED BY <3>4, <3>6
  <2>2. ASSUME CreateSet(g) PROVE CallType'
    BY <2>2 DEF CreateSet, Goto, Labels
  <2>3. ASSUME CreateMeta(g) PROVE CallType'
    BY <2>3 DEF CreateMeta, Goto, Labels
  <2>4. ASSUME CreateHash(g) PROVE CallType'
    BY <2>4 DEF CreateHash, Goto, Labels, Frames
  <2>5. ASSUME CreateUnset(g) \/ CreateFreeUtm(g) \/ CreateFreeEpm(g) \/ CreateFreeEid(g)
        PROVE  CallType'
    BY ZenonT(40), <2>5 DEF CreateUnset, CreateFreeUtm, CreateFreeEpm, CreateFreeEid, Goto, Labels
  <2> QED BY <1>1, <2>1, <2>2, <2>3, <2>4, <2>5 DEF Create
<1>2. ASSUME NEW g \in Harts, Destroy(g) PROVE CallType'
  <2>1. ASSUME DestroyRead(g) PROVE CallType'
    <3>1. enclaves[frame[g].eid].epm \in MaybeRegion
      BY DEF EnclavesType, EnclaveRec, Frames
    <3>2. PICK rid \in MaybeRegion : rid = enclaves[frame[g].eid].epm
      BY <3>1
    <3>3. is_pmp_region_valid(rid) => regions[rid].addr \in Word /\ regions[rid].size \in Word
      BY DEF is_pmp_region_valid, PMPTypeOK, Region
    <3>4. PICK b \in Word, z \in Word :
              /\ b = IF is_pmp_region_valid(rid) THEN regions[rid].addr ELSE 0
              /\ z = IF is_pmp_region_valid(rid) THEN regions[rid].size ELSE 0
      BY <3>3
    <3>5. \/ frame' = frame
          \/ frame' = [frame EXCEPT ![g] = [frame[g] EXCEPT !.region = rid, !.base = b, !.size = z]]
      BY <2>1, <3>2, <3>4 DEF DestroyRead
    <3>6. frame' \in [Harts -> Frames]
      <4>1. PICK f \in Frames : f = frame[g]
        OBVIOUS
      <4>2. [f EXCEPT !.region = rid, !.base = b, !.size = z] \in Frames
        BY FrameEdits
      <4> QED BY <3>5, <4>1, <4>2
    <3>7. pc' \in [Harts -> Labels] /\ handles' = handles
      BY <2>1 DEF DestroyRead, Goto, Labels
    <3> QED BY <3>6, <3>7
  <2>2. ASSUME DestroyZero(g) \/ DestroyUnset(g) \/ DestroyFree(g) \/ DestroyUtm(g)
               \/ DestroyClear(g) \/ DestroyFreeEid(g)
        PROVE  CallType'
    BY ZenonT(40), <2>2 DEF DestroyZero, DestroyUnset, DestroyFree, DestroyUtm, DestroyClear,
         DestroyFreeEid, Goto, Labels
  <2> QED BY <1>2, <2>1, <2>2 DEF Destroy
<1>3. ASSUME NEW g \in Harts, Switch(g) PROVE CallType'
  <2>1. frame' = frame \/ frame' = [frame EXCEPT ![g] = NoFrame]
    BY <1>3 DEF Switch, SwapToEnclave, PmpToEnclave, PmpToHost, SwapToHost
  <2>2. handles' = handles /\ \E l \in Labels : pc' = [pc EXCEPT ![g] = l]
    BY <1>3 DEF Switch, SwapToEnclave, PmpToEnclave, PmpToHost, SwapToHost, Goto, Labels
  <2> QED BY <2>1, <2>2
<1>4. ASSUME NEW g \in Harts, NEW e \in Eids, frame' = [frame EXCEPT ![g] = [NoFrame EXCEPT !.eid = e]]
      PROVE  frame' \in [Harts -> Frames]
  BY <1>4 DEF Frames
<1>5. ASSUME NEW g \in Harts, NEW args \in CreateArgs, CreateEnclave(g, args) PROVE CallType'
  <2>1. PICK e \in Eids : frame' = [frame EXCEPT ![g] = [NoFrame EXCEPT !.eid = e, !.args = args]]
    BY <1>5 DEF CreateEnclave
  <2>2. frame' \in [Harts -> Frames]
    BY <2>1, FrameEdits DEF Params
  <2>3. handles' = handles /\ pc' \in [Harts -> Labels]
    BY <1>5 DEF CreateEnclave, Goto, Labels
  <2> QED BY <2>2, <2>3
<1>6. ASSUME NEW g \in Harts, NEW e \in Eids,
             DestroyEnclave(g, e) \/ RunEnclave(g, e) \/ ResumeEnclave(g, e)
      PROVE  CallType'
  BY <1>6, <1>4 DEF DestroyEnclave, RunEnclave, ResumeEnclave, Enter, Goto, Labels
<1>7. ASSUME NEW g \in Harts, StopEnclave(g) \/ ExitEnclave(g) PROVE CallType'
  <2>1. cpus[g] \in Eids
    BY <1>7 DEF StopEnclave, ExitEnclave, HartType
  <2> QED BY <1>7, <2>1, <1>4 DEF StopEnclave, ExitEnclave, Leave, Goto, Labels
<1>8. ASSUME UNCHANGED <<pc, frame, handles>> PROVE CallType'
  BY <1>8
<1>9. CASE Next
  BY <1>9, <1>1, <1>2, <1>3, <1>5, <1>6, <1>7, <1>8
     DEF Next, Monitor, PmpIpi, HostWrite, EnclaveWrite
<1> QED BY <1>8, <1>9 DEF vars

\* The enclave records after any step.
LEMMA EnclaveRecType ==
    ASSUME TypeInv, [Next]_vars
    PROVE  EnclavesType'
<1> USE ConstTypes, StateTypes DEF TypeInv
<1>1. PICK H : enclaves \in [Eids -> EnclaveRec(H)]
  BY DEF EnclavesType
<1>2. ASSUME UNCHANGED enclaves PROVE EnclavesType'
  BY <1>2 DEF EnclavesType
<1>3. ASSUME NEW e \in Eids, NEW r, NEW K, r \in EnclaveRec(K), H \subseteq K,
             enclaves' = [enclaves EXCEPT ![e] = r]
      PROVE  EnclavesType'
  <2>1. enclaves' \in [Eids -> EnclaveRec(K)]
    BY <1>1, <1>3 DEF EnclaveRec
  <2> QED BY <2>1 DEF EnclavesType
<1>4. ASSUME NEW g \in Harts, Create(g) PROVE EnclavesType'
  <2>1. frame[g].eid \in Eids /\ frame[g].args \in Params
        /\ frame[g].region \in MaybeRegion /\ frame[g].shared \in MaybeRegion
    BY DEF CallType, Frames
  <2>2. ASSUME CreateMeta(g) PROVE EnclavesType'
    <3>1. PICK e \in Eids, a \in MaybeRegion, b \in MaybeRegion, p \in Params :
              /\ e = frame[g].eid /\ a = frame[g].region /\ b = frame[g].shared
              /\ p = frame[g].args
      BY <2>1
    <3>2. enclaves' = [enclaves EXCEPT ![e] = [enclaves[e] EXCEPT !.epm = a, !.utm = b,
                              !.n_thread = 0, !.params = p, !.thread = CleanCtx]]
      BY <2>2, <3>1 DEF CreateMeta
    <3>3. PICK r \in EnclaveRec(H) : r = enclaves[e]
      BY <1>1
    <3>4. [r EXCEPT !.epm = a, !.utm = b, !.n_thread = 0, !.params = p, !.thread = CleanCtx]
             \in EnclaveRec(H)
      BY RecEdits
    <3> QED BY <1>3, <3>2, <3>3, <3>4
  <2>3. ASSUME CreateHash(g) PROVE EnclavesType'
    <3>1. PICK e \in Eids : e = frame[g].eid
      BY <2>1
    <3>2. PICK v : v = validate_and_hash_enclave(enclaves[e].params)
      OBVIOUS
    <3>3. enclaves' = [enclaves EXCEPT ![e].hash = v, ![e].state = FRESH]
      BY <2>3, <3>1, <3>2 DEF CreateHash
    <3>4. enclaves' \in [Eids -> EnclaveRec(H \cup {v})]
      <4>1. enclaves' = [enclaves EXCEPT ![e] = [enclaves[e] EXCEPT !.hash = v, !.state = FRESH]]
        BY <1>1, <3>3
      <4> QED BY <1>1, <4>1, RecEdits, ConstTypes
    <3> QED BY <3>4 DEF EnclavesType
  <2>4. ASSUME CreateFreeEid(g) PROVE EnclavesType'
    <3>1. enclaves' \in [Eids -> EnclaveRec(H)]
      BY SMTT(30), <1>1, <2>4, <2>1 DEF CreateFreeEid, encl_free_eid, EnclaveRec
    <3> QED BY <3>1 DEF EnclavesType
  <2> QED BY <1>2, <1>4, <2>2, <2>3, <2>4 DEF Create, CreateEpm, CreateUtm, CreateSet,
        CreateUnset, CreateFreeUtm, CreateFreeEpm
<1>5. ASSUME NEW g \in Harts, Destroy(g) PROVE EnclavesType'
  <2>1. frame[g].eid \in Eids
    BY DEF CallType, Frames
  <2>2. ASSUME DestroyClear(g) PROVE EnclavesType'
    <3>1. PICK e \in Eids : e = frame[g].eid
      BY <2>1
    <3>2. enclaves' = [enclaves EXCEPT ![e] = [enclaves[e] EXCEPT !.n_thread = 0,
                              !.params = NoParams, !.epm = NoRegion, !.utm = NoRegion]]
      BY <2>2, <3>1 DEF DestroyClear
    <3>3. NoRegion \in MaybeRegion
      BY DEF MaybeRegion
    <3>4. PICK r \in EnclaveRec(H) : r = enclaves[e]
      BY <1>1
    <3>5. [r EXCEPT !.n_thread = 0, !.params = NoParams, !.epm = NoRegion, !.utm = NoRegion]
             \in EnclaveRec(H)
      BY <3>3, RecEdits
    <3> QED BY <1>3, <3>2, <3>4, <3>5
  <2>3. ASSUME DestroyFreeEid(g) PROVE EnclavesType'
    <3>1. enclaves' \in [Eids -> EnclaveRec(H)]
      BY ZenonT(40), <1>1, <2>1, <2>3 DEF DestroyFreeEid, encl_free_eid, EnclaveRec
    <3> QED BY <3>1 DEF EnclavesType
  <2> QED BY <1>2, <1>5, <2>2, <2>3 DEF Destroy, DestroyRead, DestroyZero, DestroyUnset,
        DestroyFree, DestroyUtm
<1>6. ASSUME NEW g \in Harts, Switch(g) PROVE EnclavesType'
  <2>1. frame[g].eid \in Eids /\ regs[g] \in Contexts
    BY DEF CallType, Frames, HartType
  <2>2. ASSUME SwapToEnclave(g) \/ SwapToHost(g) PROVE EnclavesType'
    <3>1. enclaves' \in [Eids -> EnclaveRec(H)]
      BY SMTT(30), <1>1, <2>1, <2>2 DEF SwapToEnclave, SwapToHost, EnclaveRec
    <3> QED BY <3>1 DEF EnclavesType
  <2> QED BY <1>2, <1>6, <2>2 DEF Switch, PmpToEnclave, PmpToHost
<1>7. ASSUME NEW e \in Eids, NEW s \in States,
             enclaves' = [enclaves EXCEPT ![e].state = s]
      PROVE  EnclavesType'
  <2>1. enclaves' \in [Eids -> EnclaveRec(H)]
    BY <1>1, <1>7 DEF EnclaveRec
  <2> QED BY <2>1 DEF EnclavesType
<1>8. ASSUME NEW g \in Harts, NEW e \in Eids, Enter(g, e) PROVE EnclavesType'
  <2>1. enclaves' \in [Eids -> EnclaveRec(H)]
    BY ZenonT(40), <1>1, <1>8 DEF Enter, EnclaveRec
  <2> QED BY <2>1 DEF EnclavesType
<1>9. ASSUME NEW g \in Harts, Leave(g), cpus[g] # HostContext PROVE EnclavesType'
  <2>1. cpus[g] \in Eids
    BY <1>9 DEF HartType
  <2>2. enclaves' \in [Eids -> EnclaveRec(H)]
    BY SMTT(30), <1>1, <1>9, <2>1 DEF Leave, EnclaveRec
  <2> QED BY <2>2 DEF EnclavesType
<1>10. CASE Next
  <2>1. ALLOCATED \in States /\ DESTROYING \in States
    OBVIOUS
  <2> QED BY ZenonT(40), <1>10, <2>1, <1>2, <1>4, <1>5, <1>6, <1>7, <1>8, <1>9 DEF Next, Monitor,
        CreateEnclave, DestroyEnclave, RunEnclave, ResumeEnclave, StopEnclave, ExitEnclave,
        PmpIpi, HostWrite, EnclaveWrite
<1> QED BY <1>2, <1>10 DEF vars

\* Register files, contexts, IPIs and memory after any step.
LEMMA MachineType ==
    ASSUME TypeInv, [Next]_vars
    PROVE  FileType' /\ HartType' /\ IpiType' /\ MemType'
<1> USE DEF TypeInv
<1>1. FileType'
  <2>1. ASSUME NEW g \in Harts, NEW f, f \in [RegIds -> PmpReg], pmpcfg' = [pmpcfg EXCEPT ![g] = f]
        PROVE  FileType'
    BY <2>1 DEF FileType
  <2>2. ASSUME UNCHANGED pmpcfg PROVE FileType'
    BY <2>2 DEF FileType
  <2>3. ASSUME NEW g \in Harts, PmpToEnclave(g) PROVE FileType'
    <3>1. PICK file \in [RegIds -> PmpReg] : file = pmpcfg[g]
      BY DEF FileType
    <3> PICK e : e = frame[g].eid
      OBVIOUS
    <3>2. PICK f \in [RegIds -> PmpReg] : f = osm_pmp_set(file, FALSE)
      BY SetRegionsType
    <3>3. PICK k \in [RegIds -> PmpReg] : k = set_enclave_regions(f, e, TRUE)
      BY SetRegionsType
    <3> QED BY <2>1, <2>3, <3>1, <3>2, <3>3 DEF PmpToEnclave
  <2>4. ASSUME NEW g \in Harts, PmpToHost(g) PROVE FileType'
    <3>1. PICK file \in [RegIds -> PmpReg] : file = pmpcfg[g]
      BY DEF FileType
    <3> PICK e : e = frame[g].eid
      OBVIOUS
    <3>2. PICK f \in [RegIds -> PmpReg] : f = set_enclave_regions(file, e, FALSE)
      BY SetRegionsType
    <3>3. PICK k \in [RegIds -> PmpReg] : k = osm_pmp_set(f, TRUE)
      BY SetRegionsType
    <3> QED BY <2>1, <2>4, <3>1, <3>2, <3>3 DEF PmpToHost
  <2>5. ASSUME NEW g \in Harts, NEW src \in Harts, PmpIpi(g, src) PROVE FileType'
    <3>1. PICK file \in [RegIds -> PmpReg] : file = pmpcfg[g]
      BY DEF FileType
    <3> PICK rid : rid = ipi[src].rid
      OBVIOUS
    <3>2. /\ pmp_set_keystone(file, rid, FALSE) \in [RegIds -> PmpReg]
          /\ pmp_unset(file, rid) \in [RegIds -> PmpReg]
      BY SetType
    <3>3. PICK k \in [RegIds -> PmpReg] :
              k = IF ipi[src].set THEN pmp_set_keystone(file, rid, FALSE) ELSE pmp_unset(file, rid)
      BY <3>2
    <3> QED BY <2>1, <2>5, <3>1, <3>3 DEF PmpIpi
  <2>6. ASSUME NEW g \in Harts, Switch(g) PROVE FileType'
    BY <2>2, <2>3, <2>4, <2>6 DEF Switch, SwapToEnclave, SwapToHost
  <2>7. CASE Next
    BY <2>2, <2>5, <2>6, <2>7, CallTouches, StepTouches DEF Next, Monitor
  <2> QED BY <2>2, <2>7 DEF vars, harts
<1>2. HartType'
  <2>1. ASSUME UNCHANGED <<cpus, regs>> PROVE HartType'
    BY <2>1 DEF HartType
  <2>2. ASSUME NEW g \in Harts, Switch(g) PROVE HartType'
    <3>1. frame[g].eid \in Eids
      BY DEF CallType, Frames
    <3>2. enclaves[frame[g].eid].thread \in Contexts
      BY <3>1 DEF EnclavesType, EnclaveRec
    <3>3. EnclaveCtx(frame[g].eid) \in Contexts
      BY <3>1, ConstTypes
    <3> QED BY <2>2, <3>1, <3>2, <3>3 DEF Switch, SwapToEnclave, SwapToHost, PmpToEnclave,
          PmpToHost, HartType
  <2>3. CASE Next
    BY <2>1, <2>2, <2>3, CallTouches, StepTouches DEF Next, Monitor
  <2> QED BY <2>1, <2>3 DEF vars, harts
<1>3. IpiType'
  <2>1. ASSUME UNCHANGED ipi PROVE IpiType'
    BY <2>1 DEF IpiType
  <2>2. ASSUME NEW g \in Harts, NEW set \in BOOLEAN, send_pmp_ipi(g, frame[g].region, set)
        PROVE  IpiType'
    <3>1. frame[g].region \in MaybeRegion
      BY DEF CallType, Frames
    <3> QED BY <2>2, <3>1 DEF send_pmp_ipi, IpiType
  <2>3. ASSUME NEW g \in Harts, NEW src \in Harts, PmpIpi(g, src) PROVE IpiType'
    <3>1. PICK i \in [rid : MaybeRegion, set : BOOLEAN, todo : SUBSET Harts] : i = ipi[src]
      BY DEF IpiType
    <3>2. [i EXCEPT !.todo = i.todo \ {g}] \in [rid : MaybeRegion, set : BOOLEAN, todo : SUBSET Harts]
      OBVIOUS
    <3>3. ipi' = [ipi EXCEPT ![src] = NoIpi]
          \/ ipi' = [ipi EXCEPT ![src] = [i EXCEPT !.todo = i.todo \ {g}]]
      <4>1. ipi' = [ipi EXCEPT ![src] = IF ipi[src].todo = {g} THEN NoIpi
                                       ELSE [ipi[src] EXCEPT !.todo = ipi[src].todo \ {g}]]
        BY <2>3 DEF PmpIpi
      <4> QED BY <3>1, <4>1
    <3> QED BY <3>2, <3>3, ConstTypes DEF IpiType
  <2>4. ASSUME NEW g \in Harts, Create(g) \/ Destroy(g) PROVE IpiType'
    BY <2>1, <2>2, <2>4
       DEF Create, CreateEpm, CreateUtm, CreateSet, CreateMeta, CreateHash, CreateUnset,
         CreateFreeUtm, CreateFreeEpm, CreateFreeEid, Destroy, DestroyRead, DestroyZero,
         DestroyUnset, DestroyFree, DestroyUtm, DestroyClear, DestroyFreeEid
  <2>5. CASE Next
    BY <2>1, <2>3, <2>4, <2>5, CallTouches, StepTouches DEF Next, Monitor
  <2> QED BY <2>1, <2>5 DEF vars
<1>4. MemType'
  <2>1. ASSUME UNCHANGED mem PROVE MemType'
    BY <2>1 DEF MemType
  <2>2. ASSUME NEW S, mem' = [p \in Pages |-> IF p \in S THEN Zeros ELSE mem[p]]
        PROVE  MemType'
    BY <2>2 DEF MemType, Data
  <2>3. ASSUME NEW g \in Harts, Create(g) PROVE MemType'
    <3>1. PICK S : S = PagesIn(frame[g].args.utm, frame[g].args.utmsize)
      OBVIOUS
    <3> QED BY <2>1, <2>2, <2>3, <3>1
       DEF Create, CreateEpm, CreateUtm, CreateSet, CreateMeta, CreateHash, CreateUnset,
         CreateFreeUtm, CreateFreeEpm, CreateFreeEid
  <2>4. ASSUME NEW g \in Harts, Destroy(g) PROVE MemType'
    <3>1. PICK S : S = PagesIn(frame[g].base, frame[g].size)
      OBVIOUS
    <3> QED BY <2>1, <2>2, <2>4, <3>1 DEF Destroy, DestroyRead, DestroyZero, DestroyUnset,
          DestroyFree, DestroyUtm, DestroyClear, DestroyFreeEid
  <2>5. ASSUME NEW g \in Harts, NEW p \in Pages, HostWrite(g, p) PROVE MemType'
    BY <2>5 DEF HostWrite, MemType, Data
  <2>6. ASSUME NEW g \in Harts, NEW p \in Pages, EnclaveWrite(g, p) PROVE MemType'
    <3>1. cpus[g] \in Eids
      BY <2>6 DEF EnclaveWrite, InContext, CallType, Frames
    <3> QED BY <2>6, <3>1 DEF EnclaveWrite, MemType, Data
  <2>7. CASE Next
    BY <2>1, <2>3, <2>4, <2>5, <2>6, <2>7, CallTouches, StepTouches DEF Next, Monitor
  <2> QED BY <2>1, <2>7 DEF vars
<1> QED BY <1>1, <1>2, <1>3, <1>4

\* A hart in an enclave stays in the context of it.
LEMMA ContextStep ==
    ASSUME TypeInv, [Next]_vars
    PROVE  InContext'
<1> USE DEF TypeInv, InContext, CallType, HartType
<1>1. ASSUME UNCHANGED <<pc, cpus, frame>> PROVE InContext'
  BY <1>1
<1>2. ASSUME NEW g \in Harts, NEW l, l # "enclave", Goto(g, l), UNCHANGED cpus,
             \A h \in Harts : h # g => frame'[h] = frame[h]
      PROVE  InContext'
  BY <1>2 DEF Goto
<1>3. ASSUME NEW g \in Harts, Create(g) PROVE InContext'
  BY <1>2, <1>3
     DEF Create, CreateEpm, CreateUtm, CreateSet, CreateMeta, CreateHash, CreateUnset,
         CreateFreeUtm, CreateFreeEpm, CreateFreeEid, harts
<1>4. ASSUME NEW g \in Harts, Destroy(g) PROVE InContext'
  BY <1>2, <1>4 DEF Destroy, DestroyRead, DestroyZero, DestroyUnset,
         DestroyFree, DestroyUtm, DestroyClear, DestroyFreeEid, harts
<1>5. ASSUME NEW g \in Harts, SwapToEnclave(g) \/ PmpToHost(g) PROVE InContext'
  BY <1>2, <1>5 DEF SwapToEnclave, PmpToHost
<1>6. ASSUME NEW g \in Harts, PmpToEnclave(g) PROVE InContext'
  BY <1>6 DEF PmpToEnclave, Goto
<1>7. ASSUME NEW g \in Harts, SwapToHost(g) PROVE InContext'
  BY <1>7 DEF SwapToHost, Goto
<1>8. ASSUME NEW g \in Harts, NEW args \in CreateArgs, CreateEnclave(g, args) PROVE InContext'
  BY <1>2, <1>8 DEF CreateEnclave, harts
<1>9. ASSUME NEW g \in Harts, NEW e \in Eids,
             DestroyEnclave(g, e) \/ RunEnclave(g, e) \/ ResumeEnclave(g, e)
      PROVE  InContext'
  BY <1>2, <1>9 DEF DestroyEnclave, RunEnclave, ResumeEnclave, Enter, harts
<1>10. ASSUME NEW g \in Harts, StopEnclave(g) \/ ExitEnclave(g) PROVE InContext'
  BY <1>2, <1>10 DEF StopEnclave, ExitEnclave, Leave, harts
<1>11. CASE Next
  BY <1>11, <1>1, <1>3, <1>4, <1>5, <1>6, <1>7, <1>8, <1>9, <1>10
     DEF Next, Monitor, Switch, PmpIpi, HostWrite, EnclaveWrite, harts
<1> QED BY <1>1, <1>11 DEF vars, harts

\* Every step keeps the types.
LEMMA TypeStep == TypeInv /\ [Next]_vars => TypeInv'
  BY TableType, CallsType, EnclaveRecType, MachineType, ContextStep DEF TypeInv, TableKept

\* Whatever the host does, serialised or not, and however the calls of several harts
\* interleave: regions that exclude overlap stay disjoint and the register bitmap
\* above the bottom register stays exact, because every pmp.c operation create_enclave
\* and destroy_enclave use keeps both.
THEOREM RegionTable == Spec => [](RegionsDisjoint /\ RegistersExact)
<1>1. Init => TypeInv /\ RegionsDisjoint /\ RegistersExact
  BY InitType, PMPInitInv DEF Init, PMPInv
<1>2. TypeInv /\ RegionsDisjoint /\ RegistersExact /\ [Next]_vars
        => (TypeInv /\ RegionsDisjoint /\ RegistersExact)'
  BY TypeStep, TableType DEF TableKept
<1> QED BY <1>1, <1>2, PTL DEF Spec

\* EidOwned and SingleRunner, from the form that is inductive.
LEMMA RunInvImplies == TypeInv /\ RunInv => EidOwned /\ SingleRunner
<1> SUFFICES ASSUME TypeInv, RunInv PROVE EidOwned /\ SingleRunner
  OBVIOUS
<1>1. \A h \in Harts, e \in Eids : Inside(h, e) <=> pc[h] \in ELabels /\ frame[h].eid = e
  BY DEF TypeInv, InContext, Inside, ELabels
<1>2. \A h \in Harts, e \in Eids :
          /\ Inside(h, e) => Busy(h, e) /\ State(e) = RUNNING
          /\ Busy(h, e) /\ State(e) = RUNNING => Inside(h, e)
  BY <1>1, HeldFacts DEF RunInv, Holds, Busy
<1>3. SingleRunner
  BY <1>2 DEF SingleRunner, RunInv, Alone, Entered, Counted, State, Count
<1>4. \A h \in Harts, e \in Eids :
          /\ Creating(h, e) => pc[h] \in CLabels /\ frame[h].eid = e
          /\ Destroying(h, e) => pc[h] \in DLabels /\ frame[h].eid = e
  BY DEF Creating, Destroying, CLabels, DLabels
<1>5. \A h \in Harts, e \in Eids :
          /\ Creating(h, e) => Busy(h, e) /\ State(e) = ALLOCATED
          /\ Destroying(h, e) => Busy(h, e) /\ State(e) = DESTROYING
  BY <1>4, HeldFacts DEF RunInv, Holds, Busy
<1>6. EidOwned
  BY <1>5 DEF EidOwned, Owns, Alive, State, RunInv, Alone, Handed
<1> QED BY <1>3, <1>6

\* What a step of hart g on enclave d must establish: it takes d when no hart has it,
\* or has it already, and leaves the state of d matching its new label.
LEMMA RunStep ==
    ASSUME RunInv, NEW g \in Harts, NEW d \in Eids, OnlyHart(g),
           pc[g] \in BLabels => frame[g].eid = d,
           pc'[g] \in BLabels => frame'[g].eid = d,
           pc[g] \in BLabels \/ State(d) \notin {ALLOCATED, DESTROYING, RUNNING},
           pc'[g] \in BLabels => State(d)' = Held(pc'[g]),
           State(d)' \in {ALLOCATED, DESTROYING, RUNNING} => pc'[g] \in BLabels,
           d \in handles' => State(d)' \in {FRESH, STOPPED, RUNNING},
           Count(d)' = IF State(d)' = RUNNING THEN 1 ELSE 0,
           \A e \in Eids : e # d => State(e)' = State(e) /\ Count(e)' = Count(e)
                                    /\ (e \in handles' => e \in handles)
    PROVE  RunInv'
<1>1. \A h \in Harts : h # g => pc'[h] = pc[h] /\ \A e \in Eids : Busy(h, e)' <=> Busy(h, e)
  BY DEF OnlyHart, Busy
<1>2. \A e \in Eids : e # d => ~Busy(g, e) /\ ~Busy(g, e)'
  BY DEF Busy
<1>3. \A h \in Harts : h # g => ~Busy(h, d)
  <2>1. CASE pc[g] \in BLabels
    BY <2>1 DEF Busy, RunInv, Alone
  <2>2. CASE State(d) \notin {ALLOCATED, DESTROYING, RUNNING}
    BY <2>2, HeldFacts DEF RunInv, Holds
  <2> QED BY <2>1, <2>2
<1>4. \A h \in Harts : Busy(h, d)' => h = g
  BY <1>1, <1>3
<1>5. \A h \in Harts, e \in Eids : e # d /\ Busy(h, e)' => h # g /\ Busy(h, e)
  BY <1>1, <1>2
<1>6. Holds'
  <2> SUFFICES ASSUME NEW h \in Harts, NEW e \in Eids, Busy(h, e)'
               PROVE  State(e)' = Held(pc'[h])
    BY DEF Holds
  <2>1. CASE e = d
    BY <1>4, <2>1 DEF Busy
  <2>2. CASE e # d
    <3>1. h # g /\ State(e) = Held(pc[h])
      BY <1>5, <2>2 DEF RunInv, Holds
    <3> QED BY <1>1, <2>2, <3>1
  <2> QED BY <2>1, <2>2
<1>7. Alone'
  <2> SUFFICES ASSUME NEW k \in Harts, NEW h \in Harts, NEW e \in Eids, Busy(k, e)', Busy(h, e)'
               PROVE  k = h
    BY DEF Alone
  <2>1. CASE e = d
    BY <1>4, <2>1
  <2>2. CASE e # d
    BY <1>5, <2>2 DEF RunInv, Alone
  <2> QED BY <2>1, <2>2
<1>8. Handed'
  BY DEF RunInv, Handed
<1>9. Entered'
  <2> SUFFICES ASSUME NEW e \in Eids, State(e)' \in {ALLOCATED, DESTROYING, RUNNING}
               PROVE  \E h \in Harts : Busy(h, e)'
    BY DEF Entered
  <2>1. CASE e = d
    BY <2>1 DEF Busy
  <2>2. CASE e # d
    <3>1. PICK h \in Harts : Busy(h, e)
      BY <2>2 DEF RunInv, Entered
    <3> QED BY <1>1, <1>2, <2>2, <3>1
  <2> QED BY <2>1, <2>2
<1>10. Counted'
  <2> SUFFICES ASSUME NEW e \in Eids PROVE Count(e)' = IF State(e)' = RUNNING THEN 1 ELSE 0
    BY DEF Counted
  <2>1. Count(e) = IF State(e) = RUNNING THEN 1 ELSE 0
    BY DEF RunInv, Counted
  <2> QED BY <2>1
<1> QED BY <1>6, <1>7, <1>8, <1>9, <1>10 DEF RunInv

\* What a step must establish that leaves every enclave to the hart that has it.
LEMMA RunSame ==
    ASSUME RunInv, handles' = handles,
           \A h \in Harts : /\ pc'[h] \in BLabels <=> pc[h] \in BLabels
                            /\ pc[h] \in BLabels => /\ Held(pc'[h]) = Held(pc[h])
                                                    /\ frame'[h].eid = frame[h].eid,
           \A e \in Eids : State(e)' = State(e) /\ Count(e)' = Count(e)
    PROVE  RunInv'
<1>1. \A h \in Harts, e \in Eids : Busy(h, e)' <=> Busy(h, e)
  BY DEF Busy
<1>2. Holds'
  BY <1>1 DEF RunInv, Holds, Busy
<1>3. Alone' /\ Handed'
  BY <1>1 DEF RunInv, Alone, Handed
<1>4. Entered'
  BY <1>1 DEF RunInv, Entered
<1>5. Counted'
  BY DEF RunInv, Counted
<1> QED BY <1>2, <1>3, <1>4, <1>5 DEF RunInv

\* create_enclave and destroy_enclave keep RunInv.
LEMMA RunStepCreate ==
    ASSUME TypeInv, RunInv, NEW g \in Harts, Create(g) \/ Destroy(g)
    PROVE  RunInv'
<1>1. PICK d \in Eids : d = frame[g].eid
  BY DEF TypeInv, CallType, Frames
<1>2. ASSUME NEW labels, labels \in {CLabels, DLabels}, pc[g] \in labels
      PROVE  /\ pc[g] \in BLabels /\ Held(pc[g]) \in {ALLOCATED, DESTROYING}
             /\ State(d) = Held(pc[g]) /\ State(d) # RUNNING /\ Count(d) = 0 /\ d \notin handles
  <2>1. pc[g] \in BLabels /\ Held(pc[g]) \in {ALLOCATED, DESTROYING}
    BY <1>2, HeldFacts
  <2>2. State(d) = Held(pc[g])
    BY <1>1, <2>1 DEF RunInv, Holds, Busy
  <2>3. State(d) \notin {FRESH, STOPPED, RUNNING}
    BY <2>1, <2>2, StateFacts
  <2>4. Count(d) = IF State(d) = RUNNING THEN 1 ELSE 0
    BY DEF RunInv, Counted
  <2> QED BY <2>1, <2>2, <2>3, <2>4 DEF RunInv, Handed
<1>3. ASSUME NEW labels, labels \in {CLabels, DLabels}, Keeps(g, labels) PROVE RunInv'
  <2>1. pc[g] \in labels /\ pc'[g] \in labels
    BY <1>3 DEF Keeps
  <2>2. /\ pc[g] \in BLabels /\ pc'[g] \in BLabels /\ Held(pc'[g]) = Held(pc[g])
    BY <1>3, <2>1, HeldFacts
  <2>3. /\ OnlyHart(g) /\ frame'[g].eid = d /\ handles' = handles
        /\ State(d)' = State(d) /\ Count(d)' \in {Count(d), 0}
        /\ \A e \in Eids : e # d => State(e)' = State(e) /\ Count(e)' = Count(e)
    BY <1>1, <1>3 DEF Keeps
  <2>4. State(d) = Held(pc[g]) /\ State(d) # RUNNING /\ Count(d) = 0 /\ d \notin handles
    BY <1>2, <1>3, <2>1
  <2> QED BY <1>1, <2>2, <2>3, <2>4, RunStep
<1>4. ASSUME NEW labels, NEW s, labels \in {CLabels, DLabels}, s \in {FRESH, INVALID},
             Returns(g, labels, s), handles' = IF s = FRESH THEN handles \cup {d} ELSE handles
      PROVE  RunInv'
  <2>1. pc[g] \in labels /\ pc'[g] = "host" /\ OnlyHart(g)
    BY <1>4 DEF Returns
  <2>2. pc[g] \in BLabels /\ Count(d) = 0 /\ d \notin handles
    BY <1>2, <1>4, <2>1
  <2>3. State(d)' = s /\ Count(d)' = 0
        /\ \A e \in Eids : e # d => State(e)' = State(e) /\ Count(e)' = Count(e)
    BY <1>1, <1>4, <2>2 DEF Returns
  <2>4. pc'[g] \notin BLabels /\ s \notin {ALLOCATED, DESTROYING, RUNNING}
    BY <1>4, <2>1, HeldFacts, StateFacts
  <2>5. d \in handles' => s = FRESH
    BY <1>4, <2>2
  <2>6. \A e \in Eids : e # d => (e \in handles' => e \in handles)
    BY <1>4
  <2> QED BY <1>1, <2>1, <2>2, <2>3, <2>4, <2>5, <2>6, RunStep
<1>5. FRESH # INVALID
  BY SMT DEF FRESH, INVALID
<1> QED BY SMTT(30), <1>1, <1>3, <1>4, <1>5, CreateSteps, DestroySteps

\* So do the calls that begin a create or a destroy, if the host keeps one call per enclave.
LEMMA RunStepCalls ==
    ASSUME SerialHost, TypeInv, RunInv, NEW g \in Harts
    PROVE  /\ \A args \in CreateArgs : CreateEnclave(g, args) => RunInv'
           /\ \A e \in Eids : DestroyEnclave(g, e) => RunInv'
<1>1. frame \in [Harts -> Frames] /\ pc \in [Harts -> Labels]
  BY DEF TypeInv, CallType
<1>2. PICK H : enclaves \in [Eids -> EnclaveRec(H)]
  BY DEF TypeInv, EnclavesType
<1>3. ASSUME NEW d \in Eids, NEW s, NEW l \in BLabels, OnlyHart(g),
             pc[g] = "host", pc'[g] = l, frame'[g].eid = d, s = Held(l), s # RUNNING,
             State(d) \in {INVALID, FRESH, STOPPED}, State(d)' = s,
             \A e \in Eids : (e # d => State(e)' = State(e)) /\ Count(e)' = Count(e),
             handles' \subseteq handles, d \notin handles'
      PROVE  RunInv'
  <2>1. State(d) \notin {ALLOCATED, DESTROYING, RUNNING} /\ pc[g] \notin BLabels
    BY <1>3, StateFacts, HeldFacts
  <2>2. Count(d) = IF State(d) = RUNNING THEN 1 ELSE 0
    BY DEF RunInv, Counted
  <2>3. Count(d)' = IF State(d)' = RUNNING THEN 1 ELSE 0
    BY <1>3, <2>1, <2>2
  <2> QED BY <1>3, <2>1, <2>3, RunStep
<1>4. ASSUME NEW args \in CreateArgs, CreateEnclave(g, args) PROVE RunInv'
  <2>1. PICK d \in Eids : /\ enclaves[d].state = INVALID
                          /\ enclaves' = [enclaves EXCEPT ![d].state = ALLOCATED]
                          /\ frame' = [frame EXCEPT ![g] = [NoFrame EXCEPT !.eid = d, !.args = args]]
    BY <1>4 DEF CreateEnclave
  <2>2. \A e \in Eids : /\ e # d => enclaves'[e].state = enclaves[e].state
                        /\ enclaves'[e].n_thread = enclaves[e].n_thread
    BY <1>2, <2>1 DEF EnclaveRec
  <2>3. enclaves'[d].state = ALLOCATED
    BY <1>2, <2>1 DEF EnclaveRec
  <2>4. frame'[g].eid = d
    BY <1>1, <2>1 DEF NoFrame
  <2>5. OnlyHart(g) /\ pc[g] = "host" /\ pc'[g] = "c_epm" /\ handles' = handles
    BY <1>1, <1>4, <2>1 DEF CreateEnclave, HostCall, Goto, OnlyHart
  <2>6. d \notin handles
    BY <2>1, StateFacts DEF RunInv, Handed, State
  <2>7. "c_epm" \in BLabels /\ ALLOCATED = Held("c_epm") /\ ALLOCATED # RUNNING
    BY LabelFacts, HeldFacts, StateFacts
  <2> QED BY <1>3, <2>1, <2>2, <2>3, <2>4, <2>5, <2>6, <2>7 DEF State, Count
<1>5. ASSUME NEW d \in Eids, DestroyEnclave(g, d) PROVE RunInv'
  <2>1. /\ enclaves' = [enclaves EXCEPT ![d].state = DESTROYING]
        /\ handles' = handles \ {d} /\ d \in handles
        /\ frame' = [frame EXCEPT ![g] = [NoFrame EXCEPT !.eid = d]]
    BY <1>5 DEF DestroyEnclave, HostMayDestroy
  <2>2. \A e \in Eids : /\ e # d => enclaves'[e].state = enclaves[e].state
                        /\ enclaves'[e].n_thread = enclaves[e].n_thread
    BY <1>2, <2>1 DEF EnclaveRec
  <2>3. enclaves'[d].state = DESTROYING
    BY <1>2, <2>1 DEF EnclaveRec
  <2>4. frame'[g].eid = d
    BY <1>1, <2>1 DEF NoFrame
  <2>5. OnlyHart(g) /\ pc[g] = "host" /\ pc'[g] = "d_read"
    BY <1>1, <1>5, <2>1 DEF DestroyEnclave, HostCall, Goto, OnlyHart
  <2>6. enclaves[d].state \in {FRESH, STOPPED}
    <3>1. State(d) \in {FRESH, STOPPED, RUNNING} /\ State(d) <= STOPPED
      BY <1>5, <2>1 DEF RunInv, Handed, State, DestroyEnclave
    <3> QED BY SMT, <3>1 DEF State, STOPPED, RUNNING
  <2>7. "d_read" \in BLabels /\ DESTROYING = Held("d_read") /\ DESTROYING # RUNNING
    BY LabelFacts, HeldFacts, StateFacts
  <2> QED BY <1>3, <2>1, <2>2, <2>3, <2>4, <2>5, <2>6, <2>7 DEF State, Count
<1> QED BY <1>4, <1>5

\* So do run, resume, stop and exit, and the switches of context they lead to.
LEMMA RunStepSwitch ==
    ASSUME TypeInv, RunInv, NEW g \in Harts
    PROVE  /\ \A e \in Eids : RunEnclave(g, e) \/ ResumeEnclave(g, e) => RunInv'
           /\ StopEnclave(g) \/ ExitEnclave(g) => RunInv'
           /\ Switch(g) => RunInv'
<1>1. frame \in [Harts -> Frames] /\ pc \in [Harts -> Labels] /\ cpus \in [Harts -> Eids \cup {HostContext}]
  BY DEF TypeInv, CallType, HartType
<1>2. PICK H : enclaves \in [Eids -> EnclaveRec(H)]
  BY DEF TypeInv, EnclavesType
<1>3. \A e \in Eids : Count(e) = IF State(e) = RUNNING THEN 1 ELSE 0
  BY DEF RunInv, Counted
<1>4. ASSUME NEW d \in Eids, RunEnclave(g, d) \/ ResumeEnclave(g, d) PROVE RunInv'
  <2>1. enclaves[d].state \in {FRESH, STOPPED} /\ enclaves[d].n_thread = 0
    <3>1. Count(d) = IF State(d) = RUNNING THEN 1 ELSE 0
      BY <1>3
    <3>2. STOPPED # RUNNING /\ FRESH # RUNNING /\ ~(1 < MAX_ENCL_THREADS)
      BY SMT DEF STOPPED, FRESH, RUNNING, MAX_ENCL_THREADS
    <3> QED BY <1>4, <3>1, <3>2 DEF RunEnclave, ResumeEnclave, State, Count
  <2>2. /\ enclaves' = [enclaves EXCEPT ![d].state = RUNNING, ![d].n_thread = @ + 1]
        /\ frame' = [frame EXCEPT ![g] = [NoFrame EXCEPT !.eid = d]]
        /\ handles' = handles /\ pc[g] = "host"
    BY <1>4 DEF RunEnclave, ResumeEnclave, Enter, HostCall
  <2>3. pc'[g] \in {"e_load", "e_swap"} /\ \A h \in Harts : h # g => pc'[h] = pc[h]
    BY <1>1, <1>4 DEF RunEnclave, ResumeEnclave, Goto
  <2>4. frame'[g].eid = d /\ OnlyHart(g)
    BY <1>1, <2>2, <2>3 DEF NoFrame, OnlyHart
  <2>5. /\ enclaves'[d].state = RUNNING /\ enclaves'[d].n_thread = 1
        /\ \A e \in Eids : e # d => enclaves'[e] = enclaves[e]
    BY SMTT(30), <1>2, <2>1, <2>2 DEF EnclaveRec
  <2>6. pc[g] \notin BLabels /\ pc'[g] \in BLabels /\ Held(pc'[g]) = RUNNING
    BY <2>2, <2>3, LabelFacts, HeldFacts
  <2>7. State(d) \notin {ALLOCATED, DESTROYING, RUNNING}
    BY <2>1, StateFacts DEF State
  <2>8. /\ State(d)' = RUNNING /\ Count(d)' = 1
        /\ \A e \in Eids : e # d => State(e)' = State(e) /\ Count(e)' = Count(e)
    BY <2>5 DEF State, Count
  <2> QED BY <2>2, <2>4, <2>6, <2>7, <2>8, RunStep
<1>5. ASSUME StopEnclave(g) \/ ExitEnclave(g) PROVE RunInv'
  <2>1. pc[g] = "enclave" /\ Leave(g)
    BY <1>5 DEF StopEnclave, ExitEnclave, Leave
  <2>2. PICK d \in Eids : d = cpus[g] /\ d = frame[g].eid
    BY <1>1, <2>1 DEF TypeInv, InContext, Frames
  <2>3. enclaves[d].state = RUNNING /\ enclaves[d].n_thread = 1
    BY <1>3, <2>1, <2>2 DEF Leave, State, Count
  <2>4. /\ enclaves' = [enclaves EXCEPT ![d].n_thread = @ - 1, ![d].state = STOPPED]
        /\ frame' = [frame EXCEPT ![g] = [NoFrame EXCEPT !.eid = d]]
        /\ handles' = handles
    BY <2>1, <2>2, <2>3 DEF Leave
  <2>5. pc'[g] = "x_pmp" /\ OnlyHart(g)
    BY <1>1, <2>1, <2>4 DEF Leave, Goto, OnlyHart
  <2>6. /\ enclaves'[d].state = STOPPED /\ enclaves'[d].n_thread = 0
        /\ \A e \in Eids : e # d => enclaves'[e] = enclaves[e]
    BY SMTT(30), <1>2, <2>3, <2>4 DEF EnclaveRec
  <2>7. pc'[g] \notin BLabels /\ pc[g] \in BLabels
    BY <2>1, <2>5, LabelFacts, HeldFacts
  <2>8. /\ State(d)' = STOPPED /\ Count(d)' = 0 /\ STOPPED \notin {ALLOCATED, DESTROYING, RUNNING}
        /\ \A e \in Eids : e # d => State(e)' = State(e) /\ Count(e)' = Count(e)
    BY <2>6, StateFacts DEF State, Count
  <2> QED BY <2>2, <2>4, <2>5, <2>7, <2>8, RunStep
<1>6. ASSUME Switch(g) PROVE RunInv'
  <2>1. handles' = handles /\ OnlyHart(g)
    BY <1>1, <1>6 DEF Switch, SwapToEnclave, PmpToEnclave, PmpToHost, SwapToHost, Goto, OnlyHart
  <2>2. \A e \in Eids : State(e)' = State(e) /\ Count(e)' = Count(e)
    <3>1. PICK d : d = frame[g].eid
      OBVIOUS
    <3>2. enclaves' = enclaves \/ enclaves' = [enclaves EXCEPT ![d].thread = regs[g]]
      BY <1>6, <3>1 DEF Switch, SwapToEnclave, PmpToEnclave, PmpToHost, SwapToHost
    <3>3. \A e \in Eids : /\ enclaves'[e].state = enclaves[e].state
                          /\ enclaves'[e].n_thread = enclaves[e].n_thread
      BY SMT, <1>2, <3>2 DEF EnclaveRec
    <3> QED BY <3>3 DEF State, Count
  <2>3. \/ pc[g] \in ELabels /\ pc'[g] \in ELabels /\ frame'[g].eid = frame[g].eid
        \/ pc[g] \notin BLabels /\ pc'[g] \notin BLabels
    BY <1>1, <1>6, LabelFacts DEF Switch, SwapToEnclave, PmpToEnclave, PmpToHost, SwapToHost, Goto
  <2>4. /\ pc'[g] \in BLabels <=> pc[g] \in BLabels
        /\ pc[g] \in BLabels => Held(pc'[g]) = Held(pc[g]) /\ frame'[g].eid = frame[g].eid
    BY <2>3, HeldFacts
  <2> QED BY <2>1, <2>2, <2>4, RunSame DEF OnlyHart
<1> QED BY <1>4, <1>5, <1>6

\* No enclave exists at the start.
LEMMA RunInit == Init => RunInv
<1> SUFFICES ASSUME Init PROVE RunInv
  OBVIOUS
<1>1. \A h \in Harts, e \in Eids : ~Busy(h, e)
  BY HeldFacts DEF Init, Busy
<1>2. \A e \in Eids : State(e) = INVALID /\ Count(e) = 0
  BY DEF Init, NoEnclave, State, Count
<1>3. INVALID \notin {ALLOCATED, DESTROYING, RUNNING} /\ handles = {}
  BY StateFacts DEF Init
<1> QED BY <1>1, <1>2, <1>3 DEF RunInv, Holds, Alone, Handed, Entered, Counted

\* Every step keeps RunInv, if the host keeps one handle per enclave.
LEMMA RunNext ==
    ASSUME SerialHost, TypeInv, RunInv, [Next]_vars
    PROVE  RunInv'
<1>1. ASSUME UNCHANGED <<pc, frame, enclaves, handles>> PROVE RunInv'
  BY <1>1, RunSame DEF State, Count
<1>2. CASE Next
  BY <1>1, <1>2, RunStepCreate, RunStepCalls, RunStepSwitch
     DEF Next, Monitor, PmpIpi, HostWrite, EnclaveWrite
<1> QED BY <1>1, <1>2 DEF vars

\* For every number of harts and enclaves, if the host keeps one handle per enclave
\* (SerialHost): an eid being created or destroyed has a single owner and the state
\* that says so (EidOwned), and an enclave is RUNNING exactly while one hart is in it,
\* which n_thread counts (SingleRunner).  run_enclave does not check n_thread and
\* nothing is locked between the steps of a call; the states carry the argument.
THEOREM OwnersAndRunners ==
    ASSUME SerialHost
    PROVE  Spec => []HeldByOneHart
<1>1. Init => TypeInv /\ RunInv
  BY InitType, RunInit
<1>2. TypeInv /\ RunInv /\ [Next]_vars => (TypeInv /\ RunInv)'
  BY TypeStep, RunNext
<1>3. TypeInv /\ RunInv => HeldByOneHart
  <2> SUFFICES ASSUME TypeInv, RunInv PROVE TypeOK
    BY RunInvImplies DEF HeldByOneHart
  <2>1. PICK H : enclaves \in [Eids -> EnclaveRec(H)]
    BY DEF TypeInv, EnclavesType
  <2>2. \A e \in Eids : enclaves[e].n_thread \in 0 .. MAX_ENCL_THREADS
    <3>1. \A e \in Eids : Count(e) \in {0, 1}
      BY DEF RunInv, Counted
    <3> QED BY SMT, <3>1 DEF Count, MAX_ENCL_THREADS
  <2>3. \A e \in Eids : /\ enclaves[e].state \in INVALID .. RUNNING
                        /\ enclaves[e].epm \in MaybeRegion /\ enclaves[e].utm \in MaybeRegion
                        /\ enclaves[e].params \in CreateArgs \cup {NoParams}
                        /\ enclaves[e].thread \in Contexts
    BY <2>1 DEF EnclaveRec, States, Params
  <2> QED BY <2>2, <2>3 DEF TypeInv, TypeOK, FileType, HartType, CallType, IpiType, MemType,
        Frames, Params
<1> QED BY <1>1, <1>2, <1>3, PTL DEF Spec

(***************************************************************************)
(* What a step does to the enclaves that have memory of their own.         *)
(***************************************************************************)
Same(e) ==
    /\ Life(e)' = Life(e) /\ (Kept(e)' <=> Kept(e))
    /\ Kept(e) => EpmPages(e)' = EpmPages(e) /\ Epm(e)' = Epm(e)
    /\ enclaves'[e].hash = enclaves[e].hash
    /\ enclaves'[e].state = FRESH =>
          enclaves[e].state = FRESH /\ enclaves'[e].params = enclaves[e].params

Erasing == {"d_read", "d_zero"}

\* When nothing that the mapping shows of an enclave changes.
LEMMA SameState ==
    ASSUME NEW e \in Eids, enclaves'[e].state = enclaves[e].state, Kept(e)' <=> Kept(e),
           \/ /\ enclaves'[e].params = enclaves[e].params
              /\ Kept(e) => Epm(e)' = Epm(e)
           \/ ~Kept(e) /\ enclaves[e].state # FRESH,
           enclaves'[e].hash = enclaves[e].hash
    PROVE  Same(e)
<1>1. Life(e)' = Life(e)
  BY DEF Life
<1>2. Kept(e) => EpmPages(e)' = EpmPages(e) /\ Epm(e)' = Epm(e)
  BY DEF EpmPages
<1> QED BY <1>1, <1>2 DEF Same

\* A step that starts and ends no destruction and keeps the records.
LEMMA SameAll ==
    ASSUME SameTable, regions' = regions,
           \A h \in Harts : /\ pc'[h] \in Erasing <=> pc[h] \in Erasing
                            /\ pc[h] \in Erasing => frame'[h].eid = frame[h].eid
    PROVE  \A e \in Eids : Same(e)
<1> SUFFICES ASSUME NEW e \in Eids PROVE Same(e)
  OBVIOUS
<1>1. Kept(e)' <=> Kept(e)
  BY DEF Kept, Erasing, Alive, SameTable
<1>2. Epm(e)' = Epm(e)
  BY DEF Epm, SameTable
<1> QED BY <1>1, <1>2, SameState DEF SameTable

\* A step of hart g on enclave d.
Steps(g, d) ==
    /\ OnlyHart(g) /\ EncOthers(d)
    /\ pc[g] \in BLabels => EidOf(g) = d
    /\ pc'[g] \in BLabels => EidOf(g)' = d
    /\ pc[g] \in BLabels \/ enclaves[d].state \notin {ALLOCATED, DESTROYING, RUNNING}

\* A step for d changes nothing that is shown of other enclaves.
LEMMA SameOthers ==
    ASSUME TypeInv, RunInv, OwnInv, NEW g \in Harts, NEW d \in Eids, Steps(g, d),
           \A e \in Eids, k \in Kinds, r \in MaybeRegion, args \in Params :
               e # d /\ Has(e, k, r, args) => regions'[r] = regions[r]
    PROVE  /\ \A e \in Eids : e # d => Same(e)
           /\ Kept(d) <=> Alive(d) \/ pc[g] \in Erasing
           /\ Kept(d)' <=> Alive(d)' \/ pc'[g] \in Erasing
<1>0. \A l \in Erasing : l \in BLabels
  BY DEF Erasing, BLabels, DLabels
<1>1. \A h \in Harts : h # g => ~Busy(h, d)
  <2>1. CASE pc[g] \in BLabels
    BY <2>1 DEF Busy, RunInv, Alone, EidOf, Steps
  <2>2. CASE enclaves[d].state \notin {ALLOCATED, DESTROYING, RUNNING}
    BY <2>2, HeldFacts DEF RunInv, Holds, State
  <2> QED BY <2>1, <2>2 DEF Steps
<1>2. \A h \in Harts : h # g => pc'[h] = pc[h] /\ frame'[h] = frame[h]
  BY DEF OnlyHart, Steps
<1>3. \A h \in Harts : h # g /\ frame[h].eid = d => pc[h] \notin Erasing
  BY <1>0, <1>1 DEF Busy
<1>4. /\ pc[g] \in Erasing => frame[g].eid = d
      /\ pc'[g] \in Erasing => frame'[g].eid = d
  BY <1>0 DEF EidOf, Steps
<1>5. Kept(d) <=> Alive(d) \/ pc[g] \in Erasing
  BY <1>3, <1>4 DEF Kept, Erasing
<1>6. Kept(d)' <=> Alive(d)' \/ pc'[g] \in Erasing
  BY <1>2, <1>3, <1>4 DEF Kept, Erasing
<1>7. ASSUME NEW e \in Eids, e # d PROVE Same(e)
  <2>1. enclaves'[e] = enclaves[e]
    BY <1>7 DEF EncOthers, Steps
  <2>2. \A h \in Harts : pc'[h] \in Erasing /\ frame'[h].eid = e <=>
                            pc[h] \in Erasing /\ frame[h].eid = e
    BY SMTT(30), <1>2, <1>4, <1>7
  <2>3. Kept(e)' <=> Kept(e)
    BY <2>1, <2>2 DEF Kept, Erasing, Alive
  <2>4. Kept(e) => Epm(e)' = Epm(e)
    <3> SUFFICES ASSUME Kept(e) PROVE Epm(e)' = Epm(e)
      OBVIOUS
    <3>1. /\ Has(e, "epm", enclaves[e].epm, enclaves[e].params) /\ "epm" \in Kinds
          /\ enclaves[e].epm \in MaybeRegion /\ enclaves[e].params \in Params
      BY KeptHas DEF Kinds
    <3>2. regions'[enclaves[e].epm] = regions[enclaves[e].epm]
      BY <1>7, <3>1
    <3> QED BY <2>1, <3>2 DEF Epm
  <2> QED BY <2>1, <2>3, <2>4, SameState
<1> QED BY <1>5, <1>6, <1>7

\* The kinds of steps, as far as enclaves and memory can tell them apart.
Others(d) == \A e \in Eids : e # d => Same(e)

Still == \A e \in Eids : Same(e)

Lives(d, from, to) ==
    /\ Others(d) /\ mem' = mem
    /\ enclaves[d].state = from /\ enclaves'[d].state = to /\ Kept(d) /\ Kept(d)'
    /\ EpmPages(d)' = EpmPages(d) /\ Epm(d)' = Epm(d) /\ enclaves'[d].hash = enclaves[d].hash

Measures(d) ==
    /\ Others(d) /\ mem' = mem
    /\ enclaves[d].state = ALLOCATED /\ enclaves'[d].state = FRESH /\ ~Kept(d) /\ Kept(d)'
    /\ Has(d, "epm", enclaves[d].epm, enclaves[d].params)
    /\ is_create_args_valid(enclaves[d].params)
    /\ enclaves'[d].params = enclaves[d].params /\ enclaves'[d].epm = enclaves[d].epm
    /\ regions' = regions
    /\ enclaves'[d].hash = validate_and_hash_enclave(enclaves[d].params)

Erases(d) ==
    /\ Others(d) /\ enclaves[d].state = DESTROYING /\ enclaves'[d].state = DESTROYING
    /\ Kept(d) /\ ~Kept(d)' /\ enclaves'[d].hash = enclaves[d].hash
    /\ mem' = [p \in Pages |-> IF p \in EpmPages(d) THEN Zeros ELSE mem[p]]

Releases(d) ==
    /\ Others(d) /\ mem' = mem /\ ~Kept(d) /\ ~Kept(d)'
    /\ enclaves[d].state = DESTROYING /\ enclaves'[d].state = INVALID
    /\ enclaves'[d].hash = enclaves[d].hash

EnclaveStores(d, p) ==
    /\ Still /\ enclaves[d].state = RUNNING /\ p \in EpmPages(d)
    /\ mem' = [mem EXCEPT ![p] = d]

HostStores(p) ==
    /\ Still /\ \E h \in Harts : pc[h] = "host" /\ p \in Reach(h)
    /\ mem' = [mem EXCEPT ![p] = OsData]

Clears(d, s, args) ==
    /\ Still /\ Has(d, "utm", s, args)
    /\ mem' = [p \in Pages |-> IF p \in Area("utm", args) THEN Zeros ELSE mem[p]]

Kinded ==
    \/ Still /\ mem' = mem
    \/ \E d \in Eids :
          \/ Measures(d) \/ Erases(d) \/ Releases(d)
          \/ Lives(d, FRESH, RUNNING) \/ Lives(d, STOPPED, RUNNING) \/ Lives(d, RUNNING, STOPPED)
          \/ Lives(d, FRESH, DESTROYING) \/ Lives(d, STOPPED, DESTROYING)
    \/ \E d \in Eids, p \in Pages : EnclaveStores(d, p)
    \/ \E p \in Pages : HostStores(p)
    \/ \E d \in Eids, s \in MaybeRegion, args \in Params : Clears(d, s, args)

\* Steps of the harts that are no monitor calls, and of the switches.
LEMMA KindedQuiet ==
    ASSUME TypeInv, RunInv, NEW g \in Harts,
           \/ Switch(g) \/ \E src \in Harts : PmpIpi(g, src)
           \/ \E p \in Pages : HostWrite(g, p) \/ EnclaveWrite(g, p)
    PROVE  Kinded
<1>1. CASE SwapToEnclave(g) \/ SwapToHost(g)
  <2>1. /\ OnlyHart(g) /\ SameTable /\ regions' = regions /\ mem' = mem
        /\ pc[g] \notin Erasing /\ pc'[g] \notin Erasing
    BY <1>1, SwapEffect DEF pmpVars, Erasing
  <2>2. Still
    BY <2>1, SameAll DEF OnlyHart, Still
  <2> QED BY <2>1, <2>2 DEF Kinded
<1>2. CASE PmpToEnclave(g) \/ PmpToHost(g)
  <2>1. /\ OnlyHart(g) /\ SameTable /\ regions' = regions /\ mem' = mem
        /\ pc[g] \notin Erasing /\ pc'[g] \notin Erasing
    BY <1>2, PmpEffect DEF pmpVars, Erasing, SameTable
  <2>2. Still
    BY <2>1, SameAll DEF OnlyHart, Still
  <2> QED BY <2>1, <2>2 DEF Kinded
<1>3. ASSUME UNCHANGED <<pmpVars, enclaves, pc, frame>> PROVE Still
  BY <1>3, SameAll DEF pmpVars, SameTable, Still
<1>4. ASSUME NEW src \in Harts, PmpIpi(g, src) PROVE Kinded
  BY <1>3, <1>4, IpiEffect DEF Kinded
<1>5. ASSUME NEW p \in Pages, HostWrite(g, p) PROVE Kinded
  <2>1. Still
    BY <1>3, <1>5 DEF HostWrite
  <2>2. HostStores(p)
    BY <1>5, <2>1 DEF HostWrite, HostStores, Reach
  <2> QED BY <2>2 DEF Kinded
<1>6. ASSUME NEW p \in Pages, EnclaveWrite(g, p) PROVE Kinded
  <2>1. Still
    BY <1>3, <1>6 DEF EnclaveWrite
  <2>2. PICK d \in Eids : d = EidOf(g)
    BY Shapes
  <2>3. pc[g] = "enclave" /\ cpus[g] = d
    BY <1>6, <2>2 DEF EnclaveWrite, TypeInv, InContext, EidOf
  <2>4. enclaves[d].state = RUNNING
    BY ZenonT(40), <2>2, <2>3, HeldFacts DEF RunInv, Holds, Busy, State, EidOf, ELabels
  <2>5. EnclaveStores(d, p)
    BY <1>6, <2>1, <2>3, <2>4 DEF EnclaveWrite, EnclaveStores, EpmPages
  <2> QED BY <2>5 DEF Kinded
<1> QED BY <1>1, <1>2, <1>4, <1>5, <1>6 DEF Switch

\* The host's calls.
LEMMA KindedCalls ==
    ASSUME SerialHost, TypeInv, RunInv, OwnInv, NEW g \in Harts,
           \/ \E args \in CreateArgs : CreateEnclave(g, args)
           \/ \E d \in Eids : DestroyEnclave(g, d) \/ RunEnclave(g, d) \/ ResumeEnclave(g, d)
           \/ StopEnclave(g) \/ ExitEnclave(g)
    PROVE  Kinded
<1>0. /\ "host" \notin BLabels /\ "host" \notin Erasing /\ "c_epm" \notin Erasing
      /\ "d_read" \in Erasing /\ "x_pmp" \notin BLabels
  BY LabelFacts DEF Erasing
<1>1. ASSUME NEW d \in Eids, Steps(g, d), regions' = regions
      PROVE  /\ Others(d)
             /\ Kept(d) <=> Alive(d) \/ pc[g] \in Erasing
             /\ Kept(d)' <=> Alive(d)' \/ pc'[g] \in Erasing
  BY <1>1, SameOthers DEF Others
<1>2. ASSUME NEW d \in Eids, Steps(g, d), regions' = regions, SameBody(d), Alive(d),
             Alive(d)' \/ pc'[g] \in Erasing, enclaves'[d].hash = enclaves[d].hash, mem' = mem
      PROVE  Lives(d, enclaves[d].state, enclaves'[d].state)
  BY <1>1, <1>2 DEF Lives, SameBody, EpmPages, Epm
<1>3. ASSUME NEW args \in CreateArgs, CreateEnclave(g, args) PROVE Kinded
  <2>1. PICK d \in Eids : d = EidOf(g)'
    BY <1>3, CreateEnclaveEffect
  <2>2. /\ OnlyHart(g) /\ pc[g] = "host" /\ pc'[g] = "c_epm" /\ EncOthers(d) /\ regions' = regions
        /\ enclaves[d].state = INVALID /\ enclaves'[d].state = ALLOCATED
        /\ enclaves'[d].hash = enclaves[d].hash /\ mem' = mem
    BY <1>3, <2>1, CreateEnclaveEffect DEF CreateEnclave, pmpVars
  <2>3. Steps(g, d)
    BY SMTT(30), <1>0, <2>1, <2>2 DEF Steps, INVALID, ALLOCATED, DESTROYING, RUNNING
  <2>4. ~Kept(d) /\ ~Kept(d)' /\ Others(d)
    BY <1>0, <1>1, <2>2, <2>3, AliveStates DEF Alive
  <2>5. Life(d)' = Life(d) /\ enclaves'[d].state # FRESH
    BY SMTT(30), <2>2 DEF Life, INVALID, DESTROYING, ALLOCATED, FRESH, STOPPED, RUNNING
  <2> QED BY <2>2, <2>4, <2>5 DEF Kinded, Still, Others, Same
<1>4. ASSUME NEW d \in Eids, DestroyEnclave(g, d) PROVE Kinded
  <2>1. /\ OnlyHart(g) /\ pc[g] = "host" /\ pc'[g] = "d_read" /\ EidOf(g)' = d /\ EncOthers(d)
        /\ regions' = regions /\ SameBody(d) /\ enclaves'[d].state = DESTROYING
        /\ enclaves'[d].hash = enclaves[d].hash /\ mem' = mem /\ d \in handles
        /\ enclaves[d].state <= STOPPED
    BY ZenonT(40), <1>4, DestroyEnclaveEffect DEF pmpVars
  <2>2. Alive(d) /\ enclaves[d].state \in {FRESH, STOPPED}
    BY SMTT(30), <2>1 DEF RunInv, Handed, State, Alive, FRESH, STOPPED, RUNNING
  <2>3. Steps(g, d)
    BY SMTT(30), <1>0, <2>1, <2>2 DEF Steps, ALLOCATED, DESTROYING, RUNNING, FRESH, STOPPED
  <2>4. Lives(d, enclaves[d].state, DESTROYING)
    BY <1>0, <1>2, <2>1, <2>2, <2>3
  <2> QED BY <2>2, <2>4 DEF Kinded
<1>5. ASSUME NEW d \in Eids, RunEnclave(g, d) \/ ResumeEnclave(g, d) PROVE Kinded
  <2>1. /\ OnlyHart(g) /\ pc[g] = "host" /\ EidOf(g)' = d /\ EncOthers(d) /\ regions' = regions
        /\ SameBody(d) /\ enclaves'[d].state = RUNNING /\ enclaves'[d].hash = enclaves[d].hash
        /\ mem' = mem /\ enclaves[d].state \in {FRESH, STOPPED}
    BY <1>5, EnterEffect DEF pmpVars
  <2>2. Alive(d) /\ Alive(d)'
    BY <2>1 DEF Alive
  <2>3. Steps(g, d)
    BY SMTT(30), <1>0, <2>1 DEF Steps, ALLOCATED, DESTROYING, RUNNING, FRESH, STOPPED
  <2>4. Lives(d, enclaves[d].state, RUNNING)
    BY <1>2, <2>1, <2>2, <2>3
  <2> QED BY <2>1, <2>4 DEF Kinded
<1>6. ASSUME StopEnclave(g) \/ ExitEnclave(g) PROVE Kinded
  <2>1. PICK d \in Eids : d = EidOf(g)
    BY Shapes
  <2>2. /\ OnlyHart(g) /\ pc[g] = "enclave" /\ pc'[g] = "x_pmp" /\ EncOthers(d)
        /\ regions' = regions /\ SameBody(d) /\ enclaves[d].state = RUNNING
        /\ enclaves'[d].state = STOPPED /\ enclaves'[d].hash = enclaves[d].hash /\ mem' = mem
    BY <1>6, <2>1, LeaveEffect DEF pmpVars
  <2>3. Alive(d) /\ Alive(d)'
    BY <2>2 DEF Alive
  <2>4. Steps(g, d)
    BY <1>0, <2>1, <2>2, LabelFacts DEF Steps
  <2>5. Lives(d, RUNNING, STOPPED)
    BY <1>2, <2>2, <2>3, <2>4
  <2> QED BY <2>5 DEF Kinded
<1> QED BY <1>3, <1>4, <1>5, <1>6

\* The steps of create_enclave and destroy_enclave.
LEMMA KindedSteps ==
    ASSUME TypeInv, RunInv, OwnInv, RegionsDisjoint, Modes, NEW g \in Harts, Create(g) \/ Destroy(g)
    PROVE  Kinded
<1>0. /\ "host" \notin BLabels /\ "host" \notin Erasing /\ "epm" \in Kinds /\ "utm" \in Kinds
      /\ \A l \in CLabels : l \notin Erasing
  BY LabelFacts DEF Erasing, Kinds, CLabels
<1>1. PICK d \in Eids : d = EidOf(g)
  BY Shapes
<1>2. /\ OnlyHart(g) /\ EncOthers(d) /\ pc[g] \in CLabels \cup DLabels
      /\ (pc'[g] \in CLabels \cup DLabels /\ EidOf(g)' = d) \/ pc'[g] = "host"
      /\ Create(g) => pc[g] \in CLabels /\ pc'[g] \in CLabels \cup {"host"}
      /\ Destroy(g) => pc[g] \in DLabels
  BY <1>1, CreateSteps, DestroySteps, CallRecords DEF Keeps, Returns, EidOf
<1>3. Steps(g, d)
  BY <1>0, <1>1, <1>2, LabelFacts DEF Steps
<1>4. /\ Others(d) /\ ~Alive(d)
      /\ Kept(d) <=> Alive(d) \/ pc[g] \in Erasing
      /\ Kept(d)' <=> Alive(d)' \/ pc'[g] \in Erasing
      /\ Create(g) => enclaves[d].state = ALLOCATED
      /\ Destroy(g) => enclaves[d].state = DESTROYING
  BY <1>1, <1>2, <1>3, RegionsStay, SameOthers, CallNotAlive DEF Others, State
<1>5. ASSUME enclaves'[d].state \in {enclaves[d].state, INVALID}, enclaves'[d].hash = enclaves[d].hash,
             pc[g] \notin Erasing, pc'[g] \notin Erasing
      PROVE  ~Kept(d) /\ ~Kept(d)' /\ (Create(g) \/ enclaves'[d].state = DESTROYING => Same(d))
  <2>1. ~Kept(d) /\ ~Kept(d)'
    BY ZenonT(40), <1>4, <1>5, AliveStates DEF Alive
  <2>2. ASSUME Create(g) \/ enclaves'[d].state = DESTROYING
        PROVE  Life(d)' = Life(d) /\ enclaves'[d].state # FRESH
    BY SMTT(30), <1>4, <1>5, <2>2 DEF Life, INVALID, DESTROYING, ALLOCATED, FRESH, STOPPED, RUNNING
  <2> QED BY <1>5, <2>1, <2>2 DEF Same
<1>6. CASE CreateHash(g)
  <2>1. /\ pc[g] = "c_hash" /\ pc'[g] = "host" /\ regions' = regions /\ mem' = mem /\ SameBody(d)
        /\ enclaves'[d].state = FRESH
        /\ enclaves'[d].hash = validate_and_hash_enclave(enclaves[d].params)
    BY ZenonT(40), <1>1, <1>6, CreateHashEffect DEF pmpVars
  <2>2. Create(g)
    BY <1>6 DEF Create
  <2>3. ~Kept(d) /\ Kept(d)'
    BY <1>2, <1>4, <1>0, <2>1, <2>2 DEF Alive
  <2>4. Closed(d)
    BY <1>1, <2>1 DEF Closed, EidOf
  <2>5. is_create_args_valid(enclaves[d].params)
    BY <1>1, <1>2, <2>1, <2>2 DEF OwnInv, ArgsChecked, Filled, EidOf
  <2>6. Measures(d)
    BY <1>4, <2>1, <2>2, <2>3, <2>4, <2>5, ClosedHas DEF Measures, SameBody
  <2> QED BY <2>6 DEF Kinded
<1>7. CASE CreateMeta(g)
  <2>1. PICK s \in MaybeRegion, args \in Params : s = frame[g].shared /\ args = frame[g].args
    BY Shapes
  <2>2. /\ pc[g] = "c_meta" /\ pc'[g] \in {"c_hash", "c_unset"}
        /\ enclaves'[d].state = enclaves[d].state /\ enclaves'[d].hash = enclaves[d].hash
        /\ mem' = [p \in Pages |-> IF p \in PagesIn(args.utm, args.utmsize) THEN Zeros ELSE mem[p]]
    BY SMTT(30), <1>1, <1>7, <2>1, CreateMetaEffect
  <2>3. Create(g) /\ pc[g] \notin Erasing /\ pc'[g] \notin Erasing
    BY <1>7, <2>2 DEF Create, Erasing
  <2>4. Still
    BY <1>4, <1>5, <2>2, <2>3 DEF Still, Others
  <2>5. Has(d, "utm", s, args)
    BY ZenonT(40), <1>0, <1>1, <2>1, <2>2, QuietMoves DEF Has, FrameRegion, EidOf
  <2>6. Clears(d, s, args)
    BY <2>2, <2>4, <2>5 DEF Clears, Area, Base, Size
  <2> QED BY <2>6 DEF Kinded
<1>8. CASE /\ Create(g) /\ ~CreateHash(g) /\ ~CreateMeta(g)
  <2>1. /\ enclaves'[d].state \in {enclaves[d].state, INVALID}
        /\ enclaves'[d].hash = enclaves[d].hash /\ mem' = mem
    <3>1. CASE CreateEpm(g) \/ CreateUtm(g)
      BY <3>1, CreateEpmEffect, CreateUtmEffect
    <3>2. CASE CreateSet(g) \/ CreateUnset(g) \/ CreateFreeUtm(g) \/ CreateFreeEpm(g)
      BY <3>2, CallMoves DEF Moves
    <3>3. CASE CreateFreeEid(g)
      BY <1>1, <3>3, FreeEidEffect
    <3> QED BY <1>8, <3>1, <3>2, <3>3 DEF Create
  <2>2. pc[g] \notin Erasing /\ pc'[g] \notin Erasing
    BY <1>0, <1>2, <1>8
  <2>3. Still
    BY <1>4, <1>5, <1>8, <2>1, <2>2 DEF Still, Others
  <2> QED BY <2>1, <2>3 DEF Kinded
<1>9. CASE DestroyRead(g)
  <2>1. pc[g] = "d_read" /\ enclaves' = enclaves /\ regions' = regions /\ mem' = mem
    BY <1>9 DEF DestroyRead, pmpVars
  <2>2. PICK r \in MaybeRegion, args \in Params : r = enclaves[d].epm /\ args = enclaves[d].params
    BY Shapes
  <2>3. Kept(d)
    BY <1>4, <2>1 DEF Erasing
  <2>4. r \in region_def_bitmap /\ r \in RegionIds
    BY <1>0, <2>2, <2>3, KeptHas, HasArea
  <2>5. pc'[g] = "d_zero"
    BY SMTT(30), <1>1, <1>9, <2>2, <2>4, DestroyReadEffect DEF is_pmp_region_valid, RegionIds,
       NoRegion
  <2>6. SameTable /\ frame'[g].eid = frame[g].eid
    BY <1>0, <1>1, <1>2, <2>1, <2>5 DEF SameTable, EidOf
  <2>7. Still
    BY <1>2, <2>1, <2>5, <2>6, SameAll DEF OnlyHart, Still, Erasing
  <2> QED BY <2>1, <2>7 DEF Kinded
<1>10. CASE DestroyZero(g)
  <2>1. /\ pc[g] = "d_zero" /\ pc'[g] = "d_unset" /\ enclaves' = enclaves
        /\ mem' = [p \in Pages |-> IF p \in PagesIn(frame[g].base, frame[g].size)
                                   THEN Zeros ELSE mem[p]]
    BY <1>10, CallMoves DEF Moves
  <2>2. PagesIn(frame[g].base, frame[g].size) = EpmPages(d)
    BY <1>1, <2>1 DEF OwnInv, LookedUp, EpmPages, EidOf
  <2>3. Kept(d) /\ ~Kept(d)'
    BY <1>4, <2>1 DEF Erasing, Alive
  <2>4. Destroy(g)
    BY <1>10 DEF Destroy
  <2>5. Erases(d)
    BY <1>4, <2>1, <2>2, <2>3, <2>4 DEF Erases
  <2> QED BY <2>5 DEF Kinded
<1>11. CASE DestroyUnset(g) \/ DestroyFree(g) \/ DestroyUtm(g) \/ DestroyClear(g)
  <2>1. /\ enclaves'[d].state = enclaves[d].state
        /\ enclaves'[d].hash = enclaves[d].hash /\ mem' = mem
        /\ pc[g] \notin Erasing /\ pc'[g] \notin Erasing
    <3>1. CASE DestroyUnset(g) \/ DestroyFree(g) \/ DestroyUtm(g)
      BY <3>1, CallMoves DEF Moves, Erasing
    <3>2. CASE DestroyClear(g)
      BY <1>1, <3>2, DestroyClearEffect DEF Erasing
    <3> QED BY <1>11, <3>1, <3>2
  <2>2. Destroy(g)
    BY <1>11 DEF Destroy
  <2>3. Still
    BY <1>4, <1>5, <2>1, <2>2 DEF Still, Others
  <2> QED BY <2>1, <2>3 DEF Kinded
<1>12. CASE DestroyFreeEid(g)
  <2>1. /\ pc'[g] = "host" /\ mem' = mem /\ enclaves'[d].state = INVALID
        /\ enclaves'[d].hash = enclaves[d].hash /\ pc[g] \in {"c_free_eid", "d_eid"}
    BY <1>1, <1>12, FreeEidEffect
  <2>2. Destroy(g) /\ pc[g] \notin Erasing /\ pc'[g] \notin Erasing
    BY <1>12, <2>1 DEF Destroy, Erasing
  <2>3. Releases(d)
    BY <1>4, <1>5, <2>1, <2>2 DEF Releases
  <2> QED BY <2>3 DEF Kinded
<1> QED BY <1>6, <1>7, <1>8, <1>9, <1>10, <1>11, <1>12 DEF Destroy

\* Every step of the monitor is of one of the kinds.
LEMMA KindedNext ==
    ASSUME SerialHost, TypeInv, RunInv, OwnInv, RegionsDisjoint, Modes, [Next]_vars
    PROVE  Kinded
<1>1. CASE Next
  BY <1>1, KindedQuiet, KindedCalls, KindedSteps DEF Next, Monitor
<1>2. CASE UNCHANGED vars
  <2>1. Still
    BY <1>2, SameAll DEF vars, pmpVars, SameTable, Still
  <2> QED BY <1>2, <2>1 DEF vars, Kinded
<1> QED BY <1>1, <1>2
=============================================================================
