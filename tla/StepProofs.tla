--------------------------- MODULE StepProofs ------------------------------
(***************************************************************************)
(* What the steps of module Enclave do, for any number of harts, enclaves, *)
(* regions and PMP registers and any arguments of create: the parts of the *)
(* inductive invariant, and one lemma for each kind of step that says all  *)
(* it changes.                                                             *)
(***************************************************************************)
EXTENDS Enclave, PMPProofs

\* Most leaves need no arithmetic: Zenon first, then the SMT solver.
USE Zenon, SMT

(***************************************************************************)
(* Types, in the form the provers need: TypeOK leaves out that enclaves is *)
(* a function to records, and gives n_thread a range that only SingleRunner*)
(* explains.                                                               *)
(***************************************************************************)
Params == CreateArgs \cup {NoParams}

Frames == [eid : Eids, args : Params, region : MaybeRegion, shared : MaybeRegion,
           base : Word, size : Word]

States == INVALID .. RUNNING

Counts == Int

EnclaveRec(H) == [state : States, n_thread : Counts, epm : MaybeRegion,
                  utm : MaybeRegion, params : Params, hash : H, thread : Contexts]

EnclavesType == \E H : enclaves \in [Eids -> EnclaveRec(H)]

FileType == pmpcfg \in [Harts -> [RegIds -> PmpReg]]

HartType == /\ cpus \in [Harts -> Eids \cup {HostContext}]
            /\ regs \in [Harts -> Contexts]

CallType == /\ pc \in [Harts -> Labels]
            /\ frame \in [Harts -> Frames]
            /\ handles \subseteq Eids

IpiType == ipi \in [Harts -> [rid : MaybeRegion, set : BOOLEAN, todo : SUBSET Harts]]

MemType == mem \in [Pages -> Data]

\* A hart that executes an enclave is in that enclave's context.
InContext == \A h \in Harts : pc[h] = "enclave" => cpus[h] = frame[h].eid

TypeInv == /\ PMPTypeOK /\ EnclavesType /\ FileType /\ HartType /\ CallType /\ IpiType
           /\ MemType /\ InContext

\* Sizes and addresses in the arguments of create are machine words.
LEMMA ParamsWords == \A p \in Params : /\ p.epm \in Word /\ p.epmsize \in Word
                                        /\ p.utm \in Word /\ p.utmsize \in Word
  BY SMT, EnclaveAssumption, PMPAssumption DEF Params, NoParams, Word

\* Writing or clearing any region keeps a register file well formed.
LEMMA SetType ==
    ASSUME PMPTypeOK, NEW file \in [RegIds -> PmpReg], NEW rid, NEW perm \in BOOLEAN
    PROVE  /\ pmp_set_keystone(file, rid, perm) \in [RegIds -> PmpReg]
           /\ pmp_unset(file, rid) \in [RegIds -> PmpReg]
<1>1. CASE ~is_pmp_region_valid(rid)
  BY <1>1 DEF pmp_set_keystone, pmp_unset
<1>2. CASE is_pmp_region_valid(rid)
  <2>1. regions[rid] \in Region
    BY <1>2 DEF is_pmp_region_valid, PMPTypeOK
  <2>2. region_end(rid) \in Nat
    BY SMT, <2>1, PMPAssumption DEF region_end, Region, Word
  <2>3. regions[rid].addr \in Nat /\ 0 \in Word
    BY SMT, <2>1, PMPAssumption DEF Region, Word
  <2>4. UnsetReg \in PmpReg
    BY <2>3 DEF UnsetReg, PmpReg
  <2>5. pmp_unset(file, rid) \in [RegIds -> PmpReg]
    BY <1>2, <2>4 DEF pmp_unset
  <2>6. pmp_set_keystone(file, rid, perm) \in [RegIds -> PmpReg]
    BY <1>2, <2>1, <2>2, <2>3 DEF pmp_set_keystone, PmpReg, Region
  <2> QED BY <2>5, <2>6
<1> QED BY <1>1, <1>2

\* A region that is in use is not off.
Modes == \A i \in region_def_bitmap : regions[i].addrmode # "OFF"

\* What the actions leave alone: a call that is started or ends an enclave's execution
\* touches no register, IPI or page; create and destroy touch no register; a context
\* switch touches no IPI or page; an access touches memory only.
LEMMA CallTouches ==
    ASSUME NEW g \in Harts,
           \/ \E args \in CreateArgs : CreateEnclave(g, args)
           \/ \E e \in Eids : DestroyEnclave(g, e) \/ RunEnclave(g, e) \/ ResumeEnclave(g, e)
           \/ StopEnclave(g) \/ ExitEnclave(g)
    PROVE  pmpcfg' = pmpcfg /\ cpus' = cpus /\ regs' = regs /\ ipi' = ipi /\ mem' = mem
<1>1. ASSUME NEW args \in CreateArgs, CreateEnclave(g, args)
      PROVE  pmpcfg' = pmpcfg /\ cpus' = cpus /\ regs' = regs /\ ipi' = ipi /\ mem' = mem
  BY <1>1 DEF CreateEnclave, harts
<1>2. ASSUME NEW e \in Eids, DestroyEnclave(g, e)
      PROVE  pmpcfg' = pmpcfg /\ cpus' = cpus /\ regs' = regs /\ ipi' = ipi /\ mem' = mem
  BY <1>2 DEF DestroyEnclave, harts
<1>3. ASSUME NEW e \in Eids, RunEnclave(g, e) \/ ResumeEnclave(g, e)
      PROVE  pmpcfg' = pmpcfg /\ cpus' = cpus /\ regs' = regs /\ ipi' = ipi /\ mem' = mem
  BY <1>3 DEF RunEnclave, ResumeEnclave, Enter, harts
<1>4. ASSUME StopEnclave(g) \/ ExitEnclave(g)
      PROVE  pmpcfg' = pmpcfg /\ cpus' = cpus /\ regs' = regs /\ ipi' = ipi /\ mem' = mem
  BY <1>4 DEF StopEnclave, ExitEnclave, Leave, harts
<1> QED BY <1>1, <1>2, <1>3, <1>4

\* The same, for the steps of create and destroy, the switches, the IPIs and the accesses.
LEMMA StepTouches ==
    ASSUME NEW g \in Harts
    PROVE  /\ Create(g) \/ Destroy(g) => pmpcfg' = pmpcfg /\ cpus' = cpus /\ regs' = regs
           /\ Switch(g) => ipi' = ipi /\ mem' = mem
           /\ \A src \in Harts : PmpIpi(g, src) => cpus' = cpus /\ regs' = regs /\ mem' = mem
           /\ \A p \in Pages : HostWrite(g, p) \/ EnclaveWrite(g, p) =>
                  pmpcfg' = pmpcfg /\ cpus' = cpus /\ regs' = regs /\ ipi' = ipi
<1>1. ASSUME Create(g) PROVE pmpcfg' = pmpcfg /\ cpus' = cpus /\ regs' = regs
  BY <1>1 DEF Create, CreateEpm, CreateUtm, CreateSet, CreateMeta, CreateHash, CreateUnset,
         CreateFreeUtm, CreateFreeEpm, CreateFreeEid, harts
<1>2. ASSUME Destroy(g) PROVE pmpcfg' = pmpcfg /\ cpus' = cpus /\ regs' = regs
  BY <1>2 DEF Destroy, DestroyRead, DestroyZero, DestroyUnset, DestroyFree, DestroyUtm,
         DestroyClear, DestroyFreeEid, harts
<1>3. ASSUME Switch(g) PROVE ipi' = ipi /\ mem' = mem
  BY <1>3 DEF Switch, SwapToEnclave, SwapToHost, PmpToEnclave, PmpToHost
<1>4. ASSUME NEW src \in Harts, PmpIpi(g, src) PROVE cpus' = cpus /\ regs' = regs /\ mem' = mem
  BY <1>4 DEF PmpIpi
<1>5. ASSUME NEW p \in Pages, HostWrite(g, p) \/ EnclaveWrite(g, p)
      PROVE  pmpcfg' = pmpcfg /\ cpus' = cpus /\ regs' = regs /\ ipi' = ipi
  BY <1>5 DEF HostWrite, EnclaveWrite, harts
<1> QED BY <1>1, <1>2, <1>3, <1>4, <1>5

(***************************************************************************)
(* Who owns an eid, and who runs an enclave.                               *)
(***************************************************************************)
CLabels == {"c_epm", "c_utm", "c_set", "c_meta", "c_hash", "c_unset",
            "c_free_utm", "c_free_epm", "c_free_eid"}

DLabels == {"d_read", "d_zero", "d_unset", "d_free", "d_utm", "d_clear", "d_eid"}

ELabels == {"e_load", "e_swap", "e_pmp", "enclave"}

BLabels == CLabels \cup DLabels \cup ELabels

State(e) == enclaves[e].state

Count(e) == enclaves[e].n_thread

\* What a step of hart g may touch: no other hart's call.
OnlyHart(g) ==
    \A h \in Harts : h # g => pc'[h] = pc[h] /\ frame'[h] = frame[h]

\* A step inside create (or destroy) keeps the enclave's state and its owner.
Keeps(g, labels) ==
    /\ OnlyHart(g) /\ pc[g] \in labels /\ pc'[g] \in labels
    /\ frame'[g].eid = frame[g].eid /\ handles' = handles
    /\ \A e \in Eids : State(e)' = State(e) /\ (e # frame[g].eid => Count(e)' = Count(e))
    /\ Count(frame[g].eid)' \in {Count(frame[g].eid), 0}

\* The last step of create or destroy: the call returns.
Returns(g, from, state) ==
    /\ OnlyHart(g) /\ pc[g] \in from /\ pc'[g] = "host"
    /\ \A e \in Eids : e = frame[g].eid => State(e)' = state
    /\ \A e \in Eids : e # frame[g].eid => State(e)' = State(e)
    /\ \A e \in Eids : Count(e)' = Count(e)

\* A step of create_enclave keeps the eid ALLOCATED and its own until the call returns,
\* with a FRESH enclave or a free eid.
LEMMA CreateSteps ==
    ASSUME TypeInv, NEW g \in Harts, Create(g)
    PROVE  \/ Keeps(g, CLabels)
           \/ Returns(g, CLabels, FRESH) /\ handles' = handles \cup {frame[g].eid}
           \/ Returns(g, CLabels, INVALID) /\ handles' = handles
<1> USE DEF TypeInv
<1>1. PICK H : enclaves \in [Eids -> EnclaveRec(H)]
  BY DEF EnclavesType
<1>2. frame \in [Harts -> Frames] /\ pc \in [Harts -> Labels] /\ frame[g].eid \in Eids
  BY DEF CallType, Frames
<1> USE DEF OnlyHart, Goto, State, Count
<1>3. ASSUME CreateEpm(g) \/ CreateUtm(g) PROVE Keeps(g, CLabels)
  <2>1. frame'[g].eid = frame[g].eid
    <3>1. \/ frame' = frame
          \/ \E x : frame' = [frame EXCEPT ![g].region = x]
          \/ \E x : frame' = [frame EXCEPT ![g].shared = x]
      BY Zenon, <1>3 DEF CreateEpm, CreateUtm
    <3>2. /\ \A x : [frame[g] EXCEPT !.region = x].eid = frame[g].eid
          /\ \A x : [frame[g] EXCEPT !.shared = x].eid = frame[g].eid
      BY <1>2 DEF Frames
    <3>3. ASSUME NEW x, frame' = [frame EXCEPT ![g].region = x] PROVE frame'[g].eid = frame[g].eid
      <4>1. frame'[g] = [frame[g] EXCEPT !.region = x]
        BY Zenon, <1>2, <3>3
      <4> QED BY Zenon, <3>2, <4>1
    <3>4. ASSUME NEW x, frame' = [frame EXCEPT ![g].shared = x] PROVE frame'[g].eid = frame[g].eid
      <4>1. frame'[g] = [frame[g] EXCEPT !.shared = x]
        BY Zenon, <1>2, <3>4
      <4> QED BY Zenon, <3>2, <4>1
    <3> QED BY Zenon, <3>1, <3>3, <3>4
  <2> QED BY <1>2, <1>3, <2>1 DEF CreateEpm, CreateUtm, Keeps, CLabels
<1>4. ASSUME CreateSet(g) \/ CreateUnset(g) \/ CreateFreeUtm(g) \/ CreateFreeEpm(g)
      PROVE  Keeps(g, CLabels)
  BY <1>2, <1>4 DEF CreateSet, CreateUnset, CreateFreeUtm, CreateFreeEpm, Keeps, CLabels
<1>5. ASSUME CreateMeta(g) PROVE Keeps(g, CLabels)
  <2>1. \A e \in Eids : /\ enclaves'[e].state = enclaves[e].state
                        /\ e # frame[g].eid => enclaves'[e] = enclaves[e]
    BY SMT, <1>1, <1>2, <1>5 DEF CreateMeta, EnclaveRec
  <2>2. enclaves'[frame[g].eid].n_thread = 0
    BY ZenonT(40), <1>1, <1>2, <1>5 DEF CreateMeta, EnclaveRec
  <2> QED BY <1>2, <1>5, <2>1, <2>2 DEF CreateMeta, Keeps, CLabels
<1>6. ASSUME CreateHash(g) PROVE Returns(g, CLabels, FRESH) /\ handles' = handles \cup {frame[g].eid}
  <2>1. PICK v : v = validate_and_hash_enclave(enclaves[frame[g].eid].params)
    OBVIOUS
  <2>2. enclaves' = [enclaves EXCEPT ![frame[g].eid].hash = v, ![frame[g].eid].state = FRESH]
    BY <1>6, <2>1 DEF CreateHash
  <2>3. \A e \in Eids : /\ e # frame[g].eid => enclaves'[e] = enclaves[e]
                        /\ enclaves'[e].n_thread = enclaves[e].n_thread
    BY <1>1, <1>2, <2>2 DEF EnclaveRec
  <2>4. enclaves'[frame[g].eid].state = FRESH
    BY <1>1, <1>2, <2>2 DEF EnclaveRec
  <2> QED BY <1>2, <1>6, <2>3, <2>4 DEF CreateHash, Returns, CLabels
<1>7. ASSUME CreateFreeEid(g) PROVE Returns(g, CLabels, INVALID) /\ handles' = handles
  <2>1. \A e \in Eids : /\ e # frame[g].eid => enclaves'[e] = enclaves[e]
                        /\ enclaves'[e].n_thread = enclaves[e].n_thread
                        /\ e = frame[g].eid => enclaves'[e].state = INVALID
    BY <1>1, <1>2, <1>7 DEF CreateFreeEid, encl_free_eid, EnclaveRec
  <2> QED BY <1>2, <1>7, <2>1 DEF CreateFreeEid, Returns, CLabels
<1> QED BY <1>3, <1>4, <1>5, <1>6, <1>7 DEF Create

\* A step of destroy_enclave keeps the eid DESTROYING and its own until the call returns.
LEMMA DestroySteps ==
    ASSUME TypeInv, NEW g \in Harts, Destroy(g)
    PROVE  \/ Keeps(g, DLabels)
           \/ Returns(g, DLabels, INVALID) /\ handles' = handles
<1> USE DEF TypeInv
<1>1. PICK H : enclaves \in [Eids -> EnclaveRec(H)]
  BY DEF EnclavesType
<1>2. frame \in [Harts -> Frames] /\ pc \in [Harts -> Labels] /\ frame[g].eid \in Eids
  BY DEF CallType, Frames
<1> USE DEF OnlyHart, Goto, State, Count
<1>3. ASSUME DestroyRead(g) PROVE Keeps(g, DLabels)
  <2>1. frame'[g].eid = frame[g].eid
    <3>1. PICK f \in Frames : f = frame[g]
      BY <1>2
    <3>2. PICK r : r = enclaves[frame[g].eid].epm
      OBVIOUS
    <3>3. PICK b : b = IF is_pmp_region_valid(r) THEN regions[r].addr ELSE 0
      OBVIOUS
    <3>4. PICK z : z = IF is_pmp_region_valid(r) THEN regions[r].size ELSE 0
      OBVIOUS
    <3>5. \/ frame' = frame
          \/ frame' = [frame EXCEPT ![g] = [f EXCEPT !.region = r, !.base = b, !.size = z]]
      BY <1>3, <3>1, <3>2, <3>3, <3>4 DEF DestroyRead
    <3>6. [f EXCEPT !.region = r, !.base = b, !.size = z].eid = f.eid
      BY DEF Frames
    <3> QED BY <1>2, <3>1, <3>5, <3>6
  <2> QED BY <1>2, <1>3, <2>1 DEF DestroyRead, Keeps, DLabels
<1>4. ASSUME DestroyZero(g) \/ DestroyUnset(g) \/ DestroyFree(g) \/ DestroyUtm(g)
      PROVE  Keeps(g, DLabels)
  BY <1>2, <1>4 DEF DestroyZero, DestroyUnset, DestroyFree, DestroyUtm, Keeps, DLabels
<1>5. ASSUME DestroyClear(g) PROVE Keeps(g, DLabels)
  <2>1. \A e \in Eids : /\ enclaves'[e].state = enclaves[e].state
                        /\ e # frame[g].eid => enclaves'[e] = enclaves[e]
    BY <1>1, <1>2, <1>5 DEF DestroyClear, EnclaveRec
  <2>2. enclaves'[frame[g].eid].n_thread = 0
    BY <1>1, <1>2, <1>5 DEF DestroyClear, EnclaveRec
  <2> QED BY <1>2, <1>5, <2>1, <2>2 DEF DestroyClear, Keeps, DLabels
<1>6. ASSUME DestroyFreeEid(g) PROVE Returns(g, DLabels, INVALID) /\ handles' = handles
  <2>1. \A e \in Eids : /\ e # frame[g].eid => enclaves'[e] = enclaves[e]
                        /\ enclaves'[e].n_thread = enclaves[e].n_thread
                        /\ e = frame[g].eid => enclaves'[e].state = INVALID
    BY <1>1, <1>2, <1>6 DEF DestroyFreeEid, encl_free_eid, EnclaveRec
  <2> QED BY <1>2, <1>6, <2>1 DEF DestroyFreeEid, Returns, DLabels
<1> QED BY <1>3, <1>4, <1>5, <1>6 DEF Destroy

\* The labels of create, of destroy and of an execution are apart.
LEMMA LabelFacts ==
    /\ \A l \in CLabels : l \notin DLabels /\ l \notin ELabels
    /\ \A l \in DLabels : l \notin ELabels
    /\ \A l \in {"host", "x_pmp", "x_swap"} : l \notin CLabels /\ l \notin DLabels /\ l \notin ELabels
    /\ "c_epm" \in CLabels /\ "d_read" \in DLabels
    /\ "e_load" \in ELabels /\ "e_swap" \in ELabels /\ "e_pmp" \in ELabels /\ "enclave" \in ELabels
    /\ \A l : l \in BLabels <=> l \in CLabels \/ l \in DLabels \/ l \in ELabels
  BY DEF CLabels, DLabels, ELabels, BLabels

\* The state an enclave has while a hart executes one of the busy labels on it.
Held(label) == IF label \in CLabels THEN ALLOCATED
               ELSE IF label \in DLabels THEN DESTROYING ELSE RUNNING

Busy(h, e) == pc[h] \in BLabels /\ frame[h].eid = e

\* The state an enclave is held in tells which call the label of its hart is of.
LEMMA HeldFacts ==
    /\ \A l \in CLabels : l \in BLabels /\ Held(l) = ALLOCATED
    /\ \A l \in DLabels : l \in BLabels /\ Held(l) = DESTROYING
    /\ \A l \in ELabels : l \in BLabels /\ Held(l) = RUNNING
    /\ \A l : Held(l) \in {ALLOCATED, DESTROYING, RUNNING}
    /\ \A l \in BLabels : (Held(l) = ALLOCATED => l \in CLabels) /\ (Held(l) = DESTROYING => l \in DLabels)
                          /\ (Held(l) = RUNNING => l \in ELabels)
    /\ "host" \notin BLabels /\ "x_pmp" \notin BLabels /\ "x_swap" \notin BLabels
  BY SMT, LabelFacts DEF Held, ALLOCATED, DESTROYING, RUNNING

\* The states of an enclave are different numbers.
LEMMA StateFacts ==
    /\ ALLOCATED # DESTROYING /\ ALLOCATED # RUNNING /\ DESTROYING # RUNNING
    /\ \A s \in {INVALID, FRESH, STOPPED} : s \notin {ALLOCATED, DESTROYING, RUNNING}
    /\ INVALID \notin {FRESH, STOPPED, RUNNING}
    /\ ALLOCATED \notin {FRESH, STOPPED, RUNNING} /\ DESTROYING \notin {FRESH, STOPPED, RUNNING}
  BY SMT DEF ALLOCATED, DESTROYING, RUNNING, INVALID, FRESH, STOPPED

\* EidOwned and SingleRunner together are inductive; here they are with the labels
\* of each call grouped and every hart's enclave read from its frame.
Holds == \A h \in Harts, e \in Eids : Busy(h, e) => State(e) = Held(pc[h])

Alone == \A g, h \in Harts : \A e \in Eids : Busy(g, e) /\ Busy(h, e) => g = h

Handed == \A e \in Eids : e \in handles => State(e) \in {FRESH, STOPPED, RUNNING}

Entered == \A e \in Eids : State(e) \in {ALLOCATED, DESTROYING, RUNNING} =>
                               \E h \in Harts : Busy(h, e)

Counted == \A e \in Eids : Count(e) = IF State(e) = RUNNING THEN 1 ELSE 0

RunInv == Holds /\ Alone /\ Handed /\ Entered /\ Counted

(***************************************************************************)
(* The part of the inductive invariant about regions: who has them.        *)
(***************************************************************************)
Kinds == {"epm", "utm"}

\* The labels at which a call of create has region k in its frame, and at which a call
\* of destroy has not freed region k of the enclave yet.
CHolds(k) == IF k = "epm"
             THEN {"c_utm", "c_set", "c_meta", "c_hash", "c_unset", "c_free_utm", "c_free_epm"}
             ELSE {"c_set", "c_meta", "c_hash", "c_unset", "c_free_utm"}

DHolds(k) == IF k = "epm" THEN {"d_read", "d_zero", "d_unset", "d_free"}
             ELSE {"d_read", "d_zero", "d_unset", "d_free", "d_utm"}

FrameRegion(h, k) == IF k = "epm" THEN frame[h].region ELSE frame[h].shared

OwnRegion(e, k) == IF k = "epm" THEN enclaves[e].epm ELSE enclaves[e].utm

\* Region r is the private or the shared region of e, which was created with args.
Has(e, k, r, args) ==
    \/ /\ Alive(e) \/ \E h \in Harts : pc[h] \in DHolds(k) /\ frame[h].eid = e
       /\ r = OwnRegion(e, k) /\ args = enclaves[e].params
    \/ \E h \in Harts : /\ pc[h] \in CHolds(k) /\ frame[h].eid = e
                        /\ r = FrameRegion(h, k) /\ args = frame[h].args

\* What the table says of a region that somebody has.
Holding(k, r, args) ==
    /\ r \in region_def_bitmap \ {sm_region_id, os_region_id}
    /\ ~regions[r].allow_overlap
    /\ regions[r].addr = IF k = "epm" THEN args.epm ELSE args.utm
    /\ regions[r].size = IF k = "epm" THEN args.epmsize ELSE args.utmsize
    /\ k = "utm" => regions[r].addrmode = "NAPOT" /\ regions[r].reg_idx = Bottom

Backed == \A e \in Eids, k \in Kinds, r \in MaybeRegion, args \in Params :
              Has(e, k, r, args) => Holding(k, r, args)

OneOwner == \A e, d \in Eids, k, l \in Kinds, r \in MaybeRegion, args, other \in Params :
                Has(e, k, r, args) /\ Has(d, l, r, other) => e = d /\ k = l

NoneLost == \A r \in region_def_bitmap :
                \/ r \in {sm_region_id, os_region_id}
                \/ \E e \in Eids, k \in Kinds, args \in Params : Has(e, k, r, args)

BootKept == /\ {sm_region_id, os_region_id} \subseteq region_def_bitmap
            /\ \A r \in {sm_region_id, os_region_id} : regions[r] = BootRegions[r]

\* The arguments a call of create works with have been checked.
ArgsChecked == /\ \A h \in Harts : pc[h] \in CLabels => is_create_args_valid(frame[h].args)
               /\ \A e \in Eids : Alive(e) => is_create_args_valid(enclaves[e].params)

\* create has filled in the metadata; destroy has looked up what it frees.
Filled == \A h \in Harts : pc[h] = "c_hash" =>
              LET e == frame[h].eid IN
              /\ enclaves[e].epm = frame[h].region /\ enclaves[e].utm = frame[h].shared
              /\ enclaves[e].params = frame[h].args

LookedUp == \A h \in Harts : pc[h] \in {"d_zero", "d_unset", "d_free"} =>
                LET e == frame[h].eid IN
                /\ frame[h].region = enclaves[e].epm
                /\ frame[h].base = enclaves[e].params.epm
                /\ frame[h].size = enclaves[e].params.epmsize

OwnInv == Backed /\ OneOwner /\ NoneLost /\ BootKept /\ ArgsChecked /\ Filled /\ LookedUp

(***************************************************************************)
(* What each step changes, read from the actions once.                     *)
(***************************************************************************)
EidOf(h) == frame[h].eid

EncOthers(d) == \A e \in Eids : e # d => enclaves'[e] = enclaves[e]

\* The types of the parts of the state that the proofs look at, read from TypeInv once.
LEMMA Shapes ==
    ASSUME TypeInv
    PROVE  /\ pc \in [Harts -> Labels] /\ frame \in [Harts -> Frames]
           /\ \A h \in Harts : EidOf(h) \in Eids /\ frame[h].args \in Params
                               /\ frame[h].region \in MaybeRegion /\ frame[h].shared \in MaybeRegion
           /\ \E H : enclaves \in [Eids -> EnclaveRec(H)]
           /\ \A e \in Eids : /\ enclaves[e].epm \in MaybeRegion /\ enclaves[e].utm \in MaybeRegion
                              /\ enclaves[e].params \in Params
           /\ regs \in [Harts -> Contexts] /\ cpus \in [Harts -> Eids \cup {HostContext}]
           /\ ipi \in [Harts -> [rid : MaybeRegion, set : BOOLEAN, todo : SUBSET Harts]]
           /\ mem \in [Pages -> Data]
<1>1. PICK H : enclaves \in [Eids -> EnclaveRec(H)]
  BY DEF TypeInv, EnclavesType
<1>2. \A e \in Eids : /\ enclaves[e].epm \in MaybeRegion /\ enclaves[e].utm \in MaybeRegion
                      /\ enclaves[e].params \in Params
  BY <1>1 DEF EnclaveRec
<1>3. frame \in [Harts -> Frames]
  BY DEF TypeInv, CallType
<1>4. \A h \in Harts : EidOf(h) \in Eids /\ frame[h].args \in Params
                       /\ frame[h].region \in MaybeRegion /\ frame[h].shared \in MaybeRegion
  BY <1>3 DEF Frames, EidOf
<1> QED BY <1>1, <1>2, <1>3, <1>4 DEF TypeInv, CallType, HartType, IpiType, MemType

\* create_enclave.
LEMMA CreateEnclaveEffect ==
    ASSUME TypeInv, NEW g \in Harts, NEW args \in CreateArgs, CreateEnclave(g, args)
    PROVE  /\ OnlyHart(g) /\ pc[g] = "host" /\ pc'[g] = "c_epm" /\ UNCHANGED pmpVars
           /\ EidOf(g)' \in Eids /\ frame'[g].args = args /\ is_create_args_valid(args)
           /\ EncOthers(EidOf(g)') /\ enclaves[EidOf(g)'].state = INVALID
           /\ enclaves'[EidOf(g)'].state = ALLOCATED
           /\ enclaves'[EidOf(g)'].hash = enclaves[EidOf(g)'].hash
           /\ \A e \in Eids : enclaves'[e].thread = enclaves[e].thread
           /\ handles' = handles
<1>1. PICK H : enclaves \in [Eids -> EnclaveRec(H)]
  BY Shapes
<1>2. PICK d \in Eids : /\ enclaves[d].state = INVALID
                        /\ enclaves' = [enclaves EXCEPT ![d].state = ALLOCATED]
                        /\ frame' = [frame EXCEPT ![g] = [NoFrame EXCEPT !.eid = d, !.args = args]]
  BY DEF CreateEnclave
<1>3. frame'[g].eid = d /\ frame'[g].args = args
  BY <1>2, Shapes DEF NoFrame
<1>4. /\ \A e \in Eids : e # d => enclaves'[e] = enclaves[e]
      /\ enclaves'[d].state = ALLOCATED /\ enclaves'[d].hash = enclaves[d].hash
      /\ enclaves'[d].thread = enclaves[d].thread
  BY <1>1, <1>2 DEF EnclaveRec
<1>5. OnlyHart(g) /\ pc[g] = "host" /\ pc'[g] = "c_epm" /\ UNCHANGED pmpVars /\ handles' = handles
      /\ is_create_args_valid(args)
  BY ZenonT(40), <1>2, Shapes DEF CreateEnclave, HostCall, Goto, OnlyHart
<1>6. \A e \in Eids : enclaves'[e].thread = enclaves[e].thread
  BY <1>4
<1> QED BY <1>2, <1>3, <1>4, <1>5, <1>6 DEF EidOf, EncOthers

\* create_enclave allocates the private region, or gives up and frees the eid.
LEMMA CreateEpmEffect ==
    ASSUME TypeInv, NEW g \in Harts, CreateEpm(g)
    PROVE  /\ OnlyHart(g) /\ pc[g] = "c_epm" /\ enclaves' = enclaves
           /\ EidOf(g)' = EidOf(g) /\ frame'[g].args = frame[g].args
           /\ \/ /\ pc'[g] = "c_utm"
                 /\ pmp_region_init_atomic(frame[g].args.epm, frame[g].args.epmsize, "ANY", FALSE,
                                           frame'[g].region)
              \/ pc'[g] = "c_free_eid" /\ UNCHANGED <<pmpVars, frame>>
           /\ UNCHANGED <<harts, ipi, mem, handles>>
<1>1. CASE pc'[g] = "c_utm"
  <2>1. /\ pmp_region_init_atomic(frame[g].args.epm, frame[g].args.epmsize, "ANY", FALSE,
                                  get_free_region_idx)
        /\ frame' = [frame EXCEPT ![g].region = get_free_region_idx]
    BY <1>1, Shapes DEF CreateEpm, Goto
  <2>2. PICK rid : rid = get_free_region_idx
    OBVIOUS
  <2>3. /\ frame'[g].eid = frame[g].eid /\ frame'[g].args = frame[g].args
        /\ frame'[g].region = rid
    BY SMTT(30), <2>1, <2>2, Shapes DEF Frames
  <2>4. pmp_region_init_atomic(frame[g].args.epm, frame[g].args.epmsize, "ANY", FALSE,
                               frame'[g].region)
    BY <2>1, <2>2, <2>3
  <2>5. OnlyHart(g)
    BY <2>1, Shapes DEF CreateEpm, Goto, OnlyHart
  <2> QED BY <1>1, <2>3, <2>4, <2>5 DEF CreateEpm, EidOf
<1>2. CASE pc'[g] # "c_utm"
  <2>1. pc'[g] = "c_free_eid" /\ UNCHANGED <<pmpVars, frame>>
    BY <1>2, Shapes DEF CreateEpm, Goto
  <2>2. OnlyHart(g)
    BY <2>1, Shapes DEF CreateEpm, Goto, OnlyHart
  <2> QED BY <2>1, <2>2 DEF CreateEpm, EidOf
<1> QED BY <1>1, <1>2

\* create_enclave allocates the shared region, or goes on to free the private one.
LEMMA CreateUtmEffect ==
    ASSUME TypeInv, NEW g \in Harts, CreateUtm(g)
    PROVE  /\ OnlyHart(g) /\ pc[g] = "c_utm" /\ enclaves' = enclaves
           /\ EidOf(g)' = EidOf(g) /\ frame'[g].args = frame[g].args
           /\ frame'[g].region = frame[g].region
           /\ \/ /\ pc'[g] = "c_set"
                 /\ pmp_region_init_atomic(frame[g].args.utm, frame[g].args.utmsize, "BOTTOM", FALSE,
                                           frame'[g].shared)
              \/ pc'[g] = "c_free_epm" /\ UNCHANGED <<pmpVars, frame>>
           /\ UNCHANGED <<harts, ipi, mem, handles>>
<1>1. CASE pc'[g] = "c_set"
  <2>1. /\ pmp_region_init_atomic(frame[g].args.utm, frame[g].args.utmsize, "BOTTOM", FALSE,
                                  get_free_region_idx)
        /\ frame' = [frame EXCEPT ![g].shared = get_free_region_idx]
    BY <1>1, Shapes DEF CreateUtm, Goto
  <2>2. PICK rid : rid = get_free_region_idx
    OBVIOUS
  <2>3. /\ frame'[g].eid = frame[g].eid /\ frame'[g].args = frame[g].args
        /\ frame'[g].region = frame[g].region /\ frame'[g].shared = rid
    BY SMTT(30), <2>1, <2>2, Shapes DEF Frames
  <2>4. pmp_region_init_atomic(frame[g].args.utm, frame[g].args.utmsize, "BOTTOM", FALSE,
                               frame'[g].shared)
    BY <2>1, <2>2, <2>3
  <2>5. OnlyHart(g)
    BY <2>1, Shapes DEF CreateUtm, Goto, OnlyHart
  <2> QED BY <1>1, <2>3, <2>4, <2>5 DEF CreateUtm, EidOf
<1>2. CASE pc'[g] # "c_set"
  <2>1. pc'[g] = "c_free_epm" /\ UNCHANGED <<pmpVars, frame>>
    BY <1>2, Shapes DEF CreateUtm, Goto
  <2>2. OnlyHart(g)
    BY <2>1, Shapes DEF CreateUtm, Goto, OnlyHart
  <2> QED BY <2>1, <2>2 DEF CreateUtm, EidOf
<1> QED BY <1>1, <1>2

\* A step inside a call that only moves the hart on.
Moves(g, from, to) ==
    /\ OnlyHart(g) /\ pc[g] = from /\ pc'[g] = to
    /\ UNCHANGED <<frame, enclaves, harts, handles>>

\* Steps that change no enclave: set and unset with IPIs, frees, erasing.
LEMMA CallMoves ==
    ASSUME TypeInv, NEW g \in Harts
    PROVE  /\ CreateSet(g) =>
                 /\ Moves(g, "c_set", IF is_pmp_region_valid(frame[g].region) THEN "c_meta"
                                      ELSE "c_free_utm")
                 /\ UNCHANGED <<pmpVars, mem>> /\ send_pmp_ipi(g, frame[g].region, TRUE)
           /\ CreateUnset(g) =>
                 /\ Moves(g, "c_unset", "c_free_utm")
                 /\ UNCHANGED <<pmpVars, mem>> /\ send_pmp_ipi(g, frame[g].region, FALSE)
           /\ CreateFreeUtm(g) =>
                 /\ Moves(g, "c_free_utm", "c_free_epm") /\ Synced(g)
                 /\ UNCHANGED <<ipi, mem>> /\ pmp_region_free_atomic(frame[g].shared)
           /\ CreateFreeEpm(g) =>
                 /\ Moves(g, "c_free_epm", "c_free_eid")
                 /\ UNCHANGED <<ipi, mem>> /\ pmp_region_free_atomic(frame[g].region)
           /\ DestroyZero(g) =>
                 /\ Moves(g, "d_zero", "d_unset") /\ UNCHANGED <<pmpVars, ipi>>
                 /\ mem' = [p \in Pages |-> IF p \in PagesIn(frame[g].base, frame[g].size)
                                            THEN Zeros ELSE mem[p]]
           /\ DestroyUnset(g) =>
                 /\ Moves(g, "d_unset", "d_free")
                 /\ UNCHANGED <<pmpVars, mem>> /\ send_pmp_ipi(g, frame[g].region, FALSE)
           /\ DestroyFree(g) =>
                 /\ Moves(g, "d_free", "d_utm") /\ Synced(g)
                 /\ UNCHANGED <<ipi, mem>> /\ pmp_region_free_atomic(frame[g].region)
           /\ DestroyUtm(g) =>
                 /\ Moves(g, "d_utm", "d_clear") /\ UNCHANGED <<ipi, mem>>
                 /\ IF enclaves[EidOf(g)].utm = NoRegion THEN UNCHANGED pmpVars
                    ELSE pmp_region_free_atomic(enclaves[EidOf(g)].utm)
<1> USE Shapes DEF Moves, OnlyHart, Goto, EidOf
<1>1. CreateSet(g) =>
         /\ Moves(g, "c_set", IF is_pmp_region_valid(frame[g].region) THEN "c_meta"
                              ELSE "c_free_utm")
         /\ UNCHANGED <<pmpVars, mem>> /\ send_pmp_ipi(g, frame[g].region, TRUE)
  BY DEF CreateSet
<1>2. CreateUnset(g) =>
         /\ Moves(g, "c_unset", "c_free_utm")
         /\ UNCHANGED <<pmpVars, mem>> /\ send_pmp_ipi(g, frame[g].region, FALSE)
  BY DEF CreateUnset
<1>3. CreateFreeUtm(g) =>
         /\ Moves(g, "c_free_utm", "c_free_epm") /\ Synced(g)
         /\ UNCHANGED <<ipi, mem>> /\ pmp_region_free_atomic(frame[g].shared)
  BY DEF CreateFreeUtm
<1>4. CreateFreeEpm(g) =>
         /\ Moves(g, "c_free_epm", "c_free_eid")
         /\ UNCHANGED <<ipi, mem>> /\ pmp_region_free_atomic(frame[g].region)
  BY DEF CreateFreeEpm
<1>5. DestroyZero(g) =>
         /\ Moves(g, "d_zero", "d_unset") /\ UNCHANGED <<pmpVars, ipi>>
         /\ mem' = [p \in Pages |-> IF p \in PagesIn(frame[g].base, frame[g].size)
                                    THEN Zeros ELSE mem[p]]
  BY DEF DestroyZero
<1>6. DestroyUnset(g) =>
         /\ Moves(g, "d_unset", "d_free")
         /\ UNCHANGED <<pmpVars, mem>> /\ send_pmp_ipi(g, frame[g].region, FALSE)
  BY DEF DestroyUnset
<1>7. DestroyFree(g) =>
         /\ Moves(g, "d_free", "d_utm") /\ Synced(g)
         /\ UNCHANGED <<ipi, mem>> /\ pmp_region_free_atomic(frame[g].region)
  BY DEF DestroyFree
<1>8. DestroyUtm(g) =>
         /\ Moves(g, "d_utm", "d_clear") /\ UNCHANGED <<ipi, mem>>
         /\ IF enclaves[EidOf(g)].utm = NoRegion THEN UNCHANGED pmpVars
            ELSE pmp_region_free_atomic(enclaves[EidOf(g)].utm)
  BY DEF DestroyUtm
<1> QED BY <1>1, <1>2, <1>3, <1>4, <1>5, <1>6, <1>7, <1>8

\* The steps of create and destroy that write the enclave's record.
SameBody(d) == /\ enclaves'[d].epm = enclaves[d].epm /\ enclaves'[d].utm = enclaves[d].utm
               /\ enclaves'[d].params = enclaves[d].params
               /\ enclaves'[d].thread = enclaves[d].thread

\* Once the IPIs are served, create_enclave fills in the record and clears the shared
\* region.
LEMMA CreateMetaEffect ==
    ASSUME TypeInv, NEW g \in Harts, CreateMeta(g)
    PROVE  /\ OnlyHart(g) /\ pc[g] = "c_meta" /\ pc'[g] \in {"c_hash", "c_unset"} /\ Synced(g)
           /\ UNCHANGED <<pmpVars, harts, frame, ipi, handles>>
           /\ EncOthers(EidOf(g))
           /\ enclaves'[EidOf(g)].state = enclaves[EidOf(g)].state
           /\ enclaves'[EidOf(g)].hash = enclaves[EidOf(g)].hash
           /\ enclaves'[EidOf(g)].epm = frame[g].region
           /\ enclaves'[EidOf(g)].utm = frame[g].shared
           /\ enclaves'[EidOf(g)].params = frame[g].args
           /\ mem' = [p \in Pages |-> IF p \in PagesIn(frame[g].args.utm, frame[g].args.utmsize)
                                      THEN Zeros ELSE mem[p]]
<1>1. PICK H : enclaves \in [Eids -> EnclaveRec(H)]
  BY Shapes
<1>2. PICK d \in Eids : d = frame[g].eid
  BY Shapes DEF EidOf
<1>3. PICK a : a = frame[g].args
  OBVIOUS
<1>4. enclaves' = [enclaves EXCEPT ![d] =
         [@ EXCEPT !.epm = frame[g].region, !.utm = frame[g].shared,
                   !.n_thread = 0, !.params = a, !.thread = CleanCtx]]
  BY <1>2, <1>3 DEF CreateMeta
<1>5. /\ EncOthers(d)
      /\ enclaves'[d].state = enclaves[d].state /\ enclaves'[d].hash = enclaves[d].hash
      /\ enclaves'[d].epm = frame[g].region /\ enclaves'[d].utm = frame[g].shared
      /\ enclaves'[d].params = a
  BY <1>1, <1>4 DEF EnclaveRec, EncOthers
<1>6. /\ OnlyHart(g) /\ pc[g] = "c_meta" /\ pc'[g] \in {"c_hash", "c_unset"} /\ Synced(g)
      /\ UNCHANGED <<pmpVars, harts, frame, ipi, handles>>
  BY Shapes DEF CreateMeta, Goto, OnlyHart
<1>7. mem' = [p \in Pages |-> IF p \in PagesIn(frame[g].args.utm, frame[g].args.utmsize)
                              THEN Zeros ELSE mem[p]]
  BY DEF CreateMeta
<1> QED BY <1>2, <1>3, <1>5, <1>6, <1>7 DEF EidOf

\* The measurement ends create_enclave.
LEMMA CreateHashEffect ==
    ASSUME TypeInv, NEW g \in Harts, CreateHash(g)
    PROVE  /\ OnlyHart(g) /\ pc[g] = "c_hash" /\ pc'[g] = "host"
           /\ UNCHANGED <<pmpVars, harts, ipi, mem>>
           /\ EncOthers(EidOf(g)) /\ SameBody(EidOf(g))
           /\ enclaves'[EidOf(g)].state = FRESH
           /\ enclaves'[EidOf(g)].hash = validate_and_hash_enclave(enclaves[EidOf(g)].params)
<1>1. PICK H : enclaves \in [Eids -> EnclaveRec(H)]
  BY Shapes
<1>2. PICK d \in Eids : d = frame[g].eid
  BY Shapes DEF EidOf
<1>3. PICK v : v = validate_and_hash_enclave(enclaves[frame[g].eid].params)
  OBVIOUS
<1>4. enclaves' = [enclaves EXCEPT ![d].hash = v, ![d].state = FRESH]
  BY <1>2, <1>3 DEF CreateHash
<1>5. EncOthers(d) /\ SameBody(d) /\ enclaves'[d].state = FRESH /\ enclaves'[d].hash = v
  BY <1>1, <1>4 DEF EnclaveRec, EncOthers, SameBody
<1>6. /\ OnlyHart(g) /\ pc[g] = "c_hash" /\ pc'[g] = "host"
      /\ UNCHANGED <<pmpVars, harts, ipi, mem>>
  BY Shapes DEF CreateHash, Goto, OnlyHart
<1> QED BY <1>2, <1>3, <1>5, <1>6 DEF EidOf

\* The call returns and the eid is free again.
LEMMA FreeEidEffect ==
    ASSUME TypeInv, NEW g \in Harts, CreateFreeEid(g) \/ DestroyFreeEid(g)
    PROVE  /\ OnlyHart(g) /\ pc[g] \in {"c_free_eid", "d_eid"} /\ pc'[g] = "host"
           /\ UNCHANGED <<pmpVars, harts, ipi, mem, handles>>
           /\ EncOthers(EidOf(g)) /\ SameBody(EidOf(g))
           /\ enclaves'[EidOf(g)].state = INVALID
           /\ enclaves'[EidOf(g)].hash = enclaves[EidOf(g)].hash
<1>1. PICK H : enclaves \in [Eids -> EnclaveRec(H)]
  BY Shapes
<1>2. PICK d \in Eids : d = frame[g].eid
  BY Shapes DEF EidOf
<1>3. enclaves' = [enclaves EXCEPT ![d].state = INVALID]
  BY <1>2 DEF CreateFreeEid, DestroyFreeEid, encl_free_eid
<1>4. /\ EncOthers(d) /\ SameBody(d) /\ enclaves'[d].state = INVALID
      /\ enclaves'[d].hash = enclaves[d].hash
  BY <1>1, <1>3 DEF EnclaveRec, EncOthers, SameBody
<1>5. /\ OnlyHart(g) /\ pc[g] \in {"c_free_eid", "d_eid"} /\ pc'[g] = "host"
      /\ UNCHANGED <<pmpVars, harts, ipi, mem, handles>>
  BY Shapes DEF CreateFreeEid, DestroyFreeEid, Goto, OnlyHart
<1> QED BY <1>2, <1>4, <1>5 DEF EidOf

\* destroy_enclave starts: the state is claimed under encl_lock.
LEMMA DestroyEnclaveEffect ==
    ASSUME TypeInv, NEW g \in Harts, NEW d \in Eids, DestroyEnclave(g, d)
    PROVE  /\ OnlyHart(g) /\ pc[g] = "host" /\ pc'[g] = "d_read" /\ EidOf(g)' = d
           /\ UNCHANGED <<pmpVars, harts, ipi, mem>>
           /\ SerialHost => d \in handles
           /\ enclaves[d].state <= STOPPED
           /\ EncOthers(d) /\ SameBody(d) /\ enclaves'[d].state = DESTROYING
           /\ enclaves'[d].hash = enclaves[d].hash
<1>1. PICK H : enclaves \in [Eids -> EnclaveRec(H)]
  BY Shapes
<1>2. /\ enclaves' = [enclaves EXCEPT ![d].state = DESTROYING]
      /\ frame' = [frame EXCEPT ![g] = [NoFrame EXCEPT !.eid = d]]
  BY DEF DestroyEnclave
<1>3. /\ EncOthers(d) /\ SameBody(d) /\ enclaves'[d].state = DESTROYING
      /\ enclaves'[d].hash = enclaves[d].hash
  BY <1>1, <1>2 DEF EnclaveRec, EncOthers, SameBody
<1>4. EidOf(g)' = d
  BY <1>2, Shapes DEF NoFrame, EidOf
<1>5. /\ OnlyHart(g) /\ pc[g] = "host" /\ pc'[g] = "d_read"
      /\ UNCHANGED <<pmpVars, harts, ipi, mem>>
      /\ SerialHost => d \in handles
      /\ enclaves[d].state <= STOPPED
  BY <1>2, Shapes DEF DestroyEnclave, HostCall, HostMayDestroy, Goto, OnlyHart
<1> QED BY <1>3, <1>4, <1>5

\* destroy_enclave looks up the range of a private region that is valid.
LEMMA DestroyReadEffect ==
    ASSUME TypeInv, NEW g \in Harts, DestroyRead(g), NEW r, r = enclaves[EidOf(g)].epm,
           is_pmp_region_valid(r), r # NoRegion
    PROVE  /\ OnlyHart(g) /\ pc[g] = "d_read" /\ pc'[g] = "d_zero" /\ EidOf(g)' = EidOf(g)
           /\ UNCHANGED <<pmpVars, enclaves, harts, ipi, mem, handles>>
           /\ frame'[g].region = r
           /\ frame'[g].base = regions[r].addr /\ frame'[g].size = regions[r].size
<1>1. PICK f \in Frames : f = frame[g]
  BY Shapes
<1>2. PICK b, z : b = regions[r].addr /\ z = regions[r].size
  OBVIOUS
<1>3. frame' = [frame EXCEPT ![g] = [f EXCEPT !.region = r, !.base = b, !.size = z]]
  BY <1>1, <1>2 DEF DestroyRead, EidOf
<1>4. /\ [f EXCEPT !.region = r, !.base = b, !.size = z].eid = f.eid
      /\ [f EXCEPT !.region = r, !.base = b, !.size = z].region = r
      /\ [f EXCEPT !.region = r, !.base = b, !.size = z].base = b
      /\ [f EXCEPT !.region = r, !.base = b, !.size = z].size = z
  BY DEF Frames
<1>5. frame'[g] = [f EXCEPT !.region = r, !.base = b, !.size = z]
  BY <1>3, Shapes
<1>6. /\ OnlyHart(g) /\ pc[g] = "d_read" /\ pc'[g] = "d_zero"
      /\ UNCHANGED <<pmpVars, enclaves, harts, ipi, mem, handles>>
  BY <1>3, Shapes DEF DestroyRead, EidOf, Goto, OnlyHart
<1> QED BY <1>1, <1>2, <1>4, <1>5, <1>6 DEF EidOf

\* destroy_enclave clears the record, but for its state.
LEMMA DestroyClearEffect ==
    ASSUME TypeInv, NEW g \in Harts, DestroyClear(g)
    PROVE  /\ OnlyHart(g) /\ pc[g] = "d_clear" /\ pc'[g] = "d_eid"
           /\ UNCHANGED <<pmpVars, harts, frame, ipi, mem, handles>>
           /\ EncOthers(EidOf(g))
           /\ enclaves'[EidOf(g)].state = enclaves[EidOf(g)].state
           /\ enclaves'[EidOf(g)].hash = enclaves[EidOf(g)].hash
           /\ enclaves'[EidOf(g)].thread = enclaves[EidOf(g)].thread
<1>1. PICK H : enclaves \in [Eids -> EnclaveRec(H)]
  BY Shapes
<1>2. PICK d \in Eids : d = frame[g].eid
  BY Shapes DEF EidOf
<1>3. enclaves' = [enclaves EXCEPT ![d] =
          [@ EXCEPT !.n_thread = 0, !.params = NoParams, !.epm = NoRegion, !.utm = NoRegion]]
  BY <1>2 DEF DestroyClear
<1>4. /\ EncOthers(d) /\ enclaves'[d].state = enclaves[d].state
      /\ enclaves'[d].hash = enclaves[d].hash /\ enclaves'[d].thread = enclaves[d].thread
  BY <1>1, <1>3 DEF EnclaveRec, EncOthers
<1>5. /\ OnlyHart(g) /\ pc[g] = "d_clear" /\ pc'[g] = "d_eid"
      /\ UNCHANGED <<pmpVars, harts, frame, ipi, mem, handles>>
  BY Shapes DEF DestroyClear, Goto, OnlyHart
<1> QED BY <1>2, <1>4, <1>5 DEF EidOf

\* Entering and leaving an enclave.
LEMMA EnterEffect ==
    ASSUME TypeInv, RunInv, NEW g \in Harts, NEW d \in Eids,
           RunEnclave(g, d) \/ ResumeEnclave(g, d)
    PROVE  /\ OnlyHart(g) /\ pc[g] = "host" /\ EidOf(g)' = d
           /\ UNCHANGED <<pmpVars, harts, ipi, mem, handles>>
           /\ SerialHost => \A h \in Harts : ~Switching(h, d)
           /\ EncOthers(d) /\ SameBody(d) /\ enclaves'[d].state = RUNNING
           /\ enclaves'[d].hash = enclaves[d].hash
           /\ \/ pc'[g] = "e_load" /\ enclaves[d].state = FRESH
              \/ pc'[g] = "e_swap" /\ enclaves[d].state = STOPPED
<1>1. PICK H : enclaves \in [Eids -> EnclaveRec(H)]
  BY Shapes
<1>2. /\ enclaves' = [enclaves EXCEPT ![d].state = RUNNING, ![d].n_thread = @ + 1]
      /\ frame' = [frame EXCEPT ![g] = [NoFrame EXCEPT !.eid = d]]
  BY DEF RunEnclave, ResumeEnclave, Enter
<1>3. /\ EncOthers(d) /\ SameBody(d) /\ enclaves'[d].state = RUNNING
      /\ enclaves'[d].hash = enclaves[d].hash
  BY <1>1, <1>2 DEF EnclaveRec, EncOthers, SameBody
<1>4. EidOf(g)' = d
  BY <1>2, Shapes DEF NoFrame, EidOf
<1>5. /\ OnlyHart(g) /\ pc[g] = "host"
      /\ UNCHANGED <<pmpVars, harts, ipi, mem, handles>>
      /\ SerialHost => \A h \in Harts : ~Switching(h, d)
  BY <1>2, Shapes DEF RunEnclave, ResumeEnclave, Enter, HostCall, HostMayEnter, Goto, OnlyHart
<1>6. \/ pc'[g] = "e_load" /\ enclaves[d].state = FRESH
      \/ pc'[g] = "e_swap" /\ enclaves[d].state = STOPPED
  <2>1. Count(d) = IF State(d) = RUNNING THEN 1 ELSE 0
    BY DEF RunInv, Counted
  <2>2. ~(1 < MAX_ENCL_THREADS)
    BY SMT DEF MAX_ENCL_THREADS
  <2> QED BY <2>1, <2>2, Shapes DEF RunEnclave, ResumeEnclave, Goto, State, Count
<1> QED BY <1>3, <1>4, <1>5, <1>6

\* A stop or exit makes the enclave STOPPED before the hart leaves it.
LEMMA LeaveEffect ==
    ASSUME TypeInv, RunInv, NEW g \in Harts, StopEnclave(g) \/ ExitEnclave(g)
    PROVE  /\ OnlyHart(g) /\ pc[g] = "enclave" /\ pc'[g] = "x_pmp" /\ EidOf(g)' = EidOf(g)
           /\ UNCHANGED <<pmpVars, harts, ipi, mem, handles>>
           /\ EncOthers(EidOf(g)) /\ SameBody(EidOf(g))
           /\ enclaves[EidOf(g)].state = RUNNING /\ enclaves'[EidOf(g)].state = STOPPED
           /\ enclaves'[EidOf(g)].hash = enclaves[EidOf(g)].hash
<1>1. PICK H : enclaves \in [Eids -> EnclaveRec(H)]
  BY Shapes
<1>2. Leave(g) /\ pc[g] = "enclave"
  BY DEF StopEnclave, ExitEnclave, Leave
<1>3. PICK d \in Eids : d = frame[g].eid /\ d = cpus[g]
  BY <1>2, Shapes DEF EidOf, TypeInv, InContext
<1>4. enclaves[d].state = RUNNING /\ enclaves[d].n_thread = 1
  BY <1>2, <1>3 DEF Leave, RunInv, Counted, State, Count
<1>5. /\ enclaves' = [enclaves EXCEPT ![d].n_thread = @ - 1, ![d].state = STOPPED]
      /\ frame' = [frame EXCEPT ![g] = [NoFrame EXCEPT !.eid = d]]
  BY <1>2, <1>3, <1>4 DEF Leave
<1>6. /\ EncOthers(d) /\ SameBody(d) /\ enclaves'[d].state = STOPPED
      /\ enclaves'[d].hash = enclaves[d].hash
  BY <1>1, <1>5 DEF EnclaveRec, EncOthers, SameBody
<1>7. frame'[g].eid = d
  BY <1>5, Shapes DEF NoFrame
<1>8. OnlyHart(g) /\ pc'[g] = "x_pmp" /\ UNCHANGED <<pmpVars, harts, ipi, mem, handles>>
  BY ZenonT(40), <1>2, <1>5, Shapes DEF Leave, Goto, OnlyHart
<1> QED BY <1>2, <1>3, <1>4, <1>6, <1>7, <1>8 DEF EidOf

\* The context switches, and the steps of the hardware.
SameTable == \A e \in Eids :
    /\ enclaves'[e].epm = enclaves[e].epm /\ enclaves'[e].utm = enclaves[e].utm
    /\ enclaves'[e].params = enclaves[e].params
    /\ enclaves'[e].state = enclaves[e].state /\ enclaves'[e].hash = enclaves[e].hash

\* A swap exchanges the registers of the hart with the thread of the enclave.
LEMMA SwapEffect ==
    ASSUME TypeInv, NEW g \in Harts, SwapToEnclave(g) \/ SwapToHost(g)
    PROVE  /\ OnlyHart(g)
           /\ UNCHANGED <<pmpVars, pmpcfg, ipi, mem, handles>>
           /\ SameTable /\ EncOthers(EidOf(g))
           /\ enclaves'[EidOf(g)].thread = regs[g]
           /\ \A h \in Harts : h # g => regs'[h] = regs[h]
           /\ \/ /\ pc[g] \in {"e_load", "e_swap"} /\ pc'[g] = "e_pmp" /\ frame' = frame
                 /\ regs'[g] = IF pc[g] = "e_load" THEN EnclaveCtx(EidOf(g))
                               ELSE enclaves[EidOf(g)].thread
              \/ /\ pc[g] = "x_swap" /\ pc'[g] = "host"
                 /\ regs'[g] = enclaves[EidOf(g)].thread
<1>1. PICK H : enclaves \in [Eids -> EnclaveRec(H)]
  BY Shapes
<1>2. PICK d \in Eids : d = frame[g].eid
  BY Shapes DEF EidOf
<1>3. enclaves' = [enclaves EXCEPT ![d].thread = regs[g]]
  BY <1>2 DEF SwapToEnclave, SwapToHost
<1>4. SameTable /\ EncOthers(d) /\ enclaves'[d].thread = regs[g]
  BY <1>1, <1>3 DEF EnclaveRec, SameTable, EncOthers
<1>5. /\ OnlyHart(g) /\ UNCHANGED <<pmpVars, pmpcfg, ipi, mem, handles>>
      /\ \A h \in Harts : h # g => regs'[h] = regs[h]
  BY ZenonT(40), Shapes DEF SwapToEnclave, SwapToHost, Goto, OnlyHart
<1>6. \/ /\ pc[g] \in {"e_load", "e_swap"} /\ pc'[g] = "e_pmp" /\ frame' = frame
         /\ regs'[g] = IF pc[g] = "e_load" THEN EnclaveCtx(EidOf(g))
                       ELSE enclaves[EidOf(g)].thread
      \/ /\ pc[g] = "x_swap" /\ pc'[g] = "host"
         /\ regs'[g] = enclaves[EidOf(g)].thread
  BY Shapes DEF SwapToEnclave, SwapToHost, Goto, EidOf
<1> QED BY <1>2, <1>4, <1>5, <1>6 DEF EidOf

\* On the way in and out, a hart writes its own registers only.
LEMMA PmpEffect ==
    ASSUME TypeInv, NEW g \in Harts, PmpToEnclave(g) \/ PmpToHost(g)
    PROVE  /\ OnlyHart(g) /\ UNCHANGED <<pmpVars, enclaves, regs, frame, ipi, mem, handles>>
           /\ \A h \in Harts : h # g => pmpcfg'[h] = pmpcfg[h]
           /\ \/ /\ pc[g] = "e_pmp" /\ pc'[g] = "enclave"
                 /\ pmpcfg'[g] = set_enclave_regions(osm_pmp_set(pmpcfg[g], FALSE), EidOf(g), TRUE)
              \/ /\ pc[g] = "x_pmp" /\ pc'[g] = "x_swap"
                 /\ pmpcfg'[g] = osm_pmp_set(set_enclave_regions(pmpcfg[g], EidOf(g), FALSE), TRUE)
<1>1. pmpcfg \in [Harts -> [RegIds -> PmpReg]]
  BY DEF TypeInv, FileType
<1>2. PICK f1, f2 :
         /\ f1 = set_enclave_regions(osm_pmp_set(pmpcfg[g], FALSE), EidOf(g), TRUE)
         /\ f2 = osm_pmp_set(set_enclave_regions(pmpcfg[g], EidOf(g), FALSE), TRUE)
  OBVIOUS
<1>3. CASE PmpToEnclave(g)
  <2>1. pmpcfg' = [pmpcfg EXCEPT ![g] = f1]
    BY <1>2, <1>3 DEF PmpToEnclave, EidOf
  <2> QED BY <1>1, <1>2, <1>3, <2>1, Shapes DEF PmpToEnclave, Goto, OnlyHart
<1>4. CASE PmpToHost(g)
  <2>1. pmpcfg' = [pmpcfg EXCEPT ![g] = f2]
    BY <1>2, <1>4 DEF PmpToHost, EidOf
  <2> QED BY <1>1, <1>2, <1>4, <2>1, Shapes DEF PmpToHost, Goto, OnlyHart
<1> QED BY <1>3, <1>4

\* A hart serves an IPI: one region is set or unset in its registers.
LEMMA IpiEffect ==
    ASSUME TypeInv, NEW g \in Harts, NEW src \in Harts, PmpIpi(g, src)
    PROVE  /\ UNCHANGED <<pmpVars, enclaves, cpus, regs, pc, frame, mem, handles>>
           /\ g \in ipi[src].todo /\ Interruptible(g)
           /\ \A h \in Harts : h # g => pmpcfg'[h] = pmpcfg[h]
           /\ pmpcfg'[g] = IF ipi[src].set THEN pmp_set_keystone(pmpcfg[g], ipi[src].rid, FALSE)
                           ELSE pmp_unset(pmpcfg[g], ipi[src].rid)
           /\ \A h \in Harts : h # src => ipi'[h] = ipi[h]
           /\ ipi'[src].todo = ipi[src].todo \ {g}
           /\ ipi'[src].todo # {} => ipi'[src].rid = ipi[src].rid /\ ipi'[src].set = ipi[src].set
<1>1. pmpcfg \in [Harts -> [RegIds -> PmpReg]]
  BY DEF TypeInv, FileType
<1>2. PICK f : f = IF ipi[src].set THEN pmp_set_keystone(pmpcfg[g], ipi[src].rid, FALSE)
                   ELSE pmp_unset(pmpcfg[g], ipi[src].rid)
  OBVIOUS
<1>3. pmpcfg' = [pmpcfg EXCEPT ![g] = f]
  BY <1>2 DEF PmpIpi
<1>4. ipi' = [ipi EXCEPT ![src] = IF ipi[src].todo = {g} THEN NoIpi
                                  ELSE [@ EXCEPT !.todo = ipi[src].todo \ {g}]]
  BY DEF PmpIpi
<1>5. /\ \A h \in Harts : h # src => ipi'[h] = ipi[h]
      /\ ipi'[src].todo = ipi[src].todo \ {g}
      /\ ipi'[src].todo # {} => ipi'[src].rid = ipi[src].rid /\ ipi'[src].set = ipi[src].set
  <2>1. PICK q \in [rid : MaybeRegion, set : BOOLEAN, todo : SUBSET Harts] : q = ipi[src]
    BY Shapes
  <2>2. PICK n : n = IF q.todo = {g} THEN NoIpi ELSE [q EXCEPT !.todo = q.todo \ {g}]
    OBVIOUS
  <2>3. ipi' = [ipi EXCEPT ![src] = n]
    BY <1>4, <2>1, <2>2
  <2>4. n.todo = q.todo \ {g} /\ (n.todo # {} => n.rid = q.rid /\ n.set = q.set)
    <3>1. CASE q.todo = {g}
      BY <2>2, <3>1 DEF NoIpi
    <3>2. CASE q.todo # {g}
      BY <2>2, <3>2
    <3> QED BY <3>1, <3>2
  <2> QED BY <2>1, <2>3, <2>4, Shapes
<1> QED BY <1>1, <1>2, <1>3, <1>5 DEF PmpIpi

\* The part of OwnInv that speaks of Has and the table.
TableInv == Backed /\ OneOwner /\ NoneLost /\ BootKept

\* The two boot regions are in different slots.
LEMMA BootIds == sm_region_id \in RegionIds /\ os_region_id \in RegionIds
                 /\ sm_region_id # os_region_id
  BY SMT, PMPAssumption DEF sm_region_id, os_region_id, RegionIds

\* Most steps leave alone who has which region.
SameRecords == \A e \in Eids : /\ Alive(e)' <=> Alive(e)
                               /\ enclaves'[e].epm = enclaves[e].epm
                               /\ enclaves'[e].utm = enclaves[e].utm
                               /\ enclaves'[e].params = enclaves[e].params

Quiet(g) ==
    /\ OnlyHart(g) /\ SameRecords /\ UNCHANGED pmpVars
    /\ \A k \in Kinds : /\ pc'[g] \in DHolds(k) <=> pc[g] \in DHolds(k)
                        /\ pc'[g] \in CHolds(k) <=> pc[g] \in CHolds(k)
                        /\ pc[g] \in DHolds(k) => frame'[g].eid = frame[g].eid
                        /\ pc[g] \in CHolds(k) => frame'[g] = frame[g]

\* Three ways in which the records of enclaves stay as they are.
LEMMA RecordsKept ==
    /\ enclaves' = enclaves => SameRecords
    /\ SameTable => SameRecords
    /\ \A d \in Eids : EncOthers(d) /\ SameBody(d) /\ (Alive(d)' <=> Alive(d)) => SameRecords
<1>1. enclaves' = enclaves => SameRecords
  BY DEF SameRecords, Alive
<1>2. SameTable => SameRecords
  BY DEF SameRecords, SameTable, Alive
<1>3. ASSUME NEW d \in Eids, EncOthers(d), SameBody(d), Alive(d)' <=> Alive(d)
      PROVE  SameRecords
  BY <1>3 DEF SameRecords, EncOthers, SameBody, Alive
<1> QED BY <1>1, <1>2, <1>3

\* The states of enclaves that are being created or destroyed, or do not exist.
LEMMA AliveStates ==
    /\ INVALID \notin {FRESH, STOPPED, RUNNING} /\ ALLOCATED \notin {FRESH, STOPPED, RUNNING}
    /\ DESTROYING \notin {FRESH, STOPPED, RUNNING}
  BY SMTT(30) DEF INVALID, ALLOCATED, DESTROYING, FRESH, STOPPED, RUNNING

\* The enclave a call of create or destroy works on is not alive.
LEMMA CallNotAlive ==
    ASSUME TypeInv, RunInv, NEW g \in Harts, pc[g] \in CLabels \cup DLabels
    PROVE  /\ EidOf(g) \in Eids /\ ~Alive(EidOf(g)) /\ pc[g] \in BLabels
           /\ pc[g] \in CLabels => State(EidOf(g)) = ALLOCATED
           /\ pc[g] \in DLabels => State(EidOf(g)) = DESTROYING
  BY SMT, Shapes, HeldFacts, AliveStates DEF RunInv, Holds, Busy, State, Alive, EidOf

\* The labels between which a hart moves without gaining or losing a region.
LEMMA QuietMoves ==
    ASSUME NEW k \in Kinds
    PROVE  /\ \A l \in {"host", "c_epm", "c_free_eid", "e_load", "e_swap", "e_pmp", "enclave",
                        "x_pmp", "x_swap", "d_clear", "d_eid"} : l \notin DHolds(k) /\ l \notin CHolds(k)
           /\ \A l \in {"c_set", "c_meta", "c_hash", "c_unset", "c_free_utm"} :
                  l \in CHolds(k) /\ l \notin DHolds(k)
           /\ \A l \in {"d_read", "d_zero", "d_unset", "d_free"} :
                  l \notin CHolds(k) /\ l \in DHolds(k)
           /\ \A l \in {"c_utm", "c_free_epm"} :
                  (l \in CHolds(k) <=> k = "epm") /\ l \notin DHolds(k)
           /\ ("d_utm" \in DHolds(k) <=> k = "utm") /\ "d_utm" \notin CHolds(k)
  BY DEF Kinds, CHolds, DHolds

\* The steps of create and destroy that neither allocate, free nor move a region.
LEMMA QuietCalls ==
    ASSUME TypeInv, RunInv, NEW g \in Harts
    PROVE  /\ \A args \in CreateArgs : CreateEnclave(g, args) => Quiet(g)
           /\ CreateEpm(g) /\ pc'[g] # "c_utm" => Quiet(g)
           /\ CreateUtm(g) /\ pc'[g] # "c_set" => Quiet(g)
           /\ CreateSet(g) \/ CreateUnset(g) \/ CreateFreeEid(g) => Quiet(g)
           /\ DestroyZero(g) \/ DestroyUnset(g) \/ DestroyFreeEid(g) => Quiet(g)
<1> USE QuietMoves
<1>1. ASSUME NEW args \in CreateArgs, CreateEnclave(g, args) PROVE Quiet(g)
  <2>1. PICK d \in Eids : /\ d = EidOf(g)' /\ EncOthers(d) /\ enclaves[d].state = INVALID
                          /\ enclaves'[d].state = ALLOCATED
    BY SMT, <1>1, CreateEnclaveEffect
  <2>2. ~Alive(d) /\ ~Alive(d)'
    BY <2>1, AliveStates DEF Alive
  <2>3. SameBody(d)
    <3>1. PICK H : enclaves \in [Eids -> EnclaveRec(H)]
      BY Shapes
    <3>2. PICK e \in Eids : enclaves' = [enclaves EXCEPT ![e].state = ALLOCATED]
      BY <1>1 DEF CreateEnclave
    <3> QED BY <3>1, <3>2 DEF EnclaveRec, SameBody
  <2>4. SameRecords
    BY <2>1, <2>2, <2>3, RecordsKept
  <2>5. OnlyHart(g) /\ pc[g] = "host" /\ pc'[g] = "c_epm" /\ UNCHANGED pmpVars
    BY <1>1, CreateEnclaveEffect
  <2> QED BY SMTT(30), <2>4, <2>5 DEF Quiet
<1>2. ASSUME CreateEpm(g), pc'[g] # "c_utm" PROVE Quiet(g)
  <2>1. /\ OnlyHart(g) /\ UNCHANGED <<frame, enclaves>> /\ UNCHANGED pmpVars
        /\ pc[g] = "c_epm" /\ pc'[g] = "c_free_eid"
    BY <1>2, CreateEpmEffect
  <2> QED BY ZenonT(40), <2>1, RecordsKept DEF Quiet
<1>3. ASSUME CreateUtm(g), pc'[g] # "c_set" PROVE Quiet(g)
  <2>1. /\ OnlyHart(g) /\ UNCHANGED <<frame, enclaves>> /\ UNCHANGED pmpVars
        /\ pc[g] = "c_utm" /\ pc'[g] = "c_free_epm"
    BY <1>3, CreateUtmEffect
  <2> QED BY SMTT(30), <2>1, RecordsKept DEF Quiet
<1>4. ASSUME CreateSet(g) \/ CreateUnset(g) \/ DestroyZero(g) \/ DestroyUnset(g) PROVE Quiet(g)
  <2>1. /\ OnlyHart(g) /\ UNCHANGED <<frame, enclaves>> /\ UNCHANGED pmpVars
        /\ \/ pc[g] = "c_set" /\ pc'[g] \in {"c_meta", "c_free_utm"}
           \/ pc[g] = "c_unset" /\ pc'[g] = "c_free_utm"
           \/ pc[g] = "d_zero" /\ pc'[g] = "d_unset"
           \/ pc[g] = "d_unset" /\ pc'[g] = "d_free"
    BY <1>4, CallMoves DEF Moves
  <2> QED BY SMTT(30), <2>1, RecordsKept DEF Quiet
<1>5. ASSUME CreateFreeEid(g) \/ DestroyFreeEid(g) PROVE Quiet(g)
  <2>1. /\ OnlyHart(g) /\ UNCHANGED pmpVars /\ pc[g] \in {"c_free_eid", "d_eid"} /\ pc'[g] = "host"
        /\ EncOthers(EidOf(g)) /\ SameBody(EidOf(g)) /\ enclaves'[EidOf(g)].state = INVALID
    BY <1>5, FreeEidEffect
  <2>2. EidOf(g) \in Eids /\ ~Alive(EidOf(g))
    BY <2>1, CallNotAlive DEF CLabels, DLabels
  <2>3. PICK d \in Eids : d = EidOf(g)
    BY <2>2
  <2>4. ~Alive(d)'
    BY <2>1, <2>3, AliveStates DEF Alive
  <2>5. SameRecords
    BY <2>1, <2>2, <2>3, <2>4, RecordsKept
  <2> QED BY SMTT(30), <2>1, <2>5 DEF Quiet
<1> QED BY <1>1, <1>2, <1>3, <1>4, <1>5

(***************************************************************************)
(* The part of the inductive invariant about IPIs and harts that leave.    *)
(***************************************************************************)
\* Who waits for IPIs, and for which region.
IpiInv == \A g \in Harts : ~Synced(g) =>
              /\ pc[g] \in {"c_meta", "c_free_utm", "d_free"}
              /\ ipi[g].rid = frame[g].region
              /\ ipi[g].set <=> pc[g] = "c_meta"

\* A hart that is leaving an enclave serves no IPI, so a destroy that started meanwhile
\* cannot free the regions before the hart has left.
Leaving(h, e) == pc[h] \in {"x_pmp", "x_swap"} /\ frame[h].eid = e

LeaveInv ==
    /\ \A h \in Harts, e \in Eids : Leaving(h, e) =>
          \/ enclaves[e].state = STOPPED
          \/ \E g \in Harts : /\ frame[g].eid = e
                              /\ \/ pc[g] \in {"d_read", "d_zero", "d_unset"}
                                 \/ pc[g] = "d_free" /\ h \in ipi[g].todo
    /\ \A g, h \in Harts, e \in Eids : Leaving(g, e) /\ Leaving(h, e) => g = h

(***************************************************************************)
(* Who waits for IPIs.                                                     *)
(***************************************************************************)
Waits == {"c_meta", "c_free_utm", "d_free"}

\* A step that sends nothing, of a hart that does not wait.
Sends(g) == CreateSet(g) \/ CreateUnset(g) \/ DestroyUnset(g)

NoIpiStep(g) == OnlyHart(g) /\ ipi' = ipi /\ (pc[g] \in Waits => Synced(g))

\* The steps other than the three that send IPIs.
LEMMA NoIpiSteps ==
    ASSUME TypeInv, RunInv, NEW g \in Harts
    PROVE  /\ \A args \in CreateArgs : CreateEnclave(g, args) => NoIpiStep(g)
           /\ \A d \in Eids : \/ DestroyEnclave(g, d) \/ RunEnclave(g, d) \/ ResumeEnclave(g, d)
                              => NoIpiStep(g)
           /\ StopEnclave(g) \/ ExitEnclave(g) \/ Switch(g) => NoIpiStep(g)
           /\ (Create(g) \/ Destroy(g)) /\ ~Sends(g) => NoIpiStep(g)
<1> USE DEF NoIpiStep, Waits
<1>1. ASSUME NEW args \in CreateArgs, CreateEnclave(g, args) PROVE NoIpiStep(g)
  BY <1>1, CreateEnclaveEffect, CallTouches
<1>2. ASSUME NEW d \in Eids, DestroyEnclave(g, d) \/ RunEnclave(g, d) \/ ResumeEnclave(g, d)
      PROVE  NoIpiStep(g)
  BY <1>2, DestroyEnclaveEffect, EnterEffect
<1>3. ASSUME StopEnclave(g) \/ ExitEnclave(g) PROVE NoIpiStep(g)
  BY <1>3, LeaveEffect
<1>4. ASSUME Switch(g) PROVE NoIpiStep(g)
  BY <1>4, SwapEffect, PmpEffect DEF Switch
<1>5. ASSUME Create(g), ~Sends(g) PROVE NoIpiStep(g)
  <2>1. CASE CreateEpm(g) \/ CreateUtm(g)
    BY <2>1, CreateEpmEffect, CreateUtmEffect
  <2>2. CASE CreateMeta(g) \/ CreateHash(g) \/ CreateFreeEid(g)
    BY <2>2, CreateMetaEffect, CreateHashEffect, FreeEidEffect
  <2>3. CASE CreateFreeUtm(g) \/ CreateFreeEpm(g)
    BY <2>3, CallMoves DEF Moves
  <2> QED BY <1>5, <2>1, <2>2, <2>3 DEF Create, Sends
<1>6. ASSUME Destroy(g), ~Sends(g) PROVE NoIpiStep(g)
  <2>1. CASE DestroyRead(g)
    BY <2>1, Shapes DEF DestroyRead, OnlyHart, Goto
  <2>2. CASE DestroyZero(g) \/ DestroyFree(g) \/ DestroyUtm(g)
    BY <2>2, CallMoves DEF Moves
  <2>3. CASE DestroyClear(g) \/ DestroyFreeEid(g)
    BY <2>3, DestroyClearEffect, FreeEidEffect
  <2> QED BY <1>6, <2>1, <2>2, <2>3 DEF Destroy, Sends
<1> QED BY <1>1, <1>2, <1>3, <1>4, <1>5, <1>6

\* What a step that sends does.
LEMMA SendEffect ==
    ASSUME TypeInv, NEW g \in Harts, Sends(g)
    PROVE  /\ OnlyHart(g) /\ UNCHANGED <<frame, enclaves, harts, handles, mem>> /\ UNCHANGED pmpVars
           /\ \A h \in Harts : h # g => ipi'[h] = ipi[h]
           /\ ipi'[g].rid = frame[g].region /\ (ipi'[g].set <=> CreateSet(g))
           /\ ipi'[g].todo = IF is_pmp_region_valid(frame[g].region) THEN Harts ELSE {}
           /\ CreateSet(g) => /\ pc[g] = "c_set"
                              /\ pc'[g] = IF is_pmp_region_valid(frame[g].region) THEN "c_meta"
                                          ELSE "c_free_utm"
           /\ CreateUnset(g) => pc[g] = "c_unset" /\ pc'[g] = "c_free_utm"
           /\ DestroyUnset(g) => pc[g] = "d_unset" /\ pc'[g] = "d_free"
<1>1. /\ OnlyHart(g) /\ UNCHANGED <<frame, enclaves, harts, handles, mem>> /\ UNCHANGED pmpVars
      /\ CreateSet(g) => /\ pc[g] = "c_set"
                         /\ pc'[g] = IF is_pmp_region_valid(frame[g].region) THEN "c_meta"
                                     ELSE "c_free_utm"
      /\ CreateUnset(g) => pc[g] = "c_unset" /\ pc'[g] = "c_free_utm"
      /\ DestroyUnset(g) => pc[g] = "d_unset" /\ pc'[g] = "d_free"
  BY CallMoves DEF Moves, Sends
<1>2. PICK b \in BOOLEAN : (b <=> CreateSet(g)) /\ send_pmp_ipi(g, frame[g].region, b)
  <2>1. CASE CreateSet(g)
    BY <2>1, CallMoves
  <2>2. CASE ~CreateSet(g)
    BY <2>2, CallMoves DEF Sends
  <2> QED BY <2>1, <2>2
<1>3. PICK r, todo : r = frame[g].region
                     /\ todo = IF is_pmp_region_valid(frame[g].region) THEN Harts ELSE {}
  OBVIOUS
<1>4. ipi' = [ipi EXCEPT ![g] = [rid |-> r, set |-> b, todo |-> todo]]
  BY <1>2, <1>3 DEF send_pmp_ipi
<1>5. /\ \A h \in Harts : h # g => ipi'[h] = ipi[h]
      /\ ipi'[g].rid = r /\ ipi'[g].set = b /\ ipi'[g].todo = todo
  BY <1>4, Shapes
<1> QED BY <1>1, <1>2, <1>3, <1>5

(***************************************************************************)
(* Who is leaving an enclave.                                              *)
(***************************************************************************)
Early == {"d_read", "d_zero", "d_unset"}

\* Why the enclave that hart h is leaving still has its regions.
Cover(h, e) ==
    \/ enclaves[e].state = STOPPED
    \/ \E g \in Harts : /\ frame[g].eid = e
                        /\ pc[g] \in Early \/ (pc[g] = "d_free" /\ h \in ipi[g].todo)

\* LeaveInv, by the reason why an enclave that is being left has its regions.
LEMMA LeaveForm ==
    LeaveInv <=> /\ \A h \in Harts, e \in Eids : Leaving(h, e) => Cover(h, e)
                 /\ \A g, h \in Harts, e \in Eids : Leaving(g, e) /\ Leaving(h, e) => g = h
  BY DEF LeaveInv, Cover, Early

\* Early and d_free are labels of destroy.
LEMMA EarlyLabels == \A l : l \in Early \/ l = "d_free" => l \in DLabels /\ l \in BLabels
  BY DEF Early, DLabels, BLabels

\* Nobody is leaving an enclave that runs, is being created or is being taken down.
LEMMA NoLeaver ==
    ASSUME RunInv, LeaveInv, NEW d \in Eids, enclaves[d].state # STOPPED,
           \/ enclaves[d].state # DESTROYING
           \/ \E g \in Harts : /\ frame[g].eid = d /\ pc[g] \in DLabels \ Early
                               /\ pc[g] = "d_free" => Synced(g)
    PROVE  \A h \in Harts : ~Leaving(h, d)
<1> SUFFICES ASSUME NEW h \in Harts, Leaving(h, d) PROVE FALSE
  OBVIOUS
<1>1. Cover(h, d)
  BY LeaveForm
<1>2. PICK k \in Harts : /\ frame[k].eid = d
                         /\ pc[k] \in Early \/ (pc[k] = "d_free" /\ h \in ipi[k].todo)
  BY <1>1 DEF Cover
<1>3. pc[k] \in DLabels /\ Busy(k, d)
  BY <1>2, EarlyLabels DEF Busy
<1>4. enclaves[d].state = DESTROYING
  BY <1>3, HeldFacts DEF RunInv, Holds, State
<1>5. PICK g \in Harts : /\ frame[g].eid = d /\ pc[g] \in DLabels \ Early
                         /\ pc[g] = "d_free" => Synced(g)
  BY <1>4
<1>6. Busy(g, d)
  BY <1>5, HeldFacts DEF Busy
<1>7. g = k
  BY <1>3, <1>6 DEF RunInv, Alone
<1> QED BY <1>2, <1>5, <1>7 DEF Synced

(***************************************************************************)
(* The regions and the records after a step of create or destroy.          *)
(***************************************************************************)
Epm(e) == regions[enclaves[e].epm]

\* Every hart must have the private region of e in its registers.
Closed(e) == Alive(e) \/ \E g \in Harts : /\ pc[g] \in {"c_hash", "d_read", "d_zero"}
                                          /\ frame[g].eid = e

\* Enclave e has memory that nobody else may read: until it is erased.
Kept(e) == Alive(e) \/ \E h \in Harts : pc[h] \in {"d_read", "d_zero"} /\ frame[h].eid = e

\* Whoever needs the registers of a region has the region.
LEMMA ClosedHas ==
    ASSUME OwnInv, NEW e \in Eids, Closed(e)
    PROVE  Has(e, "epm", enclaves[e].epm, enclaves[e].params)
<1>1. "epm" \in Kinds
  BY DEF Kinds
<1>2. ASSUME NEW g \in Harts, pc[g] = "c_hash", frame[g].eid = e
      PROVE  Has(e, "epm", enclaves[e].epm, enclaves[e].params)
  <2>1. enclaves[e].epm = frame[g].region /\ enclaves[e].params = frame[g].args
    BY <1>2 DEF OwnInv, Filled
  <2> QED BY ZenonT(40), <1>1, <1>2, <2>1, QuietMoves DEF Has, FrameRegion
<1> QED BY SMTT(30), <1>1, <1>2, QuietMoves DEF Closed, Has, OwnRegion

\* The region table changes only where the caller's own region is.
LEMMA AllocStays ==
    ASSUME PMPTypeOK, NEW start \in Word, NEW size \in Word, NEW priority \in Priorities, NEW rid,
           pmp_region_init_atomic(start, size, priority, FALSE, rid)
    PROVE  \A r \in region_def_bitmap : regions'[r] = regions[r]
<1>1. PICK no \in BOOLEAN : no = FALSE
  OBVIOUS
<1>2. pmp_region_init_atomic(start, size, priority, no, rid)
  BY <1>1
<1>3. rid \notin region_def_bitmap /\ \A i \in RegionIds : i # rid => regions'[i] = regions[i]
  BY SMTT(30), <1>2, AllocType, AllocEffect
<1> QED BY <1>3 DEF PMPTypeOK

\* A free moves no region of another enclave.
LEMMA FreeStays ==
    ASSUME PMPTypeOK, TableInv, NEW rid \in MaybeRegion, pmp_region_free_atomic(rid),
           NEW d \in Eids, NEW l \in Kinds, NEW a \in Params, Has(d, l, rid, a)
    PROVE  /\ regions'[sm_region_id] = regions[sm_region_id]
           /\ \A e \in Eids, k \in Kinds, r \in MaybeRegion, args \in Params :
                  e # d /\ Has(e, k, r, args) => regions'[r] = regions[r]
<1>1. \A i \in RegionIds : i # rid => regions'[i] = regions[i]
  BY FreeKeeps
<1>2. rid # sm_region_id
  BY DEF TableInv, Backed, Holding
<1>3. ASSUME NEW e \in Eids, NEW k \in Kinds, NEW r \in MaybeRegion, NEW args \in Params,
             e # d, Has(e, k, r, args)
      PROVE  regions'[r] = regions[r]
  <2>1. r # rid
    BY SMTT(30), <1>3 DEF TableInv, OneOwner
  <2>2. r \in RegionIds
    BY <1>3 DEF TableInv, Backed, Holding, PMPTypeOK
  <2> QED BY <1>1, <2>1, <2>2
<1> QED BY <1>1, <1>2, <1>3, BootIds

\* Create and destroy move no region of another enclave.
LEMMA RegionsStay ==
    ASSUME TypeInv, RunInv, OwnInv, NEW g \in Harts, NEW d \in Eids, d = EidOf(g),
           Create(g) \/ Destroy(g)
    PROVE  /\ regions'[sm_region_id] = regions[sm_region_id]
           /\ \A e \in Eids, k \in Kinds, r \in MaybeRegion, args \in Params :
                  e # d /\ Has(e, k, r, args) => regions'[r] = regions[r]
<1>0. TableInv /\ PMPTypeOK
  BY DEF OwnInv, TableInv, TypeInv
<1>1. ASSUME \A r \in region_def_bitmap : regions'[r] = regions[r]
      PROVE  /\ regions'[sm_region_id] = regions[sm_region_id]
             /\ \A e \in Eids, k \in Kinds, r \in MaybeRegion, args \in Params :
                    e # d /\ Has(e, k, r, args) => regions'[r] = regions[r]
  <2>1. \A e \in Eids, k \in Kinds, r \in MaybeRegion, args \in Params :
           Has(e, k, r, args) => r \in region_def_bitmap
    BY <1>0 DEF TableInv, Backed, Holding
  <2> QED BY <1>0, <1>1, <2>1 DEF TableInv, BootKept
<1>2. PICK a \in Params : a = frame[g].args
  BY Shapes
<1>3. PICK f : f = frame[g]
  OBVIOUS
<1>4. /\ f.args \in Params /\ f.region \in MaybeRegion /\ f.shared \in MaybeRegion
      /\ enclaves[d].params \in Params
      /\ enclaves[d].epm \in MaybeRegion /\ enclaves[d].utm \in MaybeRegion
      /\ f.eid = d /\ "utm" \in Kinds /\ "epm" \in Kinds
  BY <1>3, Shapes DEF Kinds, EidOf
<1>5. ASSUME CreateEpm(g) \/ CreateUtm(g)
      PROVE  \A r \in region_def_bitmap : regions'[r] = regions[r]
  <2>1. \/ UNCHANGED pmpVars
        \/ pmp_region_init_atomic(a.epm, a.epmsize, "ANY", FALSE, frame'[g].region)
        \/ pmp_region_init_atomic(a.utm, a.utmsize, "BOTTOM", FALSE, frame'[g].shared)
    BY <1>2, <1>5, CreateEpmEffect, CreateUtmEffect
  <2>2. PICK r1, r2 : r1 = frame'[g].region /\ r2 = frame'[g].shared
    OBVIOUS
  <2>3. \/ UNCHANGED pmpVars
        \/ pmp_region_init_atomic(a.epm, a.epmsize, "ANY", FALSE, r1)
        \/ pmp_region_init_atomic(a.utm, a.utmsize, "BOTTOM", FALSE, r2)
    BY <2>1, <2>2
  <2>4. a.epm \in Word /\ a.epmsize \in Word /\ a.utm \in Word /\ a.utmsize \in Word
    BY ParamsWords
  <2> QED BY <1>0, <2>3, <2>4, AllocStays DEF Priorities, pmpVars
<1>6. ASSUME \/ CreateSet(g) \/ CreateMeta(g) \/ CreateHash(g) \/ CreateUnset(g) \/ CreateFreeEid(g)
             \/ DestroyRead(g) \/ DestroyZero(g) \/ DestroyUnset(g) \/ DestroyClear(g)
             \/ DestroyFreeEid(g)
      PROVE  regions' = regions
  BY <1>6 DEF CreateSet, CreateMeta, CreateHash, CreateUnset, CreateFreeEid, DestroyRead,
              DestroyZero, DestroyUnset, DestroyClear, DestroyFreeEid, pmpVars
<1>7. CASE CreateFreeUtm(g)
  <2>1. pmp_region_free_atomic(f.shared) /\ pc[g] = "c_free_utm"
    BY <1>3, <1>7, CallMoves DEF Moves
  <2>2. Has(d, "utm", f.shared, f.args)
    BY ZenonT(40), <1>3, <1>4, <2>1, QuietMoves DEF Has, FrameRegion
  <2> QED BY <1>0, <1>4, <2>1, <2>2, FreeStays
<1>8. CASE CreateFreeEpm(g)
  <2>1. pmp_region_free_atomic(f.region) /\ pc[g] = "c_free_epm"
    BY <1>3, <1>8, CallMoves DEF Moves
  <2>2. Has(d, "epm", f.region, f.args)
    BY ZenonT(40), <1>3, <1>4, <2>1, QuietMoves DEF Has, FrameRegion
  <2> QED BY <1>0, <1>4, <2>1, <2>2, FreeStays
<1>9. CASE DestroyFree(g)
  <2>1. pmp_region_free_atomic(f.region) /\ pc[g] = "d_free"
    BY <1>3, <1>9, CallMoves DEF Moves
  <2>2. f.region = enclaves[d].epm
    BY <1>3, <1>4, <2>1 DEF OwnInv, LookedUp
  <2>3. Has(d, "epm", f.region, enclaves[d].params)
    BY ZenonT(40), <1>3, <1>4, <2>1, <2>2, QuietMoves DEF Has, OwnRegion
  <2> QED BY <1>0, <1>4, <2>1, <2>3, FreeStays
<1>10. CASE DestroyUtm(g)
  <2>1. pc[g] = "d_utm"
    BY <1>10, CallMoves DEF Moves
  <2>2. \/ UNCHANGED pmpVars
        \/ pmp_region_free_atomic(enclaves[d].utm)
    BY <1>10, CallMoves
  <2>3. Has(d, "utm", enclaves[d].utm, enclaves[d].params)
    BY SMTT(30), <1>3, <1>4, <2>1, QuietMoves DEF Has, OwnRegion
  <2>4. CASE UNCHANGED pmpVars
    BY <1>1, <2>4 DEF pmpVars
  <2> QED BY <1>0, <1>4, <2>2, <2>3, <2>4, FreeStays
<1> QED BY <1>1, <1>5, <1>6, <1>7, <1>8, <1>9, <1>10 DEF Create, Destroy

\* Create and destroy change the record of their enclave in two steps only.
LEMMA CallRecords ==
    ASSUME TypeInv, NEW g \in Harts, NEW d \in Eids, d = EidOf(g), Create(g) \/ Destroy(g)
    PROVE  /\ EncOthers(d)
           /\ \/ CreateMeta(g) \/ DestroyClear(g)
              \/ enclaves'[d].epm = enclaves[d].epm /\ enclaves'[d].utm = enclaves[d].utm
                 /\ enclaves'[d].params = enclaves[d].params
<1>1. CASE CreateMeta(g) \/ DestroyClear(g)
  BY <1>1, CreateMetaEffect, DestroyClearEffect
<1>2. CASE CreateHash(g) \/ CreateFreeEid(g) \/ DestroyFreeEid(g)
  BY <1>2, CreateHashEffect, FreeEidEffect DEF SameBody
<1>3. ASSUME \/ CreateEpm(g) \/ CreateUtm(g) \/ CreateSet(g) \/ CreateUnset(g)
             \/ CreateFreeUtm(g) \/ CreateFreeEpm(g) \/ DestroyRead(g) \/ DestroyZero(g)
             \/ DestroyUnset(g) \/ DestroyFree(g) \/ DestroyUtm(g)
      PROVE  enclaves' = enclaves
  BY <1>3 DEF CreateEpm, CreateUtm, CreateSet, CreateUnset, CreateFreeUtm, CreateFreeEpm,
              DestroyRead, DestroyZero, DestroyUnset, DestroyFree, DestroyUtm
<1> QED BY <1>1, <1>2, <1>3 DEF Create, Destroy, EncOthers

\* The addresses of a region that somebody has.
Base(k, args) == IF k = "epm" THEN args.epm ELSE args.utm

Size(k, args) == IF k = "epm" THEN args.epmsize ELSE args.utmsize

Area(k, args) == PagesIn(Base(k, args), Size(k, args))

\* A region that an enclave has is exclusive, and holds the pages it was asked for.
LEMMA HasArea ==
    ASSUME TypeInv, OwnInv, RegionsDisjoint, Modes, NEW e \in Eids, NEW k \in Kinds,
           NEW r \in MaybeRegion, NEW args \in Params, Has(e, k, r, args)
    PROVE  /\ r \in region_def_bitmap \ {sm_region_id, os_region_id} /\ r \in RegionIds
           /\ regions[r] \in Region /\ regions[r].addrmode # "OFF" /\ Exclusive(r)
           /\ regions[r].addr # 0 \/ regions[r].size # MAXUL
           /\ \A p \in Pages : p \in Area(k, args) <=>
                 regions[r].addr <= p /\ p < regions[r].addr + regions[r].size
<1>1. Holding(k, r, args)
  BY DEF OwnInv, Backed
<1>2. /\ r \in region_def_bitmap \ {sm_region_id, os_region_id} /\ r \in RegionIds
      /\ regions[r] \in Region /\ regions[r].addrmode # "OFF" /\ Exclusive(r)
  BY <1>1 DEF Holding, TypeInv, PMPTypeOK, Modes, Exclusive
<1>3. regions[r].addr # 0 \/ regions[r].size # MAXUL
  <2>1. sm_region_id \in RegionIds /\ Exclusive(sm_region_id) /\ sm_region_id # r
        /\ regions[sm_region_id].addr = SMM_BASE /\ regions[sm_region_id].size = SMM_SIZE
    BY SMTT(30), <1>2, BootIds DEF OwnInv, BootKept, BootRegions, Exclusive
  <2>2. \/ regions[r].addr + regions[r].size <= SMM_BASE
        \/ SMM_BASE + SMM_SIZE <= regions[r].addr
    BY <1>2, <2>1 DEF RegionsDisjoint
  <2>3. regions[r].addr \in Nat /\ regions[r].size \in Nat
    BY SMTT(30), <1>2, PMPAssumption DEF Region, Word
  <2> QED BY SMTT(30), <2>2, <2>3, PMPAssumption
<1>4. regions[r].addr = Base(k, args) /\ regions[r].size = Size(k, args)
  BY <1>1 DEF Holding, Base, Size
<1> QED BY <1>2, <1>3, <1>4 DEF Area, PagesIn

\* An enclave that has private memory has its region, and is closed.
LEMMA KeptHas ==
    ASSUME TypeInv, OwnInv, NEW e \in Eids, Kept(e)
    PROVE  /\ Closed(e) /\ Has(e, "epm", enclaves[e].epm, enclaves[e].params)
           /\ enclaves[e].epm \in MaybeRegion /\ enclaves[e].params \in Params
           /\ Area("epm", enclaves[e].params) = EpmPages(e)
<1>1. Closed(e)
  BY DEF Kept, Closed
<1> QED BY <1>1, ClosedHas, Shapes DEF Area, Base, Size, EpmPages
=============================================================================
