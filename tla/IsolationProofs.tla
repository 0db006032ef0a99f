-------------------------- MODULE IsolationProofs ---------------------------
(***************************************************************************)
(* The theorems about the behaviours of module Enclave, for any number of  *)
(* harts, enclaves, regions and PMP registers, from the steps proved in the*)
(* modules it extends: no region is lost, contexts are never mixed, the    *)
(* memory of an enclave is its own, and the monitor implements the ideal   *)
(* enclaves.                                                               *)
(***************************************************************************)
EXTENDS EnclaveProofs, OwnershipProofs, RegisterProofs

\* Most leaves need no arithmetic: Zenon first, then the SMT solver.
USE Zenon, SMT

\* After boot, the two boot regions are all there is.
LEMMA OwnInit == Init => OwnInv
<1> SUFFICES ASSUME Init PROVE OwnInv
  OBVIOUS
<1>1. \A h \in Harts : pc[h] = "host"
  BY DEF Init
<1>2. \A e \in Eids : ~Alive(e)
  BY AliveStates DEF Init, NoEnclave, Alive
<1>3. \A e \in Eids, k \in Kinds : \A r, args : ~Has(e, k, r, args)
  BY ZenonT(40), <1>1, <1>2, QuietMoves DEF Has
<1>4. Backed /\ OneOwner
  BY <1>3 DEF Backed, OneOwner
<1>5. NoneLost /\ BootKept
  BY DEF Init, PMPInit, NoneLost, BootKept
<1>6. ArgsChecked /\ Filled /\ LookedUp
  BY <1>1, <1>2, LabelFacts DEF ArgsChecked, Filled, LookedUp
<1> QED BY <1>4, <1>5, <1>6 DEF OwnInv

\* When no call is in progress, exactly the two boot regions and the two regions of each
\* enclave that exists are in the table (RegionsAccounted), for every number of harts,
\* enclaves and regions, if the host serialises its calls: create_enclave's error path
\* and destroy_enclave free each region they have, once, and nobody else's.  The
\* argument follows every region from the frame of the call that allocates it to the
\* enclave's record and on to the call that frees it (OwnInv).
THEOREM NoRegionLost ==
    ASSUME SerialHost
    PROVE  Spec => []RegionsAccounted
<1>1. Init => TypeInv /\ RunInv /\ OwnInv
  BY InitType, RunInit, OwnInit
<1>2. TypeInv /\ RunInv /\ OwnInv /\ [Next]_vars => (TypeInv /\ RunInv /\ OwnInv)'
  BY TypeStep, RunNext, OwnStep
<1> QED BY <1>1, <1>2, OwnImplies, PTL DEF Spec

\* After boot no hart waits, leaves or has swapped.
LEMMA QuietInit == Init => IpiInv /\ LeaveInv /\ CtxInv
<1> SUFFICES ASSUME Init PROVE IpiInv /\ LeaveInv /\ CtxInv
  OBVIOUS
<1>1. \A h \in Harts : pc[h] = "host" /\ ipi[h].todo = {} /\ regs[h] = HostCtx(h)
  BY DEF Init, NoIpi
<1>2. \A e \in Eids : enclaves[e].state # STOPPED
  BY SMTT(30) DEF Init, NoEnclave, INVALID, STOPPED
<1> QED BY <1>1, <1>2 DEF IpiInv, Synced, LeaveInv, Leaving, CtxInv, Swapped

\* For every number of harts and enclaves, if the host serialises its calls: a hart that
\* executes the host has its own context loaded and a hart that executes an enclave has
\* that enclave's (ContextIntegrity), whichever hart it is resumed on.  threads[0] is one
\* slot for two contexts; the argument is that between the two swaps of a visit no other
\* hart enters the enclave, and that a destroy that starts while a hart is leaving waits,
\* at its IPIs, until that hart is out (LeaveInv, CtxInv).
THEOREM ContextsNeverMixed ==
    ASSUME SerialHost
    PROVE  Spec => []ContextIntegrity
<1> DEFINE Inv == TypeInv /\ RunInv /\ OwnInv /\ IpiInv /\ LeaveInv /\ CtxInv
<1>1. Init => Inv
  BY InitType, RunInit, OwnInit, QuietInit
<1>2. Inv /\ [Next]_vars => Inv'
  BY TypeStep, RunNext, OwnStep, IpiStep, LeaveStep, CtxNext
<1>3. Inv => ContextIntegrity
  BY DEF ContextIntegrity, CtxInv, Swapped, TypeInv, InContext
<1> QED BY <1>1, <1>2, <1>3, PTL DEF Spec

\* After boot the registers hold the monitor's region and permit the rest.
LEMMA FileInit == Init => FileInv
<1> SUFFICES ASSUME Init PROVE FileInv
  OBVIOUS
<1>0. PMPTypeOK /\ BootKept /\ RegistersExact
  BY InitType, OwnInit, PMPInitInv DEF OwnInv, TypeInv, PMPInv, Init
<1>1. \A h \in Harts : pc[h] = "host"
  BY DEF Init
<1>2. \A e \in Eids : ~Closed(e)
  BY <1>1, AliveStates DEF Init, NoEnclave, Alive, Closed
<1>3. PICK yes \in BOOLEAN, no \in BOOLEAN : yes = TRUE /\ no = FALSE
  OBVIOUS
<1>4. PICK f0 \in [RegIds -> PmpReg] : f0 = pmp_init
  BY ConstTypes DEF pmp_init, UnsetReg, PmpReg
<1>5. PICK f1 : f1 = pmp_set_keystone(f0, sm_region_id, no)
  OBVIOUS
<1>6. f1 \in [RegIds -> PmpReg]
  BY ZenonT(40), <1>0, <1>5, SetType
<1>7. PICK f2 : f2 = pmp_set_keystone(f1, os_region_id, yes)
  OBVIOUS
<1>8. \A h \in Harts : pmpcfg[h] = f2
  BY <1>3, <1>4, <1>5, <1>7 DEF Init, BootFile, osm_pmp_set
<1>9. sm_region_id \in region_def_bitmap /\ os_region_id \in region_def_bitmap
      /\ Bottom \notin Regs(regions[sm_region_id])
      /\ Regs(regions[os_region_id]) = {Bottom} /\ regions[os_region_id].reg_idx = Bottom
      /\ sm_region_id # os_region_id
  BY <1>0, SmRegs DEF sm_region_id, os_region_id
<1>10. Fits(f2, regions[sm_region_id])
  <2>1. Fits(f1, regions[sm_region_id])
    BY <1>0, <1>5, <1>9, SetWrites
  <2>2. \A n \in Regs(regions[sm_region_id]) : n \in RegIds /\ n \notin Regs(regions[os_region_id])
    BY <1>0, <1>9, RegsApart
  <2>3. \A n \in Regs(regions[sm_region_id]) : f2[n] = f1[n]
    BY SMTT(30), <1>0, <1>6, <1>7, <1>9, <2>2, SetWrites
  <2> QED BY <2>1, <2>3, FitsKept
<1>11. \A n \in RegIds \ {Bottom} : ~f2[n].perm
  <2>1. \A n \in RegIds : ~f0[n].perm
    BY <1>4 DEF pmp_init, UnsetReg
  <2>2. \A n \in RegIds : ~f1[n].perm
    BY <1>0, <1>3, <1>5, <1>9, <2>1, SetWrites
  <2> QED BY SMTT(30), <1>0, <1>6, <1>7, <1>9, <2>2, SetWrites
<1> QED BY <1>1, <1>2, <1>8, <1>10, <1>11 DEF FileInv, FileSm, FilePerm, FileEpm, FileSet, FileUtm

(***************************************************************************)
(* What private memory holds.                                              *)
(***************************************************************************)
\* The measurement covers private pages only.
LEMMA HashedPages ==
    ASSUME NEW args \in Params, is_create_args_valid(args)
    PROVE  /\ PagesIn(args.epm, args.free - args.epm) \subseteq PagesIn(args.epm, args.epmsize)
<1>1. args.epm \in Nat /\ args.epmsize \in Nat /\ args.free \in Int
  BY SMTT(30), EnclaveAssumption, PMPAssumption DEF Params, NoParams, Word
<1>2. args.free <= args.epm + args.epmsize
  BY DEF is_create_args_valid
<1>3. \A p \in Pages : p \in Nat
  BY SMTT(30), PMPAssumption DEF Pages, Word
<1> QED BY SMTT(30), <1>1, <1>2, <1>3 DEF PagesIn

\* The measurement stays true while the private pages stay.
LEMMA HashKept ==
    ASSUME TypeInv, OwnInv, MeasuredIsLoaded, NEW e \in Eids, enclaves[e].state = FRESH,
           enclaves'[e].params = enclaves[e].params, enclaves'[e].hash = enclaves[e].hash,
           \A p \in EpmPages(e) : mem'[p] = mem[p]
    PROVE  enclaves'[e].hash = validate_and_hash_enclave(enclaves[e].params)'
<1>1. PICK args \in Params : args = enclaves[e].params
  BY Shapes
<1>2. is_create_args_valid(args)
  BY <1>1 DEF OwnInv, ArgsChecked, Alive
<1>3. \A p \in PagesIn(args.epm, args.free - args.epm) : mem'[p] = mem[p]
  BY <1>1, <1>2, HashedPages DEF EpmPages
<1>4. enclaves[e].hash = validate_and_hash_enclave(args)
  BY <1>1 DEF MeasuredIsLoaded
<1> QED BY <1>1, <1>3, <1>4 DEF validate_and_hash_enclave

\* So it does for an enclave that a step leaves alone.
LEMMA SameHash ==
    ASSUME TypeInv, OwnInv, MeasuredIsLoaded, NEW e \in Eids, Same(e),
           enclaves'[e].state = FRESH, \A p \in EpmPages(e) : mem'[p] = mem[p]
    PROVE  enclaves'[e].hash = validate_and_hash_enclave(enclaves[e].params)'
  BY HashKept DEF Same

\* Private pages change only when their enclave writes or is erased.
LEMMA ForeignStores ==
    ASSUME TypeInv, RunInv, OwnInv, LeaveInv, FileInv, RegionsDisjoint, RegistersExact, Modes,
           MemInv, NEW e \in Eids, Kept(e)
    PROVE  /\ \A p \in Pages : HostStores(p) => p \notin EpmPages(e)
           /\ \A d \in Eids, p \in Pages : d # e /\ EnclaveStores(d, p) => p \notin EpmPages(e)
           /\ \A d \in Eids : d # e /\ Erases(d) => \A p \in Pages : ~(p \in EpmPages(e) /\ p \in EpmPages(d))
           /\ \A d \in Eids, s \in MaybeRegion, args \in Params :
                 Clears(d, s, args) => \A p \in Pages : ~(p \in EpmPages(e) /\ p \in Area("utm", args))
<1>0. "epm" \in Kinds /\ "utm" \in Kinds /\ "epm" # "utm" /\ DyingReserved
  BY DEF Kinds, MemInv
<1>1. /\ Has(e, "epm", enclaves[e].epm, enclaves[e].params)
      /\ enclaves[e].epm \in MaybeRegion /\ enclaves[e].params \in Params
      /\ Area("epm", enclaves[e].params) = EpmPages(e)
  BY KeptHas
<1>2. ASSUME NEW p \in Pages, HostStores(p) PROVE p \notin EpmPages(e)
  BY <1>0, <1>2, HostReach DEF HostStores
<1>3. ASSUME NEW d \in Eids, d # e, Kept(d)
      PROVE  \A p \in Pages : ~(p \in EpmPages(e) /\ p \in EpmPages(d))
  <2>1. /\ Has(d, "epm", enclaves[d].epm, enclaves[d].params)
        /\ enclaves[d].epm \in MaybeRegion /\ enclaves[d].params \in Params
        /\ Area("epm", enclaves[d].params) = EpmPages(d)
    BY ZenonT(40), <1>3, KeptHas
  <2> QED BY SMTT(30), <1>0, <1>1, <1>3, <2>1, AreasApart
<1>4. ASSUME NEW d \in Eids, NEW p \in Pages, d # e, EnclaveStores(d, p) PROVE p \notin EpmPages(e)
  BY <1>3, <1>4 DEF EnclaveStores, Kept, Alive
<1>5. ASSUME NEW d \in Eids, d # e, Erases(d)
      PROVE \A p \in Pages : ~(p \in EpmPages(e) /\ p \in EpmPages(d))
  BY ZenonT(40), <1>3, <1>5 DEF Erases
<1>6. ASSUME NEW d \in Eids, NEW s \in MaybeRegion, NEW args \in Params, Clears(d, s, args)
      PROVE  \A p \in Pages : ~(p \in EpmPages(e) /\ p \in Area("utm", args))
  BY SMTT(30), <1>0, <1>1, <1>6, AreasApart DEF Clears
<1> QED BY ZenonT(40), <1>2, <1>4, <1>5, <1>6

MemFacts == /\ TypeInv /\ RunInv /\ OwnInv /\ LeaveInv /\ FileInv
            /\ RegionsDisjoint /\ RegistersExact /\ Modes /\ MemInv

\* Private regions stay off the bottom register until they are erased.
LEMMA ReservedStep ==
    ASSUME MemFacts, Kinded, BottomReserved'
    PROVE  DyingReserved'
<1> SUFFICES ASSUME NEW e \in Eids, Kept(e)' PROVE Bottom \notin Regs(Epm(e))'
  BY DEF DyingReserved
<1>1. CASE Alive(e)'
  BY <1>1 DEF BottomReserved, region_registers, region_needs_two_entries, Regs, Epm
<1>2. CASE ~Alive(e)'
  <2>1. Kept(e) /\ Epm(e)' = Epm(e)
    <3>1. CASE Same(e)
      BY <3>1 DEF Same
    <3>2. CASE ~Same(e)
      BY <1>2, <3>2 DEF Kinded, Still, Others, Measures, Erases, Releases, Lives, EnclaveStores,
                        HostStores, Clears, Alive
    <3> QED BY ZenonT(40), <3>1, <3>2
  <2> QED BY <2>1 DEF MemFacts, MemInv, DyingReserved, Regs
<1> QED BY ZenonT(40), <1>1, <1>2

\* Steps of each kind keep what enclaves wrote in their private pages.
LEMMA DataStep ==
    ASSUME MemFacts, Kinded
    PROVE  OwnData'
<1> SUFFICES ASSUME NEW p \in Pages, NEW e \in Eids, mem'[p] = e PROVE Kept(e)' /\ p \in EpmPages(e)'
  BY DEF OwnData
<1>0. /\ mem \in [Pages -> Data] /\ OsData # e /\ Zeros # e
      /\ mem[p] = e => Kept(e) /\ p \in EpmPages(e)
  BY SMTT(30), Shapes, EnclaveAssumption DEF MemFacts, MemInv, OwnData, OsData, Zeros, Eids
<1>1. ASSUME Same(e), mem[p] = e PROVE Kept(e)' /\ p \in EpmPages(e)'
  BY <1>0, <1>1 DEF Same
<1>2. CASE Still /\ mem' = mem
  BY <1>1, <1>2 DEF Still
<1>3. ASSUME NEW d \in Eids, Measures(d) PROVE Kept(e)' /\ p \in EpmPages(e)'
  BY <1>0, <1>1, <1>3 DEF Measures, Others
<1>4. ASSUME NEW d \in Eids, Erases(d) PROVE Kept(e)' /\ p \in EpmPages(e)'
  <2>1. p \notin EpmPages(d) /\ mem[p] = e
    BY <1>0, <1>4 DEF Erases
  <2>2. e # d
    BY <1>0, <2>1
  <2> QED BY <1>1, <1>4, <2>1, <2>2 DEF Erases, Others
<1>5. ASSUME NEW d \in Eids, Releases(d) PROVE Kept(e)' /\ p \in EpmPages(e)'
  BY <1>0, <1>1, <1>5 DEF Releases, Others
<1>6. ASSUME NEW d \in Eids, NEW from, NEW to, Lives(d, from, to)
      PROVE  Kept(e)' /\ p \in EpmPages(e)'
  BY ZenonT(40), <1>0, <1>1, <1>6 DEF Lives, Others
<1>7. ASSUME NEW d \in Eids, NEW q \in Pages, EnclaveStores(d, q) PROVE Kept(e)' /\ p \in EpmPages(e)'
  <2>1. CASE p # q
    BY <1>0, <1>1, <1>7, <2>1 DEF EnclaveStores, Still
  <2>2. CASE p = q
    <3>1. e = d /\ Kept(e) /\ p \in EpmPages(e) /\ Same(e)
      BY <1>0, <1>7, <2>2 DEF EnclaveStores, Still, Kept, Alive
    <3> QED BY <3>1 DEF Same
  <2> QED BY <2>1, <2>2
<1>8. ASSUME NEW q \in Pages, HostStores(q) PROVE Kept(e)' /\ p \in EpmPages(e)'
  BY <1>0, <1>1, <1>8 DEF HostStores, Still
<1>9. ASSUME NEW d \in Eids, NEW s \in MaybeRegion, NEW args \in Params, Clears(d, s, args)
      PROVE  Kept(e)' /\ p \in EpmPages(e)'
  BY <1>0, <1>1, <1>9 DEF Clears, Still
<1> QED BY <1>2, <1>3, <1>4, <1>5, <1>6, <1>7, <1>8, <1>9 DEF Kinded

\* Steps of each kind keep MeasuredIsLoaded.
LEMMA LoadedStep ==
    ASSUME MemFacts, Kinded
    PROVE  MeasuredIsLoaded'
<1> SUFFICES ASSUME NEW e \in Eids, enclaves'[e].state = FRESH
             PROVE  enclaves'[e].hash = validate_and_hash_enclave(enclaves[e].params)'
  BY DEF MeasuredIsLoaded
<1> DEFINE Goal == enclaves'[e].hash = validate_and_hash_enclave(enclaves[e].params)'
<1>0. /\ TypeInv /\ OwnInv /\ MeasuredIsLoaded /\ mem \in [Pages -> Data]
      /\ EpmPages(e) \subseteq Pages
  BY Shapes DEF MemFacts, MemInv, EpmPages, PagesIn
<1>1. ASSUME Same(e), \A p \in EpmPages(e) : mem'[p] = mem[p] PROVE Goal
  BY <1>0, <1>1, SameHash
<1>2. Same(e) => Kept(e)
  BY DEF Same, Kept, Alive
<1>3. CASE Still /\ mem' = mem
  BY <1>1, <1>3 DEF Still
<1>4. ASSUME NEW d \in Eids, Measures(d) PROVE Goal
  <2>1. CASE e # d
    BY <1>1, <1>4, <2>1 DEF Measures, Others
  <2>2. CASE e = d
    BY <1>4, <2>2 DEF Measures, validate_and_hash_enclave
  <2> QED BY <2>1, <2>2
<1>5. FRESH # DESTROYING /\ FRESH # INVALID /\ FRESH # RUNNING /\ FRESH # STOPPED
  BY SMTT(30) DEF FRESH, DESTROYING, INVALID, RUNNING, STOPPED
<1>6. ASSUME NEW d \in Eids, Erases(d) PROVE Goal
  <2>1. Same(e) /\ e # d
    BY ZenonT(40), <1>5, <1>6 DEF Erases, Others
  <2>2. \A p \in EpmPages(e) : p \notin EpmPages(d)
    BY <1>0, <1>2, <1>6, <2>1, ForeignStores DEF MemFacts
  <2>3. \A p \in EpmPages(e) : mem'[p] = mem[p]
    BY ZenonT(40), <1>0, <1>6, <2>2 DEF Erases
  <2> QED BY ZenonT(40), <1>1, <2>1, <2>3
<1>7. ASSUME NEW d \in Eids, Releases(d) PROVE Goal
  BY ZenonT(40), <1>1, <1>5, <1>7 DEF Releases, Others
<1>8. ASSUME NEW d \in Eids, NEW from, NEW to, to # FRESH, Lives(d, from, to) PROVE Goal
  BY ZenonT(40), <1>1, <1>8 DEF Lives, Others
<1>9. ASSUME NEW d \in Eids, NEW q \in Pages, EnclaveStores(d, q) PROVE Goal
  <2>1. Same(e) /\ e # d
    BY ZenonT(40), <1>5, <1>9 DEF EnclaveStores, Still, Same
  <2>2. q \notin EpmPages(e)
    BY <1>2, <1>9, <2>1, ForeignStores DEF MemFacts
  <2>3. \A p \in EpmPages(e) : mem'[p] = mem[p]
    BY <1>0, <1>9, <2>2 DEF EnclaveStores
  <2> QED BY <1>1, <2>1, <2>3
<1>10. ASSUME NEW q \in Pages, HostStores(q) PROVE Goal
  <2>1. Same(e)
    BY <1>10 DEF HostStores, Still
  <2>2. q \notin EpmPages(e)
    BY <1>2, <1>10, <2>1, ForeignStores DEF MemFacts
  <2>3. \A p \in EpmPages(e) : mem'[p] = mem[p]
    BY <1>0, <1>10, <2>2 DEF HostStores
  <2> QED BY <1>1, <2>1, <2>3
<1>11. ASSUME NEW d \in Eids, NEW s \in MaybeRegion, NEW args \in Params, Clears(d, s, args)
       PROVE  Goal
  <2>1. Same(e)
    BY <1>11 DEF Clears, Still
  <2>2. \A p \in EpmPages(e) : p \notin Area("utm", args)
    BY <1>0, <1>2, <1>11, <2>1, ForeignStores DEF MemFacts
  <2>3. \A p \in EpmPages(e) : mem'[p] = mem[p]
    BY <1>0, <1>11, <2>2 DEF Clears
  <2> QED BY <1>1, <2>1, <2>3
<1> QED BY <1>3, <1>4, <1>5, <1>6, <1>7, <1>8, <1>9, <1>10, <1>11 DEF Kinded

\* The invariants hold after boot.
LEMMA MemInit == Init => MemFacts /\ IpiInv
<1> SUFFICES ASSUME Init PROVE MemFacts /\ IpiInv
  OBVIOUS
<1>1. TypeInv /\ RunInv /\ OwnInv /\ LeaveInv /\ FileInv /\ IpiInv /\ RegionsDisjoint /\ RegistersExact
  BY ZenonT(40), InitType, RunInit, OwnInit, QuietInit, FileInit, PMPInitInv DEF Init, PMPInv
<1>2. Modes
  BY BootIds DEF Init, PMPInit, BootRegions, Modes
<1>3. \A e \in Eids : ~Kept(e) /\ enclaves[e].state # FRESH
  BY AliveStates DEF Init, NoEnclave, Kept, Alive
<1>4. \A p \in Pages : mem[p] \notin Eids
  BY SMTT(30), EnclaveAssumption DEF Init, Zeros, Eids
<1>5. MemInv
  BY <1>3, <1>4 DEF MemInv, DyingReserved, OwnData, MeasuredIsLoaded
<1> QED BY <1>1, <1>2, <1>5 DEF MemFacts

\* Every step of the monitor keeps all the invariants.
LEMMA MemStep ==
    ASSUME SerialHost, MemFacts, IpiInv, BottomReserved', [Next]_vars
    PROVE  (MemFacts /\ IpiInv)'
<1>1. TypeInv' /\ RunInv' /\ OwnInv' /\ IpiInv' /\ LeaveInv'
  BY TypeStep, RunNext, OwnStep, IpiStep, LeaveStep DEF MemFacts
<1>2. RegionsDisjoint' /\ RegistersExact' /\ Modes'
  BY TableType DEF MemFacts, TableKept
<1>3. FileInv'
  BY FileNext DEF MemFacts
<1>4. Kinded
  BY KindedNext DEF MemFacts
<1>5. MemInv'
  BY <1>4, ReservedStep, DataStep, LoadedStep DEF MemInv
<1> QED BY <1>1, <1>2, <1>3, <1>5 DEF MemFacts

\* For every number of harts, enclaves, regions and registers and every size of memory, as
\* long as no private region is put in the bottom register (BottomReserved; the registers
\* have to run out for that, after a shared region was freed): a hart in the host reaches
\* the memory of no enclave, a hart in an enclave reaches that enclave's memory and shared
\* buffer only, nobody reaches the monitor, and what an enclave wrote is out of reach of all
\* others until destroy_enclave has cleared it (Protected).  The inductive invariant says
\* what the registers of each hart hold at each step of each call (FileInv): the entry of a
\* private region is in every hart's file from the end of create's IPIs to the start of
\* destroy's.
THEOREM EnclavesProtected ==
    ASSUME SerialHost
    PROVE  Spec /\ []BottomReserved => []Protected
<1>1. MemFacts /\ IpiInv /\ BottomReserved' /\ [Next]_vars => (MemFacts /\ IpiInv)'
  BY MemStep
<1>2. MemFacts => Protected
  BY ProtectedHolds DEF MemFacts
<1> QED BY MemInit, <1>1, <1>2, PTL DEF Spec

\* Under the same hypotheses: until an enclave first runs, its memory and layout are what
\* validate_and_hash_enclave measured (MeasuredIsLoaded), because no other step writes
\* private pages.
THEOREM RunsWhatWasMeasured ==
    ASSUME SerialHost
    PROVE  Spec /\ []BottomReserved => []MeasuredIsLoaded
<1>1. MemFacts /\ IpiInv /\ BottomReserved' /\ [Next]_vars => (MemFacts /\ IpiInv)'
  BY MemStep
<1>2. MemFacts => MeasuredIsLoaded
  BY DEF MemFacts, MemInv
<1> QED BY MemInit, <1>1, <1>2, PTL DEF Spec

(***************************************************************************)
(* The refinement of the ideal enclaves.                                   *)
(***************************************************************************)
IdealLife == [e \in Eids |-> Life(e)]

IdealPrivate == [e \in Eids |-> IF Kept(e) THEN EpmPages(e) ELSE {}]

IdealMeasured == [e \in Eids |-> enclaves[e].hash.pages]

\* The pages the mapping gives an enclave are those it keeps.
Mapped(e) == Alive(e) \/ (enclaves[e].state = DESTROYING /\ ~Erased(e))

KeptMapped == \A e \in Eids : Mapped(e) <=> Kept(e)

\* The mapping shows private pages for the enclaves that have private memory.
LEMMA IdealPages == RunInv => KeptMapped
<1> SUFFICES ASSUME RunInv, NEW e \in Eids PROVE Mapped(e) <=> Kept(e)
  BY DEF KeptMapped
<1>1. ~Erased(e) => enclaves[e].state = DESTROYING
  <2>1. "d_read" \in DLabels /\ "d_zero" \in DLabels
    BY DEF DLabels
  <2> QED BY SMTT(30), <2>1, HeldFacts DEF Erased, RunInv, Holds, Busy, State
<1>2. Kept(e) <=> Alive(e) \/ ~Erased(e)
  BY DEF Kept, Erased
<1> QED BY <1>1, <1>2 DEF Mapped

\* The same in the next state.
LEMMA IdealPagesNext == RunInv' => KeptMapped'
  BY IdealPages, PTL

\* What the mapping shows of each state.
LEMMA LifeValues ==
    \A e \in Eids :
        /\ enclaves[e].state \in {INVALID, ALLOCATED} => Life(e) = "none"
        /\ enclaves[e].state = FRESH => Life(e) = "fresh"
        /\ enclaves[e].state = RUNNING => Life(e) = "running"
        /\ enclaves[e].state = STOPPED => Life(e) = "stopped"
        /\ enclaves[e].state = DESTROYING => Life(e) = "dying"
  BY SMTT(30) DEF Life, INVALID, ALLOCATED, FRESH, RUNNING, STOPPED, DESTROYING

\* The same in the next state.
LEMMA LifeValuesNext ==
    \A e \in Eids :
        /\ enclaves'[e].state \in {INVALID, ALLOCATED} => Life(e)' = "none"
        /\ enclaves'[e].state = FRESH => Life(e)' = "fresh"
        /\ enclaves'[e].state = RUNNING => Life(e)' = "running"
        /\ enclaves'[e].state = STOPPED => Life(e)' = "stopped"
        /\ enclaves'[e].state = DESTROYING => Life(e)' = "dying"
  BY SMTT(30) DEF Life, INVALID, ALLOCATED, FRESH, RUNNING, STOPPED, DESTROYING

\* What the steps above do to the mapped variables.
LEMMA IdealSame ==
    ASSUME NEW e \in Eids, Same(e)
    PROVE  /\ IdealLife'[e] = IdealLife[e] /\ IdealPrivate'[e] = IdealPrivate[e]
           /\ IdealMeasured'[e] = IdealMeasured[e]
  BY DEF Same, IdealLife, IdealPrivate, IdealMeasured

\* A step for d changes what is shown at d only.
LEMMA IdealOthers ==
    ASSUME NEW d \in Eids, Others(d)
    PROVE  /\ IdealLife' = [IdealLife EXCEPT ![d] = IdealLife'[d]]
           /\ IdealPrivate' = [IdealPrivate EXCEPT ![d] = IdealPrivate'[d]]
           /\ IdealMeasured' = [IdealMeasured EXCEPT ![d] = IdealMeasured'[d]]
<1>1. \A e \in Eids : e # d => /\ IdealLife'[e] = IdealLife[e] /\ IdealPrivate'[e] = IdealPrivate[e]
                               /\ IdealMeasured'[e] = IdealMeasured[e]
  BY IdealSame DEF Others
<1>2. PICK l, m, q, r, s, t : /\ l = IdealLife /\ m = IdealLife' /\ q = IdealPrivate
                              /\ r = IdealPrivate' /\ s = IdealMeasured /\ t = IdealMeasured'
  OBVIOUS
<1>3. /\ l = [e \in Eids |-> l[e]] /\ m = [e \in Eids |-> m[e]] /\ q = [e \in Eids |-> q[e]]
      /\ r = [e \in Eids |-> r[e]] /\ s = [e \in Eids |-> s[e]] /\ t = [e \in Eids |-> t[e]]
  BY <1>2 DEF IdealLife, IdealPrivate, IdealMeasured
<1>4. \A e \in Eids : e # d => m[e] = l[e] /\ r[e] = q[e] /\ t[e] = s[e]
  BY <1>1, <1>2
<1>5. m = [l EXCEPT ![d] = m[d]] /\ r = [q EXCEPT ![d] = r[d]] /\ t = [s EXCEPT ![d] = t[d]]
  BY <1>3, <1>4
<1> QED BY <1>2, <1>5

\* The actions of the ideal enclaves on the mapped variables.
LEMMA IdealMoves ==
    ASSUME RunInv, RunInv', NEW d \in Eids
    PROVE  /\ Lives(d, FRESH, RUNNING) /\ MeasuredIsLoaded => Ideal!Run(d)
           /\ Lives(d, STOPPED, RUNNING) => Ideal!Resume(d)
           /\ Lives(d, RUNNING, STOPPED) => Ideal!Stop(d)
           /\ Lives(d, FRESH, DESTROYING) \/ Lives(d, STOPPED, DESTROYING) => Ideal!Destroy(d)
<1>1. /\ \A e \in Eids : Mapped(e) <=> Kept(e)
      /\ \A e \in Eids : Mapped(e)' <=> Kept(e)'
  BY IdealPages, IdealPagesNext DEF KeptMapped
<1>2. /\ IdealPrivate = [e \in Eids |-> IF Mapped(e) THEN EpmPages(e) ELSE {}]
      /\ IdealPrivate' = [e \in Eids |-> IF Mapped(e)' THEN EpmPages(e)' ELSE {}]
  BY <1>1 DEF IdealPrivate
<1>3. ASSUME NEW from, NEW to, Lives(d, from, to)
      PROVE  /\ IdealLife' = [IdealLife EXCEPT ![d] = IdealLife'[d]]
             /\ IdealPrivate' = IdealPrivate /\ IdealMeasured' = IdealMeasured /\ mem' = mem
             /\ from = enclaves[d].state /\ to = enclaves'[d].state
  <2>1. Others(d) /\ mem' = mem /\ from = enclaves[d].state /\ to = enclaves'[d].state
    BY <1>3 DEF Lives
  <2>2. IdealPrivate'[d] = IdealPrivate[d] /\ IdealMeasured'[d] = IdealMeasured[d]
    BY <1>3 DEF Lives, IdealPrivate, IdealMeasured
  <2>3. PICK q, r, s, t : /\ q = IdealPrivate /\ r = IdealPrivate'
                          /\ s = IdealMeasured /\ t = IdealMeasured'
    OBVIOUS
  <2>4. r = [q EXCEPT ![d] = q[d]] /\ t = [s EXCEPT ![d] = s[d]]
    BY <2>1, <2>2, <2>3, IdealOthers
  <2>5. q = [e \in Eids |-> q[e]] /\ s = [e \in Eids |-> s[e]]
    BY <2>3 DEF IdealPrivate, IdealMeasured
  <2>6. r = q /\ t = s
    BY <2>4, <2>5
  <2> QED BY ZenonT(40), <2>1, <2>3, <2>6, IdealOthers
<1>4. IdealLife[d] = Life(d) /\ IdealLife'[d] = Life(d)'
  BY DEF IdealLife
<1>5. ASSUME Lives(d, FRESH, RUNNING), MeasuredIsLoaded PROVE Ideal!Run(d)
  <2>1. IdealLife[d] = "fresh" /\ IdealLife'[d] = "running"
    BY <1>3, <1>4, <1>5, LifeValues, LifeValuesNext
  <2>2. PICK args : args = enclaves[d].params
    OBVIOUS
  <2>3. enclaves[d].hash = validate_and_hash_enclave(args)
    BY <1>3, <1>5, <2>2 DEF MeasuredIsLoaded
  <2>4. IdealMeasured[d] = [p \in DOMAIN IdealMeasured[d] |-> mem[p]]
    BY SMTT(30), <2>3 DEF IdealMeasured, validate_and_hash_enclave
  <2> QED BY <1>2, <1>3, <1>5, <2>1, <2>4
             DEF Ideal!Run, Ideal!Become, IdealLife, IdealMeasured, Mapped
<1>6. ASSUME Lives(d, STOPPED, RUNNING) PROVE Ideal!Resume(d)
  <2>1. IdealLife[d] = "stopped" /\ IdealLife'[d] = "running"
    BY ZenonT(40), <1>3, <1>4, <1>6, LifeValues, LifeValuesNext
  <2> QED BY ZenonT(40), <1>2, <1>3, <1>6, <2>1 DEF Ideal!Resume, Ideal!Become, IdealLife, IdealMeasured, Mapped
<1>7. ASSUME Lives(d, RUNNING, STOPPED) PROVE Ideal!Stop(d)
  <2>1. IdealLife[d] = "running" /\ IdealLife'[d] = "stopped"
    BY ZenonT(40), <1>3, <1>4, <1>7, LifeValues, LifeValuesNext
  <2> QED BY ZenonT(40), <1>2, <1>3, <1>7, <2>1 DEF Ideal!Stop, Ideal!Become, IdealLife, IdealMeasured, Mapped
<1>8. ASSUME Lives(d, FRESH, DESTROYING) \/ Lives(d, STOPPED, DESTROYING) PROVE Ideal!Destroy(d)
  <2>1. IdealLife[d] \in {"fresh", "stopped"} /\ IdealLife'[d] = "dying"
    BY ZenonT(40), <1>3, <1>4, <1>8, LifeValues, LifeValuesNext
  <2> QED BY ZenonT(40), <1>2, <1>3, <1>8, <2>1 DEF Ideal!Destroy, Ideal!Become, IdealLife, IdealMeasured, Mapped
<1> QED BY <1>5, <1>6, <1>7, <1>8

\* A step that leaves every enclave alone leaves what is shown alone.
LEMMA IdealQuiet ==
    ASSUME Still
    PROVE  IdealLife' = IdealLife /\ IdealPrivate' = IdealPrivate /\ IdealMeasured' = IdealMeasured
<1>1. PICK l, m, q, r, s, t : /\ l = IdealLife /\ m = IdealLife' /\ q = IdealPrivate
                              /\ r = IdealPrivate' /\ s = IdealMeasured /\ t = IdealMeasured'
  OBVIOUS
<1>2. /\ l = [e \in Eids |-> l[e]] /\ m = [e \in Eids |-> m[e]] /\ q = [e \in Eids |-> q[e]]
      /\ r = [e \in Eids |-> r[e]] /\ s = [e \in Eids |-> s[e]] /\ t = [e \in Eids |-> t[e]]
  BY ZenonT(40), <1>1 DEF IdealLife, IdealPrivate, IdealMeasured
<1>3. \A e \in Eids : m[e] = l[e] /\ r[e] = q[e] /\ t[e] = s[e]
  BY <1>1, IdealSame DEF Still
<1>4. m = l /\ r = q /\ t = s
  BY <1>2, <1>3
<1> QED BY <1>1, <1>4

\* A step of each kind is a step of the ideal enclaves, or stutters.
LEMMA IdealNext ==
    ASSUME MemFacts, MemFacts', Kinded
    PROVE  [Ideal!Next]_(Ideal!ideal)
<1>0. /\ TypeInv /\ RunInv /\ RunInv' /\ OwnInv /\ RegionsDisjoint /\ Modes /\ MeasuredIsLoaded
      /\ mem \in [Pages -> Data] /\ "epm" \in Kinds
      /\ \A e \in Eids : EpmPages(e) \subseteq Pages
  BY Shapes DEF MemFacts, MemInv, Kinds, EpmPages, PagesIn
<1>1. /\ \A e \in Eids : Mapped(e) <=> Kept(e)
      /\ \A e \in Eids : Mapped(e)' <=> Kept(e)'
  BY ZenonT(40), <1>0, IdealPages, IdealPagesNext DEF KeptMapped
<1>2. /\ IdealPrivate = [e \in Eids |-> IF Mapped(e) THEN EpmPages(e) ELSE {}]
      /\ IdealPrivate' = [e \in Eids |-> IF Mapped(e)' THEN EpmPages(e)' ELSE {}]
  BY <1>1 DEF IdealPrivate
<1>3. Ideal!OsPages = {p \in Pages : \A e \in Eids : p \notin IdealPrivate[e]}
  BY <1>2 DEF Ideal!OsPages, Mapped
<1>4. CASE Still /\ mem' = mem
  BY <1>2, <1>4, IdealQuiet DEF Ideal!ideal, IdealLife, IdealMeasured, Mapped
<1>5. ASSUME NEW d \in Eids, Measures(d) PROVE Ideal!Create(d)
  <2>0. /\ Others(d) /\ enclaves[d].state = ALLOCATED /\ enclaves'[d].state = FRESH
        /\ ~Kept(d) /\ Kept(d)' /\ mem' = mem
    BY <1>5 DEF Measures
  <2>1. IdealLife[d] = "none" /\ IdealLife'[d] = "fresh"
    BY <2>0, LifeValues, LifeValuesNext DEF IdealLife
  <2>2. PICK args \in Params, r \in MaybeRegion : args = enclaves[d].params /\ r = enclaves[d].epm
    BY <1>0, Shapes
  <2>3. /\ IdealPrivate'[d] = PagesIn(args.epm, args.epmsize) /\ IdealPrivate[d] = {}
        /\ PagesIn(args.epm, args.epmsize) = Area("epm", args)
    BY ZenonT(40), <1>5, <2>0, <2>2 DEF Measures, IdealPrivate, EpmPages, Area, Base, Size
  <2>4. \A p \in Area("epm", args) : p \in Pages /\ \A e \in Eids : p \notin IdealPrivate[e]
    <3> SUFFICES ASSUME NEW p \in Pages, p \in Area("epm", args), NEW e \in Eids, p \in IdealPrivate[e]
                 PROVE  FALSE
      BY DEF Area, PagesIn
    <3>1. Kept(e) /\ p \in EpmPages(e) /\ e # d
      BY <2>0 DEF IdealPrivate
    <3>2. /\ Has(e, "epm", enclaves[e].epm, enclaves[e].params)
          /\ enclaves[e].epm \in MaybeRegion /\ enclaves[e].params \in Params
          /\ p \in Area("epm", enclaves[e].params)
      BY <1>0, <3>1, KeptHas
    <3>3. Has(d, "epm", r, args)
      BY <1>5, <2>2 DEF Measures
    <3> QED BY ZenonT(40), <1>0, <3>1, <3>2, <3>3, AreasApart
  <2>5. IdealPrivate'[d] \subseteq Ideal!OsPages
    BY <1>3, <2>3, <2>4
  <2>6. IdealMeasured'[d] = [p \in PagesIn(args.epm, args.free - args.epm) |-> mem[p]]
    BY SMTT(30), <1>5, <2>2 DEF Measures, IdealMeasured, validate_and_hash_enclave
  <2>7. DOMAIN IdealMeasured'[d] \subseteq IdealPrivate'[d]
    BY SMTT(30), <1>5, <2>2, <2>3, <2>6, HashedPages DEF Measures
  <2>8. IdealMeasured'[d] = [p \in DOMAIN IdealMeasured'[d] |-> mem[p]]
    BY <2>6
  <2>9. /\ IdealLife' = [IdealLife EXCEPT ![d] = "fresh"]
        /\ IdealPrivate' = [IdealPrivate EXCEPT ![d] = IdealPrivate'[d]]
        /\ IdealMeasured' = [IdealMeasured EXCEPT ![d] = [p \in DOMAIN IdealMeasured'[d] |-> mem[p]]]
    BY ZenonT(40), <2>0, <2>1, <2>8, IdealOthers
  <2> QED BY <1>2, <2>0, <2>1, <2>5, <2>7, <2>9
             DEF Ideal!Create, Ideal!Become, IdealLife, IdealMeasured, Mapped
<1>6. ASSUME NEW d \in Eids, Erases(d) PROVE Ideal!Erase(d)
  <2>0. /\ Others(d) /\ enclaves[d].state = DESTROYING /\ enclaves'[d].state = DESTROYING
        /\ Kept(d) /\ ~Kept(d)' /\ enclaves'[d].hash = enclaves[d].hash
        /\ mem' = [p \in Pages |-> IF p \in EpmPages(d) THEN Zeros ELSE mem[p]]
    BY <1>6 DEF Erases
  <2>1. /\ IdealLife[d] = "dying" /\ IdealLife'[d] = "dying" /\ IdealPrivate[d] = EpmPages(d)
        /\ IdealPrivate'[d] = {} /\ IdealMeasured'[d] = IdealMeasured[d]
    BY <2>0, LifeValues, LifeValuesNext DEF IdealLife, IdealPrivate, IdealMeasured
  <2>2. PICK l, m, s, t : l = IdealLife /\ m = IdealLife' /\ s = IdealMeasured /\ t = IdealMeasured'
    OBVIOUS
  <2>3. m = [l EXCEPT ![d] = l[d]] /\ t = [s EXCEPT ![d] = s[d]]
    BY <2>0, <2>1, <2>2, IdealOthers
  <2>4. l = [e \in Eids |-> l[e]] /\ s = [e \in Eids |-> s[e]]
    BY <2>2 DEF IdealLife, IdealMeasured
  <2>5. IdealLife' = IdealLife /\ IdealMeasured' = IdealMeasured
    BY ZenonT(40), <2>2, <2>3, <2>4
  <2>6. IdealPrivate' = [IdealPrivate EXCEPT ![d] = {}]
    BY <2>0, <2>1, IdealOthers
  <2>7. mem' = [p \in Pages |-> IF p \in IdealPrivate[d] THEN Zeros ELSE mem[p]]
    BY <2>0, <2>1
  <2> QED BY <1>2, <2>1, <2>5, <2>6, <2>7 DEF Ideal!Erase, IdealLife, IdealMeasured, Mapped
<1>7. ASSUME NEW d \in Eids, Releases(d) PROVE Ideal!Release(d)
  <2>0. /\ Others(d) /\ enclaves[d].state = DESTROYING /\ enclaves'[d].state = INVALID
        /\ ~Kept(d) /\ ~Kept(d)' /\ enclaves'[d].hash = enclaves[d].hash /\ mem' = mem
    BY <1>7 DEF Releases
  <2>1. /\ IdealLife[d] = "dying" /\ IdealLife'[d] = "none" /\ IdealPrivate[d] = {}
        /\ IdealPrivate'[d] = {} /\ IdealMeasured'[d] = IdealMeasured[d]
    BY ZenonT(40), <2>0, LifeValues, LifeValuesNext DEF IdealLife, IdealPrivate, IdealMeasured
  <2>2. PICK q, r, s, t : q = IdealPrivate /\ r = IdealPrivate' /\ s = IdealMeasured /\ t = IdealMeasured'
    OBVIOUS
  <2>3. r = [q EXCEPT ![d] = q[d]] /\ t = [s EXCEPT ![d] = s[d]]
    BY <2>0, <2>1, <2>2, IdealOthers
  <2>4. q = [e \in Eids |-> q[e]] /\ s = [e \in Eids |-> s[e]]
    BY <2>2 DEF IdealPrivate, IdealMeasured
  <2>5. IdealPrivate' = IdealPrivate /\ IdealMeasured' = IdealMeasured
    BY <2>2, <2>3, <2>4
  <2>6. IdealLife' = [IdealLife EXCEPT ![d] = "none"]
    BY <2>0, <2>1, IdealOthers
  <2> QED BY <1>2, <2>0, <2>1, <2>5, <2>6
             DEF Ideal!Release, Ideal!Become, IdealLife, IdealMeasured, Mapped
<1>8. ASSUME NEW d \in Eids, NEW q \in Pages, EnclaveStores(d, q) PROVE Ideal!EnclaveWrites(d)
  <2>1. /\ enclaves[d].state = RUNNING /\ q \in EpmPages(d) /\ mem' = [mem EXCEPT ![q] = d] /\ Still
    BY <1>8 DEF EnclaveStores
  <2>2. IdealLife[d] = "running" /\ q \in IdealPrivate[d]
    BY ZenonT(40), <2>1, LifeValues DEF IdealLife, IdealPrivate, Kept, Alive
  <2> QED BY <1>2, <2>1, <2>2, IdealQuiet DEF Ideal!EnclaveWrites, IdealLife, IdealMeasured, Mapped
<1>9. ASSUME NEW w \in {Zeros, OsData}, NEW S \in SUBSET Pages, Still,
             \A p \in S : \A e \in Eids : Kept(e) => p \notin EpmPages(e),
             mem' = [p \in Pages |-> IF p \in S THEN w ELSE mem[p]]
      PROVE  Ideal!OsWrites
  <2>1. \A p \in S : p \in Ideal!OsPages
    BY ZenonT(40), <1>3, <1>9 DEF IdealPrivate
  <2>2. mem' = [p \in Pages |-> IF p \in Ideal!OsPages /\ mem'[p] = w THEN w ELSE mem[p]]
    <3>1. PICK O : O = Ideal!OsPages
      OBVIOUS
    <3>2. PICK new : new = mem'
      OBVIOUS
    <3>3. new = [p \in Pages |-> IF p \in O /\ new[p] = w THEN w ELSE mem[p]]
      BY ZenonT(40), <1>9, <2>1, <3>1, <3>2
    <3> QED BY <3>1, <3>2, <3>3
  <2> QED BY <1>2, <1>9, <2>2, IdealQuiet DEF Ideal!OsWrites, IdealLife, IdealMeasured, Mapped
<1>10. ASSUME NEW q \in Pages, HostStores(q) PROVE Ideal!OsWrites
  <2>1. Still /\ mem' = [mem EXCEPT ![q] = OsData]
    BY <1>10 DEF HostStores
  <2>2. mem' = [p \in Pages |-> IF p \in {q} THEN OsData ELSE mem[p]]
    BY <1>0, <2>1
  <2>3. \A e \in Eids : Kept(e) => q \notin EpmPages(e)
    BY <1>10, ForeignStores DEF MemFacts
  <2> QED BY ZenonT(40), <1>9, <2>1, <2>2, <2>3
<1>11. ASSUME NEW d \in Eids, NEW s \in MaybeRegion, NEW args \in Params, Clears(d, s, args)
       PROVE  Ideal!OsWrites
  <2>1. /\ Still /\ Area("utm", args) \in SUBSET Pages
        /\ mem' = [p \in Pages |-> IF p \in Area("utm", args) THEN Zeros ELSE mem[p]]
    BY <1>11 DEF Clears, Area, PagesIn
  <2>2. \A p \in Area("utm", args) : \A e \in Eids : Kept(e) => p \notin EpmPages(e)
    BY ZenonT(40), <1>11, <2>1, ForeignStores DEF MemFacts
  <2> QED BY <1>9, <2>1, <2>2
<1> QED BY ZenonT(40), <1>0, <1>4, <1>5, <1>6, <1>7, <1>8, <1>10, <1>11, IdealMoves DEF Kinded, Ideal!Next

\* Under the same hypotheses: every step of the monitor, on any number of harts, is a step
\* of the ideal enclaves or invisible there (ImplementsIdeal).  Memory changes hands at the
\* measurement in create_enclave and at the clearing in destroy_enclave, at one instant
\* each, although on the harts both take a round of IPIs.
THEOREM MonitorImplementsIdeal ==
    ASSUME SerialHost
    PROVE  Spec /\ []BottomReserved => ImplementsIdeal
<1>1. MemFacts /\ IpiInv /\ BottomReserved' /\ [Next]_vars => (MemFacts /\ IpiInv)'
  BY MemStep
<1>2. Init => Ideal!Init
  <2> SUFFICES ASSUME Init PROVE Ideal!Init
    OBVIOUS
  <2>1. RunInv /\ \A e \in Eids : ~Kept(e) /\ enclaves[e].state = INVALID /\ enclaves[e].hash = NoHash
    BY ZenonT(40), RunInit, AliveStates DEF Init, NoEnclave, Kept, Alive
  <2>2. \A e \in Eids : ~Mapped(e) /\ Life(e) = "none" /\ enclaves[e].hash.pages = [p \in {} |-> Zeros]
    BY SMTT(30), <2>1, IdealPages, LifeValues DEF KeptMapped, NoHash
  <2> QED BY <2>2 DEF Init, Ideal!Init, Mapped
<1>3. ASSUME MemFacts, MemFacts', [Next]_vars PROVE [Ideal!Next]_(Ideal!ideal)
  <2>1. Kinded
    BY <1>3, KindedNext DEF MemFacts
  <2> QED BY <1>3, <2>1, IdealNext
<1> QED BY MemInit, <1>1, <1>2, <1>3, PTL DEF Spec, ImplementsIdeal, Ideal!Spec
=============================================================================
