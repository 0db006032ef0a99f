------------------------------ MODULE Enclave ------------------------------
(***************************************************************************)
(* The enclave life cycle of the security monitor (sm/src/enclave.c) on a  *)
(* machine with several harts: create, destroy, run, stop, exit and resume *)
(* called concurrently by the host, the PMP region table they allocate     *)
(* from (module PMP), the PMP registers of each hart, the interprocessor   *)
(* interrupts that keep them in step (ipi.c), the saved contexts           *)
(* (thread.c) and the per-hart enclave context (cpu.c).                    *)
(*                                                                         *)
(* A hart executes the host OS, an enclave, or a monitor call.  A critical *)
(* section under encl_lock or pmp_lock is one step, and so is everything   *)
(* that touches only the state of the executing hart; between two steps    *)
(* any other hart may run.  The monitor runs with interrupts off: a hart   *)
(* serves IPIs only while it executes the host, or while it waits for its  *)
(* own IPIs to be served.                                                  *)
(***************************************************************************)
EXTENDS PMP

CONSTANTS
    Harts,
    ENCL_MAX,               \* enclave slots
    CreateArgs,             \* the arguments the host may pass to create
    PlatformCreateMayFail,  \* whether platform_create_enclave can refuse
    SerialHost,             \* whether the host serialises its calls per enclave
    RunEids,                \* the enclaves the host runs (a bound)
    HostPages,              \* the pages the host writes (a bound)
    EnclavePages            \* the pages enclaves write (a bound)

Eids == 0 .. ENCL_MAX - 1
MAX_ENCL_THREADS == 1

ASSUME EnclaveAssumption ==
    /\ ENCL_MAX \in Nat \ {0}
    /\ CreateArgs \subseteq [epm : Word, epmsize : Word, utm : Word, utmsize : Word,
                             runtime : Word, user : Word, free : Word]
    /\ PlatformCreateMayFail \in BOOLEAN
    /\ SerialHost \in BOOLEAN
    /\ RunEids \subseteq Eids
    /\ HostPages \subseteq Word /\ EnclavePages \subseteq Word

VARIABLES
    enclaves,   \* enclaves[]: state, n_thread, regions, params, hash, threads[0]
    pmpcfg,     \* the PMP register file of each hart
    cpus,       \* cpus[]: the enclave whose context a hart is in, or HostContext
    regs,       \* the context loaded in each hart
    pc,         \* where each hart executes
    frame,      \* the locals of the monitor call a hart is in
    ipi,        \* the PMP update each hart has sent, and who still owes it
    mem,        \* what each page of memory holds
    handles     \* the enclaves the host has been given and has not given back

harts == <<pmpcfg, cpus, regs>>
vars == <<pmpVars, enclaves, harts, pc, frame, ipi, mem, handles>>

(***************************************************************************)
(* Data.  A page holds bytes of the OS, zeros, or bytes that enclave e     *)
(* wrote to its private memory.  A context belongs to the host on a hart,  *)
(* to an enclave, or is the cleared context of an enclave never run.       *)
(***************************************************************************)
Pages == {a \in Word : a % RISCV_PGSIZE = 0}
Zeros == -1
OsData == -2
Data == {Zeros, OsData} \cup Eids

HostCtx(h) == <<"host", h>>
EnclaveCtx(e) == <<"enclave", e>>
CleanCtx == <<"clean", 0>>
Contexts == {HostCtx(h) : h \in Harts} \cup {EnclaveCtx(e) : e \in Eids} \cup {CleanCtx}

INVALID == -1
DESTROYING == 0
ALLOCATED == 1
FRESH == 2
STOPPED == 3
RUNNING == 4

HostContext == -1   \* cpus[].is_enclave is 0
NoRegion == -1      \* enclaves[].regions[].type is REGION_INVALID
NoParams == [epm |-> 0, epmsize |-> 0, utm |-> 0, utmsize |-> 0,
             runtime |-> 0, user |-> 0, free |-> 0]
NoFrame == [eid |-> 0, args |-> NoParams, region |-> NoRegion, shared |-> NoRegion,
            base |-> 0, size |-> 0]
NoIpi == [rid |-> NoRegion, set |-> FALSE, todo |-> {}]

PagesIn(base, size) == {p \in Pages : base <= p /\ p < base + size}

ENCLAVE_EXISTS(e) == enclaves[e].state >= DESTROYING

(***************************************************************************)
(* Helpers of the actions.                                                 *)
(***************************************************************************)
Goto(h, label) == pc' = [pc EXCEPT ![h] = label]

\* encl_free_eid
encl_free_eid(e) == enclaves' = [enclaves EXCEPT ![e].state = INVALID]

\* Mutant: the harts that run the host are not told.
send_pmp_ipi_self(h, rid, set) ==
    ipi' = [ipi EXCEPT ![h] = [rid |-> rid, set |-> set,
                               todo |-> IF is_pmp_region_valid(rid) THEN {h} ELSE {}]]

\* send_and_sync_pmp_ipi: every hart owes the update, the sender included.
\* Nothing is sent for a region that is not valid.
send_pmp_ipi(h, rid, set) ==
    ipi' = [ipi EXCEPT ![h] = [rid |-> rid, set |-> set,
                               todo |-> IF is_pmp_region_valid(rid) THEN Harts ELSE {}]]

Synced(h) == ipi[h].todo = {}

\* The measurement: the layout and the pages from the loader to the free memory.
validate_and_hash_enclave(params) ==
    [runtime |-> params.runtime - params.epm,
     user    |-> params.user - params.runtime,
     free    |-> params.free - params.user,
     pages   |-> [p \in PagesIn(params.epm, params.free - params.epm) |-> mem[p]]]

NoHash == [runtime |-> 0, user |-> 0, free |-> 0, pages |-> [p \in {} |-> Zeros]]

Wrap(n) == n % (MAXUL + 1)

is_create_args_valid(args) ==
    /\ args.epmsize > 0
    /\ args.epm < Wrap(args.epm + args.epmsize)
    /\ args.utm < Wrap(args.utm + args.utmsize)
    /\ args.runtime >= args.epm /\ args.runtime < args.epm + args.epmsize
    /\ args.user >= args.epm /\ args.user < args.epm + args.epmsize
    /\ args.free >= args.epm /\ args.free <= args.epm + args.epmsize
    /\ args.runtime <= args.user
    /\ args.user <= args.free

\* The host's side of the interface.  The Linux driver and the SDK keep one handle
\* per enclave: they run or resume an enclave only while no hart is inside it, and
\* destroy it once.  A host that does not serialise its calls may pass any eid.
Switching(h, e) ==
    frame[h].eid = e /\ pc[h] \in {"e_load", "e_swap", "e_pmp", "enclave", "x_pmp", "x_swap"}

HostMayEnter(e) ==
    /\ e \in RunEids
    /\ SerialHost => e \in handles /\ \A h \in Harts : ~Switching(h, e)
HostMayDestroy(e) == SerialHost => e \in handles

\* A host-context call: sbi_ecall_keystone_enclave_handler refuses it to an enclave.
HostCall(h) == pc[h] = "host" /\ cpus[h] = HostContext

(***************************************************************************)
(* create_enclave.                                                         *)
(***************************************************************************)
\* Validate the arguments and take the lowest free eid (encl_alloc_eid).
CreateEnclave(h, args) ==
    /\ HostCall(h)
    /\ is_create_args_valid(args)
    /\ \E e \in Eids :
          /\ enclaves[e].state = INVALID
          /\ \A d \in Eids : d < e => enclaves[d].state # INVALID
          /\ enclaves' = [enclaves EXCEPT ![e].state = ALLOCATED]
          /\ frame' = [frame EXCEPT ![h] = [NoFrame EXCEPT !.eid = e, !.args = args]]
    /\ Goto(h, "c_epm")
    /\ UNCHANGED <<pmpVars, harts, ipi, mem, handles>>

\* The private region takes a register of its own; on failure: free_encl_idx.
CreateEpm(h) ==
    /\ pc[h] = "c_epm"
    /\ LET args == frame[h].args IN
       \/ /\ pmp_region_init_atomic(args.epm, args.epmsize, "ANY", FALSE, get_free_region_idx)
          /\ frame' = [frame EXCEPT ![h].region = get_free_region_idx]
          /\ Goto(h, "c_utm")
       \/ /\ ~pmp_region_can_init(args.epm, args.epmsize, "ANY", FALSE)
          /\ Goto(h, "c_free_eid")
          /\ UNCHANGED <<pmpVars, frame>>
    /\ UNCHANGED <<enclaves, harts, ipi, mem, handles>>

\* The shared region uses the bottom register; on failure: free_region.
CreateUtm(h) ==
    /\ pc[h] = "c_utm"
    /\ LET args == frame[h].args IN
       \/ /\ pmp_region_init_atomic(args.utm, args.utmsize, "BOTTOM", FALSE, get_free_region_idx)
          /\ frame' = [frame EXCEPT ![h].shared = get_free_region_idx]
          /\ Goto(h, "c_set")
       \/ /\ ~pmp_region_can_init(args.utm, args.utmsize, "BOTTOM", FALSE)
          /\ Goto(h, "c_free_epm")
          /\ UNCHANGED <<pmpVars, frame>>
    /\ UNCHANGED <<enclaves, harts, ipi, mem, handles>>

\* pmp_set_global(region, PMP_NO_PERM); on failure: free_shared_region.
CreateSet(h) ==
    /\ pc[h] = "c_set"
    /\ send_pmp_ipi(h, frame[h].region, TRUE)
    /\ Goto(h, IF is_pmp_region_valid(frame[h].region) THEN "c_meta" ELSE "c_free_utm")
    /\ UNCHANGED <<pmpVars, enclaves, harts, frame, mem, handles>>

\* Mutant: create goes on before the other harts have served the IPI.
CreateMeta_nosync(h) ==
    /\ pc[h] = "c_meta"
    /\ LET args == frame[h].args IN
       /\ mem' = [p \in Pages |-> IF p \in PagesIn(args.utm, args.utmsize)
                                  THEN Zeros ELSE mem[p]]
       /\ enclaves' = [enclaves EXCEPT ![frame[h].eid] =
                          [@ EXCEPT !.epm = frame[h].region, !.utm = frame[h].shared,
                                    !.n_thread = 0, !.params = args, !.thread = CleanCtx]]
    /\ Goto(h, "c_hash")
    /\ UNCHANGED <<pmpVars, harts, frame, ipi, handles>>

\* All harts have the update: clear the shared memory, fill in the metadata, clear
\* the context, call platform_create_enclave; on failure: unset_region.
CreateMeta(h) ==
    /\ pc[h] = "c_meta"
    /\ Synced(h)
    /\ LET args == frame[h].args IN
       /\ mem' = [p \in Pages |-> IF p \in PagesIn(args.utm, args.utmsize)
                                  THEN Zeros ELSE mem[p]]
       /\ enclaves' = [enclaves EXCEPT ![frame[h].eid] =
                          [@ EXCEPT !.epm = frame[h].region, !.utm = frame[h].shared,
                                    !.n_thread = 0, !.params = args, !.thread = CleanCtx]]
    /\ \/ Goto(h, "c_hash")
       \/ PlatformCreateMayFail /\ Goto(h, "c_unset")
    /\ UNCHANGED <<pmpVars, harts, frame, ipi, handles>>

\* Under encl_lock: measure and become FRESH; the host gets the eid.
CreateHash(h) ==
    /\ pc[h] = "c_hash"
    /\ LET e == frame[h].eid IN
       /\ enclaves' = [enclaves EXCEPT
             ![e].hash = validate_and_hash_enclave(enclaves[e].params),
             ![e].state = FRESH]
       /\ handles' = handles \cup {e}
    /\ Goto(h, "host")
    /\ frame' = [frame EXCEPT ![h] = NoFrame]
    /\ UNCHANGED <<pmpVars, harts, ipi, mem>>

\* The error path: pmp_unset_global, then free what was allocated, in this order.
CreateUnset(h) ==
    /\ pc[h] = "c_unset"
    /\ send_pmp_ipi(h, frame[h].region, FALSE)
    /\ Goto(h, "c_free_utm")
    /\ UNCHANGED <<pmpVars, enclaves, harts, frame, mem, handles>>

\* Mutant: the error path forgets the shared region.
CreateFreeUtm_leak(h) ==
    /\ pc[h] = "c_free_utm"
    /\ Synced(h)
    /\ Goto(h, "c_free_epm")
    /\ UNCHANGED <<pmpVars, enclaves, harts, frame, ipi, mem, handles>>

CreateFreeUtm(h) ==
    /\ pc[h] = "c_free_utm"
    /\ Synced(h)
    /\ pmp_region_free_atomic(frame[h].shared)
    /\ Goto(h, "c_free_epm")
    /\ UNCHANGED <<enclaves, harts, frame, ipi, mem, handles>>

CreateFreeEpm(h) ==
    /\ pc[h] = "c_free_epm"
    /\ pmp_region_free_atomic(frame[h].region)
    /\ Goto(h, "c_free_eid")
    /\ UNCHANGED <<enclaves, harts, frame, ipi, mem, handles>>

CreateFreeEid(h) ==
    /\ pc[h] = "c_free_eid"
    /\ encl_free_eid(frame[h].eid)
    /\ Goto(h, "host")
    /\ frame' = [frame EXCEPT ![h] = NoFrame]
    /\ UNCHANGED <<pmpVars, harts, ipi, mem, handles>>

(***************************************************************************)
(* destroy_enclave.                                                        *)
(***************************************************************************)
\* Mutant: an enclave that runs may be destroyed.
DestroyEnclave_running(h, e) ==
    /\ HostCall(h)
    /\ HostMayDestroy(e)
    /\ ENCLAVE_EXISTS(e)
    /\ enclaves' = [enclaves EXCEPT ![e].state = DESTROYING]
    /\ handles' = handles \ {e}
    /\ frame' = [frame EXCEPT ![h] = [NoFrame EXCEPT !.eid = e]]
    /\ Goto(h, "d_read")
    /\ UNCHANGED <<pmpVars, harts, ipi, mem>>

\* Mutant: the state is checked and not changed.
DestroyEnclave_keep(h, e) ==
    /\ HostCall(h)
    /\ HostMayDestroy(e)
    /\ ENCLAVE_EXISTS(e)
    /\ enclaves[e].state <= STOPPED
    /\ handles' = handles \ {e}
    /\ frame' = [frame EXCEPT ![h] = [NoFrame EXCEPT !.eid = e]]
    /\ Goto(h, "d_read")
    /\ UNCHANGED <<pmpVars, enclaves, harts, ipi, mem>>

\* Under encl_lock: anything that exists and does not run becomes DESTROYING.
DestroyEnclave(h, e) ==
    /\ HostCall(h)
    /\ HostMayDestroy(e)
    /\ ENCLAVE_EXISTS(e)
    /\ enclaves[e].state <= STOPPED
    /\ enclaves' = [enclaves EXCEPT ![e].state = DESTROYING]
    /\ handles' = handles \ {e}
    /\ frame' = [frame EXCEPT ![h] = [NoFrame EXCEPT !.eid = e]]
    /\ Goto(h, "d_read")
    /\ UNCHANGED <<pmpVars, harts, ipi, mem>>

\* Look up the private region: its id, address and size.
DestroyRead(h) ==
    /\ pc[h] = "d_read"
    /\ LET rid == enclaves[frame[h].eid].epm IN
       \/ /\ rid = NoRegion
          /\ Goto(h, "d_utm")
          /\ UNCHANGED frame
       \/ /\ rid # NoRegion
          /\ frame' = [frame EXCEPT ![h] = [@ EXCEPT
                 !.region = rid,
                 !.base = IF is_pmp_region_valid(rid) THEN regions[rid].addr ELSE 0,
                 !.size = IF is_pmp_region_valid(rid) THEN regions[rid].size ELSE 0]]
          /\ Goto(h, "d_zero")
    /\ UNCHANGED <<pmpVars, enclaves, harts, ipi, mem, handles>>

\* Mutant: the private memory is given back as it is.
DestroyZero_skip(h) ==
    /\ pc[h] = "d_zero"
    /\ Goto(h, "d_unset")
    /\ UNCHANGED <<pmpVars, enclaves, harts, frame, ipi, mem, handles>>

\* Zero the private memory, before any hart loses the entry that protects it.
DestroyZero(h) ==
    /\ pc[h] = "d_zero"
    /\ mem' = [p \in Pages |-> IF p \in PagesIn(frame[h].base, frame[h].size)
                               THEN Zeros ELSE mem[p]]
    /\ Goto(h, "d_unset")
    /\ UNCHANGED <<pmpVars, enclaves, harts, frame, ipi, handles>>

DestroyUnset(h) ==
    /\ pc[h] = "d_unset"
    /\ send_pmp_ipi(h, frame[h].region, FALSE)
    /\ Goto(h, "d_free")
    /\ UNCHANGED <<pmpVars, enclaves, harts, frame, mem, handles>>

DestroyFree(h) ==
    /\ pc[h] = "d_free"
    /\ Synced(h)
    /\ pmp_region_free_atomic(frame[h].region)
    /\ Goto(h, "d_utm")
    /\ UNCHANGED <<enclaves, harts, frame, ipi, mem, handles>>

DestroyUtm(h) ==
    /\ pc[h] = "d_utm"
    /\ LET rid == enclaves[frame[h].eid].utm IN
          IF rid = NoRegion THEN UNCHANGED pmpVars ELSE pmp_region_free_atomic(rid)
    /\ Goto(h, "d_clear")
    /\ UNCHANGED <<enclaves, harts, frame, ipi, mem, handles>>

DestroyClear(h) ==
    /\ pc[h] = "d_clear"
    /\ enclaves' = [enclaves EXCEPT ![frame[h].eid] =
          [@ EXCEPT !.n_thread = 0, !.params = NoParams, !.epm = NoRegion, !.utm = NoRegion]]
    /\ Goto(h, "d_eid")
    /\ UNCHANGED <<pmpVars, harts, frame, ipi, mem, handles>>

DestroyFreeEid(h) ==
    /\ pc[h] = "d_eid"
    /\ encl_free_eid(frame[h].eid)
    /\ Goto(h, "host")
    /\ frame' = [frame EXCEPT ![h] = NoFrame]
    /\ UNCHANGED <<pmpVars, harts, ipi, mem, handles>>

(***************************************************************************)
(* Entering an enclave: run_enclave, resume_enclave and                    *)
(* context_switch_to_enclave.                                              *)
(***************************************************************************)
Enter(h, e) ==
    /\ enclaves' = [enclaves EXCEPT ![e].state = RUNNING, ![e].n_thread = @ + 1]
    /\ frame' = [frame EXCEPT ![h] = [NoFrame EXCEPT !.eid = e]]
    /\ UNCHANGED <<pmpVars, harts, ipi, mem, handles>>

RunEnclave(h, e) ==
    /\ HostCall(h)
    /\ HostMayEnter(e)
    /\ enclaves[e].state = FRESH
    /\ Enter(h, e)
    /\ Goto(h, "e_load")

ResumeEnclave(h, e) ==
    /\ HostCall(h)
    /\ HostMayEnter(e)
    /\ enclaves[e].state \in {RUNNING, STOPPED}
    /\ enclaves[e].n_thread < MAX_ENCL_THREADS
    /\ Enter(h, e)
    /\ Goto(h, "e_swap")

\* Swap the host context with the saved one; a first run then loads the entry
\* point and the parameters over the cleared context it swapped in.
SwapToEnclave(h) ==
    /\ pc[h] \in {"e_load", "e_swap"}
    /\ LET e == frame[h].eid IN
       /\ regs' = [regs EXCEPT ![h] = IF pc[h] = "e_load" THEN EnclaveCtx(e)
                                      ELSE enclaves[e].thread]
       /\ enclaves' = [enclaves EXCEPT ![e].thread = regs[h]]
    /\ Goto(h, "e_pmp")
    /\ UNCHANGED <<pmpVars, pmpcfg, cpus, frame, ipi, mem, handles>>

\* Set the permission of every region the enclave has, private before shared.
set_enclave_regions(file, e, perm) ==
    LET set(f, rid) == IF rid = NoRegion THEN f ELSE pmp_set_keystone(f, rid, perm)
    IN  set(set(file, enclaves[e].epm), enclaves[e].utm)

osm_pmp_set(file, perm) == pmp_set_keystone(file, os_region_id, perm)

\* Close the OS region, open the enclave's regions, enter the enclave context.
PmpToEnclave(h) ==
    /\ pc[h] = "e_pmp"
    /\ LET e == frame[h].eid IN
       /\ pmpcfg' = [pmpcfg EXCEPT ![h] =
                        set_enclave_regions(osm_pmp_set(pmpcfg[h], FALSE), e, TRUE)]
       /\ cpus' = [cpus EXCEPT ![h] = e]
    /\ Goto(h, "enclave")
    /\ UNCHANGED <<pmpVars, enclaves, regs, frame, ipi, mem, handles>>

(***************************************************************************)
(* Leaving an enclave: stop_enclave (an edge call, or a timer or software  *)
(* interrupt caught by sbi_trap_handler_keystone_enclave), exit_enclave    *)
(* (also a fatal trap, sbi_trap_error) and context_switch_to_host.         *)
(***************************************************************************)
Leave(h) ==
    /\ pc[h] = "enclave"
    /\ LET e == cpus[h] IN
       /\ enclaves[e].state = RUNNING
       /\ enclaves' = [enclaves EXCEPT
             ![e].n_thread = @ - 1,
             ![e].state = IF enclaves[e].n_thread = 1 THEN STOPPED ELSE RUNNING]
       /\ frame' = [frame EXCEPT ![h] = [NoFrame EXCEPT !.eid = e]]
    /\ Goto(h, "x_pmp")
    /\ UNCHANGED <<pmpVars, harts, ipi, mem, handles>>

\* Mutant: a software interrupt does not stop the enclave.
StopEnclave_masked(h) ==
    /\ \A src \in Harts : h \notin ipi[src].todo
    /\ cpus[h] # HostContext /\ Leave(h)

StopEnclave(h) == cpus[h] # HostContext /\ Leave(h)
ExitEnclave(h) == cpus[h] # HostContext /\ Leave(h)

\* Mutant: the enclave's regions stay open.
PmpToHost_open(h) ==
    /\ pc[h] = "x_pmp"
    /\ pmpcfg' = [pmpcfg EXCEPT ![h] = osm_pmp_set(pmpcfg[h], TRUE)]
    /\ Goto(h, "x_swap")
    /\ UNCHANGED <<pmpVars, enclaves, cpus, regs, frame, ipi, mem, handles>>

\* Close the enclave's regions, then open the OS region.
PmpToHost(h) ==
    /\ pc[h] = "x_pmp"
    /\ pmpcfg' = [pmpcfg EXCEPT ![h] =
                     osm_pmp_set(set_enclave_regions(pmpcfg[h], frame[h].eid, FALSE), TRUE)]
    /\ Goto(h, "x_swap")
    /\ UNCHANGED <<pmpVars, enclaves, cpus, regs, frame, ipi, mem, handles>>

\* Mutant: the enclave context is not saved.
SwapToHost_nosave(h) ==
    /\ pc[h] = "x_swap"
    /\ regs' = [regs EXCEPT ![h] = enclaves[frame[h].eid].thread]
    /\ cpus' = [cpus EXCEPT ![h] = HostContext]
    /\ Goto(h, "host")
    /\ frame' = [frame EXCEPT ![h] = NoFrame]
    /\ UNCHANGED <<pmpVars, enclaves, pmpcfg, ipi, mem, handles>>

\* Swap the enclave context with the saved one and leave the enclave context.
SwapToHost(h) ==
    /\ pc[h] = "x_swap"
    /\ LET e == frame[h].eid IN
       /\ regs' = [regs EXCEPT ![h] = enclaves[e].thread]
       /\ enclaves' = [enclaves EXCEPT ![e].thread = regs[h]]
    /\ cpus' = [cpus EXCEPT ![h] = HostContext]
    /\ Goto(h, "host")
    /\ frame' = [frame EXCEPT ![h] = NoFrame]
    /\ UNCHANGED <<pmpVars, pmpcfg, ipi, mem, handles>>

(***************************************************************************)
(* IPIs (OpenSBI delivers them) and memory accesses of the two worlds.     *)
(***************************************************************************)
Interruptible(h) == pc[h] = "host" \/ ~Synced(h)

\* sbi_pmp_ipi_local_update on hart h of the update that hart src has sent.
PmpIpi(h, src) ==
    /\ h \in ipi[src].todo
    /\ Interruptible(h)
    /\ pmpcfg' = [pmpcfg EXCEPT ![h] =
          IF ipi[src].set THEN pmp_set_keystone(pmpcfg[h], ipi[src].rid, FALSE)
                          ELSE pmp_unset(pmpcfg[h], ipi[src].rid)]
    /\ ipi' = [ipi EXCEPT ![src] = IF ipi[src].todo = {h} THEN NoIpi
                                   ELSE [@ EXCEPT !.todo = ipi[src].todo \ {h}]]
    /\ UNCHANGED <<pmpVars, enclaves, cpus, regs, pc, frame, mem, handles>>

\* The OS writes any page its PMP registers let it reach.
HostWrite(h, p) ==
    /\ pc[h] = "host"
    /\ p \in HostPages
    /\ pmp_allows(pmpcfg[h], p)
    /\ mem' = [mem EXCEPT ![p] = OsData]
    /\ UNCHANGED <<pmpVars, enclaves, harts, pc, frame, ipi, handles>>

\* An enclave writes its private memory.
EnclaveWrite(h, p) ==
    /\ pc[h] = "enclave"
    /\ LET e == cpus[h] IN
       /\ p \in EnclavePages \cap PagesIn(enclaves[e].params.epm, enclaves[e].params.epmsize)
       /\ pmp_allows(pmpcfg[h], p)
       /\ mem' = [mem EXCEPT ![p] = e]
    /\ UNCHANGED <<pmpVars, enclaves, harts, pc, frame, ipi, handles>>

(***************************************************************************)
(* The specification starts where sm_init leaves the machine.              *)
(***************************************************************************)
BootFile ==
    osm_pmp_set(pmp_set_keystone(pmp_init, sm_region_id, FALSE), TRUE)

NoEnclave == [state |-> INVALID, n_thread |-> 0, epm |-> NoRegion, utm |-> NoRegion,
              params |-> NoParams, hash |-> NoHash, thread |-> CleanCtx]

Init ==
    /\ PMPInit
    /\ enclaves = [e \in Eids |-> NoEnclave]
    /\ pmpcfg = [h \in Harts |-> BootFile]
    /\ cpus = [h \in Harts |-> HostContext]
    /\ regs = [h \in Harts |-> HostCtx(h)]
    /\ pc = [h \in Harts |-> "host"]
    /\ frame = [h \in Harts |-> NoFrame]
    /\ ipi = [h \in Harts |-> NoIpi]
    /\ mem = [p \in Pages |-> Zeros]
    /\ handles = {}

\* The steps of a monitor call in progress.
Create(h) ==
    \/ CreateEpm(h) \/ CreateUtm(h) \/ CreateSet(h) \/ CreateMeta(h) \/ CreateHash(h)
    \/ CreateUnset(h) \/ CreateFreeUtm(h) \/ CreateFreeEpm(h) \/ CreateFreeEid(h)

Destroy(h) ==
    \/ DestroyRead(h) \/ DestroyZero(h) \/ DestroyUnset(h) \/ DestroyFree(h)
    \/ DestroyUtm(h) \/ DestroyClear(h) \/ DestroyFreeEid(h)

Switch(h) == SwapToEnclave(h) \/ PmpToEnclave(h) \/ PmpToHost(h) \/ SwapToHost(h)

Monitor(h) == Create(h) \/ Destroy(h) \/ Switch(h)

Next ==
    \E h \in Harts :
        \/ \E args \in CreateArgs : CreateEnclave(h, args)
        \/ \E e \in Eids : DestroyEnclave(h, e) \/ RunEnclave(h, e) \/ ResumeEnclave(h, e)
        \/ StopEnclave(h) \/ ExitEnclave(h)
        \/ Monitor(h)
        \/ \E src \in Harts : PmpIpi(h, src)
        \/ \E p \in Pages : HostWrite(h, p) \/ EnclaveWrite(h, p)

Spec == Init /\ [][Next]_vars

\* A hart inside the monitor runs on; a pending software interrupt stops an enclave;
\* and since a hart takes a pending IPI whenever it is back in the host, an IPI that
\* is deliverable again and again is delivered.
SoftwareInterrupt(h) == (\E src \in Harts : h \in ipi[src].todo) /\ StopEnclave(h)

Fairness ==
    \A h \in Harts : /\ WF_vars(Monitor(h))
                     /\ WF_vars(SoftwareInterrupt(h))
                     /\ \A src \in Harts : SF_vars(PmpIpi(h, src))

FairSpec == Spec /\ Fairness

(***************************************************************************)
(* Properties.                                                             *)
(***************************************************************************)
Labels == {"host", "enclave", "c_epm", "c_utm", "c_set", "c_meta", "c_hash", "c_unset",
           "c_free_utm", "c_free_epm", "c_free_eid", "d_read", "d_zero", "d_unset",
           "d_free", "d_utm", "d_clear", "d_eid", "e_load", "e_swap", "e_pmp",
           "x_pmp", "x_swap"}

MaybeRegion == RegionIds \cup {NoRegion}

\* Every variable holds values of its kind; in particular n_thread never leaves
\* 0 .. MAX_ENCL_THREADS, although run and resume increment it unconditionally.
TypeOK ==
    /\ PMPTypeOK
    /\ \A e \in Eids :
          /\ enclaves[e].state \in INVALID .. RUNNING
          /\ enclaves[e].n_thread \in 0 .. MAX_ENCL_THREADS
          /\ enclaves[e].epm \in MaybeRegion /\ enclaves[e].utm \in MaybeRegion
          /\ enclaves[e].params \in CreateArgs \cup {NoParams}
          /\ enclaves[e].thread \in Contexts
    /\ pmpcfg \in [Harts -> [RegIds -> PmpReg]]
    /\ cpus \in [Harts -> Eids \cup {HostContext}]
    /\ regs \in [Harts -> Contexts]
    /\ pc \in [Harts -> Labels]
    /\ frame \in [Harts -> [eid : Eids, args : CreateArgs \cup {NoParams},
                            region : MaybeRegion, shared : MaybeRegion,
                            base : Word, size : Word]]
    /\ ipi \in [Harts -> [rid : MaybeRegion, set : BOOLEAN, todo : SUBSET Harts]]
    /\ mem \in [Pages -> Data]
    /\ handles \subseteq Eids

Alive(e) == enclaves[e].state \in {FRESH, STOPPED, RUNNING}
EpmPages(e) == PagesIn(enclaves[e].params.epm, enclaves[e].params.epmsize)
UtmPages(e) == PagesIn(enclaves[e].params.utm, enclaves[e].params.utmsize)

OutsideMonitor == {h \in Harts : pc[h] \in {"host", "enclave"}}
Reach(h) == {p \in Pages : pmp_allows(pmpcfg[h], p)}

\* From the moment an enclave is measured until its destruction starts, no hart that
\* executes the host reaches its private memory; a hart that executes an enclave
\* reaches that enclave's private and shared memory only; nobody reaches the monitor.
\* It rests on the order of the PMP writes in both context switches and on
\* create_enclave waiting for every hart to serve the IPI.
Isolation ==
    \A h \in OutsideMonitor : \A p \in Reach(h) :
        /\ pc[h] = "host" => \A e \in Eids : Alive(e) => p \notin EpmPages(e)
        /\ pc[h] = "enclave" => p \in EpmPages(cpus[h]) \cup UtmPages(cpus[h])
        /\ p \notin PagesIn(SMM_BASE, SMM_SIZE)

\* What an enclave wrote to its private memory is never within reach of the host or of
\* another enclave, also while it is destroyed (destroy_enclave clears the memory
\* before the PMP entry goes, hart by hart) and after its memory is reused.
Secrecy ==
    \A h \in OutsideMonitor : \A p \in Reach(h) :
        /\ pc[h] = "host" => mem[p] \notin Eids
        /\ pc[h] = "enclave" => mem[p] \notin Eids \ {cpus[h]}

\* Until it runs, an enclave's memory is what was measured: no hart still had access
\* when create_enclave computed the hash, and none has gained it since.
MeasuredIsLoaded ==
    \A e \in Eids : enclaves[e].state = FRESH =>
        enclaves[e].hash = validate_and_hash_enclave(enclaves[e].params)

\* Hart h has passed the run or resume check for e and not the stop or exit check.
Inside(h, e) ==
    \/ pc[h] \in {"e_load", "e_swap", "e_pmp"} /\ frame[h].eid = e
    \/ pc[h] = "enclave" /\ cpus[h] = e

\* An enclave is RUNNING exactly while one hart is inside it, and n_thread counts it.
SingleRunner ==
    \A e \in Eids :
        /\ enclaves[e].state = RUNNING <=> \E h \in Harts : Inside(h, e)
        /\ enclaves[e].n_thread = IF enclaves[e].state = RUNNING THEN 1 ELSE 0
        /\ \A g, h \in Harts : Inside(g, e) /\ Inside(h, e) => g = h

\* A hart that executes the host has its own host context loaded, one that executes
\* an enclave has that enclave's context: the swaps through threads[0] never hand a
\* context to the wrong side, whichever hart an enclave is resumed on.
ContextIntegrity ==
    \A h \in Harts :
        /\ pc[h] = "host" => regs[h] = HostCtx(h)
        /\ pc[h] = "enclave" => regs[h] = EnclaveCtx(cpus[h])

\* When no call is in progress, the region table holds the monitor's region, the OS
\* region and two regions for each existing enclave: no error path of create_enclave
\* and no destroy_enclave loses a region or frees one that is in use.
RegionsAccounted ==
    (\A h \in Harts : pc[h] \in {"host", "enclave"}) =>
        /\ \A e \in Eids : ENCLAVE_EXISTS(e) => Alive(e)
        /\ region_def_bitmap = {sm_region_id, os_region_id} \cup
               UNION {{enclaves[e].epm, enclaves[e].utm} : e \in {d \in Eids : Alive(d)}}

\* The bottom register carries the OS region and, inside an enclave, its shared
\* buffer; the private region of an enclave never occupies it, so that opening and
\* closing the OS region leaves the private region's entry alone.
BottomReserved ==
    \A e \in Eids : Alive(e) => Bottom \notin region_registers(enclaves[e].epm)

Creating(h, e) ==
    frame[h].eid = e /\ pc[h] \in {"c_epm", "c_utm", "c_set", "c_meta", "c_hash", "c_unset",
                                   "c_free_utm", "c_free_epm", "c_free_eid"}

Destroying(h, e) ==
    frame[h].eid = e /\ pc[h] \in {"d_read", "d_zero", "d_unset", "d_free", "d_utm",
                                   "d_clear", "d_eid"}

Owns(h, e) == Creating(h, e) \/ Destroying(h, e)

\* create_enclave and destroy_enclave drop encl_lock between their steps; what keeps
\* other calls away from the enclave meanwhile is its state, ALLOCATED or DESTROYING,
\* which the one hart that creates or destroys it holds.
EidOwned ==
    \A e \in Eids :
        /\ \A h \in Harts : Creating(h, e) => enclaves[e].state = ALLOCATED
        /\ \A h \in Harts : Destroying(h, e) => enclaves[e].state = DESTROYING
        /\ \A g, h \in Harts : Owns(g, e) /\ Owns(h, e) => g = h
        /\ e \in handles => Alive(e)

\* The ideal enclaves this module implements.  An enclave under construction does not
\* exist yet; one under destruction keeps its pages until they are cleared.
Erased(e) == \A h \in Harts : ~(frame[h].eid = e /\ pc[h] \in {"d_read", "d_zero"})

Life(e) ==
    CASE enclaves[e].state \in {INVALID, ALLOCATED} -> "none"
      [] enclaves[e].state = FRESH -> "fresh"
      [] enclaves[e].state = RUNNING -> "running"
      [] enclaves[e].state = STOPPED -> "stopped"
      [] enclaves[e].state = DESTROYING -> "dying"

Ideal == INSTANCE IdealEnclaves WITH
    life <- [e \in Eids |-> Life(e)],
    private <- [e \in Eids |->
        IF Alive(e) \/ (enclaves[e].state = DESTROYING /\ ~Erased(e))
        THEN EpmPages(e) ELSE {}],
    measured <- [e \in Eids |-> enclaves[e].hash.pages],
    data <- mem

\* The monitor, with its races and its PMP bookkeeping, implements the ideal enclaves:
\* pages change hands at one instant, an enclave runs exactly what was measured, and
\* private pages are changed by nobody else until they are erased.
ImplementsIdeal == Ideal!Spec

\* Every monitor call a hart makes ends: waiting for IPIs never blocks for ever, also
\* when two harts wait for each other or the target executes an enclave.
CallReturns(h) == pc[h] \notin {"host", "enclave"} ~> pc[h] \in {"host", "enclave"}

\* The memory of an enclave and the monitor's are out of reach of everyone else, and
\* what an enclave wrote never comes into reach, through every step of create, run,
\* stop, resume and destroy on several harts (the PMP entries each hart sets, and
\* the order of clearing and unprotecting in destroy_enclave).
Protected == Isolation /\ Secrecy

\* The states of enclaves do what a lock over the whole of each call would do: one hart
\* creates or destroys an enclave, one hart is in it (create_enclave, destroy_enclave,
\* run_enclave, resume_enclave, stop_enclave, exit_enclave).
HeldByOneHart == TypeOK /\ EidOwned /\ SingleRunner
=============================================================================
