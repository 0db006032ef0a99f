------------------------------- MODULE Thread -------------------------------
(***************************************************************************)
(* What the host and an enclave see of each other's execution on a hart:   *)
(* the trap frame, the supervisor CSRs and the pending interrupts across   *)
(* run, resume, stop, exit and interrupts (sm/src/thread.c, the context    *)
(* switches of enclave.c, the SBI wrappers of sm-sbi.c and the enclave's   *)
(* trap handler sbi_trap_hack.c).                                          *)
(*                                                                         *)
(* One hart and one enclave: module Enclave has the interleavings and      *)
(* shows that a context is swapped back by the side it belongs to; here    *)
(* are its contents.  Registers are grouped by how the monitor treats      *)
(* them: a0 and a1 carry results, s stands for all it only swaps.  A call  *)
(* runs from trap to sbi_trap_exit with interrupts off, so it is a step.   *)
(***************************************************************************)
EXTENDS Integers

CONSTANTS
    Values,     \* what either side computes in a register or a CSR
    HostPcs,    \* where the host program has ecalls (a bound)
    EnclavePcs, \* where the enclave program has ecalls (a bound)
    DramBase    \* params.dram_base, the entry point

ASSUME ThreadAssumption ==
    /\ Values \subseteq Int /\ HostPcs \subseteq Int /\ EnclavePcs \subseteq Int
    /\ DramBase \in Int

VARIABLES
    world,      \* "host" or "enclave": cpus[].is_enclave
    state,      \* enclaves[eid].state
    hart,       \* the registers of the hart, in the monitor its trap frame, and CSRs
    thread,     \* enclaves[eid].threads[0]
    expected    \* what the side that waits must find when it executes again

threadVars == <<world, state, hart, thread, expected>>

FRESH == 2
STOPPED == 3
RUNNING == 4

SBI_ERR_SM_ENCLAVE_SUCCESS == 0
SBI_ERR_SM_ENCLAVE_UNKNOWN_ERROR == 100000
SBI_ERR_SM_ENCLAVE_INTERRUPTED == 100002
SBI_ERR_SM_ENCLAVE_NOT_RESUMABLE == 100010
SBI_ERR_SM_ENCLAVE_EDGE_CALL_HOST == 100011
SBI_ERR_SM_ENCLAVE_NOT_FRESH == 100016

STOP_TIMER_INTERRUPT == 0
STOP_EDGE_CALL_HOST == 1
Requests == {STOP_TIMER_INTERRUPT, STOP_EDGE_CALL_HOST, 2}

MInterrupts == {"MTIP", "MSIP", "MEIP"}
SInterrupts == {"STIP", "SSIP", "SEIP"}
SModeOf == [MTIP |-> "STIP", MSIP |-> "SSIP", MEIP |-> "SEIP"]

\* The mstatus bits a context switch swaps, and one it does not.
mstatus_mask == {"SIE", "MPP"}
MstatusBits == mstatus_mask \cup {"MPIE"}

\* sip shows and changes delegated interrupts only, and of those software can change
\* SSIP alone.
csr_read_sip(h) == h.mip \cap h.mideleg \cap {"SSIP"}
csr_write_sip(h, bits) ==
    [h EXCEPT !.mip = IF "SSIP" \in h.mideleg THEN (h.mip \ {"SSIP"}) \cup bits ELSE h.mip]

(***************************************************************************)
(* thread.c, on a pair of a hart h and a saved thread t.                   *)
(***************************************************************************)
swap_prev_smode_csrs(c) ==
    [h |-> csr_write_sip([c.h EXCEPT !.scsrs = c.t.scsrs], c.t.sip),
     t |-> [c.t EXCEPT !.scsrs = c.h.scsrs, !.sip = csr_read_sip(c.h)]]

swap_prev_state(c, return_on_resume) ==
    swap_prev_smode_csrs(
        [h |-> [c.h EXCEPT !.zero = c.t.zero, !.a0 = c.t.a0, !.a1 = c.t.a1, !.s = c.t.s],
         t |-> [c.t EXCEPT !.zero = IF return_on_resume THEN 0 ELSE 1,
                           !.a0 = c.h.a0, !.a1 = c.h.a1, !.s = c.h.s]])

swap_prev_mepc(c) ==
    [h |-> [c.h EXCEPT !.mepc = c.t.mepc], t |-> [c.t EXCEPT !.mepc = c.h.mepc]]

\* The saved value is the whole register; what it lacks outside of the mask stays set.
swap_prev_mstatus(c) ==
    [h |-> [c.h EXCEPT !.mstatus = (c.h.mstatus \ mstatus_mask) \cup c.t.mstatus],
     t |-> [c.t EXCEPT !.mstatus = c.h.mstatus]]

swap_all(c, return_on_resume) ==
    swap_prev_mstatus(swap_prev_mepc(swap_prev_state(c, return_on_resume)))

(***************************************************************************)
(* The context switches of enclave.c.  The swaps run while the supervisor  *)
(* interrupts are delegated, in both directions.                           *)
(***************************************************************************)
context_switch_to_enclave(c, load_parameters) ==
    LET d == swap_all(c, TRUE)
        run == [d.h EXCEPT !.mideleg = {}, !.mtvec = "enclave"]
    IN  [d EXCEPT !.h = IF load_parameters
                        THEN [run EXCEPT !.mepc = DramBase - 4, !.mstatus = {"MPP"}, !.a1 = DramBase]
                        ELSE run]

\* Machine interrupts still pending are handed to the supervisor.
forward_pending(h) ==
    [h EXCEPT !.mip = (@ \ MInterrupts) \cup {SModeOf[i] : i \in @ \cap MInterrupts}]

\* Mutant: interrupts are handed over before the supervisor CSRs are swapped.
context_switch_to_host_early(c, return_on_resume) ==
    LET d == swap_all([c EXCEPT !.h = forward_pending([@ EXCEPT !.mideleg = SInterrupts])],
                      return_on_resume)
    IN  [d EXCEPT !.h.mtvec = "host"]

context_switch_to_host(c, return_on_resume) ==
    LET d == swap_all([c EXCEPT !.h.mideleg = SInterrupts], return_on_resume)
    IN  [d EXCEPT !.h = forward_pending([d.h EXCEPT !.mtvec = "host"])]

(***************************************************************************)
(* What a side sees of the hart when it executes.                          *)
(***************************************************************************)
View(h) == [a0 |-> h.a0, a1 |-> h.a1, s |-> h.s, mepc |-> h.mepc, scsrs |-> h.scsrs,
            mstatus |-> h.mstatus \cap mstatus_mask, ssip |-> "SSIP" \in h.mip]

\* The trap entry stores the registers and a zero for x0; every SBI wrapper ends by
\* stepping over the ecall of the side it returns to.
Trap == [h |-> [hart EXCEPT !.zero = 0], t |-> thread]
SbiReturn(c, a0) == /\ hart' = [c.h EXCEPT !.a0 = a0, !.mepc = @ + 4]
                 /\ thread' = c.t

(***************************************************************************)
(* The host's side.                                                        *)
(***************************************************************************)
HostStep ==
    /\ world = "host"
    /\ \E v \in Values, pc \in HostPcs, sie, ssip \in BOOLEAN :
          hart' = [hart EXCEPT !.a0 = v, !.a1 = v, !.s = v, !.scsrs = v, !.mepc = pc,
                               !.mstatus = {"MPP", "MPIE"} \cup IF sie THEN {"SIE"} ELSE {},
                               !.mip = IF ssip THEN {"SSIP"} ELSE {}]
    /\ UNCHANGED <<world, state, thread, expected>>

\* The host's state at a call that succeeds: what it must find when the call returns.
ExpectHost == expected' = [View(hart) EXCEPT !.mepc = @ + 4]

SbiRunEnclave ==
    /\ world = "host" /\ hart.mepc \in HostPcs
    /\ \/ /\ state = FRESH
          /\ SbiReturn(context_switch_to_enclave(Trap, TRUE), SBI_ERR_SM_ENCLAVE_SUCCESS)
          /\ state' = RUNNING /\ world' = "enclave"
          /\ ExpectHost
       \/ /\ state # FRESH
          /\ SbiReturn(Trap, SBI_ERR_SM_ENCLAVE_NOT_FRESH)
          /\ UNCHANGED <<state, world, expected>>

\* The result goes to a0 only if the context resumed asked for it when it was saved.
ResumeReturn(c, ret) == SbiReturn(c, IF c.h.zero = 0 THEN ret ELSE c.h.a0)

SbiResumeEnclave ==
    /\ world = "host" /\ hart.mepc \in HostPcs
    /\ \/ /\ state = STOPPED
          /\ ResumeReturn(context_switch_to_enclave(Trap, FALSE), SBI_ERR_SM_ENCLAVE_SUCCESS)
          /\ state' = RUNNING /\ world' = "enclave"
          /\ ExpectHost
       \/ /\ state # STOPPED
          /\ ResumeReturn(Trap, SBI_ERR_SM_ENCLAVE_NOT_RESUMABLE)
          /\ UNCHANGED <<state, world, expected>>

(***************************************************************************)
(* The enclave's side.                                                     *)
(***************************************************************************)
EnclaveStep ==
    /\ world = "enclave"
    /\ \E v \in Values, pc \in EnclavePcs, mode \in SUBSET mstatus_mask :
          hart' = [hart EXCEPT !.a0 = v, !.a1 = v, !.s = v, !.scsrs = v, !.mepc = pc,
                               !.mstatus = (@ \ mstatus_mask) \cup mode]
    /\ UNCHANGED <<world, state, thread, expected>>

\* A timer, software or external interrupt for this hart; the enclave keeps running
\* until it is taken.
Arrive(i) ==
    /\ world = "enclave"
    /\ hart' = [hart EXCEPT !.mip = @ \cup {i}]
    /\ UNCHANGED <<world, state, thread, expected>>

Leave == world = "enclave" /\ state = RUNNING /\ state' = STOPPED /\ world' = "host"

stop_result(request) ==
    IF request = STOP_TIMER_INTERRUPT THEN SBI_ERR_SM_ENCLAVE_INTERRUPTED
    ELSE IF request = STOP_EDGE_CALL_HOST THEN SBI_ERR_SM_ENCLAVE_EDGE_CALL_HOST
    ELSE SBI_ERR_SM_ENCLAVE_UNKNOWN_ERROR

\* The ecall of the runtime.  The request is its argument in a0.
SbiStopEnclave(request) ==
    /\ hart.mepc \in EnclavePcs
    /\ Leave
    /\ SbiReturn(context_switch_to_host([Trap EXCEPT !.h.a0 = request],
                                     request = STOP_EDGE_CALL_HOST), stop_result(request))
    /\ expected' = [View(hart) EXCEPT
           !.mepc = @ + 4,
           !.a0 = IF request = STOP_EDGE_CALL_HOST THEN SBI_ERR_SM_ENCLAVE_SUCCESS ELSE request]

\* A timer or software interrupt: no instruction is to be stepped over.
Interrupt(i) ==
    /\ i \in hart.mip
    /\ Leave
    /\ SbiReturn(context_switch_to_host([Trap EXCEPT !.h.mepc = @ - 4], FALSE),
              stop_result(STOP_TIMER_INTERRUPT))
    /\ expected' = View(hart)

\* exit_enclave, called with retval or, by sbi_trap_error, for a trap nobody handles.
SbiExitEnclave(retval) ==
    /\ hart.mepc \in EnclavePcs
    /\ Leave
    /\ LET c == context_switch_to_host(Trap, FALSE) IN
          SbiReturn([c EXCEPT !.h.a1 = retval], SBI_ERR_SM_ENCLAVE_SUCCESS)
    /\ expected' = [View(hart) EXCEPT !.mepc = @ + 4]

TrapError(rc) == "MEIP" \in hart.mip /\ SbiExitEnclave(rc)

\* No enclave was created yet.
ThreadIdle ==
    /\ world = "none" /\ state = FRESH
    /\ hart = <<>> /\ thread = <<>> /\ expected = <<>>

\* create_enclave has called clean_state, which leaves x0, mepc and mstatus as an
\* earlier user of the slot left them.
ThreadStart ==
    /\ world = "host" /\ state = FRESH
    /\ \E v \in Values, pc \in HostPcs :
          hart = [zero |-> 0, a0 |-> v, a1 |-> v, s |-> v, mepc |-> pc, scsrs |-> v,
                  mstatus |-> {"MPP", "MPIE"}, mip |-> {}, mideleg |-> SInterrupts,
                  mtvec |-> "host"]
    /\ \E x0 \in {0, 1}, pc \in HostPcs, m \in {{}, MstatusBits} :
          thread = [zero |-> x0, a0 |-> 0, a1 |-> 0, s |-> 0, mepc |-> pc, scsrs |-> 0,
                    mstatus |-> m, sip |-> {}]
    /\ expected = [a0 |-> 0, a1 |-> DramBase, s |-> 0, mepc |-> DramBase, scsrs |-> 0,
                   mstatus |-> {"MPP"}, ssip |-> FALSE]

ThreadNext ==
    \/ HostStep \/ SbiRunEnclave \/ SbiResumeEnclave
    \/ EnclaveStep
    \/ \E i \in MInterrupts : Arrive(i)
    \/ \E request \in Requests : SbiStopEnclave(request)
    \/ \E i \in {"MTIP", "MSIP"} : Interrupt(i)
    \/ \E v \in Values : SbiExitEnclave(v) \/ TrapError(v)

ThreadSpec == ThreadStart /\ [][ThreadNext]_threadVars

(***************************************************************************)
(* Properties.                                                             *)
(***************************************************************************)
\* The registers hold words, pending interrupts are known ones, and the vector and the
\* delegation are those of the side that executes.
ThreadTypeOK ==
    world # "none" =>
    /\ world \in {"host", "enclave"} /\ state \in {FRESH, STOPPED, RUNNING}
    /\ {hart.a0, hart.a1, hart.s, hart.mepc, hart.scsrs} \subseteq Int
    /\ hart.mip \subseteq MInterrupts \cup SInterrupts /\ hart.mstatus \subseteq MstatusBits
    /\ hart.mtvec = world /\ hart.mideleg = IF world = "host" THEN SInterrupts ELSE {}
    /\ world = "enclave" <=> state = RUNNING

\* When the host executes again after run or resume, at whatever point the enclave was
\* left, all its registers and CSRs are those of its call, but for a0, which tells why
\* the enclave stopped, and a1 after an exit; it continues after its ecall.
HostFindsItsContext ==
    world = "enclave" /\ world' = "host" =>
        /\ [View(hart') EXCEPT !.a0 = 0, !.ssip = FALSE] =
           [expected EXCEPT !.a0 = 0, !.ssip = FALSE, !.a1 = hart'.a1]
        /\ hart'.a1 # expected.a1 => hart'.a0 = SBI_ERR_SM_ENCLAVE_SUCCESS

\* An enclave that is interrupted finds every register as it was, a0 included, and
\* re-executes the interrupted instruction; one that made an edge call finds 0 in a0 and
\* continues after the call.  Its first run starts at the base of its memory with clear
\* registers, whatever the slot was used for before.
EnclaveFindsItsContext ==
    world = "host" /\ world' = "enclave" => View(hart') = expected

\* A software interrupt pending for the OS when it entered the enclave is pending when
\* it is back, and so is what arrived for it meanwhile.
InterruptsReachHost ==
    world = "enclave" /\ world' = "host" =>
        /\ expected.ssip => "SSIP" \in hart'.mip
        /\ \A i \in hart.mip \cap MInterrupts : SModeOf[i] \in hart'.mip

\* Each switch between host and enclave gives the side that goes on its own context, and
\* the host its interrupts, for every order of runs, interrupts, edge calls, resumes and
\* exits (context_switch_to_enclave, context_switch_to_host, thread.c, trap.S).
ContextsKept ==
    [][ThreadTypeOK' /\ HostFindsItsContext /\ EnclaveFindsItsContext
          /\ InterruptsReachHost]_threadVars
=============================================================================
