----------------------------- MODULE HartProofs -----------------------------
(***************************************************************************)
(* Proofs about what a hart goes through.                                  *)
(*                                                                         *)
(* Booting (module Boot), for every number of harts, PMP registers and     *)
(* slots, every word size and every place of the monitor: a hart is handed *)
(* to the OS only with the monitor's memory guarded, and the table that    *)
(* the cold hart publishes is the one module PMP starts from.              *)
(*                                                                         *)
(* Every switch between the host and an enclave gives the side that goes   *)
(* on its own context (module Thread), for all values of the registers and *)
(* all places of the ecalls.                                               *)
(*                                                                         *)
(* The invariant ThreadInv says where the context of the side that waits   *)
(* is: in the thread, four bytes before the place where it goes on, its a0 *)
(* either saved or, if x0 was saved as 0, to be written by the call that   *)
(* resumes it.  A switch is a swap (SwapAll), so what it loads is what the *)
(* invariant says was saved, and what it saves makes the invariant true of *)
(* the other side.                                                         *)
(***************************************************************************)
EXTENDS Boot, Thread, PMPProofs

(***************************************************************************)
(* Switches.                                                               *)
(***************************************************************************)
\* The registers of a hart, and the part of them a thread_state holds.
HartRec == [zero : {0, 1}, a0 : Int, a1 : Int, s : Int, mepc : Int, scsrs : Int,
            mstatus : SUBSET MstatusBits, mip : SUBSET (MInterrupts \cup SInterrupts),
            mideleg : SUBSET SInterrupts, mtvec : {"host", "enclave"}]
ThreadRec == [zero : {0, 1}, a0 : Int, a1 : Int, s : Int, mepc : Int, scsrs : Int,
              mstatus : SUBSET MstatusBits, sip : SUBSET {"SSIP"}]

\* What the hart and the thread hold after the three swaps of thread.c.
Swapped(h, t) ==
    [h EXCEPT !.zero = t.zero, !.a0 = t.a0, !.a1 = t.a1, !.s = t.s, !.scsrs = t.scsrs,
              !.mip = IF "SSIP" \in h.mideleg THEN (h.mip \ {"SSIP"}) \cup t.sip ELSE h.mip,
              !.mepc = t.mepc, !.mstatus = (h.mstatus \ mstatus_mask) \cup t.mstatus]
Saved(h, t, zero) ==
    [t EXCEPT !.zero = zero, !.a0 = h.a0, !.a1 = h.a1, !.s = h.s, !.scsrs = h.scsrs,
              !.sip = h.mip \cap h.mideleg \cap {"SSIP"},
              !.mepc = h.mepc, !.mstatus = h.mstatus]

\* The swaps of a context switch exchange the registers, the program counter, the
\* supervisor CSRs and the swapped bits of mstatus (thread.c).
LEMMA SwapAll ==
    ASSUME NEW h \in HartRec, NEW t \in ThreadRec, NEW r \in BOOLEAN,
           NEW c, c = [h |-> h, t |-> t]
    PROVE  /\ swap_all(c, r).h = Swapped(h, t)
           /\ swap_all(c, r).t = Saved(h, t, IF r THEN 0 ELSE 1)
BY ZenonT(40) DEF swap_all, swap_prev_mstatus, swap_prev_mepc, swap_prev_state, swap_prev_smode_csrs,
       csr_write_sip, csr_read_sip, HartRec, ThreadRec, Swapped, Saved

\* What a swap leaves are registers.
LEMMA SwapTypes ==
    ASSUME NEW h \in HartRec, NEW t \in ThreadRec, NEW z \in {0, 1}
    PROVE  Swapped(h, t) \in HartRec /\ Saved(h, t, z) \in ThreadRec
<1> DEFINE mip == IF "SSIP" \in h.mideleg THEN (h.mip \ {"SSIP"}) \cup t.sip ELSE h.mip
           mstatus == (h.mstatus \ mstatus_mask) \cup t.mstatus
           sip == h.mip \cap h.mideleg \cap {"SSIP"}
<1>1. /\ h.mip \in SUBSET (MInterrupts \cup SInterrupts) /\ t.sip \in SUBSET {"SSIP"}
      /\ h.mstatus \in SUBSET MstatusBits /\ t.mstatus \in SUBSET MstatusBits
  BY DEF HartRec, ThreadRec
<1>2. "SSIP" \in SInterrupts
  BY DEF SInterrupts
<1>3. /\ mip \in SUBSET (MInterrupts \cup SInterrupts) /\ mstatus \in SUBSET MstatusBits
      /\ sip \in SUBSET {"SSIP"}
  BY <1>1, <1>2
<1> HIDE DEF mip, mstatus, sip
<1>4. Swapped(h, t) = [h EXCEPT !.zero = t.zero, !.a0 = t.a0, !.a1 = t.a1, !.s = t.s,
                                !.scsrs = t.scsrs, !.mip = mip, !.mepc = t.mepc,
                                !.mstatus = mstatus]
  BY DEF Swapped, mip, mstatus
<1>5. Saved(h, t, z) = [t EXCEPT !.zero = z, !.a0 = h.a0, !.a1 = h.a1, !.s = h.s,
                                 !.scsrs = h.scsrs, !.sip = sip, !.mepc = h.mepc,
                                 !.mstatus = h.mstatus]
  BY DEF Saved, sip
<1>6. Swapped(h, t) \in HartRec
  BY ZenonT(40), <1>3, <1>4 DEF HartRec, ThreadRec
<1>7. Saved(h, t, z) \in ThreadRec
  BY ZenonT(40), <1>3, <1>5 DEF HartRec, ThreadRec
<1> QED
  BY <1>6, <1>7

\* The fields of a saved thread.
LEMMA SavedFields ==
    ASSUME NEW h \in HartRec, NEW t \in ThreadRec, NEW z, NEW u, u = Saved(h, t, z)
    PROVE  /\ u.zero = z /\ u.a0 = h.a0 /\ u.a1 = h.a1 /\ u.s = h.s /\ u.scsrs = h.scsrs
           /\ u.mepc = h.mepc /\ u.mstatus = h.mstatus
           /\ u.sip = h.mip \cap h.mideleg \cap {"SSIP"}
BY DEF ThreadRec, Saved

\* context_switch_to_host loads the context in the thread, forwards the interrupts and
\* saves the enclave.
LEMMA ToHost ==
    ASSUME NEW h \in HartRec, NEW t \in ThreadRec, NEW r \in BOOLEAN,
           NEW d, d = context_switch_to_host([h |-> h, t |-> t], r)
    PROVE  /\ d.h \in HartRec /\ d.t \in ThreadRec
           /\ d.h.a0 = t.a0 /\ d.h.a1 = t.a1 /\ d.h.s = t.s /\ d.h.scsrs = t.scsrs
           /\ d.h.mepc = t.mepc /\ d.h.mideleg = SInterrupts /\ d.h.mtvec = "host"
           /\ d.h.mstatus \cap mstatus_mask = t.mstatus \cap mstatus_mask
           /\ "SSIP" \in t.sip => "SSIP" \in d.h.mip
           /\ \A i \in h.mip \cap MInterrupts : SModeOf[i] \in d.h.mip
           /\ d.t.zero = IF r THEN 0 ELSE 1
           /\ d.t.a0 = h.a0 /\ d.t.a1 = h.a1 /\ d.t.s = h.s
           /\ d.t.scsrs = h.scsrs /\ d.t.mepc = h.mepc /\ d.t.mstatus = h.mstatus
           /\ d.t.sip = h.mip \cap SInterrupts \cap {"SSIP"}
<1> DEFINE g == [h EXCEPT !.mideleg = SInterrupts]
           e == swap_all([h |-> g, t |-> t], r)
<1>1. g \in HartRec
  BY DEF HartRec
<1>2. e.h = Swapped(g, t) /\ e.t = Saved(g, t, IF r THEN 0 ELSE 1)
  BY <1>1, SwapAll
<1>3. e = [h |-> e.h, t |-> e.t]
  BY DEF swap_all, swap_prev_mstatus
<1>4. [[h |-> h, t |-> t] EXCEPT !.h.mideleg = SInterrupts] = [h |-> g, t |-> t]
  OBVIOUS
<1>5. d = [e EXCEPT !.h = forward_pending([e.h EXCEPT !.mtvec = "host"])]
  BY SMTT(30), <1>4 DEF context_switch_to_host
<1> HIDE DEF e
<1>6. d = [h |-> forward_pending([e.h EXCEPT !.mtvec = "host"]), t |-> e.t]
  BY <1>3, <1>5
<1>7. e.h \in HartRec /\ e.t \in ThreadRec
  BY <1>1, <1>2, SwapTypes
<1>8. \A i \in MInterrupts : SModeOf[i] \in SInterrupts
  BY DEF MInterrupts, SInterrupts, SModeOf
<1> DEFINE f == forward_pending([e.h EXCEPT !.mtvec = "host"])
<1>9. f = [e.h EXCEPT !.mtvec = "host",
                      !.mip = (e.h.mip \ MInterrupts) \cup {SModeOf[i] : i \in e.h.mip \cap MInterrupts}]
  BY <1>7 DEF forward_pending, HartRec
<1>10. (e.h.mip \ MInterrupts) \cup {SModeOf[i] : i \in e.h.mip \cap MInterrupts}
         \in SUBSET (MInterrupts \cup SInterrupts)
  BY SMTT(30), <1>7, <1>8 DEF HartRec
<1> HIDE DEF f
<1>11. f \in HartRec
  BY Zenon, <1>7, <1>9, <1>10 DEF HartRec
<1>12. /\ f.a0 = t.a0 /\ f.a1 = t.a1 /\ f.s = t.s /\ f.scsrs = t.scsrs
       /\ f.mepc = t.mepc /\ f.mideleg = SInterrupts /\ f.mtvec = "host"
       /\ f.mstatus = (g.mstatus \ mstatus_mask) \cup t.mstatus
  BY ZenonT(40), <1>1, <1>2, <1>7, <1>9 DEF HartRec, Swapped
<1>13. e.h.mip = (h.mip \ {"SSIP"}) \cup t.sip
  BY <1>2 DEF Swapped, HartRec, SInterrupts
<1>14. f.mip = (e.h.mip \ MInterrupts) \cup {SModeOf[i] : i \in e.h.mip \cap MInterrupts}
  BY <1>7, <1>9 DEF HartRec
<1>15. "SSIP" \notin MInterrupts
  BY DEF MInterrupts
<1>16. /\ "SSIP" \in t.sip => "SSIP" \in f.mip
       /\ \A i \in h.mip \cap MInterrupts : SModeOf[i] \in f.mip
  BY <1>13, <1>14, <1>15
<1>17. f.mstatus \cap mstatus_mask = t.mstatus \cap mstatus_mask
  BY <1>12
<1>18. /\ g.a0 = h.a0 /\ g.a1 = h.a1 /\ g.s = h.s /\ g.scsrs = h.scsrs
       /\ g.mepc = h.mepc /\ g.mstatus = h.mstatus /\ g.mip = h.mip
       /\ g.mideleg = SInterrupts
  BY DEF HartRec
<1>19. d.h = f /\ d.t = e.t
  BY <1>6 DEF f
<1> HIDE DEF g
<1>20. /\ d.t.zero = IF r THEN 0 ELSE 1
       /\ d.t.a0 = h.a0 /\ d.t.a1 = h.a1 /\ d.t.s = h.s
       /\ d.t.scsrs = h.scsrs /\ d.t.mepc = h.mepc /\ d.t.mstatus = h.mstatus
       /\ d.t.sip = h.mip \cap SInterrupts \cap {"SSIP"}
  BY <1>1, <1>2, <1>18, <1>19, SavedFields
<1> QED
  BY <1>7, <1>11, <1>12, <1>16, <1>17, <1>19, <1>20

\* context_switch_to_host returns a hart and a thread.
LEMMA HostPair ==
    ASSUME NEW c, NEW r, NEW d, d = context_switch_to_host(c, r)
    PROVE  d = [h |-> d.h, t |-> d.t]
<1> DEFINE e == swap_all([c EXCEPT !.h.mideleg = SInterrupts], r)
<1>1. e = [h |-> e.h, t |-> e.t]
  BY DEF swap_all, swap_prev_mstatus
<1>2. d = [e EXCEPT !.h = forward_pending([e.h EXCEPT !.mtvec = "host"])]
  BY DEF context_switch_to_host
<1> HIDE DEF e
<1> QED
  BY <1>1, <1>2

\* context_switch_to_enclave loads the context in the thread, or the entry parameters,
\* and saves the host.
LEMMA ToEnclave ==
    ASSUME NEW h \in HartRec, h.mideleg = SInterrupts,
           NEW t \in ThreadRec, NEW load \in BOOLEAN,
           NEW d, d = context_switch_to_enclave([h |-> h, t |-> t], load)
    PROVE  /\ d.h \in HartRec /\ d.t \in ThreadRec
           /\ d.h.zero = t.zero /\ d.h.a0 = t.a0 /\ d.h.s = t.s /\ d.h.scsrs = t.scsrs
           /\ d.h.mideleg = {} /\ d.h.mtvec = "enclave"
           /\ "SSIP" \in d.h.mip <=> "SSIP" \in t.sip
           /\ load => /\ d.h.a1 = DramBase /\ d.h.mepc = DramBase - 4
                      /\ d.h.mstatus = {"MPP"}
           /\ ~load => /\ d.h.a1 = t.a1 /\ d.h.mepc = t.mepc
                       /\ d.h.mstatus \cap mstatus_mask = t.mstatus \cap mstatus_mask
           /\ d.t.a0 = h.a0 /\ d.t.a1 = h.a1 /\ d.t.s = h.s
           /\ d.t.scsrs = h.scsrs /\ d.t.mepc = h.mepc /\ d.t.mstatus = h.mstatus
           /\ d.t.sip = h.mip \cap SInterrupts \cap {"SSIP"}
<1> DEFINE e == swap_all([h |-> h, t |-> t], TRUE)
           run == [e.h EXCEPT !.mideleg = {}, !.mtvec = "enclave"]
           f == IF load THEN [run EXCEPT !.mepc = DramBase - 4, !.mstatus = {"MPP"}, !.a1 = DramBase]
                ELSE run
<1>1. e.h = Swapped(h, t) /\ e.t = Saved(h, t, 0)
  BY Zenon, SwapAll
<1>2. e = [h |-> e.h, t |-> e.t]
  BY DEF swap_all, swap_prev_mstatus
<1>3. d = [e EXCEPT !.h = f]
  BY DEF context_switch_to_enclave
<1> HIDE DEF e
<1>4. d = [h |-> f, t |-> e.t]
  BY <1>2, <1>3
<1>5. e.h \in HartRec /\ e.t \in ThreadRec
  BY <1>1, SwapTypes
<1>6. f \in HartRec
  <2>1. {"MPP"} \in SUBSET MstatusBits
    BY DEF MstatusBits, mstatus_mask
  <2>2. DramBase \in Int /\ DramBase - 4 \in Int
    BY ThreadAssumption
  <2> QED
    BY ZenonT(40), <1>5, <2>1, <2>2 DEF HartRec
<1>7. /\ f.zero = t.zero /\ f.a0 = t.a0 /\ f.s = t.s /\ f.scsrs = t.scsrs
      /\ f.mideleg = {} /\ f.mtvec = "enclave" /\ f.mip = e.h.mip
      /\ load => f.a1 = DramBase /\ f.mepc = DramBase - 4 /\ f.mstatus = {"MPP"}
      /\ ~load => f.a1 = t.a1 /\ f.mepc = t.mepc /\ f.mstatus = e.h.mstatus
  BY <1>1, <1>5 DEF HartRec, Swapped
<1>8. e.h.mip = (h.mip \ {"SSIP"}) \cup t.sip
  BY <1>1 DEF Swapped, HartRec, SInterrupts
<1>9. e.h.mstatus = (h.mstatus \ mstatus_mask) \cup t.mstatus
  BY <1>1 DEF Swapped, HartRec
<1> HIDE DEF f
<1>10. e.h.mstatus \cap mstatus_mask = t.mstatus \cap mstatus_mask
  BY <1>9
<1>11. d.h = f /\ d.t = e.t
  BY <1>4
<1>12. /\ d.t.a0 = h.a0 /\ d.t.a1 = h.a1 /\ d.t.s = h.s
       /\ d.t.scsrs = h.scsrs /\ d.t.mepc = h.mepc /\ d.t.mstatus = h.mstatus
       /\ d.t.sip = h.mip \cap SInterrupts \cap {"SSIP"}
  BY <1>1, <1>11, SavedFields
<1> QED
  BY SMTT(30), <1>5, <1>6, <1>7, <1>8, <1>10, <1>11, <1>12

\* What a side sees of a hart.
ViewRec == [a0 : Int, a1 : Int, s : Int, mepc : Int, scsrs : Int,
            mstatus : SUBSET mstatus_mask, ssip : BOOLEAN]

\* Thread t holds the context of a side that is to find e, but for a0.
Waiting(t, e) ==
    /\ t.a1 = e.a1 /\ t.s = e.s /\ t.scsrs = e.scsrs /\ t.mepc + 4 = e.mepc
    /\ t.mstatus \cap mstatus_mask = e.mstatus
    /\ "SSIP" \in t.sip <=> e.ssip

\* What an enclave finds at its first instruction.
FirstView == [a0 |-> 0, a1 |-> DramBase, s |-> 0, mepc |-> DramBase, scsrs |-> 0,
              mstatus |-> {"MPP"}, ssip |-> FALSE]

\* The types of the state, and the vector and the delegation of each side.
Types ==
    /\ world \in {"host", "enclave"} /\ state \in {FRESH, STOPPED, RUNNING}
    /\ hart \in HartRec /\ thread \in ThreadRec /\ expected \in ViewRec
    /\ hart.mtvec = world /\ hart.mideleg = IF world = "host" THEN SInterrupts ELSE {}
    /\ world = "enclave" <=> state = RUNNING

\* The inductive invariant: the thread holds what the side that waits must find.
ThreadInv ==
    /\ Types
    /\ state = FRESH => /\ thread.a0 = 0 /\ thread.s = 0 /\ thread.scsrs = 0
                        /\ thread.sip = {} /\ expected = FirstView
    /\ state # FRESH => Waiting(thread, expected)
    /\ state = STOPPED => expected.a0 = IF thread.zero = 0 THEN 0 ELSE thread.a0

\* What ContextsKept says of a step, but for the types.
StepOK == HostFindsItsContext /\ EnclaveFindsItsContext /\ InterruptsReachHost

\* A view of a hart is well typed.
LEMMA ViewType ==
    ASSUME NEW h \in HartRec
    PROVE  View(h) \in ViewRec
BY DEF View, ViewRec, HartRec

\* A hart that returns from a call with results in a0 and a1.
Returning(h, a0, a1, place) == [h EXCEPT !.a0 = a0, !.a1 = a1, !.mepc = place]

\* The fields of such a hart.
LEMMA ReturningFields ==
    ASSUME NEW h \in HartRec, NEW a0 \in Int, NEW a1 \in Int, NEW place \in Int,
           NEW g, g = Returning(h, a0, a1, place)
    PROVE  /\ g \in HartRec /\ g.a0 = a0 /\ g.a1 = a1 /\ g.mepc = place
           /\ g.zero = h.zero /\ g.s = h.s /\ g.scsrs = h.scsrs /\ g.mstatus = h.mstatus
           /\ g.mip = h.mip /\ g.mideleg = h.mideleg /\ g.mtvec = h.mtvec
BY Zenon DEF HartRec, Returning

\* Every wrapper returns to the instruction after the ecall, with the rest of the context.
LEMMA ReturnStep ==
    ASSUME NEW d, d.h \in HartRec, NEW a0 \in Int, SbiReturn(d, a0)
    PROVE  /\ hart' \in HartRec /\ hart'.a0 = a0 /\ hart'.a1 = d.h.a1 /\ hart'.mepc = d.h.mepc + 4
           /\ hart'.s = d.h.s /\ hart'.scsrs = d.h.scsrs /\ hart'.mstatus = d.h.mstatus
           /\ hart'.mip = d.h.mip /\ hart'.mideleg = d.h.mideleg /\ hart'.mtvec = d.h.mtvec
           /\ thread' = d.t
<1>1. PICK g, x, y : g = Returning(d.h, a0, x, y) /\ x = d.h.a1 /\ y = d.h.mepc + 4
  BY Zenon
<1>2. x \in Int /\ y \in Int
  BY <1>1 DEF HartRec
<1>3. hart' = Returning(d.h, a0, d.h.a1, d.h.mepc + 4) /\ thread' = d.t
  BY Zenon DEF SbiReturn, HartRec, Returning
<1>4. /\ g \in HartRec /\ g.a0 = a0 /\ g.a1 = x /\ g.mepc = y
      /\ g.s = d.h.s /\ g.scsrs = d.h.scsrs /\ g.mstatus = d.h.mstatus
      /\ g.mip = d.h.mip /\ g.mideleg = d.h.mideleg /\ g.mtvec = d.h.mtvec
  BY SMT, <1>1, <1>2, ReturningFields
<1>5. hart' = g
  BY Zenon, <1>1, <1>3
<1> QED
  BY Zenon, <1>1, <1>3, <1>4, <1>5

\* The fields of a view.
LEMMA ViewFields ==
    ASSUME NEW h
    PROVE  /\ View(h).s = h.s /\ View(h).scsrs = h.scsrs /\ View(h).mepc = h.mepc
           /\ View(h).mstatus = h.mstatus \cap mstatus_mask /\ View(h).a1 = h.a1
BY DEF View

\* The view of hart h, but for a0 and the program counter.
Resuming(h, a0, place) == [View(h) EXCEPT !.mepc = place, !.a0 = a0]

\* The fields of such a view.
LEMMA ResumingFields ==
    ASSUME NEW h \in HartRec, NEW a0 \in Int, NEW place \in Int,
           NEW e, e = Resuming(h, a0, place)
    PROVE  /\ e \in ViewRec /\ e.a0 = a0 /\ e.mepc = place
           /\ e.a1 = h.a1 /\ e.s = h.s /\ e.scsrs = h.scsrs
           /\ e.mstatus = h.mstatus \cap mstatus_mask /\ e.ssip = ("SSIP" \in h.mip)
<1> View(h) \in ViewRec
  BY ViewType
<1> QED
  BY Zenon DEF View, ViewRec, Resuming

\* What the host expects, and what an interrupted enclave expects, in that form.
LEMMA ResumingHere ==
    ASSUME NEW h \in HartRec
    PROVE  /\ [View(h) EXCEPT !.mepc = View(h).mepc + 4] = Resuming(h, h.a0, h.mepc + 4)
           /\ View(h) = Resuming(h, h.a0, h.mepc)
<1> DEFINE v == View(h)
<1>1. v \in ViewRec
  BY ViewType
<1>2. v.a0 = h.a0 /\ v.mepc = h.mepc
  BY DEF View
<1> HIDE DEF v
<1>3. [v EXCEPT !.mepc = v.mepc + 4] = [v EXCEPT !.mepc = h.mepc + 4, !.a0 = h.a0]
  BY Zenon, <1>1, <1>2 DEF ViewRec
<1>4. v = [v EXCEPT !.mepc = h.mepc, !.a0 = h.a0]
  BY Zenon, <1>1, <1>2 DEF ViewRec
<1> QED
  BY <1>3, <1>4 DEF Resuming, v

\* Types implies the type invariant that the runs check.
LEMMA TypesOK ==
    ASSUME Types
    PROVE  ThreadTypeOK
BY DEF Types, ThreadTypeOK, HartRec

\* A switch to the host: the host finds its context and its interrupts, and the enclave's
\* is saved (stop_enclave, exit_enclave, the interrupts of sbi_trap_hack.c).
LEMMA Leaving ==
    ASSUME ThreadInv, Leave,
           NEW x \in Int, NEW y \in Int, NEW r \in BOOLEAN,
           NEW a0 \in Int, NEW a1 \in Int,
           NEW h \in HartRec, h.a0 = x, h.mepc = y, h.a1 = hart.a1, h.s = hart.s,
           h.scsrs = hart.scsrs, h.mstatus = hart.mstatus, h.mip = hart.mip,
           NEW d, d = context_switch_to_host([h |-> h, t |-> thread], r),
           a1 = d.h.a1 \/ a0 = SBI_ERR_SM_ENCLAVE_SUCCESS,
           hart' = Returning(d.h, a0, a1, d.h.mepc + 4),
           thread' = d.t,
           expected' = Resuming(hart, IF r THEN 0 ELSE x, y + 4)
    PROVE  ThreadInv' /\ StepOK
<1>1. /\ hart \in HartRec /\ thread \in ThreadRec /\ expected \in ViewRec
      /\ world = "enclave" /\ state = RUNNING /\ state' = STOPPED /\ world' = "host"
      /\ Waiting(thread, expected)
  BY SMTT(30) DEF ThreadInv, Types, Leave, FRESH, RUNNING
<1>3. /\ d.h \in HartRec /\ d.t \in ThreadRec
      /\ d.h.a0 = thread.a0 /\ d.h.a1 = thread.a1 /\ d.h.s = thread.s /\ d.h.scsrs = thread.scsrs
      /\ d.h.mepc = thread.mepc /\ d.h.mideleg = SInterrupts /\ d.h.mtvec = "host"
      /\ d.h.mstatus \cap mstatus_mask = thread.mstatus \cap mstatus_mask
      /\ "SSIP" \in thread.sip => "SSIP" \in d.h.mip
      /\ \A i \in h.mip \cap MInterrupts : SModeOf[i] \in d.h.mip
      /\ d.t.zero = IF r THEN 0 ELSE 1
      /\ d.t.a0 = h.a0 /\ d.t.a1 = h.a1 /\ d.t.s = h.s
      /\ d.t.scsrs = h.scsrs /\ d.t.mepc = h.mepc /\ d.t.mstatus = h.mstatus
      /\ d.t.sip = h.mip \cap SInterrupts \cap {"SSIP"}
  BY SMTT(30), <1>1, ToHost
<1>4. /\ hart' \in HartRec /\ hart'.a0 = a0 /\ hart'.a1 = a1 /\ hart'.mepc = d.h.mepc + 4
      /\ hart'.s = d.h.s /\ hart'.scsrs = d.h.scsrs /\ hart'.mstatus = d.h.mstatus
      /\ hart'.mip = d.h.mip /\ hart'.mideleg = d.h.mideleg /\ hart'.mtvec = d.h.mtvec
  <2>1. d.h.mepc + 4 \in Int
    BY <1>3 DEF HartRec
  <2> QED
    BY SMTT(30), <1>3, <2>1, ReturningFields
<1>5. View(hart) \in ViewRec
  BY SMTT(30), <1>1, ViewType
<1>6. /\ expected' \in ViewRec
      /\ expected'.a1 = hart.a1 /\ expected'.s = hart.s /\ expected'.scsrs = hart.scsrs
      /\ expected'.mepc = y + 4 /\ expected'.a0 = IF r THEN 0 ELSE x
      /\ expected'.mstatus = hart.mstatus \cap mstatus_mask
      /\ expected'.ssip = ("SSIP" \in hart.mip)
  <2>1. y + 4 \in Int /\ (IF r THEN 0 ELSE x) \in Int
    BY SMTT(30)
  <2> QED
    BY SMTT(30), <1>1, <2>1, ResumingFields
<1>7. /\ d.t.zero = (IF r THEN 0 ELSE 1) /\ d.t.a0 = x /\ d.t.a1 = hart.a1 /\ d.t.s = hart.s
      /\ d.t.scsrs = hart.scsrs /\ d.t.mepc = y /\ d.t.mstatus = hart.mstatus
      /\ d.t.sip = hart.mip \cap SInterrupts \cap {"SSIP"}
  BY SMTT(30), <1>3
<1>8. Types'
  BY SMTT(30), <1>1, <1>3, <1>4, <1>6 DEF Types, RUNNING, STOPPED
<1>9. "SSIP" \in SInterrupts
  BY DEF SInterrupts
<1>10. Waiting(thread, expected)'
  BY ZenonT(40), <1>6, <1>7, <1>9 DEF Waiting
<1>11. ThreadInv'
  BY SMTT(30), <1>1, <1>6, <1>7, <1>8, <1>10 DEF ThreadInv, FRESH, STOPPED
<1>12. HostFindsItsContext
  <2>1. /\ View(hart').s = expected.s /\ View(hart').scsrs = expected.scsrs
        /\ View(hart').mepc = expected.mepc /\ View(hart').mstatus = expected.mstatus
        /\ View(hart').a1 = hart'.a1
    <3>1. /\ View(hart').s = hart'.s /\ View(hart').scsrs = hart'.scsrs /\ View(hart').a1 = hart'.a1
          /\ View(hart').mepc = hart'.mepc /\ View(hart').mstatus = hart'.mstatus \cap mstatus_mask
      BY Zenon, ViewFields
    <3>0. /\ thread.s = expected.s /\ thread.scsrs = expected.scsrs
          /\ thread.mepc + 4 = expected.mepc
          /\ thread.mstatus \cap mstatus_mask = expected.mstatus
      BY Zenon, <1>1 DEF Waiting
    <3>2. /\ hart'.s = expected.s /\ hart'.scsrs = expected.scsrs
          /\ hart'.mstatus \cap mstatus_mask = expected.mstatus
      BY Zenon, <1>3, <1>4, <3>0
    <3>3. hart'.mepc = expected.mepc
      BY Zenon, <1>3, <1>4, <3>0
    <3> QED
      BY Zenon, <3>1, <3>2, <3>3
  <2>2. View(hart') \in ViewRec
    BY <1>4, ViewType
  <2>3. [View(hart') EXCEPT !.a0 = 0, !.ssip = FALSE] =
        [expected EXCEPT !.a0 = 0, !.ssip = FALSE, !.a1 = hart'.a1]
    <3> DEFINE u == View(hart')
               b == hart'.a1
    <3>1. /\ u \in ViewRec /\ u.a1 = b /\ u.s = expected.s /\ u.scsrs = expected.scsrs
          /\ u.mepc = expected.mepc /\ u.mstatus = expected.mstatus
      BY <2>1, <2>2
    <3> HIDE DEF u, b
    <3>2. [u EXCEPT !.a0 = 0, !.ssip = FALSE] =
          [expected EXCEPT !.a0 = 0, !.ssip = FALSE, !.a1 = b]
      BY ZenonT(40), <1>1, <3>1 DEF ViewRec
    <3> QED
      BY <3>2 DEF u, b
  <2>4. hart'.a1 # expected.a1 => hart'.a0 = SBI_ERR_SM_ENCLAVE_SUCCESS
    BY SMTT(30), <1>1, <1>3, <1>4 DEF Waiting
  <2> QED
    BY SMTT(30), <2>3, <2>4 DEF HostFindsItsContext
<1>13. InterruptsReachHost
  BY <1>1, <1>3, <1>4 DEF InterruptsReachHost, Waiting
<1>14. EnclaveFindsItsContext
  BY <1>1 DEF EnclaveFindsItsContext
<1> QED
  BY SMTT(30), <1>11, <1>12, <1>13, <1>14 DEF StepOK

\* A switch to the enclave: the enclave finds its context, and the host's is saved
\* (run_enclave, resume_enclave).
LEMMA Entering ==
    ASSUME ThreadInv, world = "host", NEW load \in BOOLEAN, NEW a0,
           IF load THEN state = FRESH ELSE state = STOPPED,
           NEW d, d = context_switch_to_enclave(Trap, load),
           a0 = IF load THEN 0 ELSE IF d.h.zero = 0 THEN 0 ELSE d.h.a0,
           SbiReturn(d, a0), ExpectHost, state' = RUNNING, world' = "enclave"
    PROVE  ThreadInv' /\ StepOK
<1> DEFINE h == [hart EXCEPT !.zero = 0]
<1>1. /\ hart \in HartRec /\ thread \in ThreadRec /\ expected \in ViewRec
      /\ hart.mideleg = SInterrupts
  BY DEF ThreadInv, Types
<1>2. h \in HartRec /\ h.mideleg = SInterrupts
  BY <1>1 DEF HartRec
<1>3. Trap = [h |-> h, t |-> thread]
  BY SMTT(30) DEF Trap
<1> HIDE DEF h
<1>4. /\ d.h \in HartRec /\ d.t \in ThreadRec
      /\ d.h.zero = thread.zero /\ d.h.a0 = thread.a0 /\ d.h.s = thread.s /\ d.h.scsrs = thread.scsrs
      /\ d.h.mideleg = {} /\ d.h.mtvec = "enclave"
      /\ "SSIP" \in d.h.mip <=> "SSIP" \in thread.sip
      /\ load => /\ d.h.a1 = DramBase /\ d.h.mepc = DramBase - 4
                 /\ d.h.mstatus = {"MPP"}
      /\ ~load => /\ d.h.a1 = thread.a1 /\ d.h.mepc = thread.mepc
                  /\ d.h.mstatus \cap mstatus_mask = thread.mstatus \cap mstatus_mask
      /\ d.t.a0 = h.a0 /\ d.t.a1 = h.a1 /\ d.t.s = h.s
      /\ d.t.scsrs = h.scsrs /\ d.t.mepc = h.mepc /\ d.t.mstatus = h.mstatus
      /\ d.t.sip = h.mip \cap SInterrupts \cap {"SSIP"}
  BY SMTT(30), <1>1, <1>2, <1>3, ToEnclave
<1>5. a0 \in Int
  BY SMTT(30), <1>4 DEF HartRec
<1>6. /\ hart' \in HartRec /\ hart'.a0 = a0 /\ hart'.a1 = d.h.a1 /\ hart'.mepc = d.h.mepc + 4
      /\ hart'.s = d.h.s /\ hart'.scsrs = d.h.scsrs /\ hart'.mstatus = d.h.mstatus
      /\ hart'.mip = d.h.mip /\ hart'.mideleg = d.h.mideleg /\ hart'.mtvec = d.h.mtvec
      /\ thread' = d.t
  BY <1>4, <1>5, ReturnStep
<1>7. View(hart) \in ViewRec
  BY <1>1, ViewType
<1>8. /\ expected' \in ViewRec
      /\ expected'.a1 = hart.a1 /\ expected'.s = hart.s /\ expected'.scsrs = hart.scsrs
      /\ expected'.mepc = hart.mepc + 4
      /\ expected'.mstatus = hart.mstatus \cap mstatus_mask
      /\ expected'.ssip = ("SSIP" \in hart.mip)
  <2>1. expected' = Resuming(hart, hart.a0, hart.mepc + 4)
    BY <1>1, ResumingHere DEF ExpectHost
  <2>2. hart.mepc + 4 \in Int /\ hart.a0 \in Int
    BY <1>1 DEF HartRec
  <2> QED
    BY <1>1, <2>1, <2>2, ResumingFields
<1>9. /\ d.t.a1 = hart.a1 /\ d.t.s = hart.s
      /\ d.t.scsrs = hart.scsrs /\ d.t.mepc = hart.mepc /\ d.t.mstatus = hart.mstatus
      /\ d.t.sip = hart.mip \cap SInterrupts \cap {"SSIP"}
  <2>1. /\ h.a1 = hart.a1 /\ h.s = hart.s /\ h.scsrs = hart.scsrs /\ h.mepc = hart.mepc
        /\ h.mstatus = hart.mstatus /\ h.mip = hart.mip
    BY <1>1 DEF HartRec, h
  <2> QED
    BY <1>4, <2>1
<1>10. "SSIP" \in SInterrupts
  BY DEF SInterrupts
<1>11. Waiting(thread, expected)'
  BY Zenon, <1>6, <1>8, <1>9, <1>10 DEF Waiting
<1>12. Types'
  BY <1>4, <1>6, <1>8 DEF Types
<1>13. ThreadInv'
  BY <1>11, <1>12 DEF ThreadInv, FRESH, RUNNING, STOPPED
<1>14. View(hart') = expected
  <2>1. View(hart') \in ViewRec
    BY <1>6, ViewType
  <2>2. CASE load
    <3>1. /\ thread.a0 = 0 /\ thread.s = 0 /\ thread.scsrs = 0
          /\ thread.sip = {} /\ expected = FirstView
      BY <2>2 DEF ThreadInv
    <3>2. {"MPP"} \cap mstatus_mask = {"MPP"}
      BY DEF mstatus_mask
    <3>3. /\ hart'.a0 = 0 /\ hart'.a1 = DramBase /\ hart'.s = 0 /\ hart'.scsrs = 0
          /\ hart'.mepc = DramBase /\ hart'.mstatus \cap mstatus_mask = {"MPP"}
          /\ ("SSIP" \in hart'.mip) = FALSE
      <4>1. DramBase - 4 + 4 = DramBase
        BY SMTT(30), ThreadAssumption
      <4>2. ~("SSIP" \in hart'.mip)
        BY SMTT(30), <1>4, <1>6, <3>1
      <4>3. /\ hart'.a0 = 0 /\ hart'.a1 = DramBase /\ hart'.s = 0 /\ hart'.scsrs = 0
            /\ hart'.mepc = DramBase /\ hart'.mstatus \cap mstatus_mask = {"MPP"}
        <5>1. d.h.a1 = DramBase /\ d.h.mepc = DramBase - 4 /\ d.h.mstatus = {"MPP"}
          BY Zenon, <1>4, <2>2
        <5>2. a0 = 0 /\ d.h.s = 0 /\ d.h.scsrs = 0
          BY SMTT(30), <1>4, <2>2, <3>1
        <5> QED
          BY <1>6, <3>2, <4>1, <5>1, <5>2
      <4> QED
        BY <4>2, <4>3
    <3> QED
      BY Zenon, <3>1, <3>3 DEF View, FirstView
  <2>3. CASE ~load
    <3>1. Waiting(thread, expected) /\ expected.a0 = IF thread.zero = 0 THEN 0 ELSE thread.a0
      BY SMTT(30), <2>3 DEF ThreadInv, FRESH, STOPPED
    <3>2. /\ hart'.a0 = expected.a0 /\ hart'.a1 = expected.a1 /\ hart'.s = expected.s
          /\ hart'.scsrs = expected.scsrs /\ hart'.mepc = expected.mepc
          /\ hart'.mstatus \cap mstatus_mask = expected.mstatus
          /\ ("SSIP" \in hart'.mip) = expected.ssip
      BY <1>1, <1>4, <1>6, <2>3, <3>1 DEF Waiting, ViewRec
    <3> QED
      BY <1>1, <3>2 DEF View, ViewRec
  <2> QED
    BY <2>2, <2>3
<1> QED
  BY SMTT(30), <1>13, <1>14 DEF StepOK, HostFindsItsContext, EnclaveFindsItsContext, InterruptsReachHost

\* A step that changes only registers of the side that executes keeps the invariant.
LEMMA Executing ==
    ASSUME ThreadInv, UNCHANGED <<world, state, thread, expected>>,
           hart' \in HartRec, hart'.mtvec = hart.mtvec, hart'.mideleg = hart.mideleg
    PROVE  ThreadInv' /\ StepOK
<1>1. world' = world /\ state' = state /\ thread' = thread /\ expected' = expected
  OBVIOUS
<1>2. Types'
  BY <1>1 DEF ThreadInv, Types
<1>3. ThreadInv'
  BY <1>1, <1>2 DEF ThreadInv
<1>4. ~(world = "enclave" /\ world' = "host") /\ ~(world = "host" /\ world' = "enclave")
  BY <1>1
<1> QED
  BY <1>3, <1>4 DEF StepOK, HostFindsItsContext, EnclaveFindsItsContext, InterruptsReachHost

\* A call that is refused writes a0 and steps over the ecall.
LEMMA RefusedCall ==
    ASSUME ThreadInv, NEW a0 \in Int, SbiReturn(Trap, a0), UNCHANGED <<world, state, expected>>
    PROVE  ThreadInv' /\ StepOK
<1>1. hart \in HartRec
  BY DEF ThreadInv, Types
<1> DEFINE z == [hart EXCEPT !.zero = 0]
<1>2. /\ z \in HartRec /\ z.mepc + 4 \in Int /\ z.a1 \in Int
      /\ z.mtvec = hart.mtvec /\ z.mideleg = hart.mideleg
  BY <1>1 DEF HartRec
<1>5. Trap = [h |-> z, t |-> thread]
  BY DEF Trap
<1> HIDE DEF z
<1>6. hart' = Returning(z, a0, z.a1, z.mepc + 4)
  BY Zenon, <1>2, <1>5 DEF SbiReturn, HartRec, Returning
<1>3. thread' = thread
  BY DEF SbiReturn, Trap
<1>4. hart' \in HartRec /\ hart'.mtvec = hart.mtvec /\ hart'.mideleg = hart.mideleg
  BY <1>2, <1>6, ReturningFields
<1> QED
  BY SMTT(30), <1>3, <1>4, Executing

\* The host computes.
LEMMA HostSteps ==
    ASSUME ThreadInv, HostStep
    PROVE  ThreadInv' /\ StepOK
<1>1. hart \in HartRec
  BY DEF ThreadInv, Types
<1>2. PICK v \in Values, place \in HostPcs, sie \in BOOLEAN, ssip \in BOOLEAN :
          hart' = [hart EXCEPT !.a0 = v, !.a1 = v, !.s = v, !.scsrs = v, !.mepc = place,
                               !.mstatus = {"MPP", "MPIE"} \cup IF sie THEN {"SIE"} ELSE {},
                               !.mip = IF ssip THEN {"SSIP"} ELSE {}]
  BY Zenon DEF HostStep
<1> DEFINE m == {"MPP", "MPIE"} \cup IF sie THEN {"SIE"} ELSE {}
           p == IF ssip THEN {"SSIP"} ELSE {}
<1>3. m \in SUBSET MstatusBits
  BY DEF MstatusBits, mstatus_mask
<1>4. p \in SUBSET (MInterrupts \cup SInterrupts)
  BY DEF SInterrupts
<1>5. v \in Int /\ place \in Int
  BY ThreadAssumption
<1>6. hart' = [hart EXCEPT !.a0 = v, !.a1 = v, !.s = v, !.scsrs = v, !.mepc = place,
                           !.mstatus = m, !.mip = p]
  BY <1>2
<1> HIDE DEF m, p
<1>7. hart' \in HartRec /\ hart'.mtvec = hart.mtvec /\ hart'.mideleg = hart.mideleg
  BY Zenon, <1>1, <1>3, <1>4, <1>5, <1>6 DEF HartRec
<1> QED
  BY <1>7, Executing DEF HostStep

\* The enclave computes.
LEMMA EnclaveSteps ==
    ASSUME ThreadInv, EnclaveStep
    PROVE  ThreadInv' /\ StepOK
<1>1. hart \in HartRec
  BY DEF ThreadInv, Types
<1>2. PICK v \in Values, place \in EnclavePcs, mode \in SUBSET mstatus_mask :
          hart' = [hart EXCEPT !.a0 = v, !.a1 = v, !.s = v, !.scsrs = v, !.mepc = place,
                               !.mstatus = (hart.mstatus \ mstatus_mask) \cup mode]
  BY Zenon DEF EnclaveStep
<1> DEFINE m == (hart.mstatus \ mstatus_mask) \cup mode
<1>3. m \in SUBSET MstatusBits
  <2>1. hart.mstatus \in SUBSET MstatusBits
    BY <1>1 DEF HartRec
  <2> QED
    BY <2>1 DEF MstatusBits
<1>4. v \in Int /\ place \in Int
  BY ThreadAssumption
<1>5. hart' = [hart EXCEPT !.a0 = v, !.a1 = v, !.s = v, !.scsrs = v, !.mepc = place, !.mstatus = m]
  BY <1>2
<1> HIDE DEF m
<1>6. hart' \in HartRec /\ hart'.mtvec = hart.mtvec /\ hart'.mideleg = hart.mideleg
  BY Zenon, <1>1, <1>3, <1>4, <1>5 DEF HartRec
<1> QED
  BY <1>6, Executing DEF EnclaveStep

\* An interrupt becomes pending.
LEMMA Arrivals ==
    ASSUME ThreadInv, NEW i \in MInterrupts, Arrive(i)
    PROVE  ThreadInv' /\ StepOK
<1>1. hart \in HartRec
  BY DEF ThreadInv, Types
<1> DEFINE p == hart.mip \cup {i}
<1>2. p \in SUBSET (MInterrupts \cup SInterrupts)
  BY <1>1 DEF HartRec
<1>3. hart' = [hart EXCEPT !.mip = p]
  BY DEF Arrive
<1> HIDE DEF p
<1>4. hart' \in HartRec /\ hart'.mtvec = hart.mtvec /\ hart'.mideleg = hart.mideleg
  BY <1>1, <1>2, <1>3 DEF HartRec
<1> QED
  BY <1>4, Executing DEF Arrive

\* The host runs an enclave.
LEMMA Runs ==
    ASSUME ThreadInv, SbiRunEnclave
    PROVE  ThreadInv' /\ StepOK
<1>1. CASE state = FRESH
  <2> DEFINE d == context_switch_to_enclave(Trap, TRUE)
  <2>1. /\ SbiReturn(d, 0) /\ ExpectHost /\ state' = RUNNING /\ world' = "enclave"
        /\ world = "host"
    BY Zenon, <1>1 DEF SbiRunEnclave, SBI_ERR_SM_ENCLAVE_SUCCESS
  <2> HIDE DEF d
  <2>2. d = context_switch_to_enclave(Trap, TRUE)
    BY DEF d
  <2> QED
    BY Zenon, <1>1, <2>1, <2>2, Entering
<1>2. CASE state # FRESH
  <2>1. /\ SbiReturn(Trap, SBI_ERR_SM_ENCLAVE_NOT_FRESH)
        /\ UNCHANGED <<world, state, expected>>
    BY Zenon, <1>2 DEF SbiRunEnclave
  <2>2. SBI_ERR_SM_ENCLAVE_NOT_FRESH \in Int
    BY DEF SBI_ERR_SM_ENCLAVE_NOT_FRESH
  <2> QED
    BY <2>1, <2>2, RefusedCall
<1> QED
  BY <1>1, <1>2

\* The host resumes an enclave.
LEMMA Resumes ==
    ASSUME ThreadInv, SbiResumeEnclave
    PROVE  ThreadInv' /\ StepOK
<1>1. CASE state = STOPPED
  <2> DEFINE d == context_switch_to_enclave(Trap, FALSE)
             a0 == IF d.h.zero = 0 THEN 0 ELSE d.h.a0
  <2>1. /\ SbiReturn(d, a0) /\ ExpectHost /\ state' = RUNNING /\ world' = "enclave"
        /\ world = "host"
    BY Zenon, <1>1 DEF SbiResumeEnclave, ResumeReturn, SBI_ERR_SM_ENCLAVE_SUCCESS
  <2>2. a0 = IF d.h.zero = 0 THEN 0 ELSE d.h.a0
    OBVIOUS
  <2> HIDE DEF d, a0
  <2>3. d = context_switch_to_enclave(Trap, FALSE)
    BY DEF d
  <2> QED
    BY Zenon, <1>1, <2>1, <2>2, <2>3, Entering
<1>2. CASE state # STOPPED
  <2>1. Trap.h.zero = 0
    BY DEF Trap, ThreadInv, Types, HartRec
  <2>2. /\ SbiReturn(Trap, SBI_ERR_SM_ENCLAVE_NOT_RESUMABLE)
        /\ UNCHANGED <<world, state, expected>>
    BY Zenon, <1>2, <2>1 DEF SbiResumeEnclave, ResumeReturn
  <2>3. SBI_ERR_SM_ENCLAVE_NOT_RESUMABLE \in Int
    BY SMTT(30) DEF SBI_ERR_SM_ENCLAVE_NOT_RESUMABLE
  <2> QED
    BY <2>2, <2>3, RefusedCall
<1> QED
  BY <1>1, <1>2

\* The enclave stops itself, for an edge call or not.
LEMMA Stops ==
    ASSUME ThreadInv, NEW request \in Requests, SbiStopEnclave(request)
    PROVE  ThreadInv' /\ StepOK
<1> DEFINE h == [hart EXCEPT !.zero = 0, !.a0 = request]
           r == request = STOP_EDGE_CALL_HOST
           d == context_switch_to_host([h |-> h, t |-> thread], r)
           a0 == stop_result(request)
<1>1. hart \in HartRec /\ thread \in ThreadRec /\ Leave
  BY DEF ThreadInv, Types, SbiStopEnclave
<1>2. request \in Int /\ r \in BOOLEAN /\ a0 \in Int
  BY DEF Requests, STOP_TIMER_INTERRUPT, STOP_EDGE_CALL_HOST, stop_result,
         SBI_ERR_SM_ENCLAVE_INTERRUPTED, SBI_ERR_SM_ENCLAVE_EDGE_CALL_HOST,
         SBI_ERR_SM_ENCLAVE_UNKNOWN_ERROR
<1>3. /\ h \in HartRec /\ h.a0 = request /\ h.mepc = hart.mepc /\ h.a1 = hart.a1
      /\ h.s = hart.s /\ h.scsrs = hart.scsrs /\ h.mstatus = hart.mstatus /\ h.mip = hart.mip
      /\ hart.mepc \in Int
  BY Zenon, <1>1, <1>2 DEF HartRec
<1>4. [Trap EXCEPT !.h.a0 = request] = [h |-> h, t |-> thread]
  BY <1>1 DEF Trap, HartRec
<1>5. SbiReturn(d, a0)
  BY <1>4 DEF SbiStopEnclave
<1>6. expected' = Resuming(hart, IF r THEN 0 ELSE request, hart.mepc + 4)
  BY DEF SbiStopEnclave, Resuming, View, SBI_ERR_SM_ENCLAVE_SUCCESS
<1>7. d = context_switch_to_host([h |-> h, t |-> thread], r)
  BY SMTT(30)
<1> HIDE DEF h, r, d, a0
<1>8. d.h \in HartRec
  BY <1>1, <1>2, <1>3, <1>7, ToHost
<1>9. d.h.a1 \in Int /\ hart' = Returning(d.h, a0, d.h.a1, d.h.mepc + 4) /\ thread' = d.t
  BY Zenon, <1>5, <1>8 DEF SbiReturn, HartRec, Returning
<1> QED
  BY SMTT(30), <1>1, <1>2, <1>3, <1>6, <1>7, <1>9, Leaving

\* An interrupt stops the enclave: mepc - 4 is saved, to be stepped over later.
LEMMA Interrupts ==
    ASSUME ThreadInv, NEW i \in {"MTIP", "MSIP"}, Interrupt(i)
    PROVE  ThreadInv' /\ StepOK
<1> DEFINE y == hart.mepc - 4
           h == [hart EXCEPT !.zero = 0, !.mepc = y]
           d == context_switch_to_host([h |-> h, t |-> thread], FALSE)
           a0 == stop_result(STOP_TIMER_INTERRUPT)
           r == FALSE
<1>1. hart \in HartRec /\ thread \in ThreadRec /\ Leave
  BY DEF ThreadInv, Types, Interrupt
<1>2. a0 \in Int
  BY DEF STOP_TIMER_INTERRUPT, stop_result, SBI_ERR_SM_ENCLAVE_INTERRUPTED
<1>11. y \in Int /\ y + 4 = hart.mepc
  BY <1>1 DEF HartRec
<1>4. [Trap EXCEPT !.h.mepc = Trap.h.mepc - 4] = [h |-> h, t |-> thread]
  <2> DEFINE z == [hart EXCEPT !.zero = 0]
  <2>1. z \in HartRec /\ z.mepc = hart.mepc /\ h = [z EXCEPT !.mepc = y]
    BY <1>1 DEF HartRec
  <2>2. Trap = [h |-> z, t |-> thread]
    BY DEF Trap
  <2> HIDE DEF z, h
  <2> QED
    BY <2>1, <2>2
<1> HIDE DEF y
<1>3. /\ h \in HartRec /\ h.a0 = hart.a0 /\ h.mepc = y /\ h.a1 = hart.a1
      /\ h.s = hart.s /\ h.scsrs = hart.scsrs /\ h.mstatus = hart.mstatus /\ h.mip = hart.mip
      /\ hart.a0 \in Int
  BY Zenon, <1>1, <1>11 DEF HartRec
<1>5. SbiReturn(d, a0)
  BY Zenon, <1>4 DEF Interrupt
<1>12. r \in BOOLEAN /\ (IF r THEN 0 ELSE hart.a0) = hart.a0
  OBVIOUS
<1>6. expected' = Resuming(hart, IF r THEN 0 ELSE hart.a0, y + 4)
  <2>2. expected' = Resuming(hart, hart.a0, hart.mepc)
    BY Zenon, <1>1, ResumingHere DEF Interrupt
  <2> QED
    BY <1>11, <1>12, <2>2
<1>7. d = context_switch_to_host([h |-> h, t |-> thread], r)
  BY SMTT(30)
<1> HIDE DEF h, d, a0, r
<1>8. d.h \in HartRec
  BY <1>1, <1>2, <1>3, <1>7, <1>12, ToHost
<1>9. d.h.a1 \in Int /\ hart' = Returning(d.h, a0, d.h.a1, d.h.mepc + 4) /\ thread' = d.t
  BY Zenon, <1>5, <1>8 DEF SbiReturn, HartRec, Returning
<1> QED
  BY SMTT(30), <1>1, <1>2, <1>3, <1>6, <1>7, <1>9, <1>11, <1>12, Leaving

\* The enclave exits.
LEMMA Exits ==
    ASSUME ThreadInv, NEW retval \in Values, SbiExitEnclave(retval)
    PROVE  ThreadInv' /\ StepOK
<1> DEFINE h == [hart EXCEPT !.zero = 0]
           d == context_switch_to_host([h |-> h, t |-> thread], FALSE)
<1>1. hart \in HartRec /\ thread \in ThreadRec /\ Leave
  BY DEF ThreadInv, Types, SbiExitEnclave
<1>2. retval \in Int /\ 0 \in Int
  BY ThreadAssumption
<1>3. /\ h \in HartRec /\ h.a0 = hart.a0 /\ h.mepc = hart.mepc /\ h.a1 = hart.a1
      /\ h.s = hart.s /\ h.scsrs = hart.scsrs /\ h.mstatus = hart.mstatus /\ h.mip = hart.mip
      /\ hart.mepc \in Int /\ hart.a0 \in Int
  BY <1>1 DEF HartRec
<1>4. Trap = [h |-> h, t |-> thread]
  BY DEF Trap
<1>5. SbiReturn([d EXCEPT !.h.a1 = retval], 0)
  BY <1>4 DEF SbiExitEnclave, SBI_ERR_SM_ENCLAVE_SUCCESS
<1>6. expected' = Resuming(hart, hart.a0, hart.mepc + 4)
  BY <1>1, ResumingHere DEF SbiExitEnclave
<1>7. d = context_switch_to_host([h |-> h, t |-> thread], FALSE)
  OBVIOUS
<1> HIDE DEF h, d
<1>8. d = [h |-> d.h, t |-> d.t]
  BY Zenon, <1>7, HostPair
<1>9. d.h \in HartRec
  BY Zenon, <1>1, <1>2, <1>3, <1>7, ToHost
<1>10. [d EXCEPT !.h.a1 = retval] = [h |-> [d.h EXCEPT !.a1 = retval], t |-> d.t]
  BY <1>8
<1>11. hart' = Returning(d.h, 0, retval, d.h.mepc + 4) /\ thread' = d.t
  BY Zenon, <1>5, <1>9, <1>10 DEF SbiReturn, HartRec, Returning
<1>12. 0 = SBI_ERR_SM_ENCLAVE_SUCCESS
  BY SMTT(30) DEF SBI_ERR_SM_ENCLAVE_SUCCESS
<1> QED
  BY Zenon, <1>1, <1>2, <1>3, <1>6, <1>7, <1>11, <1>12, Leaving

\* The invariant holds when the enclave was created.
LEMMA ThreadInit ==
    ASSUME ThreadStart
    PROVE  ThreadInv
<1>1. PICK v \in Values, place \in HostPcs :
          hart = [zero |-> 0, a0 |-> v, a1 |-> v, s |-> v, mepc |-> place, scsrs |-> v,
                  mstatus |-> {"MPP", "MPIE"}, mip |-> {}, mideleg |-> SInterrupts,
                  mtvec |-> "host"]
  BY Zenon DEF ThreadStart
<1>2. PICK x0 \in {0, 1}, pc2 \in HostPcs, m \in {{}, MstatusBits} :
          thread = [zero |-> x0, a0 |-> 0, a1 |-> 0, s |-> 0, mepc |-> pc2, scsrs |-> 0,
                    mstatus |-> m, sip |-> {}]
  BY Zenon DEF ThreadStart
<1>3. {"MPP", "MPIE"} \in SUBSET MstatusBits /\ {"MPP"} \in SUBSET mstatus_mask
  BY DEF MstatusBits, mstatus_mask
<1>4. v \in Int /\ place \in Int /\ pc2 \in Int /\ DramBase \in Int
  BY SMTT(30), ThreadAssumption
<1>5. hart \in HartRec /\ hart.mideleg = SInterrupts /\ hart.mtvec = "host"
  BY SMTT(30), <1>1, <1>3, <1>4 DEF HartRec
<1>6. /\ thread \in ThreadRec /\ thread.a0 = 0 /\ thread.s = 0 /\ thread.scsrs = 0
      /\ thread.sip = {}
  BY SMTT(30), <1>2, <1>4 DEF ThreadRec
<1>7. expected = FirstView
  BY DEF ThreadStart, FirstView
<1>8. expected \in ViewRec
  BY <1>3, <1>4, <1>7 DEF FirstView, ViewRec
<1> QED
  BY <1>5, <1>6, <1>7, <1>8 DEF ThreadStart, ThreadInv, Types, FRESH, STOPPED, RUNNING

\* Every step keeps the invariant and gives each side its context.
LEMMA ThreadStep ==
    ASSUME ThreadInv, ThreadNext
    PROVE  ThreadInv' /\ StepOK
BY HostSteps, Runs, Resumes, EnclaveSteps, Arrivals, Stops, Interrupts, Exits
   DEF ThreadNext, TrapError

\* For every order of runs, interrupts, edge calls, resumes and exits, and all contents of
\* the registers: the host goes on after its call with its own registers, CSRs and pending
\* interrupts, and the enclave where it was left with its own (context_switch_to_enclave,
\* context_switch_to_host, the swaps of thread.c).
THEOREM EachSideFindsItsContext == ThreadSpec => ContextsKept
<1>1. ThreadStart => ThreadInv
  BY ThreadInit
<1>2. ThreadInv /\ [ThreadNext]_threadVars => ThreadInv'
  <2>1. CASE ThreadNext
    BY SMTT(30), <2>1, ThreadStep
  <2>2. CASE UNCHANGED threadVars
    BY <2>2 DEF ThreadInv, Types, Waiting, FirstView, threadVars
  <2> QED
    BY <2>1, <2>2
<1>3. ThreadInv /\ ThreadInv' /\ [ThreadNext]_threadVars
        => [ThreadTypeOK' /\ HostFindsItsContext /\ EnclaveFindsItsContext
              /\ InterruptsReachHost]_threadVars
  <2>1. ThreadInv => ThreadTypeOK
    BY TypesOK DEF ThreadInv
  <2>2. ThreadInv' => ThreadTypeOK'
    BY <2>1, PTL
  <2> QED
    BY <2>2, ThreadStep DEF StepOK
<1> QED
  BY <1>1, <1>2, <1>3, PTL DEF ThreadSpec, ContextsKept

(***************************************************************************)
(* Booting.                                                                *)
(***************************************************************************)
Cold == {"smm_init", "osm_init", "init_done", "hang"}
Ready == {"pmp_init", "set_sm", "set_os", "os"}
Locations == {"reset", "bootloader", "loop", "boot", "wait"} \cup Cold \cup Ready

(***************************************************************************)
(* The table and the register files at the points of sm_init.              *)
(***************************************************************************)
EmptyTable ==
    /\ regions = [i \in RegionIds |-> ClearedRegion]
    /\ region_def_bitmap = {} /\ reg_bitmap = {}

MonitorRegion ==
    [addr |-> SMM_BASE, size |-> SMM_SIZE,
     addrmode |-> IF is_napot(SMM_BASE, SMM_SIZE) THEN "NAPOT" ELSE "TOR",
     allow_overlap |-> FALSE, reg_idx |-> 0]

\* A range that is no NAPOT one gets the top register only if it starts at 0.
Placed == is_napot(SMM_BASE, SMM_SIZE) \/ SMM_BASE = 0

MonitorTable ==
    /\ regions = [i \in RegionIds |-> IF i = 0 THEN MonitorRegion ELSE ClearedRegion]
    /\ region_def_bitmap = {0} /\ reg_bitmap = {0}
    /\ region_id.sm = 0 /\ region_id.os = 0
    /\ Placed

BootIds == region_id = [sm |-> 0, os |-> 1]

MonitorReg ==
    [mode |-> IF is_napot(SMM_BASE, SMM_SIZE) THEN "NAPOT" ELSE "TOR",
     hi |-> SMM_BASE + SMM_SIZE, perm |-> FALSE,
     lo |-> IF is_napot(SMM_BASE, SMM_SIZE) THEN SMM_BASE ELSE 0]
OsReg == [mode |-> "NAPOT", hi |-> MAXUL + 1, perm |-> TRUE, lo |-> 0]

MonitorFile == [n \in RegIds |-> IF n = 0 THEN MonitorReg ELSE UnsetReg]
OsFile == [n \in RegIds |-> IF n = Bottom THEN OsReg ELSE MonitorFile[n]]

(***************************************************************************)
(* The inductive invariant.                                                *)
(***************************************************************************)
BootTypeOK ==
    /\ pc \in [Harts -> Locations]
    /\ coldboot \in BOOLEAN /\ sm_init_done \in BOOLEAN
    /\ region_id = [sm |-> region_id.sm, os |-> region_id.os]
    /\ DOMAIN pmpcfg = Harts

\* One hart boots cold, before the table is published.
OneCold ==
    /\ \A h \in Harts : pc[h] \in Cold => coldboot /\ ~sm_init_done
    /\ \A g, h \in Harts : pc[g] \in Cold /\ pc[h] \in Cold => g = h
    /\ ~coldboot => ~sm_init_done

\* What it has done to the table.
TableSoFar ==
    /\ ~coldboot => EmptyTable /\ region_id = [sm |-> 0, os |-> 0]
    /\ \A h \in Harts :
          /\ pc[h] = "smm_init" => EmptyTable /\ region_id = [sm |-> 0, os |-> 0]
          /\ pc[h] = "osm_init" => MonitorTable
          /\ pc[h] = "init_done" => PMPInit /\ BootIds /\ Placed
    /\ sm_init_done => BootIds /\ Placed /\ (PMPInit \/ AllUp)

\* What every hart has done to its registers.
FilesSoFar ==
    \A h \in Harts :
        /\ pc[h] \in Ready => sm_init_done
        /\ pc[h] = "set_sm" => pmpcfg[h] = pmp_init
        /\ pc[h] = "set_os" => pmpcfg[h] = MonitorFile
        /\ pc[h] = "os" => pmpcfg[h] = OsFile

BootInv == BootTypeOK /\ OneCold /\ TableSoFar /\ FilesSoFar

(***************************************************************************)
(* The two regions that the cold hart allocates.                           *)
(***************************************************************************)
\* The search for a free slot or register returns the first one.
LEMMA FirstUnset ==
    ASSUME NEW bitmap, NEW max \in Nat, NEW r \in 0 .. max - 1,
           r \notin bitmap, \A j \in 0 .. r - 1 : j \in bitmap
    PROVE  search_rightmost_unset(bitmap, max, 1) = r
<1> DEFINE fits == {i \in 0 .. max - 1 : i .. (i + 1 - 1) \cap bitmap = {}}
<1>1. \A i \in 0 .. max - 1 : i .. (i + 1 - 1) = {i}
  OBVIOUS
<1>2. fits = {i \in 0 .. max - 1 : i \notin bitmap}
  BY <1>1
<1>3. r \in fits /\ \A j \in fits : r <= j
  BY <1>2
<1>4. \A i \in fits : (\A j \in fits : i <= j) => i = r
  BY <1>2, <1>3
<1>5. (CHOOSE i \in fits : \A j \in fits : i <= j) = r
  <2> HIDE DEF fits
  <2> QED BY Zenon, <1>3, <1>4
<1> QED BY <1>3, <1>5 DEF search_rightmost_unset

\* smm_init fills slot 0 and register 0 of the empty table.
LEMMA MonitorAllocated ==
    ASSUME EmptyTable, region_id = [sm |-> 0, os |-> 0],
           pmp_region_init_atomic(SMM_BASE, SMM_SIZE, "TOP", FALSE, get_free_region_idx),
           region_id' = [region_id EXCEPT !.sm = get_free_region_idx]
    PROVE  MonitorTable'
<1> DEFINE f == first_reg(SMM_BASE, SMM_SIZE, "TOP")
           l == last_reg(SMM_BASE, SMM_SIZE, "TOP")
<1>0. PMP_MAX_N_REGION \in Nat /\ PMP_MAX_N_REGION >= 2
  BY PMPAssumption
<1>1. get_free_region_idx = 0
  BY <1>0, FirstUnset DEF EmptyTable, get_free_region_idx
<1>2. f # -1
  BY DEF pmp_region_init_atomic, pmp_region_can_init
<1>3. f = 0 /\ Placed
  BY <1>2 DEF first_reg, napot_reg, tor_reg, Placed
<1>4. l = 0
  BY <1>3 DEF last_reg
<1>5. /\ regions' = [regions EXCEPT ![0] = MonitorRegion]
      /\ region_def_bitmap' = {} \cup {0}
      /\ reg_bitmap' = {} \cup (0 .. 0)
  BY Zenon, <1>1, <1>3, <1>4 DEF pmp_region_init_atomic, MonitorRegion, EmptyTable
<1>6. regions' = [i \in RegionIds |-> IF i = 0 THEN MonitorRegion ELSE ClearedRegion]
  BY Zenon, <1>0, <1>5 DEF EmptyTable, RegionIds
<1>7. region_id'.sm = 0 /\ region_id'.os = 0
  BY <1>1
<1>8. {} \cup {0} = {0} /\ {} \cup (0 .. 0) = {0}
  OBVIOUS
<1> QED BY Zenon, <1>3, <1>5, <1>6, <1>7, <1>8 DEF MonitorTable

\* osm_init fills slot 1 and the bottom register, and the table is complete.
LEMMA OsAllocated ==
    ASSUME MonitorTable, region_id = [sm |-> region_id.sm, os |-> region_id.os],
           pmp_region_init_atomic(0, MAXUL, "BOTTOM", TRUE, get_free_region_idx),
           region_id' = [region_id EXCEPT !.os = get_free_region_idx]
    PROVE  PMPInit' /\ BootIds'
<1>0. PMP_MAX_N_REGION \in Nat /\ PMP_MAX_N_REGION >= 2 /\ PMP_N_REG \in Nat /\ PMP_N_REG >= 2
  BY PMPAssumption
<1>1. get_free_region_idx = 1
  <2>1. 1 \in 0 .. PMP_MAX_N_REGION - 1 /\ 1 \notin {0} /\ \A j \in 0 .. 1 - 1 : j \in {0}
    BY <1>0
  <2>2. search_rightmost_unset({0}, PMP_MAX_N_REGION, 1) = 1
    BY <1>0, <2>1, FirstUnset
  <2> QED BY <2>2 DEF MonitorTable, get_free_region_idx
<1>2. is_napot(0, MAXUL)
  BY DEF is_napot
<1>3. first_reg(0, MAXUL, "BOTTOM") = Bottom /\ last_reg(0, MAXUL, "BOTTOM") = Bottom
  BY <1>2 DEF first_reg, last_reg, napot_reg
<1>4. /\ regions' = [regions EXCEPT ![1] = [addr |-> 0, size |-> MAXUL, addrmode |-> "NAPOT",
                                            allow_overlap |-> TRUE, reg_idx |-> Bottom]]
      /\ region_def_bitmap' = {0} \cup {1}
      /\ reg_bitmap' = {0} \cup (Bottom .. Bottom)
  BY Zenon, <1>1, <1>2, <1>3 DEF pmp_region_init_atomic, MonitorTable
<1>5. regions' = BootRegions
  <2>1. regions' = [i \in RegionIds |->
                      IF i = 1 THEN [addr |-> 0, size |-> MAXUL, addrmode |-> "NAPOT",
                                     allow_overlap |-> TRUE, reg_idx |-> Bottom]
                      ELSE IF i = 0 THEN MonitorRegion ELSE ClearedRegion]
    BY Zenon, <1>4 DEF MonitorTable
  <2> QED BY <2>1 DEF MonitorRegion, BootRegions, sm_region_id, os_region_id
<1>6. Bottom .. Bottom = {Bottom}
  BY <1>0 DEF Bottom
<1>7. BootIds'
  BY <1>1 DEF BootIds, MonitorTable
<1>8. region_def_bitmap' = {0, 1} /\ reg_bitmap' = {0, Bottom}
  BY <1>4, <1>6
<1> QED BY <1>5, <1>7, <1>8 DEF PMPInit, sm_region_id, os_region_id

(***************************************************************************)
(* The register file that every hart ends up with.                         *)
(***************************************************************************)
\* pmp_set_keystone of the two boot regions on a cleared file.
LEMMA FilesSet ==
    ASSUME PMPInit, Placed
    PROVE  /\ pmp_set_keystone(pmp_init, 0, FALSE) = MonitorFile
           /\ pmp_set_keystone(MonitorFile, 1, TRUE) = OsFile
<1>0. /\ PMP_N_REG \in Nat /\ PMP_N_REG >= 2 /\ 0 \in RegionIds /\ 1 \in RegionIds
      /\ MAXUL \in Nat /\ SMM_BASE \in Nat /\ SMM_SIZE \in Nat /\ SMM_SIZE < MAXUL
  BY PMPAssumption, BootAssumption DEF RegionIds
<1>1. /\ is_pmp_region_valid(0) /\ is_pmp_region_valid(1)
      /\ regions[0] = MonitorRegion
      /\ regions[1] = [addr |-> 0, size |-> MAXUL, addrmode |-> "NAPOT",
                       allow_overlap |-> TRUE, reg_idx |-> Bottom]
  BY <1>0 DEF PMPInit, BootRegions, MonitorRegion, is_pmp_region_valid, sm_region_id, os_region_id
<1>2. ~region_needs_two_entries(0) /\ ~region_needs_two_entries(1)
  BY SMTT(30), <1>1 DEF region_needs_two_entries, MonitorRegion
<1>3. region_end(0) = SMM_BASE + SMM_SIZE /\ region_end(1) = MAXUL + 1
  BY <1>0, <1>1 DEF region_end, MonitorRegion
<1>4. pmp_set_keystone(pmp_init, 0, FALSE) = MonitorFile
  <2>1. pmp_set_keystone(pmp_init, 0, FALSE) =
          [n \in RegIds |-> IF n = 0 THEN MonitorReg ELSE pmp_init[n]]
    <3>1. /\ regions[0].reg_idx = 0 /\ regions[0].addr = SMM_BASE
          /\ regions[0].addrmode = IF is_napot(SMM_BASE, SMM_SIZE) THEN "NAPOT" ELSE "TOR"
      BY <1>1 DEF MonitorRegion
    <3>2. regions[0].addrmode = "NAPOT" <=> is_napot(SMM_BASE, SMM_SIZE)
      BY SMTT(30), <3>1
    <3>3. [mode |-> regions[0].addrmode, hi |-> region_end(0), perm |-> FALSE,
           lo |-> IF regions[0].addrmode = "NAPOT" THEN regions[0].addr ELSE 0] = MonitorReg
      <4>1. CASE is_napot(SMM_BASE, SMM_SIZE)
        BY Zenon, <4>1, <3>1, <1>3 DEF MonitorReg
      <4>2. CASE ~is_napot(SMM_BASE, SMM_SIZE)
        BY Zenon, <4>2, <3>1, <1>3 DEF MonitorReg
      <4> QED BY <4>1, <4>2
    <3> QED BY Zenon, <1>1, <1>2, <3>1, <3>3 DEF pmp_set_keystone
  <2> QED BY Zenon, <2>1 DEF MonitorFile, pmp_init
<1>5. pmp_set_keystone(MonitorFile, 1, TRUE) = OsFile
  <2>1. regions[1].reg_idx = Bottom /\ regions[1].addrmode = "NAPOT" /\ regions[1].addr = 0
    BY <1>1
  <2>2. [mode |-> regions[1].addrmode, hi |-> region_end(1), perm |-> TRUE,
         lo |-> IF regions[1].addrmode = "NAPOT" THEN regions[1].addr ELSE 0] = OsReg
    BY Zenon, <1>3, <2>1 DEF OsReg
  <2> QED BY Zenon, <1>1, <1>2, <2>1, <2>2 DEF pmp_set_keystone, OsFile
<1> QED BY Zenon, <1>4, <1>5

\* With that file the first register denies the monitor's memory and the last
\* one allows the rest.
LEMMA OsFileGuards ==
    ASSUME Placed, NEW a \in Word
    PROVE  pmp_allows(OsFile, a) <=> a \notin SMM_BASE .. SMM_BASE + SMM_SIZE - 1
<1>0. /\ PMP_N_REG \in Nat /\ PMP_N_REG >= 2
      /\ MAXUL \in Nat /\ SMM_BASE \in Nat /\ SMM_SIZE \in Nat
      /\ a \in Nat /\ a < MAXUL + 1
  BY PMPAssumption DEF Word
<1>1. /\ 0 \in RegIds /\ Bottom \in RegIds /\ Bottom # 0 /\ Bottom \in Nat
      /\ \A n \in RegIds : n \in Nat
  BY <1>0 DEF RegIds, Bottom
<1>2. /\ OsFile[0] = MonitorReg /\ OsFile[Bottom] = OsReg
      /\ \A n \in RegIds : n # 0 /\ n # Bottom => OsFile[n] = UnsetReg
  BY <1>1 DEF OsFile, MonitorFile
<1>3. pmp_matches(OsFile, 0, a) <=> a \in SMM_BASE .. SMM_BASE + SMM_SIZE - 1
  <2>1. CASE is_napot(SMM_BASE, SMM_SIZE)
    BY SMTT(30), <2>1, <1>0, <1>2 DEF pmp_matches, MonitorReg
  <2>2. CASE ~is_napot(SMM_BASE, SMM_SIZE)
    <3>1. SMM_BASE = 0
      BY <2>2 DEF Placed
    <3>2. OsFile[0].mode = "TOR" /\ OsFile[0].hi = SMM_BASE + SMM_SIZE
      BY <2>2, <1>2 DEF MonitorReg
    <3>3. pmp_matches(OsFile, 0, a) <=> a < SMM_BASE + SMM_SIZE
      BY <3>2 DEF pmp_matches
    <3> QED BY <3>1, <3>3, <1>0
  <2> QED BY <2>1, <2>2
<1>4. pmp_matches(OsFile, Bottom, a) /\ OsFile[Bottom].perm /\ ~OsFile[0].perm
  <2>1. /\ OsFile[Bottom].mode = "NAPOT" /\ OsFile[Bottom].lo = 0
        /\ OsFile[Bottom].hi = MAXUL + 1 /\ OsFile[Bottom].perm /\ ~OsFile[0].perm
    BY <1>2 DEF OsReg, MonitorReg
  <2> QED BY SMTT(30), <1>0, <2>1 DEF pmp_matches
<1>5. ASSUME NEW n \in RegIds, n # 0, n # Bottom PROVE ~pmp_matches(OsFile, n, a)
  <2>1. OsFile[n].mode = "OFF"
    BY <1>2, <1>5 DEF UnsetReg
  <2> QED BY <2>1 DEF pmp_matches
<1>6. 0 \in 0 .. Bottom - 1 /\ 0 .. Bottom - 1 \subseteq RegIds \ {Bottom}
  BY <1>0 DEF RegIds, Bottom
<1> HIDE DEF Bottom
<1>7. pmp_allows(OsFile, a) <=> \A m \in 0 .. Bottom - 1 : ~pmp_matches(OsFile, m, a)
  BY <1>1, <1>4, <1>5 DEF pmp_allows
<1> QED BY SMTT(30), <1>3, <1>5, <1>6, <1>7

(***************************************************************************)
(* The invariant is inductive.                                             *)
(***************************************************************************)
\* At power-on nothing is set up.
LEMMA BootInitInv == BootInit => BootInv
BY Zenon DEF BootInit, BootInv, BootTypeOK, OneCold, TableSoFar, FilesSoFar, EmptyTable, Locations,
       Cold, Ready

\* A step that writes no table, flag or register file, from and to a place of
\* the boot ROM or the wait.
LEMMA QuietKeeps ==
    ASSUME BootInv, NEW h \in Harts,
           NEW from \in {"reset", "bootloader", "loop", "boot", "wait"},
           NEW to \in {"bootloader", "loop", "boot", "wait", "pmp_init"},
           to = "pmp_init" => sm_init_done,
           Goto(h, from, to),
           coldboot' \in {coldboot, TRUE},
           UNCHANGED <<pmpVars, sm_init_done, region_id, pmpcfg>>
    PROVE  BootInv'
<1> USE DEF BootInv, Goto, pmpVars
<1>1. BootTypeOK'
  BY Zenon DEF BootTypeOK, Locations, Cold, Ready
<1>2. \A g \in Harts : pc'[g] = IF g = h THEN to ELSE pc[g]
  BY DEF BootTypeOK
<1>3. OneCold'
  BY Zenon, <1>2 DEF OneCold, Cold, BootTypeOK
<1>4. EmptyTable' = EmptyTable /\ MonitorTable' = MonitorTable /\ PMPInit' = PMPInit
      /\ BootIds' = BootIds
  BY DEF EmptyTable, MonitorTable, PMPInit, BootIds
<1>5. ~AllUp
  BY DEF AllUp
<1>6. TableSoFar'
  BY Zenon, <1>2, <1>4, <1>5 DEF TableSoFar, BootTypeOK
<1>7. FilesSoFar'
  BY <1>2 DEF FilesSoFar, Ready
<1> QED BY <1>1, <1>3, <1>6, <1>7

\* A step of the cold hart, which leaves the other harts outside of Cold.
LEMMA ColdKeeps ==
    ASSUME BootInv, NEW h \in Harts, pc[h] \in Cold,
           NEW to \in Cold \cup {"wait"}, pc' = [pc EXCEPT ![h] = to],
           UNCHANGED <<coldboot, pmpcfg>>,
           sm_init_done' \in BOOLEAN, sm_init_done' <=> to = "wait",
           region_id' = [sm |-> region_id'.sm, os |-> region_id'.os],
           to # "smm_init",
           to = "osm_init" => MonitorTable',
           to = "init_done" => PMPInit' /\ BootIds' /\ Placed,
           to = "wait" => PMPInit' /\ BootIds' /\ Placed
    PROVE  BootInv'
<1> USE DEF BootInv
<1>1. BootTypeOK'
  BY DEF BootTypeOK, Locations, Cold, Ready
<1>2. \A g \in Harts : pc'[g] = IF g = h THEN to ELSE pc[g]
  BY SMTT(30) DEF BootTypeOK
<1>3. coldboot /\ coldboot' /\ ~sm_init_done /\ \A g \in Harts \ {h} : pc'[g] \notin Cold
  BY SMTT(30), <1>2 DEF OneCold
<1>4. OneCold'
  BY SMTT(30), <1>2, <1>3 DEF OneCold, Cold
<1>5. TableSoFar'
  BY SMTT(30), <1>2, <1>3 DEF TableSoFar, Cold
<1>6. FilesSoFar'
  BY <1>2, <1>3 DEF FilesSoFar, Ready, Cold
<1> QED BY SMTT(30), <1>1, <1>4, <1>5, <1>6

\* A step that writes a hart's registers.
LEMMA FileKeeps ==
    ASSUME BootInv, NEW h \in Harts, NEW from \in Ready \ {"os"}, NEW to \in Ready \ {"pmp_init"},
           NEW file, SetFile(h, from, to, file),
           to = "set_sm" => file = pmp_init,
           to = "set_os" => file = MonitorFile,
           to = "os" => file = OsFile
    PROVE  BootInv'
<1> USE DEF BootInv, SetFile, Goto, pmpVars
<1>1. BootTypeOK'
  BY DEF BootTypeOK, Locations, Cold, Ready
<1>2. /\ \A g \in Harts : pc'[g] = IF g = h THEN to ELSE pc[g]
      /\ \A g \in Harts : pmpcfg'[g] = IF g = h THEN file ELSE pmpcfg[g]
  BY SMTT(30) DEF BootTypeOK
<1>3. OneCold'
  BY SMTT(30), <1>2 DEF OneCold, Cold, Ready, BootTypeOK
<1>4. EmptyTable' = EmptyTable /\ MonitorTable' = MonitorTable /\ PMPInit' = PMPInit
      /\ BootIds' = BootIds
  BY DEF EmptyTable, MonitorTable, PMPInit, BootIds
<1>5. ~AllUp
  BY SMTT(30) DEF AllUp, Ready
<1>6. TableSoFar'
  BY SMTT(30), <1>2, <1>4, <1>5 DEF TableSoFar, BootTypeOK, Ready
<1>7. FilesSoFar'
  <2>1. sm_init_done'
    BY Zenon DEF FilesSoFar
  <2> QED BY SMTT(30), <1>2, <2>1 DEF FilesSoFar, Ready
<1> QED BY SMTT(30), <1>1, <1>3, <1>6, <1>7

\* Every step of the boot keeps the invariant.
LEMMA BootStepInv ==
    ASSUME BootInv, [BootNext]_vars
    PROVE  BootInv'
<1>1. ASSUME NEW h \in Harts, reset(h) PROVE BootInv'
  BY Zenon, <1>1, QuietKeeps DEF reset, Goto
<1>2. ASSUME NEW h \in Harts, bootloader(h) PROVE BootInv'
  BY <1>2, QuietKeeps DEF bootloader
<1>3. ASSUME NEW h \in Harts, loop(h) PROVE BootInv'
  BY <1>3, QuietKeeps DEF loop
<1>4. ASSUME NEW h \in Harts, sbi_init(h) PROVE BootInv'
  <2>1. CASE coldboot
    BY <1>4, <2>1, QuietKeeps DEF sbi_init
  <2>2. CASE ~coldboot
    <3> USE DEF BootInv
    <3>1. /\ pc' = [pc EXCEPT ![h] = "smm_init"] /\ coldboot' = TRUE
          /\ UNCHANGED <<regions, region_def_bitmap, reg_bitmap, sm_init_done, region_id, pmpcfg>>
      BY <1>4, <2>2 DEF sbi_init, Goto, pmpVars
    <3>2. \A g \in Harts : pc'[g] = IF g = h THEN "smm_init" ELSE pc[g]
      BY <3>1 DEF BootTypeOK
    <3>3. ~sm_init_done /\ EmptyTable' /\ region_id' = [sm |-> 0, os |-> 0]
          /\ \A g \in Harts : pc[g] \notin Cold
      BY <2>2, <3>1 DEF OneCold, TableSoFar, EmptyTable
    <3>4. BootTypeOK'
      BY <3>1 DEF BootTypeOK, Locations, Cold
    <3>5. OneCold'
      BY SMTT(30), <3>1, <3>2, <3>3 DEF OneCold
    <3>6. TableSoFar'
      BY SMTT(30), <3>1, <3>2, <3>3 DEF TableSoFar, Cold
    <3>7. FilesSoFar'
      BY <3>1, <3>2 DEF FilesSoFar, Ready
    <3> QED BY <3>4, <3>5, <3>6, <3>7
  <2> QED BY <2>1, <2>2
<1>5. ASSUME NEW h \in Harts, smm_init(h) PROVE BootInv'
  <2>0. /\ pc[h] = "smm_init" /\ EmptyTable /\ region_id = [sm |-> 0, os |-> 0] /\ ~sm_init_done
        /\ pc[h] \in Cold /\ UNCHANGED <<coldboot, pmpcfg, sm_init_done>>
        /\ ~sm_init_done' /\ sm_init_done' \in BOOLEAN
    BY Zenon, <1>5 DEF smm_init, Goto, BootInv, BootTypeOK, TableSoFar, OneCold, Cold
  <2>1. CASE pmp_region_can_init(SMM_BASE, SMM_SIZE, "TOP", FALSE)
    <3>0. pc' = [pc EXCEPT ![h] = "osm_init"] /\ "osm_init" \in Cold \cup {"wait"}
      BY <1>5, <2>1 DEF smm_init, Goto, Cold
    <3>1. /\ pmp_region_init_atomic(SMM_BASE, SMM_SIZE, "TOP", FALSE, get_free_region_idx)
          /\ region_id' = [region_id EXCEPT !.sm = get_free_region_idx]
      BY Zenon, <1>5, <2>1 DEF smm_init
    <3>2. MonitorTable'
      BY <2>0, <3>1, MonitorAllocated
    <3>3. region_id' = [sm |-> region_id'.sm, os |-> region_id'.os]
      BY <2>0, <3>1
    <3> QED BY Zenon, <2>0, <3>0, <3>2, <3>3, ColdKeeps
  <2>2. CASE ~pmp_region_can_init(SMM_BASE, SMM_SIZE, "TOP", FALSE)
    BY <1>5, <2>0, <2>2, ColdKeeps DEF smm_init, Goto, Cold
  <2> QED BY Zenon, <2>1, <2>2
<1>6. ASSUME NEW h \in Harts, osm_init(h) PROVE BootInv'
  <2>0. /\ pc[h] = "osm_init" /\ MonitorTable /\ Placed /\ ~sm_init_done
        /\ region_id = [sm |-> region_id.sm, os |-> region_id.os]
        /\ pc[h] \in Cold /\ UNCHANGED <<coldboot, pmpcfg, sm_init_done>>
        /\ ~sm_init_done' /\ sm_init_done' \in BOOLEAN
    BY Zenon, <1>6 DEF osm_init, Goto, BootInv, BootTypeOK, TableSoFar, OneCold, Cold, MonitorTable
  <2>1. CASE pmp_region_can_init(0, MAXUL, "BOTTOM", TRUE)
    <3>0. pc' = [pc EXCEPT ![h] = "init_done"] /\ "init_done" \in Cold \cup {"wait"}
      BY <1>6, <2>1 DEF osm_init, Goto, Cold
    <3>1. /\ pmp_region_init_atomic(0, MAXUL, "BOTTOM", TRUE, get_free_region_idx)
          /\ region_id' = [region_id EXCEPT !.os = get_free_region_idx]
      BY Zenon, <1>6, <2>1 DEF osm_init
    <3>2. PMPInit' /\ BootIds'
      BY <2>0, <3>1, OsAllocated
    <3>3. region_id' = [sm |-> region_id'.sm, os |-> region_id'.os]
      BY <3>2 DEF BootIds
    <3> QED BY Zenon, <2>0, <3>0, <3>2, <3>3, ColdKeeps
  <2>2. CASE ~pmp_region_can_init(0, MAXUL, "BOTTOM", TRUE)
    BY <1>6, <2>0, <2>2, ColdKeeps DEF osm_init, Goto, Cold
  <2> QED BY Zenon, <2>1, <2>2
<1>7. ASSUME NEW h \in Harts, init_done(h) PROVE BootInv'
  <2>1. /\ pc[h] \in Cold /\ pc' = [pc EXCEPT ![h] = "wait"] /\ sm_init_done' = TRUE
        /\ UNCHANGED <<regions, region_def_bitmap, reg_bitmap, coldboot, region_id, pmpcfg>>
        /\ PMPInit /\ BootIds /\ Placed /\ region_id = [sm |-> region_id.sm, os |-> region_id.os]
    BY <1>7 DEF init_done, Goto, pmpVars, BootInv, BootTypeOK, TableSoFar, Cold
  <2>2. PMPInit' /\ BootIds'
    BY <2>1 DEF PMPInit, BootIds
  <2> QED BY Zenon, <2>1, <2>2, ColdKeeps
<1>8. ASSUME NEW h \in Harts, wait(h) PROVE BootInv'
  BY <1>8, QuietKeeps DEF wait
<1>9. ASSUME NEW h \in Harts, init_registers(h) PROVE BootInv'
  BY SMTT(30), <1>9, FileKeeps DEF init_registers, Ready
<1>10. ASSUME NEW h \in Harts, pc[h] \in {"set_sm", "set_os"} PROVE PMPInit /\ Placed /\ BootIds
  BY <1>10 DEF BootInv, FilesSoFar, TableSoFar, Ready, AllUp
<1>11. ASSUME NEW h \in Harts, set_sm(h) PROVE BootInv'
  <2>1. pmp_set_keystone(pmpcfg[h], region_id.sm, FALSE) = MonitorFile
    <3>1. pc[h] = "set_sm"
      BY <1>11 DEF set_sm, SetFile, Goto
    <3>2. pmpcfg[h] = pmp_init /\ PMPInit /\ Placed /\ region_id.sm = 0
      BY <1>10, <3>1 DEF BootInv, FilesSoFar, BootIds
    <3> QED BY Zenon, <3>2, FilesSet
  <2> QED BY Zenon, <1>11, <2>1, FileKeeps DEF set_sm, Ready
<1>12. ASSUME NEW h \in Harts, set_os(h) PROVE BootInv'
  <2>1. pmp_set_keystone(pmpcfg[h], region_id.os, TRUE) = OsFile
    <3>1. pc[h] = "set_os"
      BY <1>12 DEF set_os, SetFile, Goto
    <3>2. pmpcfg[h] = MonitorFile /\ PMPInit /\ Placed /\ region_id.os = 1
      BY SMTT(30), <1>10, <3>1 DEF BootInv, FilesSoFar, BootIds
    <3> QED BY Zenon, <3>2, FilesSet
  <2> QED BY Zenon, <1>12, <2>1, FileKeeps DEF set_os, Ready
<1>13. ASSUME AllUp, UNCHANGED bootVars PROVE BootInv'
  <2>1. /\ pc' = pc /\ coldboot' = coldboot /\ sm_init_done' = sm_init_done
        /\ region_id' = region_id /\ pmpcfg' = pmpcfg /\ AllUp'
        /\ \A h \in Harts : pc[h] = "os"
    BY <1>13 DEF bootVars, AllUp
  <2>2. sm_init_done /\ BootIds /\ Placed /\ coldboot
    BY SMTT(30), <2>1, BootAssumption DEF BootInv, FilesSoFar, TableSoFar, OneCold, Ready
  <2> QED BY <2>1, <2>2 DEF BootInv, BootTypeOK, OneCold, TableSoFar, FilesSoFar, BootIds, Cold
<1>14. CASE UNCHANGED vars
  BY <1>14 DEF vars, bootVars, pmpVars, BootInv, BootTypeOK, OneCold, TableSoFar, FilesSoFar,
               EmptyTable, MonitorTable, PMPInit, BootIds, AllUp
<1> QED BY SMTT(30), <1>1, <1>2, <1>3, <1>4, <1>5, <1>6, <1>7, <1>8, <1>9, <1>11, <1>12, <1>13, <1>14
        DEF BootNext, Step

\* For every number of harts and registers: a hart that the OS may run on denies
\* it the monitor's memory and allows it all other memory, whichever hart boots
\* cold and in whatever order the harts go through sm_init.
THEOREM BootGuardsMonitor == BootSpec => []MonitorGuarded
<1>1. BootInv => MonitorGuarded
  <2> SUFFICES ASSUME BootInv, NEW h \in Harts, pc[h] = "os", NEW a \in Word
               PROVE  pmp_allows(pmpcfg[h], a) <=> a \notin SMM_BASE .. SMM_BASE + SMM_SIZE - 1
    BY SMTT(30) DEF MonitorGuarded
  <2>1. pmpcfg[h] = OsFile /\ Placed
    BY DEF BootInv, FilesSoFar, TableSoFar, Ready
  <2> QED BY <2>1, OsFileGuards
<1>2. BootInv /\ [BootNext]_vars => BootInv'
  BY BootStepInv
<1> QED BY <1>1, <1>2, BootInitInv, PTL DEF BootSpec

(***************************************************************************)
(* The refinement.  The instance Table has its own copies of the operators *)
(* of module PMP, which agree with them once the table is published.       *)
(***************************************************************************)
\* The table that module PMP starts from is the one of the instance.
LEMMA TableBoot == Table!BootRegions = BootRegions
BY DEF Table!BootRegions, BootRegions, Table!RegionIds, RegionIds, Table!sm_region_id, sm_region_id,
       Table!os_region_id, os_region_id, Table!is_napot, is_napot, Table!IsPowerOfTwo, IsPowerOfTwo,
       Table!Bottom, Bottom, Table!ClearedRegion, ClearedRegion

\* The operators of the instance give what those of module PMP give.
LEMMA TableOperators ==
    ASSUME sm_init_done
    PROVE  /\ Table!get_free_region_idx = get_free_region_idx
           /\ \A start, size \in Word : \A priority \in Priorities :
                 /\ Table!pmp_region_can_init(start, size, priority, FALSE)
                      <=> pmp_region_can_init(start, size, priority, FALSE)
                 /\ Table!is_napot(start, size) <=> is_napot(start, size)
                 /\ Table!first_reg(start, size, priority) = first_reg(start, size, priority)
                 /\ Table!last_reg(start, size, priority) = last_reg(start, size, priority)
           /\ \A rid : Table!region_registers(rid) = region_registers(rid)
<1>1. \A b, m, w : Table!search_rightmost_unset(b, m, w) = search_rightmost_unset(b, m, w)
  BY DEF Table!search_rightmost_unset, search_rightmost_unset
<1>2. /\ Table!get_free_region_idx = get_free_region_idx
      /\ Table!get_free_reg_idx = get_free_reg_idx
      /\ Table!get_conseq_free_reg_idx = get_conseq_free_reg_idx
  BY <1>1 DEF Table!get_free_region_idx, get_free_region_idx, Table!get_free_reg_idx,
              get_free_reg_idx, Table!get_conseq_free_reg_idx, get_conseq_free_reg_idx
<1>3. \A start, size : Table!is_napot(start, size) <=> is_napot(start, size)
  BY DEF Table!is_napot, is_napot, Table!IsPowerOfTwo, IsPowerOfTwo
<1>4. \A start, size : Table!detect_region_overlap(start, size) <=> detect_region_overlap(start, size)
  BY DEF Table!detect_region_overlap, detect_region_overlap
<1>5. ASSUME NEW start, NEW size, NEW priority \in Priorities
      PROVE  Table!first_reg(start, size, priority) = first_reg(start, size, priority)
  <2>1. Table!napot_reg(priority) = napot_reg(priority)
    BY <1>2 DEF Table!napot_reg, napot_reg, Table!Bottom, Bottom, Priorities
  <2>2. Table!tor_reg(start, priority) = tor_reg(start, priority)
    BY <1>2 DEF Table!tor_reg, tor_reg, Priorities
  <2> QED BY <1>3, <2>1, <2>2 DEF Table!first_reg, first_reg
<1>6. ASSUME NEW start, NEW size, NEW priority \in Priorities
      PROVE  Table!last_reg(start, size, priority) = last_reg(start, size, priority)
  BY SMTT(30), <1>3, <1>5 DEF Table!last_reg, last_reg
<1>7. ASSUME NEW start, NEW size, NEW priority \in Priorities
      PROVE  Table!pmp_region_can_init(start, size, priority, FALSE)
               <=> pmp_region_can_init(start, size, priority, FALSE)
  BY SMTT(30), <1>2, <1>4, <1>5 DEF Table!pmp_region_can_init, pmp_region_can_init
<1>8. \A rid : Table!region_registers(rid) = region_registers(rid)
  BY DEF Table!region_registers, region_registers, Table!region_needs_two_entries,
         region_needs_two_entries
<1> QED BY Zenon, <1>2, <1>3, <1>5, <1>6, <1>7, <1>8

\* A step on the published table is one of the instance.
LEMMA TableStep ==
    ASSUME sm_init_done, sm_init_done', PMPNext
    PROVE  Table!PMPNext
<1>1. ASSUME NEW start \in Word, NEW size \in Word, NEW priority \in {"ANY", "BOTTOM"},
             pmp_region_init_atomic(start, size, priority, FALSE, get_free_region_idx)
      PROVE  Table!pmp_region_init_atomic(start, size, priority, FALSE, Table!get_free_region_idx)
  BY Zenon, <1>1, TableOperators DEF Table!pmp_region_init_atomic, pmp_region_init_atomic, Priorities
<1>2. ASSUME NEW rid \in RegionIds, Free(rid) PROVE Table!Free(rid)
  BY <1>2, TableOperators DEF Table!Free, Free, Table!pmp_region_free_atomic,
     pmp_region_free_atomic, Table!is_pmp_region_valid, is_pmp_region_valid,
     Table!sm_region_id, sm_region_id, Table!os_region_id, os_region_id,
     Table!ClearedRegion, ClearedRegion, Table!pmpVars, pmpVars
<1> QED BY Zenon, <1>1, <1>2 DEF PMPNext, Table!PMPNext, AllocPrivate, AllocShared, Table!AllocPrivate,
           Table!AllocShared, Table!Word, Word, Table!RegionIds, RegionIds

\* For every number of harts, registers and slots: what the harts do implements
\* the specification of the region table, of which BootSpec publishes the first
\* state with sm_init_done (smm_init, osm_init) and then takes only its steps.
THEOREM BootImplementsTable == BootSpec => ImplementsTable
<1>1. BootInit => Table!PMPInit
  BY SMTT(30), TableBoot DEF BootInit, Table!PMPInit, Table!sm_region_id, sm_region_id, Table!os_region_id,
                   os_region_id, Table!Bottom, Bottom
<1>2. ASSUME BootInv, [BootNext]_vars
      PROVE  [Table!PMPNext]_(Table!pmpVars)
  <2>1. CASE AllUp /\ PMPNext /\ UNCHANGED bootVars
    <3>1. sm_init_done /\ sm_init_done'
      BY SMTT(30), <1>2, <2>1, BootAssumption DEF AllUp, bootVars, BootInv, FilesSoFar, Ready
    <3> QED BY <2>1, <3>1, TableStep
  <2>2. CASE UNCHANGED <<pmpVars, sm_init_done>>
    BY <2>2 DEF pmpVars, Table!pmpVars, BootRegions
  <2>3. CASE \E h \in Harts : smm_init(h) \/ osm_init(h)
    <3>1. PICK h \in Harts : smm_init(h) \/ osm_init(h)
      BY <2>3
    <3>2. pc[h] \in Cold /\ sm_init_done' = sm_init_done
      BY Zenon, <3>1 DEF smm_init, osm_init, Goto, Cold
    <3>3. ~sm_init_done /\ ~sm_init_done'
      BY <1>2, <3>2 DEF BootInv, OneCold
    <3> QED BY <3>3 DEF Table!pmpVars
  <2>4. CASE \E h \in Harts : init_done(h)
    <3>1. ~sm_init_done /\ sm_init_done' /\ PMPInit /\ UNCHANGED pmpVars
      BY <1>2, <2>4 DEF init_done, Goto, BootInv, OneCold, TableSoFar, Cold
    <3> QED BY <3>1 DEF Table!pmpVars, pmpVars, PMPInit
  <2> QED BY Zenon, <1>2, <2>1, <2>2, <2>3, <2>4
          DEF BootNext, Step, vars, bootVars, reset, bootloader, loop, sbi_init, wait,
              init_registers, set_sm, set_os, SetFile
<1> QED BY <1>1, <1>2, BootInitInv, BootStepInv, PTL DEF BootSpec, ImplementsTable, Table!PMPSpec
=============================================================================
