--------------------------- MODULE IdealEnclaves ---------------------------
(***************************************************************************)
(* What the security monitor promises, with no harts, no PMP and no IPIs:  *)
(* memory is divided between the OS and the enclaves, every operation is   *)
(* atomic, and a page that is private to an enclave changes only because   *)
(* that enclave runs or is erased.  Module Enclave implements it.          *)
(***************************************************************************)
CONSTANTS Eids, Pages, Zeros, OsData

VARIABLES
    life,       \* life[e]: "none", "fresh", "running", "stopped" or "dying"
    private,    \* private[e]: the pages only e may access
    measured,   \* measured[e]: the pages e was measured over and what they held
    data        \* data[p]: what page p holds

ideal == <<life, private, measured, data>>

Init ==
    /\ life = [e \in Eids |-> "none"]
    /\ private = [e \in Eids |-> {}]
    /\ measured = [e \in Eids |-> [p \in {} |-> Zeros]]
    /\ data = [p \in Pages |-> Zeros]

OsPages == {p \in Pages : \A e \in Eids : p \notin private[e]}

Become(e, from, to) == life[e] \in from /\ life' = [life EXCEPT ![e] = to]

\* The pages leave the OS at the moment they are measured.
Create(e) ==
    /\ Become(e, {"none"}, "fresh")
    /\ private'[e] \subseteq OsPages /\ DOMAIN measured'[e] \subseteq private'[e]
    /\ private' = [private EXCEPT ![e] = private'[e]]
    /\ measured' = [measured EXCEPT ![e] = [p \in DOMAIN measured'[e] |-> data[p]]]
    /\ UNCHANGED data

\* An enclave starts from exactly what was measured.
Run(e) ==
    /\ Become(e, {"fresh"}, "running")
    /\ measured[e] = [p \in DOMAIN measured[e] |-> data[p]]
    /\ UNCHANGED <<private, measured, data>>

Stop(e) == Become(e, {"running"}, "stopped") /\ UNCHANGED <<private, measured, data>>
Resume(e) == Become(e, {"stopped"}, "running") /\ UNCHANGED <<private, measured, data>>
Destroy(e) == Become(e, {"fresh", "stopped"}, "dying") /\ UNCHANGED <<private, measured, data>>

\* The pages return to the OS at the moment they are erased.
Erase(e) ==
    /\ life[e] = "dying"
    /\ data' = [p \in Pages |-> IF p \in private[e] THEN Zeros ELSE data[p]]
    /\ private' = [private EXCEPT ![e] = {}]
    /\ UNCHANGED <<life, measured>>

Release(e) ==
    /\ private[e] = {}
    /\ Become(e, {"dying"}, "none")
    /\ UNCHANGED <<private, measured, data>>

\* The enclave changes its private pages, only while it runs.
EnclaveWrites(e) ==
    /\ life[e] = "running"
    /\ \E p \in private[e] : data' = [data EXCEPT ![p] = e]
    /\ UNCHANGED <<life, private, measured>>

\* The OS, or the monitor clearing a shared buffer, changes pages of the OS.
OsWrites ==
    /\ \E d \in {Zeros, OsData} :
          data' = [p \in Pages |-> IF p \in OsPages /\ data'[p] = d THEN d ELSE data[p]]
    /\ UNCHANGED <<life, private, measured>>

Next ==
    \/ \E e \in Eids : \/ Create(e) \/ Run(e) \/ Stop(e) \/ Resume(e) \/ Destroy(e)
                       \/ Erase(e) \/ Release(e) \/ EnclaveWrites(e)
    \/ OsWrites

Spec == Init /\ [][Next]_ideal
=============================================================================
