-------------------------------- MODULE Boot --------------------------------
(***************************************************************************)
(* From reset to the first enclave: the harts run the boot ROM             *)
(* (bootrom/bootloader.S), enter OpenSBI, which picks one of them for the  *)
(* cold boot, and run sm_init (sm/src/sm.c).  The cold hart fills in the   *)
(* region table of module PMP; every hart then writes the two boot regions *)
(* into its own PMP registers.  Once all harts are up, the table is used   *)
(* as module PMP says.                                                     *)
(***************************************************************************)
EXTENDS PMP

CONSTANT Harts  \* the harts, by mhartid

ASSUME BootAssumption == 0 \in Harts /\ SMM_SIZE < MAXUL

VARIABLES
    INIT,           \* the ROM's flag in memory, of any value at power-on
    coldboot,       \* OpenSBI has picked the hart for the cold boot
    sm_init_done,
    region_id,      \* the monitor's variables sm_region_id and os_region_id
    pc,             \* where each hart is
    pmpcfg          \* the PMP registers of each hart

bootVars == <<INIT, coldboot, sm_init_done, region_id, pc, pmpcfg>>
vars == <<pmpVars, bootVars>>

BootInit ==
    /\ regions = [i \in RegionIds |-> ClearedRegion]
    /\ region_def_bitmap = {} /\ reg_bitmap = {}
    /\ INIT \in BOOLEAN
    /\ coldboot = FALSE
    /\ sm_init_done = FALSE
    /\ region_id = [sm |-> 0, os |-> 0]
    /\ pc = [h \in Harts |-> "reset"]
    /\ pmpcfg = [h \in Harts |-> pmp_init]

Goto(h, from, to) == pc[h] = from /\ pc' = [pc EXCEPT ![h] = to]

(***************************************************************************)
(* The boot ROM.  Every hart clears the flag; hart 0 sets it once it has   *)
(* measured the monitor and cleared its stack, and the others wait for it. *)
(***************************************************************************)
reset(h) ==
    /\ Goto(h, "reset", IF h = 0 THEN "bootloader" ELSE "loop")
    /\ INIT' = FALSE
    /\ UNCHANGED <<pmpVars, coldboot, sm_init_done, region_id, pmpcfg>>

\* All harts leave reset together: hart 0 still measures the monitor when the
\* last of them clears the flag.
ResetTogether == \A h \in Harts : pc[h] # "reset"

bootloader(h) ==
    /\ ResetTogether
    /\ Goto(h, "bootloader", "boot")
    /\ INIT' = TRUE
    /\ UNCHANGED <<pmpVars, coldboot, sm_init_done, region_id, pmpcfg>>

loop(h) ==
    /\ Goto(h, "loop", IF INIT THEN "boot" ELSE "loop")
    /\ UNCHANGED <<pmpVars, INIT, coldboot, sm_init_done, region_id, pmpcfg>>

\* OpenSBI: the first hart to arrive boots cold.
sbi_init(h) ==
    /\ Goto(h, "boot", IF coldboot THEN "wait" ELSE "smm_init")
    /\ coldboot' = TRUE
    /\ UNCHANGED <<pmpVars, INIT, sm_init_done, region_id, pmpcfg>>

(***************************************************************************)
(* sm_init on the cold hart.  A region that cannot be had hangs the hart.  *)
(***************************************************************************)
smm_init(h) ==
    /\ IF pmp_region_can_init(SMM_BASE, SMM_SIZE, "TOP", FALSE)
       THEN /\ Goto(h, "smm_init", "osm_init")
            /\ pmp_region_init_atomic(SMM_BASE, SMM_SIZE, "TOP", FALSE, get_free_region_idx)
            /\ region_id' = [region_id EXCEPT !.sm = get_free_region_idx]
       ELSE Goto(h, "smm_init", "hang") /\ UNCHANGED <<pmpVars, region_id>>
    /\ UNCHANGED <<INIT, coldboot, sm_init_done, pmpcfg>>

\* Mutant: the region of the OS gets any free register.
osm_init_any(h) ==
    /\ Goto(h, "osm_init", "init_done")
    /\ pmp_region_init_atomic(0, MAXUL, "ANY", TRUE, get_free_region_idx)
    /\ region_id' = [region_id EXCEPT !.os = get_free_region_idx]
    /\ UNCHANGED <<INIT, coldboot, sm_init_done, pmpcfg>>

osm_init(h) ==
    /\ IF pmp_region_can_init(0, MAXUL, "BOTTOM", TRUE)
       THEN /\ Goto(h, "osm_init", "init_done")
            /\ pmp_region_init_atomic(0, MAXUL, "BOTTOM", TRUE, get_free_region_idx)
            /\ region_id' = [region_id EXCEPT !.os = get_free_region_idx]
       ELSE Goto(h, "osm_init", "hang") /\ UNCHANGED <<pmpVars, region_id>>
    /\ UNCHANGED <<INIT, coldboot, sm_init_done, pmpcfg>>

\* Mutant: the flag is never set.
init_done_unset(h) ==
    /\ Goto(h, "init_done", "wait")
    /\ UNCHANGED <<pmpVars, INIT, coldboot, sm_init_done, region_id, pmpcfg>>

\* The platform, the keys and the enclaves are initialised in between.
init_done(h) ==
    /\ Goto(h, "init_done", "wait")
    /\ sm_init_done' = TRUE
    /\ UNCHANGED <<pmpVars, INIT, coldboot, region_id, pmpcfg>>

(***************************************************************************)
(* sm_init on every hart.                                                  *)
(***************************************************************************)
\* Mutant: the warm harts do not wait for the cold one.
wait_not(h) ==
    /\ Goto(h, "wait", "pmp_init")
    /\ UNCHANGED <<pmpVars, INIT, coldboot, sm_init_done, region_id, pmpcfg>>

wait(h) ==
    /\ Goto(h, "wait", IF sm_init_done THEN "pmp_init" ELSE "wait")
    /\ UNCHANGED <<pmpVars, INIT, coldboot, sm_init_done, region_id, pmpcfg>>

SetFile(h, from, to, file) ==
    /\ Goto(h, from, to)
    /\ pmpcfg' = [pmpcfg EXCEPT ![h] = file]
    /\ UNCHANGED <<pmpVars, INIT, coldboot, sm_init_done, region_id>>

init_registers(h) == SetFile(h, "pmp_init", "set_sm", pmp_init)
set_sm(h) == SetFile(h, "set_sm", "set_os", pmp_set_keystone(pmpcfg[h], region_id.sm, FALSE))
set_os(h) == SetFile(h, "set_os", "os", pmp_set_keystone(pmpcfg[h], region_id.os, TRUE))

Step(h) ==
    \/ reset(h) \/ bootloader(h) \/ loop(h) \/ sbi_init(h)
    \/ smm_init(h) \/ osm_init(h) \/ init_done(h)
    \/ wait(h) \/ init_registers(h) \/ set_sm(h) \/ set_os(h)

\* The OS starts every hart before the driver creates the first enclave.
AllUp == \A h \in Harts : pc[h] = "os"

BootNext ==
    \/ \E h \in Harts : Step(h)
    \/ AllUp /\ PMPNext /\ UNCHANGED bootVars

\* A hart never stops executing.
BootSpec == BootInit /\ [][BootNext]_vars /\ \A h \in Harts : WF_vars(Step(h))

(***************************************************************************)
(* Properties.                                                             *)
(***************************************************************************)
\* A hart on which the OS may run cannot reach the monitor's memory and reaches
\* all other memory, whichever hart booted cold and however far the others are
\* (sm_init: sm_init_done, pmp_set_keystone of the two boot regions).
MonitorGuarded ==
    \A h \in Harts : pc[h] = "os" =>
        \A a \in Word : pmp_allows(pmpcfg[h], a) <=> a \notin SMM_BASE .. SMM_BASE + SMM_SIZE - 1

\* The table that the cold hart publishes with sm_init_done is the one the
\* table's specification starts from, and only that specification's steps
\* change it from then on (smm_init, osm_init).
Table == INSTANCE PMP WITH
    regions <- IF sm_init_done THEN regions ELSE BootRegions,
    region_def_bitmap <- IF sm_init_done THEN region_def_bitmap ELSE {sm_region_id, os_region_id},
    reg_bitmap <- IF sm_init_done THEN reg_bitmap ELSE {0, Bottom}
ImplementsTable == Table!PMPSpec

\* Every hart leaves the boot ROM and sm_init: neither the wait for INIT nor the
\* wait for sm_init_done is for ever (bootloader.S, sm_init).
AllHartsBoot == <>AllUp
=============================================================================
