------------------------------- MODULE MCHost -------------------------------
(***************************************************************************)
(* Instances of what the host meets when it runs enclaves, for TLC: the    *)
(* driver and its clients, the execution of an enclave on a hart, the      *)
(* files it is loaded from, and the copies, traps and kernel mappings      *)
(* below it.  They share no state, so one of them runs in a behaviour.     *)
(*                                                                         *)
(* Two clients with three objects let an id and an object be reused while  *)
(* another process holds both; two values and two places per program tell  *)
(* the contexts of both sides apart; the sizes of files are those at which *)
(* a header of either class fits, and offsets reach past every end and     *)
(* wrap.  Copies have words of four bytes and blocks of two words, at      *)
(* buffers of three alignments, with lengths around each of these sizes;   *)
(* the kernel stack holds two nested contexts with the functions between   *)
(* them; a page table has four entries, and ranges are below, at and       *)
(* above the size of a megapage and a gigapage.                            *)
(***************************************************************************)
EXTENDS Driver, Thread, Elf, Copies, Traps, KernelMap

CONSTANTS c1, c2, o1, o2, o3

MCClients == {c1, c2}
MCObjs == {o1, o2, o3}
MCUeids == 33 .. 37
MCValues == {5, 6}
MCHostPcs == {100, 200}
MCEnclavePcs == {1000, 2000}

Symmetry == Permutations(MCClients) \cup Permutations(MCObjs)

MCHoles == {{}, 32 .. 39, 44 .. 47}

Others == <<threadVars, elf, copy, trap, kmap>>

\* At most one of the machines beside the driver leaves its idle state.
HostInit ==
    /\ Init
    /\ \/ ThreadIdle /\ ElfIdle /\ CopyIdle /\ TrapIdle /\ MapIdle
       \/ ThreadStart /\ ElfIdle /\ CopyIdle /\ TrapIdle /\ MapIdle
       \/ ThreadIdle /\ ElfStart /\ CopyIdle /\ TrapIdle /\ MapIdle
       \/ ThreadIdle /\ ElfIdle /\ CopyStart /\ TrapIdle /\ MapIdle
       \/ ThreadIdle /\ ElfIdle /\ CopyIdle /\ TrapStart /\ MapIdle
       \/ ThreadIdle /\ ElfIdle /\ CopyIdle /\ TrapIdle /\ MapStart

AllIdle == world = "none" /\ elf.at = "none" /\ copy.op = "none" /\ trap.at = "none" /\ kmap.at = "none"

HostNext ==
    \/ AllIdle /\ Next /\ UNCHANGED Others
    \/ world # "none" /\ ThreadNext /\ UNCHANGED <<vars, elf, copy, trap, kmap>>
    \/ elf.at # "none" /\ ElfNext /\ UNCHANGED <<vars, threadVars, copy, trap, kmap>>
    \/ copy.op # "none" /\ CopyNext /\ UNCHANGED <<vars, threadVars, elf, trap, kmap>>
    \/ trap.at # "none" /\ TrapNext /\ UNCHANGED <<vars, threadVars, elf, copy, kmap>>
    \/ kmap.at # "none" /\ MapNext /\ UNCHANGED <<vars, threadVars, elf, copy, trap>>

HostSpec == HostInit /\ [][HostNext]_<<vars, Others>>
=============================================================================
