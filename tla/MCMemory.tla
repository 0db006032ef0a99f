------------------------------ MODULE MCMemory ------------------------------
(***************************************************************************)
(* The memory of an application: small instances of demand paging and of   *)
(* the allocator, of which one takes its steps while the other is as it    *)
(* started.                                                                *)
(*                                                                         *)
(* Paging has three frames, of which the file and the second leaf table    *)
(* take one each, four pages, the last of them where mmap meets the        *)
(* program break, and a backing store that runs out.  The heap has nine    *)
(* words, so that three chunks with their headers fill it, gaps between    *)
(* them are split and joined, and requests fail at the gap before the      *)
(* stack; sizes are none, the least, and one more; one alignment is no     *)
(* power of two.                                                           *)
(***************************************************************************)
EXTENDS Paging, Malloc

CONSTANT x

MCFrames == 1 .. 3
MCElfPages == [v \in {1} |-> 1]
MCStack == <<2, 2>>
MCBackPages == 0 .. 5
MCValues == {x}
MCProtectable == 3 .. 4

MCSizes == {0, 2, 3}
MCAligns == {2, 3}

MCInit == Init /\ HeapInit
MCNext ==
    \/ HeapInit /\ Next /\ UNCHANGED heapVars
    \/ Init /\ HeapNext /\ UNCHANGED vars
MCSpec == MCInit /\ [][MCNext]_<<vars, heapVars>>
=============================================================================
