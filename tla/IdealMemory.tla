---------------------------- MODULE IdealMemory ----------------------------
(***************************************************************************)
(* What the runtime promises its application about memory: an array of     *)
(* pages that changes only as the application's own stores and system      *)
(* calls say, with no frames, no backing store and no evictions.  Module   *)
(* Paging implements it.                                                   *)
(***************************************************************************)
EXTENDS Integers

CONSTANTS Vpns, Contents, Zeros, Prots, Unmapped, Idle

VARIABLES
    mem,        \* mem[v]: Unmapped, or what the page holds and its protection
    job,        \* the instruction or system call in progress
    alive       \* the enclave has not been ended by its runtime

ideal == <<mem, job, alive>>

Page(d, prot) == [data |-> d, prot |-> prot]

Init ==
    /\ alive = TRUE
    /\ mem \in [Vpns -> {Page(d, prot) : d \in Contents, prot \in Prots} \cup {Unmapped}]
    /\ job.op = "stack"

\* The application executes a load, a store or a system call.
Begin == /\ job = Idle /\ job' # Idle /\ UNCHANGED <<mem, alive>>

\* A store changes the page it names, to the value it names.
Store == /\ job.op = "store" /\ job' = Idle
         /\ mem[job.at] # Unmapped /\ mem[job.at].prot = "RW"
         /\ mem' = [mem EXCEPT ![job.at].data = job.data]
         /\ UNCHANGED alive

\* Anything else that completes leaves memory as it is.
End == /\ job.op # "store" /\ job # Idle /\ job' = Idle /\ UNCHANGED <<mem, alive>>

\* A call that takes a range handles its pages one after the other.
Advance == /\ job.at < job.end /\ job' = [job EXCEPT !.at = @ + 1] /\ UNCHANGED alive

MapPage == /\ job.op \in {"stack", "mmap", "brk"} /\ Advance
           /\ mem[job.at] = Unmapped
           /\ mem' = [mem EXCEPT ![job.at] = Page(Zeros, job.prot)]

\* brk does not look for pages in its way: it shares a page that mmap has
\* placed there, or replaces it.
MapOver == /\ job.op = "brk" /\ Advance
           /\ mem[job.at] # Unmapped
           /\ mem' \in {mem, [mem EXCEPT ![job.at] = Page(Zeros, job.prot)]}

\* munmap skips a page that is not in memory, and mprotect stops at one; only
\* the detailed specification knows which pages those are.
Unmap == /\ job = Idle
         /\ mem' = [v \in Vpns |-> IF mem'[v] = Unmapped THEN Unmapped ELSE mem[v]]
         /\ UNCHANGED <<job, alive>>

Protect == /\ job = Idle
           /\ \E prot \in Prots :
                 mem' = [v \in Vpns |-> IF mem[v] # Unmapped /\ mem'[v].prot = prot
                                        THEN Page(mem[v].data, prot) ELSE mem[v]]
           /\ UNCHANGED <<job, alive>>

Die == /\ alive /\ alive' = FALSE /\ mem' = [v \in Vpns |-> Unmapped] /\ job' = Idle

Next == Begin \/ Store \/ End \/ MapPage \/ MapOver \/ Unmap \/ Protect \/ Die

Spec == Init /\ [][Next]_ideal
=============================================================================
