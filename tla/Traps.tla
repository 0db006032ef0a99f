-------------------------------- MODULE Traps --------------------------------
(***************************************************************************)
(* How the runtime is entered and left (runtime/sys/entry.S): its start,   *)
(* traps of the application, and traps of the runtime itself while it      *)
(* copies to or from pages of the application that are not resident, with  *)
(* the first stack of the application (runtime/sys/env.c).                 *)
(*                                                                         *)
(* The kernel stack grows downwards from KEND; a saved context and the     *)
(* frame of a C function take one place each.  A bank of registers is one  *)
(* value, besides a0, which a system call returns its result in.           *)
(***************************************************************************)
EXTENDS Integers, Sequences, SequencesExt, FiniteSets

CONSTANTS
    KEND,           \* kernel_stack_end
    UserSps,        \* stack pointers of the application (a bound)
    UserPcs,        \* addresses of its code (a bound)
    Banks,          \* values of its registers (a bound)
    MaxDepth,       \* nested C functions below a handler (a bound)
    MaxFaults       \* faults of the runtime in a system call (a bound)

ASSUME TrapsAssumption ==
    /\ KEND > 0 /\ MaxDepth > 0 /\ KEND > 2 * MaxDepth + 3
    /\ \A sp \in UserSps : sp > KEND

VARIABLE trap   \* the hart, the kernel stack, and what was interrupted

(***************************************************************************)
(* The application's first stack.                                          *)
(***************************************************************************)
AUXV_COUNT == 13
SIZE_OF_SETUP == 1 + 1 + 1 + 2 * AUXV_COUNT + 2

\* A program header, as far as it is looked at: is it PT_LOAD with offset 0.
PhdrTables == UNION {[1 .. n -> BOOLEAN] : n \in 0 .. 2}

at_random(sp, i) == sp + i + 3

Fixed == <<"HWCAP", 4397, "SYSINFO", 0, "PAGESZ", 4096, "EXECFN", 0, "SECURE", 0, "RANDOM">>
Ids == <<"GID", 1, "EGID", 1, "UID", 1, "EUID", 1>>

\* The words of the block from its lowest address, sp, upwards.
setup_start(top, phdrs) ==
    LET sp == top - SIZE_OF_SETUP
        first == SelectInSeq(phdrs, LAMBDA load : load)
        Phdr == IF first = 0 THEN <<>> ELSE <<"PHDR", "headers", "PHNUM", Len(phdrs)>>
        i == Len(Fixed) + 1 + Len(Ids) + Len(Phdr) + 2
        auxv == Fixed \o <<at_random(sp, i)>> \o Ids \o Phdr \o <<"NULL", 0>>
        staged == <<0, 0, 0>> \o auxv \o <<"random", "random">>
    IN  [sp |-> sp, words |-> staged \o [w \in 1 .. SIZE_OF_SETUP - Len(staged) |-> "unset"]]

(***************************************************************************)
(* System calls: how many copies to or from the application each makes,    *)
(* and what it returns.                                                    *)
(***************************************************************************)
linux_clock_gettime == [copies |-> 2, ret |-> 0]
linux_getrandom == [copies |-> 2, ret |-> 16]
linux_rt_sigprocmask == [copies |-> 0, ret |-> 0]
linux_getpid == [copies |-> 0, ret |-> 2]
linux_uname == [copies |-> 5, ret |-> 0]
linux_RET_ZERO_wrap == [copies |-> 0, ret |-> 0]
linux_set_tid_address == [copies |-> 0, ret |-> 1]
not_implemented == [copies |-> 0, ret |-> -1]

Syscalls == {linux_clock_gettime, linux_getrandom, linux_rt_sigprocmask, linux_getpid,
             linux_uname, linux_RET_ZERO_wrap, linux_set_tid_address, not_implemented}

(***************************************************************************)
(* Start.                                                                  *)
(***************************************************************************)
Empty == "empty"
TrapIdle == trap = [at |-> "none"]

\* A hart at _start.
StartState ==
    [at |-> "start", mode |-> "S", pc |-> 0, sp |-> KEND, bank |-> 0, a0 |-> 0,
     sscratch |-> 0, sepc |-> 0, spp |-> "S", cause |-> "none",
     stack |-> [i \in 1 .. KEND |-> Empty], ctx |-> KEND, call |-> not_implemented,
     outer |-> <<>>, faults |-> 0, env |-> <<>>]
TrapStart == trap = StartState

\* eyrie_boot leaves the application's stack pointer in sscratch.
Start ==
    /\ trap.at = "start"
    /\ \E top \in UserSps, phdrs \in PhdrTables, entry \in UserPcs :
          LET env == setup_start(top, phdrs) IN
          trap' = [trap EXCEPT !.at = "user", !.mode = "U", !.pc = entry, !.env = env,
                               !.sp = env.sp, !.sscratch = trap.sp]

(***************************************************************************)
(* Traps.                                                                  *)
(***************************************************************************)
\* What a trap interrupts; ctx and call are where the C code is.
Context(t) == [mode |-> t.mode, pc |-> t.pc, sp |-> t.sp, bank |-> t.bank, a0 |-> t.a0,
               at |-> t.at, ctx |-> t.ctx, call |-> t.call]

\* The hart takes a trap.
Trapped(t, cause) ==
    [t EXCEPT !.at = "entry", !.sepc = t.pc, !.spp = t.mode, !.mode = "S", !.cause = cause,
              !.outer = Append(@, Context(t))]

\* The application has run on, and traps.
UserTrap ==
    /\ trap.at = "user"
    /\ \E cause \in {"ecall", "load", "store", "fetch", "illegal", "interrupt"},
          pc \in UserPcs, sp \in UserSps, bank \in Banks, a0 \in {0, 1} :
          trap' = Trapped([trap EXCEPT !.pc = pc, !.sp = sp, !.bank = bank, !.a0 = a0, !.env = <<>>],
                          cause)

\* A copy of the runtime meets a page that is not resident.  A second fault that
\* is deeper in the stack than the first one of its system call is not told from
\* a trap of the application, see the notes; it is left out.
Shallow == trap.sscratch = 0 \/ trap.sp >= trap.sscratch

CopyFaults ==
    /\ trap.at = "copy" /\ trap.call.copies > 0 /\ trap.faults < MaxFaults /\ Shallow
    /\ \E cause \in {"load", "store"}, bank \in Banks :
          trap' = Trapped([trap EXCEPT !.faults = @ + 1, !.bank = bank, !.pc = -trap.call.copies], cause)

Saved(t, prev) ==
    [bank |-> t.bank, a0 |-> t.a0, sp |-> prev, sepc |-> t.sepc, cause |-> t.cause]

\* Mutant: a trap of the runtime is saved below the stack's end.
base_end(sp, sscratch) == IF sscratch # 0 THEN sscratch ELSE KEND

\* Where the context is saved: sp is exchanged with sscratch, and taken back if
\* that was zero.
base(sp, sscratch) == IF sscratch # 0 THEN sscratch ELSE sp

encl_trap_handler ==
    /\ trap.at = "entry"
    /\ LET frame == base(trap.sp, trap.sscratch) - 1
           handler == CASE trap.cause = "interrupt" -> "interrupt"
                        [] trap.cause = "ecall" -> "syscall"
                        [] trap.cause \in {"load", "store", "fetch"} -> "page_fault"
                        [] OTHER -> "fatal"
       IN  trap' = [trap EXCEPT !.stack[frame] = Saved(trap, trap.sp), !.sscratch = 0,
                                !.sp = frame, !.ctx = frame, !.at = handler]

(***************************************************************************)
(* Handlers.                                                               *)
(***************************************************************************)
\* C code of a handler is depth functions down the stack.
Nested(t, depth) ==
    [t EXCEPT !.sp = t.ctx - depth,
              !.stack = [i \in 1 .. KEND |-> IF i >= t.ctx THEN @[i]
                                             ELSE IF i >= t.ctx - depth THEN "live" ELSE Empty]]

\* The next instruction is the one after the ecall.
handle_syscall ==
    /\ trap.at = "syscall"
    /\ \E call \in Syscalls, depth \in 1 .. MaxDepth :
          trap' = [Nested(trap, depth) EXCEPT !.at = "copy", !.call = call, !.faults = 0,
                                              !.stack[trap.ctx] = [@ EXCEPT !.sepc = @ + 4]]

Copy ==
    /\ trap.at = "copy" /\ trap.call.copies > 0
    /\ \E depth \in 1 .. MaxDepth : trap' = [Nested(trap, depth) EXCEPT !.call.copies = @ - 1]

\* The result is put into the saved context.
SyscallReturns ==
    /\ trap.at = "copy" /\ trap.call.copies = 0
    /\ trap' = [trap EXCEPT !.at = "return_to_encl", !.sp = trap.ctx,
                            !.stack[trap.ctx] = [@ EXCEPT !.a0 = trap.call.ret]]

SyscallExits == trap.at = "syscall" /\ trap' = [trap EXCEPT !.at = "ended"]

\* The page is brought in, or the enclave ends.
PageFault ==
    /\ trap.at = "page_fault"
    /\ \E next \in {"return_to_encl", "ended"} : trap' = [trap EXCEPT !.at = next]

\* The enclave is stopped and run again.
handle_interrupts ==
    /\ trap.at = "interrupt"
    /\ trap' = [trap EXCEPT !.at = "return_to_encl", !.bank = 0, !.a0 = 0]

\* The monitor does not know the call that is made here, and refuses it.
not_implemented_fatal == trap.at = "fatal" /\ trap' = [trap EXCEPT !.at = "return_to_encl"]

(***************************************************************************)
(* Return.                                                                 *)
(***************************************************************************)

\* The saved stack pointer and the top of this frame are exchanged.
Left(t, f) == [t EXCEPT !.sp = f.sp, !.sscratch = t.sp + 1]
Restored(t, f) == [t EXCEPT !.bank = f.bank, !.a0 = f.a0, !.pc = f.sepc]

\* sret goes to the mode the last trap came from and leaves that as user.
return_to_encl ==
    /\ trap.at = "return_to_encl"
    /\ LET f == trap.stack[trap.sp]
           back == Last(trap.outer)
       IN  trap' = [Left(Restored(trap, f), f) EXCEPT
                       !.mode = trap.spp, !.spp = "U", !.outer = Front(@),
                       !.at = IF trap.spp = "U" THEN "user" ELSE back.at,
                       !.ctx = back.ctx, !.call = back.call,
                       !.faults = IF trap.spp = "U" THEN 0 ELSE @,
                       !.stack = [i \in 1 .. KEND |-> IF i <= trap.sp THEN Empty ELSE @[i]]]

\* Another enclave starts.
TrapEnds == trap.at = "ended" /\ trap' = StartState

TrapNext ==
    \/ Start \/ UserTrap \/ CopyFaults \/ encl_trap_handler
    \/ handle_syscall \/ Copy \/ SyscallReturns \/ SyscallExits \/ PageFault \/ handle_interrupts
    \/ not_implemented_fatal \/ return_to_encl \/ TrapEnds

(***************************************************************************)
(* Properties.                                                             *)
(***************************************************************************)
\* However traps nest, the return from each restores the mode, stack pointer,
\* registers and place in the code that it interrupted; only a system call goes
\* on behind its ecall with its result in a0 (encl_trap_handler, return_to_encl).
ReturnsToTrapped ==
    trap.at = "return_to_encl" =>
        LET c == Last(trap.outer)
            syscall == trap.stack[trap.sp].cause = "ecall"
        IN  /\ <<trap'.mode, trap'.sp, trap'.bank, trap'.at>> = <<c.mode, c.sp, c.bank, c.at>>
            /\ trap'.pc = IF syscall THEN c.pc + 4 ELSE c.pc
            /\ trap'.a0 = IF syscall THEN trap.call.ret ELSE c.a0

\* No trap is saved over the frames of functions that go on afterwards, and the
\* application always runs with the whole kernel stack noted in sscratch
\* (encl_trap_handler, return_to_encl).
StackIntact ==
    trap.at # "none" =>
        /\ \A c \in {Context(trap)} \cup Range(trap.outer) :
              c.at = "copy" => \A i \in c.sp .. c.ctx - 1 : trap.stack[i] = "live"
        /\ trap.at = "user" => trap.sscratch = KEND

\* The application's C library finds argc, argv and envp empty, a list of pairs
\* that ends, with the random bytes it points to behind the end and inside the
\* block, which the stack pointer is the start of (setup_start).
EnvReadable ==
    trap.at = "user" /\ trap.env # <<>> =>
        LET words == trap.env.words
            ends == {p \in 0 .. AUXV_COUNT - 1 : words[4 + 2 * p] = "NULL"}
            key(p) == words[4 + 2 * p]
        IN  /\ Len(words) = SIZE_OF_SETUP /\ trap.sp = trap.env.sp
            /\ SubSeq(words, 1, 3) = <<0, 0, 0>>
            /\ \E end \in ends : \E p \in 0 .. end - 1 :
                  /\ \A q \in 0 .. end - 1 : key(q) \notin {"NULL", "unset"}
                  /\ key(p) = "RANDOM"
                  /\ LET at == words[4 + 2 * p + 1] - trap.sp IN
                     /\ at >= 3 + 2 * (end + 1) /\ at + 2 <= SIZE_OF_SETUP
                     /\ \A i \in {at, at + 1} : words[i + 1] = "random"

\* Traps of the application and of the runtime may nest in any order: none loses a
\* register or the frames below it, and the application starts with an environment it
\* can read (entry.S, interrupt.c, env.c).
TrapsReturn == [][ReturnsToTrapped /\ StackIntact' /\ EnvReadable']_trap
=============================================================================
