------------------------------- MODULE Driver -------------------------------
(***************************************************************************)
(* The Linux driver (linux-keystone-driver/) under the host library        *)
(* (sdk/src/host/Enclave.cpp, KeystoneDevice.cpp): enclave objects, the    *)
(* table of their ids, and the monitor's enclaves they stand for.          *)
(*                                                                         *)
(* A client is a process with one Enclave object: Enclave::init, run and   *)
(* the destructor, killed between any two calls, then its file is          *)
(* released.  The driver's critical sections (idr_enclave_lock), monitor   *)
(* calls and stretches on one object between them are steps; processes     *)
(* interleave.  Memory is kept as objects, with the pages they own; freed  *)
(* objects keep their contents until kmalloc hands them out again.         *)
(***************************************************************************)
EXTENDS Integers, FiniteSets, FiniteSetsExt

CONSTANTS
    Clients,    \* processes
    Objs,       \* addresses kmalloc may return for a struct enclave
    Ueids,      \* ENCLAVE_IDR_MIN .. ENCLAVE_IDR_MAX - 1
    ENCL_MAX,   \* enclaves of the monitor
    ULONG,      \* 2 ^ the width of an unsigned long
    Faults      \* the calls that may fail; a behaviour has failures of one kind (a bound)

NULL == 0
ENOSPC == 28
ENCLAVE_IDR_MIN == Min(Ueids)
Eids == 0 .. ENCL_MAX - 1

ASSUME DriverAssumption ==
    /\ Ueids \subseteq Nat /\ Ueids # {} /\ ENCLAVE_IDR_MIN > ENOSPC
    /\ NULL \notin Objs /\ NULL \notin Clients
    /\ ENCL_MAX \in Nat /\ ULONG \in Nat /\ ENCL_MAX < ULONG /\ ULONG - ENOSPC \notin Ueids
    /\ Faults \subseteq {"memory", "idr", "sbi_create", "unknown_stop"}

VARIABLES
    heap,       \* per address: is it allocated, the fields of struct enclave, its creator
    idr,        \* idr_enclave
    sm,         \* the monitor's enclaves: state, and the object whose memory it protects
    proc,       \* per client: the call it is in, its KeystoneDevice and its file
    failed      \* the kinds of failure that have happened, a lack of memory excepted

vars == <<heap, idr, sm, proc, failed>>

NewProc == [op |-> "create", at |-> "call", ptr |-> NULL, val |-> 0, eid |-> -1, priv |-> 0]

Boot == <<[o \in Objs |-> [live |-> FALSE, eid |-> 0, utm |-> "none", is_init |-> FALSE,
                            owner |-> NULL]],
          [u \in Ueids |-> NULL],
          [e \in Eids |-> [state |-> "INVALID", obj |-> NULL]],
          [c \in Clients |-> NewProc],
          {}>>

Init == /\ heap = Boot[1] /\ idr = Boot[2] /\ sm = Boot[3] /\ proc = Boot[4]
        /\ failed = Boot[5]

(***************************************************************************)
(* The host library: which call follows which.  Results are "ok", "again"  *)
(* (the enclave was interrupted or makes an edge call) and "fail".         *)
(***************************************************************************)
OnSuccess == [create |-> "utm", utm |-> "map", map |-> "finalize", finalize |-> "map_utm",
              map_utm |-> "run", run |-> "dtor", resume |-> "dtor", destroy |-> "dtor",
              dtor |-> "release", release |-> "gone"]
OnFailure == [OnSuccess EXCEPT !.create = "destroy", !.utm = "destroy", !.map = "release",
              !.finalize = "destroy", !.map_utm = "release", !.run = "destroy",
              !.resume = "destroy"]
After(op, result) == IF result = "again" THEN "resume"
                     ELSE IF result = "ok" THEN OnSuccess[op] ELSE OnFailure[op]

Set(c, p) == proc' = [proc EXCEPT ![c] = p]
Return(c, p, result) == Set(c, [p EXCEPT !.op = After(p.op, result), !.at = "call",
                                            !.ptr = NULL, !.val = 0])
At(c, ops, at) == proc[c].op \in ops /\ proc[c].at = at

Fault(kind) == kind \in Faults /\ failed \subseteq {kind} /\ failed' = {kind}

\* A call fails because what it takes is used up, or because of a fault.
Fail(kind, exhausted) == \/ exhausted /\ failed' = failed \cup {kind}
                         \/ ~exhausted /\ Fault(kind)

Destroys == {"destroy", "dtor", "release"}

(***************************************************************************)
(* keystone_create_enclave.                                                *)
(***************************************************************************)
\* No pages, neither from the buddy allocator nor from CMA.
epm_init_fails == \/ (\A o \in Objs : heap[o].live) /\ UNCHANGED failed
                  \/ (\E o \in Objs : ~heap[o].live) /\ Fault("memory")

\* kmalloc of the object or of its epm returns NULL, or epm_init fails: what was
\* allocated is freed again.  The eid of a new object is -1, as an unsigned long.
create_enclave(c) ==
    /\ At(c, {"create"}, "call")
    /\ \/ \E o \in Objs :
             /\ ~heap[o].live
             /\ heap' = [heap EXCEPT ![o] = [live |-> TRUE, eid |-> ULONG - 1,
                             utm |-> "none", is_init |-> TRUE, owner |-> c]]
             /\ Set(c, [proc[c] EXCEPT !.at = "made", !.ptr = o])
             /\ UNCHANGED failed
       \/ /\ epm_init_fails
          /\ Return(c, proc[c], "fail")
          /\ UNCHANGED heap
    /\ UNCHANGED <<idr, sm>>

\* The error number, as an unsigned long, is out of range.
checked_ueid(ueid) == IF ueid \in Ueids THEN ueid ELSE 0

\* idr_alloc takes the least free id.  Its failure is not reported to the caller.
enclave_idr_alloc(c) ==
    LET free == {u \in Ueids : idr[u] = NULL}
        Got(ueid) == Return(c, [proc[c] EXCEPT !.eid = checked_ueid(ueid),
                                               !.priv = checked_ueid(ueid)], "ok")
    IN  /\ At(c, {"create"}, "made")
        /\ \/ /\ free # {}
              /\ idr' = [idr EXCEPT ![Min(free)] = proc[c].ptr]
              /\ Got(Min(free))
              /\ UNCHANGED failed
           \/ /\ Fail("idr", free = {})
              /\ Got(ULONG - ENOSPC)
              /\ UNCHANGED idr
        /\ UNCHANGED <<heap, sm>>

(***************************************************************************)
(* get_enclave_by_id: the first step of every other call.  The release of  *)
(* a file looks its enclave up twice.                                      *)
(***************************************************************************)
Argument(c) == IF proc[c].op \in {"map", "map_utm", "release"} THEN proc[c].priv ELSE proc[c].eid

\* KeystoneDevice::destroy makes no call for an enclave that was never created.
never_created(c) == proc[c].op \in {"destroy", "dtor"} /\ proc[c].eid < 0

\* Mutant: the release of a file does nothing (close_on_pexit clear).
already_destroyed_always(c) == proc[c].op = "release"

already_destroyed(c) == proc[c].op = "release" /\ proc[c].priv = 0

NoCall(c) == never_created(c) \/ already_destroyed(c)

get_enclave_by_id(c) ==
    /\ proc[c].op \notin {"create", "gone"}
    /\ proc[c].at \in {"call", "closing"}
    /\ \/ NoCall(c) /\ Return(c, proc[c], "ok")
       \/ /\ ~NoCall(c)
          /\ \/ Argument(c) \notin Ueids /\ Return(c, proc[c], "fail")
             \/ /\ Argument(c) \in Ueids
                /\ \/ idr[Argument(c)] = NULL /\ Return(c, proc[c], "fail")
                   \/ /\ idr[Argument(c)] # NULL
                      /\ Set(c, [proc[c] EXCEPT !.ptr = idr[Argument(c)],
                            !.at = IF proc[c].op = "release" /\ @ = "call"
                                   THEN "closing" ELSE "found"])
    /\ UNCHANGED <<heap, idr, sm, failed>>

utm_result(err) == IF err THEN "fail" ELSE "ok"

utm_init_ioctl(c) ==
    /\ At(c, {"utm"}, "found")
    /\ \/ /\ heap' = [heap EXCEPT ![proc[c].ptr].utm = "ok"]
          /\ Return(c, proc[c], utm_result(FALSE))
          /\ UNCHANGED failed
       \/ /\ heap' = [heap EXCEPT ![proc[c].ptr].utm = "bad"]
          /\ Return(c, proc[c], utm_result(TRUE))
          /\ Fault("memory")
       \/ /\ Fault("memory")
          /\ Return(c, proc[c], "fail")
          /\ UNCHANGED heap
    /\ UNCHANGED <<idr, sm>>

keystone_mmap(c) ==
    /\ At(c, {"map", "map_utm"}, "found")
    /\ Return(c, proc[c], "ok")
    /\ UNCHANGED <<heap, idr, sm, failed>>

(***************************************************************************)
(* keystone_finalize_enclave.  The monitor refuses memory it protects      *)
(* already.                                                                *)
(***************************************************************************)
finalize_sbi(c) ==
    LET o == proc[c].ptr
        free == {e \in Eids : sm[e].state = "INVALID"}
        taken == \E e \in Eids : sm[e].state # "INVALID" /\ sm[e].obj = o
    IN  /\ At(c, {"finalize"}, "found")
        /\ heap' = [heap EXCEPT ![o].is_init = FALSE]
        /\ \/ /\ free # {} /\ ~taken
              /\ sm' = [sm EXCEPT ![Min(free)] = [state |-> "FRESH", obj |-> o]]
              /\ Set(c, [proc[c] EXCEPT !.at = "created", !.val = Min(free)])
              /\ UNCHANGED failed
           \/ /\ Fail("sbi_create", free = {} \/ taken)
              /\ Set(c, [proc[c] EXCEPT !.at = "failed"])
              /\ UNCHANGED sm
        /\ UNCHANGED idr

finalize_store(c) ==
    /\ At(c, {"finalize"}, "created")
    /\ heap' = [heap EXCEPT ![proc[c].ptr].eid = proc[c].val]
    /\ Return(c, proc[c], "ok")
    /\ UNCHANGED <<idr, sm, failed>>

\* error_destroy_enclave: the object goes, its id stays.
finalize_error(c) ==
    /\ At(c, {"finalize"}, "failed")
    /\ heap' = [heap EXCEPT ![proc[c].ptr].live = FALSE]
    /\ Return(c, proc[c], "fail")
    /\ UNCHANGED <<idr, sm, failed>>

(***************************************************************************)
(* keystone_run_enclave and keystone_resume_enclave, and the loop of       *)
(* Enclave::run.  The eid is unsigned, so the driver's test for a negative *)
(* one never holds.                                                        *)
(***************************************************************************)
SmState(eid) == IF eid \in Eids THEN sm[eid].state ELSE "INVALID"

Enter(c, from) ==
    LET eid == heap[proc[c].ptr].eid
    IN  /\ ~(eid < 0)
        /\ \/ /\ SmState(eid) = from
              /\ sm' = [sm EXCEPT ![eid].state = "RUNNING"]
              /\ Set(c, [proc[c] EXCEPT !.at = "inside", !.val = eid])
           \/ /\ SmState(eid) # from
              /\ Return(c, proc[c], "fail")
              /\ UNCHANGED sm
        /\ UNCHANGED <<heap, idr, failed>>

keystone_run_enclave(c) == At(c, {"run"}, "found") /\ Enter(c, "FRESH")
keystone_resume_enclave(c) == At(c, {"resume"}, "found") /\ Enter(c, "STOPPED")

\* The enclave is interrupted, makes an edge call, exits, or stops for another reason.
enclave_stops(c) ==
    /\ At(c, {"run", "resume"}, "inside")
    /\ sm' = [sm EXCEPT ![proc[c].val].state = "STOPPED"]
    /\ \/ \E result \in {"again", "ok"} : Return(c, proc[c], result) /\ UNCHANGED failed
       \/ Fault("unknown_stop") /\ Return(c, proc[c], "fail")
    /\ UNCHANGED <<heap, idr>>

(***************************************************************************)
(* __keystone_destroy_enclave.                                             *)
(***************************************************************************)
\* Mutant: the memory is given back without the monitor being told.
destroy_sbi_skipped(c) ==
    /\ At(c, Destroys, "found")
    /\ IF SmState(heap[proc[c].ptr].eid) \in {"FRESH", "STOPPED"}
       THEN Set(c, [proc[c] EXCEPT !.at = "torn"]) ELSE Return(c, proc[c], "fail")
    /\ UNCHANGED <<heap, idr, sm, failed>>

\* The monitor destroys an enclave that does not run; any other eid is an error, the eid
\* of an enclave that was never finalised included.
destroy_sbi(c) ==
    LET eid == heap[proc[c].ptr].eid
    IN  /\ At(c, Destroys, "found")
        /\ eid >= 0
        /\ \/ /\ SmState(eid) \in {"FRESH", "STOPPED"}
              /\ sm' = [sm EXCEPT ![eid] = [state |-> "INVALID", obj |-> NULL]]
              /\ Set(c, [proc[c] EXCEPT !.at = "torn"])
           \/ /\ SmState(eid) \notin {"FRESH", "STOPPED"}
              /\ Return(c, proc[c], "fail")
              /\ UNCHANGED sm
        /\ UNCHANGED <<heap, idr, failed>>

destroy_enclave(c) ==
    /\ At(c, Destroys, "torn")
    /\ heap' = [heap EXCEPT ![proc[c].ptr].live = FALSE]
    /\ Set(c, [proc[c] EXCEPT !.at = "freed"])
    /\ UNCHANGED <<idr, sm, failed>>

\* Mutant: the file keeps the id of the enclave it destroyed.
enclave_idr_remove_keep(c) ==
    /\ At(c, Destroys, "freed")
    /\ idr' = [idr EXCEPT ![Argument(c)] = NULL]
    /\ Return(c, proc[c], "ok")
    /\ UNCHANGED <<heap, sm, failed>>

enclave_idr_remove(c) ==
    /\ At(c, Destroys, "freed")
    /\ idr' = [idr EXCEPT ![Argument(c)] = NULL]
    /\ Return(c, [proc[c] EXCEPT !.priv = 0], "ok")
    /\ UNCHANGED <<heap, sm, failed>>

(***************************************************************************)
(* Processes come and go.  A killed one finishes the call it is in.        *)
(***************************************************************************)
Kill(c) ==
    /\ proc[c].at = "call" /\ proc[c].op \notin {"release", "gone"}
    /\ Set(c, [proc[c] EXCEPT !.op = "release"])
    /\ UNCHANGED <<heap, idr, sm, failed>>

\* No failure but those that make the library destroy an enclave whose id is free
\* already: a failed finalize, and a run that fails.
DestroyedOnce == failed \cap {"sbi_create", "unknown_stop"} = {}

\* New processes start as long as that holds (a bound); the machine may be restarted.
Spawn(c) ==
    /\ proc[c].op = "gone"
    /\ DestroyedOnce
    /\ Set(c, NewProc)
    /\ UNCHANGED <<heap, idr, sm, failed>>

Restart ==
    /\ \A c \in Clients : proc[c].op = "gone"
    /\ heap' = Boot[1] /\ idr' = Boot[2] /\ sm' = Boot[3] /\ proc' = Boot[4]
    /\ failed' = Boot[5]

Next == \/ Restart
        \/ \E c \in Clients :
              \/ create_enclave(c) \/ enclave_idr_alloc(c)
              \/ get_enclave_by_id(c)
              \/ utm_init_ioctl(c) \/ keystone_mmap(c)
              \/ finalize_sbi(c) \/ finalize_store(c) \/ finalize_error(c)
              \/ keystone_run_enclave(c) \/ keystone_resume_enclave(c) \/ enclave_stops(c)
              \/ destroy_sbi(c) \/ destroy_enclave(c) \/ enclave_idr_remove(c)
              \/ Kill(c) \/ Spawn(c)

Spec == Init /\ [][Next]_vars

(***************************************************************************)
(* Properties.                                                             *)
(***************************************************************************)
Exists(e) == sm[e].state # "INVALID"

\* Fields, ids and calls are in their ranges; the id a process holds is 0, -1 or one the
\* table hands out, whatever idr_alloc returned.
TypeOK ==
    /\ heap \in [Objs -> [live : BOOLEAN, eid : 0 .. ULONG - 1, utm : {"none", "bad", "ok"},
                          is_init : BOOLEAN, owner : Clients \cup {NULL}]]
    /\ idr \in [Ueids -> Objs \cup {NULL}]
    /\ sm \in [Eids -> [state : {"INVALID", "FRESH", "RUNNING", "STOPPED"},
                        obj : Objs \cup {NULL}]]
    /\ \A c \in Clients :
          /\ proc[c].op \in DOMAIN OnSuccess \cup {"gone"}
          /\ proc[c].eid \in Ueids \cup {-1, 0} /\ proc[c].priv \in Ueids \cup {0}

Registered(u) == heap[idr[u]].live \/ \E c \in Clients : At(c, Destroys, "freed") /\ Argument(c) = u

\* An id names an object that is allocated, except from destroy_enclave to the
\* enclave_idr_remove after it.  "This can handle partial initialization failure"
\* (keystone-ioctl.c:88) says so of the failing finalize too, which leaves the id.
IdsNameObjects == \A u \in Ueids : idr[u] # NULL => Registered(u)

\* Every pointer a call holds is to an allocated object from its lookup until the call is
\* through with it, while processes create, destroy, fail and are killed at any moment
\* and objects are reused; and ids name allocated objects.
LookupFindsLive ==
    DestroyedOnce =>
        /\ IdsNameObjects
        /\ \A c \in Clients :
              proc[c].at \in {"made", "found", "closing", "created", "failed", "torn"} =>
                  heap[proc[c].ptr].live

\* The pages of an enclave are allocated as long as the monitor has the enclave: the
\* kernel never reuses memory that the monitor protects.
EpmOutlivesEnclave == DestroyedOnce => \A e \in Eids : Exists(e) => heap[sm[e].obj].live

\* An allocated object is registered, or a call that will register or free it is under
\* way: no error path and no kill loses the memory of an enclave, if ids do not run out.
NoOrphans ==
    DestroyedOnce /\ "idr" \notin failed => \A o \in Objs : heap[o].live =>
        \/ \E u \in Ueids : idr[u] = o
        \/ \E c \in Clients : proc[c].ptr = o /\ proc[c].at \in {"made", "torn"}

\* A process frees or changes no object of another one: the id it keeps after its enclave
\* is gone may by then be that of a new one.
OwnObjects ==
    [][\A o \in Objs, c \in Clients :
          /\ DestroyedOnce /\ heap[o].live /\ heap'[o] # heap[o]
          /\ proc[c].op # "gone" /\ proc'[c] # proc[c]
          => heap[o].owner = c]_vars

\* Untrusted memory is mapped only when its allocation succeeded: after finalize,
\* keystone_mmap dereferences enclave->utm without a test.
MmapFindsUtm ==
    DestroyedOnce => \A c \in Clients :
        At(c, {"map_utm"}, "found") => heap[proc[c].ptr].utm = "ok"

\* When the file of a process is released, whenever the process was killed and whatever
\* failed before, the monitor has none of its enclaves left.
MonitorReclaimed ==
    DestroyedOnce => \A c \in Clients, e \in Eids :
        proc[c].op = "gone" /\ Exists(e) => heap[sm[e].obj].owner # c

\* No call of the driver follows a pointer to what was freed or never made, and the
\* kernel keeps the pages the monitor protects (keystone-ioctl.c, keystone-enclave.c).
NoDangling == TypeOK /\ LookupFindsLive /\ EpmOutlivesEnclave /\ MmapFindsUtm

\* Nothing of a process is lost, in the kernel or in the monitor, whichever step fails
\* and whenever it is killed (create_enclave, keystone_release).
NothingLeaks == NoOrphans /\ MonitorReclaimed
=============================================================================
