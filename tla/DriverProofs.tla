---------------------------- MODULE DriverProofs ----------------------------
(***************************************************************************)
(* Proofs about module Driver, for any number of processes, objects, user  *)
(* ids and enclaves of the monitor: an id never leads to a freed object,   *)
(* nothing of a process is lost, and a process changes its own objects     *)
(* only, whenever it is killed or the machine is restarted and whichever   *)
(* step fails, short of the failures after which the host library destroys *)
(* an enclave twice (DestroyedOnce).                                       *)
(*                                                                         *)
(* The argument is DriverInv, which links each process to the id in its    *)
(* file, the id to an object that the process made, and the object to an   *)
(* enclave of the monitor; a call holds the links that it is about to cut. *)
(* First what each step does, then that it keeps every link.               *)
(***************************************************************************)
EXTENDS Driver, TLAPS
LOCAL INSTANCE WellFoundedInduction

\* Most leaves need no arithmetic: Zenon first, then the SMT solver.
USE Zenon, SMT

(***************************************************************************)
(* The inductive invariant.                                                *)
(***************************************************************************)
Ops == {"create", "utm", "map", "finalize", "map_utm", "run", "resume", "destroy", "dtor",
        "release", "gone"}
Kinds == {"memory", "idr", "sbi_create", "unknown_stop"}
Unset == ULONG - 1

\* The places of a call that hold the object they looked up by an id of their process.
Found == {"closing", "found", "created", "inside", "torn", "freed"}
Places == {"call", "made", "failed"} \cup Found

\* The calls that get to a place.
PlaceOf(op, at) ==
    /\ at = "made" => op = "create"
    /\ at = "closing" => op = "release"
    /\ at = "found" => op \notin {"create", "gone"}
    /\ at \in {"created", "failed"} => op = "finalize"
    /\ at = "inside" => op \in {"run", "resume"}
    /\ at \in {"torn", "freed"} => op \in Destroys

Procs == [op : Ops, at : Places, ptr : Objs \cup {NULL}, val : 0 .. ULONG - 1,
          eid : Ueids \cup {-1, 0}, priv : Ueids \cup {0}]

DriverTypes ==
    /\ heap \in [Objs -> [live : BOOLEAN, eid : 0 .. ULONG - 1, utm : {"none", "bad", "ok"},
                          is_init : BOOLEAN, owner : Clients \cup {NULL}]]
    /\ idr \in [Ueids -> Objs \cup {NULL}]
    /\ sm \in [Eids -> [state : {"INVALID", "FRESH", "RUNNING", "STOPPED"},
                        obj : Objs \cup {NULL}]]
    /\ proc \in [Clients -> Procs]
    /\ failed \subseteq Kinds
    /\ \A c \in Clients : /\ PlaceOf(proc[c].op, proc[c].at)
                          /\ proc[c].at # "call" => proc[c].ptr \in Objs

\* The object of the id that the file of c keeps.
Mine(c) == idr[proc[c].priv]

\* Enclave e of the monitor protects the memory of o, in one of the states.
Backs(e, o, states) == e \in Eids /\ sm[e].state \in states /\ sm[e].obj = o

IdsKept(c) ==
    LET p == proc[c] IN
    /\ p.op = "create" => p.eid = -1 /\ p.priv = 0
    /\ p.op \in {"map", "finalize", "map_utm", "run", "resume"} => p.priv \in Ueids
    /\ p.op \notin {"release", "gone"} => p.eid = p.priv \/ (p.priv = 0 /\ p.eid \in {-1, 0})
    /\ p.at \in Found => p.priv \in Ueids /\ p.ptr = Mine(c)
    /\ p.priv \in Ueids => Mine(c) \in Objs
    /\ p.at # "failed"
    /\ p.at \in {"torn", "freed"} => p.op # "destroy"

\* The object that c has an id of, from its registration until it is freed.
Owned(c) ==
    LET p == proc[c]
        o == Mine(c)
        eid == heap[o].eid
    IN  /\ heap[o].live /\ heap[o].owner = c
        /\ eid \in Eids /\ p.at # "torn" => Backs(eid, o, {"FRESH", "RUNNING", "STOPPED"})
        /\ p.op \in {"utm", "map", "finalize", "destroy"} => eid = Unset
        /\ p.op \in {"map", "finalize", "map_utm"} => heap[o].utm = "ok"
        /\ p.op = "map_utm" => Backs(eid, o, {"FRESH"})
        /\ p.op = "run" /\ p.at # "inside" => Backs(eid, o, {"FRESH"})
        /\ p.op = "resume" /\ p.at # "inside" => Backs(eid, o, {"STOPPED"})
        /\ p.at = "inside" => p.val = eid /\ Backs(eid, o, {"RUNNING"})
        /\ p.at = "created" => Backs(p.val, o, {"FRESH"})

\* The id of an object that was freed, between destroy_enclave and enclave_idr_remove.
Freed(u) == \E c \in Clients : proc[c].at = "freed" /\ proc[c].priv = u

\* The object of a call that has made it and has not registered it.
Made(c) ==
    /\ heap[proc[c].ptr].live /\ heap[proc[c].ptr].owner = c
    /\ heap[proc[c].ptr].eid = Unset
    /\ \A u \in Ueids : idr[u] = proc[c].ptr => Freed(u)

ClientsInv ==
    \A c \in Clients : /\ IdsKept(c)
                       /\ proc[c].priv \in Ueids /\ proc[c].at # "freed" => Owned(c)
                       /\ proc[c].at = "made" => Made(c)

OneHolder == \A c, d \in Clients :
                 proc[c].priv \in Ueids /\ proc[c].priv = proc[d].priv => c = d

IdsInv ==
    /\ \A u \in Ueids : idr[u] # NULL => heap[idr[u]].live \/ Freed(u)
    /\ \A u, v \in Ueids : idr[u] # NULL /\ idr[u] = idr[v] => u = v \/ Freed(u) \/ Freed(v)

\* The process of an enclave of the monitor.
Serves(c, e) ==
    LET o == sm[e].obj IN
    /\ heap[o].owner = c
    /\ proc[c].op # "gone" /\ proc[c].at \notin {"torn", "freed"}
    /\ proc[c].priv \in Ueids /\ Mine(c) = o
    /\ heap[o].eid = e \/ (proc[c].at = "created" /\ proc[c].val = e)
    /\ sm[e].state = "RUNNING" => proc[c].at = "inside"

EnclavesInv == \A e \in Eids : Exists(e) => \E c \in Clients : Serves(c, e)

\* Objects are registered, unless ids ran out.
ObjectsInv ==
    "idr" \notin failed => \A o \in Objs : heap[o].live =>
        \/ \E u \in Ueids : idr[u] = o /\ ~Freed(u)
        \/ \E c \in Clients : proc[c].at = "made" /\ proc[c].ptr = o

DriverInv == /\ DriverTypes
             /\ DestroyedOnce => ClientsInv /\ OneHolder /\ IdsInv /\ EnclavesInv /\ ObjectsInv

(***************************************************************************)
(* Constants, and the calls of the host library.                           *)
(***************************************************************************)
\* The least element of a set of numbers, which idr_alloc chooses.
LEMMA MinFacts ==
  ASSUME NEW S \in SUBSET Nat, S # {}
  PROVE  Min(S) \in S /\ \A y \in S : Min(S) =< y
<1> DEFINE R == OpToRel(<, Nat)
<1>1. PICK x \in S : \A y \in S : ~(<<y, x>> \in R)
  BY NatLessThanWellFounded, WFMin
<1>2. \A y \in S : x =< y
  <2>1. SUFFICES ASSUME NEW y \in S, y < x PROVE FALSE
    BY SMT
  <2>2. <<y, x>> \in R
    BY <2>1 DEF OpToRel
  <2> QED
    BY <2>2, <1>1
<1> HIDE DEF R
<1> QED
  BY <1>2 DEF Min

\* The ids, the enclaves of the monitor and the values that mean none of them are apart.
LEMMA ConstFacts ==
  /\ Ueids \subseteq Nat \ {0} /\ ULONG - ENOSPC \notin Ueids /\ -1 \notin Ueids /\ 0 \notin Ueids
  /\ ULONG \in Nat \ {0} /\ Eids \subseteq 0 .. ULONG - 1 /\ Eids \subseteq Nat
  /\ Unset \in 0 .. ULONG - 1 /\ Unset \notin Eids
  /\ NULL = 0 /\ NULL \notin Objs /\ NULL \notin Clients
<1>1. ENCLAVE_IDR_MIN \in Ueids /\ \A u \in Ueids : ENCLAVE_IDR_MIN =< u
  BY DriverAssumption, MinFacts DEF ENCLAVE_IDR_MIN
<1> QED
  BY SMT, <1>1, DriverAssumption DEF ENOSPC, Eids, Unset, NULL

\* The call that follows each call, from host/src/Enclave.cpp.
LEMMA AfterFacts ==
  /\ After("create", "ok") = "utm" /\ After("create", "fail") = "destroy"
  /\ After("utm", "ok") = "map" /\ After("utm", "fail") = "destroy"
  /\ After("map", "ok") = "finalize" /\ After("map", "fail") = "release"
  /\ After("finalize", "ok") = "map_utm" /\ After("finalize", "fail") = "destroy"
  /\ After("map_utm", "ok") = "run" /\ After("map_utm", "fail") = "release"
  /\ After("run", "ok") = "dtor" /\ After("run", "fail") = "destroy"
  /\ After("resume", "ok") = "dtor" /\ After("resume", "fail") = "destroy"
  /\ After("destroy", "ok") = "dtor" /\ After("destroy", "fail") = "dtor"
  /\ After("dtor", "ok") = "release" /\ After("dtor", "fail") = "release"
  /\ After("release", "ok") = "gone" /\ After("release", "fail") = "gone"
  /\ \A op : After(op, "again") = "resume"
BY DEF After, OnSuccess, OnFailure

\* What follows a call is a call.
LEMMA AfterOps ==
  \A op \in Ops \ {"gone"}, result \in {"ok", "again", "fail"} : After(op, result) \in Ops
BY SMT, AfterFacts DEF Ops

(***************************************************************************)
(* What each step does.                                                    *)
(***************************************************************************)
\* A step of c leaves the other processes.
Only(c) == \A d \in Clients : d # c => proc'[d] = proc[d]

\* The call of c is over.
Over(c, result) == /\ proc'[c].op = After(proc[c].op, result) /\ proc'[c].at = "call"
                   /\ proc'[c].ptr = NULL /\ proc'[c].val = 0

Ids(c) == proc'[c].eid = proc[c].eid /\ proc'[c].priv = proc[c].priv

\* Setting the state of one process leaves the others.
LEMMA SetFacts ==
  ASSUME DriverTypes, NEW c \in Clients, NEW p \in Procs, Set(c, p)
  PROVE  proc' \in [Clients -> Procs] /\ proc'[c] = p /\ Only(c)
BY DEF DriverTypes, Set, Only

\* A call that returns leaves the ids of its process.
LEMMA ReturnFacts ==
  ASSUME DriverTypes, NEW c \in Clients, proc[c].op # "gone",
         NEW result \in {"ok", "again", "fail"}, Return(c, proc[c], result)
  PROVE  proc' \in [Clients -> Procs] /\ Over(c, result) /\ Ids(c) /\ Only(c)
<1> DEFINE p == [proc[c] EXCEPT !.op = After(proc[c].op, result), !.at = "call",
                                 !.ptr = NULL, !.val = 0]
<1>1. proc[c] \in Procs
  BY DEF DriverTypes
<1>2. After(proc[c].op, result) \in Ops
  BY <1>1, AfterOps DEF Procs
<1>3. /\ p.op = After(proc[c].op, result) /\ p.at = "call" /\ p.ptr = NULL
      /\ p.val = 0 /\ p.eid = proc[c].eid /\ p.priv = proc[c].priv
  BY <1>1 DEF Procs
<1>5. 0 \in 0 .. ULONG - 1
  BY SMT, ConstFacts
<1>6. p \in Procs
  BY <1>1, <1>2, <1>5 DEF Procs, Places
<1>4. Set(c, p)
  BY DEF Return
<1> HIDE DEF p
<1> QED
  BY <1>3, <1>4, <1>6, SetFacts DEF Over, Ids

\* What has failed is only added to.
LEMMA FailFacts ==
  ASSUME DriverTypes, NEW kind \in Kinds, NEW exhausted, Fail(kind, exhausted) \/ Fault(kind)
  PROVE  failed \subseteq failed' /\ failed' \subseteq Kinds /\ kind \in failed'
BY DriverAssumption DEF DriverTypes, Fail, Fault, Kinds

NewObject(c) == [live |-> TRUE, eid |-> ULONG - 1, utm |-> "none", is_init |-> TRUE, owner |-> c]

\* create_enclave: a new object that nothing refers to yet, or an error.
LEMMA CreateEffect ==
  ASSUME DriverTypes, NEW c \in Clients, create_enclave(c)
  PROVE  /\ proc[c].op = "create" /\ proc[c].at = "call" /\ Only(c) /\ Ids(c) /\ UNCHANGED <<idr, sm>>
         /\ proc' \in [Clients -> Procs] /\ failed \subseteq failed' /\ failed' \subseteq Kinds
         /\ \/ /\ proc'[c].op = "create" /\ proc'[c].at = "made" /\ proc'[c].ptr \in Objs
               /\ UNCHANGED failed /\ ~heap[proc'[c].ptr].live
               /\ heap' = [heap EXCEPT ![proc'[c].ptr] = NewObject(c)]
            \/ UNCHANGED heap /\ Over(c, "fail")
<1>1. proc[c].op = "create" /\ proc[c].at = "call" /\ UNCHANGED <<idr, sm>> /\ proc[c] \in Procs
  BY DEF create_enclave, At, DriverTypes
<1>2. ASSUME NEW o \in Objs, ~heap[o].live, heap' = [heap EXCEPT ![o] = NewObject(c)],
             Set(c, [proc[c] EXCEPT !.at = "made", !.ptr = o]), UNCHANGED failed
      PROVE  /\ proc' \in [Clients -> Procs] /\ Only(c) /\ Ids(c)
             /\ proc'[c].op = "create" /\ proc'[c].at = "made" /\ proc'[c].ptr = o
  <2> DEFINE p == [proc[c] EXCEPT !.at = "made", !.ptr = o]
  <2>1. /\ p \in Procs /\ p.op = "create" /\ p.at = "made" /\ p.ptr = o
        /\ p.eid = proc[c].eid /\ p.priv = proc[c].priv
    BY <1>1 DEF Procs, Places
  <2> HIDE DEF p
  <2> QED
    BY <2>1, <1>2, SetFacts DEF Ids, p
<1>3. ASSUME epm_init_fails, Return(c, proc[c], "fail"), UNCHANGED heap
      PROVE  /\ proc' \in [Clients -> Procs] /\ Only(c) /\ Ids(c) /\ Over(c, "fail")
             /\ failed \subseteq failed' /\ failed' \subseteq Kinds
  <2>1. UNCHANGED failed \/ Fault("memory")
    BY <1>3 DEF epm_init_fails
  <2>2. failed \subseteq failed' /\ failed' \subseteq Kinds
    BY <2>1, FailFacts DEF Kinds, DriverTypes
  <2> QED
    BY <1>1, <1>3, <2>2, ReturnFacts
<1>4. \/ \E o \in Objs : /\ ~heap[o].live /\ heap' = [heap EXCEPT ![o] = NewObject(c)]
                         /\ Set(c, [proc[c] EXCEPT !.at = "made", !.ptr = o]) /\ UNCHANGED failed
      \/ epm_init_fails /\ Return(c, proc[c], "fail") /\ UNCHANGED heap
  BY DEF create_enclave, NewObject
<1>5. CASE \E o \in Objs : /\ ~heap[o].live /\ heap' = [heap EXCEPT ![o] = NewObject(c)]
                           /\ Set(c, [proc[c] EXCEPT !.at = "made", !.ptr = o]) /\ UNCHANGED failed
  <2>1. PICK o \in Objs : /\ ~heap[o].live /\ heap' = [heap EXCEPT ![o] = NewObject(c)]
                          /\ Set(c, [proc[c] EXCEPT !.at = "made", !.ptr = o]) /\ UNCHANGED failed
    BY <1>5
  <2>2. failed \subseteq failed' /\ failed' \subseteq Kinds
    BY <2>1 DEF DriverTypes
  <2> QED
    BY <1>1, <1>2, <2>1, <2>2
<1>6. CASE epm_init_fails /\ Return(c, proc[c], "fail") /\ UNCHANGED heap
  BY <1>1, <1>3, <1>6
<1> QED
  BY <1>4, <1>5, <1>6

\* enclave_idr_alloc: an id that was free leads to the new object; without one the object is
\* left behind, and "idr" recorded.
LEMMA AllocEffect ==
  ASSUME DriverTypes, NEW c \in Clients, enclave_idr_alloc(c)
  PROVE  /\ proc[c].op = "create" /\ proc[c].at = "made" /\ Only(c) /\ UNCHANGED <<heap, sm>>
         /\ proc' \in [Clients -> Procs] /\ failed \subseteq failed' /\ failed' \subseteq Kinds
         /\ proc'[c].op = "utm" /\ proc'[c].at = "call" /\ proc'[c].eid = proc'[c].priv
         /\ \/ /\ proc'[c].priv \in Ueids /\ idr[proc'[c].priv] = NULL /\ UNCHANGED failed
               /\ idr' = [idr EXCEPT ![proc'[c].priv] = proc[c].ptr]
            \/ UNCHANGED idr /\ proc'[c].priv = 0 /\ "idr" \in failed'
<1> DEFINE free == {u \in Ueids : idr[u] = NULL}
           Got(ueid) == Return(c, [proc[c] EXCEPT !.eid = checked_ueid(ueid),
                                                  !.priv = checked_ueid(ueid)], "ok")
<1>1. /\ proc[c].op = "create" /\ proc[c].at = "made" /\ UNCHANGED <<heap, sm>> /\ proc[c] \in Procs
      /\ \/ free # {} /\ idr' = [idr EXCEPT ![Min(free)] = proc[c].ptr] /\ Got(Min(free)) /\ UNCHANGED failed
         \/ Fail("idr", free = {}) /\ Got(ULONG - ENOSPC) /\ UNCHANGED idr
  BY DEF enclave_idr_alloc, At, DriverTypes
<1>2. free # {} => Min(free) \in free
  BY MinFacts, DriverAssumption
<1>3. ASSUME NEW ueid, Got(ueid)
      PROVE  /\ proc' \in [Clients -> Procs] /\ Only(c) /\ proc'[c].op = "utm" /\ proc'[c].at = "call"
             /\ proc'[c].eid = checked_ueid(ueid) /\ proc'[c].priv = checked_ueid(ueid)
  <2> DEFINE p == [proc[c] EXCEPT !.eid = checked_ueid(ueid), !.priv = checked_ueid(ueid)]
             q == [p EXCEPT !.op = After(p.op, "ok"), !.at = "call", !.ptr = NULL, !.val = 0]
  <2>1. checked_ueid(ueid) \in Ueids \cup {0}
    BY DEF checked_ueid
  <2>2. p \in Procs /\ p.op = "create" /\ p.eid = checked_ueid(ueid) /\ p.priv = checked_ueid(ueid)
    BY <1>1, <2>1 DEF Procs
  <2>3. Set(c, q)
    BY <1>3 DEF Return
  <2>4. After(p.op, "ok") = "utm" /\ 0 \in 0 .. ULONG - 1
    BY SMT, <2>2, AfterFacts, ConstFacts
  <2> HIDE DEF p
  <2>5. /\ q.op = "utm" /\ q.at = "call" /\ q.ptr = NULL /\ q.val = 0
        /\ q.eid = checked_ueid(ueid) /\ q.priv = checked_ueid(ueid)
    BY <2>2, <2>4 DEF Procs
  <2>6. q \in Procs
    BY <2>2, <2>4 DEF Procs, Places, Ops
  <2> HIDE DEF q
  <2> QED
    BY <2>3, <2>5, <2>6, SetFacts
<1>4. checked_ueid(ULONG - ENOSPC) = 0
  BY ConstFacts DEF checked_ueid
<1>5. CASE free # {} /\ idr' = [idr EXCEPT ![Min(free)] = proc[c].ptr] /\ Got(Min(free)) /\ UNCHANGED failed
  <2>1. Min(free) \in Ueids /\ idr[Min(free)] = NULL
    BY <1>2, <1>5
  <2>2. checked_ueid(Min(free)) = Min(free)
    BY <2>1 DEF checked_ueid
  <2> HIDE DEF free, Got
  <2> QED
    BY ZenonT(40), <1>1, <1>3, <1>5, <2>1, <2>2 DEF DriverTypes
<1>6. CASE Fail("idr", free = {}) /\ Got(ULONG - ENOSPC) /\ UNCHANGED idr
  <2>1. failed \subseteq failed' /\ failed' \subseteq Kinds /\ "idr" \in failed'
    BY <1>6, FailFacts DEF Kinds
  <2> HIDE DEF free, Got
  <2> QED
    BY <1>1, <1>3, <1>4, <1>6, <2>1
<1> QED
  BY <1>1, <1>5, <1>6

\* The call of c goes on at another place.
GoesOn(c, at) == proc'[c].op = proc[c].op /\ proc'[c].at = at /\ proc'[c].ptr = proc[c].ptr

\* A call that goes on keeps its object and the ids of its process.
LEMMA MoveFacts ==
  ASSUME DriverTypes, NEW c \in Clients, NEW at \in Places
  PROVE  /\ Set(c, [proc[c] EXCEPT !.at = at]) =>
               proc' \in [Clients -> Procs] /\ Only(c) /\ Ids(c) /\ GoesOn(c, at)
         /\ \A val \in 0 .. ULONG - 1 : Set(c, [proc[c] EXCEPT !.at = at, !.val = val]) =>
               /\ proc' \in [Clients -> Procs] /\ Only(c) /\ Ids(c) /\ GoesOn(c, at)
               /\ proc'[c].val = val
<1>1. proc[c] \in Procs
  BY DEF DriverTypes
<1>2. ASSUME Set(c, [proc[c] EXCEPT !.at = at])
      PROVE  proc' \in [Clients -> Procs] /\ Only(c) /\ Ids(c) /\ GoesOn(c, at)
  <2> DEFINE p == [proc[c] EXCEPT !.at = at]
  <2>1. /\ p \in Procs /\ p.op = proc[c].op /\ p.at = at /\ p.ptr = proc[c].ptr
        /\ p.eid = proc[c].eid /\ p.priv = proc[c].priv
    BY <1>1 DEF Procs
  <2> QED
    BY <2>1, <1>2, SetFacts DEF Ids, GoesOn
<1>3. ASSUME NEW val \in 0 .. ULONG - 1, Set(c, [proc[c] EXCEPT !.at = at, !.val = val])
      PROVE  /\ proc' \in [Clients -> Procs] /\ Only(c) /\ Ids(c) /\ GoesOn(c, at)
             /\ proc'[c].val = val
  <2> DEFINE p == [proc[c] EXCEPT !.at = at, !.val = val]
  <2>1. /\ p \in Procs /\ p.op = proc[c].op /\ p.at = at /\ p.ptr = proc[c].ptr
        /\ p.val = val /\ p.eid = proc[c].eid /\ p.priv = proc[c].priv
    BY <1>1 DEF Procs
  <2> QED
    BY <2>1, <1>3, SetFacts DEF Ids, GoesOn
<1> QED
  BY <1>2, <1>3

\* get_enclave_by_id: the object of the id, or an error when there is none.
LEMMA LookupEffect ==
  ASSUME DriverTypes, NEW c \in Clients, get_enclave_by_id(c)
  PROVE  /\ proc[c].op \notin {"create", "gone"} /\ proc[c].at \in {"call", "closing"}
         /\ UNCHANGED <<heap, idr, sm, failed>> /\ Only(c) /\ Ids(c) /\ proc' \in [Clients -> Procs]
         /\ \/ NoCall(c) /\ Over(c, "ok")
            \/ /\ ~NoCall(c) /\ Over(c, "fail")
               /\ Argument(c) \in Ueids => idr[Argument(c)] = NULL
            \/ /\ Argument(c) \in Ueids /\ idr[Argument(c)] # NULL
               /\ proc'[c].op = proc[c].op /\ proc'[c].ptr = idr[Argument(c)]
               /\ proc'[c].at = IF proc[c].op = "release" /\ proc[c].at = "call"
                                THEN "closing" ELSE "found"
<1>1. /\ proc[c].op \notin {"create", "gone"} /\ proc[c].at \in {"call", "closing"}
      /\ UNCHANGED <<heap, idr, sm, failed>> /\ proc[c] \in Procs
      /\ idr \in [Ueids -> Objs \cup {NULL}]
  BY DEF get_enclave_by_id, DriverTypes
<1> DEFINE at == IF proc[c].op = "release" /\ proc[c].at = "call" THEN "closing" ELSE "found"
           p == [proc[c] EXCEPT !.ptr = idr[Argument(c)], !.at = at]
<1>2. \/ NoCall(c) /\ Return(c, proc[c], "ok")
      \/ /\ ~NoCall(c) /\ Return(c, proc[c], "fail")
         /\ Argument(c) \in Ueids => idr[Argument(c)] = NULL
      \/ Argument(c) \in Ueids /\ idr[Argument(c)] # NULL /\ Set(c, p)
  BY <1>1 DEF get_enclave_by_id, Procs
<1>3. CASE NoCall(c) /\ Return(c, proc[c], "ok")
  BY <1>1, <1>3, ReturnFacts
<1>4. CASE /\ ~NoCall(c) /\ Return(c, proc[c], "fail")
           /\ Argument(c) \in Ueids => idr[Argument(c)] = NULL
  BY <1>1, <1>4, ReturnFacts
<1>5. CASE Argument(c) \in Ueids /\ idr[Argument(c)] # NULL /\ Set(c, p)
  <2>1. /\ p \in Procs /\ p.op = proc[c].op /\ p.at = at /\ p.ptr = idr[Argument(c)]
        /\ p.eid = proc[c].eid /\ p.priv = proc[c].priv
    BY <1>1, <1>5 DEF Procs, Places, Found
  <2> HIDE DEF p
  <2> QED
    BY <1>1, <1>5, <2>1, SetFacts DEF Ids
<1> HIDE DEF p, at
<1> QED
  BY <1>2, <1>3, <1>4, <1>5

Objects == [live : BOOLEAN, eid : 0 .. ULONG - 1, utm : {"none", "bad", "ok"},
            is_init : BOOLEAN, owner : Clients \cup {NULL}]

\* The heap but for object o.
Elsewhere(o) == \A x \in Objs : x # o => heap'[x] = heap[x]

\* utm_init_ioctl: only the untrusted memory of the object found changes.
LEMMA UtmEffect ==
  ASSUME DriverTypes, NEW c \in Clients, utm_init_ioctl(c)
  PROVE  /\ proc[c].op = "utm" /\ proc[c].at = "found" /\ UNCHANGED <<idr, sm>>
         /\ Only(c) /\ Ids(c) /\ proc' \in [Clients -> Procs] /\ proc[c].ptr \in Objs
         /\ failed \subseteq failed' /\ failed' \subseteq Kinds
         /\ heap' \in [Objs -> Objects] /\ Elsewhere(proc[c].ptr)
         /\ heap'[proc[c].ptr].live = heap[proc[c].ptr].live
         /\ heap'[proc[c].ptr].owner = heap[proc[c].ptr].owner
         /\ heap'[proc[c].ptr].eid = heap[proc[c].ptr].eid
         /\ \/ Over(c, "ok") /\ heap'[proc[c].ptr].utm = "ok"
            \/ Over(c, "fail")
<1>1. /\ proc[c].op = "utm" /\ proc[c].at = "found" /\ UNCHANGED <<idr, sm>>
      /\ proc[c].ptr \in Objs /\ heap \in [Objs -> Objects] /\ failed \subseteq Kinds
  BY DEF utm_init_ioctl, At, DriverTypes, Objects
<1>2. /\ \/ \E r \in {"ok", "bad"} : heap' = [heap EXCEPT ![proc[c].ptr].utm = r]
         \/ UNCHANGED heap
      /\ \/ heap' = [heap EXCEPT ![proc[c].ptr].utm = "ok"] /\ Return(c, proc[c], "ok")
         \/ Return(c, proc[c], "fail")
      /\ UNCHANGED failed \/ Fault("memory")
  BY DEF utm_init_ioctl, utm_result
<1>3. failed \subseteq failed' /\ failed' \subseteq Kinds
  BY <1>1, <1>2, FailFacts DEF Kinds
<1>4. Only(c) /\ Ids(c) /\ proc' \in [Clients -> Procs] /\ (Over(c, "ok") \/ Over(c, "fail"))
  BY <1>1, <1>2, ReturnFacts
<1>5. \/ Over(c, "ok") /\ heap' = [heap EXCEPT ![proc[c].ptr].utm = "ok"]
      \/ Over(c, "fail")
  BY <1>1, <1>2, ReturnFacts
<1>6. ASSUME NEW r \in {"ok", "bad"}, heap' = [heap EXCEPT ![proc[c].ptr].utm = r]
      PROVE  /\ heap' \in [Objs -> Objects] /\ Elsewhere(proc[c].ptr)
             /\ heap'[proc[c].ptr].live = heap[proc[c].ptr].live
             /\ heap'[proc[c].ptr].owner = heap[proc[c].ptr].owner
             /\ heap'[proc[c].ptr].eid = heap[proc[c].ptr].eid
             /\ heap'[proc[c].ptr].utm = r
  BY ZenonT(40), <1>1, <1>6 DEF Objects, Elsewhere
<1>7. /\ heap' \in [Objs -> Objects] /\ Elsewhere(proc[c].ptr)
      /\ heap'[proc[c].ptr].live = heap[proc[c].ptr].live
      /\ heap'[proc[c].ptr].owner = heap[proc[c].ptr].owner
      /\ heap'[proc[c].ptr].eid = heap[proc[c].ptr].eid
  BY <1>1, <1>2, <1>6 DEF Elsewhere
<1> QED
  BY <1>1, <1>3, <1>4, <1>5, <1>6, <1>7

\* keystone_mmap: nothing but the call changes.
LEMMA MmapEffect ==
  ASSUME DriverTypes, NEW c \in Clients, keystone_mmap(c)
  PROVE  /\ proc[c].op \in {"map", "map_utm"} /\ proc[c].at = "found"
         /\ UNCHANGED <<heap, idr, sm, failed>>
         /\ Only(c) /\ Ids(c) /\ proc' \in [Clients -> Procs] /\ Over(c, "ok")
BY ReturnFacts DEF keystone_mmap, At

\* Only fields of object o that say nothing of its allocation may change.
SameObject(o) == /\ heap' \in [Objs -> Objects] /\ Elsewhere(o)
                 /\ heap'[o].live = heap[o].live /\ heap'[o].owner = heap[o].owner

Monitor == [state : {"INVALID", "FRESH", "RUNNING", "STOPPED"}, obj : Objs \cup {NULL}]

\* The SBI call of finalize: a free enclave of the monitor gets the memory of the object.
LEMMA FinalizeEffect ==
  ASSUME DriverTypes, NEW c \in Clients, finalize_sbi(c)
  PROVE  /\ proc[c].op = "finalize" /\ proc[c].at = "found" /\ UNCHANGED idr
         /\ Only(c) /\ Ids(c) /\ proc' \in [Clients -> Procs] /\ proc[c].ptr \in Objs
         /\ failed \subseteq failed' /\ failed' \subseteq Kinds
         /\ SameObject(proc[c].ptr)
         /\ heap'[proc[c].ptr].eid = heap[proc[c].ptr].eid
         /\ heap'[proc[c].ptr].utm = heap[proc[c].ptr].utm
         /\ \/ /\ GoesOn(c, "created") /\ proc'[c].val \in Eids
               /\ sm[proc'[c].val].state = "INVALID"
               /\ sm' = [sm EXCEPT ![proc'[c].val] = [state |-> "FRESH", obj |-> proc[c].ptr]]
               /\ \A e \in Eids : Exists(e) => sm[e].obj # proc[c].ptr
            \/ UNCHANGED sm /\ GoesOn(c, "failed") /\ "sbi_create" \in failed'
<1> DEFINE o == proc[c].ptr
           free == {e \in Eids : sm[e].state = "INVALID"}
           taken == \E e \in Eids : sm[e].state # "INVALID" /\ sm[e].obj = o
<1>1. /\ proc[c].op = "finalize" /\ proc[c].at = "found" /\ UNCHANGED idr /\ o \in Objs
      /\ heap \in [Objs -> Objects] /\ failed \subseteq Kinds
      /\ heap' = [heap EXCEPT ![o].is_init = FALSE]
      /\ \/ /\ free # {} /\ ~taken
            /\ sm' = [sm EXCEPT ![Min(free)] = [state |-> "FRESH", obj |-> o]]
            /\ Set(c, [proc[c] EXCEPT !.at = "created", !.val = Min(free)])
            /\ UNCHANGED failed
         \/ /\ Fail("sbi_create", free = {} \/ taken)
            /\ Set(c, [proc[c] EXCEPT !.at = "failed"])
            /\ UNCHANGED sm
  BY DEF finalize_sbi, At, DriverTypes, Objects
<1>2. /\ SameObject(o) /\ heap'[o].eid = heap[o].eid /\ heap'[o].utm = heap[o].utm
  BY ZenonT(40), <1>1 DEF Objects, Elsewhere, SameObject
<1>3. free \in SUBSET Nat /\ \A e \in free : e \in 0 .. ULONG - 1
  BY ConstFacts
<1>4. free # {} => Min(free) \in free
  BY <1>3, MinFacts
<1>5. CASE /\ free # {} /\ ~taken
           /\ sm' = [sm EXCEPT ![Min(free)] = [state |-> "FRESH", obj |-> o]]
           /\ Set(c, [proc[c] EXCEPT !.at = "created", !.val = Min(free)])
           /\ UNCHANGED failed
  <2>1. Min(free) \in 0 .. ULONG - 1 /\ Min(free) \in Eids /\ sm[Min(free)].state = "INVALID"
    BY <1>3, <1>4, <1>5
  <2>2. \A e \in Eids : Exists(e) => sm[e].obj # o
    BY <1>5 DEF Exists
  <2> HIDE DEF free, taken, o
  <2>3. /\ proc' \in [Clients -> Procs] /\ Only(c) /\ Ids(c) /\ GoesOn(c, "created")
        /\ proc'[c].val = Min(free)
    BY <1>5, <2>1, MoveFacts DEF Places, Found
  <2> QED
    BY <1>1, <1>2, <1>5, <2>1, <2>2, <2>3 DEF o
<1>6. CASE /\ Fail("sbi_create", free = {} \/ taken)
           /\ Set(c, [proc[c] EXCEPT !.at = "failed"])
           /\ UNCHANGED sm
  <2> HIDE DEF free, taken
  <2>1. failed \subseteq failed' /\ failed' \subseteq Kinds /\ "sbi_create" \in failed'
    BY <1>6, FailFacts DEF Kinds
  <2>2. proc' \in [Clients -> Procs] /\ Only(c) /\ Ids(c) /\ GoesOn(c, "failed")
    BY <1>6, MoveFacts DEF Places
  <2> QED
    BY <1>1, <1>2, <1>6, <2>1, <2>2
<1> HIDE DEF free, taken
<1> QED
  BY <1>1, <1>5, <1>6

\* finalize stores the eid that the monitor returned.
LEMMA StoreEffect ==
  ASSUME DriverTypes, NEW c \in Clients, finalize_store(c)
  PROVE  /\ proc[c].op = "finalize" /\ proc[c].at = "created" /\ UNCHANGED <<idr, sm, failed>>
         /\ Only(c) /\ Ids(c) /\ proc' \in [Clients -> Procs] /\ Over(c, "ok")
         /\ proc[c].ptr \in Objs /\ SameObject(proc[c].ptr)
         /\ heap'[proc[c].ptr].eid = proc[c].val
         /\ heap'[proc[c].ptr].utm = heap[proc[c].ptr].utm
<1>1. /\ proc[c].op = "finalize" /\ proc[c].at = "created" /\ UNCHANGED <<idr, sm, failed>>
      /\ Return(c, proc[c], "ok") /\ proc[c].ptr \in Objs /\ proc[c].val \in 0 .. ULONG - 1
      /\ heap \in [Objs -> Objects] /\ heap' = [heap EXCEPT ![proc[c].ptr].eid = proc[c].val]
  BY DEF finalize_store, At, DriverTypes, Objects, Procs
<1>2. /\ SameObject(proc[c].ptr) /\ heap'[proc[c].ptr].eid = proc[c].val
      /\ heap'[proc[c].ptr].utm = heap[proc[c].ptr].utm
  BY ZenonT(40), <1>1 DEF Objects, Elsewhere, SameObject
<1> QED
  BY <1>1, <1>2, ReturnFacts

\* finalize frees the object on an error.
LEMMA ErrorEffect ==
  ASSUME DriverTypes, NEW c \in Clients, finalize_error(c)
  PROVE  /\ proc[c].op = "finalize" /\ proc[c].at = "failed" /\ UNCHANGED <<idr, sm, failed>>
         /\ Only(c) /\ Ids(c) /\ proc' \in [Clients -> Procs] /\ Over(c, "fail")
         /\ proc[c].ptr \in Objs /\ heap' \in [Objs -> Objects] /\ Elsewhere(proc[c].ptr)
<1>1. /\ proc[c].op = "finalize" /\ proc[c].at = "failed" /\ UNCHANGED <<idr, sm, failed>>
      /\ Return(c, proc[c], "fail") /\ proc[c].ptr \in Objs
      /\ heap \in [Objs -> Objects] /\ heap' = [heap EXCEPT ![proc[c].ptr].live = FALSE]
  BY DEF finalize_error, At, DriverTypes, Objects
<1>2. ASSUME NEW r \in Objects PROVE [r EXCEPT !.live = FALSE] \in Objects
  BY Zenon DEF Objects
<1>3. heap' \in [Objs -> Objects] /\ Elsewhere(proc[c].ptr)
  BY <1>1, <1>2 DEF Elsewhere
<1> QED
  BY <1>1, <1>3, ReturnFacts

\* The monitor but for enclave e.
Apart(e) == \A x \in Eids : x # e => sm'[x] = sm[x]

\* run and resume: the enclave of the object runs, if the monitor has it in that state.
LEMMA EnterEffect ==
  ASSUME DriverTypes, NEW c \in Clients, NEW from \in {"FRESH", "STOPPED"}, proc[c].at = "found",
         proc[c].op \in {"run", "resume"}, Enter(c, from)
  PROVE  /\ UNCHANGED <<heap, idr, failed>>
         /\ Only(c) /\ Ids(c) /\ proc' \in [Clients -> Procs] /\ proc[c].ptr \in Objs
         /\ \/ /\ GoesOn(c, "inside") /\ proc'[c].val = heap[proc[c].ptr].eid
               /\ proc'[c].val \in Eids /\ sm[proc'[c].val].state = from
               /\ sm' \in [Eids -> Monitor] /\ Apart(proc'[c].val)
               /\ sm'[proc'[c].val].state = "RUNNING"
               /\ sm'[proc'[c].val].obj = sm[proc'[c].val].obj
            \/ UNCHANGED sm /\ SmState(heap[proc[c].ptr].eid) # from /\ Over(c, "fail")
<1> DEFINE eid == heap[proc[c].ptr].eid
<1>1. /\ proc[c].ptr \in Objs /\ eid \in 0 .. ULONG - 1 /\ sm \in [Eids -> Monitor]
  BY DEF DriverTypes, Monitor
<1>2. /\ UNCHANGED <<heap, idr, failed>>
      /\ \/ /\ SmState(eid) = from
            /\ sm' = [sm EXCEPT ![eid].state = "RUNNING"]
            /\ Set(c, [proc[c] EXCEPT !.at = "inside", !.val = eid])
         \/ /\ SmState(eid) # from
            /\ Return(c, proc[c], "fail")
            /\ UNCHANGED sm
  BY DEF Enter
<1>3. CASE /\ SmState(eid) = from
           /\ sm' = [sm EXCEPT ![eid].state = "RUNNING"]
           /\ Set(c, [proc[c] EXCEPT !.at = "inside", !.val = eid])
  <2>1. eid \in Eids /\ sm[eid].state = from
    BY <1>3 DEF SmState
  <2>2. /\ sm' \in [Eids -> Monitor] /\ Apart(eid)
        /\ sm'[eid].state = "RUNNING" /\ sm'[eid].obj = sm[eid].obj
    BY <1>1, <1>3, <2>1 DEF Monitor, Apart
  <2>3. /\ proc' \in [Clients -> Procs] /\ Only(c) /\ Ids(c) /\ GoesOn(c, "inside")
        /\ proc'[c].val = eid
    BY ZenonT(40), <1>1, <1>3, MoveFacts DEF Places, Found
  <2> QED
    BY <1>1, <1>2, <2>1, <2>2, <2>3
<1>4. CASE SmState(eid) # from /\ Return(c, proc[c], "fail") /\ UNCHANGED sm
  BY <1>1, <1>2, <1>4, ReturnFacts
<1> QED
  BY <1>2, <1>3, <1>4

\* A running enclave stops and its caller returns.
LEMMA StopEffect ==
  ASSUME DriverTypes, NEW c \in Clients, enclave_stops(c)
  PROVE  /\ proc[c].op \in {"run", "resume"} /\ proc[c].at = "inside" /\ UNCHANGED <<heap, idr>>
         /\ Only(c) /\ Ids(c) /\ proc' \in [Clients -> Procs] /\ proc[c].ptr \in Objs
         /\ failed \subseteq failed' /\ failed' \subseteq Kinds
         /\ sm' \in [Eids -> Monitor] /\ Apart(proc[c].val)
         /\ proc[c].val \in Eids => /\ sm'[proc[c].val].state = "STOPPED"
                                    /\ sm'[proc[c].val].obj = sm[proc[c].val].obj
         /\ \/ Over(c, "again")
            \/ Over(c, "ok")
            \/ Over(c, "fail") /\ "unknown_stop" \in failed'
<1>1. /\ proc[c].op \in {"run", "resume"} /\ proc[c].at = "inside" /\ UNCHANGED <<heap, idr>>
      /\ proc[c].ptr \in Objs /\ sm \in [Eids -> Monitor] /\ failed \subseteq Kinds
      /\ sm' = [sm EXCEPT ![proc[c].val].state = "STOPPED"]
      /\ \/ \E result \in {"again", "ok"} : Return(c, proc[c], result) /\ UNCHANGED failed
         \/ Fault("unknown_stop") /\ Return(c, proc[c], "fail")
  BY DEF enclave_stops, At, DriverTypes, Monitor
<1>2. /\ sm' \in [Eids -> Monitor] /\ Apart(proc[c].val)
      /\ proc[c].val \in Eids => /\ sm'[proc[c].val].state = "STOPPED"
                                 /\ sm'[proc[c].val].obj = sm[proc[c].val].obj
  BY ZenonT(40), <1>1 DEF Monitor, Apart
<1>3. /\ failed \subseteq failed' /\ failed' \subseteq Kinds
      /\ UNCHANGED failed \/ "unknown_stop" \in failed'
  BY <1>1, FailFacts DEF Kinds
<1>4. CASE \E result \in {"again", "ok"} : Return(c, proc[c], result) /\ UNCHANGED failed
  BY <1>1, <1>2, <1>3, <1>4, ReturnFacts
<1>5. CASE Fault("unknown_stop") /\ Return(c, proc[c], "fail")
  <2>1. "unknown_stop" \in failed'
    BY <1>5, FailFacts DEF Kinds
  <2> QED
    BY <1>1, <1>2, <1>3, <1>5, <2>1, ReturnFacts
<1> QED
  BY <1>1, <1>4, <1>5

\* The SBI call of destroy: the enclave of the object is gone, unless the monitor refuses.
LEMMA DestroyEffect ==
  ASSUME DriverTypes, NEW c \in Clients, destroy_sbi(c)
  PROVE  /\ proc[c].op \in Destroys /\ proc[c].at = "found" /\ UNCHANGED <<heap, idr, failed>>
         /\ Only(c) /\ Ids(c) /\ proc' \in [Clients -> Procs] /\ proc[c].ptr \in Objs
         /\ \/ /\ GoesOn(c, "torn") /\ heap[proc[c].ptr].eid \in Eids
               /\ sm[heap[proc[c].ptr].eid].state \in {"FRESH", "STOPPED"}
               /\ sm' \in [Eids -> Monitor] /\ Apart(heap[proc[c].ptr].eid)
               /\ sm'[heap[proc[c].ptr].eid].state = "INVALID"
            \/ /\ UNCHANGED sm /\ Over(c, "fail")
               /\ SmState(heap[proc[c].ptr].eid) \notin {"FRESH", "STOPPED"}
<1> DEFINE eid == heap[proc[c].ptr].eid
<1>1. /\ proc[c].op \in Destroys /\ proc[c].at = "found" /\ UNCHANGED <<heap, idr, failed>>
      /\ proc[c].ptr \in Objs /\ sm \in [Eids -> Monitor]
      /\ \/ /\ SmState(eid) \in {"FRESH", "STOPPED"}
            /\ sm' = [sm EXCEPT ![eid] = [state |-> "INVALID", obj |-> NULL]]
            /\ Set(c, [proc[c] EXCEPT !.at = "torn"])
         \/ /\ SmState(eid) \notin {"FRESH", "STOPPED"}
            /\ Return(c, proc[c], "fail")
            /\ UNCHANGED sm
  BY DEF destroy_sbi, At, DriverTypes, Monitor
<1>2. CASE /\ SmState(eid) \in {"FRESH", "STOPPED"}
           /\ sm' = [sm EXCEPT ![eid] = [state |-> "INVALID", obj |-> NULL]]
           /\ Set(c, [proc[c] EXCEPT !.at = "torn"])
  <2>1. eid \in Eids /\ sm[eid].state \in {"FRESH", "STOPPED"}
    BY <1>2 DEF SmState
  <2>2. sm' \in [Eids -> Monitor] /\ Apart(eid) /\ sm'[eid].state = "INVALID"
    BY <1>1, <1>2, <2>1 DEF Monitor, Apart
  <2>3. proc' \in [Clients -> Procs] /\ Only(c) /\ Ids(c) /\ GoesOn(c, "torn")
    BY <1>2, MoveFacts DEF Places, Found
  <2> QED
    BY <1>1, <2>1, <2>2, <2>3
<1>3. CASE SmState(eid) \notin {"FRESH", "STOPPED"} /\ Return(c, proc[c], "fail") /\ UNCHANGED sm
  BY <1>1, <1>3, ReturnFacts DEF Destroys
<1> QED
  BY <1>1, <1>2, <1>3

\* destroy_enclave frees the object.
LEMMA FreeEffect ==
  ASSUME DriverTypes, NEW c \in Clients, destroy_enclave(c)
  PROVE  /\ proc[c].op \in Destroys /\ proc[c].at = "torn" /\ UNCHANGED <<idr, sm, failed>>
         /\ Only(c) /\ Ids(c) /\ proc' \in [Clients -> Procs] /\ GoesOn(c, "freed")
         /\ proc[c].ptr \in Objs /\ heap' \in [Objs -> Objects] /\ Elsewhere(proc[c].ptr)
         /\ ~heap'[proc[c].ptr].live
<1>1. /\ proc[c].op \in Destroys /\ proc[c].at = "torn" /\ UNCHANGED <<idr, sm, failed>>
      /\ Set(c, [proc[c] EXCEPT !.at = "freed"]) /\ proc[c].ptr \in Objs
      /\ heap \in [Objs -> Objects] /\ heap' = [heap EXCEPT ![proc[c].ptr].live = FALSE]
  BY DEF destroy_enclave, At, DriverTypes, Objects
<1>2. /\ heap' \in [Objs -> Objects] /\ Elsewhere(proc[c].ptr)
      /\ heap'[proc[c].ptr].live = FALSE
  BY ZenonT(40), <1>1 DEF Objects, Elsewhere
<1> QED
  BY <1>1, <1>2, MoveFacts DEF Places, Found

\* enclave_idr_remove clears the id of the object.
LEMMA RemoveEffect ==
  ASSUME DriverTypes, NEW c \in Clients, enclave_idr_remove(c)
  PROVE  /\ proc[c].op \in Destroys /\ proc[c].at = "freed" /\ UNCHANGED <<heap, sm, failed>>
         /\ idr' = [idr EXCEPT ![Argument(c)] = NULL]
         /\ Only(c) /\ proc' \in [Clients -> Procs] /\ Over(c, "ok")
         /\ proc'[c].eid = proc[c].eid /\ proc'[c].priv = 0
<1> DEFINE p == [proc[c] EXCEPT !.priv = 0]
           q == [p EXCEPT !.op = After(p.op, "ok"), !.at = "call", !.ptr = NULL, !.val = 0]
<1>1. /\ proc[c].op \in Destroys /\ proc[c].at = "freed" /\ UNCHANGED <<heap, sm, failed>>
      /\ idr' = [idr EXCEPT ![Argument(c)] = NULL] /\ Return(c, p, "ok") /\ proc[c] \in Procs
  BY DEF enclave_idr_remove, At, DriverTypes
<1>2. p \in Procs /\ p.op = proc[c].op /\ p.eid = proc[c].eid /\ p.priv = 0
  BY <1>1 DEF Procs
<1>3. Set(c, q)
  BY <1>1 DEF Return
<1>4. After(p.op, "ok") \in Ops /\ 0 \in 0 .. ULONG - 1
  BY SMT, <1>1, <1>2, AfterOps, ConstFacts DEF Destroys, Ops
<1> HIDE DEF p
<1>5. /\ q.op = After(p.op, "ok") /\ q.at = "call" /\ q.ptr = NULL /\ q.val = 0
      /\ q.eid = p.eid /\ q.priv = p.priv
  BY <1>2 DEF Procs
<1>6. q \in Procs
  BY <1>2, <1>4 DEF Procs, Places
<1> HIDE DEF q
<1> QED
  BY <1>1, <1>2, <1>3, <1>5, <1>6, SetFacts DEF Over

\* A process that is killed goes to keystone_release.
LEMMA KillEffect ==
  ASSUME DriverTypes, NEW c \in Clients, Kill(c)
  PROVE  /\ proc[c].op \notin {"release", "gone"} /\ proc[c].at = "call"
         /\ UNCHANGED <<heap, idr, sm, failed>> /\ Only(c) /\ Ids(c) /\ proc' \in [Clients -> Procs]
         /\ proc'[c].op = "release" /\ proc'[c].at = "call"
<1> DEFINE p == [proc[c] EXCEPT !.op = "release"]
<1>1. /\ proc[c].op \notin {"release", "gone"} /\ proc[c].at = "call"
      /\ UNCHANGED <<heap, idr, sm, failed>> /\ Set(c, p) /\ proc[c] \in Procs
  BY DEF Kill, DriverTypes
<1>2. /\ p \in Procs /\ p.op = "release" /\ p.at = proc[c].at
      /\ p.eid = proc[c].eid /\ p.priv = proc[c].priv
  BY <1>1 DEF Procs, Ops
<1> HIDE DEF p
<1> QED
  BY <1>1, <1>2, SetFacts DEF Ids

\* A new process has no id.
LEMMA SpawnEffect ==
  ASSUME DriverTypes, NEW c \in Clients, Spawn(c)
  PROVE  /\ proc[c].op = "gone" /\ DestroyedOnce
         /\ UNCHANGED <<heap, idr, sm, failed>> /\ Only(c) /\ proc' \in [Clients -> Procs]
         /\ proc'[c].op = "create" /\ proc'[c].at = "call" /\ proc'[c].eid = -1 /\ proc'[c].priv = 0
<1>1. /\ proc[c].op = "gone" /\ DestroyedOnce /\ UNCHANGED <<heap, idr, sm, failed>> /\ Set(c, NewProc)
  BY DEF Spawn
<1>2. /\ NewProc \in Procs /\ NewProc.op = "create" /\ NewProc.at = "call"
      /\ NewProc.eid = -1 /\ NewProc.priv = 0
  BY SMT, ConstFacts DEF NewProc, Procs, Ops, Places
<1> QED
  BY <1>1, <1>2, SetFacts

\* The invariant holds after boot.
LEMMA DriverInit ==
  ASSUME heap = Boot[1], idr = Boot[2], sm = Boot[3], proc = Boot[4], failed = Boot[5]
  PROVE  DriverInv
<1>1. /\ heap = [o \in Objs |-> [live |-> FALSE, eid |-> 0, utm |-> "none", is_init |-> FALSE,
                                  owner |-> NULL]]
      /\ idr = [u \in Ueids |-> NULL]
      /\ sm = [e \in Eids |-> [state |-> "INVALID", obj |-> NULL]]
      /\ proc = [c \in Clients |-> NewProc] /\ failed = {}
  BY DEF Boot
<1>2. /\ NewProc \in Procs /\ NewProc.op = "create" /\ NewProc.at = "call"
      /\ NewProc.eid = -1 /\ NewProc.priv = 0
  BY SMT, ConstFacts DEF NewProc, Procs, Ops, Places
<1>3. 0 \in 0 .. ULONG - 1
  BY SMT, ConstFacts
<1>4. DriverTypes
  BY SMTT(30), <1>1, <1>2, <1>3 DEF DriverTypes, PlaceOf
<1>5. ClientsInv
  BY <1>1, <1>2, ConstFacts DEF ClientsInv, IdsKept, Found
<1>6. OneHolder /\ IdsInv /\ EnclavesInv /\ ObjectsInv
  BY SMTT(30), <1>1, <1>2, ConstFacts DEF OneHolder, IdsInv, EnclavesInv, ObjectsInv, Exists
<1> QED
  BY <1>4, <1>5, <1>6 DEF DriverInv

(***************************************************************************)
(* Every step keeps the types.                                             *)
(***************************************************************************)
\* Types are kept by a step of one process that writes values of the right types.
LEMMA TypesKept ==
  ASSUME DriverTypes, NEW c \in Clients, Only(c), proc' \in [Clients -> Procs],
         UNCHANGED heap \/ heap' \in [Objs -> Objects],
         UNCHANGED idr \/ idr' \in [Ueids -> Objs \cup {NULL}],
         UNCHANGED sm \/ sm' \in [Eids -> Monitor],
         UNCHANGED failed \/ failed' \subseteq Kinds,
         PlaceOf(proc'[c].op, proc'[c].at), proc'[c].at # "call" => proc'[c].ptr \in Objs
  PROVE  DriverTypes'
<1>1. \A d \in Clients : /\ PlaceOf(proc'[d].op, proc'[d].at)
                         /\ proc'[d].at # "call" => proc'[d].ptr \in Objs
  BY DEF Only, DriverTypes
<1>2. /\ heap' \in [Objs -> Objects] /\ sm' \in [Eids -> Monitor] /\ failed' \subseteq Kinds
      /\ idr' \in [Ueids -> Objs \cup {NULL}]
  BY DEF DriverTypes, Objects, Monitor
<1> QED
  BY <1>1, <1>2 DEF DriverTypes, Objects, Monitor

\* The steps of a process.
Step(c) == \/ create_enclave(c) \/ enclave_idr_alloc(c) \/ get_enclave_by_id(c)
           \/ utm_init_ioctl(c) \/ keystone_mmap(c)
           \/ finalize_sbi(c) \/ finalize_store(c) \/ finalize_error(c)
           \/ keystone_run_enclave(c) \/ keystone_resume_enclave(c) \/ enclave_stops(c)
           \/ destroy_sbi(c) \/ destroy_enclave(c) \/ enclave_idr_remove(c)
           \/ Kill(c) \/ Spawn(c)

\* A call that has not started, and one that is over, is at a place it may be at.
LEMMA OverPlace ==
  ASSUME NEW c \in Clients, proc'[c].at = "call"
  PROVE  PlaceOf(proc'[c].op, proc'[c].at) /\ (proc'[c].at # "call" => proc'[c].ptr \in Objs)
BY DEF PlaceOf

\* Every step of a process keeps the types.
LEMMA TypesStep ==
  ASSUME DriverTypes, NEW c \in Clients, Step(c)
  PROVE  DriverTypes'
<1>0. heap \in [Objs -> Objects] /\ sm \in [Eids -> Monitor] /\ idr \in [Ueids -> Objs \cup {NULL}]
  BY DEF DriverTypes, Objects, Monitor
<1>1. CASE create_enclave(c)
  <2>1. UNCHANGED heap \/ heap' \in [Objs -> Objects]
    <3>1. NewObject(c) \in Objects
      BY ConstFacts DEF NewObject, Objects, Unset
    <3> QED
      BY SMT, <1>0, <1>1, <3>1, CreateEffect
  <2>2. PlaceOf(proc'[c].op, proc'[c].at) /\ (proc'[c].at # "call" => proc'[c].ptr \in Objs)
    BY <1>1, CreateEffect DEF PlaceOf, Over
  <2> QED
    BY <1>1, <2>1, <2>2, CreateEffect, TypesKept
<1>2. CASE enclave_idr_alloc(c)
  <2>1. proc[c].ptr \in Objs
    BY <1>2, AllocEffect DEF DriverTypes
  <2>2. UNCHANGED idr \/ idr' \in [Ueids -> Objs \cup {NULL}]
    BY SMT, <1>0, <1>2, <2>1, AllocEffect
  <2> QED
    BY <1>2, <2>2, AllocEffect, OverPlace, TypesKept
<1>3. CASE get_enclave_by_id(c)
  <2>1. PlaceOf(proc'[c].op, proc'[c].at) /\ (proc'[c].at # "call" => proc'[c].ptr \in Objs)
    BY <1>0, <1>3, LookupEffect DEF PlaceOf, Over
  <2> QED
    BY <1>3, <2>1, LookupEffect, TypesKept
<1>4. CASE utm_init_ioctl(c)
  BY <1>4, UtmEffect, OverPlace, TypesKept DEF Over
<1>5. CASE keystone_mmap(c)
  BY <1>5, MmapEffect, OverPlace, TypesKept DEF Over
<1>6. CASE finalize_sbi(c)
  <2>1. PlaceOf(proc'[c].op, proc'[c].at) /\ (proc'[c].at # "call" => proc'[c].ptr \in Objs)
    BY <1>6, FinalizeEffect DEF PlaceOf, GoesOn
  <2>2. [state |-> "FRESH", obj |-> proc[c].ptr] \in Monitor
    BY <1>6, FinalizeEffect DEF Monitor
  <2>3. UNCHANGED sm \/ sm' \in [Eids -> Monitor]
    BY <1>0, <1>6, <2>2, FinalizeEffect
  <2>4. heap' \in [Objs -> Objects]
    BY <1>6, FinalizeEffect DEF SameObject
  <2> QED
    BY <1>6, <2>1, <2>3, <2>4, FinalizeEffect, TypesKept
<1>7. CASE finalize_store(c)
  BY <1>7, StoreEffect, OverPlace, TypesKept DEF Over, SameObject
<1>8. CASE finalize_error(c)
  BY <1>8, ErrorEffect, OverPlace, TypesKept DEF Over
<1>9. CASE keystone_run_enclave(c) \/ keystone_resume_enclave(c)
  <2>1. PICK from \in {"FRESH", "STOPPED"} :
            proc[c].at = "found" /\ proc[c].op \in {"run", "resume"} /\ Enter(c, from)
    BY <1>9 DEF keystone_run_enclave, keystone_resume_enclave, At
  <2>2. PlaceOf(proc'[c].op, proc'[c].at) /\ (proc'[c].at # "call" => proc'[c].ptr \in Objs)
    BY <2>1, EnterEffect DEF PlaceOf, GoesOn, Over
  <2> QED
    BY <2>1, <2>2, EnterEffect, TypesKept
<1>10. CASE enclave_stops(c)
  BY <1>10, StopEffect, OverPlace, TypesKept DEF Over
<1>11. CASE destroy_sbi(c)
  <2>1. PlaceOf(proc'[c].op, proc'[c].at) /\ (proc'[c].at # "call" => proc'[c].ptr \in Objs)
    BY <1>11, DestroyEffect DEF PlaceOf, GoesOn, Over
  <2> QED
    BY <1>11, <2>1, DestroyEffect, TypesKept
<1>12. CASE destroy_enclave(c)
  <2>1. PlaceOf(proc'[c].op, proc'[c].at) /\ (proc'[c].at # "call" => proc'[c].ptr \in Objs)
    BY <1>12, FreeEffect DEF PlaceOf, GoesOn
  <2> QED
    BY <1>12, <2>1, FreeEffect, TypesKept
<1>13. CASE enclave_idr_remove(c)
  <2>1. idr' \in [Ueids -> Objs \cup {NULL}]
    BY <1>0, <1>13, RemoveEffect
  <2> QED
    BY <1>13, <2>1, RemoveEffect, OverPlace, TypesKept DEF Over
<1>14. CASE Kill(c)
  BY <1>14, KillEffect, OverPlace, TypesKept
<1>15. CASE Spawn(c)
  BY <1>15, SpawnEffect, OverPlace, TypesKept
<1> QED
  BY <1>1, <1>2, <1>3, <1>4, <1>5, <1>6, <1>7, <1>8, <1>9, <1>10, <1>11, <1>12, <1>13, <1>14,
     <1>15 DEF Step

(***************************************************************************)
(* Every step keeps the links.                                             *)
(***************************************************************************)
Links == ClientsInv /\ OneHolder /\ IdsInv /\ EnclavesInv /\ ObjectsInv

\* A step of c on its own object and the enclave of it, or on an enclave nobody has.
OwnStep(c) ==
    /\ Only(c) /\ UNCHANGED idr /\ failed \subseteq failed'
    /\ proc'[c].priv = proc[c].priv \/ proc'[c].priv = 0
    /\ proc[c].at # "freed" /\ proc'[c].at \notin {"made", "freed"}
    /\ proc[c].at = "made" => "idr" \in failed'
    /\ \A x \in Objs : \/ heap'[x] = heap[x]
                       \/ /\ proc[c].priv \in Ueids /\ x = Mine(c)
                          /\ heap'[x].live = heap[x].live /\ heap'[x].owner = heap[x].owner
    /\ \A e \in Eids : \/ sm'[e] = sm[e] \/ ~Exists(e)
                       \/ proc[c].priv \in Ueids /\ sm[e].obj = Mine(c)
    /\ \A e \in Eids : Exists(e)' /\ (sm'[e] # sm[e] \/ Serves(c, e)) => Serves(c, e)'

\* A step of c on its own object and enclave keeps all links: the other processes have
\* other ids, objects and enclaves.
LEMMA OwnKeeps ==
  ASSUME DriverTypes, DriverTypes', Links, NEW c \in Clients, OwnStep(c),
         IdsKept(c)', proc'[c].priv \in Ueids => Owned(c)'
  PROVE  Links'
<1>1. \A d \in Clients : d # c => proc'[d] = proc[d]
  BY DEF OwnStep, Only
<1>2. \A u \in Ueids : Freed(u)' <=> Freed(u)
  BY ZenonT(40), <1>1 DEF OwnStep, Freed
<1>3. \A d \in Clients : /\ IdsKept(d)
                         /\ proc[d].priv \in Ueids => Mine(d) \in Objs
                         /\ proc[d].priv \in Ueids /\ proc[d].at # "freed" =>
                               Owned(d) /\ heap[Mine(d)].live /\ heap[Mine(d)].owner = d
                         /\ proc[d].at = "made" => Made(d) /\ proc[d].ptr \in Objs
  BY SMT DEF Links, ClientsInv, Owned, IdsKept, DriverTypes
<1>4. \A x \in Objs : heap'[x].live = heap[x].live /\ heap'[x].owner = heap[x].owner
  BY DEF OwnStep
<1>5. \A x \in Objs : heap[x].owner # c => heap'[x] = heap[x]
  BY <1>3 DEF OwnStep
<1>6. \A e \in Eids : Exists(e) /\ sm[e].obj \in Objs /\ heap[sm[e].obj].owner # c => sm'[e] = sm[e]
  BY <1>3 DEF OwnStep
<1>7. ASSUME NEW d \in Clients, d # c
      PROVE  /\ IdsKept(d)'
             /\ proc'[d].priv \in Ueids /\ proc'[d].at # "freed" => Owned(d)'
             /\ proc'[d].at = "made" => Made(d)'
  <2>1. Mine(d)' = Mine(d) /\ proc'[d] = proc[d]
    BY <1>1, <1>7 DEF Mine, OwnStep
  <2>2. IdsKept(d)'
    BY ZenonT(40), <1>3, <2>1 DEF IdsKept
  <2>3. ASSUME proc[d].priv \in Ueids, proc[d].at # "freed" PROVE Owned(d)'
    <3>1. Mine(d) \in Objs /\ Owned(d) /\ heap[Mine(d)].owner = d
      BY <1>3, <2>3
    <3>2. heap'[Mine(d)] = heap[Mine(d)]
      BY <3>1, <1>5, <1>7
    <3>3. ASSUME NEW e, NEW states \in SUBSET {"FRESH", "RUNNING", "STOPPED"}, Backs(e, Mine(d), states)
          PROVE  e \in Eids /\ sm'[e].state \in states /\ sm'[e].obj = Mine(d)
      <4>1. e \in Eids /\ sm[e].state \in states /\ sm[e].obj = Mine(d)
        BY <3>3 DEF Backs
      <4>2. sm'[e] = sm[e]
        BY <4>1, <3>1, <1>6, <1>7 DEF Exists
      <4> QED
        BY <4>1, <4>2
    <3>4. \A e : \A states \in SUBSET {"FRESH", "RUNNING", "STOPPED"} :
              Backs(e, Mine(d), states) => Backs(e, Mine(d), states)'
      BY <3>3, <2>1 DEF Backs
    <3> QED
      BY <2>1, <3>1, <3>2, <3>4 DEF Owned
  <2>4. ASSUME proc[d].at = "made" PROVE Made(d)'
    <3>1. Made(d) /\ heap'[proc[d].ptr] = heap[proc[d].ptr]
      BY <1>3, <1>5, <1>7, <2>4 DEF Made
    <3> QED
      BY <3>1, <2>1, <1>2 DEF Made, OwnStep
  <2> QED
    BY <2>1, <2>2, <2>3, <2>4
<1>8. ClientsInv'
  BY <1>7 DEF ClientsInv, OwnStep
<1>9. OneHolder'
  BY SMTT(30), <1>1, ConstFacts DEF OwnStep, OneHolder, Links
<1>10. IdsInv'
  <2>1. \A u \in Ueids : idr'[u] = idr[u] /\ (idr[u] # NULL => idr[u] \in Objs)
    BY DEF OwnStep, DriverTypes
  <2> QED
    BY <2>1, <1>2, <1>4 DEF IdsInv, Links
<1>11. ASSUME NEW e \in Eids, Exists(e)' PROVE \E d \in Clients : Serves(d, e)'
  <2>1. CASE sm'[e] # sm[e] \/ Serves(c, e)
    BY <2>1, <1>11 DEF OwnStep
  <2>2. CASE sm'[e] = sm[e] /\ ~Serves(c, e)
    <3>1. Exists(e)
      BY <2>2, <1>11 DEF Exists
    <3>2. PICK d \in Clients : Serves(d, e) /\ d # c
      BY <3>1, <2>2 DEF Links, EnclavesInv
    <3>3. Mine(d) \in Objs /\ heap[Mine(d)].owner = d /\ Mine(d) = sm[e].obj
      BY <3>2, <1>3 DEF Serves
    <3>4. heap'[sm[e].obj] = heap[sm[e].obj] /\ Mine(d)' = Mine(d) /\ proc'[d] = proc[d]
      BY <3>2, <3>3, <1>5, <1>1 DEF Mine, OwnStep
    <3>5. Serves(d, e)'
      BY <2>2, <3>2, <3>4 DEF Serves
    <3> QED
      BY <3>5
  <2> QED
    BY <2>1, <2>2
<1>12. EnclavesInv'
  BY <1>11 DEF EnclavesInv
<1>13. ObjectsInv'
  <2>1. SUFFICES ASSUME "idr" \notin failed', NEW o \in Objs, heap'[o].live
                 PROVE  \/ \E u \in Ueids : idr'[u] = o /\ ~Freed(u)'
                        \/ \E d \in Clients : proc'[d].at = "made" /\ proc'[d].ptr = o
    BY DEF ObjectsInv
  <2>2. "idr" \notin failed /\ heap[o].live /\ proc[c].at # "made"
    BY <2>1, <1>4 DEF OwnStep
  <2>3. \/ \E u \in Ueids : idr[u] = o /\ ~Freed(u)
        \/ \E d \in Clients : proc[d].at = "made" /\ proc[d].ptr = o
    BY <2>2 DEF Links, ObjectsInv
  <2> QED
    BY <2>2, <2>3, <1>1, <1>2 DEF OwnStep
<1> QED
  BY <1>8, <1>9, <1>10, <1>12, <1>13 DEF Links

\* A step elsewhere leaves the links of d.
LEMMA OwnedKept ==
  ASSUME NEW d \in Clients, UNCHANGED sm, proc'[d] = proc[d], Mine(d)' = Mine(d),
         heap'[Mine(d)] = heap[Mine(d)], Owned(d)
  PROVE  Owned(d)'
<1>1. \A e, states : Backs(e, Mine(d), states)' <=> Backs(e, Mine(d), states)
  BY DEF Backs
<1> QED
  BY <1>1 DEF Owned

\* create_enclave keeps the links: nothing leads to the object it takes.
LEMMA CreateKeeps ==
  ASSUME DriverTypes, DriverTypes', Links, NEW c \in Clients, create_enclave(c)
  PROVE  Links'
<1>1. \A d \in Clients : d # c => proc'[d] = proc[d]
  BY CreateEffect DEF Only
<1>2. /\ proc[c].op = "create" /\ proc[c].at = "call" /\ UNCHANGED <<idr, sm>>
      /\ proc'[c].eid = proc[c].eid /\ proc'[c].priv = proc[c].priv
      /\ proc[c].priv = 0 /\ proc[c].eid = -1 /\ failed \subseteq failed' /\ 0 \notin Ueids
  BY CreateEffect, ConstFacts DEF Links, ClientsInv, IdsKept, Ids
<1>3. CASE UNCHANGED heap /\ Over(c, "fail")
  <2>1. proc'[c].op = "destroy" /\ proc'[c].at = "call"
    BY <1>2, <1>3, AfterFacts DEF Over
  <2>2. OwnStep(c)
    BY <1>2, <1>3, <2>1, CreateEffect DEF OwnStep, Serves
  <2>3. IdsKept(c)'
    BY <1>2, <2>1 DEF IdsKept, Found
  <2> QED
    BY <1>2, <2>2, <2>3, OwnKeeps
<1>4. CASE /\ proc'[c].op = "create" /\ proc'[c].at = "made" /\ proc'[c].ptr \in Objs
           /\ UNCHANGED failed /\ ~heap[proc'[c].ptr].live
           /\ heap' = [heap EXCEPT ![proc'[c].ptr] = NewObject(c)]
  <2> DEFINE o == proc'[c].ptr
  <2>0. o \in Objs /\ ~heap[o].live
    BY <1>4
  <2>1. \A x \in Objs : x # o => heap'[x] = heap[x]
    BY <1>4 DEF DriverTypes
  <2>2. heap'[o].live /\ heap'[o].owner = c /\ heap'[o].eid = Unset
    BY <1>4 DEF DriverTypes, NewObject, Unset
  <2>3. \A u \in Ueids : Freed(u)' <=> Freed(u)
    BY ZenonT(40), <1>1, <1>2, <1>4 DEF Freed
  <2>4. \A d \in Clients : /\ IdsKept(d)
                           /\ proc[d].priv \in Ueids => Mine(d) \in Objs
                           /\ proc[d].priv \in Ueids /\ proc[d].at # "freed" =>
                                 Owned(d) /\ heap[Mine(d)].live
                           /\ proc[d].at = "made" => /\ Made(d) /\ proc[d].ptr \in Objs
                                                     /\ heap[proc[d].ptr].live
    BY SMT DEF Links, ClientsInv, Owned, IdsKept, Made, DriverTypes
  <2>5. \A d \in Clients : d # c => Mine(d)' = Mine(d) /\ proc'[d] = proc[d]
    BY <1>1, <1>2 DEF Mine
  <2> HIDE DEF o
  <2>6. ASSUME NEW d \in Clients, d # c
        PROVE  /\ IdsKept(d)'
               /\ proc'[d].priv \in Ueids /\ proc'[d].at # "freed" => Owned(d)'
               /\ proc'[d].at = "made" => Made(d)'
    <3>1. IdsKept(d)'
      BY <2>4, <2>5, <2>6 DEF IdsKept
    <3>2. ASSUME proc[d].priv \in Ueids, proc[d].at # "freed" PROVE Owned(d)'
      <4>1. Owned(d) /\ heap'[Mine(d)] = heap[Mine(d)]
        BY <2>0, <2>1, <2>4, <3>2
      <4> QED
        BY <4>1, <2>5, <2>6, <1>2, OwnedKept
    <3>3. ASSUME proc[d].at = "made" PROVE Made(d)'
      <4>1. Made(d) /\ heap'[proc[d].ptr] = heap[proc[d].ptr]
        BY <2>0, <2>1, <2>4, <3>3
      <4> QED
        BY <4>1, <2>3, <2>5, <2>6, <1>2 DEF Made
    <3> QED
      BY <2>5, <2>6, <3>1, <3>2, <3>3
  <2>7. IdsKept(c)' /\ Made(c)'
    <3>1. \A u \in Ueids : idr[u] = o => Freed(u)
      BY <2>0, ConstFacts DEF Links, IdsInv
    <3>2. Made(c)'
      BY <3>1, <2>2, <2>3, <1>2 DEF Made, o
    <3> QED
      BY <3>2, <1>2, <1>4 DEF IdsKept, Found
  <2>8. ClientsInv'
    BY <2>6, <2>7, <1>2 DEF ClientsInv
  <2>9. OneHolder'
    BY ZenonT(40), <1>1, <1>2 DEF Links, OneHolder
  <2>10. IdsInv'
    <3>1. \A u \in Ueids : idr'[u] = idr[u] /\ (idr[u] # NULL => idr[u] \in Objs)
      BY <1>2 DEF DriverTypes
    <3>2. \A u \in Ueids : idr[u] # NULL => heap'[idr[u]].live \/ Freed(u)
      BY <3>1, <2>1, <2>2 DEF Links, IdsInv
    <3> QED
      BY <3>1, <3>2, <2>3 DEF IdsInv, Links
  <2>11. ASSUME NEW e \in Eids, Exists(e)' PROVE \E d \in Clients : Serves(d, e)'
    <3>1. Exists(e)
      BY <2>11, <1>2 DEF Exists
    <3>2. PICK d \in Clients : Serves(d, e)
      BY <3>1 DEF Links, EnclavesInv
    <3>3. d # c /\ Mine(d) = sm[e].obj /\ proc[d].priv \in Ueids /\ proc[d].at # "freed"
      BY <3>2, <1>2 DEF Serves
    <3>4. heap'[sm[e].obj] = heap[sm[e].obj]
      BY <3>3, <2>0, <2>1, <2>4
    <3>5. Serves(d, e)'
      BY <3>2, <3>3, <3>4, <2>5, <1>2 DEF Serves
    <3> QED
      BY <3>5
  <2>12. ObjectsInv'
    <3>1. SUFFICES ASSUME "idr" \notin failed', NEW x \in Objs, heap'[x].live
                   PROVE  \/ \E u \in Ueids : idr'[u] = x /\ ~Freed(u)'
                          \/ \E d \in Clients : proc'[d].at = "made" /\ proc'[d].ptr = x
      BY DEF ObjectsInv
    <3>2. CASE x = o
      BY <3>2, <1>4 DEF o
    <3>3. CASE x # o
      <4>1. \/ \E u \in Ueids : idr[u] = x /\ ~Freed(u)
            \/ \E d \in Clients : proc[d].at = "made" /\ proc[d].ptr = x
        BY <3>1, <3>3, <2>1, <1>4 DEF Links, ObjectsInv
      <4> QED
        BY <4>1, <2>3, <1>1, <1>2
    <3> QED
      BY <3>2, <3>3
  <2> QED
    BY <2>8, <2>9, <2>10, <2>11, <2>12 DEF Links, EnclavesInv
<1> QED
  BY <1>3, <1>4, CreateEffect

\* destroy_enclave keeps the links: only the id of c leads to the object it frees.
LEMMA FreeKeeps ==
  ASSUME DriverTypes, DriverTypes', Links, NEW c \in Clients, destroy_enclave(c)
  PROVE  Links'
<1> DEFINE o == proc[c].ptr
           u0 == proc[c].priv
<1>1. \A d \in Clients : d # c => proc'[d] = proc[d]
  BY FreeEffect DEF Only
<1>2. /\ proc[c].op \in Destroys /\ proc[c].at = "torn" /\ UNCHANGED <<idr, sm, failed>>
      /\ proc'[c].op = proc[c].op /\ proc'[c].at = "freed" /\ proc'[c].ptr = o
      /\ proc'[c].eid = proc[c].eid /\ proc'[c].priv = u0
  BY FreeEffect DEF GoesOn, Ids
<1>3. o \in Objs /\ ~heap'[o].live /\ \A x \in Objs : x # o => heap'[x] = heap[x]
  BY FreeEffect DEF Elsewhere
<1>4. u0 \in Ueids /\ idr[u0] = o /\ Owned(c) /\ heap[o].owner = c
  <2>1. IdsKept(c) /\ (proc[c].priv \in Ueids => Owned(c))
    BY <1>2 DEF Links, ClientsInv
  <2>2. u0 \in Ueids /\ Mine(c) = o
    BY <2>1, <1>2 DEF IdsKept, Found
  <2> QED
    BY <2>1, <2>2 DEF Owned, Mine
<1>5. \A u \in Ueids : Freed(u)' <=> Freed(u) \/ u = u0
  BY <1>1, <1>2 DEF Freed
<1>6. ~Freed(u0)
  BY <1>2, <1>4 DEF Freed, Links, OneHolder
<1>7. \A d \in Clients : /\ IdsKept(d)
                         /\ proc[d].priv \in Ueids => Mine(d) \in Objs
                         /\ proc[d].priv \in Ueids /\ proc[d].at # "freed" =>
                               Owned(d) /\ heap[Mine(d)].owner = d
                         /\ proc[d].at = "made" => /\ Made(d) /\ proc[d].ptr \in Objs
                                                   /\ heap[proc[d].ptr].owner = d
  BY SMT DEF Links, ClientsInv, Owned, IdsKept, Made, DriverTypes
<1>8. \A d \in Clients : d # c => Mine(d)' = Mine(d) /\ proc'[d] = proc[d]
  BY <1>1, <1>2 DEF Mine
<1> HIDE DEF o, u0
<1>9. ASSUME NEW d \in Clients, d # c
      PROVE  /\ IdsKept(d)'
             /\ proc'[d].priv \in Ueids /\ proc'[d].at # "freed" => Owned(d)'
             /\ proc'[d].at = "made" => Made(d)'
  <2>1. IdsKept(d)'
    BY SMT, <1>7, <1>8, <1>9 DEF IdsKept
  <2>2. ASSUME proc[d].priv \in Ueids, proc[d].at # "freed" PROVE Owned(d)'
    <3>1. Owned(d) /\ heap'[Mine(d)] = heap[Mine(d)]
      BY <1>3, <1>4, <1>7, <1>9, <2>2
    <3> QED
      BY <3>1, <1>8, <1>9, <1>2, OwnedKept
  <2>3. ASSUME proc[d].at = "made" PROVE Made(d)'
    <3>1. Made(d) /\ heap'[proc[d].ptr] = heap[proc[d].ptr]
      BY <1>3, <1>4, <1>7, <1>9, <2>3
    <3> QED
      BY <3>1, <1>5, <1>8, <1>9, <1>2 DEF Made
  <2> QED
    BY ZenonT(40), <1>8, <1>9, <2>1, <2>2, <2>3
<1>10. IdsKept(c)'
  <2>1. IdsKept(c) /\ Mine(c)' = Mine(c)
    BY <1>2, <1>7 DEF Mine, u0
  <2> QED
    BY <2>1, <1>2 DEF IdsKept, Found, Destroys, o, u0
<1>11. ClientsInv'
  BY <1>9, <1>10, <1>2 DEF ClientsInv
<1>12. OneHolder'
  BY SMT, <1>1, <1>2 DEF Links, OneHolder, u0
<1>13. IdsInv'
  <2>1. \A u \in Ueids : idr'[u] = idr[u] /\ (idr[u] # NULL => idr[u] \in Objs)
    BY <1>2 DEF DriverTypes
  <2>2. ASSUME NEW u \in Ueids, idr[u] # NULL PROVE heap'[idr[u]].live \/ Freed(u)'
    <3>1. CASE idr[u] = o
      BY <3>1, <2>2, <1>4, <1>5, <1>6 DEF Links, IdsInv
    <3>2. CASE idr[u] # o
      BY <3>2, <2>1, <2>2, <1>3, <1>5 DEF Links, IdsInv
    <3> QED
      BY <3>1, <3>2
  <2>3. \A u, v \in Ueids : idr'[u] # NULL /\ idr'[u] = idr'[v] => u = v \/ Freed(u)' \/ Freed(v)'
    BY <2>1, <1>5 DEF Links, IdsInv
  <2>4. \A u \in Ueids : idr'[u] # NULL => heap'[idr'[u]].live \/ Freed(u)'
    BY <2>1, <2>2
  <2> QED
    BY <2>3, <2>4 DEF IdsInv
<1>14. ASSUME NEW e \in Eids, Exists(e)' PROVE \E d \in Clients : Serves(d, e)'
  <2>1. Exists(e)
    BY <1>14, <1>2 DEF Exists
  <2>2. PICK d \in Clients : Serves(d, e)
    BY <2>1 DEF Links, EnclavesInv
  <2>3. d # c /\ Mine(d) = sm[e].obj /\ proc[d].priv \in Ueids /\ proc[d].at # "freed"
    BY <2>2, <1>2 DEF Serves
  <2>4. heap'[sm[e].obj] = heap[sm[e].obj]
    BY SMT, <2>3, <1>3, <1>4, <1>7
  <2>5. Serves(d, e)'
    BY <2>2, <2>3, <2>4, <1>8, <1>2 DEF Serves
  <2> QED
    BY <2>5
<1>15. ObjectsInv'
  <2>1. SUFFICES ASSUME "idr" \notin failed', NEW x \in Objs, heap'[x].live
                 PROVE  \/ \E u \in Ueids : idr'[u] = x /\ ~Freed(u)'
                        \/ \E d \in Clients : proc'[d].at = "made" /\ proc'[d].ptr = x
    BY DEF ObjectsInv
  <2>2. x # o /\ heap[x].live
    BY <2>1, <1>3
  <2>3. \/ \E u \in Ueids : idr[u] = x /\ ~Freed(u)
        \/ \E d \in Clients : proc[d].at = "made" /\ proc[d].ptr = x
    BY <2>1, <2>2, <1>2 DEF Links, ObjectsInv
  <2> QED
    BY ZenonT(40), <2>2, <2>3, <1>1, <1>2, <1>4, <1>5
<1> QED
  BY <1>11, <1>12, <1>13, <1>14, <1>15 DEF Links, EnclavesInv

\* enclave_idr_remove keeps the links: the object of the id is freed already.
LEMMA RemoveKeeps ==
  ASSUME DriverTypes, DriverTypes', Links, NEW c \in Clients, enclave_idr_remove(c)
  PROVE  Links'
<1> DEFINE u0 == proc[c].priv
<1>1. \A d \in Clients : d # c => proc'[d] = proc[d]
  BY RemoveEffect DEF Only
<1>2. /\ proc[c].op \in Destroys /\ proc[c].at = "freed" /\ UNCHANGED <<heap, sm, failed>>
      /\ proc'[c].at = "call" /\ proc'[c].priv = 0 /\ 0 \notin Ueids
  BY RemoveEffect, ConstFacts DEF Over
<1>3. proc[c].op \in {"dtor", "release"} /\ u0 \in Ueids /\ Argument(c) = u0
  BY <1>2 DEF Links, ClientsInv, IdsKept, Found, Destroys, Argument
<1>4. proc'[c].op \in {"release", "gone"}
  BY SMTT(30), <1>3, RemoveEffect, AfterFacts DEF Over
<1>5. \A u \in Ueids : idr'[u] = IF u = u0 THEN NULL ELSE idr[u]
  BY SMT, <1>3, RemoveEffect DEF DriverTypes
<1>6. \A d \in Clients : d # c => proc[d].priv # u0
  BY <1>3 DEF Links, OneHolder
<1>7. \A u \in Ueids : Freed(u)' <=> Freed(u) /\ u # u0
  BY <1>1, <1>2, <1>6 DEF Freed
<1>8. Freed(u0)
  BY <1>2 DEF Freed
<1> HIDE DEF u0
<1>9. \A d \in Clients : /\ IdsKept(d)
                         /\ proc[d].priv \in Ueids /\ proc[d].at # "freed" => Owned(d)
                         /\ proc[d].at = "made" => Made(d)
  BY DEF Links, ClientsInv
<1>10. ASSUME NEW d \in Clients, d # c
       PROVE  /\ IdsKept(d)'
              /\ proc'[d].priv \in Ueids /\ proc'[d].at # "freed" => Owned(d)'
              /\ proc'[d].at = "made" => Made(d)'
  <2>1. proc'[d] = proc[d] /\ (proc[d].priv \in Ueids => Mine(d)' = Mine(d))
    BY <1>1, <1>5, <1>6, <1>10 DEF Mine
  <2>2. IdsKept(d)'
    BY <1>9, <2>1 DEF IdsKept
  <2>3. ASSUME proc[d].priv \in Ueids, proc[d].at # "freed" PROVE Owned(d)'
    BY <2>1, <2>3, <1>2, <1>9, OwnedKept
  <2>4. ASSUME proc[d].at = "made" PROVE Made(d)'
    BY SMTT(30), <2>1, <2>4, <1>2, <1>5, <1>7, <1>9, ConstFacts DEF Made, DriverTypes
  <2> QED
    BY <2>1, <2>2, <2>3, <2>4
<1>11. IdsKept(c)'
  BY <1>2, <1>4 DEF IdsKept, Found
<1>12. ClientsInv'
  BY <1>10, <1>11, <1>2 DEF ClientsInv
<1>13. OneHolder'
  BY <1>1, <1>2 DEF Links, OneHolder
<1>14. IdsInv'
  BY <1>2, <1>5, <1>7 DEF Links, IdsInv
<1>15. ASSUME NEW e \in Eids, Exists(e)' PROVE \E d \in Clients : Serves(d, e)'
  <2>1. Exists(e)
    BY <1>15, <1>2 DEF Exists
  <2>2. PICK d \in Clients : Serves(d, e)
    BY <2>1 DEF Links, EnclavesInv
  <2>3. d # c /\ proc'[d] = proc[d] /\ Mine(d)' = Mine(d)
    BY <2>2, <1>1, <1>2, <1>5, <1>6 DEF Serves, Mine
  <2>4. Serves(d, e)'
    BY <2>2, <2>3, <1>2 DEF Serves
  <2> QED
    BY <2>4
<1>16. ObjectsInv'
  <2>1. SUFFICES ASSUME "idr" \notin failed', NEW x \in Objs, heap'[x].live
                 PROVE  \/ \E u \in Ueids : idr'[u] = x /\ ~Freed(u)'
                        \/ \E d \in Clients : proc'[d].at = "made" /\ proc'[d].ptr = x
    BY DEF ObjectsInv
  <2>2. \/ \E u \in Ueids : idr[u] = x /\ ~Freed(u)
        \/ \E d \in Clients : proc[d].at = "made" /\ proc[d].ptr = x
    BY <2>1, <1>2 DEF Links, ObjectsInv
  <2> QED
    BY <2>2, <1>1, <1>2, <1>5, <1>7, <1>8
<1> QED
  BY <1>12, <1>13, <1>14, <1>15, <1>16 DEF Links, EnclavesInv

\* enclave_idr_alloc keeps the links: nobody has the id it takes.
LEMMA AllocKeeps ==
  ASSUME DriverTypes, DriverTypes', Links, NEW c \in Clients, enclave_idr_alloc(c)
  PROVE  Links'
<1> DEFINE o == proc[c].ptr
           u0 == proc'[c].priv
<1>1. \A d \in Clients : d # c => proc'[d] = proc[d]
  BY AllocEffect DEF Only
<1>2. /\ proc[c].op = "create" /\ proc[c].at = "made" /\ UNCHANGED <<heap, sm>> /\ o \in Objs
      /\ proc'[c].op = "utm" /\ proc'[c].at = "call" /\ proc'[c].eid = u0
      /\ failed \subseteq failed'
  BY AllocEffect DEF DriverTypes
<1>3. proc[c].priv = 0 /\ 0 \notin Ueids /\ NULL \notin Objs /\ Made(c)
  BY <1>2, ConstFacts DEF Links, ClientsInv, IdsKept
<1>4. CASE UNCHANGED idr /\ u0 = 0 /\ "idr" \in failed'
  <2>1. OwnStep(c)
    BY <1>1, <1>2, <1>3, <1>4 DEF OwnStep, Only, Serves
  <2>2. IdsKept(c)'
    BY <1>2, <1>3, <1>4 DEF IdsKept, Found
  <2> QED
    BY <2>1, <2>2, <1>3, <1>4, OwnKeeps
<1>5. CASE /\ u0 \in Ueids /\ idr[u0] = NULL /\ UNCHANGED failed
           /\ idr' = [idr EXCEPT ![u0] = o]
  <2>1. \A u \in Ueids : idr'[u] = IF u = u0 THEN o ELSE idr[u]
    BY <1>5 DEF DriverTypes
  <2>2. \A d \in Clients : /\ IdsKept(d)
                           /\ proc[d].priv \in Ueids => Mine(d) \in Objs
                           /\ proc[d].priv \in Ueids /\ proc[d].at # "freed" => Owned(d)
                           /\ proc[d].at = "made" => Made(d) /\ proc[d].ptr \in Objs
    BY DEF Links, ClientsInv, IdsKept, DriverTypes
  <2>3. \A d \in Clients : proc[d].priv # u0
    BY <2>2, <1>3, <1>5 DEF Mine
  <2>4. \A u \in Ueids : Freed(u)' <=> Freed(u)
    BY <1>1, <1>2 DEF Freed
  <2>5. ~Freed(u0)
    BY <2>3 DEF Freed
  <2>6. /\ heap[o].live /\ heap[o].owner = c /\ heap[o].eid = Unset
        /\ \A u \in Ueids : idr[u] = o => Freed(u)
    BY <1>3 DEF Made
  <2> HIDE DEF o, u0
  <2>7. ASSUME NEW d \in Clients, d # c
        PROVE  /\ IdsKept(d)'
               /\ proc'[d].priv \in Ueids /\ proc'[d].at # "freed" => Owned(d)'
               /\ proc'[d].at = "made" => Made(d)'
    <3>1. proc'[d] = proc[d] /\ (proc[d].priv \in Ueids => Mine(d)' = Mine(d))
      BY <1>1, <2>1, <2>3, <2>7 DEF Mine
    <3>2. IdsKept(d)'
      BY <2>2, <3>1 DEF IdsKept
    <3>3. ASSUME proc[d].priv \in Ueids, proc[d].at # "freed" PROVE Owned(d)'
      BY <3>1, <3>3, <1>2, <2>2, OwnedKept
    <3>4. ASSUME proc[d].at = "made" PROVE Made(d)'
      <4>1. Made(d) /\ proc[d].ptr # o
        BY <3>4, <2>2, <2>6, <2>7 DEF Made
      <4> QED
        BY <4>1, <3>1, <1>2, <2>1, <2>4 DEF Made
    <3> QED
      BY <3>1, <3>2, <3>3, <3>4
  <2>8. Mine(c)' = o
    BY <1>5, <2>1 DEF Mine, u0
  <2>9. IdsKept(c)'
    BY <2>8, <1>2, <1>5 DEF IdsKept, Found, u0
  <2>10. Owned(c)'
    BY <2>6, <2>8, <1>2, ConstFacts DEF Owned
  <2>11. ClientsInv'
    BY <2>7, <2>9, <2>10, <1>2 DEF ClientsInv
  <2>12. OneHolder'
    BY <1>1, <2>3 DEF Links, OneHolder, u0
  <2>13. IdsInv'
    BY ZenonT(40), <1>2, <2>1, <2>4, <2>6 DEF Links, IdsInv
  <2>14. ASSUME NEW e \in Eids, Exists(e)' PROVE \E d \in Clients : Serves(d, e)'
    <3>1. Exists(e)
      BY <2>14, <1>2 DEF Exists
    <3>2. PICK d \in Clients : Serves(d, e)
      BY <3>1 DEF Links, EnclavesInv
    <3>3. d # c /\ proc'[d] = proc[d] /\ Mine(d)' = Mine(d)
      BY <3>2, <1>1, <1>3, <2>1, <2>3 DEF Serves, Mine
    <3>4. Serves(d, e)'
      BY <3>2, <3>3, <1>2 DEF Serves
    <3> QED
      BY <3>4
  <2>15. ObjectsInv'
    <3>1. SUFFICES ASSUME "idr" \notin failed', NEW x \in Objs, heap'[x].live
                   PROVE  \/ \E u \in Ueids : idr'[u] = x /\ ~Freed(u)'
                          \/ \E d \in Clients : proc'[d].at = "made" /\ proc'[d].ptr = x
      BY DEF ObjectsInv
    <3>2. CASE x = o
      BY <3>2, <1>5, <2>1, <2>4, <2>5
    <3>3. CASE x # o
      <4>1. \/ \E u \in Ueids : idr[u] = x /\ ~Freed(u)
            \/ \E d \in Clients : proc[d].at = "made" /\ proc[d].ptr = x
        BY <3>1, <1>2, <1>5 DEF Links, ObjectsInv
      <4> QED
        BY <4>1, <3>1, <3>3, <2>1, <2>4, <1>1, <1>3, <1>5 DEF o
    <3> QED
      BY <3>2, <3>3
  <2> QED
    BY <2>11, <2>12, <2>13, <2>14, <2>15 DEF Links, EnclavesInv
<1> QED
  BY <1>4, <1>5, AllocEffect

\* get_enclave_by_id keeps the links: it finds the object of its own process.
LEMMA LookupKeeps ==
  ASSUME DriverTypes, DriverTypes', Links, NEW c \in Clients, get_enclave_by_id(c)
  PROVE  Links'
<1>1. /\ proc[c].op \notin {"create", "gone"} /\ proc[c].at \in {"call", "closing"}
      /\ UNCHANGED <<heap, idr, sm, failed>> /\ Only(c)
      /\ proc'[c].eid = proc[c].eid /\ proc'[c].priv = proc[c].priv
      /\ proc[c] \in Procs /\ idr \in [Ueids -> Objs \cup {NULL}]
  BY LookupEffect DEF Ids, DriverTypes
<1>2. /\ IdsKept(c) /\ (proc[c].priv \in Ueids => Owned(c)) /\ Mine(c)' = Mine(c)
      /\ (proc[c].priv \in Ueids => Mine(c) \in Objs)
  BY <1>1 DEF Links, ClientsInv, Mine, IdsKept
<1>3. -1 \notin Ueids /\ 0 \notin Ueids /\ Ueids \subseteq Nat /\ NULL \notin Objs
  BY ConstFacts
<1>4. Argument(c) \in Ueids => Argument(c) = proc[c].priv
  BY <1>1, <1>2, <1>3 DEF IdsKept, Argument
<1>5. \A e, o, states : Backs(e, o, states)' <=> Backs(e, o, states)
  BY <1>1 DEF Backs
<1>6. CASE /\ Argument(c) \in Ueids /\ idr[Argument(c)] # NULL
           /\ proc'[c].op = proc[c].op /\ proc'[c].ptr = idr[Argument(c)]
           /\ proc'[c].at = IF proc[c].op = "release" /\ proc[c].at = "call"
                            THEN "closing" ELSE "found"
  <2>1. proc'[c].at \in {"closing", "found"}
    BY <1>6
  <2>2. IdsKept(c)'
    BY <1>1, <1>2, <1>4, <1>6, <2>1 DEF IdsKept, Found, Mine
  <2>3. Owned(c)'
    BY <1>1, <1>2, <1>4, <1>5, <1>6, <2>1 DEF Owned
  <2>4. OwnStep(c)
    BY <1>1, <1>2, <1>6, <2>1 DEF OwnStep, Serves, Exists
  <2> QED
    BY <2>2, <2>3, <2>4, OwnKeeps
<1>7. CASE \/ NoCall(c) /\ Over(c, "ok")
           \/ /\ ~NoCall(c) /\ Over(c, "fail")
              /\ Argument(c) \in Ueids => idr[Argument(c)] = NULL
  <2>1. proc[c].priv = 0
    <3>1. proc[c].priv \in Ueids \cup {0} /\ proc[c].op \in Ops
      BY <1>1 DEF Procs
    <3>2. CASE NoCall(c)
      <4>1. proc[c].eid < 0 => proc[c].eid \notin Ueids
        <5>1. \A u \in Nat : ~(u < 0)
          BY SMT
        <5> QED
          BY <5>1, <1>3
      <4>2. IdsKept(c) /\ proc[c].op \in {"destroy", "dtor"} /\ proc[c].eid \notin Ueids =>
               proc[c].priv = 0
        BY <3>1 DEF IdsKept
      <4> QED
        BY <3>2, <4>1, <4>2, <1>2 DEF NoCall, never_created, already_destroyed
    <3>3. CASE ~NoCall(c) /\ (Argument(c) \in Ueids => idr[Argument(c)] = NULL)
      <4>1. ASSUME proc[c].priv \in Ueids PROVE FALSE
        <5>1. Argument(c) = proc[c].priv
          BY <4>1, <1>1, <1>2, <1>3 DEF IdsKept, Argument
        <5> QED
          BY <4>1, <5>1, <3>3, <1>2, <1>3 DEF Mine
      <4> QED
        BY <4>1, <3>1
    <3> QED
      BY <3>2, <3>3, <1>7
  <2>2. proc[c].op \in {"utm", "destroy", "dtor", "release"} /\ proc'[c].at = "call"
    BY <2>1, <1>1, <1>2, <1>3, <1>7 DEF IdsKept, Over, Procs, Ops
  <2>3. proc'[c].op \in {"destroy", "dtor", "release", "gone"} \/ (proc[c].op = "utm" /\ NoCall(c))
    BY <2>2, <1>7, AfterFacts DEF Over
  <2>4. ~(proc[c].op = "utm" /\ NoCall(c))
    BY DEF NoCall, never_created, already_destroyed
  <2>5. IdsKept(c)'
    <3>1. proc'[c].op \in {"destroy", "dtor", "release", "gone"} /\ proc'[c].priv \notin Ueids
      BY <2>1, <2>3, <2>4, <1>1, <1>3
    <3>2. proc[c].op \notin {"release", "gone"} => proc[c].eid \in {-1, 0}
      BY <2>1, <1>2 DEF IdsKept
    <3>3. proc[c].op = "release" => proc'[c].op = "gone"
      BY <1>7, AfterFacts DEF Over
    <3>4. proc'[c].op \notin {"release", "gone"} => proc'[c].eid \in {-1, 0} /\ proc'[c].priv = 0
      BY <3>2, <3>3, <2>1, <1>1
    <3> QED
      BY <3>1, <3>4, <2>2 DEF IdsKept, Found
  <2>6. OwnStep(c)
    BY <1>1, <1>3, <2>1, <2>2 DEF OwnStep, Serves
  <2> QED
    BY <1>1, <1>3, <2>1, <2>5, <2>6, OwnKeeps
<1>8. \/ NoCall(c) /\ Over(c, "ok")
      \/ /\ ~NoCall(c) /\ Over(c, "fail")
         /\ Argument(c) \in Ueids => idr[Argument(c)] = NULL
      \/ /\ Argument(c) \in Ueids /\ idr[Argument(c)] # NULL
         /\ proc'[c].op = proc[c].op /\ proc'[c].ptr = idr[Argument(c)]
         /\ proc'[c].at = IF proc[c].op = "release" /\ proc[c].at = "call"
                          THEN "closing" ELSE "found"
  BY LookupEffect
<1> QED
  BY <1>6, <1>7, <1>8

\* utm_init_ioctl and keystone_mmap keep the links.
LEMMA PlainKeeps ==
  ASSUME DriverTypes, DriverTypes', Links, NEW c \in Clients,
         keystone_mmap(c) \/ utm_init_ioctl(c)
  PROVE  Links'
<1> DEFINE o == Mine(c)
<1>1. /\ proc[c].op \in {"map", "map_utm", "utm"} /\ proc[c].at = "found"
      /\ UNCHANGED <<idr, sm>> /\ Only(c) /\ failed \subseteq failed'
      /\ proc'[c].eid = proc[c].eid /\ proc'[c].priv = proc[c].priv
  BY MmapEffect, UtmEffect DEF Ids
<1>2. /\ IdsKept(c) /\ Owned(c) /\ Mine(c)' = o /\ o \in Objs /\ proc[c].ptr = o
      /\ proc[c].priv \in Ueids
  BY <1>1 DEF Links, ClientsInv, Mine, IdsKept, Found
<1>3. /\ Elsewhere(o) /\ heap'[o].live = heap[o].live /\ heap'[o].owner = heap[o].owner
      /\ heap'[o].eid = heap[o].eid
      /\ proc'[c].at = "call" /\ proc'[c].ptr = NULL
      /\ \/ proc[c].op = "map" /\ proc'[c].op = "finalize" /\ heap'[o].utm = heap[o].utm
         \/ proc[c].op = "map_utm" /\ proc'[c].op = "run" /\ heap'[o].utm = heap[o].utm
         \/ proc[c].op = "utm" /\ proc'[c].op = "map" /\ heap'[o].utm = "ok"
         \/ proc[c].op = "utm" /\ proc'[c].op = "destroy"
  <2>1. CASE keystone_mmap(c)
    BY <2>1, <1>1, MmapEffect, AfterFacts DEF Over, Elsewhere
  <2>2. CASE utm_init_ioctl(c)
    BY SMT, <2>2, <1>2, UtmEffect, AfterFacts DEF Over
  <2> QED
    BY <2>1, <2>2
<1>4. \A e, x, states : Backs(e, x, states)' <=> Backs(e, x, states)
  BY <1>1 DEF Backs
<1>5. IdsKept(c)'
  BY <1>1, <1>2, <1>3 DEF IdsKept, Found
<1>6. Owned(c)'
  <2>1. /\ heap'[o].live /\ heap'[o].owner = c
        /\ heap'[o].eid \in Eids => Backs(heap'[o].eid, o, {"FRESH", "RUNNING", "STOPPED"})
    BY <1>1, <1>2, <1>3 DEF Owned
  <2>2. /\ proc[c].op \in {"utm", "map"} => heap'[o].eid = Unset
        /\ proc[c].op \in {"map", "map_utm"} => heap[o].utm = "ok"
        /\ proc[c].op = "map_utm" => Backs(heap'[o].eid, o, {"FRESH"})
    BY <1>2, <1>3 DEF Owned
  <2> QED
    BY <1>2, <1>3, <1>4, <2>1, <2>2 DEF Owned
<1>7. OwnStep(c)
  BY <1>1, <1>2, <1>3 DEF OwnStep, Serves, Exists, Elsewhere
<1> QED
  BY <1>5, <1>6, <1>7, OwnKeeps

\* A call that has found an object has found the live object of its own process.
LEMMA FoundFacts ==
  ASSUME DriverTypes, Links, NEW c \in Clients, proc[c].at \in Found \ {"freed"}
  PROVE  /\ IdsKept(c) /\ Owned(c) /\ proc[c].priv \in Ueids /\ proc[c].ptr = Mine(c)
         /\ Mine(c) \in Objs /\ heap[Mine(c)].live /\ heap[Mine(c)].owner = c
<1>1. IdsKept(c) /\ (proc[c].priv \in Ueids /\ proc[c].at # "freed" => Owned(c))
  BY DEF Links, ClientsInv
<1>2. proc[c].priv \in Ueids /\ proc[c].ptr = Mine(c) /\ Mine(c) \in Objs
  BY <1>1 DEF IdsKept
<1> QED
  BY <1>1, <1>2 DEF Owned, Found

\* The SBI call of finalize keeps the links, unless it fails.
LEMMA FinalizeKeeps ==
  ASSUME DriverTypes, DriverTypes', Links, NEW c \in Clients, finalize_sbi(c), DestroyedOnce'
  PROVE  Links'
<1>a. PICK o, v : o = Mine(c) /\ v = proc'[c].val
  OBVIOUS
<1>1. /\ proc[c].op = "finalize" /\ proc[c].at = "found" /\ UNCHANGED idr /\ Only(c)
      /\ proc'[c].eid = proc[c].eid /\ proc'[c].priv = proc[c].priv /\ failed \subseteq failed'
  BY FinalizeEffect DEF Ids
<1>2. /\ IdsKept(c) /\ Owned(c) /\ proc[c].priv \in Ueids /\ proc[c].ptr = o /\ o \in Objs
      /\ heap[o].live /\ heap[o].owner = c /\ Mine(c)' = o
  BY <1>1, FoundFacts, <1>a DEF Found, Mine
<1>3. /\ \A x \in Objs : x # o => heap'[x] = heap[x]
      /\ heap'[o].live = heap[o].live /\ heap'[o].owner = heap[o].owner
      /\ heap'[o].eid = heap[o].eid /\ heap'[o].utm = heap[o].utm
  BY <1>2, FinalizeEffect, <1>a DEF SameObject, Elsewhere
<1>4. /\ proc'[c].op = "finalize" /\ proc'[c].at = "created" /\ proc'[c].ptr = o
      /\ v \in Eids /\ ~Exists(v)
      /\ sm' = [sm EXCEPT ![v] = [state |-> "FRESH", obj |-> o]]
  BY SMT, <1>1, <1>2, FinalizeEffect, <1>a DEF GoesOn, Exists, DestroyedOnce
<1>5. /\ sm'[v].state = "FRESH" /\ sm'[v].obj = o
      /\ \A e \in Eids : e # v => sm'[e] = sm[e]
  BY <1>4, <1>a DEF DriverTypes
<1>6. heap[o].eid = Unset /\ heap[o].utm = "ok" /\ Unset \notin Eids
  BY <1>1, <1>2, ConstFacts, <1>a DEF Owned
<1>7. IdsKept(c)'
  BY <1>1, <1>2, <1>4, <1>a DEF IdsKept, Found
<1>8. Backs(v, o, {"FRESH"})'
  BY <1>4, <1>5, <1>2, <1>a DEF Backs
<1>9. Owned(c)'
  BY <1>2, <1>3, <1>4, <1>6, <1>8, <1>a DEF Owned
<1>10. ASSUME NEW e \in Eids, Exists(e)', sm'[e] # sm[e] \/ Serves(c, e) PROVE Serves(c, e)'
  <2>1. ~Serves(c, e)
    BY <1>1, <1>2, <1>6, <1>a DEF Serves
  <2>2. e = v
    BY <2>1, <1>5, <1>10, <1>a
  <2> QED
    BY ZenonT(40), <2>2, <1>1, <1>2, <1>3, <1>4, <1>5, <1>a DEF Serves
<1>11. OwnStep(c)
  BY <1>1, <1>2, <1>3, <1>4, <1>5, <1>10, <1>a DEF OwnStep
<1> QED
  BY <1>7, <1>9, <1>11, OwnKeeps

\* Storing the eid keeps the links.
LEMMA StoreKeeps ==
  ASSUME DriverTypes, DriverTypes', Links, NEW c \in Clients, finalize_store(c)
  PROVE  Links'
<1>a. PICK o, v : o = Mine(c) /\ v = proc[c].val
  OBVIOUS
<1>1. /\ proc[c].op = "finalize" /\ proc[c].at = "created" /\ UNCHANGED <<idr, sm, failed>>
      /\ Only(c) /\ proc'[c].eid = proc[c].eid /\ proc'[c].priv = proc[c].priv
  BY StoreEffect DEF Ids
<1>2. /\ IdsKept(c) /\ Owned(c) /\ proc[c].priv \in Ueids /\ proc[c].ptr = o /\ o \in Objs
      /\ heap[o].live /\ heap[o].owner = c /\ Mine(c)' = o
  BY <1>1, FoundFacts, <1>a DEF Found, Mine
<1>3. /\ \A x \in Objs : x # o => heap'[x] = heap[x]
      /\ heap'[o].live = heap[o].live /\ heap'[o].owner = heap[o].owner
      /\ heap'[o].eid = v /\ heap'[o].utm = heap[o].utm
      /\ proc'[c].op = "map_utm" /\ proc'[c].at = "call"
  <2>1. proc'[c].op = "map_utm" /\ proc'[c].at = "call"
    BY <1>1, StoreEffect, AfterFacts DEF Over
  <2> QED
    BY ZenonT(40), <2>1, <1>2, StoreEffect, <1>a DEF SameObject, Elsewhere
<1>4. /\ heap[o].eid = Unset /\ heap[o].utm = "ok" /\ Unset \notin Eids
      /\ v \in Eids /\ sm[v].state = "FRESH" /\ sm[v].obj = o
  BY <1>1, <1>2, ConstFacts, <1>a DEF Owned, Backs
<1>5. IdsKept(c)'
  BY <1>1, <1>2, <1>3, <1>a DEF IdsKept, Found
<1>6. Backs(v, o, {"FRESH"})' /\ Backs(v, o, {"FRESH", "RUNNING", "STOPPED"})'
  BY <1>1, <1>2, <1>4, <1>a DEF Backs
<1>7. Owned(c)'
  BY <1>2, <1>3, <1>4, <1>6, <1>a DEF Owned
<1>8. ASSUME NEW e \in Eids, Serves(c, e) PROVE Serves(c, e)'
  <2>1. e = v
    BY <1>2, <1>4, <1>8, <1>a DEF Serves
  <2> QED
    BY <2>1, <1>1, <1>2, <1>3, <1>4, <1>a DEF Serves
<1>9. OwnStep(c)
  BY <1>1, <1>2, <1>3, <1>8, <1>a DEF OwnStep
<1> QED
  BY <1>5, <1>7, <1>9, OwnKeeps

\* run and resume keep the links.
LEMMA EnterKeeps ==
  ASSUME DriverTypes, DriverTypes', Links, NEW c \in Clients,
         keystone_run_enclave(c) \/ keystone_resume_enclave(c)
  PROVE  Links'
<1>a. PICK o, v : o = Mine(c) /\ v = heap[Mine(c)].eid
  OBVIOUS
<1>0. PICK from \in {"FRESH", "STOPPED"} :
         /\ proc[c].at = "found" /\ proc[c].op \in {"run", "resume"} /\ Enter(c, from)
         /\ from = IF proc[c].op = "run" THEN "FRESH" ELSE "STOPPED"
  BY DEF keystone_run_enclave, keystone_resume_enclave, At
<1>1. /\ UNCHANGED <<heap, idr, failed>> /\ Only(c)
      /\ proc'[c].eid = proc[c].eid /\ proc'[c].priv = proc[c].priv
  BY <1>0, EnterEffect, <1>a DEF Ids
<1>2. /\ IdsKept(c) /\ Owned(c) /\ proc[c].priv \in Ueids /\ proc[c].ptr = o /\ o \in Objs
      /\ heap[o].live /\ heap[o].owner = c /\ Mine(c)' = o
  BY <1>0, <1>1, FoundFacts, <1>a DEF Found, Mine
<1>3. v \in Eids /\ sm[v].state = from /\ sm[v].obj = o
  BY <1>0, <1>2, <1>a DEF Owned, Backs
<1>4. /\ proc'[c].op = proc[c].op /\ proc'[c].at = "inside" /\ proc'[c].ptr = o /\ proc'[c].val = v
      /\ sm'[v].state = "RUNNING" /\ sm'[v].obj = o
      /\ \A e \in Eids : e # v => sm'[e] = sm[e]
  <2>1. heap[proc[c].ptr].eid = v /\ SmState(v) = from
    BY <1>2, <1>3, <1>a DEF SmState
  <2>2. GoesOn(c, "inside") /\ proc'[c].val = v /\ Apart(v)
        /\ sm'[v].state = "RUNNING" /\ sm'[v].obj = sm[v].obj
    BY <1>0, <2>1, EnterEffect
  <2> QED
    BY <1>2, <1>3, <2>2 DEF GoesOn, Apart
<1>5. IdsKept(c)'
  BY <1>0, <1>1, <1>2, <1>4, <1>a DEF IdsKept, Found
<1>6. Backs(v, o, {"RUNNING"})' /\ Backs(v, o, {"FRESH", "RUNNING", "STOPPED"})'
  BY <1>1, <1>2, <1>3, <1>4, <1>a DEF Backs
<1>7. Owned(c)'
  BY ZenonT(40), <1>0, <1>1, <1>2, <1>3, <1>4, <1>6, <1>a DEF Owned
<1>8. ASSUME NEW e \in Eids, sm'[e] # sm[e] \/ Serves(c, e) PROVE Serves(c, e)'
  <2>1. e = v
    BY <1>0, <1>2, <1>4, <1>8, <1>a DEF Serves
  <2> QED
    BY <2>1, <1>0, <1>1, <1>2, <1>3, <1>4, <1>a DEF Serves
<1>9. OwnStep(c)
  BY <1>0, <1>1, <1>2, <1>3, <1>4, <1>8, <1>a DEF OwnStep
<1> QED
  BY <1>5, <1>7, <1>9, OwnKeeps

\* A stop keeps the links, unless the driver does not know its reason.
LEMMA StopKeeps ==
  ASSUME DriverTypes, DriverTypes', Links, NEW c \in Clients, enclave_stops(c), DestroyedOnce'
  PROVE  Links'
<1>a. PICK o, v : o = Mine(c) /\ v = proc[c].val
  OBVIOUS
<1>1. /\ proc[c].op \in {"run", "resume"} /\ proc[c].at = "inside" /\ UNCHANGED <<heap, idr>>
      /\ Only(c) /\ proc'[c].eid = proc[c].eid /\ proc'[c].priv = proc[c].priv
      /\ failed \subseteq failed'
  BY StopEffect DEF Ids
<1>2. /\ IdsKept(c) /\ Owned(c) /\ proc[c].priv \in Ueids /\ proc[c].ptr = o /\ o \in Objs
      /\ heap[o].live /\ heap[o].owner = c /\ Mine(c)' = o
  BY <1>1, FoundFacts, <1>a DEF Found, Mine
<1>3. v = heap[o].eid /\ v \in Eids /\ sm[v].state = "RUNNING" /\ sm[v].obj = o
  BY <1>1, <1>2, <1>a DEF Owned, Backs
<1>4. /\ sm'[v].state = "STOPPED" /\ sm'[v].obj = o
      /\ \A e \in Eids : e # v => sm'[e] = sm[e]
  BY <1>3, StopEffect, <1>a DEF Apart
<1>5. proc'[c].at = "call" /\ proc'[c].op \in {"resume", "dtor"}
  BY SMT, <1>1, StopEffect, AfterFacts, <1>a DEF Over, DestroyedOnce
<1>6. IdsKept(c)'
  BY <1>1, <1>2, <1>5, <1>a DEF IdsKept, Found
<1>7. Backs(v, o, {"STOPPED"})' /\ Backs(v, o, {"FRESH", "RUNNING", "STOPPED"})'
  BY <1>2, <1>3, <1>4, <1>a DEF Backs
<1>9. Owned(c)'
  BY <1>1, <1>2, <1>3, <1>5, <1>7, <1>a DEF Owned
<1>10. ASSUME NEW e \in Eids, sm'[e] # sm[e] \/ Serves(c, e) PROVE Serves(c, e)'
  <2>1. e = v
    BY ZenonT(40), <1>1, <1>2, <1>3, <1>4, <1>10, <1>a DEF Serves
  <2> QED
    BY <2>1, <1>1, <1>2, <1>3, <1>4, <1>5, <1>a DEF Serves
<1>11. OwnStep(c)
  BY <1>1, <1>2, <1>3, <1>4, <1>5, <1>10, <1>a DEF OwnStep
<1> QED
  BY <1>6, <1>9, <1>11, OwnKeeps

\* The SBI call of destroy keeps the links: the monitor has the enclave of the object.
LEMMA DestroyKeeps ==
  ASSUME DriverTypes, DriverTypes', Links, NEW c \in Clients, destroy_sbi(c)
  PROVE  Links'
<1>a. PICK o, v : o = Mine(c) /\ v = heap[Mine(c)].eid
  OBVIOUS
<1>1. /\ proc[c].op \in Destroys /\ proc[c].at = "found" /\ UNCHANGED <<heap, idr, failed>>
      /\ Only(c) /\ proc'[c].eid = proc[c].eid /\ proc'[c].priv = proc[c].priv
  BY DestroyEffect DEF Ids
<1>2. /\ IdsKept(c) /\ Owned(c) /\ proc[c].priv \in Ueids /\ proc[c].ptr = o /\ o \in Objs
      /\ heap[o].live /\ heap[o].owner = c /\ Mine(c)' = o
  BY <1>1, FoundFacts, <1>a DEF Found, Mine
<1>3. /\ v \in Eids => Backs(v, o, {"FRESH", "RUNNING", "STOPPED"})
      /\ proc[c].op = "destroy" => v \notin Eids
  BY <1>1, <1>2, ConstFacts, <1>a DEF Owned
<1>4. \A e \in Eids : Serves(c, e) => e = v /\ sm[e].state # "RUNNING"
  BY <1>1, <1>2, <1>a DEF Serves
<1>5. CASE /\ GoesOn(c, "torn") /\ v \in Eids /\ sm' \in [Eids -> Monitor] /\ Apart(v)
           /\ sm'[v].state = "INVALID"
  <2>1. /\ proc'[c].op = proc[c].op /\ proc'[c].at = "torn" /\ proc'[c].ptr = o
        /\ proc[c].op \in {"dtor", "release"} /\ sm[v].obj = o
        /\ \A e \in Eids : e # v => sm'[e] = sm[e]
    BY <1>1, <1>2, <1>3, <1>5 DEF GoesOn, Destroys, Backs, Apart
  <2>2. IdsKept(c)'
    BY <1>1, <1>2, <2>1, <1>a DEF IdsKept, Found
  <2>3. Owned(c)'
    BY <1>1, <1>2, <2>1, <1>a DEF Owned
  <2>4. \A e \in Eids : Exists(e)' => sm'[e] = sm[e] /\ ~Serves(c, e)
    BY <2>1, <1>4, <1>5 DEF Exists
  <2>5. OwnStep(c)
    BY <1>1, <1>2, <2>1, <2>4, <1>a DEF OwnStep
  <2> QED
    BY <2>2, <2>3, <2>5, OwnKeeps
<1>6. CASE UNCHANGED sm /\ Over(c, "fail") /\ SmState(v) \notin {"FRESH", "STOPPED"}
  <2>1. /\ proc'[c].at = "call"
        /\ \/ proc[c].op = "destroy" /\ proc'[c].op = "dtor"
           \/ proc[c].op = "dtor" /\ proc'[c].op = "release"
           \/ proc[c].op = "release" /\ proc'[c].op = "gone"
    BY <1>1, <1>6, AfterFacts DEF Over, Destroys
  <2>2. IdsKept(c)'
    BY <1>1, <1>2, <2>1 DEF IdsKept, Found
  <2>3. \A e, x, states : Backs(e, x, states)' <=> Backs(e, x, states)
    BY <1>6 DEF Backs
  <2>4. Owned(c)'
    BY <1>1, <1>2, <1>3, <2>1, <2>3, <1>a DEF Owned
  <2>5. \A e \in Eids : Exists(e) => ~Serves(c, e)
    BY <1>4, <1>6 DEF Exists, SmState, DriverTypes
  <2>6. OwnStep(c)
    BY <1>1, <1>2, <1>6, <2>1, <2>5 DEF OwnStep, Exists
  <2> QED
    BY <2>2, <2>4, <2>6, OwnKeeps
<1> QED
  BY <1>2, <1>5, <1>6, <1>a, DestroyEffect

\* Killing a process keeps the links.
LEMMA KillKeeps ==
  ASSUME DriverTypes, DriverTypes', Links, NEW c \in Clients, Kill(c)
  PROVE  Links'
<1>1. /\ proc[c].op \notin {"release", "gone"} /\ proc[c].at = "call"
      /\ UNCHANGED <<heap, idr, sm, failed>> /\ Only(c)
      /\ proc'[c].eid = proc[c].eid /\ proc'[c].priv = proc[c].priv
      /\ proc'[c].op = "release" /\ proc'[c].at = "call"
  BY KillEffect DEF Ids
<1>2. IdsKept(c) /\ Mine(c)' = Mine(c) /\ (proc[c].priv \in Ueids => Owned(c))
  BY <1>1 DEF Links, ClientsInv, Mine
<1>3. IdsKept(c)'
  BY <1>1, <1>2 DEF IdsKept, Found
<1>4. \A e, x, states : Backs(e, x, states)' <=> Backs(e, x, states)
  BY <1>1 DEF Backs
<1>5. proc'[c].priv \in Ueids => Owned(c)'
  BY <1>1, <1>2, <1>4 DEF Owned
<1>6. \A e \in Eids : Serves(c, e) => Serves(c, e)'
  BY <1>1, <1>2 DEF Serves
<1>7. OwnStep(c)
  BY <1>1, <1>6 DEF OwnStep
<1> QED
  BY <1>3, <1>5, <1>7, OwnKeeps

\* A new process keeps the links.
LEMMA SpawnKeeps ==
  ASSUME DriverTypes, DriverTypes', Links, NEW c \in Clients, Spawn(c)
  PROVE  Links'
<1>1. /\ proc[c].op = "gone" /\ UNCHANGED <<heap, idr, sm, failed>> /\ Only(c)
      /\ proc'[c].op = "create" /\ proc'[c].at = "call" /\ proc'[c].eid = -1
      /\ proc'[c].priv = 0 /\ 0 \notin Ueids
  BY SpawnEffect, ConstFacts
<1>2. proc[c].at = "call"
  <2>1. PlaceOf(proc[c].op, proc[c].at) /\ proc[c].at \in Places
    BY DEF DriverTypes, Procs
  <2>2. IdsKept(c)
    BY DEF Links, ClientsInv
  <2> QED
    BY <1>1, <2>1, <2>2 DEF PlaceOf, Places, Found, Destroys, IdsKept
<1>3. IdsKept(c)'
  BY <1>1 DEF IdsKept, Found
<1>4. \A e \in Eids : ~Serves(c, e)
  BY <1>1 DEF Serves
<1>5. OwnStep(c)
  BY <1>1, <1>2, <1>4 DEF OwnStep
<1> QED
  BY <1>1, <1>3, <1>5, OwnKeeps

\* No step forgets a failure, and none moves two processes.
LEMMA FailedGrows ==
  ASSUME DriverTypes, NEW c \in Clients, Step(c)
  PROVE  failed \subseteq failed' /\ Only(c)
<1>1. CASE create_enclave(c) \/ enclave_idr_alloc(c) \/ get_enclave_by_id(c)
  BY <1>1, CreateEffect, AllocEffect, LookupEffect
<1>2. CASE utm_init_ioctl(c) \/ keystone_mmap(c)
  BY <1>2, UtmEffect, MmapEffect
<1>3. CASE finalize_sbi(c) \/ finalize_store(c) \/ finalize_error(c)
  BY <1>3, FinalizeEffect, StoreEffect, ErrorEffect
<1>4. CASE keystone_run_enclave(c) \/ keystone_resume_enclave(c)
  <2>1. PICK from \in {"FRESH", "STOPPED"} :
            proc[c].at = "found" /\ proc[c].op \in {"run", "resume"} /\ Enter(c, from)
    BY <1>4 DEF keystone_run_enclave, keystone_resume_enclave, At
  <2> QED
    BY <2>1, EnterEffect
<1>5. CASE enclave_stops(c)
  BY <1>5, StopEffect
<1>6. CASE destroy_sbi(c) \/ destroy_enclave(c) \/ enclave_idr_remove(c)
  BY <1>6, DestroyEffect, FreeEffect, RemoveEffect
<1>7. CASE Kill(c) \/ Spawn(c)
  BY <1>7, KillEffect, SpawnEffect
<1> QED
  BY <1>1, <1>2, <1>3, <1>4, <1>5, <1>6, <1>7 DEF Step

\* Every step of a process keeps the links.
LEMMA LinksStep ==
  ASSUME DriverTypes, DriverTypes', Links, NEW c \in Clients, Step(c), DestroyedOnce'
  PROVE  Links'
<1>1. ~finalize_error(c)
  BY ErrorEffect DEF Links, ClientsInv, IdsKept
<1> QED
  BY <1>1, CreateKeeps, AllocKeeps, LookupKeeps, PlainKeeps, FinalizeKeeps, StoreKeeps, EnterKeeps,
     StopKeeps, DestroyKeeps, FreeKeeps, RemoveKeeps, KillKeeps, SpawnKeeps DEF Step

\* DriverInv is inductive.
LEMMA DriverStep ==
  ASSUME DriverInv, NEW c \in Clients, Step(c)
  PROVE  DriverInv'
<1>1. DriverTypes /\ DriverTypes' /\ (DestroyedOnce => Links)
  BY TypesStep DEF DriverInv, Links
<1>2. DestroyedOnce' => DestroyedOnce
  BY <1>1, FailedGrows DEF DestroyedOnce
<1>3. DestroyedOnce' => Links'
  BY <1>1, <1>2, LinksStep
<1> QED
  BY <1>1, <1>3 DEF DriverInv, Links

(***************************************************************************)
(* What the invariant shows.                                               *)
(***************************************************************************)
\* The types are those of the model.
LEMMA DriverTypeOK == DriverTypes => TypeOK
<1>1. \A op \in Ops : op \in DOMAIN OnSuccess \cup {"gone"}
  BY DEF Ops, OnSuccess
<1> QED
  BY <1>1 DEF DriverTypes, TypeOK, Procs

\* The invariant gives NoDangling.
LEMMA DriverNoDangling == DriverInv => NoDangling
<1> SUFFICES ASSUME DriverInv PROVE NoDangling
  OBVIOUS
<1>1. DriverTypes /\ (DestroyedOnce => Links)
  BY DEF DriverInv, Links
<1>2. ASSUME Links, NEW u \in Ueids, idr[u] # NULL PROVE Registered(u)
  <2>1. heap[idr[u]].live \/ Freed(u)
    BY <1>2 DEF Links, IdsInv
  <2>2. ASSUME NEW c \in Clients, proc[c].at = "freed", proc[c].priv = u
        PROVE  At(c, Destroys, "freed") /\ Argument(c) = u
    <3>1. PlaceOf(proc[c].op, "freed") /\ IdsKept(c)
      BY <1>1, <1>2, <2>2 DEF DriverTypes, Links, ClientsInv
    <3>2. proc[c].op \in {"dtor", "release"}
      BY <2>2, <3>1 DEF PlaceOf, IdsKept, Destroys
    <3>3. proc[c].op = "dtor" => proc[c].eid = u
      BY <2>2, <3>1, ConstFacts DEF IdsKept
    <3> QED
      BY <2>2, <3>2, <3>3 DEF At, Argument, Destroys
  <2> QED
    BY <2>1, <2>2 DEF Registered, Freed
<1>3. ASSUME Links, NEW c \in Clients,
             proc[c].at \in {"made", "found", "closing", "created", "failed", "torn"}
      PROVE  heap[proc[c].ptr].live
  <2>1. IdsKept(c) /\ (proc[c].at = "made" => Made(c))
    BY <1>3 DEF Links, ClientsInv
  <2>2. CASE proc[c].at = "made"
    BY <2>1, <2>2 DEF Made
  <2>3. CASE proc[c].at \in Found \ {"freed"}
    BY <1>1, <1>3, <2>3, FoundFacts
  <2> QED
    BY <1>3, <2>1, <2>2, <2>3 DEF IdsKept, Found
<1>4. ASSUME Links, NEW e \in Eids, Exists(e) PROVE heap[sm[e].obj].live
  <2>1. PICK c \in Clients : Serves(c, e)
    BY <1>4 DEF Links, EnclavesInv
  <2>2. Owned(c) /\ Mine(c) = sm[e].obj
    BY <1>4, <2>1 DEF Serves, Links, ClientsInv
  <2> QED
    BY <2>2 DEF Owned
<1>5. ASSUME Links, NEW c \in Clients, At(c, {"map_utm"}, "found")
      PROVE  heap[proc[c].ptr].utm = "ok"
  <2>1. proc[c].op = "map_utm" /\ proc[c].at = "found"
    BY <1>5 DEF At
  <2>2. Owned(c) /\ proc[c].ptr = Mine(c)
    BY <1>1, <1>5, <2>1, FoundFacts DEF Found
  <2> QED
    BY <2>1, <2>2 DEF Owned
<1>6. LookupFindsLive
  BY <1>1, <1>2, <1>3 DEF LookupFindsLive, IdsNameObjects
<1> QED
  BY <1>1, <1>4, <1>5, <1>6, DriverTypeOK DEF NoDangling, EpmOutlivesEnclave, MmapFindsUtm

\* The invariant gives NothingLeaks.
LEMMA DriverNothingLeaks == DriverInv => NothingLeaks
<1> SUFFICES ASSUME DriverInv PROVE NothingLeaks
  OBVIOUS
<1>1. DestroyedOnce => Links
  BY DEF DriverInv, Links
<1>2. NoOrphans
  BY <1>1 DEF NoOrphans, Links, ObjectsInv
<1>3. ASSUME Links, NEW c \in Clients, NEW e \in Eids, proc[c].op = "gone", Exists(e)
      PROVE  heap[sm[e].obj].owner # c
  BY SMT, <1>3 DEF Links, EnclavesInv, Serves
<1>4. MonitorReclaimed
  BY <1>1, <1>3 DEF MonitorReclaimed
<1> QED
  BY <1>2, <1>4 DEF NothingLeaks

\* An object is changed by a step of its owner.
LEMMA ChangesOwn ==
  ASSUME DriverTypes, Links, NEW c \in Clients, Step(c), NEW o \in Objs, heap[o].live, heap'[o] # heap[o]
  PROVE  heap[o].owner = c
<1>1. CASE create_enclave(c)
  <2>1. heap \in [Objs -> Objects]
    BY DEF DriverTypes, Objects
  <2> QED
    BY <1>1, <2>1, CreateEffect
<1>2. ASSUME proc[c].at \in Found \ {"freed"}, Elsewhere(proc[c].ptr) PROVE heap[o].owner = c
  BY <1>2, FoundFacts DEF Elsewhere
<1>3. CASE utm_init_ioctl(c)
  BY <1>2, <1>3, UtmEffect DEF Found
<1>4. CASE finalize_sbi(c)
  BY <1>2, <1>4, FinalizeEffect DEF Found, SameObject
<1>5. CASE finalize_store(c)
  BY <1>2, <1>5, StoreEffect DEF Found, SameObject
<1>6. CASE finalize_error(c)
  BY <1>6, ErrorEffect DEF Links, ClientsInv, IdsKept
<1>7. CASE destroy_enclave(c)
  BY <1>2, <1>7, FreeEffect DEF Found
<1>8. CASE keystone_run_enclave(c) \/ keystone_resume_enclave(c)
  BY <1>8 DEF keystone_run_enclave, keystone_resume_enclave, Enter
<1>9. CASE \/ enclave_idr_alloc(c) \/ get_enclave_by_id(c) \/ keystone_mmap(c) \/ enclave_stops(c)
           \/ destroy_sbi(c) \/ enclave_idr_remove(c) \/ Kill(c) \/ Spawn(c)
  BY <1>9, AllocEffect, LookupEffect, MmapEffect, StopEffect, DestroyEffect, RemoveEffect,
     KillEffect, SpawnEffect
<1> QED
  BY <1>1, <1>3, <1>4, <1>5, <1>6, <1>7, <1>8, <1>9 DEF Step

Steps == \E c \in Clients : Step(c)

\* A step is one of a process, or a restart.
LEMMA NextSteps == [Next]_vars => Restart \/ Steps \/ UNCHANGED vars
BY DEF Next, Steps, Step

\* A restart leads to an initial state.
LEMMA RestartInit == Restart => Init'
BY DEF Restart, Init, Boot, NewProc

\* DriverInv always holds.
LEMMA DriverAlways == Spec => []DriverInv
<1>1. Init => DriverInv
  BY DriverInit DEF Init
<1>2. DriverInv /\ Steps => DriverInv'
  BY DriverStep DEF Steps
<1>3. DriverInv /\ UNCHANGED vars => DriverInv'
  <2> SUFFICES ASSUME UNCHANGED <<heap, idr, sm, proc, failed>>, DriverInv PROVE DriverInv'
    BY DEF vars
  <2>1. DriverTypes' <=> DriverTypes
    BY DEF DriverTypes
  <2>2. \A c \in Clients : IdsKept(c)' <=> IdsKept(c)
    BY SMTT(30) DEF IdsKept, Mine
  <2>3. \A c \in Clients : Owned(c)' <=> Owned(c)
    BY SMT DEF Owned, Mine, Backs
  <2>4. \A u \in Ueids : Freed(u)' <=> Freed(u)
    BY DEF Freed
  <2>5. \A c \in Clients : Made(c)' <=> Made(c)
    BY <2>4 DEF Made
  <2>6. \A c \in Clients, e \in Eids : Serves(c, e)' <=> Serves(c, e)
    BY DEF Serves, Mine
  <2>7. DestroyedOnce' <=> DestroyedOnce
    BY DEF DestroyedOnce
  <2>8. ClientsInv' <=> ClientsInv
    BY <2>2, <2>3, <2>5 DEF ClientsInv
  <2>9. (OneHolder' <=> OneHolder) /\ (IdsInv' <=> IdsInv) /\ (ObjectsInv' <=> ObjectsInv)
    BY <2>4 DEF OneHolder, IdsInv, ObjectsInv
  <2>10. EnclavesInv' <=> EnclavesInv
    BY <2>6 DEF EnclavesInv, Exists
  <2> QED
    BY <2>1, <2>7, <2>8, <2>9, <2>10 DEF DriverInv
<1> QED
  BY <1>1, <1>2, <1>3, NextSteps, RestartInit, PTL DEF Spec

\* As long as no finalize fails and no run ends in error (DestroyedOnce): no call of the driver
\* holds a pointer to a freed object, ids name allocated objects, the kernel keeps the pages of
\* every enclave of the monitor, and only untrusted memory that was allocated is mapped; with any
\* other failure, kill or restart at any point (get_enclave_by_id, destroy_enclave,
\* keystone_mmap).
THEOREM DriverNeverDangles == Spec => []NoDangling
BY DriverAlways, DriverNoDangling, PTL

\* Under the same condition, no error path and no kill loses an object, unless ids run out, and
\* a process that is gone leaves no enclave in the monitor (create_enclave, keystone_release).
THEOREM DriverLosesNothing == Spec => []NothingLeaks
BY DriverAlways, DriverNothingLeaks, PTL

\* Under the same condition, a step of a process changes or frees its own objects only, though
\* ids and addresses are reused and calls of different processes interleave (keystone_ioctl).
THEOREM ProcessesChangeTheirOwn == Spec => OwnObjects
<1> DEFINE A == \A o \in Objs, c \in Clients :
                  /\ DestroyedOnce /\ heap[o].live /\ heap'[o] # heap[o]
                  /\ proc[c].op # "gone" /\ proc'[c] # proc[c]
                  => heap[o].owner = c
<1>1. DriverInv /\ Steps => A
  <2>1. SUFFICES ASSUME DriverInv, NEW d \in Clients, Step(d), NEW o \in Objs, NEW c \in Clients,
                        DestroyedOnce, heap[o].live, heap'[o] # heap[o], proc'[c] # proc[c]
                 PROVE  heap[o].owner = c
    BY DEF Steps
  <2>2. DriverTypes /\ Links
    BY <2>1 DEF DriverInv, Links
  <2>3. c = d
    BY <2>1, <2>2, FailedGrows DEF Only
  <2> QED
    BY <2>1, <2>2, <2>3, ChangesOwn
<1>2. Restart => A
  BY DEF Restart
<1>3. DriverInv /\ [Next]_vars => [A]_vars
  BY <1>1, <1>2, NextSteps
<1> HIDE DEF A
<1>4. Spec => [][A]_vars
  BY <1>3, DriverAlways, PTL DEF Spec
<1> QED
  BY <1>4 DEF OwnObjects, A
=============================================================================
