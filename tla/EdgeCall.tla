------------------------------ MODULE EdgeCall ------------------------------
(***************************************************************************)
(* Calls of an enclave's application to the host.  The runtime             *)
(* (runtime/call/syscall.c, io_wrap.c, net_wrap.c) writes a call into the  *)
(* shared buffer and stops the enclave; the host's loop (Enclave::run)     *)
(* dispatches it (sdk/src/edge) and resumes the enclave; the runtime       *)
(* copies the results to the application.  A timer interrupt may stop the  *)
(* enclave at any point in between.                                        *)
(*                                                                         *)
(* A word of the buffer says what it is a word of, so that the properties  *)
(* can tell the words of this call from those an earlier one left behind.  *)
(***************************************************************************)
EXTENDS Integers, SequencesExt

(***************************************************************************)
(* The checks of offsets and pointers of sdk/src/edge/edge_call.c, which   *)
(* the runtime and the host are both built with.  Each side maps the       *)
(* shared buffer at an address of its own (_shared_start) and passes       *)
(* offsets to the other.  Addresses and sizes are unsigned words.          *)
(***************************************************************************)
CONSTANTS
    UINTPTR_MAX,
    LEN             \* _shared_len

ASSUME PointerAssumption == UINTPTR_MAX \in Nat /\ LEN \in 1 .. UINTPTR_MAX

Word == 0 .. UINTPTR_MAX
BAD == -1           \* what stands for a pointer or an offset that is refused

\* The buffer lies in the address space (init_edge_internals, edge_init).
Start == {s \in Word : s + LEN <= UINTPTR_MAX}

edge_call_get_ptr_from_offset(start, offset, n) ==
    IF \/ offset > UINTPTR_MAX - start \/ offset >= LEN
       \/ n > UINTPTR_MAX - (start + offset) \/ n > LEN - offset
    THEN BAD ELSE start + offset

edge_call_check_ptr_valid(start, ptr, n) ==
    /\ ptr <= start + LEN /\ ptr >= start
    /\ n <= UINTPTR_MAX - ptr
    /\ ptr + n <= start + LEN

edge_call_get_offset_from_ptr(start, ptr, n) ==
    IF edge_call_check_ptr_valid(start, ptr, n) THEN ptr - start ELSE BAD

(***************************************************************************)
(* The system calls that the runtime passes on to the host: the wrappers   *)
(* of runtime/call/io_wrap.c and net_wrap.c.  Every wrapper puts a number, *)
(* scalar arguments and some pieces of data behind the header of the       *)
(* shared buffer, calls dispatch_edgecall_syscall and copies pieces back.  *)
(* They differ in the pieces, so a wrapper is the record of its pieces.    *)
(*                                                                         *)
(* Offsets count words behind the header: word 0 is syscall_num and takes  *)
(* the result, word 1 stands for the scalar arguments.  A structure of the *)
(* C library is one word.                                                  *)
(***************************************************************************)
\* Sizes that are arguments: a length of data, a length of an address or option.
LenArg == -1
AddrArg == -2

\* Limits: sizeof(struct sockaddr), sizeof(struct sockaddr_storage), MAX_OPTION_LEN.
ADDR_LIMIT == 1
STORAGE_LIMIT == 1
MAX_OPTION_LEN == 3

\* A piece of "size" words at "at".  It is checked with edge_call_check_ptr_valid
\* or not, and refused beyond "limit", perhaps only when it is copied ("late").
\* "in": it is copied from the application.  It is copied back "when" the result
\* is as said: all of it, as much as the result says, or as much as the host says.
\* An address has a field of one word, and the word behind that is its length.
Piece ==
    [at |-> 2, size |-> 1, checked |-> FALSE, limit |-> UINTPTR_MAX, late |-> FALSE,
     in |-> FALSE, when |-> "never", amount |-> "size"]
In(at) == [Piece EXCEPT !.at = at, !.in = TRUE]
Out(at, when) == [Piece EXCEPT !.at = at, !.when = when]
InOut(at) == [In(at) EXCEPT !.when = "always"]
Data(at) == [Piece EXCEPT !.at = at, !.size = LenArg, !.checked = TRUE]
DataIn(at) == [Data(at) EXCEPT !.in = TRUE]
AddrIn(at) == [In(at) EXCEPT !.size = AddrArg]

\* "fixed": words of struct edge_syscall and the arguments' structure; "plus":
\* the length of the data is added to that in totalsize.
Wrapper(num, fixed, pieces) == [num |-> num, fixed |-> fixed, plus |-> FALSE, pieces |-> pieces]
WithData(num, fixed, pieces) == [Wrapper(num, fixed, pieces) EXCEPT !.plus = TRUE]

(***************************************************************************)
(* io_wrap.c                                                               *)
(***************************************************************************)
io_syscall_sync == Wrapper("sync", 1, <<>>)
io_syscall_ftruncate == Wrapper("ftruncate", 2, <<>>)
io_syscall_fsync == Wrapper("fsync", 2, <<>>)
io_syscall_lseek == Wrapper("lseek", 2, <<>>)
io_syscall_close == Wrapper("close", 2, <<>>)

io_syscall_read ==
    WithData("read", 2, <<[Data(2) EXCEPT !.when = "nonneg", !.amount = "ret"]>>)

io_syscall_write == WithData("write", 2, <<DataIn(2)>>)
io_syscall_openat == WithData("openat", 2, <<DataIn(2)>>)
io_syscall_unlinkat == WithData("unlinkat", 2, <<DataIn(2)>>)
io_syscall_fstatat == WithData("fstatat", 3, <<DataIn(3), Out(2, "zero")>>)
io_syscall_pipe == Wrapper("pipe2", 1, <<Out(1, "zero")>>)
io_syscall_epoll_create == Wrapper("epoll_create1", 2, <<>>)
io_syscall_epoll_ctl == Wrapper("epoll_ctl", 3, <<In(2)>>)

\* With F_SETLK, F_SETLKW and F_GETLK the argument is a structure.
io_syscall_fcntl(lock) ==
    IF lock THEN Wrapper("fcntl_lock", 3, <<[In(2) EXCEPT !.checked = TRUE]>>)
    ELSE Wrapper("fcntl", 2, <<>>)

\* The result of the host is not looked at, the size is not checked.
io_syscall_getcwd == Wrapper("getcwd", 2, <<[Out(2, "always") EXCEPT !.size = LenArg]>>)

\* The path is always "./".
io_syscall_chdir == Wrapper("chdir", 2, <<In(1)>>)
io_syscall_epoll_pwait == Wrapper("epoll_pwait", 3, <<InOut(2)>>)
io_syscall_renameat2 == Wrapper("renameat2", 4, <<In(2), In(3)>>)
io_syscall_umask == Wrapper("umask", 2, <<>>)
io_syscall_fstat == Wrapper("fstat", 3, <<Out(2, "zero")>>)

(***************************************************************************)
(* net_wrap.c.  An argument "addr" says that the address is not NULL.      *)
(***************************************************************************)
io_syscall_socket == Wrapper("socket", 2, <<>>)
io_syscall_setsockopt ==
    WithData("setsockopt", 2, <<[DataIn(2) EXCEPT !.limit = MAX_OPTION_LEN]>>)
io_syscall_connect == Wrapper("connect", 4, <<[AddrIn(2) EXCEPT !.limit = STORAGE_LIMIT]>>)
io_syscall_bind == Wrapper("bind", 4, <<[AddrIn(2) EXCEPT !.limit = STORAGE_LIMIT]>>)
io_syscall_listen == Wrapper("listen", 2, <<>>)
io_syscall_accept ==
    Wrapper("accept", 4, <<[AddrIn(2) EXCEPT !.limit = STORAGE_LIMIT, !.late = TRUE]>>)

\* The address of recvfrom and sendto: checked, copied, then compared with the limit.
Peer == [AddrIn(2) EXCEPT !.checked = TRUE, !.limit = ADDR_LIMIT, !.late = TRUE]

\* The result is unsigned: -1 counts as positive.
io_syscall_recvfrom(addr) ==
    LET data == [Data(4) EXCEPT !.when = "positive", !.amount = "ret"] IN
    IF addr THEN Wrapper("recvfrom", 4, <<Peer, data>>) ELSE Wrapper("recvfrom_null", 4, <<data>>)
io_syscall_sendto(addr) ==
    IF addr THEN WithData("sendto", 4, <<Peer, DataIn(4)>>)
    ELSE WithData("sendto_null", 4, <<DataIn(4)>>)

\* The offset is copied back whether or not there is one.
io_syscall_sendfile(addr) ==
    IF addr THEN Wrapper("sendfile", 3, <<[InOut(2) EXCEPT !.checked = TRUE]>>)
    ELSE Wrapper("sendfile_null", 3, <<Out(2, "null")>>)

\* As much as the host says is copied back, and at most what there is room for.
Name(num) == Wrapper(num, 4, <<[AddrIn(2) EXCEPT !.when = "always", !.amount = "told"]>>)
io_syscall_getpeername == Name("getpeername")
io_syscall_getsockname == Name("getsockname")
io_syscall_getuid == Wrapper("getuid", 1, <<>>)

\* Three sets, a timeout and a signal mask; the result, unsigned, is never negative.
io_syscall_pselect(all) ==
    IF all THEN Wrapper("pselect6", 7, <<InOut(2), InOut(3), InOut(4), In(5), In(6)>>)
    ELSE Wrapper("pselect6_null", 7, <<InOut(3)>>)

Wrappers ==
    {io_syscall_sync, io_syscall_ftruncate, io_syscall_fsync, io_syscall_lseek, io_syscall_close,
     io_syscall_read, io_syscall_write, io_syscall_openat, io_syscall_unlinkat, io_syscall_fstatat,
     io_syscall_pipe, io_syscall_epoll_create, io_syscall_epoll_ctl, io_syscall_getcwd,
     io_syscall_chdir, io_syscall_epoll_pwait, io_syscall_renameat2, io_syscall_umask,
     io_syscall_fstat, io_syscall_socket, io_syscall_setsockopt, io_syscall_connect,
     io_syscall_bind, io_syscall_listen, io_syscall_accept, io_syscall_getpeername,
     io_syscall_getsockname, io_syscall_getuid}
      \cup UNION {{io_syscall_fcntl(b), io_syscall_recvfrom(b), io_syscall_sendto(b),
                   io_syscall_sendfile(b), io_syscall_pselect(b)} : b \in BOOLEAN}

(***************************************************************************)
(* A call, from the application to the host and back.                      *)
(***************************************************************************)
CONSTANTS
    RT, HOST,           \* _shared_start in the runtime and in the host
    Calls,              \* calls the application makes
    Returns,            \* what a handler of the host's may say of its return data
    STRING_LEN          \* words of the string the host returns

HDR == 6                \* words of struct edge_call
EDGE_DATA == 2          \* words of struct edge_data
REPORT == 3             \* words of a report
D == LEN - HDR
MAX_EDGE_CALL == 10
EDGECALL_SYSCALL == MAX_EDGE_CALL + 1
MINUS1 == UINTPTR_MAX   \* -1 as a word

OK == 0
BAD_OFFSET == 2
BAD_PTR == 3
BAD_CALL_ID == 1
SYSCALL_FAILED == 5

ASSUME EdgeAssumption == {RT, HOST} \subseteq Start /\ STRING_LEN \in 1 .. D - EDGE_DATA

VARIABLES
    hdr,        \* struct edge_call at the start of the buffer
    data,       \* the words behind it
    world,      \* who runs: the enclave, or the host and why
    pc,         \* where the enclave is
    call,       \* the call of the application
    answer,     \* what the host did for it, if anything
    res         \* what the application got

vars == <<hdr, data, world, pc, call, answer, res>>

NoAnswer == [times |-> 0]
NoResult == [ret |-> 0, out |-> <<>>]
Old == <<"old">>

\* edge_call_table, as edge_init fills it with register_call; "custom" stands for
\* a handler of another application.
edge_call_table ==
    [id \in 0 .. MAX_EDGE_CALL - 1 |->
        CASE id = 1 -> "print_buffer" [] id = 2 -> "print_value" [] id = 3 -> "copy_report"
          [] id = 4 -> "get_string" [] id = 5 -> "custom" [] OTHER -> "NULL"]

\* The calls there are: a wrapped system call, perhaps with further parts
\* (readv, writev), where the second word of an address, read as a length, is
\* "over"; an ocall with a return buffer of "cap" words; a copy out of
\* the shared buffer, where "len" words at offset "id" are asked for.
SysCall(w, len, alen, over, more) ==
    [kind |-> "syscall", w |-> w, id |-> EDGECALL_SYSCALL, len |-> len, alen |-> alen, over |-> over,
     cap |-> 0, more |-> more, total |-> 0]
OCall(id, len, cap) ==
    [kind |-> "ocall", w |-> Wrapper("ocall", 0, <<>>), id |-> id, len |-> len, alen |-> 0, over |-> 0,
     cap |-> cap, more |-> <<>>, total |-> 0]
SharedCopy(offset, len) == [OCall(offset, len, len) EXCEPT !.kind = "copy"]

Init ==
    /\ hdr = [id |-> 0, arg_offset |-> 0, arg_size |-> 0, status |-> OK, ret_offset |-> 0, ret_size |-> 0]
    /\ data = [i \in 0 .. D - 1 |-> Old]
    /\ world = "enclave" /\ pc = "app"
    /\ call = SharedCopy(0, 0)
    /\ answer = NoAnswer /\ res = NoResult

(***************************************************************************)
(* Words of the buffer.                                                    *)
(***************************************************************************)
SizeOf(p, c) == IF p.size = LenArg THEN c.len ELSE IF p.size = AddrArg THEN c.alen ELSE p.size
Words(tag, i, n) == [k \in 1 .. n |-> <<tag, i, k>>]
Put(d, at, s) == [i \in 0 .. D - 1 |-> IF i \in at .. at + Len(s) - 1 THEN s[i - at + 1] ELSE d[i]]
Get(d, at, n) == [k \in 1 .. IF at + n > D THEN D - at ELSE n |-> d[at + k - 1]]

\* The length of an address in the word behind its field, which an address that
\* is longer has overwritten.
LenWord(d, p) == LET w == d[p.at + 1] IN IF w[1] = "alen" THEN w[2] ELSE call.over

\* The words of the whole buffer from an offset on.
Copied(offset, n) ==
    [k \in 1 .. n |-> LET i == offset + k - 1 IN IF i < HDR THEN <<"hdr", i>> ELSE data[i - HDR]]

\* edge_call_setup_call and edge_call_setup_ret, on either side.
edge_call_setup_call(h, start, ptr, n) ==
    LET offset == edge_call_get_offset_from_ptr(start, ptr, n) IN
    [h EXCEPT !.arg_size = n, !.arg_offset = IF offset = BAD THEN @ ELSE offset]
edge_call_setup_ret(h, start, ptr, n) ==
    LET offset == edge_call_get_offset_from_ptr(start, ptr, n) IN
    [h EXCEPT !.ret_size = n, !.ret_offset = IF offset = BAD THEN @ ELSE offset]
edge_call_data_ptr(start) == start + HDR
edge_call_args_ptr == edge_call_get_ptr_from_offset(HOST, hdr.arg_offset, hdr.arg_size)
edge_call_ret_ptr == edge_call_get_ptr_from_offset(RT, hdr.ret_offset, hdr.ret_size)

(***************************************************************************)
(* The application calls; the runtime writes the call into the buffer.     *)
(***************************************************************************)
\* What is in the buffer from now on is left from earlier calls.
Fresh == data' = [i \in 0 .. D - 1 |-> Old] /\ answer' = NoAnswer /\ res' = NoResult

Begin ==
    /\ world = "enclave" /\ pc = "app"
    /\ call' \in Calls /\ pc' = "marshal"
    /\ Fresh
    /\ UNCHANGED <<hdr, world>>

\* A page fault in the runtime ends the enclave.
Fault == pc' = "dead" /\ world' = "exited" /\ UNCHANGED <<call, res>>

\* The application's part of piece i; chdir replaces its path.
Given(c, i) == Words("in", i, SizeOf(c.w.pieces[i], c))

\* One more piece: refused, beyond the buffer, or copied.
CopyIn(acc, i) ==
    LET p == call.w.pieces[i]
        n == SizeOf(p, call)
    IN  IF acc.end # "ok" THEN acc
        ELSE IF \/ p.checked /\ ~edge_call_check_ptr_valid(RT, edge_call_data_ptr(RT) + p.at, n)
                \/ n > p.limit /\ ~p.late
        THEN [acc EXCEPT !.end = "refused"]
        ELSE IF p.in /\ p.at + n > D THEN [acc EXCEPT !.end = "fault"]
        ELSE LET told == IF p.size = AddrArg THEN Put(acc.data, p.at + 1, <<<<"alen", n>>>>) ELSE acc.data
                 d == IF p.in THEN Put(told, p.at, Given(call, i)) ELSE told
             IN  [data |-> d, end |-> IF p.late /\ LenWord(d, p) > p.limit THEN "refused" ELSE "ok"]

\* The number, the scalar arguments, then the pieces in their order.
Marshalled ==
    LET scalars == IF call.w.fixed > 1 THEN <<<<"args", call.len>>>> ELSE <<>>
        start == Put(data, 0, <<<<"num", call.w.num>>>> \o scalars)
    IN  FoldLeft(CopyIn, [data |-> start, end |-> "ok"], [i \in DOMAIN call.w.pieces |-> i])

\* The call, or this part of it, is over; writev and readv add up the results.
Done(ret, out) ==
    /\ res' = [ret |-> ret, out |-> out]
    /\ pc' = IF call.more = <<>> THEN "app" ELSE "next"
    /\ call' = [call EXCEPT !.total = (@ + ret) % (UINTPTR_MAX + 1)]
    /\ UNCHANGED world

Refused == Done(MINUS1, [i \in DOMAIN call.w.pieces |-> <<>>])

MarshalSyscall ==
    /\ call.kind = "syscall"
    /\ data' = Marshalled.data
    /\ CASE Marshalled.end = "refused" -> Refused
         [] Marshalled.end = "fault" -> Fault
         [] OTHER -> pc' = "setup" /\ UNCHANGED <<world, call, res>>
    /\ UNCHANGED <<hdr, answer>>

\* The first part of dispatch_edgecall_ocall.
MarshalOcall ==
    /\ call.kind = "ocall"
    /\ hdr' = [hdr EXCEPT !.id = call.id]
    /\ IF call.len > D THEN Done(1, <<<<>>>>) /\ UNCHANGED data
       ELSE /\ data' = Put(data, 0, Words("in", 1, call.len))
            /\ pc' = "setup" /\ UNCHANGED <<world, call, res>>
    /\ UNCHANGED answer

handle_copy_from_shared(offset, n) ==
    IF edge_call_get_ptr_from_offset(RT, offset, n) = BAD THEN Done(1, <<<<>>>>)
    ELSE Done(0, <<Copied(offset, n)>>)

CopyFromShared ==
    /\ call.kind = "copy"
    /\ handle_copy_from_shared(call.id, call.len)
    /\ UNCHANGED <<hdr, data, answer>>

Marshal ==
    /\ world = "enclave" /\ pc = "marshal"
    /\ MarshalSyscall \/ MarshalOcall \/ CopyFromShared

\* What is copied back of a piece, for the word v that the call returned.
Back(p, v) ==
    CASE p.when = "never" -> FALSE [] p.when = "nonneg" -> v # MINUS1 [] p.when = "zero" -> v = 0
      [] p.when = "positive" -> v # 0 [] OTHER -> TRUE

\* Mutant: as much as the host says is copied.
Amount_trusting(p, v) ==
    CASE p.amount = "ret" -> v [] p.amount = "told" -> LenWord(data, p) [] OTHER -> SizeOf(p, call)

Amount(p, v) ==
    LET n == SizeOf(p, call)
        said == CASE p.amount = "ret" -> v [] p.amount = "told" -> LenWord(data, p) [] OTHER -> n
    IN  IF said > n THEN n ELSE said

\* getcwd returns the application's buffer whatever the host returned.
CopyBack(v) ==
    LET back == {i \in DOMAIN call.w.pieces : Back(call.w.pieces[i], v)}
        p(i) == call.w.pieces[i]
    IN  IF \E i \in back : p(i).when = "null" \/ p(i).at + Amount(p(i), v) > D THEN Fault
        ELSE Done(IF call.w.num = "getcwd" THEN 1 ELSE v,
                  [i \in DOMAIN call.w.pieces |->
                      IF i \in back THEN Get(data, p(i).at, Amount(p(i), v)) ELSE <<>>])

\* Size of the arguments: what an ocall says, or totalsize of a wrapper.
Total(c) == IF c.kind = "ocall" THEN c.len ELSE c.w.fixed + (IF c.w.plus THEN c.len ELSE 0)

\* The header of the call is written and the enclave stops (sbi_stop_enclave).
Setup ==
    /\ world = "enclave" /\ pc = "setup"
    /\ hdr' = edge_call_setup_call([hdr EXCEPT !.id = call.id], RT, edge_call_data_ptr(RT), Total(call))
    /\ IF edge_call_check_ptr_valid(RT, edge_call_data_ptr(RT), Total(call))
       THEN world' = "edgecall" /\ pc' = "return" /\ UNCHANGED <<call, res>>
       ELSE IF call.kind = "ocall" THEN Done(1, <<<<>>>>) ELSE CopyBack(MINUS1)
    /\ UNCHANGED <<data, answer>>

\* Mutant: the status is not looked at.
Failed_unread == FALSE

Failed == hdr.status # OK

\* The second part of dispatch_edgecall_syscall, and what the wrapper does then.
ReturnSyscall ==
    LET word == Copied(hdr.ret_offset, 1)[1] IN
    /\ call.kind = "syscall"
    /\ IF Failed \/ edge_call_ret_ptr = BAD \/ hdr.ret_size < 1 THEN CopyBack(MINUS1)
       ELSE CopyBack(IF word[1] = "ret" THEN word[2] ELSE 0)

\* The second part of dispatch_edgecall_ocall; get_string is followed by a copy
\* of the string it names.
ReturnOcall ==
    LET n == IF hdr.ret_size > call.cap THEN call.cap ELSE hdr.ret_size IN
    /\ call.kind = "ocall"
    /\ IF Failed \/ (call.cap > 0 /\ edge_call_ret_ptr = BAD) THEN Done(1, <<<<>>>>)
       ELSE IF call.cap = 0 THEN Done(0, <<<<>>>>)
       ELSE IF call.id = 4
       THEN /\ res' = [ret |-> 0, out |-> <<Copied(hdr.ret_offset, n)>>]
            /\ pc' = "fetch" /\ UNCHANGED <<world, call>>
       ELSE Done(0, <<Copied(hdr.ret_offset, n)>>)

Return ==
    /\ world = "enclave" /\ pc = "return"
    /\ ReturnSyscall \/ ReturnOcall
    /\ UNCHANGED <<hdr, data, answer>>

\* copy_from_shared(host_str, pkgstr.offset, pkgstr.size)
Fetch ==
    /\ world = "enclave" /\ pc = "fetch"
    /\ handle_copy_from_shared(res.out[1][1][2], res.out[1][2][2])
    /\ UNCHANGED <<hdr, data, answer>>

\* The next part of readv or writev, whatever the last one returned.
NextPart ==
    /\ world = "enclave" /\ pc = "next"
    /\ call' = [call EXCEPT !.len = Head(call.more), !.more = Tail(@)]
    /\ pc' = "marshal" /\ Fresh
    /\ UNCHANGED <<hdr, world>>

Exit ==
    /\ world = "enclave" /\ pc = "app"
    /\ pc' = "exit" /\ world' = "exited"
    /\ UNCHANGED <<hdr, data, call, answer, res>>

(***************************************************************************)
(* The host.                                                               *)
(***************************************************************************)
\* A request as the application makes it and as the host finds it.
Request(c) ==
    IF c.kind = "ocall"
    THEN [num |-> IF c.id \in DOMAIN edge_call_table THEN edge_call_table[c.id] ELSE "NULL",
          len |-> c.len, alen |-> 0, in |-> <<Words("in", 1, c.len)>>]
    ELSE [num |-> c.w.num, len |-> c.len, alen |-> c.alen,
          in |-> [i \in DOMAIN c.w.pieces |-> IF c.w.pieces[i].in THEN Given(c, i) ELSE <<>>]]

Found(w, c, at) ==
    [num |-> w.num, len |-> c.len, alen |-> c.alen,
     in |-> [i \in DOMAIN w.pieces |->
                IF w.pieces[i].in THEN Get(data, at + w.pieces[i].at, SizeOf(w.pieces[i], c)) ELSE <<>>]]

\* What the system call may return, as a word.
Results(w, c) ==
    CASE w.num = "sync" -> {0}
      [] w.num = "getcwd" -> IF c.len >= 2 THEN {1} ELSE {0}
      [] w.num \in {"read", "write", "recvfrom", "recvfrom_null", "sendto", "sendto_null"} ->
            {r \in {0, 1, c.len} : r <= c.len} \cup {MINUS1}
      [] \E i \in DOMAIN w.pieces : w.pieces[i].when = "zero" -> {0, MINUS1}
      [] OTHER -> {1, MINUS1}

\* How much of piece p the system call fills in.
Filled(p, c, r, told) ==
    CASE p.when = "never" \/ r = MINUS1 -> 0
      [] p.amount = "ret" -> r
      [] p.amount = "told" -> IF told < c.alen THEN told ELSE c.alen
      [] p.size = LenArg -> IF c.len >= 2 THEN 2 ELSE 0
      [] OTHER -> SizeOf(p, c)

Answer(to, ok, ret, out) == [times |-> answer.times + 1, to |-> to, ok |-> ok, ret |-> ret, out |-> out]

\* The system call is made with what the buffer says; "told" is the length of an
\* address the kernel reports.
MakeSyscall(w, c, at) ==
    \E r \in Results(w, c), told \in {1, 2} :
        LET out == [i \in DOMAIN w.pieces |-> Words("out", i, Filled(w.pieces[i], c, r, told))]
            tells == r # MINUS1 /\ \E i \in DOMAIN w.pieces : w.pieces[i].amount = "told"
            Fill(d, i) ==
                LET p == w.pieces[i]
                    e == Put(d, at + p.at, out[i])
                IN  IF tells /\ p.amount = "told" THEN Put(e, at + p.at + 1, <<<<"alen", told>>>>) ELSE e
            filled == FoldLeft(Fill, data, [i \in DOMAIN w.pieces |-> i])
        IN  /\ tells \/ told = 1
            /\ data' = Put(filled, 0, <<<<"ret", r>>>>)
            /\ answer' = Answer(Found(w, c, at), TRUE, r, out)
            /\ hdr' = edge_call_setup_ret([hdr EXCEPT !.status = OK], HOST, edge_call_data_ptr(HOST), 1)

incoming_syscall ==
    LET at == hdr.arg_offset - HDR
        w == CHOOSE u \in Wrappers : u.num = data[at][2]
        addr == {p \in ToSet(w.pieces) : p.size = AddrArg}
        c == [len |-> IF w.fixed > 1 /\ data[at + 1][1] = "args" THEN data[at + 1][2] ELSE 0,
              alen |-> IF addr = {} THEN 0 ELSE LenWord(data, CHOOSE p \in addr : TRUE)]
    IN  IF edge_call_args_ptr = BAD
        THEN hdr' = [hdr EXCEPT !.status = SYSCALL_FAILED] /\ UNCHANGED <<data, answer>>
        ELSE MakeSyscall(w, c, at)

\* The handlers of the tests' host (examples/tests/edge_wrapper.cpp).  Each first
\* looks up its arguments.
Argued(name, n, Handle(_)) ==
    IF edge_call_get_ptr_from_offset(HOST, hdr.arg_offset, n) = BAD
    THEN hdr' = [hdr EXCEPT !.status = BAD_OFFSET] /\ UNCHANGED <<data, answer>>
    ELSE Handle([num |-> name, len |-> n, alen |-> 0, in |-> <<Get(data, hdr.arg_offset - HDR, n)>>])

\* Status after the return data is set up.
Status(start, ptr, n) == IF edge_call_check_ptr_valid(start, ptr, n) THEN OK ELSE BAD_PTR

print_buffer_wrapper ==
    LET ptr == edge_call_data_ptr(HOST)
        Handle(asked) ==
            /\ data' = Put(data, 0, <<<<"ret", 7>>>>)
            /\ hdr' = edge_call_setup_ret([hdr EXCEPT !.status = Status(HOST, ptr, 1)], HOST, ptr, 1)
            /\ answer' = Answer(asked, TRUE, 0, <<<<<<"ret", 7>>>>>>)
    IN  Argued("print_buffer", hdr.arg_size, Handle)

\* No return data: what the header says of it is left from an earlier call.
print_value_wrapper ==
    LET Handle(asked) ==
            /\ hdr' = [hdr EXCEPT !.status = OK] /\ UNCHANGED data
            /\ answer' = Answer(asked, TRUE, 0, <<<<>>>>)
    IN  Argued("print_value", hdr.arg_size, Handle)

\* The size of a report is taken for that of the arguments.
copy_report_wrapper ==
    LET Handle(asked) ==
            /\ hdr' = [hdr EXCEPT !.status = OK] /\ UNCHANGED data
            /\ answer' = Answer(asked, TRUE, 0, <<<<>>>>)
    IN  Argued("copy_report", REPORT, Handle)

\* The string goes behind a description of it, and the description is returned.
edge_call_setup_wrapped_ret(s) ==
    LET ptr == edge_call_data_ptr(HOST)
        offset == edge_call_get_offset_from_ptr(HOST, ptr + EDGE_DATA, EDGE_DATA)
    IN  /\ data' = Put(Put(data, EDGE_DATA, s), 0, <<<<"offset", offset>>, <<"size", Len(s)>>>>)
        /\ hdr' = edge_call_setup_ret([hdr EXCEPT !.status = Status(HOST, ptr, EDGE_DATA)],
                                      HOST, ptr, EDGE_DATA)

get_host_string_wrapper ==
    LET string == Words("out", 1, STRING_LEN)
        Handle(asked) ==
            /\ edge_call_setup_wrapped_ret(string)
            /\ answer' = Answer(asked, TRUE, 0, <<string>>)
    IN  Argued("get_string", hdr.arg_size, Handle)

\* A handler that does what it wants with its return data.
CustomHandler ==
    \E status \in {OK, BAD_PTR}, r \in Returns :
        LET Handle(asked) ==
                /\ hdr' = [hdr EXCEPT !.status = status, !.ret_offset = r[1], !.ret_size = r[2]]
                /\ UNCHANGED data
                /\ answer' = Answer(asked, status = OK /\ r[1] < LEN /\ r[1] + r[2] <= LEN, 0, <<<<>>>>)
        IN  Argued("custom", hdr.arg_size, Handle)

incoming_call_dispatch ==
    IF hdr.id = EDGECALL_SYSCALL THEN incoming_syscall
    ELSE LET handler == IF hdr.id > MAX_EDGE_CALL THEN "NULL" ELSE edge_call_table[hdr.id] IN
         \/ handler = "NULL" /\ hdr' = [hdr EXCEPT !.status = BAD_CALL_ID] /\ UNCHANGED <<data, answer>>
         \/ handler = "print_buffer" /\ print_buffer_wrapper
         \/ handler = "print_value" /\ print_value_wrapper
         \/ handler = "copy_report" /\ copy_report_wrapper
         \/ handler = "get_string" /\ get_host_string_wrapper
         \/ handler = "custom" /\ CustomHandler

(***************************************************************************)
(* The loop of Enclave::run.  The ioctl that runs the enclave returns when *)
(* it stops; only an edge call is dispatched.                              *)
(***************************************************************************)
Dispatch ==
    /\ world = "edgecall" /\ incoming_call_dispatch
    /\ world' = "served"
    /\ UNCHANGED <<pc, call, res>>

\* Mutant: an interrupt ends the loop.
Resume_once ==
    /\ world = "served"
    /\ world' = "enclave"
    /\ UNCHANGED <<hdr, data, pc, call, answer, res>>

Resume ==
    /\ world \in {"served", "interrupted"}
    /\ world' = "enclave"
    /\ UNCHANGED <<hdr, data, pc, call, answer, res>>

\* The timer fires (handle_timer_interrupt, or the monitor's own trap handler).
Interrupt ==
    /\ world = "enclave"
    /\ world' = "interrupted"
    /\ UNCHANGED <<hdr, data, pc, call, answer, res>>

Runtime == Marshal \/ Setup \/ Return \/ Fetch \/ NextPart

Next == Begin \/ Runtime \/ Exit \/ Dispatch \/ Resume \/ Interrupt

\* The host's loop goes on, and a resumed enclave executes at least one step
\* before the timer fires again, as the timer is set to a later time.
Spec == Init /\ [][Next]_vars /\ WF_vars(Dispatch) /\ WF_vars(Resume) /\ SF_vars(Runtime)

(***************************************************************************)
(* Properties.                                                             *)
(***************************************************************************)
\* The variables have their types.
TypeOK ==
    /\ \A f \in DOMAIN hdr : hdr[f] \in Word
    /\ DOMAIN data = 0 .. D - 1
    /\ world \in {"enclave", "edgecall", "served", "interrupted", "exited"}
    /\ pc \in {"app", "marshal", "setup", "return", "fetch", "next", "exit", "dead"}
    /\ call.total \in Word /\ call.more \in Seq(Nat)
    /\ answer.times \in 0 .. 1 /\ res.ret \in Word

\* The application never gets more words than it has room for, whatever sizes and
\* offsets the host puts into the shared buffer (dispatch_edgecall_ocall, the
\* copies back of the wrappers).
CopiesBounded ==
    \A i \in DOMAIN res.out :
        Len(res.out[i]) <= CASE call.kind = "syscall" -> SizeOf(call.w.pieces[i], call)
                             [] call.id = 4 -> STRING_LEN
                             [] OTHER -> call.cap

\* The runtime reaches past the shared buffer, which ends the enclave, only in
\* the calls whose wrappers do not compare the application's length with the
\* buffer, and for sendfile without an offset; no answer of the host makes it do
\* so (the calls of edge_call_check_ptr_valid in io_wrap.c and net_wrap.c).
FaultsAreOwn ==
    pc = "dead" => \/ call.w.num \in {"accept", "getpeername", "getsockname"} /\ 2 + call.alen > D
                   \/ call.w.num = "getcwd" /\ 2 + call.len > D
                   \/ call.w.num = "sendfile_null"

\* Calls to the host whose address, if there is one, fits into its field: a longer
\* one overwrites the length behind it.
Covered ==
    /\ call.kind # "copy"
    /\ \A p \in ToSet(call.w.pieces) : p.size = AddrArg => call.alen <= ADDR_LIMIT

Ideal == INSTANCE IdealCalls WITH
    Errors <- {1, MINUS1},
    asked <- IF Covered /\ pc \notin {"app", "next", "exit"} THEN Request(call) ELSE [num |-> "none"],
    answer <- IF Covered THEN answer ELSE NoAnswer,
    reply <- IF Covered /\ pc \in {"app", "next", "exit"} THEN res ELSE NoResult

\* Across interrupts at any point and whatever earlier calls left in the buffer,
\* the host carries out each call at most once, with the arguments the
\* application gave, and the application gets the results of this very call or
\* learns that it failed (Enclave::run, incoming_call_dispatch, the dispatch
\* functions of the runtime).
ImplementsCalls == Ideal!Spec

\* A call returns to the application, or the enclave ends (Enclave::run resumes
\* after every stop).
CallsReturn == pc \notin {"app", "exit"} ~> pc \in {"app", "exit", "dead"}

\* No size or offset in the shared buffer makes the runtime write past what the
\* application gave or read past the buffer (dispatch_edgecall_ocall,
\* dispatch_edgecall_syscall, edge_call_check_ptr_valid).
StaysInBounds == TypeOK /\ CopiesBounded /\ FaultsAreOwn
=============================================================================
