----------------------------- MODULE MCEdgeCall -----------------------------
(***************************************************************************)
(* Model-checking instance of the edge calls: addresses below 64, a shared *)
(* buffer of 15 words, which the runtime has at the end of its addresses,  *)
(* so that sums wrap, and the host in the middle.  Nine words are behind   *)
(* the header, seven of them for the data of a system call.  Every wrapper *)
(* is called, ocalls with each of the test host's functions, and copies    *)
(* from offsets inside, at the end of and behind the buffer.               *)
(***************************************************************************)
EXTENDS EdgeCall

UsesAddr(w) == \E i \in DOMAIN w.pieces : w.pieces[i].size = AddrArg
UsesLen(w) == w.plus \/ \E i \in DOMAIN w.pieces : w.pieces[i].size = LenArg

\* Lengths of data: none, some, the most that fits, one too many.
MCLens(w) ==
    IF ~UsesLen(w) THEN {0} ELSE IF w.fixed = 4 THEN {2, 5, 6}
    ELSE IF w.num \in {"read", "write", "getcwd"} THEN {0, 2, 7, 8} ELSE {2, 8}

\* Lengths of addresses, with what the second word is as a length: none, the most
\* that fits into the field, one too many.
MCAddrs(w) == IF UsesAddr(w) THEN {<<0, 0>>, <<1, 0>>, <<2, 1>>, <<2, 9>>} ELSE {<<0, 0>>}

MCCalls ==
    UNION {{SysCall(w, len, a[1], a[2], <<>>) : len \in MCLens(w), a \in MCAddrs(w)} : w \in Wrappers}
      \cup {SysCall(io_syscall_accept, 0, 9, 1, <<>>)}
      \cup {SysCall(w, 2, 0, 0, <<2>>) : w \in {io_syscall_read, io_syscall_write}}
      \cup {OCall(1, len, 1) : len \in {2, 9, 10}} \cup {OCall(2, 1, 0), OCall(3, 3, 0), OCall(4, 0, 2)}
      \cup {OCall(id, 1, 2) : id \in {5, 6, 12}} \cup {OCall(5, 0, 0)}
      \cup {SharedCopy(o, n) : o \in {0, 6, 14, 15, 60}, n \in {0, 1, 9, 63}}

MCReturns == {<<6, 1>>, <<6, 9>>, <<0, 9>>, <<14, 2>>, <<15, 0>>, <<60, 8>>}
=============================================================================
