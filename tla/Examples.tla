------------------------------ MODULE Examples ------------------------------
(***************************************************************************)
(* The examples.  Two attest: an enclave that fetches a nonce from its     *)
(* host, prints some values and sends a report (examples/attestation), and *)
(* the one that also fetches the path of a second enclave and takes the    *)
(* values to print from the nonce (examples/attesttwo).  The others print  *)
(* what they compute (hello-native, alpha, beta, addeyrie), and the last   *)
(* hands a result from one enclave to another through the host (e_com).    *)
(*                                                                         *)
(* The calls of an enclave and the answers of its host go through the same *)
(* shared buffer, of which a cell is a byte: the header, then the data.    *)
(* Module EdgeCall has the calls themselves, with interrupts and failures; *)
(* here the programs on both sides matter, and what one call leaves in the *)
(* buffer for the next.                                                    *)
(***************************************************************************)
EXTENDS Attestation, FiniteSetsExt

CONSTANTS
    WORD,           \* sizeof(unsigned long)
    LEN,            \* size of the shared buffer
    REPORT,         \* sizeof(struct report_t)
    COPY,           \* what the runtime copies of a report, 2048
    NONCE_BUF,      \* size of nonce_buf in the second example
    TARGET_BUF,     \* size of target_path
    LOOP,           \* how far the loop of the enclave counts, 10000
    EVERY,          \* of which the first example prints every 5000th
    HALF,           \* hexadecimal digits of a 32-bit number
    Rands,          \* what rand() returns
    Paths           \* paths of the second enclave

HDR == 6 * WORD     \* sizeof(struct edge_call)
EDGE_DATA == 2 * WORD

ASSUME ExamplesAssumption ==
    /\ WORD \in Nat \ {0} /\ REPORT <= COPY /\ HDR + 2 * COPY <= LEN
    /\ HALF % 2 = 0 /\ 2 * HALF + 1 <= NONCE_BUF /\ HDR + EDGE_DATA + NONCE_BUF <= LEN
    /\ LOOP > 1 /\ \A path \in Paths : HDR + EDGE_DATA + Len(path) + 1 <= LEN

VARIABLE example

(***************************************************************************)
(* The shared buffer.                                                      *)
(***************************************************************************)
Cells(kind, value, n) == [i \in 1 .. n |-> [kind |-> kind, value |-> value, part |-> i]]
Word(value) == Cells("word", value, WORD)
Chars(bytes) == [i \in DOMAIN bytes |-> [kind |-> "byte", value |-> bytes[i], part |-> 1]]
Put(data, offset, cells) ==
    [o \in DOMAIN data |-> IF o \in offset .. offset + Len(cells) - 1 THEN cells[o - offset + 1]
                           ELSE data[o]]
Take(data, offset, n) == [i \in 1 .. n |-> data[offset + i - 1]]

\* What n cells are read as: their value, if they are the parts of one.
Mixed == -1
Assembled(cells, kind, other) ==
    IF cells = Cells(cells[1].kind, cells[1].value, Len(cells)) /\ cells[1].kind = kind
    THEN cells[1].value ELSE other
WordAt(data, offset) == Assembled(Take(data, offset, WORD), "word", Mixed)
ByteOf(cell) == IF cell.kind = "byte" THEN cell.value ELSE STALE
NoHeader == [id |-> "none", arg_offset |-> 0, arg_size |-> 0, status |-> "OK",
             ret_offset |-> 0, ret_size |-> 0]
Cleared == [o \in HDR .. LEN - 1 |-> [kind |-> "byte", value |-> 0, part |-> 1]]

(***************************************************************************)
(* The hosts.                                                              *)
(***************************************************************************)
get_ptr_from_offset(offset) == offset <= LEN

\* Mutant: the string comes first and the wrapper behind it.
setup_wrapped_ret_swapped(x, string) ==
    LET size == Len(string) + 1 IN
    [x EXCEPT !.data = Put(Put(@, HDR, Chars(string \o <<0>>)),
                           HDR + size, Word(HDR) \o Word(size)),
              !.hdr.ret_offset = HDR + size, !.hdr.ret_size = EDGE_DATA, !.hdr.status = "OK"]

\* The string behind a wrapper that says where and how long it is.
setup_wrapped_ret(x, string) ==
    LET size == Len(string) + 1 IN
    [x EXCEPT !.data = Put(Put(@, HDR + EDGE_DATA, Chars(string \o <<0>>)),
                           HDR, Word(HDR + EDGE_DATA) \o Word(size)),
              !.hdr.ret_offset = HDR, !.hdr.ret_size = EDGE_DATA, !.hdr.status = "OK"]

\* With its arguments, unless they do not start in the buffer.
WithArgs(x, served) ==
    IF get_ptr_from_offset(x.hdr.arg_offset) THEN [served EXCEPT !.hdr.status = "OK"]
    ELSE [x EXCEPT !.hdr.status = "BAD_OFFSET"]

print_value_wrapper(x) ==
    WithArgs(x, [x EXCEPT !.printed = Append(@, WordAt(x.data, x.hdr.arg_offset))])

\* Report::fromBytes.
copy_report_wrapper(x) ==
    WithArgs(x, [x EXCEPT !.got = Assembled(Take(x.data, x.hdr.arg_offset, REPORT), "report", NoReport)])

\* %016lx of two numbers of which the first is shifted by 32 bits: the ASCII codes of its digits.
HexDigit(v) == IF v < 10 THEN 48 + v ELSE 87 + v
HexText(n) == [i \in 1 .. HALF |-> HexDigit((n \div 16 ^ (HALF - i)) % 16)]

get_host_string_wrapper(x) == setup_wrapped_ret(x, x.nonce)
get_nonce_wrapper(x, hi, lo) ==
    [setup_wrapped_ret(x, HexText(hi) \o HexText(lo)) EXCEPT !.nonce = HexText(hi) \o HexText(lo), !.rand = <<hi, lo>>]
get_target_wrapper(x) == setup_wrapped_ret(x, x.path)

Dispatch ==
    /\ example.world = "host" /\ example.prog \in {"attestation", "attesttwo"}
    /\ LET Served(x) == example' = [x EXCEPT !.world = "enclave"]
       IN  CASE example.hdr.id = "PRINT_VALUE" -> Served(print_value_wrapper(example))
             [] example.hdr.id = "COPY_REPORT" -> Served(copy_report_wrapper(example))
             [] example.hdr.id = "GET_STRING" -> Served(get_host_string_wrapper(example))
             [] example.hdr.id = "GET_NONCE" ->
                    \E hi, lo \in Rands : Served(get_nonce_wrapper(example, hi, lo))
             [] example.hdr.id = "GET_TARGET" -> Served(get_target_wrapper(example))

\* The other hosts: an int is half a word, and what a call returns starts the data.
INT == WORD \div 2
IntCells(value) == Cells("int", value, INT)
IntAt(data, offset) == Assembled(Take(data, offset, INT), "int", Mixed)

\* The bytes up to the first 0.
StringAt(data, offset) ==
    LET ends == {o \in offset .. LEN - 1 : ByteOf(data[o]) = 0}
    IN  [i \in 1 .. Min(ends \cup {LEN}) - offset |-> ByteOf(data[offset + i - 1])]

edge_call_args_ptr(x) == x.hdr.arg_offset < LEN /\ x.hdr.arg_size <= LEN - x.hdr.arg_offset
setup_ret(x, cells, size) ==
    [x EXCEPT !.data = Put(@, HDR, cells),
              !.hdr.ret_offset = HDR, !.hdr.ret_size = size, !.hdr.status = "OK"]
OrBadOffset(x, served) ==
    IF edge_call_args_ptr(x) THEN served ELSE [x EXCEPT !.hdr.status = "BAD_OFFSET"]

print_int_wrapper(x) ==
    OrBadOffset(x, setup_ret([x EXCEPT !.printed = Append(@, IntAt(x.data, x.hdr.arg_offset))],
                             Word(0), WORD))

\* print_string returns 0; that of hello-native what printf does, with 17 characters more.
print_string_wrapper(x) ==
    LET string == StringAt(x.data, x.hdr.arg_offset)
    IN  OrBadOffset(x, setup_ret([x EXCEPT !.printed = Append(@, string)],
                                 Word(IF x.prog = "hello" THEN Len(string) + 17 ELSE 0), WORD))

get_result_wrapper(x) == setup_ret(x, IntCells(x.shared_result), INT)

\* A word that was never set goes to the buffer, of which an int is said to be the result.
send_result_wrapper(x) ==
    OrBadOffset(x, setup_ret([x EXCEPT !.shared_result = IntAt(x.data, x.hdr.arg_offset)],
                             Cells("unset", STALE, WORD), INT))

Incoming ==
    /\ example.world = "host" /\ example.prog \notin {"attestation", "attesttwo"}
    /\ example' = [CASE example.hdr.id = "PRINT_INT" -> print_int_wrapper(example)
                     [] example.hdr.id = "PRINT_STRING" -> print_string_wrapper(example)
                     [] example.hdr.id = "GET_RESULT" -> get_result_wrapper(example)
                     [] example.hdr.id = "SEND_RESULT" -> send_result_wrapper(example)
                   EXCEPT !.world = "enclave"]

(***************************************************************************)
(* The enclaves.  What runs next once a step is done.                      *)
(***************************************************************************)
Steps ==
    [attestation |-> <<"get", "wrapper", "loop", "copy", "attest", "send", "done">>,
     attesttwo |-> <<"target", "get", "wrapper", "copy", "get_target", "wrapper_target", "copy_target",
                     "loop", "attest", "send", "check", "done">>,
     hello |-> <<"say", "done">>, alpha |-> <<"count", "done">>, beta |-> <<"count", "done">>,
     addeyrie |-> <<"add", "done">>,
     e_com |-> <<"sum", "launch", "get_result", "read", "say", "done">>]
After(x) == LET s == Steps[x.prog] IN s[SelectInSeq(s, LAMBDA pc : pc = x.pc) + 1]
AtStep(pc) == example.world = "enclave" /\ example.pc = pc
Done(x) == example' = [x EXCEPT !.pc = After(x)]

\* An OCALL: the arguments go to the beginning of the data.
Called(x, id, cells) ==
    [x EXCEPT !.hdr.id = id, !.hdr.arg_offset = HDR, !.hdr.arg_size = Len(cells),
              !.data = Put(@, HDR, cells), !.world = "host"]

\* The runner launches the second enclave, which returns at once, and then this
\* one, with a shared buffer of its own.
RunTarget == AtStep("target") /\ Done(example)

GetNonce ==
    /\ AtStep("get")
    /\ Done(Called(example, IF example.prog = "attestation" THEN "GET_STRING" ELSE "GET_NONCE", <<>>))
GetTarget == AtStep("get_target") /\ Done(Called(example, "GET_TARGET", <<>>))

\* What the call returned is copied to the enclave.
RetData(x) ==
    [offset |-> WordAt(x.data, x.hdr.ret_offset), size |-> WordAt(x.data, x.hdr.ret_offset + WORD)]
GetWrapper ==
    /\ AtStep("wrapper") \/ AtStep("wrapper_target")
    /\ Done([example EXCEPT !.retdata = RetData(example)])

\* At most max bytes of the string, the last of which is 0 if end says so.
copy_from_shared(x, max, end) ==
    LET size == Min({x.retdata.size, max})
        bytes == [i \in 1 .. size |-> ByteOf(x.data[x.retdata.offset + i - 1])]
    IN  IF end THEN [bytes EXCEPT ![size] = 0] ELSE bytes

CopyNonce ==
    /\ AtStep("copy")
    /\ Done([example EXCEPT !.copy = IF example.prog = "attestation"
                                     THEN copy_from_shared(example, COPY, FALSE)
                                     ELSE copy_from_shared(example, NONCE_BUF, TRUE)])
CopyTarget ==
    /\ AtStep("copy_target")
    /\ Done([example EXCEPT !.target_path = copy_from_shared(example, TARGET_BUF, TRUE)])

hex_digit_value(c) ==
    CASE c \in 48 .. 57 -> c - 48
      [] c \in 97 .. 102 -> c - 97 + 10
      [] c \in 65 .. 70 -> c - 65 + 10
      [] OTHER -> 0
hex_to_byte(hexstr, i) == 16 * hex_digit_value(hexstr[i]) + hex_digit_value(hexstr[i + 1])

\* The number that HALF digits from i on are, a byte at a time.
ParseHex(hexstr, i) ==
    FoldLeftDomain(LAMBDA n, k : 256 * n + hex_to_byte(hexstr, i + 2 * (k - 1)), 0, Zero(HALF \div 2))

Thresholds(hexstr) ==
    LET first == (ParseHex(hexstr, 1) % LOOP) + 1
        second == (ParseHex(hexstr, HALF + 1) % LOOP) + 1
    IN  {first, IF second = first THEN (first % LOOP) + 1 ELSE second}

Announced(x) ==
    IF x.prog = "attestation" THEN {i \in 1 .. LOOP : i % EVERY = 0}
    ELSE Thresholds(x.copy) \cap 1 .. LOOP

\* The loop up to the next value it prints, or to its end.
Loop ==
    /\ AtStep("loop")
    /\ LET more == {i \in Announced(example) : i > example.i} IN
       IF more = {} THEN Done(example)
       ELSE example' = [Called(example, "PRINT_VALUE", Word(Min(more))) EXCEPT !.i = Min(more)]

\* In the second example the data is the string up to its end, which is the first 0.
AttestedData(x) ==
    IF x.prog = "attestation" THEN x.copy
    ELSE SubSeq(x.copy, 1, SelectInSeq(x.copy, LAMBDA b : b = 0))

AttestSelf ==
    /\ AtStep("attest")
    /\ Done([example EXCEPT !.report = Report(MonitorHash[example.app], AttestedData(example))])

SendReport ==
    /\ AtStep("send")
    /\ LET copied == Cells("report", example.report, REPORT) \o Chars(Zero(COPY - REPORT))
           rest == IF example.prog = "attestation" THEN <<>> ELSE Chars(Zero(COPY))
       IN  Done(Called(example, "COPY_REPORT", copied \o rest))

\* The runner of the second example: the signatures, and the nonce if it has its length.
CheckReport ==
    /\ AtStep("check")
    /\ LET data == example.got.enclave.data
           len == example.got.enclave.data_len
       IN  Done([example EXCEPT
                   !.valid = example.got # NoReport
                             /\ checkSignaturesOnly(example.got, DeviceKeys(machine.dev).public),
                   !.shown = IF len = 2 * HALF + 1 THEN SubSeq(data, 1, len - 1) ELSE <<>>])

(***************************************************************************)
(* The enclaves that print what they compute.  Texts are ASCII codes.  An  *)
(* array that is not initialised holds, up to its first 0, one of Garbage. *)
(***************************************************************************)
HelloText == <<72, 101, 108, 108, 111, 32, 87, 111, 114, 108, 100>>
AlphaText == SubSeq(HelloText, 1, 6) \o <<102, 114, 111, 109, 32, 116, 104, 101, 32, 108, 97, 115, 116, 32,
                                          108, 101, 98, 117, 108, 117, 108, 117, 33>>
BetaText == FlattenSeq([i \in 1 .. 4 |-> <<108, 97, 32>>]) \o <<108, 97, 33>>
ResultText == <<108, 101, 32, 114, 101, 115, 117, 108, 116, 97, 116, 32, 101, 115, 116, 58, 32>>
Garbage == {<<>>, <<STALE>>}

CountL(text) == Cardinality({i \in DOMAIN text : text[i] = 108})

\* The digits from the last to the first and the sign, then turned round; base 10.
RECURSIVE Backwards(_)
Backwards(value) == IF value = 0 THEN <<>> ELSE <<HexDigit(value % 10)>> \o Backwards(value \div 10)
itoa(value) ==
    IF value = 0 THEN <<48>>
    ELSE IF value < 0 THEN Reverse(Append(Backwards(-value), 45)) ELSE Reverse(Backwards(value))
strcat_custom(dest, src) == dest \o src

ocall_print_int(x, value) == Called(x, "PRINT_INT", IntCells(value))
ocall_print_string(x, string) == Called(x, "PRINT_STRING", Chars(Append(string, 0)))

Count ==
    /\ AtStep("count")
    /\ Done(ocall_print_int(example, CountL(IF example.prog = "alpha" THEN AlphaText ELSE BetaText)))

\* The message is put together, and the sum alone is printed.
Add ==
    /\ AtStep("add")
    /\ LET message == FoldLeft(strcat_custom, example.message,
                               <<itoa(5), <<32, 101, 116, 32>>, itoa(7), <<32, 101, 115, 116, 32>>, itoa(5 + 7)>>)
       IN  Done(ocall_print_int([example EXCEPT !.message = message], 5 + 7))

SendSum == AtStep("sum") /\ Done(Called(example, "SEND_RESULT", IntCells(2 + 6)))

\* The first enclave has returned; the second one gets a shared buffer of its own.
Launch == AtStep("launch") /\ Done([example EXCEPT !.data = Cleared, !.hdr = NoHeader])

GetResult == AtStep("get_result") /\ Done(Called(example, "GET_RESULT", <<>>))
ReadResult == AtStep("read") /\ Done([example EXCEPT !.result = IntAt(example.data, example.hdr.ret_offset)])
Product(x) == strcat_custom(strcat_custom(x.message, ResultText), itoa(5 * x.result))
Say ==
    /\ AtStep("say")
    /\ Done(ocall_print_string(example, IF example.prog = "hello" THEN HelloText ELSE Product(example)))

\* The enclave has returned.
Ended == AtStep("done")
Exited == Ended /\ UNCHANGED example

(***************************************************************************)
(* One example runs, of an application and beside another one.             *)
(***************************************************************************)
ExampleIdle == example = [pc |-> "idle"]
ExampleStart ==
    \E prog \in DOMAIN Steps, app, target \in Apps, path \in Paths, nonce \in Nonces, message \in Garbage :
        /\ prog # "attesttwo" => target = app /\ path = CHOOSE p \in Paths : TRUE
        /\ prog # "attestation" => nonce = CHOOSE n \in Nonces : TRUE
        /\ prog \in {"attestation", "attesttwo"} => message = <<>>
        /\ prog \notin {"attestation", "attesttwo"} => app = CHOOSE a \in Apps : TRUE
        /\ example =
             [prog |-> prog, app |-> app, target |-> target, path |-> path,
              nonce |-> IF prog = "attestation" THEN nonce ELSE <<>>, rand |-> <<0, 0>>,
              pc |-> Head(Steps[prog]), world |-> "enclave", data |-> Cleared, hdr |-> NoHeader,
              retdata |-> [offset |-> 0, size |-> 0], copy |-> <<>>, target_path |-> <<>>,
              i |-> 0, printed |-> <<>>, report |-> NoReport, got |-> NoReport,
              valid |-> FALSE, shown |-> <<>>, shared_result |-> 0, result |-> STALE, message |-> message]

ExampleNext ==
    /\ ~ExampleIdle
    /\ \/ RunTarget \/ GetNonce \/ GetTarget \/ GetWrapper \/ CopyNonce \/ CopyTarget
       \/ Loop \/ AttestSelf \/ SendReport \/ CheckReport
       \/ Count \/ Add \/ SendSum \/ Launch \/ GetResult \/ ReadResult \/ Say
       \/ Dispatch \/ Incoming \/ Exited

Finished(prog) == ~ExampleIdle /\ Ended /\ example.prog = prog

(***************************************************************************)
(* Properties.                                                             *)
(***************************************************************************)
\* The report that reaches the host is good to a verifier that measured the files
\* and chose the nonce, although values were printed through the buffer before
\* the enclave copied the nonce (attestor.c, Host::run, verify_report); that of the
\* second example has valid signatures and the nonce that the host made last
\* (attesttwo_attestor.c, attesttwo-runner.cpp).
ReportAnswersNonce ==
    /\ Finished("attestation") =>
          /\ verify(example.got, compute_expected_enclave_hash[example.app],
                    compute_expected_sm_hash[machine.mon], DeviceKeys(machine.dev).public)
          /\ verify_data(example.got, example.nonce)
    /\ Finished("attesttwo") =>
          /\ example.valid /\ verify_data(example.got, example.nonce)
          /\ example.shown = example.nonce

\* The second example prints two different values of the range, in ascending order,
\* which are those of the two numbers in the nonce where these differ
\* (attesttwo_attestor.c, the thresholds and the loop).
TwoCheckpoints ==
    Finished("attesttwo") =>
        /\ Len(example.printed) = 2
        /\ 1 <= example.printed[1] /\ example.printed[1] < example.printed[2] /\ example.printed[2] <= LOOP
        /\ LET values == {(example.rand[h] % LOOP) + 1 : h \in 1 .. 2} IN
           Cardinality(values) = 2 => ToSet(example.printed) = values

\* What the host prints last is what the enclave computed, in decimal.  The product
\* of the second enclave of e_com is made of the sum that the first one sent, which
\* no shared buffer held in between; what its message array held before comes first
\* (mult.c, sum.c, addition.c, alpha.c, beta.c, eapp_native.c and their hosts).
ResultsHandedOn ==
    LET Decimal(text) ==
            IF Head(text) = 45 THEN -FoldLeft(LAMBDA n, c : 10 * n + c - 48, 0, Tail(text))
            ELSE FoldLeft(LAMBDA n, c : 10 * n + c - 48, 0, text)
    IN  /\ Finished("hello") => example.printed = <<HelloText>>
        /\ Finished("alpha") => example.printed = <<6>>
        /\ Finished("beta") => example.printed = <<5>>
        /\ Finished("addeyrie") =>
              /\ example.printed = <<12>>
              /\ \A v \in -101 .. 101 : Decimal(itoa(v)) = v /\ (Head(itoa(v)) = 48 => v = 0)
        /\ Finished("e_com") =>
              /\ Len(example.printed) = 1
              /\ example.printed[1] = example.message \o ResultText \o <<52, 48>>

\* The examples give a report for the nonce, announce their two values and print their
\* results, whatever went through the shared buffer before (src/examples).
ExamplesAttest == ReportAnswersNonce /\ TwoCheckpoints /\ ResultsHandedOn

\* The report of the second example is about the target enclave, as its README says
\* of attest_enclave in the attestor.
ReportsTarget ==
    Finished("attesttwo") => example.got.enclave.hash = compute_expected_enclave_hash[example.target]
=============================================================================
