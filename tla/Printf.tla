------------------------------- MODULE Printf -------------------------------
(***************************************************************************)
(* The runtime's formatted output (runtime/util/printf.c): one step for    *)
(* each character of the format that is copied, for each directive, and    *)
(* for the end.  Formats and outputs are sequences of characters.          *)
(* Floating-point conversions, which no format of the runtime has, are     *)
(* left out.                                                               *)
(***************************************************************************)
EXTENDS Integers, Sequences, SequencesExt, FiniteSets, TLC

CONSTANTS
    NTOA_BUFFER_SIZE,   \* PRINTF_NTOA_BUFFER_SIZE
    Bits,               \* how many bits a char, a short, an int and a long have
    Jobs,               \* what is printed: parts, each a directive with its argument, and a size
    Guard               \* bytes behind the buffer

VARIABLE print

PrintIdle == print = [at |-> "idle"]

Digit == <<"0", "1", "2", "3", "4", "5", "6", "7", "8", "9", "a", "b", "c", "d", "e", "f">>
Upper == "a" :> "A" @@ "b" :> "B" @@ "c" :> "C" @@ "d" :> "D" @@ "e" :> "E" @@ "f" :> "F"
Repeat(ch, n) == [k \in 1 .. n |-> ch]
Peek(format, i) == IF i <= Len(format) THEN format[i] ELSE "NUL"

(***************************************************************************)
(* Integers.  buf holds the digits from the last one on.                   *)
(***************************************************************************)
RECURSIVE DigitsOf(_, _)
DigitsOf(value, base) ==
    <<Digit[(value % base) + 1]>>
    \o IF value < base THEN <<>> ELSE DigitsOf(value \div base, base)

Fill(buf, n) == buf \o Repeat("0", n - Len(buf))
Limited(n) == IF n < NTOA_BUFFER_SIZE THEN n ELSE NTOA_BUFFER_SIZE
Put(buf, ch) == IF Len(buf) < NTOA_BUFFER_SIZE THEN Append(buf, ch) ELSE buf
Shorter(buf, n) == SubSeq(buf, 1, IF n < Len(buf) THEN Len(buf) - n ELSE 0)

LeadingZeros(buf, prec, width, flags) ==
    IF "LEFT" \in flags THEN buf
    ELSE Fill(Fill(buf, Limited(prec)), IF "ZEROPAD" \in flags THEN Limited(width) ELSE 0)

\* The prefix takes the place of zeros that fill the width.
Prefixed(buf, base, prec, width, flags) ==
    LET cut == IF "PRECISION" \notin flags /\ Len(buf) \in {prec, width}
               THEN Shorter(buf, IF base = 16 THEN 2 ELSE 1) ELSE buf
        mark == IF base = 16 THEN Put(cut, IF "UPPERCASE" \in flags THEN "X" ELSE "x")
                ELSE IF base = 2 THEN Put(cut, "b") ELSE cut
    IN  IF "HASH" \in flags THEN Put(mark, "0") ELSE buf

\* Mutant: the place of a zero is not made free.
Signed_long(buf, negative, width, flags) ==
    IF negative THEN Put(buf, "-")
    ELSE IF "PLUS" \in flags THEN Put(buf, "+")
    ELSE IF "SPACE" \in flags THEN Put(buf, " ") ELSE buf

\* So does the sign.
Signed(buf, negative, width, flags) ==
    LET cut == IF Len(buf) = width THEN Shorter(buf, 1) ELSE buf IN
    IF negative THEN Put(cut, "-")
    ELSE IF "PLUS" \in flags THEN Put(cut, "+")
    ELSE IF "SPACE" \in flags THEN Put(cut, " ") ELSE buf

_ntoa_format(digits, negative, base, prec, width, flags) ==
    LET buf == Signed(Prefixed(LeadingZeros(digits, prec, width, flags), base, prec, width, flags),
                      negative, width, flags)
        spaces == Repeat(" ", width - Len(buf))
    IN  (IF flags \cap {"LEFT", "ZEROPAD"} = {} THEN spaces ELSE <<>>)
        \o Reverse(buf) \o (IF "LEFT" \in flags THEN spaces ELSE <<>>)

\* _ntoa_long and _ntoa_long_long differ in the type of the value only.
_ntoa_long(value, negative, base, prec, width, flags) ==
    LET digits == IF "PRECISION" \in flags /\ value = 0 THEN <<>>
                  ELSE SubSeq(DigitsOf(value, base), 1, Limited(Len(DigitsOf(value, base))))
        cased == [k \in DOMAIN digits |->
                     IF "UPPERCASE" \in flags /\ digits[k] \in DOMAIN Upper THEN Upper[digits[k]] ELSE digits[k]]
    IN  _ntoa_format(cased, negative, base, prec, width, IF value = 0 THEN flags \ {"HASH"} ELSE flags)

(***************************************************************************)
(* A directive: %[flags][width][.precision][length]specifier.  d is what   *)
(* has been read of it: the position, the arguments left, flags, width and *)
(* precision.                                                              *)
(***************************************************************************)
FlagOf == "0" :> "ZEROPAD" @@ "-" :> "LEFT" @@ "+" :> "PLUS" @@ " " :> "SPACE" @@ "#" :> "HASH"
_is_digit(ch) == ch \in {Digit[n] : n \in 1 .. 10}

RECURSIVE ReadFlags(_, _)
ReadFlags(format, d) ==
    IF Peek(format, d.i) \in DOMAIN FlagOf
    THEN ReadFlags(format, [d EXCEPT !.i = @ + 1, !.flags = @ \cup {FlagOf[format[d.i]]}])
    ELSE d

RECURSIVE _atoi(_, _, _)
_atoi(format, i, n) ==
    IF _is_digit(Peek(format, i))
    THEN _atoi(format, i + 1, 10 * n + (CHOOSE k \in 0 .. 9 : Digit[k + 1] = format[i]))
    ELSE [i |-> i, n |-> n]

ReadWidth(format, d) ==
    LET a == _atoi(format, d.i, 0)
        w == Head(d.va)
    IN  IF Peek(format, d.i) # "*" THEN [d EXCEPT !.i = a.i, !.width = a.n]
        ELSE [d EXCEPT !.i = @ + 1, !.va = Tail(@), !.width = IF w < 0 THEN -w ELSE w,
                       !.flags = IF w < 0 THEN @ \cup {"LEFT"} ELSE @]

ReadPrecision(format, d) ==
    LET a == _atoi(format, d.i + 1, 0)
        p == Head(d.va)
        dotted == [d EXCEPT !.flags = @ \cup {"PRECISION"}]
    IN  IF Peek(format, d.i) # "." THEN d
        ELSE IF Peek(format, d.i + 1) # "*" THEN [dotted EXCEPT !.i = a.i, !.prec = a.n]
        ELSE [dotted EXCEPT !.i = @ + 2, !.va = Tail(@), !.prec = IF p > 0 THEN p ELSE 0]

ReadLength(format, d) ==
    LET ch == Peek(format, d.i)
        twice == Peek(format, d.i + 1) = ch
    IN  CASE ch = "l" /\ twice -> [d EXCEPT !.i = @ + 2, !.flags = @ \cup {"LONG", "LONG_LONG"}]
          [] ch = "h" /\ twice -> [d EXCEPT !.i = @ + 2, !.flags = @ \cup {"SHORT", "CHAR"}]
          [] ch = "h" /\ ~twice -> [d EXCEPT !.i = @ + 1, !.flags = @ \cup {"SHORT"}]
          [] (ch = "l" /\ ~twice) \/ ch \in {"t", "j", "z"} -> [d EXCEPT !.i = @ + 1, !.flags = @ \cup {"LONG"}]
          [] OTHER -> d

Read(format, i, va) ==
    ReadLength(format, ReadPrecision(format, ReadWidth(format, ReadFlags(format,
        [i |-> i, va |-> va, flags |-> {}, width |-> 0, prec |-> 0]))))

(***************************************************************************)
(* Conversions.  An argument is what the caller passed; plain char is      *)
(* unsigned on RISC-V.                                                     *)
(***************************************************************************)
Unsigned(v, bits) == v % 2^bits
TwosComplement(v, bits) == IF v % 2^bits < 2^(bits - 1) THEN v % 2^bits ELSE (v % 2^bits) - 2^bits
Magnitude(v, bits) == Unsigned(IF v > 0 THEN v ELSE 0 - v, bits)

SignedArg(v, flags) ==
    IF "LONG" \in flags THEN TwosComplement(v, Bits.long)
    ELSE IF "CHAR" \in flags THEN Unsigned(v, Bits.char)
    ELSE IF "SHORT" \in flags THEN TwosComplement(v, Bits.short) ELSE TwosComplement(v, Bits.int)
UnsignedArg(v, flags) ==
    Unsigned(v, IF "LONG" \in flags THEN Bits.long ELSE IF "CHAR" \in flags THEN Bits.char
                ELSE IF "SHORT" \in flags THEN Bits.short ELSE Bits.int)
BaseOf == "d" :> 10 @@ "i" :> 10 @@ "u" :> 10 @@ "x" :> 16 @@ "X" :> 16 @@ "o" :> 8 @@ "b" :> 2

PrintInteger(ch, d) ==
    LET v == Head(d.va)
        signed == ch \in {"d", "i"}
        flags == (d.flags \ ((IF BaseOf[ch] = 10 THEN {"HASH"} ELSE {})
                             \cup (IF signed THEN {} ELSE {"PLUS", "SPACE"})
                             \cup (IF "PRECISION" \in d.flags THEN {"ZEROPAD"} ELSE {})))
                 \cup (IF ch = "X" THEN {"UPPERCASE"} ELSE {})
        s == SignedArg(v, flags)
    IN  IF signed
        THEN _ntoa_long(Magnitude(s, IF "LONG" \in flags THEN Bits.long ELSE Bits.int), s < 0,
                        10, d.prec, d.width, flags)
        ELSE _ntoa_long(UnsignedArg(v, flags), FALSE, BaseOf[ch], d.prec, d.width, flags)

PrintPointer(d) ==
    _ntoa_long(Unsigned(Head(d.va), Bits.long), FALSE, 16, d.prec, Bits.long \div 4,
               d.flags \cup {"ZEROPAD", "UPPERCASE"})

\* Spaces before or behind a text, up to the width.
Justified(text, d) ==
    LET spaces == Repeat(" ", d.width - Len(text)) IN
    IF "LEFT" \in d.flags THEN text \o spaces ELSE spaces \o text

PrintString(d) ==
    LET s == Head(d.va)
        n == IF "PRECISION" \in d.flags /\ d.prec < Len(s) THEN d.prec ELSE Len(s)
    IN  Justified(SubSeq(s, 1, n), d)

\* A specifier that is not known, or %, is printed itself and takes no argument.
Converted(ch, d) ==
    IF ch \in DOMAIN BaseOf THEN [text |-> PrintInteger(ch, d), va |-> Tail(d.va)]
    ELSE IF ch = "c" THEN [text |-> Justified(<<Head(d.va)>>, d), va |-> Tail(d.va)]
    ELSE IF ch = "s" THEN [text |-> PrintString(d), va |-> Tail(d.va)]
    ELSE IF ch = "p" THEN [text |-> PrintPointer(d), va |-> Tail(d.va)]
    ELSE [text |-> <<ch>>, va |-> d.va]

(***************************************************************************)
(* _vsnprintf.  sent is what it hands to its output function: snprintf's   *)
(* is _out_buffer, the others hand it on.  A part of a job has the fields  *)
(* of a directive, or is a character.                                      *)
(***************************************************************************)
Number(n) == Reverse(DigitsOf(n, 10))
Field(n, star) == IF star THEN <<"*">> ELSE Number(n)
Rendered(p) ==
    IF p.spec = "char" THEN <<p.arg>>
    ELSE <<"%">> \o SetToSeq(p.flags) \o (IF p.width = 0 THEN <<>> ELSE Field(p.width, p.star))
         \o (IF p.prec = -1 THEN <<>> ELSE <<".">> \o Field(p.prec, p.star)) \o p.length \o <<p.spec>>
Arguments(p) ==
    IF p.spec = "char" THEN <<>>
    ELSE (IF p.width # 0 /\ p.star THEN <<p.width>> ELSE <<>>)
         \o (IF p.prec # -1 /\ p.star THEN <<p.prec>> ELSE <<>>)
         \o (IF p.spec = "%" THEN <<>> ELSE <<p.arg>>)

PrintStart ==
    \E job \in Jobs :
        print = [at |-> "format", job |-> job, i |-> 1,
                 format |-> FlattenSeq([n \in DOMAIN job.parts |-> Rendered(job.parts[n])]),
                 va |-> FlattenSeq([n \in DOMAIN job.parts |-> Arguments(job.parts[n])]),
                 sent |-> <<>>, buffer |-> Repeat("?", job.size + Guard)]

_out_buffer(ch, buffer, idx, maxlen) ==
    IF idx < maxlen THEN [buffer EXCEPT ![idx + 1] = ch] ELSE buffer

Out(text) ==
    LET step(b, n) == _out_buffer(text[n], b, Len(print.sent) + n - 1, print.job.size) IN
    [print EXCEPT !.sent = @ \o text, !.buffer = FoldLeft(step, @, [n \in DOMAIN text |-> n])]

PrintChar ==
    /\ print.at = "format" /\ print.i <= Len(print.format) /\ print.format[print.i] # "%"
    /\ print' = [Out(<<print.format[print.i]>>) EXCEPT !.i = @ + 1]

PrintDirective ==
    /\ print.at = "format" /\ Peek(print.format, print.i) = "%"
    /\ LET d == Read(print.format, print.i + 1, print.va)
           c == Converted(print.format[d.i], d)
       IN  print' = [Out(c.text) EXCEPT !.i = d.i + 1, !.va = c.va]

\* The end goes behind the text or into the last byte; with no byte at all, to an
\* index that is behind the buffer.
PrintEnd ==
    /\ print.at = "format" /\ print.i > Len(print.format)
    /\ LET size == print.job.size
           idx == IF Len(print.sent) < size THEN Len(print.sent) ELSE Unsigned(size - 1, Bits.long)
       IN  print' = [print EXCEPT !.at = "done", !.buffer = _out_buffer("NUL", @, idx, size)]

PrintNext == PrintChar \/ PrintDirective \/ PrintEnd

(***************************************************************************)
(* What the C standard says a directive prints.                            *)
(***************************************************************************)
Has(p, flag) == flag \in p.flags \/ (flag = "-" /\ p.width < 0)
Width(p) == IF p.width < 0 THEN -p.width ELSE p.width
BitsOf(p) ==
    CASE p.length = <<>> -> Bits.int
      [] p.length = <<"h">> -> Bits.short
      [] p.length = <<"h", "h">> -> Bits.char
      [] OTHER -> Bits.long
IsSigned(p) == p.spec \in {"d", "i"}
Value(p) == IF IsSigned(p) THEN TwosComplement(p.arg, BitsOf(p)) ELSE Unsigned(p.arg, BitsOf(p))
Body(p) ==
    LET n == IF Value(p) < 0 THEN -Value(p) ELSE Value(p)
        digits == IF n = 0 /\ p.prec = 0 THEN <<>> ELSE Reverse(DigitsOf(n, BaseOf[p.spec]))
    IN  IF p.spec = "X" THEN [k \in DOMAIN digits |-> IF digits[k] \in DOMAIN Upper THEN Upper[digits[k]] ELSE digits[k]]
        ELSE digits
Lead(p) ==
    IF IsSigned(p)
    THEN IF Value(p) < 0 THEN <<"-">> ELSE IF Has(p, "+") THEN <<"+">>
         ELSE IF Has(p, " ") THEN <<" ">> ELSE <<>>
    ELSE IF Has(p, "#") /\ Value(p) # 0 /\ p.spec # "u"
    THEN IF p.spec # "o" THEN <<"0", p.spec>> ELSE IF p.prec > Len(Body(p)) THEN <<>> ELSE <<"0">>
    ELSE <<>>
StandardInteger(p) ==
    LET body == Repeat("0", p.prec - Len(Body(p))) \o Body(p)
        gap == Width(p) - Len(Lead(p)) - Len(body)
    IN  IF Has(p, "-") THEN Lead(p) \o body \o Repeat(" ", gap)
        ELSE IF Has(p, "0") /\ p.prec = -1 THEN Lead(p) \o Repeat("0", gap) \o body
        ELSE Repeat(" ", gap) \o Lead(p) \o body
StandardText(p, text) ==
    IF Has(p, "-") THEN text \o Repeat(" ", Width(p) - Len(text)) ELSE Repeat(" ", Width(p) - Len(text)) \o text
Standard(p) ==
    CASE p.spec \in DOMAIN BaseOf -> StandardInteger(p)
      [] p.spec = "s" -> StandardText(p, SubSeq(p.arg, 1, IF p.prec \in 0 .. Len(p.arg) THEN p.prec ELSE Len(p.arg)))
      [] p.spec = "c" -> StandardText(p, <<p.arg>>)
      [] p.spec = "char" -> <<p.arg>>
      [] p.spec = "%" -> <<"%">>
      [] p.spec = "p" -> StandardInteger([p EXCEPT !.spec = "X", !.length = <<"l">>, !.width = Bits.long \div 4, !.flags = {"0"}])

\* Where the code prints what the standard says.  It does not when the digits alone
\* fill the width and a sign or a prefix takes the place of the first of them; when
\* 0x or 0b take the place of fewer zeros than they need; for zeros of a precision
\* with - or behind the 0 of an octal number; for negative chars; and beyond its own buffer.
Conforming(p) ==
    p.spec \in DOMAIN BaseOf =>
        LET n == Len(Body(p))
            own == IF n < p.prec THEN p.prec ELSE n
            padded == Has(p, "0") /\ ~Has(p, "-") /\ n < Width(p)
        IN  /\ Has(p, "-") => p.prec <= n
            /\ Lead(p) # <<>> /\ IsSigned(p) => own = 0 \/ own # Width(p)
            /\ Has(p, "#") /\ p.spec \in {"x", "X", "o", "b"} /\ Value(p) # 0 =>
                  IF p.prec = -1 THEN n # Width(p) /\ (padded => p.spec # "b" /\ n + Len(Lead(p)) <= Width(p))
                  ELSE p.spec = "o" => p.prec <= n
            /\ IsSigned(p) /\ p.length = <<"h", "h">> => Value(p) >= 0
            /\ own + Len(Lead(p)) <= NTOA_BUFFER_SIZE /\ (padded => Width(p) <= NTOA_BUFFER_SIZE)

(***************************************************************************)
(* Properties.                                                             *)
(***************************************************************************)
\* Every directive is read to its end, takes its own arguments and prints what the
\* C standard says, wherever Conforming holds (_vsnprintf, _ntoa_format).
PrintsAsC ==
    print.at = "done" /\ (\A n \in DOMAIN print.job.parts : Conforming(print.job.parts[n])) =>
        /\ print.sent = FlattenSeq([n \in DOMAIN print.job.parts |-> Standard(print.job.parts[n])])
        /\ print.va = <<>>

\* At every moment the buffer holds as much of the output as fits and the bytes
\* behind it are untouched; at the end it is terminated, the output cut if need be
\* (_out_buffer, _vsnprintf, snprintf).
StaysInBuffer ==
    print.at # "idle" =>
        LET size == print.job.size
            n == IF Len(print.sent) < size THEN Len(print.sent) ELSE size
            end == IF n = size THEN size - 1 ELSE n
        IN  /\ \A k \in size + 1 .. size + Guard : print.buffer[k] = "?"
            /\ \A k \in 1 .. end : print.buffer[k] = print.sent[k]
            /\ print.at = "done" /\ size > 0 => print.buffer[end + 1] = "NUL"
            /\ print.at = "format" /\ n = size /\ n > 0 => print.buffer[n] = print.sent[n]

\* Formatted output is that of the C standard and stays in its buffer (_vsnprintf).
FormatsAsC == PrintsAsC /\ StaysInBuffer
=============================================================================
