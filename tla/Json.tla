-------------------------------- MODULE Json --------------------------------
(***************************************************************************)
(* The JSON library that reports travel through                            *)
(* (sdk/src/verifier/json11.cpp): its values, dump, parse and parse_multi. *)
(* A text is a sequence of bytes.                                          *)
(***************************************************************************)
EXTENDS Integers, Sequences, SequencesExt, FiniteSets, FiniteSetsExt, TLC

CONSTANTS
    MAX_DEPTH,      \* max_depth, the containers that may be around a value
    DIGITS10,       \* numeric_limits<int>::digits10
    JsonTexts,      \* pairs of a text to be parsed and a strategy
    JsonValues      \* values to be dumped

VARIABLE json       \* what was called and what it returned

\* The bytes of the characters the library knows, and their sequences.
Ascii ==
    "\t" :> 9 @@ "\n" :> 10 @@ "\f" :> 12 @@ "\r" :> 13 @@ " " :> 32 @@ "\"" :> 34 @@ "*" :> 42
    @@ "+" :> 43 @@ "," :> 44 @@ "-" :> 45 @@ "." :> 46 @@ "/" :> 47 @@ "0" :> 48 @@ "9" :> 57
    @@ ":" :> 58 @@ "A" :> 65 @@ "E" :> 69 @@ "F" :> 70 @@ "[" :> 91 @@ "\\" :> 92 @@ "]" :> 93
    @@ "a" :> 97 @@ "b" :> 98 @@ "e" :> 101 @@ "f" :> 102 @@ "l" :> 108 @@ "n" :> 110
    @@ "r" :> 114 @@ "s" :> 115 @@ "t" :> 116 @@ "u" :> 117 @@ "{" :> 123 @@ "}" :> 125
Text(chars) == [n \in DOMAIN chars |-> Ascii[chars[n]]]
TrueText == Text(<<"t", "r", "u", "e">>)
FalseText == Text(<<"f", "a", "l", "s", "e">>)
NullText == Text(<<"n", "u", "l", "l">>)

Whitespace == {Ascii[" "], Ascii["\r"], Ascii["\n"], Ascii["\t"]}
in_range(x, lower, upper) == lower <= x /\ x <= upper
IsDigit(ch) == in_range(ch, Ascii["0"], Ascii["9"])

\* str[i], from 1, which is NUL behind the end.
At(str, i) == IF i <= Len(str) THEN str[i] ELSE 0

(***************************************************************************)
(* Values.  A number is m * 10^e, m no multiple of 10, whether it is kept  *)
(* as an int or as a double: number_value compares them.                   *)
(***************************************************************************)
JsonNull == <<"NUL">>
JsonBoolean(value) == <<"BOOL", value>>
JsonString(value) == <<"STRING", value>>
JsonArray(values) == <<"ARRAY", values>>
JsonObject(values) == <<"OBJECT", values>>

RECURSIVE JsonNumber(_, _)
JsonNumber(m, e) ==
    IF m = 0 THEN <<"NUMBER", 0, 0>>
    ELSE IF m % 10 = 0 THEN JsonNumber(m \div 10, e + 1) ELSE <<"NUMBER", m, e>>

Results(i, value) == [i |-> i, failed |-> FALSE, value |-> value]
fail == [i |-> 0, failed |-> TRUE, value |-> JsonNull]

(***************************************************************************)
(* Serialization.  Numbers that are not integers are left to printf.       *)
(***************************************************************************)
Hex(n) == IF n < 10 THEN Ascii["0"] + n ELSE Ascii["a"] + n - 10
Escapes == "\\" :> 92 @@ "\"" :> 34 @@ "b" :> 8 @@ "f" :> 12 @@ "n" :> 10 @@ "r" :> 13 @@ "t" :> 9

dump_char(ch) ==
    IF \E c \in DOMAIN Escapes : Escapes[c] = ch
    THEN Text(<<"\\", CHOOSE c \in DOMAIN Escapes : Escapes[c] = ch>>)
    ELSE IF ch <= 31 THEN Text(<<"\\", "u", "0", "0">>) \o <<Hex(ch \div 16), Hex(ch % 16)>>
    ELSE <<ch>>

\* U+2028 and U+2029, which are line ends to JavaScript, are escaped as a whole.
RECURSIVE dump_chars(_, _)
dump_chars(value, i) ==
    IF i > Len(value) THEN <<>>
    ELSE IF value[i] = 226 /\ At(value, i + 1) = 128 /\ At(value, i + 2) \in {168, 169}
    THEN Text(<<"\\", "u">>) \o <<50, 48, 50, Hex(value[i + 2] - 160)>> \o dump_chars(value, i + 3)
    ELSE dump_char(value[i]) \o dump_chars(value, i + 1)

dump_string(value) == <<Ascii["\""]>> \o dump_chars(value, 1) \o <<Ascii["\""]>>

RECURSIVE Decimal(_)
Decimal(n) == (IF n < 10 THEN <<>> ELSE Decimal(n \div 10)) \o <<Hex(n % 10)>>
dump_int(n) == IF n < 0 THEN <<Ascii["-"]>> \o Decimal(-n) ELSE Decimal(n)

Separated(parts) ==
    FlattenSeq([n \in DOMAIN parts |-> (IF n = 1 THEN <<>> ELSE Text(<<",", " ">>)) \o parts[n]])

\* The order of std::map's keys.
Before(a, b) ==
    \E n \in 0 .. Len(a) : /\ n < Len(b) /\ SubSeq(a, 1, n) = SubSeq(b, 1, n)
                           /\ n = Len(a) \/ a[n + 1] < b[n + 1]
Sorted(keys) == SetToSortSeq(keys, Before)

RECURSIVE dump(_)
dump_array(values) ==
    Text(<<"[">>) \o Separated([n \in DOMAIN values |-> dump(values[n])]) \o Text(<<"]">>)
dump_object(values) ==
    LET keys == Sorted(DOMAIN values)
        member(key) == dump_string(key) \o Text(<<":", " ">>) \o dump(values[key])
    IN  Text(<<"{">>) \o Separated([n \in DOMAIN keys |-> member(keys[n])]) \o Text(<<"}">>)
dump(v) ==
    CASE v[1] = "NUL" -> NullText
      [] v[1] = "BOOL" -> IF v[2] THEN TrueText ELSE FalseText
      [] v[1] = "NUMBER" -> dump_int(v[2] * 10^v[3])
      [] v[1] = "STRING" -> dump_string(v[2])
      [] v[1] = "ARRAY" -> dump_array(v[2])
      [] v[1] = "OBJECT" -> dump_object(v[2])

(***************************************************************************)
(* Parsing.  i is the position in str, as in JsonParser.                   *)
(***************************************************************************)
RECURSIVE consume_whitespace(_, _)
consume_whitespace(str, i) ==
    IF At(str, i) \in Whitespace THEN consume_whitespace(str, i + 1) ELSE i

RECURSIVE Digits(_, _)
Digits(str, i) == IF IsDigit(At(str, i)) THEN Digits(str, i + 1) ELSE i

\* The value tells whether there was a comment.
consume_comment(str, i) ==
    LET line == {j \in i + 2 .. Len(str) : str[j] = Ascii["\n"]}
        closing == {j \in i + 2 .. Len(str) - 1 : str[j] = Ascii["*"] /\ str[j + 1] = Ascii["/"]}
    IN  IF At(str, i) # Ascii["/"] THEN Results(i, FALSE)
        ELSE IF At(str, i + 1) = Ascii["/"] THEN Results(Min(line \cup {Len(str) + 1}), TRUE)
        ELSE IF At(str, i + 1) = Ascii["*"] /\ closing # {} THEN Results(Min(closing) + 2, TRUE)
        ELSE fail

RECURSIVE consume_comments(_, _)
consume_comments(str, c) ==
    IF c.failed THEN fail
    ELSE IF c.value THEN consume_comments(str, consume_comment(str, consume_whitespace(str, c.i))) ELSE c

consume_garbage(str, i, strategy) ==
    IF strategy = "COMMENTS" THEN consume_comments(str, Results(i, TRUE))
    ELSE Results(consume_whitespace(str, i), FALSE)

\* The next character, 0 if there is none.
TokenBehind(str, g) ==
    IF g.failed \/ g.i > Len(str) THEN [fail EXCEPT !.value = 0] ELSE Results(g.i + 1, str[g.i])
get_next_token(str, i, strategy) == TokenBehind(str, consume_garbage(str, i, strategy))

encode_utf8(pt) ==
    LET low(shift) == ((pt \div 2^shift) % 64) + 128 IN
    IF pt < 0 THEN <<>>
    ELSE IF pt < 128 THEN <<pt>>
    ELSE IF pt < 2048 THEN <<(pt \div 64) + 192, low(0)>>
    ELSE IF pt < 65536 THEN <<(pt \div 4096) + 224, low(6), low(0)>>
    ELSE <<(pt \div 262144) + 240, low(12), low(6), low(0)>>

HexValue(ch) ==
    IF IsDigit(ch) THEN ch - Ascii["0"]
    ELSE IF in_range(ch, Ascii["a"], Ascii["f"]) THEN ch - Ascii["a"] + 10
    ELSE IF in_range(ch, Ascii["A"], Ascii["F"]) THEN ch - Ascii["A"] + 10 ELSE -1

Lead(pt) == in_range(pt, 55296, 56319)
Trail(pt) == in_range(pt, 56320, 57343)
Joined(lead, trail) == (lead - 55296) * 1024 + (trail - 56320) + 65536
Unescaped == [c \in {Ascii[c] : c \in DOMAIN Escapes} |-> Escapes[CHOOSE d \in DOMAIN Escapes : Ascii[d] = c]]
             @@ Ascii["/"] :> Ascii["/"]

\* last is last_escaped_codepoint, which waits for the second half of a pair.
RECURSIVE parse_string(_, _, _, _)

parse_escape(str, i, last, out) ==
    LET digits == [n \in 1 .. 4 |-> HexValue(At(str, i + n - 1))]
        pt == digits[1] * 4096 + digits[2] * 256 + digits[3] * 16 + digits[4]
    IN  IF \E n \in 1 .. 4 : digits[n] = -1 THEN fail
        ELSE IF Lead(last) /\ Trail(pt)
        THEN parse_string(str, i + 4, -1, out \o encode_utf8(Joined(last, pt)))
        ELSE parse_string(str, i + 4, pt, out \o encode_utf8(last))

parse_string(str, i, last, out) ==
    LET ch == At(str, i)
        next == At(str, i + 1)
        done == out \o encode_utf8(last)
    IN  IF i > Len(str) \/ in_range(ch, 0, 31) THEN fail
        ELSE IF ch = Ascii["\""] THEN Results(i + 1, done)
        ELSE IF ch # Ascii["\\"] THEN parse_string(str, i + 1, -1, Append(done, ch))
        ELSE IF next = Ascii["u"] THEN parse_escape(str, i + 2, last, out)
        ELSE IF next \in DOMAIN Unescaped THEN parse_string(str, i + 2, -1, Append(done, Unescaped[next]))
        ELSE fail

\* atoi and strtod: digits with a point before the last `places` of them and an exponent.
DigitsValue(digits) == FoldLeft(LAMBDA n, ch : 10 * n + HexValue(ch), 0, digits)
WithSign(negative, n) == IF negative THEN -n ELSE n

\* The end of the integer part, of the fraction and of the exponent from i, 0 if it is malformed.
IntegerEnd(str, i) ==
    IF At(str, i) = Ascii["0"] THEN IF IsDigit(At(str, i + 1)) THEN 0 ELSE i + 1
    ELSE IF IsDigit(At(str, i)) THEN Digits(str, i) ELSE 0
FractionEnd(str, i) ==
    IF At(str, i) # Ascii["."] THEN i
    ELSE IF IsDigit(At(str, i + 1)) THEN Digits(str, i + 1) ELSE 0
ExponentStart(str, i) == IF At(str, i + 1) \in {Ascii["+"], Ascii["-"]} THEN i + 2 ELSE i + 1
ExponentEnd(str, i) ==
    IF At(str, i) \notin {Ascii["e"], Ascii["E"]} THEN i
    ELSE IF IsDigit(At(str, ExponentStart(str, i))) THEN Digits(str, ExponentStart(str, i)) ELSE 0

Fraction(str, i, start, int, frac, exp) ==
    LET exponent == IF exp = frac THEN 0
                    ELSE WithSign(str[frac + 1] = Ascii["-"],
                                  DigitsValue(SubSeq(str, ExponentStart(str, frac), exp - 1)))
        digits == DigitsValue(SubSeq(str, start, int - 1) \o SubSeq(str, int + 1, frac - 1))
    IN  IF frac = 0 \/ exp = 0 THEN fail
        ELSE Results(exp, JsonNumber(WithSign(start > i, digits),
                                     exponent - (IF frac = int THEN 0 ELSE frac - int - 1)))

Number(str, i, start, int) ==
    IF int = 0 THEN fail
    ELSE IF At(str, int) \notin {Ascii["."], Ascii["e"], Ascii["E"]} /\ int - i <= DIGITS10
    THEN Results(int, JsonNumber(WithSign(start > i, DigitsValue(SubSeq(str, start, int - 1))), 0))
    ELSE Fraction(str, i, start, int, FractionEnd(str, int), ExponentEnd(str, FractionEnd(str, int)))

parse_number(str, i) ==
    LET start == IF str[i] = Ascii["-"] THEN i + 1 ELSE i
    IN  Number(str, i, start, IntegerEnd(str, start))

expect(str, i, expected, res) ==
    IF i + Len(expected) - 1 <= Len(str) /\ SubSeq(str, i, i + Len(expected) - 1) = expected
    THEN Results(i + Len(expected), res) ELSE fail

RECURSIVE parse_json(_, _, _, _)

\* The members from the token ch, which is at i - 1: a key, a colon, a value, and
\* then a brace, or a comma and the token that follows it.
RECURSIVE parse_members(_, _, _, _, _)
RestOfMembers(str, more, data, depth, strategy) ==
    IF more.failed THEN fail ELSE parse_members(str, more, data, depth, strategy)
AfterMember(str, token, data, depth, strategy) ==
    IF token.value = Ascii["}"] THEN Results(token.i, JsonObject(data))
    ELSE IF token.value # Ascii[","] THEN fail
    ELSE RestOfMembers(str, get_next_token(str, token.i, strategy), data, depth, strategy)
AfterColon(str, key, value, data, depth, strategy) ==
    IF value.failed THEN fail
    ELSE AfterMember(str, get_next_token(str, value.i, strategy), key :> value.value @@ data, depth, strategy)
AfterKey(str, key, colon, data, depth, strategy) ==
    IF key.failed \/ colon.value # Ascii[":"] THEN fail
    ELSE AfterColon(str, key.value, parse_json(str, colon.i, depth + 1, strategy), data, depth, strategy)
KeyRead(str, key, data, depth, strategy) ==
    AfterKey(str, key, get_next_token(str, key.i, strategy), data, depth, strategy)
parse_members(str, token, data, depth, strategy) ==
    IF token.value # Ascii["\""] THEN fail
    ELSE KeyRead(str, parse_string(str, token.i, -1, <<>>), data, depth, strategy)

\* The elements from i, the token read before having been put back.
RECURSIVE parse_elements(_, _, _, _, _)

\* Mutant: a list may end behind a comma.
RestOfElements_comma(str, more, data, depth, strategy) ==
    IF more.failed THEN fail
    ELSE IF more.value = Ascii["]"] THEN Results(more.i, JsonArray(data))
    ELSE parse_elements(str, more.i - 1, data, depth, strategy)

RestOfElements(str, more, data, depth, strategy) ==
    IF more.failed THEN fail ELSE parse_elements(str, more.i - 1, data, depth, strategy)

AfterElement(str, token, data, depth, strategy) ==
    IF token.value = Ascii["]"] THEN Results(token.i, JsonArray(data))
    ELSE IF token.value # Ascii[","] THEN fail
    ELSE RestOfElements(str, get_next_token(str, token.i, strategy), data, depth, strategy)
Element(str, value, data, depth, strategy) ==
    IF value.failed THEN fail
    ELSE AfterElement(str, get_next_token(str, value.i, strategy), Append(data, value.value), depth, strategy)
parse_elements(str, i, data, depth, strategy) ==
    Element(str, parse_json(str, i, depth + 1, strategy), data, depth, strategy)

\* Behind the opening quote, brace and bracket.
StringValue(string) == IF string.failed THEN fail ELSE Results(string.i, JsonString(string.value))
ObjectValue(str, first, depth, strategy) ==
    IF first.value = Ascii["}"] THEN Results(first.i, JsonObject(<<>>))
    ELSE parse_members(str, first, <<>>, depth, strategy)
ArrayValue(str, first, depth, strategy) ==
    IF first.failed THEN fail
    ELSE IF first.value = Ascii["]"] THEN Results(first.i, JsonArray(<<>>))
    ELSE parse_elements(str, first.i - 1, <<>>, depth, strategy)

Value(str, token, depth, strategy) ==
    LET ch == token.value
        start == token.i - 1
    IN  CASE token.failed -> fail
          [] ch = Ascii["-"] \/ IsDigit(ch) -> parse_number(str, start)
          [] ch = Ascii["t"] -> expect(str, start, TrueText, JsonBoolean(TRUE))
          [] ch = Ascii["f"] -> expect(str, start, FalseText, JsonBoolean(FALSE))
          [] ch = Ascii["n"] -> expect(str, start, NullText, JsonNull)
          [] ch = Ascii["\""] -> StringValue(parse_string(str, token.i, -1, <<>>))
          [] ch = Ascii["{"] -> ObjectValue(str, get_next_token(str, token.i, strategy), depth, strategy)
          [] ch = Ascii["["] -> ArrayValue(str, get_next_token(str, token.i, strategy), depth, strategy)
          [] OTHER -> fail
parse_json(str, i, depth, strategy) ==
    IF depth > MAX_DEPTH THEN fail ELSE Value(str, get_next_token(str, i, strategy), depth, strategy)

Alone(str, result, rest) ==
    IF result.failed \/ rest.failed \/ rest.i # Len(str) + 1 THEN fail ELSE Results(rest.i, result.value)
Complete(str, result, strategy) == Alone(str, result, consume_garbage(str, result.i, strategy))
parse(str, strategy) == Complete(str, parse_json(str, 1, 0, strategy), strategy)

\* The values, and in i the position where the last complete one and what follows it end.
RECURSIVE parse_many(_, _, _, _, _)

MoreValues(str, failed, rest, stop, vec, strategy) ==
    IF failed \/ rest.failed THEN [Results(stop, vec) EXCEPT !.failed = TRUE]
    ELSE parse_many(str, rest.i, rest.i, vec, strategy)
OneOfMany(str, result, stop, vec, strategy) ==
    MoreValues(str, result.failed, consume_garbage(str, result.i, strategy), stop,
               Append(vec, result.value), strategy)
parse_many(str, i, stop, vec, strategy) ==
    IF i = Len(str) + 1 THEN Results(stop, vec)
    ELSE OneOfMany(str, parse_json(str, i, 0, strategy), stop, vec, strategy)
parse_multi(str, strategy) == parse_many(str, 1, 1, <<>>, strategy)

(***************************************************************************)
(* A caller parses a text, or dumps a value and parses what it got.        *)
(***************************************************************************)
JsonIdle == json = [op |-> "none"]
JsonStart == json = [op |-> "wait"]

Parse(text, strategy) ==
    json' = [op |-> "parse", text |-> text, strategy |-> strategy,
             one |-> parse(text, strategy), many |-> parse_multi(text, strategy)]

DumpAndParse(value) ==
    json' = [op |-> "dump", given |-> value, result |-> parse(dump(value), "STANDARD")]

Returned == json.op \in {"parse", "dump"} /\ json' = [op |-> "wait"]

JsonNext ==
    \/ Returned
    \/ /\ json.op = "wait"
       /\ (\E t \in JsonTexts : Parse(t[1], t[2])) \/ (\E v \in JsonValues : DumpAndParse(v))

(***************************************************************************)
(* What a text means by the grammar of JSON: the set of its readings.  A   *)
(* line end behind it closes a comment.                                    *)
(***************************************************************************)
Cuts(s, ch) == {n \in DOMAIN s : s[n] = Ascii[ch]}
Left(s, n) == SubSeq(s, 1, n - 1)
Right(s, n) == SubSeq(s, n + 1, Len(s))
Inner(s) == SubSeq(s, 2, Len(s) - 1)
Between(s, open, close) == Len(s) > 1 /\ s[1] = Ascii[open] /\ Last(s) = Ascii[close]

IsComment(s) ==
    \/ IsPrefix(Text(<<"/", "/">>), s) /\ Cuts(s, "\n") = {Len(s)}
    \/ /\ Len(s) > 3 /\ IsPrefix(Text(<<"/", "*">>), s)
       /\ {n \in 3 .. Len(s) - 1 : SubSeq(s, n, n + 1) = Text(<<"*", "/">>)} = {Len(s) - 1}

RECURSIVE IsGarbage(_, _)
IsGarbage(s, strategy) ==
    \/ s = <<>>
    \/ s[1] \in Whitespace /\ IsGarbage(Tail(s), strategy)
    \/ /\ strategy = "COMMENTS"
       /\ \E n \in DOMAIN s : IsComment(SubSeq(s, 1, n)) /\ IsGarbage(Right(s, n), strategy)

\* The parts of a text that have only garbage around them.
Cores(s, strategy) ==
    {SubSeq(s, a, b) : a \in {n \in DOMAIN s : IsGarbage(Left(s, n), strategy)},
                       b \in {n \in DOMAIN s : IsGarbage(Right(s, n), strategy)}}

IsDigits(s) == s # <<>> /\ \A n \in DOMAIN s : IsDigit(s[n])
Unsigned(s) == IF s # <<>> /\ s[1] \in {Ascii["+"], Ascii["-"]} THEN Tail(s) ELSE s
Scientific(negative, int, frac, exp) ==
    JsonNumber(WithSign(negative, DigitsValue(int \o Tail(frac))),
               WithSign(exp[2] = Ascii["-"], DigitsValue(Unsigned(Tail(exp)))) - Len(frac) + 1)
Numbers(s) ==
    LET abs == IF s # <<>> /\ s[1] = Ascii["-"] THEN Tail(s) ELSE s
        int(f) == SubSeq(abs, 1, f - 1)
        frac(f, x) == IF f = x THEN Text(<<".">>) ELSE SubSeq(abs, f, x - 1)
        exp(x) == IF x > Len(abs) THEN Text(<<"e", "0">>) ELSE SubSeq(abs, x, Len(abs))
    IN  IF abs = <<>> \/ ~IsDigit(abs[1]) THEN {}
        ELSE {Scientific(abs # s, int(c[1]), frac(c[1], c[2]), exp(c[2])) :
            c \in {d \in (1 .. Len(abs) + 1) \X (1 .. Len(abs) + 1) :
                      /\ d[1] <= d[2] /\ IsDigits(int(d[1]))
                      /\ d[1] = 2 \/ abs[1] # Ascii["0"]
                      /\ d[1] = d[2] \/ (abs[d[1]] = Ascii["."] /\ IsDigits(Tail(frac(d[1], d[2]))))
                      /\ d[2] > Len(abs)
                         \/ (abs[d[2]] \in {Ascii["e"], Ascii["E"]} /\ IsDigits(Unsigned(Tail(exp(d[2]))))) }}

\* A string's units: bytes, and code units of UTF-16 that were escaped.
Unit(s) ==
    IF Len(s) = 1 /\ s[1] > 31 /\ s[1] \notin {Ascii["\""], Ascii["\\"]} THEN {<<"byte", s[1]>>}
    ELSE IF Len(s) = 2 /\ s[1] = Ascii["\\"] /\ s[2] \in DOMAIN Unescaped THEN {<<"byte", Unescaped[s[2]]>>}
    ELSE IF Len(s) = 6 /\ IsPrefix(Text(<<"\\", "u">>), s) /\ \A n \in 3 .. 6 : HexValue(s[n]) # -1
    THEN {<<"unit", FoldLeft(LAMBDA n, ch : 16 * n + HexValue(ch), 0, SubSeq(s, 3, 6))>>}
    ELSE {}
RECURSIVE Units(_)
Units(s) ==
    IF s = <<>> THEN {<<>>}
    ELSE UNION {{<<u>> \o r : u \in Unit(SubSeq(s, 1, n)), r \in Units(Right(s, n))} : n \in DOMAIN s \cap {1, 2, 6}}

Utf8(pt) ==
    LET n == 1 + Cardinality({m \in {128, 2048, 65536} : m <= pt}) IN
    [k \in 1 .. n |-> ((pt \div 64^(n - k)) % (IF k = 1 THEN 128 ELSE 64))
                      + (IF k = 1 THEN <<0, 192, 224, 240>>[n] ELSE 128)]
Decoded(units) ==
    LET is(n, P(_)) == n \in DOMAIN units /\ units[n][1] = "unit" /\ P(units[n][2])
        pair(n) == is(n, Lead) /\ is(n + 1, Trail)
    IN  FlattenSeq([n \in DOMAIN units |->
            IF pair(n) THEN Utf8(Joined(units[n][2], units[n + 1][2]))
            ELSE IF pair(n - 1) THEN <<>>
            ELSE IF units[n][1] = "unit" THEN Utf8(units[n][2]) ELSE <<units[n][2]>>])
Strings(s) == IF Between(s, "\"", "\"") THEN {Decoded(u) : u \in Units(Inner(s))} ELSE {}

RECURSIVE Meaning(_, _, _)
RECURSIVE Elements(_, _, _)
Elements(s, depth, strategy) ==
    {<<v>> : v \in Meaning(s, depth, strategy)}
    \cup UNION {{<<v>> \o r : v \in Meaning(Left(s, n), depth, strategy),
                              r \in Elements(Right(s, n), depth, strategy)} : n \in Cuts(s, ",")}
Member(s, depth, strategy) ==
    UNION {{k :> v : k \in UNION {Strings(c) : c \in Cores(Left(s, n), strategy)},
                     v \in Meaning(Right(s, n), depth, strategy)} : n \in Cuts(s, ":")}
RECURSIVE Members(_, _, _)
Members(s, depth, strategy) ==
    Member(s, depth, strategy)
    \cup UNION {{r @@ m : m \in Member(Left(s, n), depth, strategy),
                          r \in Members(Right(s, n), depth, strategy)} : n \in Cuts(s, ",")}

Reading(s, depth, strategy) ==
    {v \in {JsonNull, JsonBoolean(TRUE), JsonBoolean(FALSE)} : s = dump(v)}
    \cup Numbers(s) \cup {JsonString(v) : v \in Strings(s)}
    \cup (IF Between(s, "[", "]")
          THEN {JsonArray(v) : v \in Elements(Inner(s), depth + 1, strategy)
                                     \cup (IF IsGarbage(Inner(s), strategy) THEN {<<>>} ELSE {})}
          ELSE {})
    \cup (IF Between(s, "{", "}")
          THEN {JsonObject(v) : v \in Members(Inner(s), depth + 1, strategy)
                                      \cup (IF IsGarbage(Inner(s), strategy) THEN {<<>>} ELSE {})}
          ELSE {})
Meaning(s, depth, strategy) ==
    IF depth > MAX_DEPTH THEN {}
    ELSE UNION {Reading(c, depth, strategy) : c \in Cores(s, strategy)}

RECURSIVE Depth(_)
Depth(v) ==
    IF v[1] \in {"ARRAY", "OBJECT"} /\ DOMAIN v[2] # {}
    THEN 1 + Max({Depth(v[2][k]) : k \in DOMAIN v[2]}) ELSE 0

(***************************************************************************)
(* Properties.                                                             *)
(***************************************************************************)
\* A text is accepted exactly if it is JSON whose nesting is within max_depth,
\* with comments where they are allowed, and gives the one value it means
\* (Json::parse).
ParsesJson ==
    json.op = "parse" =>
        Meaning(json.text \o Text(<<"\n">>), 0, json.strategy)
            = IF json.one.failed THEN {} ELSE {json.one.value}

\* A value that is dumped is parsed again as itself, whatever its strings and
\* keys hold, unless it is nested deeper than the parser goes (Json::dump).
DumpsBack ==
    json.op = "dump" =>
        IF Depth(json.given) > MAX_DEPTH THEN json.result.failed
        ELSE ~json.result.failed /\ json.result.value = json.given

\* parse_multi returns the one value of a text that has one, and what is in
\* front of its stop position can be parsed alone to the values returned before
\* the failure (Json::parse_multi, parser_stop_pos).
StopsBehindValues ==
    json.op = "parse" =>
        LET stop == json.many.i
            front == parse_multi(SubSeq(json.text, 1, stop - 1), json.strategy)
        IN  /\ ~json.one.failed => json.many = Results(Len(json.text) + 1, <<json.one.value>>)
            /\ ~front.failed /\ front.i = stop /\ IsPrefix(front.value, json.many.value)
            /\ Len(json.many.value) - Len(front.value) = IF json.many.failed THEN 1 ELSE 0

\* Texts are parsed and values dumped as JSON is defined (json11.cpp).
JsonExact == ParsesJson /\ DumpsBack /\ StopsBehindValues
=============================================================================
