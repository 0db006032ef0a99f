--------------------------- MODULE MCAttestation ---------------------------
(***************************************************************************)
(* Small instances of attestation, loading, the JSON library and the       *)
(* examples; one of them moves in a behaviour.                             *)
(*                                                                         *)
(* Three monitors on two devices and three applications give reports and   *)
(* keys that differ in one part each; two reports on the way suffice to    *)
(* mix their parts.  Blocks of the hash have four bytes and pages three,   *)
(* so that messages end before, at and behind both.  A block of HKDF is    *)
(* two bytes, and a sealing key takes three of them, the last in part.     *)
(*                                                                         *)
(* In the examples a word has two bytes; the buffer has room for a report  *)
(* and a wrapper with its string, and the loop announces two values.       *)
(***************************************************************************)
EXTENDS Examples, Json

\* The first two monitors' hashes begin alike.
MCFirstByte(x) == IF x \in {[sk |-> 1], [sk |-> 2]} THEN x.sk
                  ELSE IF x.sha3[1] = 2 THEN 1 ELSE x.sha3[1]
MCMachines == {[dev |-> 1, mon |-> <<1>>], [dev |-> 1, mon |-> <<2, 2>>], [dev |-> 1, mon |-> <<3>>],
               [dev |-> 2, mon |-> <<1>>]}

\* The second differs from the first in what fills a page, the third in where files end.
MCApps == {[loader |-> <<1>>, runtime |-> <<1, 1>>, eapp |-> <<1>>],
           [loader |-> <<1>>, runtime |-> <<1, 1>>, eapp |-> <<1, 0>>],
           [loader |-> <<1, 0, 0, 1, 1>>, runtime |-> <<>>, eapp |-> <<1>>]}
MCNonces == {<<1>>, <<2>>}
MCData == {<<1, 0>>, <<1>>, Zero(10)}
MCIdents == {<<1>>, <<1, 1>>, <<1, 1, 1>>}

\* Segments that start and end anywhere in a page, in files of bytes that all differ.
MCSegment(v, o, f, z, mode) == [vaddr |-> v, offset |-> o, filesz |-> f, memsz |-> f + z, mode |-> mode]
MCRuntime == <<MCSegment(30, 0, 3, 0, "RX"), MCSegment(34, 4, 3, 1, "RW")>>
MCEapps == {<<MCSegment(v, v, f, z, "RX"), MCSegment(w, w + 3, g, y, "RW")>> :
                v \in 0 .. 2, f \in 1 .. 4, z \in 0 .. 2, w \in 3 .. 8, g \in 0 .. 5, y \in 1 .. 4}
MCFile(segments, tag) == [i \in 1 .. Last(segments).offset + Last(segments).filesz |-> tag + i]
MCInputs ==
    {[files |-> [loader |-> <<1>>, runtime |-> MCFile(MCRuntime, 100), eapp |-> MCFile(eapp, 200)],
      runtime |-> MCRuntime, eapp |-> eapp, freemem |-> freemem] :
        eapp \in {e \in MCEapps : Linked(e)}, freemem \in {0, 30, 60}}

\* Texts of a few pieces of JSON, of numbers, of comments and of strings, and three
\* documents with one byte left out or one put in.
MCPieces == {<<"{">>, <<"}">>, <<"[">>, <<"]">>, <<",">>, <<":">>, <<"\"", "a", "\"">>, <<"0">>}
MCNumbers == {<<"-">>, <<"0">>, <<"9">>, <<".">>, <<"e">>}
MCComments == {<<"/", "*">>, <<"*", "/">>, <<"/", "/">>, <<"*">>, <<"\n">>, <<"9">>}
MCOf(pieces, n) == {Text(FlattenSeq(s)) : s \in BoundedSeq(pieces, n)}
MCU(a, b, c, d) == <<92, 117, a, b, c, d>>
MCEscapes == {MCU(68, 56, 51, 68), MCU(100, 99, 48, 48), MCU(48, 48, 101, 57), MCU(50, 48, 50, 56),
              <<92, 117, 48, 48, 48>>, <<92, 110>>, <<92, 120>>, <<92>>, <<97>>, <<226>>, <<10>>}
MCQuoted == {<<34>> \o FlattenSeq(s) \o <<34>> : s \in BoundedSeq(MCEscapes, 3)}
MCDocuments ==
    {dump(v) : v \in {JsonArray(<<JsonNumber(-12, 0), JsonObject(<<97>> :> JsonNull)>>),
                      JsonObject(<<97>> :> JsonArray(<<JsonString(<<44>>)>>) @@ <<98>> :> JsonBoolean(TRUE)),
                      JsonArray(<<JsonArray(<<JsonArray(<<>>)>>), JsonBoolean(FALSE)>>)}}
MCEdited(t) == {RemoveAt(t, n) : n \in DOMAIN t}
               \cup {InsertAt(t, n, c) : n \in 1 .. Len(t) + 1, c \in {44, 91, 93, 123}}
MCJsonTexts ==
    (MCOf(MCPieces, 4) \cup MCOf(MCNumbers, 5) \cup MCQuoted
        \cup UNION {MCEdited(t) : t \in MCDocuments}) \X {"STANDARD"}
    \cup MCOf(MCComments, 4) \X {"COMMENTS"}

\* Strings of the bytes that dump treats apart; numbers of more and of fewer than
\* DIGITS10 characters; lists and objects in one another, up to one level too deep.
MCBytes == {0, 8, 31, 34, 47, 92, 97, 127, 128, 168, 169, 226}
MCScalars == {JsonNull, JsonBoolean(TRUE), JsonNumber(0, 0), JsonNumber(-12, 0), JsonNumber(100, 0),
              JsonString(<<>>), JsonString(<<92>>)}
MCKeys == {<<>>, <<97>>, <<97, 97>>, <<34, 10>>}
MCOver(values) ==
    {JsonArray(s) : s \in BoundedSeq(values, 2)}
    \cup UNION {{JsonObject(f) : f \in [K -> values]} : K \in {k \in SUBSET MCKeys : Cardinality(k) <= 2}}
MCLists == MCOver({JsonNull, JsonNumber(-12, 0), JsonString(<<92>>)})
MCJsonValues ==
    MCScalars \cup {JsonString(s) : s \in BoundedSeq(MCBytes, 3)} \cup MCOver(MCScalars)
    \cup {JsonArray(<<v>>) : v \in MCLists} \cup {JsonObject(<<97>> :> v) : v \in MCLists}
    \cup {JsonArray(<<JsonArray(<<v>>)>>) : v \in MCLists}

\* Numbers that are equal, that differ, and that are equal in the range, at its end too.
MCRands == {0, 2, 3, 8, 43981}
MCPaths == {<<47>>, <<47, 116, 119>>}

\* One of the four takes its steps, the others stand still.
MCInit ==
    /\ Init
    /\ \/ Idle /\ JsonIdle /\ ExampleIdle
       \/ /\ machine = [dev |-> 1, mon |-> <<1>>]
          /\ \/ Start /\ JsonIdle /\ ExampleIdle
             \/ Idle /\ JsonStart /\ ExampleIdle
             \/ Idle /\ JsonIdle /\ ExampleStart
MCNext ==
    \/ Idle /\ JsonIdle /\ ExampleIdle /\ Next /\ UNCHANGED <<loaderVars, json, example>>
    \/ LoaderNext /\ UNCHANGED <<vars, json, example>>
    \/ JsonNext /\ UNCHANGED <<vars, loaderVars, example>>
    \/ ExampleNext /\ UNCHANGED <<vars, loaderVars, json>>
MCSpec == MCInit /\ [][MCNext]_<<vars, loaderVars, json, example>>
=============================================================================
