------------------------------- MODULE MCJson -------------------------------
(* The weather program's libraries and itself, hw4: the tree of values, the *)
(* strings, the decoder and the report, one of them at a time, which `part` *)
(* names from the start.                                                    *)
EXTENDS JsonTree

CONSTANT Parts    \* the parts of a run

VARIABLES part

VARIABLES text, pos, sb, job, meant
VARIABLES tokens, next, frames, building, held, reads, value, rewritten
VARIABLES asked, at, option, has, buffer, outcome, failing

-----------------------------------------------------------------------------
(* Strings. *)

\* The characters of the strings.
Chars == {<<1>>, <<10>>, <<31>>, <<34>>, <<65>>, <<195, 169>>, <<244, 143, 191, 191>>}
MCStrings == {FlattenSeq(cs) : cs \in UNION {[1..n -> Chars] : n \in 0..4}}
              \cup {<<195>>, <<65, 128>>, <<192, 128>>, <<237, 160, 128>>}
Unit(t, v) == [text |-> t, value |-> v]
\* \uXXXX
U(a, b, c, d) == <<92, 117, a, b, c, d>>
Escapes == {Unit(<<65>>, <<65>>), Unit(<<92, 47>>, <<47>>), Unit(<<92, 98>>, <<8>>),
          Unit(<<92, 34>>, <<34>>), Unit(<<92, 92>>, <<92>>),
          Unit(U(48, 48, 52, 49), <<65>>), Unit(U(48, 55, 102, 102), <<223, 191>>),
          Unit(U(68, 55, 70, 70), <<237, 159, 191>>), Unit(U(101, 48, 48, 48), <<238, 128, 128>>),
          Unit(U(68, 56, 48, 48) \o U(68, 67, 48, 48), <<240, 144, 128, 128>>),
          Unit(U(68, 66, 102, 102) \o U(100, 102, 70, 70), <<244, 143, 191, 191>>)}
Quoted(us) == [text |-> <<34>> \o FlattenSeq([k \in DOMAIN us |-> us[k].text]) \o <<34>>,
               value |-> FlattenSeq([k \in DOMAIN us |-> us[k].value])]
MCLiterals == {Quoted(us) : us \in UNION {[1..n -> Escapes] : n \in 0..3}}
               \cup {Quoted([k \in 1..6 |-> u]) : u \in Escapes}
WrongUnits == {<<0>>, <<31>>, <<92, 120>>, <<92>> , U(48, 48, 48, 48), <<92, 117, 48, 48>>, U(48, 48, 48, 103),
          U(68, 67, 48, 48), U(68, 56, 48, 48), U(68, 56, 48, 48) \o <<92, 110>>,
          U(68, 56, 48, 48) \o U(68, 56, 48, 48), U(68, 56, 48, 48) \o U(48, 48, 52, 49)}
MCWrong == {<<>>, <<65>>, <<34>>, <<34, 65>>, <<34, 92>>}
            \cup {<<34>> \o u.text \o w \o <<34>> : u \in Escapes, w \in WrongUnits}
            \cup {<<34>> \o w : w \in WrongUnits}
Bytes == {65, 127, 128, 143, 144, 159, 160, 191, 192}
Leads == {31, 65, 128, 191, 193, 194, 223, 224, 225, 237, 239, 240, 241, 244, 245, 255}
MCRaw == {<<a>> : a \in Leads} \cup (Leads \X Bytes) \cup (Leads \X Bytes \X {127, 128, 191, 192})
          \cup ({239, 240, 241, 244, 245} \X Bytes \X {127, 128, 191, 192} \X {127, 128, 191, 192})

Strings == INSTANCE JsonString WITH Strings <- MCStrings, Literals <- MCLiterals,
            Wrong <- MCWrong, Raw <- MCRaw

StringsInit == /\ part # "strings" => job = "emit" /\ text = <<>>
               /\ Strings!Init

-----------------------------------------------------------------------------
(* Texts: the short ones, and some longer ones with every change of a token. *)

Tokens == {"[", "]", "{", "}", ",", ":", "str", "num", " ", "wrong"}

Samples == {<<"[", "num", ",", "[", "]", ",", "str", "]">>,
            <<"{", "str", ":", "num", ",", "str", ":", "{", "}", "}">>,
            <<"[", "{", "str", ":", "[", "null", "]", "}", ",", "null", "]">>,
            <<"[", "inf", ",", "[", "max", "]", "]">>}

Other == Tokens \cup {"inf", "max"}

Edits(s) == {s} \cup {[s EXCEPT ![k] = t] : k \in DOMAIN s, t \in Other}
            \cup {RemoveAt(s, k) : k \in DOMAIN s}
            \cup {InsertAt(s, k, t) : k \in 1..(Len(s) + 1), t \in Other}

MCTexts == UNION {[1..n -> Tokens] : n \in 0..4} \cup UNION {Edits(s) : s \in Samples}

Decoder == INSTANCE JsonDecode WITH Texts <- MCTexts

DecoderInit == /\ part # "decoder" => tokens = <<>> /\ building = TRUE
               /\ Decoder!Init

-----------------------------------------------------------------------------
(* Answers: the whole one, and those that lack a node or have a wrong one. *)

Sought == INSTANCE Weather WITH Answers <- {}, InitSize <- 2, MaxSize <- 14

Paths == UNION {{SubSeq(Sought!Wanted[i], 1, k) : k \in 1..Len(Sought!Wanted[i])} : i \in 1..5}

Full == {[path |-> p, tag |-> IF p \in ToSet(Sought!Wanted) THEN "string" ELSE "other"] : p \in Paths}

BelowPath(p) == {n \in Full : IsPrefix(p, n.path)}

Documents == {Full, {}} \cup {Full \ BelowPath(p) : p \in Paths}
             \cup {(Full \ BelowPath(p)) \cup {[path |-> p, tag |-> "number"]} : p \in Paths}

MCAnswers == [type : {"json"}, size : {9}, nodes : Documents]
             \cup [type : {"json", "text"}, size : {0, 3, 20}, nodes : {Full, {}}]

Report == INSTANCE Weather WITH Answers <- MCAnswers, InitSize <- 2, MaxSize <- 14

ReportInit == /\ part # "report" => asked = [type |-> "json", size |-> 0, nodes |-> {}]
              /\ Report!Init

-----------------------------------------------------------------------------
stringsVars == <<text, pos, sb, job, meant>>
decoderVars == <<tokens, next, frames, building, held, reads, value, rewritten>>
reportVars == <<asked, at, option, has, buffer, outcome, failing>>
all == <<part, treeVars, stringsVars, decoderVars, reportVars>>

MCInit == /\ part \in Parts
          /\ Init /\ StringsInit /\ DecoderInit /\ ReportInit

OnlyTree == part = "tree" /\ UNCHANGED <<part, stringsVars, decoderVars, reportVars>>
OnlyStrings == part = "strings" /\ UNCHANGED <<part, treeVars, decoderVars, reportVars>>
OnlyDecoder == part = "decoder" /\ UNCHANGED <<part, treeVars, stringsVars, reportVars>>
OnlyReport == part = "report" /\ UNCHANGED <<part, treeVars, stringsVars, decoderVars>>

MCNext ==
    \/ OnlyTree /\ Next
    \/ OnlyStrings /\ Strings!Next
    \/ OnlyDecoder /\ Decoder!Next
    \/ OnlyReport /\ Report!Next

MCSpec == MCInit /\ [][MCNext]_all

-----------------------------------------------------------------------------
\* A string is parsed as what was emitted or meant, is UTF-8, and stays in its
\* buffers (JsonString; json.c:49-203, :793-906, :1106-1223); a text is accepted
\* if it is JSON, leaves nothing allocated if it is not, and a value written is
\* read as itself (JsonDecode; json.c:623-791, :974-1104).
TextsRight ==
    /\ part = "strings" => Strings!Restored /\ Strings!OnlyUtf8 /\ Strings!InBounds
    /\ part = "decoder" => Decoder!AcceptsJson /\ Decoder!NothingLeaks /\ Decoder!Rereads

\* No emitted literal has a control character (JsonString; json.c:868), which is
\* not so of the byte 31 (json.c:1180).
ControlsEscaped == part = "strings" => Strings!ControlsEscaped

\* There is a report or a reason for none, the answer fits its buffer, and what
\* was had is freed, whatever fails (Weather; hw4/src/main.c:52-252).
ReportRight == part = "report" => Report!AllFreed /\ Report!ReportOrReason /\ Report!InBuffer
=============================================================================
