------------------------------ MODULE JsonDecode ------------------------------
(***************************************************************************)
(* JSON texts (hw4/libs/json/json.c) as sequences of tokens: json_decode   *)
(* builds a value of one or refuses it, json_validate only says which, and *)
(* json_stringify writes the value back.  The calls of parse_array and     *)
(* parse_object that have not returned are a stack, and the allocations    *)
(* are counted.                                                            *)
(***************************************************************************)
EXTENDS Integers, SequencesExt

CONSTANTS Texts    \* sequences of tokens

\* A token is a mark of JSON, " ", one of these, or anything wrong.  Of the numbers
\* "inf" is too large for a double, and becomes the infinite one; "max" is not, but is
\* once it has been rounded to 16 digits.
Atoms == {"str", "num", "inf", "max", "null"}

VARIABLES tokens,      \* what is read
          next,        \* the next of it
          frames,      \* the arrays and objects under way, the innermost last
          building,    \* is a value made of it (out is not null)?
          held,        \* the allocations that are not freed
          reads,       \* what is expected, or how it ended
          value,       \* what has been decoded
          rewritten    \* ghost: the value whose text is read again, if any

decodeVars == <<tokens, next, frames, building, held, reads, value, rewritten>>

-----------------------------------------------------------------------------
(* Values, and what json_delete frees with one: nodes, strings and keys. *)

Value(tag, kids) == [tag |-> tag, kids |-> kids, key |-> FALSE]

RECURSIVE Cost(_)
Cost(v) == 1 + (IF v.tag = "str" THEN 1 ELSE 0) + (IF v.key THEN 1 ELSE 0)
             + FoldSeq(LAMBDA kid, sum : Cost(kid) + sum, 0, v.kids)

\* What parse_array or parse_object has made so far.
Made(f) == Cost([Value(f.tag, f.kids) EXCEPT !.key = f.key])

\* What it frees when it fails: its value, and a key that has none yet (failure_free_key).
Released(f) == Made(f)

Allocate(n) == held' = IF building THEN held + n ELSE held
Free(n) == held' = IF building THEN held - n ELSE held

-----------------------------------------------------------------------------
(* Reading: white space is skipped wherever a token may come. *)

\* skip_space, then `next` is the token.
SkipIn(text, i) ==
    LET past[k \in Nat] == IF k <= Len(text) /\ text[k] = " " THEN past[k + 1] ELSE k
    IN past[i]

Token == IF next <= Len(tokens) THEN tokens[next] ELSE "end"

Advance == next' = SkipIn(tokens, next + 1)

Expect(what) == reads' = what

Top == Last(frames)

OpeningTags == [ m \in {"[", "{"} |-> IF m = "[" THEN "array" ELSE "object" ]

CloseMark(tag) == IF tag = "array" THEN "]" ELSE "}"

\* parse_value returns v to what called it, with these frames left.
Return(v, outer) ==
    IF outer = <<>> THEN frames' = outer /\ value' = v /\ Expect("end")
    ELSE LET f == Last(outer) IN
         /\ frames' = Append(Front(outer),
                             [f EXCEPT !.kids = IF building THEN Append(@, [v EXCEPT !.key = f.key]) ELSE @,
                                       !.key = FALSE])
         /\ Expect("more")
         /\ UNCHANGED value

\* expect_literal, parse_string or parse_number.
ReadAtom ==
    /\ reads = "value" /\ Token \in Atoms
    /\ Allocate(Cost(Value(Token, <<>>)))
    /\ Return(Value(Token, <<>>), frames)
    /\ Advance
    /\ UNCHANGED <<tokens, building, rewritten>>

Open ==
    /\ reads = "value" /\ Token \in DOMAIN OpeningTags
    /\ Allocate(1)
    /\ frames' = Append(frames, [tag |-> OpeningTags[Token], kids |-> <<>>, key |-> FALSE])
    /\ Advance
    /\ Expect("first")
    /\ UNCHANGED <<tokens, building, value, rewritten>>

\* The end of the array or object, after its opening or one of its values.
Close ==
    /\ reads \in {"first", "more"} /\ Token = CloseMark(Top.tag)
    /\ Return(Value(Top.tag, Top.kids), Front(frames))
    /\ Advance
    /\ UNCHANGED <<tokens, building, held, rewritten>>

\* What a loop of parse_array or parse_object begins with.
Turn == IF Top.tag = "array" THEN "value" ELSE "key"

First ==
    /\ reads = "first" /\ Token # CloseMark(Top.tag)
    /\ Expect(Turn)
    /\ UNCHANGED <<tokens, next, frames, building, held, value, rewritten>>

CommaOrClose == IF Token = "," THEN {Turn, "first"} ELSE {}    \* mutant: a comma may be the last

\* What may follow a value, and a comma.
AfterComma == IF Token = "," THEN {Turn} ELSE {}

Comma ==
    /\ reads = "more"
    /\ \E what \in AfterComma : Expect(what)
    /\ Advance
    /\ UNCHANGED <<tokens, frames, building, held, value, rewritten>>

Key ==
    /\ reads = "key" /\ Token = "str"
    /\ Allocate(1)
    /\ frames' = Append(Front(frames), [Top EXCEPT !.key = TRUE])
    /\ Advance
    /\ Expect("colon")
    /\ UNCHANGED <<tokens, building, value, rewritten>>

Colon ==
    /\ reads = "colon" /\ Token = ":"
    /\ Advance
    /\ Expect("value")
    /\ UNCHANGED <<tokens, frames, building, held, value, rewritten>>

\* What is expected is not there.
Wrong ==
    CASE reads = "value" -> Token \notin Atoms \cup DOMAIN OpeningTags
      [] reads = "key" -> Token # "str"
      [] reads = "colon" -> Token # ":"
      [] reads = "more" -> Token \notin {",", CloseMark(Top.tag)}
      [] OTHER -> FALSE

Fail ==
    /\ Wrong
    /\ Expect("failing")
    /\ UNCHANGED <<tokens, next, frames, building, held, value, rewritten>>

\* Each call frees what it has made and returns false.
Unwind ==
    /\ reads = "failing"
    /\ IF frames = <<>> THEN Expect("refused") /\ UNCHANGED <<frames, held>>
       ELSE Free(Released(Top)) /\ frames' = Front(frames) /\ UNCHANGED reads
    /\ UNCHANGED <<tokens, next, building, value, rewritten>>

\* json_decode looks for the end of the text.
End ==
    /\ reads = "end"
    /\ IF Token = "end" THEN Expect("accepted") /\ UNCHANGED held
       ELSE Expect("refused") /\ Free(Cost(value))
    /\ UNCHANGED <<tokens, next, frames, building, value, rewritten>>

-----------------------------------------------------------------------------
(* Writing. *)

CommaAfter(k, n) == IF k < n THEN <<",">> ELSE <<>>

\* The values with their commas.
Listed(kids, Before(_), After) ==
    FlattenSeq([k \in DOMAIN kids |->
        Before(kids[k]) \o CommaAfter(k, Len(kids)) \o After])

\* emit_string and emit_number, which writes null for what would be no number.
EmitAtom(tag) == CASE tag = "inf" -> "null"
                   [] tag = "max" -> "inf"
                   [] OTHER -> tag

RECURSIVE Emit(_)
\* emit_value, emit_array, emit_object.
Emit(v) ==
    LET kid(w) == IF v.tag = "object" THEN <<"str", ":">> \o Emit(w) ELSE Emit(w) IN
    CASE v.tag = "array" -> <<"[">> \o Listed(v.kids, kid, <<>>) \o <<"]">>
      [] v.tag = "object" -> <<"{">> \o Listed(v.kids, kid, <<>>) \o <<"}">>
      [] OTHER -> <<EmitAtom(v.tag)>>

Spaces(n) == [k \in 1..n |-> " "]

RECURSIVE EmitIndented(_, _)
\* emit_value_indented and the others: a new line is a space, and so is each indent.
EmitIndented(v, level) ==
    LET kid(w) == Spaces(level + 1)
                  \o (IF v.tag = "object" THEN <<"str", ":", " ">> ELSE <<>>)
                  \o EmitIndented(w, level + 1)
        inner == IF v.kids = <<>> THEN <<>>
                 ELSE <<" ">> \o Listed(v.kids, kid, <<" ">>) \o Spaces(level)
    IN CASE v.tag = "array" -> <<"[">> \o inner \o <<"]">>
         [] v.tag = "object" -> <<"{">> \o inner \o <<"}">>
         [] OTHER -> <<EmitAtom(v.tag)>>

\* json_encode or json_stringify of the value, json_delete, and the text is decoded again.
Rewrite ==
    /\ reads = "accepted" /\ building /\ rewritten = <<>>
    /\ tokens' \in {Emit(value), EmitIndented(value, 0)}
    /\ next' = SkipIn(tokens', 1)
    /\ Free(Cost(value))
    /\ rewritten' = <<value>>
    /\ Expect("value")
    /\ UNCHANGED <<frames, building, value>>

Begin(text, builds) ==
    /\ tokens = text
    /\ next = SkipIn(text, 1)
    /\ frames = <<>>
    /\ building = builds
    /\ held = 0
    /\ reads = "value"
    /\ value = Value("null", <<>>)
    /\ rewritten = <<>>

Init == \E text \in Texts, builds \in BOOLEAN : Begin(text, builds)

Next == \/ ReadAtom \/ Open \/ Close \/ First \/ Comma \/ Key \/ Colon
        \/ Fail \/ Unwind \/ End \/ Rewrite

Spec == Init /\ [][Next]_decodeVars

-----------------------------------------------------------------------------
(* The language, from the inside out: brackets around nothing but values    *)
(* become a value.                                                          *)

IsValue(t) == t \in Atoms \cup {"V"}

Bracketed(s, i, j) ==
    LET n == j - i - 1  at(k) == s[i + k] IN
    \/ /\ s[i] = "[" /\ s[j] = "]"
       /\ n = 0 \/ n % 2 = 1
       /\ \A k \in 1..n : IF k % 2 = 1 THEN IsValue(at(k)) ELSE at(k) = ","
    \/ /\ s[i] = "{" /\ s[j] = "}"
       /\ n = 0 \/ n % 4 = 3
       /\ \A k \in 1..n : CASE k % 4 = 1 -> at(k) = "str"
                            [] k % 4 = 2 -> at(k) = ":"
                            [] k % 4 = 3 -> IsValue(at(k))
                            [] OTHER -> at(k) = ","

RECURSIVE Reduced(_)
Reduced(s) ==
    LET inner == {p \in (1..Len(s)) \X (1..Len(s)) : p[1] < p[2] /\ Bracketed(s, p[1], p[2])} IN
    IF inner = {} THEN s
    ELSE LET p == CHOOSE q \in inner : TRUE
         IN Reduced(SubSeq(s, 1, p[1] - 1) \o <<"V">> \o SubSeq(s, p[2] + 1, Len(s)))

IsJson(s) ==
    LET r == Reduced(SelectSeq(s, LAMBDA t : t # " ")) IN Len(r) = 1 /\ IsValue(r[1])

(* A text is decoded or found valid just when it is JSON: no comma too many, *)
(* nothing after the value, white space wherever it likes (json.c:363-378,   *)
(* :433-446, :623-791).                                                      *)
AcceptsJson ==
    /\ reads = "accepted" => IsJson(tokens)
    /\ reads = "refused" => ~IsJson(tokens)

(* A text that is refused leaves no allocation behind, wherever it breaks    *)
(* off, and of one that is decoded there is the value and nothing else.      *)
NothingLeaks ==
    /\ reads = "refused" => held = 0
    /\ reads = "accepted" => held = IF building THEN Cost(value) ELSE 0

RECURSIVE Reasonable(_)
\* No number is at the end of the doubles.
Reasonable(v) == v.tag \notin {"inf", "max"} /\ \A k \in DOMAIN v.kids : Reasonable(v.kids[k])

(* What json_encode and json_stringify write is JSON, and is decoded as the  *)
(* same value when its numbers are "reasonable" (json.c:974-1104, :1225-1240).*)
Rereads ==
    rewritten # <<>> =>
        /\ reads \notin {"failing", "refused"}
        /\ reads = "accepted" /\ Reasonable(rewritten[1]) => <<value>> = rewritten
=============================================================================
