------------------------------ MODULE JsonString ------------------------------
(***************************************************************************)
(* Strings in JSON (hw4/libs/json/json.c): emit_string writes one as a     *)
(* literal, parse_string reads it back, or reads any other text.  Strings  *)
(* and texts are sequences of bytes, with a NUL after the last.            *)
(***************************************************************************)
EXTENDS Integers, SequencesExt

CONSTANTS Strings,    \* what is encoded
          Literals,   \* legal texts: [text, value : sequences of bytes]
          Wrong,      \* texts that are no literal
          Raw         \* strings put between quotes as they are

VARIABLES text,     \* what is read: the string, then the literal
          pos,      \* the next byte of it
          sb,       \* the string buffer: its bytes, how many there is room for, and
                    \* whether more have ever been written
          job,      \* "emit", "emitted", "parse", "parsed", "refused" or "aborted"
          meant     \* ghost: what should come of it

stringVars == <<text, pos, sb, job, meant>>

Quote == 34
Backslash == 92

Byte(i) == IF i <= Len(text) THEN text[i] ELSE 0

-----------------------------------------------------------------------------
(* UTF-8. *)

Follows(i) == Byte(i) \in 128..191

\* utf8_validate_cz: the length of the character at i, or 0.
Validate(i) ==
    LET c == Byte(i)  next == Byte(i + 1) IN
    CASE c <= 127 -> 1
      [] c \in 194..223 /\ Follows(i + 1) -> 2
      [] /\ c \in 224..239 /\ ~(c = 224 /\ next < 160) /\ ~(c = 237 /\ next > 159)
         /\ Follows(i + 1) /\ Follows(i + 2) -> 3
      [] /\ c \in 240..244 /\ ~(c = 240 /\ next < 144) /\ ~(c = 244 /\ next > 143)
         /\ Follows(i + 1) /\ Follows(i + 2) /\ Follows(i + 3) -> 4
      [] OTHER -> 0

\* utf8_validate of the whole string.
Utf8 ==
    LET from[i \in 1..(Len(text) + 1)] ==
            i > Len(text) \/ (Validate(i) # 0 /\ from[i + Validate(i)])
    IN from[1]

Tail6(u) == 128 + (u % 64)

\* utf8_write_char.
WriteChar(u) ==
    CASE u <= 127 -> <<u>>
      [] u \in 128..2047 -> <<192 + u \div 64, Tail6(u)>>
      [] u \in 2048..65535 -> <<224 + u \div 4096, Tail6(u \div 64), Tail6(u)>>
      [] OTHER -> <<240 + u \div 262144, Tail6(u \div 4096), Tail6(u \div 64), Tail6(u)>>

\* from_surrogate_pair, of a pair that is one.
FromPair(uc, lc) == 65536 + (uc % 1024) * 1024 + (lc % 1024)

-----------------------------------------------------------------------------
(* The string buffer. *)

NewBuffer == [bytes |-> <<>>, end |-> 16, overrun |-> FALSE]

\* sb_need, sb_grow.
Room(b, need) ==
    LET grown[a \in Nat] == IF a < Len(b.bytes) + need THEN grown[2 * a] ELSE a
    IN IF b.end - Len(b.bytes) < need THEN [b EXCEPT !.end = grown[2 * @]] ELSE b

\* What is written goes on from here; then there is room for what comes next.
Put(bytes, need) ==
    sb' = Room([sb EXCEPT !.bytes = @ \o bytes,
                          !.overrun = @ \/ Len(sb.bytes \o bytes) > sb.end], need)

-----------------------------------------------------------------------------
(* emit_string. *)

\* Two escapes and two quotation marks.
EmitNeed == 14

\* The letters of the short escapes, by the byte they stand for.
Short == [c \in {34, 92, 8, 12, 10, 13, 9} |->
            CASE c = 34 -> 34 [] c = 92 -> 92 [] c = 8 -> 98 [] c = 12 -> 102
              [] c = 10 -> 110 [] c = 13 -> 114 [] c = 9 -> 116]

\* write_hex16.
WriteHex(u) ==
    LET digit(d) == IF d < 10 THEN 48 + d ELSE 55 + d
    IN <<digit(u \div 4096), digit((u \div 256) % 16), digit((u \div 16) % 16), digit(u % 16)>>

\* How the character at pos is written; 31 is written as it is.
Emitted ==
    LET c == Byte(pos) IN
    IF c \in DOMAIN Short THEN <<Backslash, Short[c]>>
    ELSE IF c < 31 THEN <<Backslash, 117>> \o WriteHex(c)
    ELSE SubSeq(text, pos, pos + Validate(pos) - 1)

\* The assertion that the string is UTF-8; then the opening quotation mark.
EmitOpen ==
    /\ job = "emit"
    /\ IF Utf8 THEN /\ sb' = [Room(NewBuffer, EmitNeed) EXCEPT !.bytes = <<Quote>>]
                    /\ job' = "emitting"
       ELSE job' = "aborted" /\ UNCHANGED sb
    /\ UNCHANGED <<text, pos, meant>>

EmitChar ==
    /\ job = "emitting" /\ Byte(pos) # 0
    /\ Put(Emitted, EmitNeed)
    /\ pos' = pos + (IF Byte(pos) \in DOMAIN Short THEN 1 ELSE Validate(pos))
    /\ UNCHANGED <<text, job, meant>>

EmitClose ==
    /\ job = "emitting" /\ Byte(pos) = 0
    /\ Put(<<Quote>>, 0)
    /\ job' = "emitted"
    /\ UNCHANGED <<text, pos, meant>>

\* The literal is what is parsed next.
Reread ==
    /\ job = "emitted"
    /\ text' = sb.bytes
    /\ pos' = 1
    /\ job' = "parse"
    /\ UNCHANGED <<sb, meant>>

-----------------------------------------------------------------------------
(* parse_string. *)

Refused == [len |-> 0, bytes |-> <<>>]

HexDigit(c) ==
    CASE c \in 48..57 -> c - 48
      [] c \in 65..70 -> c - 55
      [] c \in 97..102 -> c - 87
      [] OTHER -> -1

\* parse_hex16 at i, -1 if a digit is none.
Hex4(i) ==
    LET d(k) == HexDigit(Byte(i + k)) IN
    IF \A k \in 0..3 : d(k) # -1 THEN ((d(0) * 16 + d(1)) * 16 + d(2)) * 16 + d(3) ELSE -1

\* After \u, at i: a code unit, or two if the first is a surrogate.
UnicodeEscape(i) ==
    LET uc == Hex4(i)  lc == Hex4(i + 6) IN
    CASE uc \in {-1, 0} -> Refused
      [] uc \in 55296..57343 ->
            IF /\ Byte(i + 4) = Backslash /\ Byte(i + 5) = 117 /\ lc # -1
               /\ uc <= 56319 /\ lc \in 56320..57343
            THEN [len |-> 12, bytes |-> WriteChar(FromPair(uc, lc))]
            ELSE Refused
      [] OTHER -> [len |-> 6, bytes |-> WriteChar(uc)]

\* The character at pos: how long it is in the text, and what it stands for.
Character ==
    LET c == Byte(pos)  letter == Byte(pos + 1) IN
    CASE c = Backslash /\ letter = 47 -> [len |-> 2, bytes |-> <<47>>]
      [] c = Backslash /\ \E b \in DOMAIN Short : Short[b] = letter ->
            [len |-> 2, bytes |-> <<CHOOSE b \in DOMAIN Short : Short[b] = letter>>]
      [] c = Backslash /\ letter = 117 -> UnicodeEscape(pos + 2)
      [] c # Backslash /\ c > 31 ->
            [len |-> Validate(pos), bytes |-> SubSeq(text, pos, pos + Validate(pos) - 1)]
      [] OTHER -> Refused

ParseOpen ==
    /\ job = "parse"
    /\ IF Byte(1) = Quote
       THEN sb' = Room(NewBuffer, 4) /\ pos' = 2 /\ job' = "parsing"
       ELSE job' = "refused" /\ UNCHANGED <<sb, pos>>
    /\ UNCHANGED <<text, meant>>

ParseChar ==
    /\ job = "parsing" /\ Byte(pos) # Quote
    /\ IF Character.len = 0 THEN job' = "refused" /\ UNCHANGED <<sb, pos>>
       ELSE Put(Character.bytes, 4) /\ pos' = pos + Character.len /\ UNCHANGED job
    /\ UNCHANGED <<text, meant>>

ParseClose ==
    /\ job = "parsing" /\ Byte(pos) = Quote
    /\ pos' = pos + 1
    /\ job' = "parsed"
    /\ UNCHANGED <<text, sb, meant>>

-----------------------------------------------------------------------------
\* A string encoded, a legal text, one that is not, or bytes between quotes.
Init ==
    /\ pos = 1
    /\ sb = NewBuffer
    /\ \/ /\ job = "emit" /\ text \in Strings
          /\ meant = [kind |-> "string", value |-> text]
       \/ /\ job = "parse"
          /\ \/ \E l \in Literals : text = l.text /\ meant = [kind |-> "string", value |-> l.value]
             \/ text \in Wrong /\ meant = [kind |-> "none", value |-> <<>>]
             \/ \E r \in Raw : /\ text = <<Quote>> \o r \o <<Quote>>
                               /\ meant = [kind |-> "raw", value |-> r]

Next == EmitOpen \/ EmitChar \/ EmitClose \/ Reread \/ ParseOpen \/ ParseChar \/ ParseClose

Spec == Init /\ [][Next]_stringVars

-----------------------------------------------------------------------------
(* UTF-8 as Unicode has it: the code points of a sequence of bytes. *)

CodePoint(b) ==
    CASE Len(b) = 1 -> b[1]
      [] Len(b) = 2 -> (b[1] - 192) * 64 + b[2] - 128
      [] Len(b) = 3 -> ((b[1] - 224) * 64 + b[2] - 128) * 64 + b[3] - 128
      [] Len(b) = 4 -> (((b[1] - 240) * 64 + b[2] - 128) * 64 + b[3] - 128) * 64 + b[4] - 128

\* The first byte of a character of n bytes, and the least code point that needs them.
First(n) == CASE n = 1 -> 0..127 [] n = 2 -> 192..223 [] n = 3 -> 224..239 [] n = 4 -> 240..247
Least(n) == CASE n = 1 -> 0 [] n = 2 -> 128 [] n = 3 -> 2048 [] n = 4 -> 65536

Scalar(b) ==
    /\ b[1] \in First(Len(b))
    /\ \A k \in 2..Len(b) : b[k] \in 128..191
    /\ CodePoint(b) >= Least(Len(b))
    /\ CodePoint(b) <= 1114111 /\ CodePoint(b) \notin 55296..57343

WellFormed(bytes) ==
    LET from[i \in 1..(Len(bytes) + 1)] ==
            \/ i > Len(bytes)
            \/ \E n \in 1..4 : /\ i + n - 1 <= Len(bytes)
                               /\ Scalar(SubSeq(bytes, i, i + n - 1))
                               /\ from[i + n]
    IN from[1]

Done == job \in {"parsed", "refused"}

(* A string without the byte 31 that has been emitted is parsed as itself, a *)
(* legal literal as what it means, and nothing else is parsed                *)
(* (json.c:793-906, :1106-1223).                                             *)
Restored ==
    Done => /\ meant.kind = "string" /\ 31 \notin ToSet(meant.value) =>
                    job = "parsed" /\ sb.bytes = meant.value
            /\ meant.kind = "none" => job = "refused"

(* Control characters are not allowed in string literals (json.c:868): none  *)
(* is in one that has been emitted.  The byte 31 is, as emit_string escapes  *)
(* what is below 31 (json.c:1180), and the literal is refused when it is read*)
(* (json.c:867).                                                             *)
ControlsEscaped == job = "emitted" => \A k \in DOMAIN sb.bytes : sb.bytes[k] > 31

(* What is parsed is UTF-8 in its shortest form, of Unicode's scalar values, *)
(* and has no NUL; bytes that are, without control characters, are parsed,   *)
(* and strings that are not abort the program when they are emitted          *)
(* (json.c:151-203, :302-310, :1112).                                        *)
OnlyUtf8 ==
    /\ job = "parsed" => WellFormed(sb.bytes) /\ 0 \notin ToSet(sb.bytes)
    /\ job = "refused" /\ meant.kind = "raw" =>
            ~WellFormed(meant.value) \/ \E k \in DOMAIN meant.value : meant.value[k] < 32
    /\ job = "aborted" => ~WellFormed(text)

(* Nothing is written past the room there is, and the reader never steps     *)
(* over the NUL, wherever an escape or a character breaks off (json.c:1118,  *)
(* :808).                                                                    *)
InBounds == ~sb.overrun /\ Len(sb.bytes) <= sb.end /\ pos <= Len(text) + 1
=============================================================================
