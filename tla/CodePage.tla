------------------------------- MODULE CodePage -------------------------------
(***************************************************************************)
(* The converter of code pages (hw2/main.c): each byte of the input becomes*)
(* the UTF-8 of its character in the page.  Only whether the last fputc of *)
(* a character has failed is looked at.                                    *)
(***************************************************************************)
EXTENDS Integers, SequencesExt

CONSTANTS Page,       \* cp_data of the page: the code points of some bytes from 128 on
          MaxInput    \* bound on the length of the input

VARIABLES input,     \* what is left to be read
          read,      \* what has been
          output,    \* what has been written
          lost,      \* history: the fputc that have failed: <<character, byte of it>>;
                     \* byte 0 of the character after the last is fclose
          ends       \* "no", "success" or "failure"

pageVars == <<input, read, output, lost, ends>>

Inputs == UNION {[1..n -> {65, 127} \cup DOMAIN Page] : n \in 0..MaxInput}

Rest(u) == 128 + (u % 64)

EncodeShort(u) ==    \* mutant: three bytes from 0x801 on
    IF u <= 2048 THEN <<192 + u \div 64, Rest(u)>>
    ELSE <<224 + u \div 4096, Rest(u \div 64), Rest(u)>>

\* Four bytes from 0x8000 on, where three would do.
Encode(u) ==
    IF u < 2048 THEN <<192 + u \div 64, Rest(u)>>
    ELSE IF u < 32768 THEN <<224 + u \div 4096, Rest(u \div 64), Rest(u)>>
    ELSE <<240 + u \div 262144, Rest(u \div 4096), Rest(u \div 64), Rest(u)>>

Bytes(c) == IF c < 128 THEN <<c>> ELSE Encode(Page[c])

\* io_result: did the last fputc of the last character fail?
Failed == read # <<>> /\ <<Len(read), Len(Bytes(Last(read)))>> \in lost

\* The loop reads a character and only then looks at io_result; each fputc of the
\* character may fail.
Convert ==
    /\ ends = "no" /\ input # <<>> /\ ~Failed
    /\ LET b == Bytes(Head(input)) IN
       \E failing \in SUBSET DOMAIN b :
        /\ lost' = lost \cup {<<Len(read) + 1, k>> : k \in failing}
        /\ output' = output \o SelectSeq([k \in DOMAIN b |-> IF k \in failing THEN -1 ELSE b[k]],
                                         LAMBDA x : x # -1)
    /\ read' = Append(read, Head(input))
    /\ input' = Tail(input)
    /\ UNCHANGED ends

\* fclose, whose result is not looked at: the bytes that are still in the buffer are
\* written, or lost.
Close == \/ UNCHANGED <<output, lost>>
         \/ /\ \E n \in 0..(Len(output) - 1) : output' = SubSeq(output, 1, n)
            /\ lost' = lost \cup {<<Len(read) + 1, 0>>}

Finish ==
    /\ ends = "no"
    /\ input = <<>> \/ Failed
    /\ ends' = IF Failed THEN "failure" ELSE "success"
    /\ Close
    /\ UNCHANGED <<input, read>>

Init == /\ input \in Inputs
        /\ read = <<>> /\ output = <<>> /\ lost = {}
        /\ ends = "no"

Next == Convert \/ Finish

Spec == Init /\ [][Next]_pageVars

-----------------------------------------------------------------------------
\* The code point of a character of n bytes, by UTF-8's weights.
CodePoint(b) ==
    CASE Len(b) = 1 -> b[1]
      [] Len(b) = 2 -> (b[1] - 192) * 64 + b[2] - 128
      [] Len(b) = 3 -> (b[1] - 224) * 4096 + (b[2] - 128) * 64 + b[3] - 128
      [] Len(b) = 4 -> (b[1] - 240) * 262144 + (b[2] - 128) * 4096 + (b[3] - 128) * 64 + b[4] - 128

\* What each byte that is no continuation begins.
Characters(bytes) ==
    LET from[i \in 1..(Len(bytes) + 1)] ==
            IF i > Len(bytes) THEN <<>>
            ELSE LET j == CHOOSE k \in i..Len(bytes) :
                            /\ \A m \in (i + 1)..k : bytes[m] \in 128..191
                            /\ k = Len(bytes) \/ bytes[k + 1] \notin 128..191
                 IN <<SubSeq(bytes, i, j)>> \o from[j + 1]
    IN from[1]

\* The least code point of n bytes; five are for none.
Least(n) == CASE n = 1 -> 0 [] n = 2 -> 128 [] n = 3 -> 2048 [] n = 4 -> 65536 [] n = 5 -> 1114112

CodeOf(c) == IF c < 128 THEN c ELSE Page[c]

\* Each character has been written in its shortest form.
IsUtf8 == LET chars == Characters(output) IN
          /\ Len(chars) = Len(read) /\ input = <<>>
          /\ \A k \in DOMAIN read : LET n == Len(chars[k]) IN
                 /\ CodePoint(chars[k]) = CodeOf(read[k])
                 /\ CodeOf(read[k]) \in Least(n)..(Least(n + 1) - 1)

(* When nothing is lost the output is the UTF-8 of the whole input, if its   *)
(* characters are below U+8000, as all of the pages in the repository are    *)
(* (hw2/main.c:55-72).                                                       *)
RightUtf8 ==
    ends # "no" /\ lost = {} /\ (\A k \in DOMAIN read : CodeOf(read[k]) < 32768) => IsUtf8

(* The converter's output is UTF-8 (hw2/readme.md:3-4), also with the pages  *)
(* that may be added (:10-11).  It is not: from U+8000 on a character gets a *)
(* byte too many (hw2/main.c:62-69).                                         *)
AlwaysUtf8 == ends # "no" /\ lost = {} => IsUtf8

(* A failed write of a character's last byte is told by the status, and the  *)
(* conversion stops there; a failure that is told is one (main.c:55, :70-78).*)
LastLossTold ==
    ends # "no" =>
        /\ ends = "failure" => lost # {}
        /\ \A k \in DOMAIN read :
            <<k, Len(Bytes(read[k]))>> \in lost => ends = "failure" /\ k = Len(read)
=============================================================================
