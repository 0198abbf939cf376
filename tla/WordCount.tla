------------------------------ MODULE WordCount ------------------------------
(***************************************************************************)
(* wordcount (hw3/wordcount/main.c): the words of a text and how often each*)
(* comes, in the map of maplib, here the function of its counts.  A word is*)
(* a run of printing characters; its length is bounded by the buffer's.    *)
(***************************************************************************)
EXTENDS Integers, Sequences, FiniteSets

CONSTANTS Letters,    \* the printing characters
          Blank,      \* any other
          MaxText,    \* bound on the length of a text
          MaxKey      \* MAP_MAX_KEY_LENGTH

VARIABLES text, reader, counts

wordVars == <<text, reader, counts>>

Texts == UNION {[1..n -> Letters \cup {Blank}] : n \in 0..MaxText}

Words == UNION {[1..n -> Letters] : n \in 1..(MaxKey - 1)}

Read(c) == text # <<>> /\ reader.pos <= Len(text) /\ text[reader.pos] = c

\* The file has ended, or the buffer is full: then the character that has just
\* been read is dropped with the word and all that follows.
Stop ==
    /\ reader.at = "reading"
    /\ reader.pos > Len(text) \/ Len(reader.word) >= MaxKey - 1
    /\ reader' = [reader EXCEPT !.at = "printed"]
    /\ UNCHANGED <<text, counts>>

Letter(c) ==
    /\ reader.at = "reading" /\ Read(c) /\ Len(reader.word) < MaxKey - 1
    /\ reader' = [reader EXCEPT !.pos = @ + 1, !.word = Append(@, c)]
    /\ UNCHANGED <<text, counts>>

CountAnew(w) == counts' = [counts EXCEPT ![w] = 1]    \* mutant: the word is not looked for

\* map_find, and then *val += 1, or map_insert.
Count(w) == counts' = [counts EXCEPT ![w] = @ + 1]

EndOfWord ==
    /\ reader.at = "reading" /\ Read(Blank) /\ Len(reader.word) \in 1..(MaxKey - 2)
    /\ Count(reader.word)
    /\ reader' = [reader EXCEPT !.pos = @ + 1, !.word = <<>>]
    /\ UNCHANGED text

\* map_insert fails on a new word: the program ends without printing.
NoRoom ==
    /\ reader.at = "reading" /\ Read(Blank) /\ Len(reader.word) \in 1..(MaxKey - 2)
    /\ counts[reader.word] = 0
    /\ reader' = [reader EXCEPT !.at = "failed"]
    /\ UNCHANGED <<text, counts>>

SkipBlank ==
    /\ reader.at = "reading" /\ Read(Blank) /\ reader.word = <<>>
    /\ reader' = [reader EXCEPT !.pos = @ + 1]
    /\ UNCHANGED <<text, counts>>

Init ==
    /\ text \in Texts
    /\ reader = [at |-> "reading", pos |-> 1, word |-> <<>>]
    /\ counts = [w \in Words |-> 0]

Next == Stop \/ EndOfWord \/ NoRoom \/ SkipBlank \/ \E c \in Letters : Letter(c)

Spec == Init /\ [][Next]_wordVars /\ WF_wordVars(Next)

-----------------------------------------------------------------------------
Bounds(i, j) == /\ i = 1 \/ text[i - 1] = Blank
                /\ j = Len(text) \/ text[j + 1] = Blank
                /\ \A k \in i..j : text[k] # Blank

\* Where the words of the text are.
Runs == {r \in (1..Len(text)) \X (1..Len(text)) : r[1] <= r[2] /\ Bounds(r[1], r[2])}

Times(w) == Cardinality({r \in Runs : SubSeq(text, r[1], r[2]) = w})

\* The texts whose every word is followed by a separator and shorter than the buffer.
Separated ==
    /\ text = <<>> \/ text[Len(text)] = Blank
    /\ \A r \in Runs : r[2] - r[1] + 1 < MaxKey - 1

(* No word is printed with more than the times it comes, and each with just  *)
(* that in a text whose words all fit into the buffer and are followed by a  *)
(* separator (wordcount/main.c:38-56).                                       *)
CountsRight ==
    reader.at = "printed" =>
        \A w \in Words : counts[w] <= Times(w) /\ (Separated => counts[w] = Times(w))

(* The program prints how often each word comes that is in the file          *)
(* (hw3/readme.md:10).  It does not: a word that the end of the file ends is *)
(* left out, and all from one on that fills the buffer (main.c:38).          *)
EveryWord == reader.at = "printed" => \A w \in Words : counts[w] = Times(w)
=============================================================================
