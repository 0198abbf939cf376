------------------------------- MODULE ZipJpeg -------------------------------
(***************************************************************************)
(* The listing of a zip archive behind a JPEG picture (hw1/main.c).  A file*)
(* is the sequence of its bytes, of which only those of the signatures are *)
(* told apart; the rest of a local file header, 26 bytes, is one of them,  *)
(* the entry's `id`.                                                       *)
(***************************************************************************)
EXTENDS Integers, SequencesExt

CONSTANTS Files,      \* the files: [picture, gap : bytes, entries : seq of entries]
          MaxName,    \* MAX_FILENAME_LEN
          Wrap        \* the sizes are of 32 bits

VARIABLES file,       \* the file listed
          limit,      \* how far it can be read
          reader      \* the program

zipVars == <<file, limit, reader>>

Soi == <<"FF", "D8">>
Eoi == <<"FF", "D9">>
Signature == <<"P", "K", "3", "4">>

\* An entry has an id, a name, extra and data (bytes) and a compressed_size.
EntryBytes(e) == Signature \o <<e.id>> \o e.name \o e.extra \o e.data

Bytes == file.picture \o file.gap \o FlattenSeq([k \in DOMAIN file.entries |-> EntryBytes(file.entries[k])])

Header(id) == CHOOSE e \in {file.entries[k] : k \in DOMAIN file.entries} : e.id = id

-----------------------------------------------------------------------------
(* The position after the first match from `from` on, or 0. *)

\* read_until_match: the byte that breaks a match is not tried as the first of
\* another.  A read error is the end of the file: io_error is never set.
After(pattern, from) ==
    LET run[p \in from..(limit + 1), i \in 0..Len(pattern)] ==
            IF i = Len(pattern) THEN p
            ELSE IF p > limit THEN 0
            ELSE run[p + 1, IF Bytes[p] = pattern[i + 1] THEN i + 1 ELSE 0]
    IN IF from > limit THEN 0 ELSE run[from, 0]

Go(at) == reader' = [reader EXCEPT !.at = at]

\* read_until_mismatch: it reads a byte more than it compares.
FindSoi ==
    /\ reader.at = "start"
    /\ IF limit >= 2 /\ Soi = SubSeq(Bytes, 1, 2)
       THEN reader' = [reader EXCEPT !.at = "picture", !.pos = 4]
       ELSE Go("refused")
    /\ UNCHANGED <<file, limit>>

FindEoi ==
    LET p == After(Eoi, reader.pos) IN
    /\ reader.at = "picture"
    /\ IF p = 0 THEN Go("refused") ELSE reader' = [reader EXCEPT !.at = "entries", !.pos = p]
    /\ UNCHANGED <<file, limit>>

FindEntry ==
    LET p == After(Signature, reader.pos) IN
    /\ reader.at = "entries"
    /\ IF p = 0 \/ p > limit THEN Go("done") ELSE reader' = [reader EXCEPT !.at = "entry", !.pos = p]
    /\ UNCHANGED <<file, limit>>

SmallerOf(a, b) == IF a < b THEN a ELSE b

SkipNoExtra(e) == e.size    \* mutant: the extra field is left out

\* The offset of fseek: a sum of 32 bits.
SkipOf(e) == (e.size + Len(e.extra)) % Wrap

NameLength(e) == SmallerOf(MaxName, Len(e.name))

\* The header, as much of the name as there is room for, and the rest skipped,
\* the name's own rest left out.  A name of no bytes ends the listing.
ReadEntry ==
    LET e == Header(Bytes[reader.pos])
        n == SmallerOf(NameLength(e), limit - reader.pos)
    IN
    /\ reader.at = "entry"
    /\ IF n = 0 THEN Go("done")
       ELSE reader' = [at |-> "entries", pos |-> reader.pos + 1 + n + SkipOf(e),
                       listed |-> Append(reader.listed, SubSeq(Bytes, reader.pos + 1, reader.pos + n))]
    /\ UNCHANGED <<file, limit>>

Init ==
    /\ file \in Files
    /\ limit \in 0..Len(Bytes)
    /\ reader = [at |-> "start", pos |-> 1, listed |-> <<>>]

Next == FindSoi \/ FindEoi \/ FindEntry \/ ReadEntry

Spec == Init /\ [][Next]_zipVars /\ WF_zipVars(Next)

-----------------------------------------------------------------------------
Whole == limit = Len(Bytes)

Names == [k \in DOMAIN file.entries |-> file.entries[k].name]

\* The bytes the search for a signature goes through: the gap, and the data of
\* entries whose header does not tell its size (it follows the data).
Searched == {file.gap} \cup {file.entries[k].data : k \in {j \in DOMAIN file.entries : file.entries[j].size = 0}}

(* Every entry is listed, once and in order, when the file can be read, no   *)
(* byte that is searched looks like the start of a signature, the names are  *)
(* neither empty nor too long and the sizes are right (main.c:102-130).      *)
ListsAll ==
    reader.at = "done" /\ Whole
    /\ (\A s \in Searched : \A i \in DOMAIN s : s[i] # "P")
    /\ (\A k \in DOMAIN file.entries :
            LET e == file.entries[k] IN Len(e.name) \in 1..MaxName /\ e.size \in {0, Len(e.data)})
        => reader.listed = Names

(* Nothing is listed but the names of entries, or as much of them as there   *)
(* is room for or could be read, in the order of the archive.                *)
ListsOnly ==
    \E f \in [DOMAIN reader.listed -> DOMAIN file.entries] :
        /\ \A i, j \in DOMAIN f : i < j => f[i] < f[j]
        /\ \A i \in DOMAIN f : IsPrefix(reader.listed[i], Names[f[i]])

(* A whole picture is refused only when the marker of its end follows that   *)
(* of its start at once, or a byte FF, with which markers may be filled: the *)
(* matcher then misses it (main.c:41-45, :64).                               *)
RefusesOnly ==
    reader.at = "refused" /\ Whole /\ SubSeq(file.picture, 1, 2) = Soi =>
        \A k \in 3..(Len(Bytes) - 1) :
            SubSeq(Bytes, k, k + 1) = Eoi => k = 3 \/ Bytes[k - 1] = "FF"
=============================================================================
