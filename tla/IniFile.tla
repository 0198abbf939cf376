------------------------------- MODULE IniFile -------------------------------
(***************************************************************************)
(* The ini files of the daemon: ciniparser and its dictionary              *)
(* (hw9/ccan/ciniparser).  A file is loaded line by line, then its entries *)
(* are looked up, set and unset, and the whole can be dumped as a file.    *)
(* An entry's key is <<section>> for the section itself and                *)
(* <<section, name>> for one of its values; a line is a logical one, its   *)
(* continuations joined.                                                   *)
(***************************************************************************)
EXTENDS Integers, SequencesExt

CONSTANTS Files,       \* the files: sequences of lines
          Keys, Vals,  \* what the program sets besides
          MinSize,     \* DICTMINSZ
          MaxOps,      \* bound: operations after the load
          MaxStarved   \* bound: how often there is no memory

None == "NULL"    \* no value
NoKey == <<>>

VARIABLES file,      \* the lines to be read
          dict,      \* the dictionary
          ini,       \* ciniparser_load's state, and then the program's
          want,      \* ghost: the value of each entry
          dumped,    \* what ciniparser_dump_ini has written
          starved    \* how often there was no memory

iniVars == <<file, dict, ini, want, dumped, starved>>

\* A line [kind, name, val] is a "section", a "value", a syntax "error", one to
\* "skip", or without its newline (too long, or the file's last) "cut"; the last
\* may end in a backslash, "joined" to nothing.

Slots == DOMAIN dict.key

Used == {i \in Slots : dict.key[i] # NoKey}

Holding(k) == {i \in Used : dict.key[i] = k}

Smallest(S) == CHOOSE i \in S : \A j \in S : i <= j

Starve == starved < MaxStarved /\ starved' = starved + 1

-----------------------------------------------------------------------------
(* dictionary.c. *)

New == [key |-> [i \in 1..MinSize |-> NoKey], val |-> [i \in 1..MinSize |-> None], n |-> 0,
        arrays |-> "held"]

\* dictionary_get.
Get(k) == IF Holding(k) = {} THEN "absent" ELSE dict.val[Smallest(Holding(k))]

\* mem_double of the three arrays.
Doubled == [dict EXCEPT !.key = @ \o [i \in Slots |-> NoKey], !.val = @ \o [i \in Slots |-> None]]

AddLast(d, k, v) ==    \* mutant: the free slots are not looked for
    [d EXCEPT !.key[d.n + 1] = k, !.val[d.n + 1] = v, !.n = @ + 1]

\* The first empty slot.
AddFirst(d, k, v) ==
    LET i == Smallest({j \in DOMAIN d.key : d.key[j] = NoKey}) IN
    [d EXCEPT !.key[i] = k, !.val[i] = v, !.n = @ + 1]

Full == dict.n = Len(dict.key)

\* dictionary_set, when there is memory for all it needs.
Set(k, v) ==
    /\ dict' = IF Holding(k) # {} THEN [dict EXCEPT !.val[Smallest(Holding(k))] = v]
               ELSE AddFirst(IF Full THEN Doubled ELSE dict, k, v)
    /\ want' = [want EXCEPT ![k] = v]
    /\ UNCHANGED starved

\* strdup of the key fails: the slot stays empty, but counts.  Of the value: it is null.
SetStarved(k, v) ==
    /\ Starve
    /\ \/ /\ Holding(k) = {}
          /\ dict' = [(IF Full THEN Doubled ELSE dict) EXCEPT !.n = @ + 1]
          /\ UNCHANGED want
       \/ /\ dict' = IF Holding(k) # {} THEN [dict EXCEPT !.val[Smallest(Holding(k))] = None]
                     ELSE AddFirst(IF Full THEN Doubled ELSE dict, k, None)
          /\ want' = [want EXCEPT ![k] = None]

\* An array cannot be doubled: it is lost, and its size is the old one.
SetFails(k) ==
    /\ Starve
    /\ Holding(k) = {} /\ Full
    /\ \E lost \in {"hash", "entries"} : dict' = [dict EXCEPT !.arrays = lost]
    /\ UNCHANGED want

\* dictionary_unset.
Unset(k) ==
    /\ dict' = IF Holding(k) = {} THEN dict
               ELSE [dict EXCEPT !.key[Smallest(Holding(k))] = NoKey,
                                 !.val[Smallest(Holding(k))] = None, !.n = @ - 1]
    /\ want' = [want EXCEPT ![k] = "absent"]

-----------------------------------------------------------------------------
(* ciniparser_load. *)

NextLine == Head(file)
Loading(kinds) == ini.at = "load" /\ file # <<>> /\ NextLine.kind \in kinds

Key == IF NextLine.kind = "section" THEN <<NextLine.name>> ELSE <<ini.section, NextLine.name>>
Value == IF NextLine.kind = "section" THEN None ELSE NextLine.val

\* One of the three arrays of dictionary_new cannot be had, which is not looked at.
NewStarved ==
    /\ ini.at = "load" /\ file = ini.file /\ dict = New
    /\ Starve
    /\ \E lost \in {"hash", "entries"} : dict' = [New EXCEPT !.arrays = lost]
    /\ UNCHANGED <<file, ini, want, dumped>>

\* fopen or dictionary_new fails.
OpenFails ==
    /\ ini.at = "load" /\ file = ini.file /\ dict = New
    /\ ini' = [ini EXCEPT !.at = "refused"]
    /\ Starve
    /\ UNCHANGED <<file, dict, want, dumped>>

\* `errs = dictionary_set(...)` forgets the syntax errors so far.
NoErrors == 0

Entry ==
    /\ Loading({"section", "value"}) /\ dict.arrays = "held"
    /\ Set(Key, Value) \/ SetStarved(Key, Value)
    /\ file' = Tail(file)
    /\ ini' = [ini EXCEPT !.errs = NoErrors,
                          !.section = IF NextLine.kind = "section" THEN NextLine.name ELSE @]
    /\ UNCHANGED dumped

\* dictionary_del follows the arrays of keys and values.
Refused(d) == [ini EXCEPT !.at = IF d.arrays = "entries" THEN "crashed" ELSE "refused"]

\* The load gives up and deletes the dictionary, whose arrays may be lost.
EntryFails ==
    /\ Loading({"section", "value"}) /\ dict.arrays = "held"
    /\ SetFails(Key)
    /\ ini' = Refused(dict')
    /\ UNCHANGED <<file, dumped>>

\* The first entry is put into arrays that are not there.
EntryLost ==
    /\ Loading({"section", "value"}) /\ dict.arrays # "held"
    /\ ini' = [ini EXCEPT !.at = "crashed"]
    /\ UNCHANGED <<file, dict, want, dumped, starved>>

OtherLine ==
    /\ Loading({"error", "skip"})
    /\ file' = Tail(file)
    /\ ini' = [ini EXCEPT !.errs = IF NextLine.kind = "error" THEN @ + 1 ELSE @]
    /\ UNCHANGED <<dict, want, dumped, starved>>

\* No newline: no dictionary.  A backslash at the end of the file: no line.
LastLine ==
    /\ Loading({"cut", "joined"})
    /\ IF NextLine.kind = "cut" THEN ini' = Refused(dict) ELSE UNCHANGED ini
    /\ file' = Tail(file)
    /\ UNCHANGED <<dict, want, dumped, starved>>

Loaded ==
    /\ ini.at = "load" /\ file = <<>>
    /\ ini' = IF ini.errs # 0 THEN Refused(dict) ELSE [ini EXCEPT !.at = "use"]
    /\ UNCHANGED <<file, dict, want, dumped, starved>>

-----------------------------------------------------------------------------
(* The dictionary in use. *)

Use == ini.at = "use" /\ ini.ops < MaxOps

\* ciniparser_set.
SetEntry(k) ==
    /\ Use /\ dict.arrays = "held"
    /\ \E v \in Vals : Set(k, v) \/ SetStarved(k, v)
    /\ ini' = [ini EXCEPT !.ops = @ + 1]
    /\ UNCHANGED <<file, dumped>>

\* It returns -1, and the next operation follows a null pointer.
SetEntryFails(k) ==
    /\ Use /\ dict.arrays = "held"
    /\ SetFails(k)
    /\ ini' = [ini EXCEPT !.ops = @ + 1]
    /\ UNCHANGED <<file, dumped>>

UnsetEntry(k) ==
    /\ Use /\ dict.arrays = "held"
    /\ Unset(k)
    /\ ini' = [ini EXCEPT !.ops = @ + 1]
    /\ UNCHANGED <<file, dumped, starved>>

\* What is lost is followed: of the entries it may be the values alone, and neither
\* those nor the hash of a key that is not there are asked for.
UseLost ==
    /\ Use /\ dict.arrays # "held"
    /\ \/ ini' = [ini EXCEPT !.at = "crashed"]
       \/ (dict.arrays = "entries" \/ Used = {}) /\ ini' = [ini EXCEPT !.ops = @ + 1]
    /\ UNCHANGED <<file, dict, want, dumped, starved>>

\* ciniparser_getnsec; ciniparser_getsecname, which counts from 1, and 0 is 1.
SectionsOf == SelectSeq(dict.key, LAMBDA k : Len(k) = 1)

SecName(i) == SectionsOf[IF i = 0 THEN 1 ELSE i]

EntriesIn(S) == {<<dict.key[i], dict.val[i]>> : i \in {j \in Used : Len(dict.key[j]) = 2 /\ dict.key[j][1] \in S}}

\* ciniparser_dump_ini: the sections from 0 on, each with its entries; without a
\* section all there is.
Dump ==
    /\ ini.at = "use" /\ dict.arrays = "held"
    /\ dumped' = IF SectionsOf = <<>>
                 THEN <<[section |-> NoKey, entries |-> EntriesIn({dict.key[i][1] : i \in Used})]>>
                 ELSE [i \in 1..Len(SectionsOf) |-> [section |-> SecName(i - 1),
                                                      entries |-> EntriesIn({SecName(i - 1)[1]})]]
    /\ ini' = [ini EXCEPT !.at = "dumped"]
    /\ UNCHANGED <<file, dict, want, starved>>

Init ==
    /\ file \in Files
    /\ dict = New
    /\ ini = [at |-> "load", errs |-> 0, section |-> "", ops |-> 0, file |-> file]
    /\ want = [k \in Keys |-> "absent"]
    /\ dumped = <<>>
    /\ starved = 0

Next == \/ NewStarved \/ OpenFails \/ Entry \/ EntryFails \/ EntryLost \/ OtherLine \/ LastLine \/ Loaded
        \/ UseLost \/ Dump
        \/ \E k \in Keys : SetEntry(k) \/ SetEntryFails(k) \/ UnsetEntry(k)

Spec == Init /\ [][Next]_iniVars

-----------------------------------------------------------------------------
(* Every entry is found with the value it was last given, once, after any    *)
(* sets and unsets and however the dictionary has grown (dictionary.c:129-243)*)
Faithful == dict.arrays = "held" => \A k \in Keys : Get(k) = want[k]

(* Wherever an entry is added there is an empty slot: no more are in use than*)
(* are counted, and when memory has not run out just as many                 *)
(* (dictionary.c:181-205, :241).                                             *)
CountedSlots ==
    /\ Cardinality(Used) <= dict.n /\ dict.n <= Len(dict.key)
    /\ starved = 0 => Cardinality(Used) = dict.n

LastEntryBefore(i) == \A j \in (i + 1)..Len(ini.file) : ini.file[j].kind \notin {"section", "value"}

(* With memory a file is refused for a line without a newline and for a      *)
(* syntax error after its last entry, and never without an error in it       *)
(* (ciniparser.c:443-453).                                                   *)
RefusedRightly ==
    starved = 0 /\ ini.at \in {"use", "dumped", "refused"} =>
        /\ (\E i \in DOMAIN ini.file : \/ ini.file[i].kind = "cut"
                                       \/ ini.file[i].kind = "error" /\ LastEntryBefore(i)) =>
               ini.at = "refused"
        /\ ini.at = "refused" => \E i \in DOMAIN ini.file : ini.file[i].kind \in {"cut", "error"}

Dumped == {dumped[i].section : i \in DOMAIN dumped} \ {NoKey}

Sections == {SectionsOf[i] : i \in DOMAIN SectionsOf}

(* A dump has no section but the dictionary's, each with all its entries as  *)
(* they are and no others, and when there are none or one it has them all; a *)
(* dictionary without a section is dumped entry by entry                     *)
(* (ciniparser.c:253-290).                                                   *)
DumpWhole ==
    ini.at = "dumped" /\ starved = 0 =>
        /\ Dumped \subseteq Sections
        /\ Len(SectionsOf) < 2 => Dumped = Sections
        /\ \A i \in DOMAIN dumped :
            dumped[i].entries = {<<k, want[k]>> : k \in
                {q \in Keys : /\ Len(q) = 2 /\ want[q] # "absent"
                              /\ dumped[i].section \in {<<q[1]>>, NoKey}}}

(* The n-th section, from 0 on, is found by its number, and the dictionary is*)
(* dumped into a loadable file (ciniparser.h:66-75, :77-86).  It is not: 0   *)
(* and 1 are the same section (ciniparser.c:207-208), so that of two or more *)
(* the first is there twice and the last is not.                             *)
EverySection == ini.at = "dumped" /\ starved = 0 => Dumped = Sections
=============================================================================
