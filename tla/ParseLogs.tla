------------------------------ MODULE ParseLogs ------------------------------
(***************************************************************************)
(* hw11/parselogs/main.c: worker threads take log files from a common      *)
(* index and add up, each for itself, the bytes sent, the bytes per URL    *)
(* and the number of lines per referer; main joins the workers in the      *)
(* order of their creation, merges their tables and picks the top entries. *)
(* GLib's tables are functions on the keys present.                        *)
(***************************************************************************)
EXTENDS Integers, Sequences, FiniteSets, FiniteSetsExt

CONSTANTS
  Files,       \* number of log files
  Urls, Refers,
  Lines,       \* the lines a file may have
  MaxLines,    \* bound on the lines of a file
  NThreads,    \* the number of threads asked for
  StatSize,    \* STAT_SIZE
  WordMod,     \* an unsigned long holds 0 .. WordMod-1
  ReadFails    \* may a file be unreadable?

\* A line: do parse_log_string's tokens exist, can strtol represent the number
\* if there is one, and what they are.
Line == [complete : BOOLEAN, inRange : BOOLEAN, url : Urls, refer : Refers, trafic : 0..WordMod-1]

ParseLogsAssumption ==
  /\ Files \in Nat \ {0}
  /\ Lines \subseteq Line
  /\ MaxLines \in Nat
  /\ NThreads \in Nat \ {0}
  /\ StatSize \in Nat \ {0}
  /\ WordMod \in Nat /\ WordMod > 1
  /\ ReadFails \in BOOLEAN

Thread == 1..(IF Files < NThreads THEN Files ELSE NThreads)

VARIABLES
  files,     \* the lines of each file
  index,     \* the shared index of the next file
  at,        \* where each thread is: "unborn", "claim", "read" or "returned"
  mine,      \* the file each thread reads
  nextLine,  \* and the next line of it
  erange,    \* is the thread's errno ERANGE?
  res,       \* the result of each thread
  main,      \* where main is: "spawn", "join", "top", "done" or "aborted"
  joined,    \* threads joined
  sum,       \* the merged result
  top        \* the top sequences, of <<key, value>>

thread == <<index, at, mine, nextLine, erange, res>>
vars == <<files, thread, main, joined, sum, top>>

NoTable == [k \in {} |-> 0]
Nothing == [url |-> NoTable, refer |-> NoTable, trafic |-> 0]

Plus(a, b) == (a + b) % WordMod

\* ht_insert_dupkey_with_increment and ht_iter_move_to_ht: a value of 0 reads
\* as a key that is not there, which makes no difference to the sum.
Value(tab, k) == IF k \in DOMAIN tab THEN tab[k] ELSE 0
AddTo(tab, k, n) ==
  [x \in DOMAIN tab \cup {k} |->
     IF x = k THEN (IF Value(tab, k) = 0 THEN n ELSE Plus(tab[k], n)) ELSE tab[x]]

AddAll(tab, other) ==
  [x \in DOMAIN tab \cup DOMAIN other |-> Plus(Value(tab, x), Value(other, x))]

AddLine(r, l) ==
  [url    |-> AddTo(r.url, l.url, l.trafic),
   refer  |-> AddTo(r.refer, l.refer, 1),
   trafic |-> Plus(r.trafic, l.trafic)]

Merge(r, s) ==
  [url |-> AddAll(r.url, s.url), refer |-> AddAll(r.refer, s.refer),
   trafic |-> Plus(r.trafic, s.trafic)]

Init ==
  /\ files \in [1..Files -> UNION {[1..n -> Lines] : n \in 0..MaxLines}]
  /\ index = 0
  /\ at = [t \in Thread |-> "unborn"]
  /\ mine = [t \in Thread |-> 0]
  /\ nextLine = [t \in Thread |-> 1]
  /\ erange = [t \in Thread |-> FALSE]
  /\ res = [t \in Thread |-> Nothing]
  /\ main = "spawn"
  /\ joined = 0
  /\ sum = Nothing
  /\ top = [url |-> << >>, refer |-> << >>]

Alive == main # "aborted"

-----------------------------------------------------------------------------
(* The workers.                                                            *)

\* Mutant of Claim: the index is used after it has been advanced.
ClaimNext(t) ==
  /\ Alive /\ at[t] = "claim"
  /\ index' = index + 1
  /\ IF index + 1 < Files
     THEN /\ mine' = [mine EXCEPT ![t] = index + 2]
          /\ nextLine' = [nextLine EXCEPT ![t] = 1]
          /\ at' = [at EXCEPT ![t] = "read"]
     ELSE /\ at' = [at EXCEPT ![t] = "returned"]
          /\ UNCHANGED <<mine, nextLine>>
  /\ UNCHANGED <<files, erange, res, main, joined, sum, top>>

\* Mutant of Claim: a thread that finds no file tries again.
ClaimAgain(t) ==
  /\ Alive /\ at[t] = "claim"
  /\ index < Files
  /\ index' = index + 1
  /\ mine' = [mine EXCEPT ![t] = index + 1]
  /\ nextLine' = [nextLine EXCEPT ![t] = 1]
  /\ at' = [at EXCEPT ![t] = "read"]
  /\ UNCHANGED <<files, erange, res, main, joined, sum, top>>

\* g_atomic_int_add(&sd->index, 1), and the loop's test.  Logging the file's
\* name and opening it may leave another value in errno.
Claim(t) ==
  /\ Alive /\ at[t] = "claim"
  /\ index' = index + 1
  /\ IF index < Files
     THEN /\ mine' = [mine EXCEPT ![t] = index + 1]
          /\ nextLine' = [nextLine EXCEPT ![t] = 1]
          /\ at' = [at EXCEPT ![t] = "read"]
          /\ \E kept \in {erange[t], FALSE} : erange' = [erange EXCEPT ![t] = kept]
     ELSE /\ at' = [at EXCEPT ![t] = "returned"]
          /\ UNCHANGED <<mine, nextLine, erange>>
  /\ UNCHANGED <<files, res, main, joined, sum, top>>

\* A line is read and parsed.  strtol sets errno and nothing clears it: after a
\* number out of range the thread takes the rest of the file's lines for bad.
ReadLine(t) ==
  /\ Alive /\ at[t] = "read" /\ nextLine[t] <= Len(files[mine[t]])
  /\ LET l == files[mine[t]][nextLine[t]] IN
       /\ erange' = [erange EXCEPT ![t] = @ \/ ~l.inRange]
       /\ res' = IF l.complete /\ ~erange'[t] THEN [res EXCEPT ![t] = AddLine(@, l)] ELSE res
  /\ nextLine' = [nextLine EXCEPT ![t] = @ + 1]
  /\ UNCHANGED <<files, index, at, mine, main, joined, sum, top>>

EndOfFile(t) ==
  /\ Alive /\ at[t] = "read" /\ nextLine[t] > Len(files[mine[t]])
  /\ at' = [at EXCEPT ![t] = "claim"]
  /\ UNCHANGED <<files, index, mine, nextLine, erange, res, main, joined, sum, top>>

\* A file cannot be opened or read: g_error ends the program.
ReadError(t) ==
  /\ Alive /\ ReadFails /\ at[t] = "read"
  /\ main' = "aborted"
  /\ UNCHANGED <<files, thread, joined, sum, top>>

-----------------------------------------------------------------------------
(* main.                                                                   *)

Spawn ==
  /\ main = "spawn"
  /\ \E t \in Thread :
       /\ at[t] = "unborn" /\ \A u \in Thread : u < t => at[u] # "unborn"
       /\ at' = [at EXCEPT ![t] = "claim"]
       /\ main' = IF t = Cardinality(Thread) THEN "join" ELSE "spawn"
  /\ UNCHANGED <<files, index, mine, nextLine, erange, res, joined, sum, top>>

\* g_thread_join of the next thread, and the merge of its tables.
Join ==
  /\ main = "join" /\ at[joined + 1] = "returned"
  /\ sum' = Merge(sum, res[joined + 1])
  /\ joined' = joined + 1
  /\ main' = IF joined' = Cardinality(Thread) THEN "top" ELSE "join"
  /\ UNCHANGED <<files, thread, top>>

\* g_sequence_insert_sorted, largest first, after the entries it equals.
InsertSorted(s, e) ==
  LET n == Cardinality({i \in DOMAIN s : s[i][2] >= e[2]})
  IN SubSeq(s, 1, n) \o <<e>> \o SubSeq(s, n + 1, Len(s))

\* Mutant of MoveToSeq: the first entry has to make room.
MoveOutFirst(s, e) ==
  IF Len(s) < StatSize THEN InsertSorted(s, e)
  ELSE IF s[Len(s)][2] >= e[2] THEN s
  ELSE Tail(InsertSorted(s, e))

\* ht_iter_move_to_seq.
MoveToSeq(s, e) ==
  IF Len(s) < StatSize THEN InsertSorted(s, e)
  ELSE IF s[Len(s)][2] >= e[2] THEN s
  ELSE SubSeq(InsertSorted(s, e), 1, Len(s))

Without(tab, k) == [x \in DOMAIN tab \ {k} |-> tab[x]]

\* g_hash_table_foreach_remove takes the keys in any order.
MoveUrl ==
  /\ main = "top"
  /\ \E k \in DOMAIN sum.url :
       /\ top' = [top EXCEPT !.url = MoveToSeq(@, <<k, sum.url[k]>>)]
       /\ sum' = [sum EXCEPT !.url = Without(@, k)]
  /\ UNCHANGED <<files, thread, main, joined>>

MoveRefer ==
  /\ main = "top" /\ DOMAIN sum.url = {}
  /\ \E k \in DOMAIN sum.refer :
       /\ top' = [top EXCEPT !.refer = MoveToSeq(@, <<k, sum.refer[k]>>)]
       /\ sum' = [sum EXCEPT !.refer = Without(@, k)]
  /\ UNCHANGED <<files, thread, main, joined>>

Finish ==
  /\ main = "top" /\ DOMAIN sum.url = {} /\ DOMAIN sum.refer = {}
  /\ main' = "done"
  /\ UNCHANGED <<files, thread, joined, sum, top>>

Worker(t) == Claim(t) \/ ReadLine(t) \/ EndOfFile(t) \/ ReadError(t)
Main == Spawn \/ Join \/ MoveUrl \/ MoveRefer \/ Finish
Next == Main \/ \E t \in Thread : Worker(t)

\* While a thread can run, one does: no thread has more than so much to do.
Spec == Init /\ [][Next]_vars /\ WF_vars(Next)

-----------------------------------------------------------------------------
(* Properties.                                                             *)

\* What the lines of all the files say, line by line.
LineAt(s) == files[s[1]][s[2]]
Spots == {s \in (1..Files) \X (1..MaxLines) :
            s[2] <= Len(files[s[1]]) /\ LineAt(s).complete /\ LineAt(s).inRange}
Total(spots) == FoldSet(LAMBDA s, n : Plus(n, LineAt(s).trafic), 0, spots)

UrlTotal(u) == Total({s \in Spots : LineAt(s).url = u})
ReferTotal(r) == Cardinality({s \in Spots : LineAt(s).refer = r}) % WordMod

\* The spots that are still to be read: of the files not taken, and the rest
\* of those being read.
Unread ==
  {s \in Spots : \/ s[1] > index
                 \/ \E t \in Thread : at[t] = "read" /\ mine[t] = s[1] /\ s[2] >= nextLine[t]}

\* Every number of every line is one that strtol can represent.
InRange == \A f \in 1..Files : \A i \in DOMAIN files[f] : files[f][i].inRange

\* Unless a number is out of range: each byte is at any moment in exactly
\* one place, a line still unread, a running worker's result or main's sum.
InOnePlace ==
  InRange =>
    LET held(t) == IF t > joined THEN res[t].trafic ELSE 0
    IN Total(Spots) =
         Plus(Plus(sum.trafic, Total(Unread)), FoldSet(LAMBDA t, n : Plus(n, held(t)), 0, Thread))

\* The top sequence of a table: largest first, as long as it can be, and no
\* key left out has more than the last.
IsTop(seq, keys, value(_)) ==
  /\ Len(seq) = Min({StatSize, Cardinality(keys)})
  /\ \A i \in DOMAIN seq : seq[i][1] \in keys /\ seq[i][2] = value(seq[i][1])
  /\ \A i, k \in DOMAIN seq : i < k => seq[i][1] # seq[k][1] /\ seq[i][2] >= seq[k][2]
  /\ \A k \in keys : (\A i \in DOMAIN seq : seq[i][1] # k) => value(k) <= seq[Len(seq)][2]

\* What main prints in the end is the statistics of all the lines, whichever
\* thread read them and in whatever order the tables were walked.
StatisticsRight ==
  InRange /\ main = "done" =>
    /\ sum.trafic = Total(Spots)
    /\ IsTop(top.url, {LineAt(s).url : s \in Spots}, UrlTotal)
    /\ IsTop(top.refer, {LineAt(s).refer : s \in Spots}, ReferTotal)

\* Every run ends, with the statistics or by g_error.
Ends == <>(main \in {"done", "aborted"})
=============================================================================
