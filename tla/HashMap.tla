------------------------------- MODULE HashMap -------------------------------
(***************************************************************************)
(* The hash table of hw3/maplib: open addressing with double hashing, and  *)
(* tombstones (removed_entry) for the keys removed.  Every operation is a  *)
(* step, but for the insertion that grows the table, which moves one cell  *)
(* a step.  A probe that meets neither its key nor an empty cell goes      *)
(* round for ever; pc is then "hung".                                      *)
(***************************************************************************)
EXTENDS Integers, FiniteSets

CONSTANTS
  Keys, Vals, Absent,
  Null,          \* an empty cell
  Removed,       \* removed_entry
  HashValues,    \* the values the hash function may take
  InitSize,      \* MAP_INIT_SIZE
  LoadNum,       \* MAP_LOAD_FACTOR is LoadNum / LoadDen
  LoadDen,
  ResizeFactor,  \* MAP_RESIZE_FACTOR
  MaxSize,       \* bound on the table: no insertion grows it further
  AllocFails     \* the allocations that may fail: "table", "entry"

Entry == [key : Keys, val : Vals]
Cell == Entry \cup {Null, Removed}

ASSUME MapAssumption ==
  /\ Absent \notin Keys \cup Vals
  /\ Null # Removed
  /\ {Null, Removed} \cap Entry = {}
  /\ HashValues \subseteq Nat
  /\ InitSize \in Nat /\ InitSize > 3
  /\ LoadNum \in Nat \ {0} /\ LoadDen \in Nat \ {0} /\ LoadNum < LoadDen
  /\ ResizeFactor \in Nat /\ ResizeFactor > 1
  /\ MaxSize \in Nat
  /\ AllocFails \subseteq {"table", "entry"}

\* The smallest table takes an entry before it has to grow: 14 with the
\* constants of maplib.c, 1 where the table starts with 4 cells.
ASSUME LoadAssumption == LoadDen <= InitSize * LoadNum

VARIABLES
  hash,          \* the hash function
  data_size,     \* number of cells
  data,          \* the cells
  count,         \* cells in use, tombstones included
  stored_count,  \* keys stored
  pc,            \* "idle", or where an insertion is, or "hung" or "destroyed"
  arg,           \* the entry being inserted
  pdata,         \* map_rehash's new cells
  j,             \* and the next old cell to move
  answer         \* what the last operation returned

table == <<data_size, data, count, stored_count>>
growth == <<pdata, j>>
vars == <<hash, table, pc, arg, growth, answer>>

IsEntry(c) == c \notin {Null, Removed}
Holds(c, k) == IsEntry(c) /\ c.key = k

\* count_limit, which is set together with data_size.
CountLimit(n) == (n * LoadNum) \div LoadDen

\* map_index: the cell that probe p of a key with hash code h looks at.
MapIndex(h, p, n) == ((h % n) + p * ((h % (n - 1)) + 1)) % n

\* The probes, of as many as can be told apart, that end a search for k.
Stops(cells, n, k) ==
  {p \in 0..n-1 : LET c == cells[MapIndex(hash[k], p, n)] IN c = Null \/ Holds(c, k)}
First(probes) == CHOOSE p \in probes : \A q \in probes : p <= q

\* Where map_find_entry's loop, and map_insert's, end.
Slot(cells, n, k) == MapIndex(hash[k], First(Stops(cells, n, k)), n)

Endless(cells, n, k) == Stops(cells, n, k) = {}
Found(k) == Holds(data[Slot(data, data_size, k)], k)

Reply(op, k, ok, v) == [op |-> op, key |-> k, ok |-> ok, val |-> v]

Empty(n) == [i \in 0..n-1 |-> Null]

TypeOK ==
  /\ hash \in [Keys -> HashValues]
  /\ data_size \in Nat \ {0}
  /\ data \in [0..data_size-1 -> Cell]
  /\ count \in Nat
  /\ stored_count \in Nat
  /\ pc \in {"idle", "rehash", "insert", "hung", "destroyed"}
  /\ pc \in {"rehash", "insert"} => arg \in Entry
  /\ pc = "rehash" => pdata \in [0..data_size*ResizeFactor-1 -> Cell] /\ j \in 0..data_size

Init ==
  /\ hash \in [Keys -> HashValues]
  /\ data_size = InitSize
  /\ data = Empty(InitSize)
  /\ count = 0
  /\ stored_count = 0
  /\ pc = "idle"
  /\ arg = Null
  /\ pdata = << >> /\ j = 0
  /\ answer = Reply("none", Absent, FALSE, Absent)

-----------------------------------------------------------------------------
Find(k) ==
  /\ pc = "idle" /\ ~Endless(data, data_size, k)
  /\ answer' = Reply("find", k, Found(k),
                     IF Found(k) THEN data[Slot(data, data_size, k)].val ELSE Absent)
  /\ UNCHANGED <<hash, table, pc, arg, growth>>

\* The caller of map_find stores v where it points.
Assign(k, v) ==
  /\ pc = "idle" /\ ~Endless(data, data_size, k) /\ Found(k)
  /\ data' = [data EXCEPT ![Slot(data, data_size, k)].val = v]
  /\ answer' = Reply("assign", k, TRUE, v)
  /\ UNCHANGED <<hash, data_size, count, stored_count, pc, arg, growth>>

\* Mutant of Remove: the cell becomes empty.
RemoveToNull(k) ==
  /\ pc = "idle" /\ ~Endless(data, data_size, k)
  /\ answer' = Reply("remove", k, Found(k), Absent)
  /\ IF Found(k)
     THEN /\ data' = [data EXCEPT ![Slot(data, data_size, k)] = Null]
          /\ stored_count' = stored_count - 1
     ELSE UNCHANGED <<data, stored_count>>
  /\ UNCHANGED <<hash, data_size, count, pc, arg, growth>>

\* Mutant of Remove: stored_count goes down whether the key is there or not.
RemoveUncounted(k) ==
  /\ pc = "idle" /\ ~Endless(data, data_size, k)
  /\ answer' = Reply("remove", k, Found(k), Absent)
  /\ data' = IF Found(k) THEN [data EXCEPT ![Slot(data, data_size, k)] = Removed] ELSE data
  /\ stored_count' = stored_count - 1
  /\ UNCHANGED <<hash, data_size, count, pc, arg, growth>>

Remove(k) ==
  /\ pc = "idle" /\ ~Endless(data, data_size, k)
  /\ answer' = Reply("remove", k, Found(k), Absent)
  /\ IF Found(k)
     THEN /\ data' = [data EXCEPT ![Slot(data, data_size, k)] = Removed]
          /\ stored_count' = stored_count - 1
     ELSE UNCHANGED <<data, stored_count>>
  /\ UNCHANGED <<hash, data_size, count, pc, arg, growth>>

Crowded == count > CountLimit(data_size)

\* Mutant of Insert: the table never grows.
InsertWithoutGrowth(k, v) ==
  /\ pc = "idle"
  /\ arg' = [key |-> k, val |-> v]
  /\ pc' = "insert"
  /\ UNCHANGED <<hash, table, growth, answer>>

\* map_insert, as far as the decision to grow, and the allocation for it.
Insert(k, v) ==
  /\ pc = "idle"
  /\ arg' = [key |-> k, val |-> v]
  /\ \/ /\ ~Crowded
        /\ pc' = "insert"
        /\ UNCHANGED growth
     \/ /\ Crowded /\ data_size * ResizeFactor <= MaxSize
        /\ pc' = "rehash"
        /\ pdata' = Empty(data_size * ResizeFactor)
        /\ j' = 0
  /\ UNCHANGED <<hash, table, answer>>

\* map_rehash gets no memory.
InsertNoTable(k, v) ==
  /\ pc = "idle" /\ Crowded /\ "table" \in AllocFails
  /\ answer' = Reply("insert", k, FALSE, v)
  /\ UNCHANGED <<hash, table, pc, arg, growth>>

\* Keys are distinct, so that only an empty cell ends this search.
NewSize == data_size * ResizeFactor
RehashMove ==
  /\ pc = "rehash" /\ j < data_size
  /\ IF IsEntry(data[j])
     THEN /\ ~Endless(pdata, NewSize, data[j].key)
          /\ pdata' = [pdata EXCEPT ![Slot(pdata, NewSize, data[j].key)] = data[j]]
     ELSE UNCHANGED pdata
  /\ j' = j + 1
  /\ UNCHANGED <<hash, table, pc, arg, answer>>

\* Mutant of RehashEnd: the tombstones that are gone are still counted.
RehashKeepsCount ==
  /\ pc = "rehash" /\ j = data_size
  /\ data_size' = NewSize /\ data' = pdata
  /\ pdata' = << >> /\ j' = 0
  /\ pc' = "insert"
  /\ UNCHANGED <<hash, count, stored_count, arg, answer>>

RehashEnd ==
  /\ pc = "rehash" /\ j = data_size
  /\ data_size' = NewSize /\ data' = pdata
  /\ count' = stored_count
  /\ pdata' = << >> /\ j' = 0
  /\ pc' = "insert"
  /\ UNCHANGED <<hash, stored_count, arg, answer>>

\* The tombstones that map_insert's loop passes on its way to an empty cell.
Tombs(k) ==
  {p \in 0..data_size-1 : /\ p < First(Stops(data, data_size, k))
                          /\ data[MapIndex(hash[k], p, data_size)] = Removed}

\* The new entry, or the null pointer, is exchanged with the first tombstone.
Place(e) ==
  LET k    == arg.key
      slot == Slot(data, data_size, k)
      tomb == MapIndex(hash[k], First(Tombs(k)), data_size)
  IN data' = IF Tombs(k) = {} THEN [data EXCEPT ![slot] = e]
                              ELSE [data EXCEPT ![slot] = Removed, ![tomb] = e]

\* Mutant of InsertEnd: a tombstone ends the search.
InsertAtTomb ==
  LET k    == arg.key
      tomb == MapIndex(hash[k], First(Tombs(k)), data_size)
  IN /\ pc = "insert" /\ ~Endless(data, data_size, k)
     /\ pc' = "idle" /\ arg' = Null
     /\ IF Found(k) /\ Tombs(k) = {}
        THEN /\ answer' = Reply("insert", k, FALSE, arg.val)
             /\ UNCHANGED table
        ELSE /\ IF Tombs(k) = {} THEN Place(arg) ELSE data' = [data EXCEPT ![tomb] = arg]
             /\ count' = count + 1
             /\ stored_count' = stored_count + 1
             /\ answer' = Reply("insert", k, TRUE, arg.val)
             /\ UNCHANGED data_size
     /\ UNCHANGED <<hash, growth>>

\* The rest of map_insert.
InsertEnd ==
  /\ pc = "insert" /\ ~Endless(data, data_size, arg.key)
  /\ pc' = "idle" /\ arg' = Null
  /\ IF Found(arg.key)
     THEN /\ answer' = Reply("insert", arg.key, FALSE, arg.val)
          /\ UNCHANGED table
     ELSE /\ Place(arg) \/ ("entry" \in AllocFails /\ Place(Null))
          /\ count' = count + 1
          /\ stored_count' = stored_count + 1
          /\ answer' = Reply("insert", arg.key, TRUE, arg.val)
          /\ UNCHANGED data_size
  /\ UNCHANGED <<hash, growth>>

\* A search, of any operation, that has no end.
Hang ==
  /\ \/ pc = "idle" /\ \E k \in Keys : Endless(data, data_size, k)
     \/ pc = "insert" /\ Endless(data, data_size, arg.key)
     \/ /\ pc = "rehash" /\ j < data_size
        /\ IsEntry(data[j]) /\ Endless(pdata, NewSize, data[j].key)
  /\ pc' = "hung"
  /\ UNCHANGED <<hash, table, arg, growth, answer>>

\* map_destroy.  The blocks it frees, tombstones among them, are not part of
\* the model.
Destroy ==
  /\ pc = "idle"
  /\ pc' = "destroyed"
  /\ UNCHANGED <<hash, table, arg, growth, answer>>

Next ==
  \/ \E k \in Keys : \/ Find(k) \/ Remove(k)
                     \/ \E v \in Vals : Assign(k, v) \/ Insert(k, v) \/ InsertNoTable(k, v)
  \/ RehashMove \/ RehashEnd \/ InsertEnd \/ Hang \/ Destroy

Spec == Init /\ [][Next]_vars

-----------------------------------------------------------------------------
(* Properties.                                                             *)

\* Every key of a table is where its search ends, however many keys have been
\* removed on the way to it, in the table in use and in the one being built.
Reaches(cells, n) ==
  \A i \in 0..n-1 :
    IsEntry(cells[i]) => LET k == cells[i].key IN
      ~Endless(cells, n, k) /\ Slot(cells, n, k) = i
Findable == Reaches(data, data_size) /\ (pc = "rehash" => Reaches(pdata, NewSize))

\* count is the number of cells that are not empty, tombstones included, and
\* stored_count that of the keys.
Counted ==
  /\ count = Cardinality({i \in 0..data_size-1 : data[i] # Null})
  /\ stored_count = Cardinality({i \in 0..data_size-1 : IsEntry(data[i])})

\* Whatever was inserted and removed before, and half-way through a rehash,
\* the cells hold each key where its search ends and the counts are theirs
\* (maplib.c:94-160, :180-217).
CellsRight == TypeOK /\ Findable /\ Counted

\* The load limit is exceeded by one cell at most: an insertion that would do
\* more rebuilds the table first.
NeverFull == count <= CountLimit(data_size) + 1

\* The dictionary that the cells stand for.
dict == [k \in Keys |-> IF \E i \in 0..data_size-1 : Holds(data[i], k)
                        THEN data[CHOOSE i \in 0..data_size-1 : Holds(data[i], k)].val
                        ELSE Absent]

Map == INSTANCE Dictionary WITH dict <- dict

\* The table is a dictionary: through tombstones, exchanges and rehashes no key
\* is lost, doubled or given another's value.
ImplementsDictionary == Map!Spec

-----------------------------------------------------------------------------
(* A statement of maplib.h that the table does not meet.                   *)

\* map_find: "return NULL, if key is not in map" (maplib.h:37-38): a search
\* returns.
SearchReturns == pc # "hung"
=============================================================================
