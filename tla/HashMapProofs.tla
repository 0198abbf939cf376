---------------------------- MODULE HashMapProofs ----------------------------
(***************************************************************************)
(* Proofs about HashMap, for every hash function, load factor, growth      *)
(* factor and size of the first table.                                     *)
(***************************************************************************)
EXTENDS HashMap, TLAPS, FiniteSetTheorems, WellFoundedInduction

-----------------------------------------------------------------------------
(* The load limit.                                                         *)

\* A quotient is the largest number whose product fits.
LEMMA Quotient ==
  ASSUME NEW a \in Nat, NEW d \in Nat \ {0}
  PROVE  a \div d \in Nat /\ d * (a \div d) <= a /\ a < d * (a \div d) + d
  OBVIOUS

\* A quotient is at least what its divisor goes into the dividend.
LEMMA QuotientAtLeast ==
  ASSUME NEW a \in Nat, NEW d \in Nat \ {0}, NEW q \in Nat, d * q <= a
  PROVE  q <= a \div d
<1>1. a \div d \in Nat /\ a < d * (a \div d) + d
  BY Quotient
<1>2. d * q < d * (a \div d) + d
  BY <1>1
<1>3. ASSUME a \div d + 1 <= q PROVE FALSE
  <2> DEFINE x == a \div d
  <2>1. x \in Nat /\ x + 1 <= q
    BY <1>1, <1>3
  <2> HIDE DEF x
  <2>2. d * (x + 1) <= d * q
    BY <2>1
  <2>3. d * (x + 1) = d * x + d
    BY <2>1
  <2> QED
    BY <1>2, <2>1, <2>2, <2>3 DEF x
<1> QED
  BY <1>1, <1>3

\* A table that has grown has room for one entry more, at least.
LEMMA GrowthMakesRoom ==
  ASSUME NEW n \in Nat, n >= InitSize
  PROVE  /\ CountLimit(n) \in Nat
         /\ n * ResizeFactor \in Nat /\ n * ResizeFactor >= InitSize
         /\ CountLimit(n) + 1 <= CountLimit(n * ResizeFactor)
<1> USE MapAssumption
<1> DEFINE a == n * LoadNum
           q == a \div LoadDen
<1>1. a \in Nat /\ LoadDen <= a
  <2>1. InitSize * LoadNum <= n * LoadNum
    OBVIOUS
  <2> QED
    BY <2>1, LoadAssumption
<1>2. n * ResizeFactor \in Nat /\ n * ResizeFactor >= n
  OBVIOUS
<1>3. q \in Nat /\ LoadDen * q <= a
  <2> HIDE DEF a
  <2> QED
    BY <1>1, Quotient
<1>4. n * ResizeFactor * LoadNum = a * ResizeFactor
  OBVIOUS
<1>5. a * ResizeFactor \in Nat /\ a + a <= a * ResizeFactor
  <2> HIDE DEF a
  <2> QED
    BY <1>1
<1>6. LoadDen * (q + 1) <= a * ResizeFactor
  <2> HIDE DEF a, q
  <2>1. LoadDen * (q + 1) = LoadDen * q + LoadDen
    BY <1>3
  <2> QED
    BY <1>1, <1>3, <1>5, <2>1
<1>7. q + 1 <= (a * ResizeFactor) \div LoadDen
  <2> HIDE DEF a, q
  <2> QED
    BY <1>3, <1>5, <1>6, QuotientAtLeast
<1> QED
  BY <1>2, <1>3, <1>4, <1>7 DEF CountLimit

\* The counts are those of a table below its limit, with one entry at most
\* beyond it, and an insertion starts below the limit.
Loaded ==
  /\ data_size \in Nat /\ data_size >= InitSize
  /\ count \in Int
  /\ stored_count \in Int
  /\ stored_count <= count
  /\ count <= CountLimit(data_size) + 1
  /\ pc = "insert" => count <= CountLimit(data_size)

\* A new table is within its load limit (maplib.c:32-74).
LEMMA LoadedInit == Init => Loaded
<1> SUFFICES ASSUME Init PROVE Loaded
  OBVIOUS
<1>1. data_size = InitSize /\ count = 0 /\ stored_count = 0 /\ pc = "idle"
  BY DEF Init
<1>2. CountLimit(InitSize) \in Nat
  BY GrowthMakesRoom, MapAssumption
<1> QED
  BY <1>1, <1>2, MapAssumption DEF Loaded

\* No operation takes a table past its load limit by more than one.
LEMMA LoadedNext == Loaded /\ [Next]_vars => Loaded'
<1> SUFFICES ASSUME Loaded, [Next]_vars PROVE Loaded'
  OBVIOUS
<1> USE DEF Loaded
<1>0. CountLimit(data_size) \in Nat
  BY GrowthMakesRoom
<1>1. ASSUME NEW k \in Keys, Find(k) PROVE Loaded'
  BY <1>1 DEF Find, table
<1>2. ASSUME NEW k \in Keys, Remove(k) PROVE Loaded'
  BY <1>0, <1>2 DEF Remove, CountLimit
<1>3. ASSUME NEW k \in Keys, NEW v \in Vals, Assign(k, v) PROVE Loaded'
  BY <1>3 DEF Assign, CountLimit
<1>4. ASSUME NEW k \in Keys, NEW v \in Vals, Insert(k, v) PROVE Loaded'
  BY <1>0, <1>4 DEF Insert, Crowded, table, CountLimit
<1>5. ASSUME NEW k \in Keys, NEW v \in Vals, InsertNoTable(k, v) PROVE Loaded'
  BY <1>5 DEF InsertNoTable, table, CountLimit
<1>6. CASE RehashMove
  BY <1>6 DEF RehashMove, table, CountLimit
<1>7. CASE RehashEnd
  <2>1. data_size' = data_size * ResizeFactor /\ count' = stored_count
        /\ stored_count' = stored_count
    BY <1>7 DEF RehashEnd, NewSize
  <2>2. /\ data_size * ResizeFactor \in Nat /\ data_size * ResizeFactor >= InitSize
        /\ CountLimit(data_size) + 1 <= CountLimit(data_size * ResizeFactor)
    BY GrowthMakesRoom
  <2>3. CountLimit(data_size * ResizeFactor) \in Nat
    BY <2>2, GrowthMakesRoom
  <2>4. CountLimit(data_size)' = CountLimit(data_size * ResizeFactor)
    BY <2>1 DEF CountLimit
  <2>5. stored_count <= CountLimit(data_size * ResizeFactor)
    BY <1>0, <2>2, <2>3
  <2> QED
    BY <2>1, <2>2, <2>3, <2>4, <2>5
<1>8. CASE InsertEnd
  <2>1. pc = "insert" /\ pc' = "idle" /\ data_size' = data_size
    BY <1>8 DEF InsertEnd, table
  <2>2. \/ count' = count /\ stored_count' = stored_count
        \/ count' = count + 1 /\ stored_count' = stored_count + 1
    BY <1>8 DEF InsertEnd, table
  <2>3. CountLimit(data_size)' = CountLimit(data_size)
    BY <2>1 DEF CountLimit
  <2> QED
    BY <1>0, <2>1, <2>2, <2>3
<1>9. CASE Hang
  BY <1>9 DEF Hang, table, CountLimit
<1>10. CASE Destroy
  BY <1>10 DEF Destroy, table, CountLimit
<1>11. CASE UNCHANGED vars
  BY <1>11 DEF vars, table, CountLimit
<1> QED
  BY <1>1, <1>2, <1>3, <1>4, <1>5, <1>6, <1>7, <1>8, <1>9, <1>10, <1>11 DEF Next

\* However keys come and go, tombstones included, no more than one cell beyond
\* the load limit is ever taken: map_insert rebuilds the table in time.
THEOREM LoadBounded == Spec => []NeverFull
<1>1. Loaded => NeverFull
  BY DEF Loaded, NeverFull
<1> QED
  BY <1>1, LoadedInit, LoadedNext, PTL DEF Spec

-----------------------------------------------------------------------------
(* Where searches end.                                                     *)

\* Every set of probes has a first one.
LEMMA FirstIs ==
  ASSUME NEW probes \in SUBSET Nat, probes # {}
  PROVE  First(probes) \in probes /\ \A q \in probes : First(probes) <= q
<1>1. PICK p \in probes : \A q \in probes : ~(<<q, p>> \in OpToRel(<, Nat))
  BY NatLessThanWellFounded, WFMin
<1>2. ASSUME NEW q \in probes PROVE p <= q
  <2>1. <<q, p>> \in Nat \X Nat
    OBVIOUS
  <2>2. ~(q < p)
    BY <1>1, <2>1 DEF OpToRel
  <2> QED
    BY <2>2
<1> QED
  BY <1>2 DEF First

\* A table of n cells, under the hash function h.
Table(h, cells, n) ==
  /\ h \in [Keys -> HashValues]
  /\ n \in Nat /\ n > 3
  /\ cells \in [0..n-1 -> Cell]

\* The cell that probe p of k looks at, and that the probes before p go on.
Probe(h, n, k, p) == MapIndex(h[k], p, n)
Passes(c, k) == c # Null /\ ~Holds(c, k)
Clear(h, cells, n, k, p) == \A q \in 0..p-1 : Passes(cells[Probe(h, n, k, q)], k)

\* A search for k ends with probe p, at cell s.
Ends(h, cells, n, k, p, s) ==
  /\ p \in 0..n-1
  /\ s = Probe(h, n, k, p)
  /\ Clear(h, cells, n, k, p)
  /\ cells[s] = Null \/ Holds(cells[s], k)

\* Every key is where its search ends: Reaches, without the least probe.
Safe(h, cells, n) ==
  \A i \in 0..n-1 : IsEntry(cells[i]) =>
    \E p \in 0..n-1 : /\ Probe(h, n, cells[i].key, p) = i
                      /\ Clear(h, cells, n, cells[i].key, p)

\* A cell that holds a key is an entry, and neither empty nor a tombstone.
LEMMA CellIs ==
  ASSUME NEW c \in Cell
  PROVE  /\ IsEntry(c) <=> c \in Entry
         /\ IsEntry(c) => c.key \in Keys /\ c.val \in Vals
         /\ IsEntry(c) <=> c # Null /\ c # Removed
         /\ ~IsEntry(Null) /\ ~IsEntry(Removed) /\ Null # Removed
         /\ Null \in Cell /\ Removed \in Cell
  BY MapAssumption DEF Cell, IsEntry, Entry

\* A remainder is less than what it is left by.
LEMMA Remainder ==
  ASSUME NEW a \in Int, NEW n \in Nat \ {0}
  PROVE  a % n \in 0..n-1
  OBVIOUS

\* A probe looks at a cell of the table (maplib.c:87-91).
LEMMA ProbeIs ==
  ASSUME NEW h \in [Keys -> HashValues], NEW n \in Nat, n > 3, NEW k \in Keys, NEW p \in Nat
  PROVE  Probe(h, n, k, p) \in 0..n-1
<1> DEFINE a == h[k] % n
           b == h[k] % (n - 1)
<1>1. h[k] \in Int /\ n \in Nat \ {0} /\ n - 1 \in Nat \ {0}
  <2>1. h[k] \in HashValues /\ HashValues \subseteq Nat
    BY MapAssumption
  <2>2. h[k] \in Nat
    BY <2>1, Zenon
  <2> QED
    BY <2>2
<1>2. a \in Int /\ b \in Int
  BY <1>1, Remainder
<1> HIDE DEF a, b
<1>3. a + p * (b + 1) \in Int
  BY <1>2
<1>4. (a + p * (b + 1)) % n \in 0..n-1
  BY <1>1, <1>3, Remainder
<1> QED
  BY <1>4 DEF Probe, MapIndex, a, b

\* The loop of map_find_entry ends where the search does (maplib.c:94-108).
LEMMA SearchEnds ==
  ASSUME NEW cells, NEW n, NEW k \in Keys, Table(hash, cells, n), ~Endless(cells, n, k)
  PROVE  Ends(hash, cells, n, k, First(Stops(cells, n, k)), Slot(cells, n, k))
<1> DEFINE stops == Stops(cells, n, k)
           f == First(stops)
<1>1. stops \in SUBSET Nat /\ stops # {} /\ stops \subseteq 0..n-1
  BY DEF Stops, Endless, Table
<1>2. f \in stops /\ \A q \in stops : f <= q
  <2> HIDE DEF stops
  <2> QED
    BY <1>1, FirstIs
<1>3. \A p \in 0..n-1 : p \in stops <=> ~Passes(cells[Probe(hash, n, k, p)], k)
  BY DEF Stops, Probe, Passes
<1>4. Slot(cells, n, k) = Probe(hash, n, k, f)
  BY DEF Slot, Probe
<1> HIDE DEF stops, f
<1>5. n \in Nat /\ f \in 0..n-1
  BY <1>1, <1>2 DEF Table
<1>6. ASSUME NEW q \in 0..f-1 PROVE Passes(cells[Probe(hash, n, k, q)], k)
  <2>1. q \in 0..n-1 /\ ~(f <= q)
    BY <1>5
  <2> QED
    BY <1>2, <1>3, <2>1
<1>7. ~Passes(cells[Probe(hash, n, k, f)], k)
  BY <1>2, <1>3, <1>5
<1>8. Ends(hash, cells, n, k, f, Slot(cells, n, k))
  BY <1>4, <1>5, <1>6, <1>7 DEF Ends, Clear, Passes
<1> QED
  BY <1>8 DEF f, stops

\* No two cells hold one key.
LEMMA OneCell ==
  ASSUME NEW h, NEW cells, NEW n, Table(h, cells, n), Safe(h, cells, n), NEW k \in Keys,
         NEW i \in 0..n-1, NEW m \in 0..n-1, Holds(cells[i], k), Holds(cells[m], k)
  PROVE  i = m
<1>1. PICK p \in 0..n-1 : Probe(h, n, k, p) = i /\ Clear(h, cells, n, k, p)
  BY DEF Safe, Holds
<1>2. PICK q \in 0..n-1 : Probe(h, n, k, q) = m /\ Clear(h, cells, n, k, q)
  BY DEF Safe, Holds
<1>3. n \in Nat
  BY DEF Table
<1>4. ~(p < q) /\ ~(q < p)
  BY <1>1, <1>2, <1>3 DEF Clear, Passes
<1>5. p = q
  BY <1>3, <1>4
<1> QED
  BY <1>1, <1>2, <1>5

\* A search that ends at an empty cell is for a key that is nowhere.
LEMMA Missing ==
  ASSUME NEW h, NEW cells, NEW n, Table(h, cells, n), Safe(h, cells, n), NEW k \in Keys,
         NEW f, NEW s, Ends(h, cells, n, k, f, s), ~Holds(cells[s], k)
  PROVE  cells[s] = Null /\ \A i \in 0..n-1 : ~Holds(cells[i], k)
<1>1. f \in 0..n-1 /\ s = Probe(h, n, k, f) /\ Clear(h, cells, n, k, f) /\ cells[s] = Null
  BY DEF Ends
<1>2. ASSUME NEW i \in 0..n-1, Holds(cells[i], k) PROVE FALSE
  <2>1. PICK p \in 0..n-1 : Probe(h, n, k, p) = i /\ Clear(h, cells, n, k, p)
    BY <1>2 DEF Safe, Holds
  <2>2. n \in Nat
    BY DEF Table
  <2>3. ~(p < f)
    BY <1>1, <1>2, <2>1, <2>2 DEF Clear, Passes
  <2>4. ~(f < p)
    BY <1>1, <2>1, <2>2 DEF Clear, Passes
  <2>5. p = f
    BY <1>1, <2>2, <2>3, <2>4
  <2> QED
    BY <1>1, <1>2, <2>1, <2>5
<1> QED
  BY <1>1, <1>2

\* Safe is what the property says of a table.
LEMMA SafeReaches ==
  ASSUME NEW cells, NEW n, Table(hash, cells, n), Safe(hash, cells, n)
  PROVE  Reaches(cells, n)
<1> SUFFICES ASSUME NEW i \in 0..n-1, IsEntry(cells[i]), NEW k, k = cells[i].key
             PROVE  ~Endless(cells, n, k) /\ Slot(cells, n, k) = i
  BY DEF Reaches
<1>1. k \in Keys /\ n \in Nat /\ Holds(cells[i], k)
  BY CellIs DEF Table, Holds
<1>2. PICK p \in 0..n-1 : Probe(hash, n, k, p) = i
  BY DEF Safe
<1>3. p \in Stops(cells, n, k)
  BY <1>1, <1>2 DEF Stops, Probe
<1>4. ~Endless(cells, n, k)
  BY <1>3 DEF Endless
<1>5. Ends(hash, cells, n, k, First(Stops(cells, n, k)), Slot(cells, n, k))
  BY <1>1, <1>4, SearchEnds
<1>6. Slot(cells, n, k) \in 0..n-1
  <2>1. First(Stops(cells, n, k)) \in Nat
    BY <1>1, <1>5 DEF Ends
  <2> QED
    BY <1>1, <1>5, <2>1, ProbeIs DEF Ends, Table
<1>7. Holds(cells[Slot(cells, n, k)], k)
  BY <1>1, <1>5, Missing
<1>8. Slot(cells, n, k) = i
  BY <1>1, <1>6, <1>7, OneCell
<1> QED
  BY <1>4, <1>8

-----------------------------------------------------------------------------
(* What a change of one or two cells does to the searches for other keys.  *)

\* A search is as good in a table whose cells let it pass wherever they did before.
LEMMA StillClear ==
  ASSUME NEW h, NEW cells, NEW more, NEW n, Table(h, cells, n), NEW k \in Keys, NEW p \in 0..n-1,
         Clear(h, cells, n, k, p),
         \A i \in 0..n-1 : Passes(cells[i], k) => Passes(more[i], k)
  PROVE  Clear(h, more, n, k, p)
<1> SUFFICES ASSUME NEW q \in 0..p-1 PROVE Passes(more[Probe(h, n, k, q)], k)
  BY DEF Clear
<1>1. n \in Nat /\ n > 3 /\ q \in Nat /\ h \in [Keys -> HashValues]
  BY DEF Table
<1>2. Probe(h, n, k, q) \in 0..n-1
  BY <1>1, ProbeIs
<1> QED
  BY <1>2 DEF Clear

\* So every key of the new table is in its place that was there before, as long
\* as what the search for it passes it still passes.
LEMMA StillSafe ==
  ASSUME NEW h, NEW cells, NEW more, NEW n, Table(h, cells, n), Safe(h, cells, n),
         NEW i \in 0..n-1, IsEntry(cells[i]), IsEntry(more[i]), more[i].key = cells[i].key,
         \A m \in 0..n-1 : Passes(cells[m], cells[i].key) => Passes(more[m], cells[i].key)
  PROVE  \E p \in 0..n-1 : Probe(h, n, more[i].key, p) = i /\ Clear(h, more, n, more[i].key, p)
<1>1. PICK p \in 0..n-1 : Probe(h, n, cells[i].key, p) = i /\ Clear(h, cells, n, cells[i].key, p)
  BY DEF Safe
<1>2. cells[i].key \in Keys
  BY CellIs DEF Table
<1>3. Clear(h, more, n, cells[i].key, p)
  BY <1>1, <1>2, StillClear
<1> QED
  BY <1>1, <1>3

\* The cell of a key that was missing is where its search ended, or where it met
\* the first tombstone: map_insert may put the key there.
LEMMA FillSafe ==
  ASSUME NEW h, NEW cells, NEW n, Table(h, cells, n), Safe(h, cells, n),
         NEW e \in Entry, NEW f, NEW s, Ends(h, cells, n, e.key, f, s), cells[s] = Null
  PROVE  Safe(h, [cells EXCEPT ![s] = e], n)
<1> DEFINE k == e.key
<1>1. PICK more : more = [cells EXCEPT ![s] = e]
  OBVIOUS
<1>2. /\ k \in Keys /\ e \in Cell /\ IsEntry(e) /\ n \in Nat /\ n > 3
      /\ h \in [Keys -> HashValues]
  <2>1. e \in Cell /\ k \in Keys
    BY DEF Entry, Cell
  <2> QED
    BY <2>1, CellIs DEF Table
<1>3. f \in 0..n-1 /\ s = Probe(h, n, k, f) /\ Clear(h, cells, n, k, f)
  BY DEF Ends
<1>4. s \in 0..n-1
  BY <1>2, <1>3, ProbeIs
<1>5. more[s] = e /\ \A m \in 0..n-1 : m # s => more[m] = cells[m]
  BY <1>1, <1>2, <1>4 DEF Table
<1>6. \A i, g : Passes(cells[i], g) => i # s
  BY DEF Passes
<1>7. ASSUME NEW g, NEW i \in 0..n-1, Passes(cells[i], g) PROVE Passes(more[i], g)
  BY <1>5, <1>6, <1>7
<1>8. ASSUME NEW i \in 0..n-1, IsEntry(more[i])
      PROVE  \E p \in 0..n-1 : /\ Probe(h, n, more[i].key, p) = i
                               /\ Clear(h, more, n, more[i].key, p)
  <2>1. CASE i = s
    <3>1. Clear(h, more, n, k, f)
      BY <1>2, <1>3, <1>7, StillClear
    <3> QED
      BY <1>3, <1>5, <2>1, <3>1
  <2>2. CASE i # s
    <3>1. more[i] = cells[i]
      BY <1>5, <2>2
    <3> QED
      BY <1>7, <1>8, <3>1, StillSafe
  <2> QED
    BY <2>1, <2>2
<1>9. Safe(h, more, n)
  BY <1>8 DEF Safe
<1> QED
  BY <1>1, <1>9

\* With a tombstone on the way, map_insert puts the key there, and a tombstone at
\* the end (maplib.c:207-212).
LEMMA SwapSafe ==
  ASSUME NEW h, NEW cells, NEW n, Table(h, cells, n), Safe(h, cells, n),
         NEW e \in Entry, NEW f, NEW s, Ends(h, cells, n, e.key, f, s), cells[s] = Null,
         NEW t \in 0..f-1, NEW m, m = Probe(h, n, e.key, t), cells[m] = Removed,
         \A q \in 0..t-1 : cells[Probe(h, n, e.key, q)] # Removed
  PROVE  Safe(h, [cells EXCEPT ![s] = Removed, ![m] = e], n)
<1> DEFINE k == e.key
<1>1. PICK more : more = [cells EXCEPT ![s] = Removed, ![m] = e]
  OBVIOUS
<1>2. /\ k \in Keys /\ IsEntry(e) /\ n \in Nat /\ n > 3 /\ h \in [Keys -> HashValues]
      /\ ~IsEntry(Removed) /\ Removed # Null /\ e # Null
  <2>1. e \in Cell /\ k \in Keys
    BY DEF Entry, Cell
  <2> QED
    BY <2>1, CellIs DEF Table
<1>3. f \in 0..n-1 /\ s = Probe(h, n, k, f) /\ Clear(h, cells, n, k, f)
  BY DEF Ends
<1>4. t \in 0..n-1
  BY <1>2, <1>3
<1>5. s \in 0..n-1 /\ m \in 0..n-1 /\ s # m
  BY <1>2, <1>3, <1>4, ProbeIs
<1>6. more[m] = e /\ more[s] = Removed /\ \A i \in 0..n-1 : i # s /\ i # m => more[i] = cells[i]
  BY <1>1, <1>5 DEF Table
<1>7. \A i, g : Passes(cells[i], g) => i # s
  BY DEF Passes
<1>8. ASSUME NEW g, g # k, NEW i \in 0..n-1, Passes(cells[i], g) PROVE Passes(more[i], g)
  <2>1. CASE i = m
    BY <1>2, <1>6, <1>8, <2>1 DEF Passes, Holds
  <2>2. CASE i # m
    BY <1>6, <1>7, <1>8, <2>2
  <2> QED
    BY <2>1, <2>2
<1>9. \A i \in 0..n-1 : ~Holds(cells[i], k)
  <2>1. ~Holds(cells[s], k)
    BY <1>2 DEF Holds, IsEntry
  <2> QED
    BY <1>2, <2>1, Missing
<1>10. ASSUME NEW i \in 0..n-1, IsEntry(more[i])
       PROVE  \E p \in 0..n-1 : /\ Probe(h, n, more[i].key, p) = i
                                /\ Clear(h, more, n, more[i].key, p)
  <2>1. CASE i = m
    <3>1. ASSUME NEW q \in 0..t-1 PROVE Passes(more[Probe(h, n, k, q)], k)
      <4>1. q \in Nat /\ q \in 0..f-1
        BY <1>2, <1>3
      <4>2. Probe(h, n, k, q) \in 0..n-1 /\ Passes(cells[Probe(h, n, k, q)], k)
        BY <1>2, <1>3, <4>1, ProbeIs DEF Clear
      <4>3. Probe(h, n, k, q) # m
        BY <3>1
      <4> QED
        BY <1>6, <1>7, <4>2, <4>3
    <3>2. Clear(h, more, n, k, t)
      BY <3>1 DEF Clear
    <3> QED
      BY <1>4, <1>6, <2>1, <3>2
  <2>2. CASE i # m
    <3>1. i # s
      BY <1>2, <1>6, <1>10
    <3>2. more[i] = cells[i]
      BY <1>6, <2>2, <3>1
    <3>3. cells[i].key # k
      BY <1>9, <1>10, <3>2 DEF Holds
    <3> QED
      BY <1>8, <1>10, <3>2, <3>3, StillSafe
  <2> QED
    BY <2>1, <2>2
<1>11. Safe(h, more, n)
  BY <1>10 DEF Safe
<1> QED
  BY <1>1, <1>11

\* A tombstone in place of an entry leaves the other keys where they are
\* (maplib.c:124-137).
LEMMA BurySafe ==
  ASSUME NEW h, NEW cells, NEW n, Table(h, cells, n), Safe(h, cells, n), NEW s \in 0..n-1
  PROVE  Safe(h, [cells EXCEPT ![s] = Removed], n)
<1>1. PICK more : more = [cells EXCEPT ![s] = Removed]
  OBVIOUS
<1>2. ~IsEntry(Removed) /\ Removed # Null /\ Removed \in Cell
  BY CellIs, MapAssumption DEF IsEntry, Cell
<1>3. more[s] = Removed /\ \A i \in 0..n-1 : i # s => more[i] = cells[i]
  BY <1>1, <1>2 DEF Table
<1>4. ASSUME NEW g, NEW i \in 0..n-1, Passes(cells[i], g) PROVE Passes(more[i], g)
  BY <1>2, <1>3, <1>4 DEF Passes, Holds
<1>5. ASSUME NEW i \in 0..n-1, IsEntry(more[i])
      PROVE  \E p \in 0..n-1 : /\ Probe(h, n, more[i].key, p) = i
                               /\ Clear(h, more, n, more[i].key, p)
  <2>1. more[i] = cells[i]
    BY <1>2, <1>3, <1>5
  <2> QED
    BY <1>4, <1>5, <2>1, StillSafe
<1>6. Safe(h, more, n)
  BY <1>5 DEF Safe
<1> QED
  BY <1>1, <1>6

\* And so does another value for the same key.
LEMMA StoreSafe ==
  ASSUME NEW h, NEW cells, NEW n, Table(h, cells, n), Safe(h, cells, n),
         NEW s \in 0..n-1, IsEntry(cells[s]), NEW e \in Entry, e.key = cells[s].key
  PROVE  Safe(h, [cells EXCEPT ![s] = e], n)
<1>1. PICK more : more = [cells EXCEPT ![s] = e]
  OBVIOUS
<1>2. e \in Cell /\ IsEntry(e) /\ e # Null
  <2>1. e \in Cell
    BY DEF Cell
  <2> QED
    BY <2>1, CellIs
<1>3. more[s] = e /\ \A i \in 0..n-1 : i # s => more[i] = cells[i]
  BY <1>1, <1>2 DEF Table
<1>4. ASSUME NEW g, NEW i \in 0..n-1, Passes(cells[i], g) PROVE Passes(more[i], g)
  BY <1>2, <1>3, <1>4 DEF Passes, Holds
<1>5. ASSUME NEW i \in 0..n-1, IsEntry(more[i])
      PROVE  \E p \in 0..n-1 : /\ Probe(h, n, more[i].key, p) = i
                               /\ Clear(h, more, n, more[i].key, p)
  <2>1. IsEntry(cells[i]) /\ more[i].key = cells[i].key
    BY <1>3, <1>5
  <2> QED
    BY <1>4, <1>5, <2>1, StillSafe
<1>6. Safe(h, more, n)
  BY <1>5 DEF Safe
<1> QED
  BY <1>1, <1>6

-----------------------------------------------------------------------------
(* The cells and the counts.                                               *)

Used(cells, n) == {i \in 0..n-1 : cells[i] # Null}
Entries(cells, n) == {i \in 0..n-1 : IsEntry(cells[i])}

\* Of the cells moved so far, those that had an entry.
Moved == {m \in 0..j-1 : IsEntry(data[m])}

\* A half-built table holds the entries moved so far, each once, and no tombstone.
Moving ==
  /\ Safe(hash, pdata, NewSize)
  /\ \A i \in 0..NewSize-1 : pdata[i] # Null => \E m \in Moved : pdata[i] = data[m]
  /\ \A m \in Moved : \E i \in 0..NewSize-1 : pdata[i] = data[m]
  /\ Cardinality(Used(pdata, NewSize)) = Cardinality(Moved)

\* The inductive invariant.
Placed ==
  /\ TypeOK
  /\ data_size >= InitSize
  /\ Safe(hash, data, data_size)
  /\ Counted
  /\ pc = "rehash" => Moving

\* The counts are numbers.
LEMMA CountIs ==
  ASSUME NEW cells, NEW n \in Nat
  PROVE  /\ IsFiniteSet(Used(cells, n)) /\ Cardinality(Used(cells, n)) \in Nat
         /\ IsFiniteSet(Entries(cells, n)) /\ Cardinality(Entries(cells, n)) \in Nat
<1>1. IsFiniteSet(0..n-1)
  BY FS_Interval
<1>2. IsFiniteSet(Used(cells, n)) /\ IsFiniteSet(Entries(cells, n))
  BY <1>1, FS_Subset DEF Used, Entries
<1> QED
  BY <1>2, FS_CardinalityType

\* One cell more, one entry more.
LEMMA FillCount ==
  ASSUME NEW cells, NEW n \in Nat, NEW s \in 0..n-1, cells \in [0..n-1 -> Cell],
         cells[s] = Null, NEW e \in Entry
  PROVE  /\ Cardinality(Used([cells EXCEPT ![s] = e], n)) = Cardinality(Used(cells, n)) + 1
         /\ Cardinality(Entries([cells EXCEPT ![s] = e], n)) = Cardinality(Entries(cells, n)) + 1
<1>1. PICK more : more = [cells EXCEPT ![s] = e]
  OBVIOUS
<1>2. IsEntry(e) /\ e # Null /\ ~IsEntry(Null)
  <2>1. e \in Cell
    BY DEF Cell
  <2> QED
    BY <2>1, CellIs
<1>3. more[s] = e /\ \A i \in 0..n-1 : i # s => more[i] = cells[i]
  BY <1>1
<1>4. Used(more, n) = Used(cells, n) \cup {s} /\ s \notin Used(cells, n)
  BY <1>2, <1>3 DEF Used
<1>5. Entries(more, n) = Entries(cells, n) \cup {s} /\ s \notin Entries(cells, n)
  BY <1>2, <1>3 DEF Entries
<1> QED
  BY <1>1, <1>4, <1>5, CountIs, FS_AddElement

\* The same when the entry takes a tombstone's place, and the tombstone the empty
\* cell's.
LEMMA SwapCount ==
  ASSUME NEW cells, NEW n \in Nat, cells \in [0..n-1 -> Cell], NEW e \in Entry,
         NEW s \in 0..n-1, cells[s] = Null, NEW m \in 0..n-1, cells[m] = Removed
  PROVE  LET more == [cells EXCEPT ![s] = Removed, ![m] = e]
         IN  /\ Cardinality(Used(more, n)) = Cardinality(Used(cells, n)) + 1
             /\ Cardinality(Entries(more, n)) = Cardinality(Entries(cells, n)) + 1
<1>1. PICK more : more = [cells EXCEPT ![s] = Removed, ![m] = e]
  OBVIOUS
<1>2. /\ IsEntry(e) /\ e # Null /\ ~IsEntry(Null) /\ ~IsEntry(Removed) /\ Removed # Null
  <2>1. e \in Cell
    BY DEF Cell
  <2> QED
    BY <2>1, CellIs
<1>3. /\ m # s /\ more[m] = e /\ more[s] = Removed
      /\ \A i \in 0..n-1 : i # s /\ i # m => more[i] = cells[i]
  BY <1>1, <1>2
<1>4. Used(more, n) = Used(cells, n) \cup {s} /\ s \notin Used(cells, n)
  BY <1>2, <1>3 DEF Used
<1>5. Entries(more, n) = Entries(cells, n) \cup {m} /\ m \notin Entries(cells, n)
  BY <1>2, <1>3 DEF Entries
<1> QED
  BY <1>1, <1>4, <1>5, CountIs, FS_AddElement

\* A tombstone in place of an entry: as many cells, one entry less.
LEMMA BuryCount ==
  ASSUME NEW cells, NEW n \in Nat, NEW s \in 0..n-1, cells \in [0..n-1 -> Cell], IsEntry(cells[s])
  PROVE  /\ Cardinality(Used([cells EXCEPT ![s] = Removed], n)) = Cardinality(Used(cells, n))
         /\ Cardinality(Entries([cells EXCEPT ![s] = Removed], n)) = Cardinality(Entries(cells, n)) - 1
<1>1. PICK more : more = [cells EXCEPT ![s] = Removed]
  OBVIOUS
<1>2. cells[s] # Null /\ ~IsEntry(Removed) /\ Removed # Null
  BY MapAssumption DEF IsEntry
<1>3. more[s] = Removed /\ \A i \in 0..n-1 : i # s => more[i] = cells[i]
  BY <1>1
<1>4. Used(more, n) = Used(cells, n)
  BY <1>2, <1>3 DEF Used
<1>5. Entries(more, n) = Entries(cells, n) \ {s} /\ s \in Entries(cells, n)
  BY <1>2, <1>3 DEF Entries
<1> QED
  BY <1>1, <1>4, <1>5, CountIs, FS_RemoveElement

\* Another value for the same key: the same counts.
LEMMA StoreCount ==
  ASSUME NEW cells, NEW n \in Nat, NEW s \in 0..n-1, cells \in [0..n-1 -> Cell],
         IsEntry(cells[s]), NEW e \in Entry
  PROVE  /\ Used([cells EXCEPT ![s] = e], n) = Used(cells, n)
         /\ Entries([cells EXCEPT ![s] = e], n) = Entries(cells, n)
<1>1. PICK more : more = [cells EXCEPT ![s] = e]
  OBVIOUS
<1>2. IsEntry(e) /\ e # Null /\ cells[s] # Null
  <2>1. e \in Cell
    BY DEF Cell
  <2> QED
    BY <2>1, CellIs DEF IsEntry
<1>3. more[s] = e /\ \A i \in 0..n-1 : i # s => more[i] = cells[i]
  BY <1>1
<1>4. Used(more, n) = Used(cells, n) /\ Entries(more, n) = Entries(cells, n)
  BY <1>2, <1>3 DEF Used, Entries
<1> QED
  BY <1>1, <1>4

-----------------------------------------------------------------------------
(* The cells and the counts are right.                                     *)

\* What the invariant says of the two tables.
LEMMA TablesAre ==
  ASSUME TypeOK, data_size >= InitSize
  PROVE  /\ Table(hash, data, data_size) /\ data_size \in Nat /\ data_size > 3
         /\ NewSize \in Nat /\ NewSize > 3 /\ NewSize >= InitSize
         /\ pc = "rehash" => Table(hash, pdata, NewSize) /\ j \in 0..data_size
<1>1. data_size \in Nat /\ data_size > 3
  BY MapAssumption DEF TypeOK
<1>2. NewSize \in Nat /\ NewSize >= data_size
  BY <1>1, MapAssumption DEF NewSize
<1>3. NewSize > 3 /\ NewSize >= InitSize
  BY <1>1, <1>2, MapAssumption
<1>4. Table(hash, data, data_size)
  BY <1>1 DEF TypeOK, Table
<1>5. pc = "rehash" => Table(hash, pdata, NewSize) /\ j \in 0..data_size
  BY <1>2, <1>3 DEF TypeOK, Table, NewSize
<1> QED
  BY <1>1, <1>2, <1>3, <1>4, <1>5

\* A search that ends, ends at a cell of the table.
LEMMA SearchIs ==
  ASSUME NEW cells, NEW n, NEW k \in Keys, Table(hash, cells, n), ~Endless(cells, n, k)
  PROVE  /\ Ends(hash, cells, n, k, First(Stops(cells, n, k)), Slot(cells, n, k))
         /\ Slot(cells, n, k) \in 0..n-1
<1>1. Ends(hash, cells, n, k, First(Stops(cells, n, k)), Slot(cells, n, k))
  BY SearchEnds
<1>2. n \in Nat /\ First(Stops(cells, n, k)) \in Nat
  BY <1>1 DEF Ends, Table
<1> QED
  BY <1>1, <1>2, ProbeIs DEF Ends, Table

\* What leaves the tables alone leaves the invariant.
LEMMA SameCells ==
  ASSUME Placed, TypeOK', UNCHANGED <<hash, table>>,
         pc' = "rehash" => pc = "rehash" /\ UNCHANGED growth
  PROVE  Placed'
<1>1. /\ hash' = hash /\ data_size' = data_size /\ data' = data /\ count' = count
      /\ stored_count' = stored_count
  BY DEF table
<1>2. (data_size >= InitSize)' /\ Safe(hash, data, data_size)' /\ Counted'
  BY <1>1 DEF Placed, Counted
<1>3. ASSUME pc' = "rehash" PROVE Moving'
  <2>1. pdata' = pdata /\ j' = j /\ Moving
    BY <1>3 DEF growth, Placed
  <2> QED
    BY <1>1, <2>1 DEF Moving, Moved, NewSize
<1> QED
  BY <1>2, <1>3 DEF Placed

\* A new table is empty (maplib.c:32-74).
LEMMA PlacedInit == Init => Placed
<1> SUFFICES ASSUME Init PROVE Placed
  OBVIOUS
<1>1. /\ hash \in [Keys -> HashValues] /\ data_size = InitSize /\ data = Empty(InitSize)
      /\ count = 0 /\ stored_count = 0 /\ pc = "idle"
  BY DEF Init
<1>2. InitSize \in Nat \ {0} /\ InitSize > 3
  BY MapAssumption
<1>3. \A i \in 0..data_size-1 : data[i] = Null
  BY <1>1 DEF Empty
<1>4. data \in [0..data_size-1 -> Cell]
  BY <1>1 DEF Empty, Cell
<1>5. TypeOK
  BY <1>1, <1>2, <1>4 DEF TypeOK
<1>6. ~IsEntry(Null)
  BY DEF IsEntry
<1>7. Safe(hash, data, data_size)
  BY <1>3, <1>6 DEF Safe
<1>8. Used(data, data_size) = {} /\ Entries(data, data_size) = {}
  BY <1>3, <1>6 DEF Used, Entries
<1>9. Counted
  BY <1>1, <1>8, FS_EmptySet DEF Counted, Used, Entries
<1> QED
  BY <1>1, <1>2, <1>5, <1>7, <1>9 DEF Placed

\* map_remove (maplib.c:124-137).
LEMMA RemovePlaced == ASSUME Placed, NEW k \in Keys, Remove(k) PROVE Placed'
<1> DEFINE n == data_size
           s == Slot(data, data_size, k)
<1>1. /\ pc = "idle" /\ ~Endless(data, n, k) /\ hash' = hash /\ data_size' = n /\ count' = count
      /\ pc' = pc /\ TypeOK /\ n >= InitSize /\ Safe(hash, data, n) /\ Counted
  BY DEF Remove, Placed
<1>2. Table(hash, data, n) /\ n \in Nat
  BY <1>1, TablesAre
<1>3. CASE Found(k)
  <2>1. data' = [data EXCEPT ![s] = Removed] /\ stored_count' = stored_count - 1
    BY <1>3 DEF Remove
  <2>2. s \in 0..n-1 /\ IsEntry(data[s])
    BY <1>1, <1>2, <1>3, SearchIs DEF Found, Holds
  <2> HIDE DEF s
  <2>3. data \in [0..n-1 -> Cell] /\ Removed \in Cell
    BY <1>2 DEF Table, Cell
  <2>4. data' \in [0..n-1 -> Cell]
    BY <2>1, <2>2, <2>3
  <2>5. Safe(hash, data', n)
    BY <1>1, <1>2, <2>1, <2>2, BurySafe
  <2>6. /\ Cardinality(Used(data', n)) = Cardinality(Used(data, n))
        /\ Cardinality(Entries(data', n)) = Cardinality(Entries(data, n)) - 1
    BY <1>2, <2>1, <2>2, <2>3, BuryCount
  <2>7. count = Cardinality(Used(data, n)) /\ stored_count = Cardinality(Entries(data, n))
    BY <1>1 DEF Counted, Used, Entries
  <2>8. count' = Cardinality(Used(data', n)) /\ stored_count' = Cardinality(Entries(data', n))
    BY <1>1, <2>1, <2>6, <2>7
  <2>9. Counted'
    BY <1>1, <2>8 DEF Counted, Used, Entries
  <2>10. stored_count' \in Nat
    BY <1>2, <2>8, CountIs
  <2>11. TypeOK'
    BY <1>1, <2>4, <2>10 DEF TypeOK
  <2> QED
    BY <1>1, <2>5, <2>9, <2>11 DEF Placed
<1>4. CASE ~Found(k)
  <2>1. UNCHANGED <<hash, table>> /\ pc' = pc /\ arg' = arg
    BY <1>4 DEF Remove, table
  <2>2. TypeOK'
    BY <1>1, <2>1 DEF TypeOK, table
  <2> QED
    BY <1>1, <2>1, <2>2, SameCells
<1> QED
  BY <1>3, <1>4

\* A value stored through map_find's pointer.
LEMMA AssignPlaced == ASSUME Placed, NEW k \in Keys, NEW v \in Vals, Assign(k, v) PROVE Placed'
<1> DEFINE n == data_size
           s == Slot(data, data_size, k)
           e == [data[s] EXCEPT !.val = v]
<1>1. /\ pc = "idle" /\ ~Endless(data, n, k) /\ Found(k) /\ hash' = hash /\ data_size' = n
      /\ count' = count /\ stored_count' = stored_count /\ pc' = pc
      /\ TypeOK /\ n >= InitSize /\ Safe(hash, data, n) /\ Counted
      /\ data' = [data EXCEPT ![s] = e]
  BY DEF Assign, Placed
<1>2. Table(hash, data, n) /\ n \in Nat
  BY <1>1, TablesAre
<1>3. s \in 0..n-1 /\ IsEntry(data[s])
  BY <1>1, <1>2, SearchIs DEF Found, Holds
<1>4. data \in [0..n-1 -> Cell] /\ data[s] \in Entry
  BY <1>2, <1>3, CellIs DEF Table
<1>5. e \in Entry /\ e.key = data[s].key
  BY <1>4 DEF Entry
<1> HIDE DEF s, e
<1>6. data' \in [0..n-1 -> Cell]
  BY <1>1, <1>3, <1>4, <1>5 DEF Cell
<1>7. Safe(hash, data', n)
  BY <1>1, <1>2, <1>3, <1>5, StoreSafe
<1>8. Used(data', n) = Used(data, n) /\ Entries(data', n) = Entries(data, n)
  BY <1>1, <1>2, <1>3, <1>4, <1>5, StoreCount
<1>9. Counted'
  BY <1>1, <1>8 DEF Counted, Used, Entries
<1>10. TypeOK'
  BY <1>1, <1>6 DEF TypeOK
<1> QED
  BY <1>1, <1>7, <1>9, <1>10 DEF Placed

\* map_insert as far as the allocation of a larger table: nothing has been moved.
LEMMA InsertPlaced == ASSUME Placed, NEW k \in Keys, NEW v \in Vals, Insert(k, v) PROVE Placed'
<1>1. /\ UNCHANGED <<hash, table>> /\ arg' \in Entry /\ pc = "idle" /\ TypeOK
      /\ hash' = hash /\ data_size' = data_size /\ data' = data /\ count' = count
      /\ stored_count' = stored_count
  BY DEF Insert, table, Entry, Placed
<1>2. CASE pc' = "insert"
  <2>1. TypeOK'
    BY <1>1, <1>2 DEF TypeOK
  <2> QED
    BY <1>1, <1>2, <2>1, SameCells
<1>3. CASE pc' = "rehash" /\ pdata' = Empty(data_size * ResizeFactor) /\ j' = 0
  <2>1. /\ NewSize \in Nat /\ data_size \in Nat /\ NewSize' = NewSize
        /\ \A i \in 0..NewSize-1 : pdata'[i] = Null
        /\ pdata' \in [0..data_size*ResizeFactor-1 -> Cell]
    BY <1>1, <1>3, TablesAre DEF Empty, NewSize, Cell, Placed
  <2>2. TypeOK'
    BY <1>1, <1>3, <2>1 DEF TypeOK
  <2>3. ~IsEntry(Null)
    BY DEF IsEntry
  <2>4. Safe(hash, pdata', NewSize)
    BY <2>1, <2>3 DEF Safe
  <2>5. Used(pdata', NewSize) = {}
    BY <2>1 DEF Used
  <2>6. Moved' = {}
    BY <1>3 DEF Moved
  <2>7. Moving'
    BY <1>1, <2>1, <2>4, <2>5, <2>6 DEF Moving
  <2>8. (data_size >= InitSize)' /\ Safe(hash, data, data_size)' /\ Counted'
    BY <1>1 DEF Placed, Counted
  <2> QED
    BY <1>3, <2>2, <2>7, <2>8 DEF Placed
<1> QED
  BY <1>2, <1>3 DEF Insert

\* map_rehash moves a cell (maplib.c:145-154).
LEMMA MovePlaced == ASSUME Placed, RehashMove PROVE Placed'
<1> DEFINE n == NewSize
           e == data[j]
           s == Slot(pdata, n, e.key)
<1>1. /\ pc = "rehash" /\ j < data_size /\ j' = j + 1 /\ pc' = pc /\ hash' = hash /\ arg' = arg
      /\ data_size' = data_size /\ data' = data /\ count' = count /\ stored_count' = stored_count
      /\ NewSize' = NewSize /\ TypeOK /\ data_size >= InitSize /\ Moving
      /\ Safe(hash, data, data_size)
  BY DEF RehashMove, table, Placed, NewSize
<1>2. /\ Table(hash, data, data_size) /\ Table(hash, pdata, n) /\ n \in Nat /\ data_size \in Nat
      /\ j \in 0..data_size-1 /\ j \in Nat /\ n = data_size * ResizeFactor
  BY <1>1, TablesAre DEF NewSize
<1>3. (data_size >= InitSize)' /\ Safe(hash, data, data_size)' /\ Counted'
  BY <1>1 DEF Placed, Counted
<1>4. IsFiniteSet(Moved)
  <2>1. IsFiniteSet(0..j-1)
    BY <1>2, FS_Interval
  <2> QED
    BY <2>1, FS_Subset DEF Moved
<1>5. CASE ~IsEntry(e)
  <2>1. pdata' = pdata
    BY <1>5 DEF RehashMove
  <2>2. Moved' = Moved
    BY <1>1, <1>2, <1>5 DEF Moved
  <2>3. Moving'
    BY <1>1, <2>1, <2>2 DEF Moving
  <2>4. TypeOK'
    BY <1>1, <1>2, <2>1 DEF TypeOK
  <2> QED
    BY <1>3, <2>3, <2>4 DEF Placed
<1>6. CASE IsEntry(e)
  <2>1. pdata' = [pdata EXCEPT ![s] = e] /\ ~Endless(pdata, n, e.key)
    BY <1>6 DEF RehashMove
  <2>2. e \in Entry /\ e.key \in Keys /\ e \in Cell /\ e # Null
    BY <1>2, <1>6, CellIs DEF Table
  <2>3. s \in 0..n-1 /\ Ends(hash, pdata, n, e.key, First(Stops(pdata, n, e.key)), s)
    BY <1>2, <2>1, <2>2, SearchIs
  <2>4. ASSUME NEW i \in 0..n-1 PROVE ~Holds(pdata[i], e.key)
    <3>1. SUFFICES ASSUME Holds(pdata[i], e.key) PROVE FALSE
      OBVIOUS
    <3>2. pdata[i] # Null
      BY <3>1 DEF Holds, IsEntry
    <3>3. PICK m \in Moved : pdata[i] = data[m]
      BY <1>1, <3>2 DEF Moving
    <3>4. m \in 0..data_size-1 /\ m # j /\ Holds(data[m], e.key) /\ Holds(data[j], e.key)
      BY <1>2, <1>6, <3>1, <3>3 DEF Moved, Holds
    <3> QED
      BY <1>1, <1>2, <2>2, <3>4, OneCell
  <2>5. pdata[s] = Null
    BY <2>3, <2>4 DEF Ends
  <2> HIDE DEF s
  <2>6. pdata \in [0..n-1 -> Cell]
    BY <1>2 DEF Table
  <2>7. pdata' \in [0..n-1 -> Cell] /\ pdata'[s] = e
        /\ \A i \in 0..n-1 : i # s => pdata'[i] = pdata[i]
    <3> HIDE DEF e, n
    <3> QED
      BY <2>1, <2>2, <2>3, <2>6
  <2>8. Safe(hash, pdata', n)
    <3> HIDE DEF e, n
    <3> QED
      BY <1>1, <1>2, <2>1, <2>2, <2>3, <2>5, FillSafe DEF Moving, n
  <2>9. Cardinality(Used(pdata', n)) = Cardinality(Used(pdata, n)) + 1
    BY <1>2, <2>1, <2>2, <2>3, <2>5, <2>6, FillCount
  <2>10. Moved' = Moved \cup {j} /\ j \notin Moved
    BY <1>1, <1>2, <1>6 DEF Moved
  <2>11. Cardinality(Moved') = Cardinality(Moved) + 1
    BY <1>4, <2>10, FS_AddElement
  <2>12. \A i \in 0..n-1 : pdata'[i] # Null => \E m \in Moved' : pdata'[i] = data[m]
    BY <1>1, <2>7, <2>10 DEF Moving
  <2>13. \A m \in Moved' : \E i \in 0..n-1 : pdata'[i] = data[m]
    <3>1. ASSUME NEW m \in Moved PROVE \E i \in 0..n-1 : pdata'[i] = data[m]
      <4>1. PICK i \in 0..n-1 : pdata[i] = data[m]
        BY <1>1 DEF Moving
      <4>2. i # s
        BY <2>5, <4>1 DEF Moved, IsEntry
      <4> QED
        BY <2>7, <4>1, <4>2
    <3> QED
      BY <2>3, <2>7, <2>10, <3>1
  <2>14. Moving'
    BY <1>1, <2>8, <2>9, <2>11, <2>12, <2>13 DEF Moving
  <2>15. TypeOK'
    BY <1>1, <1>2, <2>7 DEF TypeOK
  <2> QED
    BY <1>3, <2>14, <2>15 DEF Placed
<1> QED
  BY <1>5, <1>6

\* And puts the larger table in place of the other (maplib.c:155-160).
LEMMA RehashEndPlaced == ASSUME Placed, RehashEnd PROVE Placed'
<1>1. /\ pc = "rehash" /\ j = data_size /\ hash' = hash /\ data_size' = NewSize /\ data' = pdata
      /\ count' = stored_count /\ stored_count' = stored_count /\ pc' = "insert" /\ arg' = arg
      /\ TypeOK /\ data_size >= InitSize /\ Moving /\ Counted
  BY DEF RehashEnd, Placed
<1>2. Table(hash, pdata, NewSize) /\ NewSize \in Nat /\ NewSize > 3 /\ NewSize >= InitSize
  BY <1>1, TablesAre
<1>3. TypeOK'
  BY <1>1, <1>2 DEF TypeOK, Table
<1>4. Moved = Entries(data, data_size)
  BY <1>1 DEF Moved, Entries
<1>5. Entries(pdata, NewSize) = Used(pdata, NewSize)
  BY <1>1, MapAssumption DEF Entries, Used, Moving, Moved, IsEntry
<1>6. /\ stored_count = Cardinality(Used(pdata, NewSize))
      /\ stored_count = Cardinality(Entries(pdata, NewSize))
  BY <1>1, <1>4, <1>5 DEF Counted, Moving, Entries
<1>7. Counted'
  BY <1>1, <1>6 DEF Counted, Used, Entries
<1> QED
  BY <1>1, <1>2, <1>3, <1>7 DEF Placed, Moving

\* Where map_insert puts a key that is not there: at the end of its search, or at
\* the first tombstone on the way, which goes to the end (maplib.c:196-214).
LEMMA PlaceIs ==
  ASSUME Placed, pc = "insert", ~Endless(data, data_size, arg.key), ~Found(arg.key), Place(arg)
  PROVE  \E s, m \in 0..data_size-1 :
           /\ data[s] = Null
           /\ \/ m = s /\ data' = [data EXCEPT ![s] = arg]
              \/ data[m] = Removed /\ data' = [data EXCEPT ![s] = Removed, ![m] = arg]
           /\ Safe(hash, data', data_size)
           /\ data' \in [0..data_size-1 -> Cell]
           /\ data'[m] = arg /\ (s # m => data'[s] = Removed)
           /\ \A i \in 0..data_size-1 : i # s /\ i # m => data'[i] = data[i]
           /\ Cardinality(Used(data', data_size)) = Cardinality(Used(data, data_size)) + 1
           /\ Cardinality(Entries(data', data_size)) = Cardinality(Entries(data, data_size)) + 1
<1> DEFINE n == data_size
           k == arg.key
           s == Slot(data, n, k)
           f == First(Stops(data, n, k))
<1>1. TypeOK /\ n >= InitSize /\ Safe(hash, data, n) /\ arg \in Entry /\ k \in Keys
  BY DEF Placed, TypeOK, Entry
<1>2. /\ Table(hash, data, n) /\ n \in Nat /\ n > 3 /\ data \in [0..n-1 -> Cell]
      /\ hash \in [Keys -> HashValues] /\ arg \in Cell /\ Removed \in Cell /\ Null # Removed
  BY <1>1, TablesAre, MapAssumption DEF Table, Cell
<1>3. s \in 0..n-1 /\ Ends(hash, data, n, k, f, s)
  BY <1>1, <1>2, SearchIs
<1>4. data[s] = Null
  BY <1>3 DEF Found, Ends
<1> HIDE DEF s, f
<1>5. CASE Tombs(k) = {}
  <2>1. data' = [data EXCEPT ![s] = arg]
    BY <1>5 DEF Place, s
  <2>2. /\ data' \in [0..n-1 -> Cell] /\ data'[s] = arg
        /\ \A i \in 0..n-1 : i # s => data'[i] = data[i]
    BY <1>2, <1>3, <2>1
  <2>3. Safe(hash, data', n)
    BY <1>1, <1>2, <1>3, <1>4, <2>1, FillSafe
  <2>4. /\ Cardinality(Used(data', n)) = Cardinality(Used(data, n)) + 1
        /\ Cardinality(Entries(data', n)) = Cardinality(Entries(data, n)) + 1
    BY <1>1, <1>2, <1>3, <1>4, <2>1, FillCount
  <2> QED
    BY <1>3, <1>4, <2>1, <2>2, <2>3, <2>4
<1>6. CASE Tombs(k) # {}
  <2> DEFINE t == First(Tombs(k))
             m == Probe(hash, n, k, t)
  <2>1. f \in 0..n-1
    BY <1>3 DEF Ends
  <2>2. Tombs(k) = {p \in 0..n-1 : p < f /\ data[Probe(hash, n, k, p)] = Removed}
    BY DEF Tombs, Probe, f
  <2>3. Tombs(k) \in SUBSET Nat
    BY <1>2, <2>2
  <2>4. t \in Tombs(k) /\ \A q \in Tombs(k) : t <= q
    BY <1>6, <2>3, FirstIs
  <2> HIDE DEF t
  <2>5. t \in 0..f-1 /\ t \in Nat /\ data[m] = Removed
    BY <1>2, <2>1, <2>2, <2>4
  <2>6. ASSUME NEW q \in 0..t-1 PROVE data[Probe(hash, n, k, q)] # Removed
    <3>1. q \in 0..n-1 /\ q < f /\ ~(t <= q)
      BY <1>2, <2>1, <2>5
    <3> QED
      BY <2>2, <2>4, <3>1
  <2>7. m \in 0..n-1
    BY <1>1, <1>2, <2>5, ProbeIs
  <2>8. data' = [data EXCEPT ![s] = Removed, ![m] = arg]
    BY <1>6 DEF Place, Probe, s, t
  <2>9. Safe(hash, data', n)
    <3> HIDE DEF m
    <3>1. m = Probe(hash, n, k, t)
      BY DEF m
    <3> QED
      BY <1>1, <1>2, <1>3, <1>4, <2>5, <2>6, <2>8, <3>1, SwapSafe
  <2> HIDE DEF m
  <2>10. /\ Cardinality(Used(data', n)) = Cardinality(Used(data, n)) + 1
         /\ Cardinality(Entries(data', n)) = Cardinality(Entries(data, n)) + 1
    BY <1>1, <1>2, <1>3, <1>4, <2>5, <2>7, <2>8, SwapCount
  <2>11. /\ data' \in [0..n-1 -> Cell] /\ data'[m] = arg /\ data'[s] = Removed
         /\ \A i \in 0..n-1 : i # s /\ i # m => data'[i] = data[i]
    BY <1>2, <1>3, <1>4, <2>5, <2>7, <2>8
  <2> QED
    BY <1>3, <1>4, <2>5, <2>7, <2>8, <2>9, <2>10, <2>11
<1> QED
  BY <1>5, <1>6

\* The end of map_insert.
LEMMA InsertEndPlaced ==
  ASSUME Placed, "entry" \notin AllocFails, InsertEnd
  PROVE  Placed'
<1>1. /\ pc = "insert" /\ ~Endless(data, data_size, arg.key) /\ pc' = "idle" /\ hash' = hash
      /\ UNCHANGED growth /\ TypeOK /\ data_size >= InitSize
  BY DEF InsertEnd, Placed
<1>2. CASE Found(arg.key)
  <2>1. UNCHANGED table
    BY <1>2 DEF InsertEnd
  <2>2. TypeOK'
    BY <1>1, <2>1 DEF TypeOK, table
  <2> QED
    BY <1>1, <2>1, <2>2, SameCells
<1>3. CASE ~Found(arg.key)
  <2>1. /\ Place(arg) /\ count' = count + 1 /\ stored_count' = stored_count + 1
        /\ data_size' = data_size
    BY <1>3 DEF InsertEnd
  <2>2. /\ Safe(hash, data', data_size) /\ data' \in [0..data_size-1 -> Cell]
        /\ Cardinality(Used(data', data_size)) = Cardinality(Used(data, data_size)) + 1
        /\ Cardinality(Entries(data', data_size)) = Cardinality(Entries(data, data_size)) + 1
    BY <1>1, <1>3, <2>1, PlaceIs
  <2>3. /\ count = Cardinality(Used(data, data_size))
        /\ stored_count = Cardinality(Entries(data, data_size))
    BY DEF Placed, Counted, Used, Entries
  <2>4. Counted'
    BY <1>1, <2>1, <2>2, <2>3 DEF Counted, Used, Entries
  <2>5. TypeOK'
    BY <1>1, <2>1, <2>2 DEF TypeOK
  <2> QED
    BY <1>1, <2>1, <2>2, <2>4, <2>5 DEF Placed
<1> QED
  BY <1>2, <1>3

\* Every operation keeps the cells and the counts right.
LEMMA PlacedNext ==
  ASSUME "entry" \notin AllocFails, Placed, [Next]_vars
  PROVE  Placed'
<1>1. ASSUME UNCHANGED <<hash, table, growth>>, TypeOK', pc' = "rehash" => pc = "rehash"
      PROVE  Placed'
  BY <1>1, SameCells
<1>2. TypeOK
  BY DEF Placed
<1>3. ASSUME NEW k \in Keys, Find(k) PROVE Placed'
  BY <1>1, <1>2, <1>3 DEF Find, TypeOK, table, growth
<1>4. ASSUME NEW k \in Keys, NEW v \in Vals, InsertNoTable(k, v) PROVE Placed'
  BY <1>1, <1>2, <1>4 DEF InsertNoTable, TypeOK, table, growth
<1>5. CASE Hang \/ Destroy \/ UNCHANGED vars
  BY <1>1, <1>2, <1>5 DEF Hang, Destroy, vars, TypeOK, table, growth
<1> QED
  BY <1>3, <1>4, <1>5, RemovePlaced, AssignPlaced, InsertPlaced, MovePlaced, RehashEndPlaced,
     InsertEndPlaced DEF Next

\* The invariant holds as long as every entry gets its memory.
LEMMA PlacedHolds == ASSUME "entry" \notin AllocFails PROVE Spec => []Placed
  BY PlacedInit, PlacedNext, PTL DEF Spec

\* Whatever was inserted and removed before, each key is where its search ends and
\* the counts are those of the cells, as long as every entry gets its memory
\* (maplib.c:94-160, :180-217).
THEOREM CellsAreRight == ASSUME "entry" \notin AllocFails PROVE Spec => []CellsRight
<1>1. Placed => CellsRight
  <2> SUFFICES ASSUME Placed PROVE CellsRight
    OBVIOUS
  <2>1. TypeOK /\ data_size >= InitSize /\ Counted /\ Safe(hash, data, data_size)
        /\ (pc = "rehash" => Safe(hash, pdata, NewSize))
    BY DEF Placed, Moving
  <2>2. Reaches(data, data_size) /\ (pc = "rehash" => Reaches(pdata, NewSize))
    BY <2>1, TablesAre, SafeReaches
  <2> QED
    BY <2>1, <2>2 DEF CellsRight, Findable
<1> QED
  BY <1>1, PlacedHolds, PTL

-----------------------------------------------------------------------------
(* The table is a dictionary.                                              *)

\* What a table holds, as a dictionary.
DictOf(cells, n) == [k \in Keys |-> IF \E i \in 0..n-1 : Holds(cells[i], k)
                                    THEN cells[CHOOSE i \in 0..n-1 : Holds(cells[i], k)].val
                                    ELSE Absent]

\* The value of a key is the one in its cell.
LEMMA DictIs ==
  ASSUME NEW h, NEW cells, NEW n, Table(h, cells, n), Safe(h, cells, n), NEW k \in Keys
  PROVE  /\ \A i \in 0..n-1 : Holds(cells[i], k) => DictOf(cells, n)[k] = cells[i].val
         /\ (\A i \in 0..n-1 : ~Holds(cells[i], k)) => DictOf(cells, n)[k] = Absent
<1>1. DictOf(cells, n)[k] = IF \E i \in 0..n-1 : Holds(cells[i], k)
                            THEN cells[CHOOSE i \in 0..n-1 : Holds(cells[i], k)].val
                            ELSE Absent
  BY DEF DictOf
<1>2. ASSUME NEW i \in 0..n-1, Holds(cells[i], k)
      PROVE  (CHOOSE m \in 0..n-1 : Holds(cells[m], k)) = i
  <2> DEFINE m == CHOOSE m \in 0..n-1 : Holds(cells[m], k)
  <2>1. m \in 0..n-1 /\ Holds(cells[m], k)
    BY <1>2
  <2> HIDE DEF m
  <2>2. m = i
    BY <1>2, <2>1, OneCell
  <2> QED
    BY <2>2 DEF m
<1> QED
  BY <1>1, <1>2

\* A key is found where there is one, and nothing else is.
LEMMA FoundIs ==
  ASSUME Placed, NEW k \in Keys, ~Endless(data, data_size, k)
  PROVE  /\ Slot(data, data_size, k) \in 0..data_size-1
         /\ Found(k) <=> dict[k] # Absent
         /\ Found(k) => data[Slot(data, data_size, k)] \in Entry
                        /\ dict[k] = data[Slot(data, data_size, k)].val
         /\ ~Found(k) => \A i \in 0..data_size-1 : ~Holds(data[i], k)
<1> DEFINE n == data_size
           s == Slot(data, n, k)
<1>1. Table(hash, data, n) /\ Safe(hash, data, n)
  BY TablesAre DEF Placed
<1>2. s \in 0..n-1 /\ Ends(hash, data, n, k, First(Stops(data, n, k)), s)
  BY <1>1, SearchIs
<1>3. dict = DictOf(data, n)
  BY DEF dict, DictOf
<1> HIDE DEF s
<1>4. CASE Found(k)
  <2>1. Holds(data[s], k)
    BY <1>4 DEF Found, s
  <2>2. data[s] \in Entry /\ data[s].val \in Vals
    BY <1>1, <1>2, <2>1, CellIs DEF Table, Holds
  <2>3. dict[k] = data[s].val
    BY <1>1, <1>2, <1>3, <2>1, DictIs
  <2>4. dict[k] # Absent
    BY <2>2, <2>3, MapAssumption
  <2> QED
    BY <1>2, <1>4, <2>2, <2>3, <2>4 DEF s
<1>5. CASE ~Found(k)
  <2>1. ~Holds(data[s], k)
    BY <1>5 DEF Found, s
  <2>2. \A i \in 0..n-1 : ~Holds(data[i], k)
    BY <1>1, <1>2, <2>1, Missing
  <2>3. dict[k] = Absent
    BY <1>1, <1>3, <2>2, DictIs
  <2> QED
    BY <1>2, <1>5, <2>2, <2>3 DEF s
<1> QED
  BY <1>4, <1>5

\* Two tables that differ in what they hold for one key only stand for
\* dictionaries that do.
LEMMA DictOther ==
  ASSUME NEW h, NEW cells, NEW n, Table(h, cells, n), Safe(h, cells, n),
         NEW more, NEW size, Table(h, more, size), Safe(h, more, size), NEW k,
         \A i \in 0..n-1 : IsEntry(cells[i]) /\ cells[i].key # k =>
            \E m \in 0..size-1 : more[m] = cells[i],
         \A m \in 0..size-1 : IsEntry(more[m]) /\ more[m].key # k =>
            \E i \in 0..n-1 : cells[i] = more[m]
  PROVE  \A g \in Keys : g # k => DictOf(more, size)[g] = DictOf(cells, n)[g]
<1> SUFFICES ASSUME NEW g \in Keys, g # k PROVE DictOf(more, size)[g] = DictOf(cells, n)[g]
  OBVIOUS
<1>1. CASE \E i \in 0..n-1 : Holds(cells[i], g)
  <2>1. PICK i \in 0..n-1 : Holds(cells[i], g)
    BY <1>1
  <2>2. PICK m \in 0..size-1 : more[m] = cells[i]
    BY <2>1 DEF Holds
  <2>3. Holds(more[m], g)
    BY <2>1, <2>2
  <2>4. DictOf(cells, n)[g] = cells[i].val
    BY <2>1, DictIs
  <2>5. DictOf(more, size)[g] = more[m].val
    BY <2>3, DictIs
  <2> QED
    BY <2>2, <2>4, <2>5
<1>2. CASE \A i \in 0..n-1 : ~Holds(cells[i], g)
  <2>1. \A m \in 0..size-1 : ~Holds(more[m], g)
    BY <1>2 DEF Holds
  <2>2. DictOf(cells, n)[g] = Absent
    BY <1>2, DictIs
  <2>3. DictOf(more, size)[g] = Absent
    BY <2>1, DictIs
  <2> QED
    BY <2>2, <2>3
<1> QED
  BY <1>1, <1>2

\* The same, as one dictionary made from the other.
LEMMA DictExcept ==
  ASSUME NEW f \in [Keys -> Vals \cup {Absent}], NEW g \in [Keys -> Vals \cup {Absent}],
         NEW k \in Keys, \A i \in Keys : i # k => g[i] = f[i]
  PROVE  g = [f EXCEPT ![k] = g[k]]
  OBVIOUS

\* A dictionary has values for its keys.
LEMMA DictType ==
  ASSUME NEW h, NEW cells, NEW n, Table(h, cells, n), Safe(h, cells, n)
  PROVE  DictOf(cells, n) \in [Keys -> Vals \cup {Absent}]
<1>1. DictOf(cells, n) = [k \in Keys |-> DictOf(cells, n)[k]]
  BY DEF DictOf
<1>2. ASSUME NEW k \in Keys PROVE DictOf(cells, n)[k] \in Vals \cup {Absent}
  <2>1. CASE \E i \in 0..n-1 : Holds(cells[i], k)
    <3>1. PICK i \in 0..n-1 : Holds(cells[i], k)
      BY <2>1
    <3>2. DictOf(cells, n)[k] = cells[i].val /\ cells[i].val \in Vals
      BY <3>1, DictIs, CellIs DEF Table, Holds
    <3> QED
      BY <3>2
  <2>2. CASE \A i \in 0..n-1 : ~Holds(cells[i], k)
    BY <2>2, DictIs
  <2> QED
    BY <2>1, <2>2
<1> QED
  BY <1>1, <1>2

\* A new table is the empty dictionary.
LEMMA DictInit == Init => Map!Init
<1> SUFFICES ASSUME Init PROVE Map!Init
  OBVIOUS
<1>1. data = Empty(InitSize) /\ data_size = InitSize /\ answer = Reply("none", Absent, FALSE, Absent)
  BY DEF Init
<1>2. \A i \in 0..data_size-1 : data[i] = Null
  BY <1>1, MapAssumption DEF Empty
<1>3. \A k \in Keys, i \in 0..data_size-1 : ~Holds(data[i], k)
  BY <1>2 DEF Holds, IsEntry
<1>4. dict = [k \in Keys |-> Absent]
  BY <1>3 DEF dict
<1> QED
  BY <1>1, <1>4 DEF Map!Init, Map!Reply, Reply

\* As a value: what map_find and map_remove return.
LEMMA FoundTells ==
  ASSUME Placed, NEW k \in Keys, ~Endless(data, data_size, k)
  PROVE  Found(k) = (dict[k] # Absent)
<1>1. Found(k) <=> dict[k] # Absent
  BY FoundIs
<1>2. Found(k) \in BOOLEAN
  BY DEF Found, Holds
<1> QED
  BY <1>1, <1>2, Zenon

\* map_find (maplib.c:111-121).
LEMMA DictFind == ASSUME Placed, NEW k \in Keys, Find(k) PROVE Map!Find(k)
<1>1. /\ ~Endless(data, data_size, k) /\ UNCHANGED dict
      /\ answer' = Reply("find", k, Found(k),
                         IF Found(k) THEN data[Slot(data, data_size, k)].val ELSE Absent)
  BY DEF Find, table, dict
<1>2. answer' = Reply("find", k, dict[k] # Absent, dict[k])
  <2>1. Found(k) = (dict[k] # Absent)
    BY <1>1, FoundTells
  <2>2. dict[k] = IF Found(k) THEN data[Slot(data, data_size, k)].val ELSE Absent
    BY <1>1, FoundIs
  <2> QED
    BY <1>1, <2>1, <2>2 DEF Reply
<1> QED
  BY <1>1, <1>2 DEF Map!Find, Map!Reply, Reply

\* map_remove.
LEMMA DictRemove == ASSUME Placed, Placed', NEW k \in Keys, Remove(k) PROVE Map!Remove(k)
<1> DEFINE n == data_size
           s == Slot(data, n, k)
<1>1. ~Endless(data, n, k) /\ answer' = Reply("remove", k, Found(k), Absent) /\ data_size' = n
      /\ hash' = hash
  BY DEF Remove
<1>2. answer' = Map!Reply("remove", k, dict[k] # Absent, Absent)
  <2>1. Found(k) = (dict[k] # Absent)
    BY <1>1, FoundTells
  <2> QED
    BY <1>1, <2>1 DEF Map!Reply, Reply
<1>3. Table(hash, data, n) /\ Safe(hash, data, n) /\ Table(hash, data', n) /\ Safe(hash, data', n)
  <2>1. Table(hash, data, n) /\ Safe(hash, data, n)
    BY TablesAre DEF Placed
  <2>2. data' \in [0..n-1 -> Cell] /\ Safe(hash, data', n)
    BY <1>1 DEF Placed, TypeOK
  <2> QED
    BY <2>1, <2>2 DEF Table
<1>4. /\ dict = DictOf(data, n) /\ dict' = DictOf(data', n)
      /\ dict \in [Keys -> Vals \cup {Absent}] /\ dict' \in [Keys -> Vals \cup {Absent}]
  <2>1. dict = DictOf(data, n) /\ dict' = DictOf(data', n)
    BY <1>1 DEF dict, DictOf
  <2> QED
    BY <1>3, <2>1, DictType
<1>5. dict' = [dict EXCEPT ![k] = Absent]
  <2>1. CASE Found(k)
    <3>1. s \in 0..n-1 /\ data[s] \in Entry /\ Holds(data[s], k) /\ data' = [data EXCEPT ![s] = Removed]
      BY <1>1, <2>1, FoundIs DEF Found, Remove
    <3> HIDE DEF s
    <3>2. data'[s] = Removed /\ ~IsEntry(Removed) /\ \A i \in 0..n-1 : i # s => data'[i] = data[i]
      BY <1>3, <3>1, MapAssumption DEF Table, IsEntry
    <3>3. ASSUME NEW i \in 0..n-1 PROVE ~Holds(data'[i], k)
      <4>1. CASE i = s
        BY <3>2, <4>1 DEF Holds
      <4>2. CASE i # s
        <5>1. ~Holds(data[i], k)
          BY <1>3, <3>1, <4>2, OneCell
        <5> QED
          BY <3>2, <4>2, <5>1
      <4> QED
        BY <4>1, <4>2
    <3>4. dict'[k] = Absent
      BY <1>3, <1>4, <3>3, DictIs
    <3>5. \A g \in Keys : g # k => dict'[g] = dict[g]
      <4>1. \A i \in 0..n-1 : IsEntry(data[i]) /\ data[i].key # k => \E m \in 0..n-1 : data'[m] = data[i]
        BY <3>1, <3>2 DEF Holds
      <4>2. \A i \in 0..n-1 : IsEntry(data'[i]) /\ data'[i].key # k => \E m \in 0..n-1 : data[m] = data'[i]
        BY <3>2
      <4> QED
        BY <1>3, <1>4, <4>1, <4>2, DictOther
    <3> QED
      BY <1>4, <3>4, <3>5, DictExcept
  <2>2. CASE ~Found(k)
    <3>1. data' = data /\ dict[k] = Absent
      BY <1>1, <2>2, FoundIs DEF Remove
    <3>2. dict' = dict
      BY <1>4, <3>1
    <3> QED
      BY <1>4, <3>1, <3>2
  <2> QED
    BY <2>1, <2>2
<1> QED
  BY <1>2, <1>5 DEF Map!Remove

\* A value stored through map_find's pointer.
LEMMA DictAssign ==
  ASSUME Placed, Placed', NEW k \in Keys, NEW v \in Vals, Assign(k, v)
  PROVE  Map!Assign(k, v)
<1> DEFINE n == data_size
           s == Slot(data, n, k)
           e == [data[s] EXCEPT !.val = v]
<1>1. ~Endless(data, n, k) /\ Found(k) /\ answer' = Map!Reply("assign", k, TRUE, v)
      /\ data_size' = n /\ hash' = hash /\ data' = [data EXCEPT ![s] = e]
  BY DEF Assign, Map!Reply, Reply
<1>2. s \in 0..n-1 /\ data[s] \in Entry /\ Holds(data[s], k) /\ dict[k] # Absent
  BY <1>1, FoundIs DEF Found
<1>3. Table(hash, data, n) /\ Safe(hash, data, n) /\ Table(hash, data', n) /\ Safe(hash, data', n)
  <2>1. Table(hash, data, n) /\ Safe(hash, data, n)
    BY TablesAre DEF Placed
  <2>2. data' \in [0..n-1 -> Cell] /\ Safe(hash, data', n)
    BY <1>1 DEF Placed, TypeOK
  <2> QED
    BY <2>1, <2>2 DEF Table
<1>4. /\ dict = DictOf(data, n) /\ dict' = DictOf(data', n)
      /\ dict \in [Keys -> Vals \cup {Absent}] /\ dict' \in [Keys -> Vals \cup {Absent}]
  <2>1. dict = DictOf(data, n) /\ dict' = DictOf(data', n)
    BY <1>1 DEF dict, DictOf
  <2> QED
    BY <1>3, <2>1, DictType
<1>5. e \in Entry /\ e.key = k /\ e.val = v /\ IsEntry(e)
  <2>1. e \in Entry /\ e.key = data[s].key /\ e.val = v
    BY <1>2 DEF Entry
  <2>2. e \in Cell
    BY <2>1 DEF Cell
  <2>3. IsEntry(e)
    BY <2>1, <2>2, CellIs
  <2> QED
    BY <1>2, <2>1, <2>3 DEF Holds
<1> HIDE DEF s, e
<1>6. data'[s] = e /\ \A i \in 0..n-1 : i # s => data'[i] = data[i]
  BY <1>1, <1>2, <1>3 DEF Table
<1>7. Holds(data'[s], k)
  BY <1>5, <1>6 DEF Holds
<1>8. dict'[k] = v
  BY <1>2, <1>3, <1>4, <1>5, <1>6, <1>7, DictIs
<1>9. \A g \in Keys : g # k => dict'[g] = dict[g]
  <2>1. \A i \in 0..n-1 : IsEntry(data[i]) /\ data[i].key # k => \E m \in 0..n-1 : data'[m] = data[i]
    BY <1>2, <1>6 DEF Holds
  <2>2. \A i \in 0..n-1 : IsEntry(data'[i]) /\ data'[i].key # k => \E m \in 0..n-1 : data[m] = data'[i]
    BY <1>5, <1>6
  <2> QED
    BY <1>3, <1>4, <2>1, <2>2, DictOther
<1>10. dict' = [dict EXCEPT ![k] = v]
  BY <1>4, <1>8, <1>9, DictExcept
<1> QED
  BY <1>1, <1>2, <1>10 DEF Map!Assign

\* A step that changes no cell changes nothing that the caller could see.
LEMMA DictSame ==
  ASSUME UNCHANGED <<table, answer>>
  PROVE  UNCHANGED Map!dvars
  BY DEF table, Map!dvars, dict

\* The larger table stands for the same dictionary.
LEMMA DictRehash == ASSUME Placed, Placed', RehashEnd PROVE UNCHANGED Map!dvars
<1>1. /\ pc = "rehash" /\ j = data_size /\ hash' = hash /\ data_size' = NewSize /\ data' = pdata
      /\ answer' = answer /\ TypeOK /\ data_size >= InitSize /\ Moving /\ Safe(hash, data, data_size)
  BY DEF RehashEnd, Placed
<1>2. Table(hash, data, data_size) /\ Table(hash, pdata, NewSize) /\ Safe(hash, pdata, NewSize)
  BY <1>1, TablesAre DEF Moving
<1>3. dict = DictOf(data, data_size) /\ dict' = DictOf(pdata, NewSize)
  BY <1>1 DEF dict, DictOf
<1>4. \A i \in 0..data_size-1 : IsEntry(data[i]) => \E m \in 0..NewSize-1 : pdata[m] = data[i]
  BY <1>1 DEF Moving, Moved
<1>5. \A m \in 0..NewSize-1 : IsEntry(pdata[m]) => \E i \in 0..data_size-1 : data[i] = pdata[m]
  BY <1>1 DEF Moving, Moved, IsEntry
<1>6. PICK k : k \notin Keys
  BY MapAssumption
<1>7. \A g \in Keys : g # k => DictOf(pdata, NewSize)[g] = DictOf(data, data_size)[g]
  <2>1. \A i \in 0..data_size-1 : IsEntry(data[i]) /\ data[i].key # k =>
          \E m \in 0..NewSize-1 : pdata[m] = data[i]
    BY <1>4
  <2>2. \A m \in 0..NewSize-1 : IsEntry(pdata[m]) /\ pdata[m].key # k =>
          \E i \in 0..data_size-1 : data[i] = pdata[m]
    BY <1>5
  <2> QED
    BY <1>1, <1>2, <2>1, <2>2, DictOther
<1>8. DictOf(pdata, NewSize) = DictOf(data, data_size)
  <2>1. /\ DictOf(pdata, NewSize) \in [Keys -> Vals \cup {Absent}]
        /\ DictOf(data, data_size) \in [Keys -> Vals \cup {Absent}]
    BY <1>1, <1>2, DictType
  <2> QED
    BY <1>6, <1>7, <2>1
<1> QED
  BY <1>1, <1>3, <1>8 DEF Map!dvars

\* The end of map_insert.
LEMMA DictInsert ==
  ASSUME Placed, Placed', "entry" \notin AllocFails, InsertEnd
  PROVE  Map!Next
<1> DEFINE n == data_size
           k == arg.key
           v == arg.val
<1>1. /\ pc = "insert" /\ ~Endless(data, n, k) /\ arg \in Entry /\ k \in Keys /\ v \in Vals
      /\ hash' = hash
  BY DEF InsertEnd, Placed, TypeOK, Entry
<1>2. CASE Found(k)
  <2>1. UNCHANGED table /\ answer' = Map!Reply("insert", k, FALSE, v)
    BY <1>2 DEF InsertEnd, Map!Reply, Reply
  <2>2. UNCHANGED dict
    BY <2>1 DEF table, dict
  <2>3. Map!InsertRefused(k, v)
    BY <2>1, <2>2 DEF Map!InsertRefused
  <2> QED
    BY <1>1, <2>3 DEF Map!Next
<1>3. CASE ~Found(k)
  <2>1. Place(arg) /\ data_size' = n /\ answer' = Map!Reply("insert", k, TRUE, v)
    BY <1>3 DEF InsertEnd, Map!Reply, Reply
  <2>2. PICK s, m \in 0..n-1 :
          /\ data[s] = Null /\ (m = s \/ data[m] = Removed)
          /\ Safe(hash, data', n) /\ data' \in [0..n-1 -> Cell]
          /\ data'[m] = arg /\ (s # m => data'[s] = Removed)
          /\ \A i \in 0..n-1 : i # s /\ i # m => data'[i] = data[i]
    BY <1>1, <1>3, <2>1, PlaceIs
  <2>3. /\ Table(hash, data, n) /\ Safe(hash, data, n)
        /\ Table(hash, data', n) /\ Safe(hash, data', n)
    <3>1. Table(hash, data, n) /\ Safe(hash, data, n)
      BY TablesAre DEF Placed
    <3> QED
      BY <2>2, <3>1 DEF Table
  <2>4. /\ dict = DictOf(data, n) /\ dict' = DictOf(data', n)
        /\ dict \in [Keys -> Vals \cup {Absent}] /\ dict' \in [Keys -> Vals \cup {Absent}]
    <3>1. dict = DictOf(data, n) /\ dict' = DictOf(data', n)
      BY <2>1 DEF dict, DictOf
    <3> QED
      BY <2>3, <3>1, DictType
  <2>5. dict[k] = Absent
    BY <1>1, <1>3, FoundIs, <2>4
  <2>6. IsEntry(arg) /\ ~IsEntry(Null) /\ ~IsEntry(Removed)
    <3>1. arg \in Cell
      BY <1>1 DEF Cell
    <3> QED
      BY <1>1, <3>1, CellIs
  <2>7. dict'[k] = v
    <3>1. Holds(data'[m], k)
      BY <2>2, <2>6 DEF Holds
    <3>2. DictOf(data', n)[k] = data'[m].val
      <4>1. k \in Keys /\ m \in 0..n-1
        BY <1>1
      <4> HIDE DEF n, k
      <4>2. \A i \in 0..n-1 : Holds(data'[i], k) => DictOf(data', n)[k] = data'[i].val
        BY <2>3, <4>1, DictIs
      <4> QED
        BY <3>1, <4>1, <4>2
    <3> QED
      BY <2>2, <2>4, <3>2
  <2>8. \A g \in Keys : g # k => dict'[g] = dict[g]
    <3>1. ASSUME NEW i \in 0..n-1, IsEntry(data[i]), data[i].key # k
          PROVE  \E o \in 0..n-1 : data'[o] = data[i]
      <4>1. i # s /\ i # m
        BY <2>2, <2>6, <3>1
      <4> QED
        BY <2>2, <4>1
    <3>2. ASSUME NEW o \in 0..n-1, IsEntry(data'[o]), data'[o].key # k
          PROVE  \E i \in 0..n-1 : data[i] = data'[o]
      <4>1. o # s /\ o # m
        BY <2>2, <2>6, <3>2
      <4> QED
        BY <2>2, <4>1
    <3> QED
      BY <2>3, <2>4, <3>1, <3>2, DictOther
  <2>9. dict' = [dict EXCEPT ![k] = v]
    BY <1>1, <2>4, <2>7, <2>8, DictExcept
  <2>10. Map!Insert(k, v)
    BY <2>1, <2>5, <2>9 DEF Map!Insert
  <2> QED
    BY <1>1, <2>10 DEF Map!Next
<1> QED
  BY <1>2, <1>3

\* Every step of the table is a step of the dictionary, or none.
LEMMA DictStep ==
  ASSUME "entry" \notin AllocFails, Placed, Placed', [Next]_vars
  PROVE  [Map!Next]_(Map!dvars)
<1>1. ASSUME NEW k \in Keys, Find(k) \/ Remove(k) PROVE Map!Next
  BY <1>1, DictFind, DictRemove DEF Map!Next
<1>2. ASSUME NEW k \in Keys, NEW v \in Vals, Assign(k, v) PROVE Map!Next
  BY <1>2, DictAssign DEF Map!Next
<1>3. ASSUME NEW k \in Keys, NEW v \in Vals, Insert(k, v) PROVE UNCHANGED Map!dvars
  <2>1. UNCHANGED <<table, answer>>
    BY <1>3 DEF Insert
  <2> QED
    BY <2>1, DictSame
<1>4. ASSUME NEW k \in Keys, NEW v \in Vals, InsertNoTable(k, v) PROVE Map!Next
  <2>1. UNCHANGED dict /\ answer' = Map!Reply("insert", k, FALSE, v)
    BY <1>4 DEF InsertNoTable, table, dict, Map!Reply, Reply
  <2>2. Map!InsertRefused(k, v)
    BY <2>1 DEF Map!InsertRefused
  <2> QED
    BY <2>2 DEF Map!Next
<1>5. CASE RehashMove \/ Hang \/ Destroy \/ UNCHANGED vars
  <2>1. UNCHANGED <<table, answer>>
    BY <1>5 DEF RehashMove, Hang, Destroy, vars
  <2> QED
    BY <2>1, DictSame
<1> QED
  BY <1>1, <1>2, <1>3, <1>4, <1>5, DictRehash, DictInsert DEF Next

\* For every hash function and every growth of the table, its operations are
\* those of a dictionary: no key is lost, doubled or given another's value
\* (maplib.h:31-39).
THEOREM TableIsDictionary ==
  ASSUME "entry" \notin AllocFails
  PROVE  Spec => ImplementsDictionary
<1>1. Placed /\ Placed' /\ [Next]_vars => [Map!Next]_(Map!dvars)
  BY DictStep
<1> QED
  BY <1>1, DictInit, PlacedHolds, PTL DEF Spec, ImplementsDictionary, Map!Spec
=============================================================================
