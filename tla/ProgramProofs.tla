---------------------------- MODULE ProgramProofs ----------------------------
(***************************************************************************)
(* Proofs about components of one process: Buffer, for every size of the   *)
(* block and every append; CrcFile, for any size of a page and of the      *)
(* file; Telehack, for any greetings, request, answer and server; Weather, *)
(* for any answer and sizes of the buffer; and ParseLogs, for any files,   *)
(* threads and sizes of a word and of the top.                             *)
(***************************************************************************)
EXTENDS Buffer, SequenceTheorems, FiniteSetTheorems, WellFoundedInduction, TLAPS

CONSTANTS PageSize, MaxFile
VARIABLES size, step, fd, mapped, offset, crc

File == INSTANCE CrcFile

CONSTANTS Greetings, ReqLen, MaxOut, Text, BufLen
VARIABLES tel, net, server, greeting, late

Client == INSTANCE Telehack

CONSTANTS Answers, FirstSize, TopSize
VARIABLES asked, at, option, has, buffer, outcome, failing

Report == INSTANCE Weather WITH InitSize <- FirstSize, MaxSize <- TopSize

CONSTANTS Files, Urls, Refers, Lines, MaxLines, NThreads, StatSize, WordMod, ReadFails
VARIABLES files, index, place, mine, nextLine, erange, res, main, joined, sum, top

Logs == INSTANCE ParseLogs WITH at <- place

-----------------------------------------------------------------------------
(* The growing buffer: the path and answer buffers never hold more than    *)
(* their block, and in any use an append that fails changes nothing.       *)

\* Nothing is counted before there is a block.
Empty == ~held => buffer_size = 0 /\ data_size = 0

\* buffer_size is the block's, and never the limit itself; so that a size that
\* passed buffer_extend's test is enough.
Tight ==
  /\ data_size <= buffer_size
  /\ buffer_size = alloc
  /\ buffer_size < MaxSize
  /\ want > 0 => sz # MaxSize

BInv == TypeOK /\ Empty /\ (use # "request" => Tight)

\* Where nothing wraps the remainder is the number.
LEMMA NoWrap ==
  ASSUME NEW a \in Nat, NEW m \in Nat, a < m
  PROVE  a % m = a
  OBVIOUS

\* The free space is what it should be.
LEMMA SpareIsFree ==
  ASSUME TypeOK, Tight
  PROVE  Spare = buffer_size - data_size
<1>1. buffer_size - data_size \in Nat /\ buffer_size - data_size < SizeMax + 1
  BY BufferAssumption DEF TypeOK, Tight
<1>2. SizeMax + 1 \in Nat
  BY BufferAssumption
<1> QED
  BY <1>1, <1>2, NoWrap DEF Spare

\* Three halves of a number, rounded down, are never 2 modulo 3.
LEMMA GrowthMissesLimit ==
  ASSUME NEW n \in Nat
  PROVE  (n * 3) \div 2 \in Nat /\ (n * 3) \div 2 # MaxSize
  BY BufferAssumption, MaxSizeAssumption

\* A new buffer satisfies the invariant (buffer.c:12-24).
LEMMA BufferInit == Init => BInv
<1> SUFFICES ASSUME Init PROVE BInv
  OBVIOUS
<1>1. data_size = 0 /\ buffer_size = 0 /\ alloc = 0 /\ want = 0 /\ sz = 0
  BY DEF Init
<1>2. TypeOK
  <2>1. held \in BOOLEAN /\ ok \in BOOLEAN
    BY DEF Init
  <2>2. use \in {"request", "answer"} /\ what \in {"data", "nul"}
    BY DEF Init
  <2> QED
    BY <1>1, <2>1, <2>2, BufferAssumption DEF TypeOK
<1>3. Empty
  BY <1>1 DEF Empty
<1>4. Tight
  BY <1>1, BufferAssumption DEF Tight
<1> QED
  BY <1>2, <1>3, <1>4 DEF BInv

\* What an append does to the invariant.
LEMMA AppendStep ==
  ASSUME BInv, NEW n \in 1..MaxAppend, AppendInPlace(n) \/ AppendExtends(n),
         what' \in {"data", "nul"}
  PROVE  BInv'
<1> USE BufferAssumption DEF BInv
<1>1. CASE AppendInPlace(n)
  <2>1. TypeOK'
    BY <1>1 DEF AppendInPlace, TypeOK
  <2>2. Empty'
    BY <1>1 DEF AppendInPlace, TypeOK, Empty
  <2>3. ASSUME use # "request" PROVE Tight'
    <3>1. data_size + n <= buffer_size
      BY <1>1, <2>3, SpareIsFree DEF AppendInPlace, TypeOK, Tight
    <3> QED
      BY <1>1, <2>3, <3>1 DEF AppendInPlace, TypeOK, Tight
  <2> QED
    BY <1>1, <2>1, <2>2, <2>3 DEF AppendInPlace
<1>2. CASE AppendExtends(n)
  <2>1. TypeOK'
    BY <1>2 DEF AppendExtends, TypeOK
  <2>2. Empty'
    BY <1>2 DEF AppendExtends, Empty
  <2>3. ASSUME use # "request" PROVE Tight'
    BY <1>2, <2>3 DEF AppendExtends, TypeOK, Tight
  <2> QED
    BY <1>2, <2>1, <2>2, <2>3 DEF AppendExtends
<1> QED
  BY <1>1, <1>2

\* The inductive step, one action at a time.
LEMMA BufferNext == BInv /\ [Next]_vars => BInv'
<1> SUFFICES ASSUME BInv, [Next]_vars PROVE BInv'
  OBVIOUS
<1> USE BufferAssumption DEF BInv
<1>1. CASE AppendData
  BY <1>1, AppendStep DEF AppendData
<1>2. CASE PushNul
  <2>1. 1 \in 1..MaxAppend
    OBVIOUS
  <2> QED
    BY <1>2, <2>1, AppendStep DEF PushNul
<1>3. CASE Grow
  <2>1. TypeOK'
    BY <1>3, GrowthMissesLimit DEF Grow, TypeOK
  <2>2. Empty' /\ use' = use
    BY <1>3 DEF Grow, Empty
  <2>3. ASSUME use # "request" PROVE Tight'
    BY <1>3, <2>3, GrowthMissesLimit DEF Grow, TypeOK, Tight
  <2> QED
    BY <2>1, <2>2, <2>3
<1>4. CASE Reserve
  <2>1. PICK n \in {sz, data_size + want} : Obtain(n)
    BY <1>4 DEF Reserve
  <2>2. want' = 0 /\ sz' = sz /\ what' = what /\ use' = use
    BY <1>4 DEF Reserve
  <2>3. data_size' = data_size + want /\ buffer_size' = n /\ alloc' = n
    BY <2>1 DEF Obtain
  <2>4. held' = TRUE /\ ok' = TRUE
    BY <2>1 DEF Obtain
  <2>5. TypeOK'
    <3>1. held' \in BOOLEAN /\ ok' \in BOOLEAN
      BY <2>4
    <3>2. n \in Nat /\ data_size + want \in Nat
      BY DEF TypeOK
    <3> QED
      BY <2>2, <2>3, <3>1, <3>2 DEF TypeOK
  <2>6. Empty'
    BY <2>4 DEF Empty
  <2>7. ASSUME use # "request" PROVE Tight'
    <3>1. sz < MaxSize /\ data_size + want <= sz
      BY <1>4, <2>7 DEF Reserve, Short, TypeOK, Tight
    <3> QED
      BY <2>2, <2>3, <3>1 DEF TypeOK, Tight
  <2> QED
    BY <2>2, <2>5, <2>6, <2>7
<1>5. CASE Refuse
  <2>1. buffer_size' = buffer_size
    BY <1>5 DEF Refuse, Empty
  <2>2. want' = 0 /\ sz' = sz /\ data_size' = data_size /\ alloc' = alloc /\ use' = use
    BY <1>5 DEF Refuse
  <2>3. held' = held /\ what' = what /\ ok' \in BOOLEAN
    BY <1>5 DEF Refuse
  <2>4. TypeOK'
    BY <2>1, <2>2, <2>3 DEF TypeOK
  <2>5. Empty'
    BY <2>1, <2>2, <2>3 DEF Empty
  <2>6. ASSUME use # "request" PROVE Tight'
    BY <2>1, <2>2, <2>6 DEF Tight
  <2> QED
    BY <2>2, <2>4, <2>5, <2>6
<1>6. CASE PopBack
  <2>1. (buffer_size - 1) % (SizeMax + 1) \in Nat
    BY DEF TypeOK
  <2>2. TypeOK'
    BY <1>6, <2>1 DEF PopBack, TypeOK
  <2>3. Empty' /\ use' = "request"
    BY <1>6 DEF PopBack, Empty, TypeOK
  <2> QED
    BY <2>2, <2>3
<1>7. CASE Clear
  <2>1. TypeOK' /\ Empty' /\ use' = use
    BY <1>7 DEF Clear, TypeOK, Empty
  <2>2. ASSUME use # "request" PROVE Tight'
    BY <1>7, <2>2 DEF Clear, TypeOK, Tight
  <2> QED
    BY <2>1, <2>2
<1>8. CASE UNCHANGED vars
  BY <1>8 DEF vars, TypeOK, Empty, Tight
<1> QED
  BY <1>1, <1>2, <1>3, <1>4, <1>5, <1>6, <1>7, <1>8 DEF Next

\* The sizes stay sizes, whatever is appended, cleared or popped: what wraps
\* below zero is a size_t again.
THEOREM SizesTyped == Spec => []TypeOK
<1>1. BInv => TypeOK
  BY DEF BInv
<1> QED
  BY <1>1, BufferInit, BufferNext, PTL DEF Spec

\* Everything appended to a path or an answer lies inside the block, whatever
\* the allocator does: buffer_extend's loop always ends with enough.
THEOREM AppendsContained == Spec => []Contained
<1>1. BInv => Contained
  BY DEF BInv, Tight, Contained
<1> QED
  BY <1>1, BufferInit, BufferNext, PTL DEF Spec

\* An append that fails leaves the buffer as it was before the call, in the
\* request buffer too.
THEOREM FailuresKeep == Spec => FailureKeeps
<1>1. BInv /\ [Next]_vars =>
        [want # 0 /\ ~(want' = 0 /\ ok') => UNCHANGED <<held, data_size, buffer_size, alloc>>]_vars
  <2> SUFFICES ASSUME BInv, Next, want # 0, ~(want' = 0 /\ ok')
               PROVE  UNCHANGED <<held, data_size, buffer_size, alloc>>
    OBVIOUS
  <2>1. CASE AppendData
    BY <2>1 DEF AppendData, AppendInPlace, AppendExtends
  <2>2. CASE PushNul
    BY <2>2 DEF PushNul, AppendInPlace, AppendExtends
  <2>3. CASE Grow
    BY <2>3 DEF Grow
  <2>4. CASE Reserve
    BY <2>4 DEF Reserve, Obtain
  <2>5. CASE Refuse
    BY <2>5 DEF Refuse, BInv, Empty
  <2>6. CASE PopBack
    BY <2>6 DEF PopBack
  <2>7. CASE Clear
    BY <2>7 DEF Clear
  <2> QED
    BY <2>1, <2>2, <2>3, <2>4, <2>5, <2>6, <2>7 DEF Next
<1> QED
  BY <1>1, BufferInit, BufferNext, PTL DEF Spec, FailureKeeps

-----------------------------------------------------------------------------
(* The request buffer, from which NULs are popped.                         *)

\* What is counted is a size_t, and so is the block.
Fits == data_size + want <= MaxData /\ buffer_size <= SizeMax

\* A pop takes from buffer_size what the push before it added to data_size; so
\* when buffer_size has come down to 0, data_size is already past the block.
Paired ==
  use = "request" =>
    /\ alloc <= buffer_size + data_size
    /\ ok /\ what = "nul" /\ want = 0 => alloc < buffer_size + data_size

\* Modest with what it takes to keep it.
MInv == BInv /\ Fits /\ Paired /\ Modest

\* An append in place leaves the block and adds to the data.
LEMMA ModestAppend ==
  ASSUME MInv, NEW n \in 1..MaxAppend, AppendInPlace(n) \/ AppendExtends(n)
  PROVE  Fits' /\ Paired' /\ Modest'
<1> USE BufferAssumption DEF MInv, BInv, TypeOK
<1>1. CASE AppendInPlace(n)
  <2>1. /\ data_size' = data_size + n /\ data_size + n <= MaxData
        /\ buffer_size' = buffer_size /\ alloc' = alloc /\ use' = use /\ want = 0 /\ want' = 0
    BY <1>1 DEF AppendInPlace
  <2> QED
    BY <2>1 DEF Fits, Paired, Modest
<1>2. CASE AppendExtends(n)
  <2>1. /\ data_size' = data_size /\ buffer_size' = buffer_size /\ alloc' = alloc
        /\ use' = use /\ want' = n /\ data_size + n <= MaxData /\ n > 0
    BY <1>2 DEF AppendExtends
  <2> QED
    BY <2>1 DEF Fits, Paired, Modest
<1> QED
  BY <1>1, <1>2

\* Below zero buffer_size is the largest size_t.
LEMMA PopValue ==
  ASSUME NEW b \in Nat, b <= SizeMax
  PROVE  /\ (b - 1) % (SizeMax + 1) \in 0..SizeMax
         /\ b > 0 => (b - 1) % (SizeMax + 1) = b - 1
<1>1. SizeMax + 1 \in Nat \ {0}
  BY BufferAssumption
<1>2. (b - 1) % (SizeMax + 1) \in 0..SizeMax
  <2> DEFINE m == SizeMax + 1
  <2>1. m \in Nat \ {0} /\ SizeMax = m - 1
    BY BufferAssumption
  <2> HIDE DEF m
  <2>2. (b - 1) % m \in 0..(m - 1)
    BY <2>1
  <2> QED
    BY <2>1, <2>2 DEF m
<1>3. ASSUME b > 0 PROVE (b - 1) % (SizeMax + 1) = b - 1
  <2>1. b - 1 \in Nat /\ b - 1 < SizeMax + 1
    BY <1>3, BufferAssumption
  <2> QED
    BY <1>1, <2>1, NoWrap
<1> QED
  BY <1>2, <1>3

\* The inductive step, one action at a time.
LEMMA ModestNext == MInv /\ [Next]_vars => MInv'
<1> SUFFICES ASSUME MInv, [Next]_vars PROVE Fits' /\ Paired' /\ Modest'
  BY BufferNext DEF MInv
<1> USE BufferAssumption DEF MInv, BInv, TypeOK
<1>1. CASE AppendData
  BY <1>1, ModestAppend DEF AppendData
<1>2. CASE PushNul
  <2>1. 1 \in 1..MaxAppend
    OBVIOUS
  <2> QED
    BY <1>2, <2>1, ModestAppend DEF PushNul
<1>3. CASE Grow
  BY <1>3 DEF Grow, Fits, Paired, Modest
<1>4. CASE Reserve
  <2>1. PICK n \in {sz, data_size + want} : Obtain(n)
    BY <1>4 DEF Reserve
  <2>2. /\ want > 0 /\ sz <= MaxSize /\ want' = 0 /\ use' = use
        /\ data_size' = data_size + want /\ buffer_size' = n /\ alloc' = n
    BY <1>4, <2>1 DEF Reserve, Obtain
  <2>3. n \in Nat /\ n <= SizeMax
    BY <2>2 DEF Fits
  <2> QED
    BY <2>2, <2>3 DEF Fits, Paired, Modest
<1>5. CASE Refuse
  <2>1. buffer_size' = buffer_size
    BY <1>5 DEF Refuse, Empty
  <2>2. want' = 0 /\ data_size' = data_size /\ alloc' = alloc /\ use' = use /\ ok' = FALSE
    BY <1>5 DEF Refuse
  <2> QED
    BY <2>1, <2>2 DEF Fits, Paired, Modest
<1>6. CASE PopBack
  <2>1. /\ use = "request" /\ use' = use /\ ok /\ what = "nul" /\ what' = "data"
        /\ want = 0 /\ want' = 0 /\ data_size' = data_size /\ alloc' = alloc
        /\ buffer_size' = (buffer_size - 1) % (SizeMax + 1)
    BY <1>6 DEF PopBack
  <2>2. alloc < buffer_size + data_size
    BY <2>1 DEF Paired
  <2>3. /\ buffer_size' \in 0..SizeMax
        /\ buffer_size > 0 => buffer_size' = buffer_size - 1
    BY <2>1, PopValue DEF Fits
  <2> QED
    BY <2>1, <2>2, <2>3 DEF Fits, Paired, Modest
<1>7. CASE Clear
  <2>1. /\ use # "request" /\ use' = use /\ want = 0 /\ want' = 0 /\ data_size' = 0
        /\ buffer_size' = buffer_size /\ alloc' = alloc
    BY <1>7 DEF Clear
  <2> QED
    BY <2>1 DEF Fits, Paired, Modest, Tight
<1>8. CASE UNCHANGED vars
  BY <1>8 DEF vars, Fits, Paired, Modest
<1> QED
  BY <1>1, <1>2, <1>3, <1>4, <1>5, <1>6, <1>7, <1>8 DEF Next

\* The NULs popped from the request buffer make the program believe it has less
\* than it has, never more, until something has been written past the block
\* (buffer.c:43-73 with :97-107): buffer_size wraps only when data_size has
\* passed the block before.
THEOREM SizesModest == Spec => []Modest
<1>1. Init => MInv
  <2>1. Init => Fits /\ Paired /\ Modest
    BY BufferAssumption DEF Init, Fits, Paired, Modest
  <2> QED
    BY <2>1, BufferInit DEF MInv
<1>2. MInv => Modest
  BY DEF MInv
<1> QED
  BY <1>1, <1>2, ModestNext, PTL DEF Spec

-----------------------------------------------------------------------------
(* The checksum of a file.                                                 *)

\* While pages are read: what is behind the offset has gone into the checksum and
\* is unmapped, what is ahead of it is mapped, and the offset is between pages.
Read ==
    /\ size \in 0..MaxFile
    /\ offset \in Nat
    /\ step \in {"open", "map", "advise", "page", "printed", "failed", "refused"}
    /\ step \in {"open", "map", "advise"} => offset = 0 /\ crc = <<>>
    /\ step \in {"advise", "page"} =>
        /\ size > 0
        /\ mapped = File!Bytes(offset, size)
        /\ offset <= File!Pages * PageSize
        /\ \E i \in Nat : offset = i * PageSize
    /\ step = "page" => crc = [k \in 1..offset |-> k - 1]
    /\ File!WholeFile

-----------------------------------------------------------------------------
\* The pages cover the file but for less than one.
LEMMA PagesCover ==
  ASSUME PageSize \in Nat \ {0}, size \in Nat
  PROVE  /\ File!Pages \in Nat /\ File!Pages * PageSize \in Nat
         /\ size % PageSize \in 0..(PageSize - 1)
         /\ size = File!Pages * PageSize + (size % PageSize)
  BY DEF File!Pages

\* Before the last page there is room for one.
LEMMA WholePage ==
  ASSUME PageSize \in Nat \ {0}, NEW i \in Nat, NEW n \in Nat, i * PageSize < n * PageSize
  PROVE  i * PageSize + PageSize = (i + 1) * PageSize /\ i * PageSize + PageSize <= n * PageSize
<1>1. i < n
  <2>1. n <= i => n * PageSize <= i * PageSize
    OBVIOUS
  <2> QED
    BY <2>1
<1>2. (i + 1) * PageSize <= n * PageSize
  BY <1>1
<1>3. (i + 1) * PageSize = i * PageSize + PageSize
  OBVIOUS
<1> QED
  BY <1>2, <1>3

\* The empty file has no part of a page.
LEMMA NoPartOfNothing == ASSUME PageSize \in Nat \ {0} PROVE 0 % PageSize = 0
  OBVIOUS

\* Before the file is opened nothing is counted (main.c:25-30).
LEMMA InitInv ==
  ASSUME PageSize \in Nat \ {0}, MaxFile \in Nat, File!Init
  PROVE  Read
  BY DEF File!Init, Read, File!WholeFile

\* A step that fails, or only moves main on, reads nothing.
LEMMA FailsInv ==
  ASSUME Read, NEW closes \in BOOLEAN, File!Fails(closes)
  PROVE  Read'
  BY DEF Read, File!Fails, File!WholeFile, File!Pages

\* Opening, mapping and advising count nothing (main.c:31-68).
LEMMA SetUpInv ==
  ASSUME PageSize \in Nat \ {0}, MaxFile \in Nat, Read, File!Open \/ File!Map \/ File!Advise
  PROVE  Read'
<1>0. size \in Nat /\ File!Pages \in Nat /\ File!Pages * PageSize \in Nat
  BY PagesCover DEF Read
<1>1. ASSUME NEW closes \in BOOLEAN, File!Fails(closes) PROVE Read'
  BY <1>1, FailsInv
<1>2. CASE File!Open
  <2>1. CASE fd' = "open" /\ step' = "map" /\ UNCHANGED <<size, mapped, offset, crc>>
    BY <1>2, <2>1 DEF File!Open, Read, File!WholeFile
  <2>2. CASE step' = "failed" /\ fd' = "closed" /\ UNCHANGED <<size, mapped, offset, crc>>
    BY <2>2 DEF Read, File!WholeFile
  <2> QED
    BY <1>1, <1>2, <2>1, <2>2 DEF File!Open
<1>3. CASE File!Map
  <2>1. CASE /\ size > 0
             /\ mapped' = File!Bytes(0, size) /\ fd' = "closed" /\ step' = "advise"
             /\ UNCHANGED <<size, offset, crc>>
    <3>1. offset = 0 /\ crc = <<>>
      BY <1>3 DEF File!Map, Read
    <3>2. 0 * PageSize = 0 /\ File!Pages' = File!Pages
      BY <2>1 DEF File!Pages
    <3>3. \E i \in Nat : offset' = i * PageSize
      BY <2>1, <3>1, <3>2
    <3> QED
      BY <1>0, <2>1, <3>1, <3>2, <3>3 DEF Read, File!WholeFile
  <2>2. CASE size = 0 /\ step' = "refused" /\ fd' = "closed" /\ UNCHANGED <<size, mapped, offset, crc>>
    <3>1. size' % PageSize = 0
      BY <2>2, NoPartOfNothing
    <3> QED
      BY <1>3, <2>2, <3>1 DEF File!Map, Read, File!WholeFile
  <2> QED
    BY <1>1, <1>3, <2>1, <2>2 DEF File!Map
<1>4. CASE File!Advise
  <2>1. CASE step' = "page" /\ UNCHANGED <<size, fd, mapped, offset, crc>>
    <3>1. offset = 0 /\ crc = <<>> /\ step = "advise"
      BY <1>4 DEF File!Advise, Read
    <3>2. crc' = [k \in 1..offset' |-> k - 1]
      <4>1. offset' = 0 /\ crc' = <<>>
        BY <2>1, <3>1
      <4>2. [k \in 1..0 |-> k - 1] = <<>>
        OBVIOUS
      <4> QED
        BY <4>1, <4>2
    <3>3. File!Pages' = File!Pages /\ File!Bytes(offset, size)' = File!Bytes(offset, size)
      BY <2>1 DEF File!Pages, File!Bytes
    <3> QED
      BY <2>1, <3>1, <3>2, <3>3 DEF Read, File!WholeFile
  <2> QED
    BY <1>1, <1>4, <2>1 DEF File!Advise
<1> QED
  BY <1>2, <1>3, <1>4

\* n bytes that are mapped are read, after all that is before them.
LEMMA Processed ==
  ASSUME MaxFile \in Nat, size \in 0..MaxFile, offset \in Nat, NEW n \in Nat, offset + n <= size,
         mapped = File!Bytes(offset, size), crc = [k \in 1..offset |-> k - 1], File!Process(n)
  PROVE  crc' = [k \in 1..(offset + n) |-> k - 1]
<1> DEFINE next == [k \in 1..n |-> IF offset + k - 1 \in mapped THEN offset + k - 1 ELSE -1]
<1>1. \A k \in 1..n : next[k] = offset + k - 1
  BY DEF File!Bytes
<1>2. next \in Seq(Int) /\ Len(next) = n
  BY <1>1
<1>3. crc \in Seq(Int) /\ Len(crc) = offset
  OBVIOUS
<1>4. crc' = crc \o next
  BY DEF File!Process
<1> HIDE DEF next
<1>5. /\ crc \o next \in Seq(Int) /\ Len(crc \o next) = offset + n
      /\ \A k \in 1..(offset + n) :
            (crc \o next)[k] = IF k <= offset THEN crc[k] ELSE next[k - offset]
  <2>1. /\ crc \o next \in Seq(Int) /\ Len(crc \o next) = Len(crc) + Len(next)
        /\ \A k \in 1..(Len(crc) + Len(next)) :
              (crc \o next)[k] = IF k <= Len(crc) THEN crc[k] ELSE next[k - Len(crc)]
    BY <1>2, <1>3, ConcatProperties, Zenon
  <2> QED
    BY <1>2, <1>3, <2>1, Zenon
<1>6. \A k \in 1..(offset + n) : (crc \o next)[k] = k - 1
  <2>1. ASSUME NEW k \in 1..(offset + n), k <= offset PROVE (crc \o next)[k] = k - 1
    <3>1. crc[k] = k - 1
      BY <2>1
    <3> QED
      BY <1>5, <2>1, <3>1
  <2>2. ASSUME NEW k \in 1..(offset + n), ~(k <= offset) PROVE (crc \o next)[k] = k - 1
    <3>1. k - offset \in 1..n
      BY <2>2
    <3>2. next[k - offset] = k - 1
      BY <1>1, <3>1, <2>2
    <3> QED
      BY <1>5, <2>2, <3>2
  <2> QED
    BY <2>1, <2>2
<1> QED
  BY <1>4, <1>5, <1>6

\* The next n bytes are unmapped.
LEMMA Unmapped ==
  ASSUME MaxFile \in Nat, size \in 0..MaxFile, offset \in Nat, NEW n \in Nat,
         mapped = File!Bytes(offset, size), File!Unmap(n)
  PROVE  mapped' = File!Bytes(offset + n, size)
  BY DEF File!Unmap, File!Bytes

\* A whole page leaves the checksum that of the pages so far (main.c:69-79).
LEMMA ReadPageInv ==
  ASSUME PageSize \in Nat \ {0}, MaxFile \in Nat, Read, File!ReadPage
  PROVE  Read'
<1>1. /\ File!Pages \in Nat /\ File!Pages * PageSize \in Nat
      /\ size = File!Pages * PageSize + (size % PageSize) /\ size % PageSize \in 0..(PageSize - 1)
  BY PagesCover DEF Read
<1>2. PICK i \in Nat : offset = i * PageSize
  BY DEF Read, File!ReadPage
<1>3. offset + PageSize = (i + 1) * PageSize /\ offset + PageSize <= File!Pages * PageSize
  BY <1>1, <1>2, WholePage DEF File!ReadPage
<1>4. offset + PageSize <= size
  <2> DEFINE p == File!Pages * PageSize
             m == size % PageSize
  <2>1. p \in Nat /\ m \in Nat /\ size = p + m /\ offset + PageSize <= p /\ offset \in Nat
    BY <1>1, <1>3 DEF Read
  <2> HIDE DEF p, m
  <2> QED
    BY <2>1
<1>5. crc' = [k \in 1..(offset + PageSize) |-> k - 1]
  BY <1>4, Processed DEF Read, File!ReadPage
<1>6. mapped' = File!Bytes(offset + PageSize, size)
  BY Unmapped DEF Read, File!ReadPage
<1>7. offset' = offset + PageSize /\ size' = size /\ step' = "page" /\ File!Pages' = File!Pages
  BY DEF File!ReadPage, File!Pages
<1>8. File!WholeFile'
  BY <1>5, <1>7 DEF File!WholeFile, Read
<1>9. \E j \in Nat : offset' = j * PageSize
  <2>1. i + 1 \in Nat /\ offset' = (i + 1) * PageSize
    BY <1>3, <1>7
  <2> QED
    BY <2>1, Zenon
<1>10. mapped' = File!Bytes(offset, size)'
  BY <1>6, <1>7 DEF File!Bytes
<1>11. /\ size \in 0..MaxFile /\ offset \in Nat /\ PageSize \in Nat /\ size > 0
  <2>1. size > 0
    BY DEF Read, File!ReadPage
  <2> QED
    BY <2>1 DEF Read
<1>12. (offset <= File!Pages * PageSize)'
  BY <1>3, <1>7
<1>13. (size \in 0..MaxFile /\ offset \in Nat /\ size > 0)'
  BY <1>7, <1>11
<1>14. crc' = [k \in 1..offset' |-> k - 1]
  BY <1>5, <1>7
<1> HIDE DEF File!WholeFile
<1> QED
  BY <1>7, <1>8, <1>9, <1>10, <1>12, <1>13, <1>14 DEF Read

\* The rest of the file completes the checksum (main.c:80-88).
LEMMA ReadTailInv ==
  ASSUME PageSize \in Nat \ {0}, MaxFile \in Nat, Read, File!ReadTail
  PROVE  Read'
<1> DEFINE tail == size % PageSize
           p == File!Pages * PageSize
<1>1. p \in Nat /\ tail \in Nat /\ size = p + tail
  BY PagesCover DEF Read
<1>2. offset = p /\ offset + tail = size
  <2>1. offset \in Nat /\ offset <= p /\ offset >= p
    BY DEF Read, File!ReadTail
  <2> HIDE DEF p, tail
  <2> QED
    BY <1>1, <2>1
<1>3. File!Process(tail) /\ UNCHANGED <<size, offset>>
  BY DEF File!ReadTail
<1> HIDE DEF p
<1>4. crc' = [k \in 1..size |-> k - 1]
  <2> HIDE DEF tail
  <2> QED
    BY <1>1, <1>2, <1>3, Processed DEF Read, File!ReadTail
<1>5. CASE step' = "failed"
  BY <1>3, <1>4, <1>5 DEF Read, File!WholeFile
<1>7. CASE tail = 0 /\ step' = "refused" /\ UNCHANGED mapped
  BY <1>3, <1>4, <1>7 DEF Read, File!WholeFile
<1>6. CASE tail > 0 /\ File!Unmap(tail) /\ step' = "printed"
  <2>1. mapped' = File!Bytes(size, size)
    <3> HIDE DEF tail
    <3> QED
      BY <1>1, <1>2, <1>6, Unmapped DEF Read, File!ReadTail
  <2>2. mapped' = {}
    BY <2>1 DEF File!Bytes, Read
  <2> QED
    BY <1>3, <1>4, <1>6, <2>2 DEF Read, File!WholeFile
<1> QED
  BY <1>5, <1>6, <1>7 DEF File!ReadTail

-----------------------------------------------------------------------------
\* The checksum that is printed is that of every byte of the file, in order, for
\* any file and any size of a page, and only a file of whole pages is refused for
\* its size (hw10/main.c:65-86).
THEOREM ChecksumOfWholeFile ==
  ASSUME PageSize \in Nat \ {0}, MaxFile \in Nat
  PROVE  File!Spec => []File!WholeFile
<1>1. File!Init => Read
  BY InitInv
<1>2. Read /\ [File!Next]_File!crcVars => Read'
  <2> SUFFICES ASSUME Read, [File!Next]_File!crcVars PROVE Read'
    OBVIOUS
  <2>1. CASE File!PageFails
    BY <2>1, FailsInv DEF File!PageFails
  <2>2. CASE UNCHANGED File!crcVars
    BY <2>2 DEF File!crcVars, Read, File!WholeFile, File!Pages, File!Bytes
  <2> QED
    BY <2>1, <2>2, SetUpInv, ReadPageInv, ReadTailInv DEF File!Next
<1>3. Read => File!WholeFile
  BY DEF Read
<1> QED
  BY <1>1, <1>2, <1>3, PTL DEF File!Spec

-----------------------------------------------------------------------------
(* The request of the telehack client.                                     *)

Fields ==
    /\ DOMAIN tel = {"at", "i", "tries", "read", "sent", "received", "answer"}
    /\ DOMAIN net = {"in", "out", "closed", "answered", "hit"}

\* Before anything has been sent the server has got nothing; `sent` is what the
\* last send took, never more than the request, or -1 when it was interrupted.
Unsent ==
    /\ tel.sent \in -1..ReqLen
    /\ tel.sent = -1 => net.hit
    /\ tel.at \in {"connect", "prompt"} => tel.sent = 0
    /\ tel.at \in {"connect", "prompt", "request"} /\ tel.sent = 0 => net.out = <<>>

Sent == Fields /\ Unsent /\ Client!RequestWhole

-----------------------------------------------------------------------------
\* A send that takes as much as the request is long takes the request.
LEMMA TakesRequest ==
  ASSUME ReqLen \in Nat, tel.sent = 0
  PROVE  SubSeq(<<>> \o Client!Piece(ReqLen), 1, ReqLen) = Client!Request
<1>1. Client!Request \in Seq(Nat) /\ Len(Client!Request) = ReqLen
  BY DEF Client!Request
<1>2. Client!Piece(ReqLen) = Client!Request
  BY DEF Client!Piece, Client!Request
<1>3. SubSeq(Client!Request, 1, ReqLen) = Client!Request
  BY <1>1, SubSeqFull
<1> QED
  BY <1>1, <1>2, <1>3, ConcatEmptySeq

\* The client goes somewhere without sending, and not on to the answer.
LEMMA LeaveInv ==
  ASSUME Sent, NEW how \in {"prompt", "failed", "crashed", "killed"}, tel.at # how, how = "prompt" => tel.at = "connect",
         Client!Leave(how), net' = net
  PROVE  Sent'
  BY DEF Sent, Fields, Unsent, Client!RequestWhole, Client!Leave, Client!Request

\* What send accepts is the next part of the request (main.c:122-133).
LEMMA SendInv ==
  ASSUME Client!TelehackAssumption, Sent, Client!Send
  PROVE  Sent'
<1> USE DEF Client!TelehackAssumption
<1>1. PICK n \in 1..(ReqLen - tel.sent) :
        /\ Client!SendSome(n)
        /\ \/ n < ReqLen - n /\ tel' = [tel EXCEPT !.sent = n]
           \/ n >= ReqLen - n /\ Client!Done(n) /\ Client!Leave("answer")
           \/ n >= ReqLen - n /\ ~Client!Done(n) /\ Client!ErrorTooEarly
  BY DEF Client!Send
<1>2. /\ tel.at = "request" /\ tel.sent \in -1..ReqLen
      /\ DOMAIN net' = DOMAIN net /\ net'.hit = net.hit
      /\ net'.out = SubSeq(net.out \o Client!Piece(n), 1,
                          IF Len(net.out) + n < MaxOut THEN Len(net.out) + n ELSE MaxOut)
  BY <1>1 DEF Client!Send, Client!SendSome, Sent, Fields, Unsent
<1> DEFINE k == tel.sent
<1>3. k \in Int /\ k >= -1 /\ n \in Nat /\ n # 0 /\ n + k <= ReqLen
  <2>1. k \in -1..ReqLen /\ n \in 1..(ReqLen - k)
    BY <1>2
  <2> HIDE DEF k
  <2> QED
    BY <2>1
<1>5. CASE n < ReqLen - n /\ tel' = [tel EXCEPT !.sent = n]
  <2>1. tel'.sent = n /\ tel'.at = "request" /\ DOMAIN tel' = DOMAIN tel
    BY <1>2, <1>5 DEF Sent, Fields
  <2>2. n \in -1..ReqLen /\ n # -1 /\ n # 0
    <3> HIDE DEF k
    <3> QED
      BY <1>3, <1>5
  <2> QED
    BY <1>2, <2>1, <2>2 DEF Sent, Fields, Unsent, Client!RequestWhole
<1>6. CASE n >= ReqLen - n /\ Client!Done(n) /\ Client!Leave("answer")
  <2>1. tel.sent = -1 \/ (tel.sent = 0 /\ n = ReqLen)
    <3>1. n >= ReqLen
      BY <1>6 DEF Client!Done
    <3>2. k = -1 \/ (k = 0 /\ n = ReqLen)
      <4> HIDE DEF k
      <4> QED
        BY <1>3, <3>1
    <3> QED
      BY <3>2
  <2>2. ASSUME tel.sent = 0, n = ReqLen PROVE net'.out = Client!Request
    <3>1. net.out = <<>> /\ Len(<<>>) = 0
      BY <1>2, <2>2 DEF Sent, Unsent
    <3>2. (IF Len(net.out) + n < MaxOut THEN Len(net.out) + n ELSE MaxOut) = ReqLen
      BY <2>2, <3>1
    <3>3. net'.out = SubSeq(<<>> \o Client!Piece(ReqLen), 1, ReqLen)
      BY <1>2, <2>2, <3>1, <3>2
    <3> QED
      BY <2>2, <3>3, TakesRequest
  <2>3. tel'.sent = tel.sent /\ tel'.at = "answer" /\ DOMAIN tel' = DOMAIN tel
    BY <1>6 DEF Sent, Fields, Client!Leave
  <2>4. Client!RequestWhole'
    BY <1>2, <2>1, <2>2 DEF Client!RequestWhole, Client!Request, Sent, Unsent
  <2> QED
    BY <1>2, <2>3, <2>4 DEF Sent, Fields, Unsent
<1>7. CASE Client!ErrorTooEarly
  <2>1. tel'.sent = tel.sent /\ tel'.at \in {"failed", "crashed"} /\ DOMAIN tel' = DOMAIN tel
    BY <1>7 DEF Client!ErrorTooEarly, Client!Leave, Sent, Fields
  <2> QED
    BY <1>2, <2>1 DEF Sent, Fields, Unsent, Client!RequestWhole
<1> QED
  BY <1>1, <1>5, <1>6, <1>7

\* Everything that is read, and the server, leaves what has been sent as it is.
LEMMA ReadInv ==
  ASSUME Sent, Client!ReadPrompt \/ Client!ReadAnswer \/ Client!ReadEnd \/ Client!Silence \/ Client!ReadFails
  PROVE  Sent'
<1>1. CASE Client!ReadPrompt
  <2>1. tel'.sent = tel.sent /\ tel.at = "prompt" /\ tel'.at \in {"prompt", "request"} /\ net'.out = net.out
        /\ net'.hit = net.hit
    BY <1>1 DEF Client!ReadPrompt, Sent, Fields
  <2>2. DOMAIN tel' = DOMAIN tel /\ DOMAIN net' = DOMAIN net
    BY <1>1 DEF Client!ReadPrompt
  <2> QED
    BY <2>1, <2>2 DEF Sent, Fields, Unsent, Client!RequestWhole
<1>2. CASE Client!ReadAnswer \/ Client!ReadEnd \/ Client!Silence \/ Client!ReadFails
  <2>1. /\ tel'.sent = tel.sent /\ tel.at = "answer" /\ net'.out = net.out /\ net'.hit = net.hit
        /\ tel'.at \in {"answer", "failed", "spins", "printed"}
    BY <1>2 DEF Client!ReadAnswer, Client!ReadEnd, Client!Silence, Client!ReadFails, Client!EndAnswer,
                Client!Quiet, Client!Leave, Sent, Fields
  <2>2. DOMAIN tel' = DOMAIN tel /\ DOMAIN net' = DOMAIN net
    BY <1>2 DEF Client!ReadAnswer, Client!ReadEnd, Client!Silence, Client!ReadFails, Client!EndAnswer,
                Client!Quiet, Client!Leave
  <2> QED
    BY <2>1, <2>2 DEF Sent, Fields, Unsent, Client!RequestWhole, Client!Request
<1> QED
  BY <1>1, <1>2

\* What the server does changes nothing that was sent.
LEMMA ServerInv ==
  ASSUME Sent, Client!Say \/ Client!Answer \/ Client!Close
  PROVE  Sent'
<1>1. tel' = tel /\ net'.out = net.out /\ net'.hit = net.hit /\ DOMAIN net' = DOMAIN net
  BY DEF Client!Say, Client!Answer, Client!Close, Sent, Fields
<1> QED
  BY <1>1 DEF Sent, Fields, Unsent, Client!RequestWhole, Client!Request

LEMMA SentInit ==
  ASSUME ReqLen \in Nat
  PROVE  Client!Init => Sent
BY DEF Client!Init, Client!Begin, Sent, Fields, Unsent, Client!RequestWhole

LEMMA SentNext ==
  ASSUME Client!TelehackAssumption, Sent, [Client!Next]_Client!telVars
  PROVE  Sent'
<1>1. CASE Client!Connect
  BY <1>1, LeaveInv DEF Client!Connect, Client!Quiet
<1>2. CASE Client!NoPrompt
  <2>1. CASE tel' = [tel EXCEPT !.tries = @ - 1]
    <3>1. tel'.sent = tel.sent /\ tel'.at = tel.at /\ DOMAIN tel' = DOMAIN tel /\ net' = net
      BY <1>2, <2>1 DEF Client!NoPrompt, Client!Quiet, Sent, Fields
    <3> QED
      BY <3>1 DEF Sent, Fields, Unsent, Client!RequestWhole, Client!Request
  <2>2. CASE Client!ErrorTooEarly
    BY <1>2, <2>2, LeaveInv DEF Client!NoPrompt, Client!ErrorTooEarly, Client!Quiet
  <2> QED
    BY <1>2, <2>1, <2>2 DEF Client!NoPrompt
<1>3. CASE Client!RequestFails
  BY <1>3, LeaveInv DEF Client!RequestFails, Client!ErrorTooEarly, Client!Quiet
<1>4. CASE Client!SendInterrupted
  <2>1. /\ tel'.sent = -1 /\ tel'.at = "request" /\ DOMAIN tel' = DOMAIN tel
        /\ net'.hit = TRUE /\ DOMAIN net' = DOMAIN net
    BY <1>4 DEF Client!SendInterrupted, Sent, Fields
  <2>2. -1 \in -1..ReqLen
    BY DEF Client!TelehackAssumption
  <2> QED
    BY <2>1, <2>2 DEF Sent, Fields, Unsent, Client!RequestWhole
<1>5. CASE UNCHANGED Client!telVars
  BY <1>5 DEF Client!telVars, Sent, Fields, Unsent, Client!RequestWhole, Client!Request
<1> QED
  BY <1>1, <1>2, <1>3, <1>4, <1>5, SendInv, ReadInv, ServerInv DEF Client!Next, Client!Client, Client!Runs

-----------------------------------------------------------------------------
\* Unless a send was interrupted, whoever waits for the answer has sent the whole
\* request, each byte once, however long it is and however much of it each send took,
\* and whatever else fails (hw12/src/main.c:122-133).
THEOREM WholeRequestSent ==
  ASSUME Client!TelehackAssumption
  PROVE  Client!Spec => []Client!RequestWhole
<1>1. Client!Init => Sent
  BY SentInit DEF Client!TelehackAssumption
<1>2. Sent /\ [Client!Next]_Client!telVars => Sent'
  BY SentNext
<1>3. Sent => Client!RequestWhole
  BY DEF Sent
<1> QED
  BY <1>1, <1>2, <1>3, PTL DEF Client!Spec

-----------------------------------------------------------------------------
(* The prompt and the answer.                                              *)

\* There is a request, and what is said is made of bytes.
Spoken ==
    /\ ReqLen \in Nat \ {0} /\ MaxOut \in Nat /\ MaxOut > ReqLen /\ BufLen \in Nat
    /\ \E S : Greetings \subseteq Seq(S) /\ Text \in Seq(S)

Chars == CHOOSE S : Greetings \subseteq Seq(S) /\ Text \in Seq(S)
Byte == Chars \cup Nat \cup {"n", "."}

\* All that the server says in answer: the echo, the text and the next prompt.
Whole == Client!Request \o Text \o Client!Prompt

\* Of what is said in all, p bytes have been read; the rest has arrived or is to come.
Comes(w, p, in, rest) ==
    /\ in \in Seq(Byte) /\ rest \in Seq(Byte)
    /\ p \in Nat /\ p + Len(in) + Len(rest) = Len(w)
    /\ \A j \in 1..Len(in) : in[j] = w[p + j]
    /\ \A j \in 1..Len(rest) : rest[j] = w[p + Len(in) + j]

\* Of what has been read of the answer, the part after the echo.
Echoless(a, p) ==
    /\ a \in Seq(Byte)
    /\ p > ReqLen => Len(a) = p - ReqLen
    /\ p <= ReqLen => a = <<>>
    /\ \A j \in 1..Len(a) : a[j] = Whole[ReqLen + j]

\* What the matcher knows of the last bytes read.
Matching ==
    /\ tel.i \in {0, 1}
    /\ tel.i = 1 => tel.read > 0 /\ greeting[tel.read] = "n"
    /\ tel.i = 0 /\ tel.read > 0 /\ greeting[tel.read] = "n" =>
         tel.read > 1 /\ greeting[tel.read - 1] = "n"

\* No answer has come, and what has arrived is the rest of the greeting.
Unanswered ==
    /\ ~net.answered /\ tel.received = 0 /\ tel.answer = <<>>
    /\ Comes(greeting, tel.read, net.in, server)

\* After the greeting nothing comes but the answer, which is `Whole` when the request was.
Answering ==
    IF net.answered
    THEN /\ tel.at = "answer" => Comes(Whole, tel.received, net.in, server) /\ Echoless(tel.answer, tel.received)
         /\ tel.at = "printed" /\ ~late => tel.answer = Text \o <<"n">>
    ELSE tel.at = "answer" /\ net.in = <<>> /\ server = <<>> /\ tel.received = 0 /\ tel.answer = <<>>

\* While `sent` is zero nothing has been sent, so that nothing has been answered.
Heeding ==
    /\ greeting \in Seq(Byte)
    /\ tel.at = "connect" => tel.read = 0
    /\ tel.at \in {"connect", "prompt", "request"} /\ tel.sent = 0 => Unanswered
    /\ tel.at \in {"connect", "prompt"} => Matching
    /\ tel.at \in {"answer", "printed"} /\ tel.read = Len(greeting) /\ ~net.hit => Answering
    /\ Client!AsksAtPrompt

\* Where the elements of a concatenation, and of a part of a sequence, come from.
LEMMA JoinedPlaces ==
  ASSUME NEW S, NEW s \in Seq(S), NEW t \in Seq(S)
  PROVE  /\ s \o t \in Seq(S) /\ Len(s \o t) = Len(s) + Len(t)
         /\ \A j \in 1..Len(s) : (s \o t)[j] = s[j]
         /\ \A j \in 1..Len(t) : (s \o t)[Len(s) + j] = t[j]
<1>1. s \o t \in Seq(S) /\ Len(s \o t) = Len(s) + Len(t) /\ Len(s) \in Nat /\ Len(t) \in Nat
  OBVIOUS
<1>2. ASSUME NEW j \in 1..Len(s) PROVE (s \o t)[j] = s[j]
  OBVIOUS
<1>3. ASSUME NEW j \in 1..Len(t) PROVE (s \o t)[Len(s) + j] = t[j]
  OBVIOUS
<1> QED
  BY <1>1, <1>2, <1>3

LEMMA PartPlaces ==
  ASSUME NEW S, NEW s \in Seq(S), NEW m \in Nat, NEW n \in Nat, n <= Len(s)
  PROVE  /\ SubSeq(s, m + 1, n) \in Seq(S)
         /\ m <= n => /\ Len(SubSeq(s, m + 1, n)) = n - m
                      /\ \A j \in 1..(n - m) : SubSeq(s, m + 1, n)[j] = s[m + j]
         /\ m >= n => SubSeq(s, m + 1, n) = <<>>
<1>1. \A j \in (m + 1)..n : s[j] \in S
  OBVIOUS
<1>2. SubSeq(s, m + 1, n) \in Seq(S)
  BY <1>1
<1>3. m <= n => Len(SubSeq(s, m + 1, n)) = n - m
  OBVIOUS
<1>4. ASSUME m <= n, NEW j \in 1..(n - m) PROVE SubSeq(s, m + 1, n)[j] = s[m + j]
  BY <1>4
<1>5. m >= n => SubSeq(s, m + 1, n) = <<>>
  <2> SUFFICES ASSUME m >= n PROVE SubSeq(s, m + 1, n) = <<>>
    OBVIOUS
  <2>1. Len(SubSeq(s, m + 1, n)) = 0
    OBVIOUS
  <2> QED
    BY <1>2, <2>1, EmptySeq
<1> QED
  BY <1>2, <1>3, <1>4, <1>5

LEMMA SpokenBytes ==
  ASSUME Spoken
  PROVE  /\ Greetings \subseteq Seq(Byte) /\ Text \in Seq(Byte) /\ Client!Request \in Seq(Byte)
         /\ Len(Client!Request) = ReqLen /\ \A j \in 1..ReqLen : Client!Request[j] = j
         /\ Whole \in Seq(Byte) /\ Len(Whole) = ReqLen + Len(Text) + 2
         /\ \A j \in 1..Len(Text) : Whole[ReqLen + j] = Text[j]
         /\ Whole[ReqLen + Len(Text) + 1] = "n"
<1>1. Greetings \subseteq Seq(Chars) /\ Text \in Seq(Chars)
  BY DEF Spoken, Chars
<1>2. Greetings \subseteq Seq(Byte) /\ Text \in Seq(Byte)
  BY <1>1 DEF Byte
<1>3. /\ ReqLen \in Nat /\ Client!Request \in Seq(Byte)
      /\ Len(Client!Request) = ReqLen /\ \A j \in 1..ReqLen : Client!Request[j] = j
  BY DEF Spoken, Client!Request, Byte
<1> DEFINE r == Client!Request
           q == Client!Prompt
           a == r \o Text
<1>4. q \in Seq(Byte) /\ Len(q) = 2 /\ q[1] = "n" /\ 1 \in 1..Len(q)
  BY DEF Client!Prompt, Client!NewLine, Client!Dot, Byte
<1> HIDE DEF r, q
<1>5. /\ a \in Seq(Byte) /\ Len(a) = Len(r) + Len(Text)
      /\ \A j \in 1..Len(r) : a[j] = r[j]
      /\ \A j \in 1..Len(Text) : a[Len(r) + j] = Text[j]
  <2>1. r \in Seq(Byte) /\ Text \in Seq(Byte)
    BY <1>2, <1>3 DEF r
  <2> QED
    BY <2>1, JoinedPlaces
<1> HIDE DEF a
<1>6. /\ a \o q \in Seq(Byte) /\ Len(a \o q) = Len(a) + Len(q)
      /\ \A j \in 1..Len(a) : (a \o q)[j] = a[j]
      /\ \A j \in 1..Len(q) : (a \o q)[Len(a) + j] = q[j]
  <2>1. a \in Seq(Byte) /\ q \in Seq(Byte)
    BY <1>4, <1>5
  <2> QED
    BY <2>1, JoinedPlaces
<1>7. Whole = a \o q
  BY DEF Whole, a, q, r
<1>8. Len(r) = ReqLen /\ ReqLen \in Nat /\ Len(Text) \in Nat /\ Len(a) = ReqLen + Len(Text)
  BY <1>2, <1>3, <1>5 DEF r
<1>9. Whole \in Seq(Byte) /\ Len(Whole) = ReqLen + Len(Text) + 2
  BY <1>4, <1>6, <1>7, <1>8
<1>10. Whole[ReqLen + Len(Text) + 1] = "n"
  BY <1>4, <1>6, <1>7, <1>8
<1>11. ASSUME NEW j \in 1..Len(Text) PROVE Whole[ReqLen + j] = Text[j]
  <2>1. ReqLen + j \in 1..Len(a)
    BY <1>8
  <2>2. Whole[ReqLen + j] = a[ReqLen + j] /\ a[ReqLen + j] = Text[j]
    BY <1>5, <1>6, <1>7, <1>8, <2>1
  <2> QED
    BY <2>2
<1> QED
  BY <1>2, <1>3, <1>9, <1>10, <1>11

\* What is read is read in order.
LEMMA ComesRead ==
  ASSUME NEW w, NEW p, NEW in, NEW rest, Comes(w, p, in, rest), NEW n \in 0..Len(in)
  PROVE  /\ Comes(w, p + n, SubSeq(in, n + 1, Len(in)), rest)
         /\ SubSeq(in, 1, n) \in Seq(Byte) /\ Len(SubSeq(in, 1, n)) = n
         /\ \A j \in 1..n : SubSeq(in, 1, n)[j] = w[p + j]
<1> DEFINE left == SubSeq(in, n + 1, Len(in))
           read == SubSeq(in, 1, n)
<1>1. /\ in \in Seq(Byte) /\ rest \in Seq(Byte) /\ p \in Nat /\ n \in Nat /\ n <= Len(in)
      /\ Len(in) \in Nat /\ Len(rest) \in Nat /\ p + Len(in) + Len(rest) = Len(w)
  BY DEF Comes
<1>2. \A j \in 1..Len(in) : in[j] = w[p + j]
  BY DEF Comes
<1>3. \A j \in 1..Len(rest) : rest[j] = w[p + Len(in) + j]
  BY DEF Comes
<1>4. /\ left \in Seq(Byte) /\ Len(left) = Len(in) - n
      /\ \A j \in 1..(Len(in) - n) : left[j] = in[n + j]
  BY <1>1, PartPlaces
<1>5. read \in Seq(Byte) /\ Len(read) = n /\ \A j \in 1..n : read[j] = in[j]
  <2>1. 0 \in Nat /\ 0 <= n /\ n - 0 = n /\ 0 + 1 = 1 /\ \A j \in 1..n : 0 + j = j
    BY <1>1
  <2> QED
    BY <1>1, <2>1, PartPlaces
<1> HIDE DEF left, read
<1>6. Len(left) = Len(in) - n /\ Len(left) \in Nat /\ Len(read) = n
  BY <1>1, <1>4, <1>5
<1>11. p + n \in Nat /\ p + n + Len(left) + Len(rest) = Len(w)
  BY <1>1, <1>6
<1>7. ASSUME NEW j \in 1..Len(left) PROVE left[j] = w[p + n + j]
  <2>1. n + j \in 1..Len(in) /\ p + (n + j) = p + n + j
    BY <1>1, <1>6
  <2>2. left[j] = in[n + j] /\ in[n + j] = w[p + (n + j)]
    BY <1>2, <1>4, <1>6, <2>1
  <2> QED
    BY <2>1, <2>2
<1>8. ASSUME NEW j \in 1..Len(rest) PROVE rest[j] = w[p + n + Len(left) + j]
  <2>1. p + n + Len(left) + j = p + Len(in) + j
    BY <1>1, <1>6
  <2> QED
    BY <1>3, <2>1
<1>9. ASSUME NEW j \in 1..n PROVE read[j] = w[p + j]
  <2>1. j \in 1..Len(in)
    BY <1>1
  <2> QED
    BY <1>2, <1>5, <2>1
<1>10. Comes(w, p + n, left, rest)
  BY <1>1, <1>4, <1>7, <1>8, <1>11 DEF Comes
<1> QED
  BY <1>5, <1>9, <1>10 DEF left, read

\* What is said arrives behind what has arrived.
LEMMA ComesSaid ==
  ASSUME NEW w, NEW p, NEW in, NEW rest, Comes(w, p, in, rest), NEW n \in 1..Len(rest)
  PROVE  Comes(w, p, in \o SubSeq(rest, 1, n), SubSeq(rest, n + 1, Len(rest)))
<1> DEFINE a == SubSeq(rest, 1, n)
           b == SubSeq(rest, n + 1, Len(rest))
           c == in \o a
<1>1. /\ in \in Seq(Byte) /\ rest \in Seq(Byte) /\ p \in Nat /\ n \in Nat /\ n <= Len(rest)
      /\ Len(in) \in Nat /\ Len(rest) \in Nat /\ p + Len(in) + Len(rest) = Len(w)
  BY DEF Comes
<1>2. \A j \in 1..Len(in) : in[j] = w[p + j]
  BY DEF Comes
<1>3. \A j \in 1..Len(rest) : rest[j] = w[p + Len(in) + j]
  BY DEF Comes
<1>4. a \in Seq(Byte) /\ Len(a) = n /\ \A j \in 1..n : a[j] = rest[j]
  <2>1. 0 \in Nat /\ 0 <= n /\ n - 0 = n /\ 0 + 1 = 1 /\ \A j \in 1..n : 0 + j = j
    BY <1>1
  <2> QED
    BY <1>1, <2>1, PartPlaces
<1>5. /\ b \in Seq(Byte) /\ Len(b) = Len(rest) - n
      /\ \A j \in 1..(Len(rest) - n) : b[j] = rest[n + j]
  <2>1. rest \in Seq(Byte) /\ n \in Nat /\ Len(rest) \in Nat /\ Len(rest) <= Len(rest) /\ n <= Len(rest)
    BY <1>1
  <2>2. b \in Seq(Byte)
    BY <2>1, PartPlaces
  <2>3. Len(b) = Len(rest) - n
    BY <2>1, PartPlaces
  <2>4. \A j \in 1..(Len(rest) - n) : b[j] = rest[n + j]
    BY <2>1, PartPlaces
  <2> QED
    BY <2>2, <2>3, <2>4
<1> HIDE DEF a, b
<1>6. /\ c \in Seq(Byte) /\ Len(c) = Len(in) + n
      /\ \A j \in 1..Len(in) : c[j] = in[j]
      /\ \A j \in 1..n : c[Len(in) + j] = a[j]
  <2>1. in \in Seq(Byte) /\ a \in Seq(Byte)
    BY <1>1, <1>4
  <2>2. /\ c \in Seq(Byte) /\ Len(c) = Len(in) + Len(a)
        /\ \A j \in 1..Len(in) : c[j] = in[j]
        /\ \A j \in 1..Len(a) : c[Len(in) + j] = a[j]
    BY <2>1, JoinedPlaces
  <2>3. Len(a) = n
    BY <1>4
  <2> HIDE DEF c
  <2> QED
    BY <2>2, <2>3
<1> HIDE DEF c
<1>7. p + Len(c) + Len(b) = Len(w)
  <2>1. Len(c) = Len(in) + n /\ Len(b) = Len(rest) - n
    BY <1>5, <1>6
  <2> QED
    BY <1>1, <2>1
<1>8. ASSUME NEW j \in 1..Len(c) PROVE c[j] = w[p + j]
  <2>1. CASE j <= Len(in)
    <3>1. j \in 1..Len(in)
      BY <1>1, <1>6, <2>1
    <3> QED
      BY <1>2, <1>6, <3>1
  <2>2. CASE ~(j <= Len(in))
    <3> DEFINE i == j - Len(in)
    <3>1. i \in 1..n /\ i \in 1..Len(rest) /\ p + Len(in) + i = p + j /\ Len(in) + i = j
      BY <1>1, <1>6, <2>2
    <3> HIDE DEF i
    <3>2. c[j] = rest[i]
      BY <1>4, <1>6, <3>1
    <3> QED
      BY <1>3, <3>1, <3>2
  <2> QED
    BY <2>1, <2>2
<1>9. ASSUME NEW j \in 1..Len(b) PROVE b[j] = w[p + Len(c) + j]
  <2>1. n + j \in 1..Len(rest) /\ p + Len(in) + (n + j) = p + Len(c) + j
    BY <1>1, <1>5, <1>6
  <2>2. rest[n + j] = w[p + Len(in) + (n + j)]
    BY <1>3, <2>1
  <2> QED
    BY <1>5, <2>1, <2>2
<1>10. Comes(w, p, c, b)
  BY <1>1, <1>5, <1>6, <1>7, <1>8, <1>9 DEF Comes
<1> QED
  BY <1>10 DEF a, b, c

\* The echo is skipped, however it is cut.
LEMMA EcholessMore ==
  ASSUME Spoken, NEW a, NEW p \in Nat, Echoless(a, p), NEW data \in Seq(Byte), tel.received = p,
         \A j \in 1..Len(data) : data[j] = Whole[p + j]
  PROVE  Echoless(a \o Client!Skip(data), p + Len(data))
<1> DEFINE d == Client!Skip(data)
           k == IF p > ReqLen THEN 0 ELSE ReqLen - p
           m == Len(data)
           new == a \o d
<1>1. ReqLen \in Nat /\ m \in Nat /\ a \in Seq(Byte) /\ Len(a) \in Nat
      /\ (p > ReqLen => Len(a) = p - ReqLen) /\ (p <= ReqLen => Len(a) = 0)
  BY DEF Spoken, Echoless
<1>2. k \in Nat /\ (p > ReqLen => k = 0) /\ (p <= ReqLen => k = ReqLen - p)
  BY <1>1
<1>3. /\ d \in Seq(Byte) /\ Len(d) \in Nat
      /\ k <= m => Len(d) = m - k /\ \A j \in 1..Len(d) : d[j] = data[k + j]
      /\ k >= m => d = <<>>
  <2>1. CASE p > ReqLen
    <3>1. d = data /\ k = 0 /\ \A j \in 1..Len(data) : 0 + j = j
      BY <1>1, <1>2, <2>1 DEF Client!Skip
    <3> HIDE DEF d, k
    <3>2. 0 >= m => data = <<>>
      BY <1>1, EmptySeq
    <3> HIDE DEF m
    <3> QED
      BY <1>1, <3>1, <3>2 DEF m
  <2>2. CASE ~(p > ReqLen)
    <3>1. d = SubSeq(data, k + 1, m) /\ m <= Len(data)
      <4>1. d = SubSeq(data, ReqLen - p + 1, m)
        BY <2>2 DEF Client!Skip
      <4>2. k = ReqLen - p /\ m <= Len(data)
        BY <1>1, <2>2
      <4> QED
        BY <4>1, <4>2
    <3> HIDE DEF d, k, m
    <3> QED
      BY <1>1, <1>2, <3>1, PartPlaces
  <2> QED
    BY <2>1, <2>2
<1> HIDE DEF d, k
<1>4. /\ new \in Seq(Byte) /\ Len(new) = Len(a) + Len(d)
      /\ \A j \in 1..Len(a) : new[j] = a[j]
      /\ \A j \in 1..Len(d) : new[Len(a) + j] = d[j]
  BY <1>1, <1>3, JoinedPlaces
<1> HIDE DEF new
<1>5. p + m > ReqLen => Len(new) = (p + m) - ReqLen
  <2> HIDE DEF m
  <2> SUFFICES ASSUME p + m > ReqLen PROVE Len(new) = (p + m) - ReqLen
    OBVIOUS
  <2>1. k <= m
    BY <1>1, <1>2
  <2>2. Len(d) = m - k /\ Len(new) = Len(a) + Len(d)
    BY <1>3, <1>4, <2>1
  <2> QED
    BY <1>1, <1>2, <2>2
<1>6. p + m <= ReqLen => new = <<>>
  <2> HIDE DEF m
  <2>1. p + m <= ReqLen => d = <<>> /\ Len(a) = 0
    BY <1>1, <1>2, <1>3
  <2>2. d = <<>> => Len(d) = 0
    OBVIOUS
  <2> QED
    BY <1>4, <2>1, <2>2, EmptySeq
<1>7. ASSUME NEW j \in 1..Len(new) PROVE new[j] = Whole[ReqLen + j]
  <2>1. CASE j <= Len(a)
    <3>1. j \in 1..Len(a)
      BY <1>1, <1>3, <1>4, <2>1
    <3> QED
      BY <1>4, <3>1 DEF Echoless
  <2>2. CASE ~(j <= Len(a))
    <3> DEFINE i == j - Len(a)
    <3>1. i \in 1..Len(d) /\ Len(a) + i = j
      BY <1>1, <1>3, <1>4, <2>2
    <3>2. k <= m
      <4> HIDE DEF m
      <4>1. d = <<>> => Len(d) = 0
        OBVIOUS
      <4> QED
        BY <1>1, <1>2, <1>3, <3>1, <4>1
    <3> HIDE DEF i
    <3>3. k + i \in 1..m
      BY <1>1, <1>2, <1>3, <3>1, <3>2
    <3>4. p + (k + i) = ReqLen + j
      BY <1>1, <1>2, <3>1
    <3>5. new[j] = d[i] /\ d[i] = data[k + i] /\ data[k + i] = Whole[p + (k + i)]
      BY <1>3, <1>4, <3>1, <3>2, <3>3
    <3> QED
      BY <3>4, <3>5
  <2> QED
    BY <2>1, <2>2
<1>8. Echoless(new, p + m)
  <2> HIDE DEF m
  <2>1. \A j \in 1..Len(new) : new[j] = Whole[ReqLen + j]
    BY <1>7
  <2>2. new \in Seq(Byte)
    BY <1>4
  <2> DEFINE s == p + m
  <2>3. (s > ReqLen => Len(new) = s - ReqLen) /\ (s <= ReqLen => new = <<>>)
    BY <1>5, <1>6
  <2> HIDE DEF s
  <2>4. Echoless(new, s)
    BY <2>1, <2>2, <2>3, Zenon DEF Echoless
  <2> QED
    BY <2>4 DEF s
<1> QED
  BY <1>8 DEF new, d, m

-----------------------------------------------------------------------------
LEMMA PromptIs ==
  ASSUME greeting \in Seq(Byte), NEW k \in 2..Len(greeting)
  PROVE  Client!PromptAt(k) <=> greeting[k - 1] = "n" /\ greeting[k] = "."
<1> DEFINE s == SubSeq(greeting, k - 1, k)
<1>1. k - 2 \in Nat /\ k \in Nat /\ k <= Len(greeting) /\ k >= 2 /\ (k - 2) + 1 = k - 1
      /\ (k - 2) + 2 = k /\ k - (k - 2) = 2 /\ k - 2 <= k
  OBVIOUS
<1>2. /\ SubSeq(greeting, (k - 2) + 1, k) \in Seq(Byte)
      /\ Len(SubSeq(greeting, (k - 2) + 1, k)) = k - (k - 2)
      /\ \A j \in 1..(k - (k - 2)) : SubSeq(greeting, (k - 2) + 1, k)[j] = greeting[(k - 2) + j]
  BY <1>1, PartPlaces
<1>3. s \in Seq(Byte) /\ Len(s) = 2 /\ s[1] = greeting[k - 1] /\ s[2] = greeting[k]
  <2>1. 1 \in 1..2 /\ 2 \in 1..2
    OBVIOUS
  <2> QED
    BY <1>1, <1>2, <2>1
<1> HIDE DEF s
<1>4. s = <<"n", ".">> <=> s[1] = "n" /\ s[2] = "."
  <2>1. s = <<s[1], s[2]>>
    BY <1>3
  <2> QED
    BY <2>1
<1> QED
  BY <1>1, <1>3, <1>4 DEF Client!PromptAt, Client!Prompt, Client!NewLine, Client!Dot, s

\* Where the client stops, nothing is claimed any more.
LEMMA StopsHeeding ==
  ASSUME Heeding, greeting' = greeting, tel'.at \in {"failed", "crashed", "killed"}
  PROVE  Heeding'
BY DEF Heeding, Client!AsksAtPrompt

LEMMA ConnectHeeding ==
  ASSUME Sent, Heeding, Client!Connect
  PROVE  Heeding'
<1>1. tel.at = "connect" /\ tel.sent = 0 /\ net' = net /\ server' = server /\ greeting' = greeting /\ late' = late
  BY DEF Client!Connect, Client!Quiet, Sent, Unsent
<1>2. CASE Client!Leave("failed")
  <2>1. tel'.at = "failed"
    BY <1>2 DEF Client!Leave, Sent, Fields
  <2> QED
    BY <1>1, <2>1, StopsHeeding
<1>3. CASE Client!Leave("prompt")
  <2>1. /\ tel'.at = "prompt" /\ tel'.read = tel.read /\ tel'.i = tel.i /\ tel'.sent = tel.sent
        /\ tel'.received = tel.received /\ tel'.answer = tel.answer
    BY <1>3 DEF Client!Leave, Sent, Fields
  <2>2. tel.read = 0 /\ Unanswered /\ Matching /\ greeting \in Seq(Byte)
    BY <1>1 DEF Heeding
  <2>3. Unanswered' /\ Matching'
    BY <1>1, <2>1, <2>2 DEF Unanswered, Comes, Matching
  <2>4. Client!AsksAtPrompt'
    BY <2>1, <2>2 DEF Client!AsksAtPrompt
  <2> QED
    BY <1>1, <2>1, <2>2, <2>3, <2>4 DEF Heeding
<1> QED
  BY <1>2, <1>3 DEF Client!Connect

\* The matcher knows enough to miss a prompt only after another empty line
\* (hw12/src/main.c:93-103).
LEMMA ReadHeeding ==
  ASSUME Sent, Heeding, Client!ReadPrompt
  PROVE  Heeding'
<1> DEFINE c == Head(net.in)
           i == Client!Match(c)
<1>1. /\ tel.at = "prompt" /\ tel.sent = 0 /\ net.in # <<>> /\ greeting \in Seq(Byte)
      /\ server' = server /\ greeting' = greeting /\ late' = late
      /\ net'.in = Tail(net.in) /\ net'.answered = net.answered
  BY DEF Client!ReadPrompt, Sent, Fields, Unsent, Heeding
<1>2. /\ tel'.read = tel.read + 1 /\ tel'.i = IF i = 2 THEN 0 ELSE i
      /\ tel'.at = IF i = 2 THEN "request" ELSE "prompt"
      /\ tel'.sent = 0 /\ tel'.received = tel.received /\ tel'.answer = tel.answer
  BY <1>1 DEF Client!ReadPrompt, Sent, Fields, Client!Prompt
<1>3. Unanswered /\ Matching /\ Client!AsksAtPrompt /\ Comes(greeting, tel.read, net.in, server)
  BY <1>1 DEF Heeding, Unanswered
<1>4. /\ net.in \in Seq(Byte) /\ Len(net.in) \in Nat /\ Len(net.in) >= 1 /\ tel.read \in Nat
      /\ tel.read + 1 <= Len(greeting) /\ c = greeting[tel.read + 1]
  <2>1. net.in \in Seq(Byte) /\ server \in Seq(Byte) /\ tel.read \in Nat
        /\ tel.read + Len(net.in) + Len(server) = Len(greeting)
    BY <1>3 DEF Comes
  <2>2. Len(net.in) \in Nat /\ Len(net.in) >= 1 /\ Len(server) \in Nat /\ c = net.in[1]
    BY <1>1, <2>1
  <2>3. 1 \in 1..Len(net.in)
    BY <2>2
  <2>4. net.in[1] = greeting[tel.read + 1]
    BY <1>3, <2>3 DEF Comes
  <2> QED
    BY <2>1, <2>2, <2>4
<1>5. Comes(greeting, tel.read + 1, Tail(net.in), server)
  <2>1. 1 \in 0..Len(net.in)
    BY <1>4
  <2>2. Tail(net.in) = SubSeq(net.in, 1 + 1, Len(net.in))
    BY <1>1, <1>4
  <2>3. Comes(greeting, tel.read + 1, SubSeq(net.in, 1 + 1, Len(net.in)), server)
    BY <1>3, <2>1, ComesRead
  <2> QED
    BY <2>2, <2>3
<1>6. Unanswered'
  BY <1>1, <1>2, <1>3, <1>5 DEF Unanswered, Comes
<1>7. /\ tel.i = 0 => i = IF c = "n" THEN 1 ELSE 0
      /\ tel.i = 1 => i = IF c = "." THEN 2 ELSE 0
      /\ tel.i \in {0, 1}
  BY <1>3 DEF Matching, Client!Match, Client!Prompt, Client!NewLine, Client!Dot
<1> DEFINE r == tel.read
<1>8. /\ r \in Nat /\ r + 1 <= Len(greeting) /\ Len(greeting) \in Nat /\ c = greeting[r + 1]
      /\ tel.i = 1 => r > 0 /\ greeting[r] = "n"
      /\ tel.i = 0 /\ r > 0 /\ greeting[r] = "n" => r > 1 /\ greeting[r - 1] = "n"
  BY <1>1, <1>3, <1>4 DEF Matching
<1>9. r > 0 => (Client!PromptAt(r + 1) <=> greeting[r] = "n" /\ c = ".")
  <2> SUFFICES ASSUME r > 0 PROVE Client!PromptAt(r + 1) <=> greeting[r] = "n" /\ c = "."
    OBVIOUS
  <2> HIDE DEF c, r
  <2>1. r + 1 \in 2..Len(greeting) /\ (r + 1) - 1 = r
    BY <1>8
  <2> QED
    BY <1>1, <1>8, <2>1, PromptIs
<1>10. CASE i = 2
  <2>1. tel.i = 1 /\ c = "."
    BY <1>7, <1>10
  <2>2. Client!PromptAt(r + 1)
    BY <1>8, <1>9, <2>1
  <2>3. tel'.at = "request" /\ tel'.read = r + 1
    BY <1>2, <1>10
  <2>4. Client!AsksAtPrompt'
    BY <1>1, <2>2, <2>3 DEF Client!AsksAtPrompt, Client!PromptAt
  <2> QED
    BY <1>1, <1>6, <2>3, <2>4 DEF Heeding
<1>11. CASE i # 2
  <2>1. tel'.at = "prompt" /\ tel'.read = r + 1 /\ tel'.i = i /\ tel'.sent = 0
    BY <1>2, <1>11
  <2>2. /\ i \in {0, 1}
        /\ i = 1 => c = "n"
        /\ i = 0 /\ c = "n" => r > 0 /\ greeting[r] = "n"
    BY <1>7, <1>8, <1>11
  <2>3. Matching'
    <3> HIDE DEF c, i, r
    <3>1. r + 1 > 0 /\ (r > 0 => r + 1 > 1) /\ (r + 1) - 1 = r
      BY <1>8
    <3> QED
      BY <1>1, <1>8, <2>1, <2>2, <3>1 DEF Matching
  <2>4. ASSUME NEW k \in 2..(r + 1), Client!PromptAt(k) PROVE k > 2 /\ greeting[k - 2] = "n"
    <3>1. CASE k \in 2..r
      BY <1>1, <1>3, <2>4, <3>1 DEF Client!AsksAtPrompt, Client!NewLine
    <3>2. CASE k = r + 1
      <4>1. r > 0
        BY <1>8, <3>2
      <4>2. greeting[r] = "n" /\ c = "."
        BY <1>9, <2>4, <3>2, <4>1
      <4>3. tel.i = 0
        BY <1>7, <1>11, <4>2
      <4>4. r > 1 /\ greeting[r - 1] = "n"
        BY <1>8, <4>1, <4>2, <4>3
      <4> HIDE DEF r
      <4>5. k > 2 /\ k - 2 = r - 1
        BY <1>8, <3>2, <4>4
      <4> QED
        BY <4>4, <4>5
    <3> HIDE DEF r
    <3> QED
      BY <1>8, <3>1, <3>2
  <2>5. Client!AsksAtPrompt'
    BY <1>1, <2>1, <2>4 DEF Client!AsksAtPrompt, Client!PromptAt, Client!NewLine, Client!Prompt, Client!Dot
  <2> QED
    BY <1>1, <1>6, <2>1, <2>3, <2>5 DEF Heeding
<1> QED
  BY <1>10, <1>11

\* A timeout is only counted.
LEMMA NoPromptHeeding ==
  ASSUME Sent, Heeding, Client!NoPrompt
  PROVE  Heeding'
<1>1. tel.at = "prompt" /\ tel.sent = 0 /\ net' = net /\ server' = server /\ greeting' = greeting /\ late' = late
  BY DEF Client!NoPrompt, Client!Quiet, Sent, Unsent
<1>2. CASE tel' = [tel EXCEPT !.tries = @ - 1]
  <2>1. /\ tel'.at = "prompt" /\ tel'.read = tel.read /\ tel'.i = tel.i /\ tel'.sent = tel.sent
        /\ tel'.received = tel.received /\ tel'.answer = tel.answer
    BY <1>1, <1>2 DEF Sent, Fields
  <2>2. Unanswered /\ Matching /\ greeting \in Seq(Byte) /\ Client!AsksAtPrompt
    BY <1>1 DEF Heeding
  <2>3. Unanswered' /\ Matching'
    BY <1>1, <2>1, <2>2 DEF Unanswered, Comes, Matching
  <2>4. Client!AsksAtPrompt'
    BY <1>1, <2>1, <2>2 DEF Client!AsksAtPrompt, Client!PromptAt
  <2> QED
    BY <1>1, <2>1, <2>2, <2>3, <2>4 DEF Heeding
<1>3. CASE Client!ErrorTooEarly
  <2>1. tel'.at \in {"failed", "crashed"}
    BY <1>3 DEF Client!ErrorTooEarly, Client!Leave, Sent, Fields
  <2> QED
    BY <1>1, <2>1, StopsHeeding
<1> QED
  BY <1>2, <1>3 DEF Client!NoPrompt

\* The client goes on to the answer only from a send that took all, when nothing has
\* been answered yet.
LEMMA SendHeeding ==
  ASSUME Spoken, Sent, Heeding, Client!Send
  PROVE  Heeding'
<1>1. PICK n \in 1..(ReqLen - tel.sent) :
        /\ Client!SendSome(n)
        /\ \/ n < ReqLen - n /\ tel' = [tel EXCEPT !.sent = n]
           \/ n >= ReqLen - n /\ Client!Done(n) /\ Client!Leave("answer")
           \/ n >= ReqLen - n /\ ~Client!Done(n) /\ Client!ErrorTooEarly
  BY DEF Client!Send
<1>2. /\ tel.at = "request" /\ tel.sent \in -1..ReqLen /\ ReqLen \in Nat
      /\ (tel.sent = -1 => net.hit) /\ net'.hit = net.hit
      /\ server' = server /\ greeting' = greeting /\ late' = late /\ greeting \in Seq(Byte)
      /\ net'.in = net.in /\ net'.answered = net.answered
      /\ Client!PromptAt(tel.read)
  BY <1>1 DEF Client!Send, Client!SendSome, Sent, Fields, Unsent, Spoken, Heeding, Client!AsksAtPrompt,
           Client!TelehackAssumption
<1>3. ASSUME tel'.read = tel.read, tel'.at # "prompt" PROVE Client!AsksAtPrompt'
  BY <1>2, <1>3 DEF Client!AsksAtPrompt, Client!PromptAt, Client!Prompt, Client!NewLine, Client!Dot
<1>4. CASE n < ReqLen - n /\ tel' = [tel EXCEPT !.sent = n]
  <2>1. tel'.at = "request" /\ tel'.sent = n /\ tel'.read = tel.read
    BY <1>2, <1>4 DEF Sent, Fields
  <2>2. n # 0
    BY <1>2
  <2> QED
    BY <1>2, <1>3, <2>1, <2>2 DEF Heeding
<1>5. CASE n >= ReqLen - n /\ Client!Done(n) /\ Client!Leave("answer")
  <2>1. ASSUME ~net.hit PROVE tel.sent = 0
    <3> DEFINE k == tel.sent
    <3>1. k \in -1..ReqLen /\ k # -1 /\ n \in 1..(ReqLen - k) /\ n >= ReqLen /\ ReqLen \in Nat
      BY <1>2, <1>5, <2>1 DEF Client!Done
    <3> HIDE DEF k
    <3>2. k = 0
      BY <3>1
    <3> QED
      BY <3>2 DEF k
  <2>2. /\ tel'.at = "answer" /\ tel'.read = tel.read /\ tel'.received = tel.received /\ tel'.answer = tel.answer
    BY <1>5 DEF Client!Leave, Sent, Fields
  <2>3. ASSUME ~net.hit PROVE Unanswered
    BY <1>2, <2>1, <2>3 DEF Heeding
  <2>4. ASSUME tel.read = Len(greeting), ~net.hit PROVE net.in = <<>> /\ server = <<>>
    <3>1. /\ net.in \in Seq(Byte) /\ server \in Seq(Byte) /\ tel.read \in Nat
          /\ tel.read + Len(net.in) + Len(server) = Len(greeting)
      BY <2>3, <2>4 DEF Unanswered, Comes
    <3>2. Len(net.in) \in Nat /\ Len(server) \in Nat
      BY <3>1
    <3>3. Len(net.in) = 0 /\ Len(server) = 0
      BY <2>4, <3>1, <3>2
    <3> QED
      BY <3>1, <3>3, EmptySeq
  <2>5. ASSUME tel'.read = Len(greeting'), ~net'.hit PROVE Answering'
    BY <1>2, <2>2, <2>3, <2>4, <2>5 DEF Answering, Unanswered
  <2> QED
    BY <1>2, <1>3, <2>2, <2>5 DEF Heeding
<1>6. CASE Client!ErrorTooEarly
  <2>1. tel'.at \in {"failed", "crashed"}
    BY <1>6 DEF Client!ErrorTooEarly, Client!Leave, Sent, Fields
  <2> QED
    BY <1>2, <2>1, StopsHeeding
<1> QED
  BY <1>1, <1>4, <1>5, <1>6

LEMMA FailsHeeding ==
  ASSUME Sent, Heeding, Client!RequestFails
  PROVE  Heeding'
<1>1. tel'.at \in {"failed", "crashed", "killed"} /\ greeting' = greeting
  BY DEF Client!RequestFails, Client!ErrorTooEarly, Client!Leave, Client!Quiet, Sent, Fields
<1> QED
  BY <1>1, StopsHeeding

\* Once `sent` is -1 nothing is claimed of what is answered.
LEMMA InterruptedHeeding ==
  ASSUME Sent, Heeding, Client!SendInterrupted
  PROVE  Heeding'
<1>1. /\ tel.at = "request" /\ tel'.at = "request" /\ tel'.sent = -1 /\ tel'.read = tel.read
      /\ greeting' = greeting /\ greeting \in Seq(Byte) /\ Client!PromptAt(tel.read)
  BY DEF Client!SendInterrupted, Sent, Fields, Heeding, Client!AsksAtPrompt
<1>2. Client!AsksAtPrompt'
  BY <1>1 DEF Client!AsksAtPrompt, Client!PromptAt, Client!Prompt, Client!NewLine, Client!Dot
<1> QED
  BY <1>1, <1>2 DEF Heeding

\* What is taken of the answer is what follows the echo, in whatever pieces it comes.
LEMMA AnswerHeeding ==
  ASSUME Spoken, Sent, Heeding, Client!ReadAnswer
  PROVE  Heeding'
<1> DEFINE m == IF Len(net.in) < BufLen THEN Len(net.in) ELSE BufLen
<1>1. /\ tel.at = "answer" /\ net.in # <<>> /\ greeting \in Seq(Byte)
      /\ server' = server /\ greeting' = greeting /\ late' = late
      /\ net'.in = SubSeq(net.in, Len(Client!Chunk) + 1, Len(net.in)) /\ net'.answered = net.answered
      /\ net'.hit = net.hit /\ Client!PromptAt(tel.read)
  BY DEF Client!ReadAnswer, Sent, Fields, Heeding, Client!AsksAtPrompt
<1>2. CASE Client!Leave("failed")
  <2>1. tel'.at = "failed"
    BY <1>2 DEF Client!Leave, Sent, Fields
  <2> QED
    BY <1>1, <2>1, StopsHeeding
<1>3. CASE tel' = [tel EXCEPT !.answer = @ \o Client!Skip(Client!Chunk), !.received = @ + Len(Client!Chunk)]
  <2>1. /\ tel'.at = "answer" /\ tel'.read = tel.read
        /\ tel'.answer = tel.answer \o Client!Skip(Client!Chunk)
        /\ tel'.received = tel.received + Len(Client!Chunk)
    BY <1>1, <1>3 DEF Sent, Fields
  <2>2. Client!AsksAtPrompt'
    BY <1>1, <2>1 DEF Client!AsksAtPrompt, Client!PromptAt, Client!Prompt, Client!NewLine, Client!Dot
  <2>3. ASSUME tel.read = Len(greeting), ~net.hit PROVE Answering'
    <3>1. net.answered /\ Comes(Whole, tel.received, net.in, server) /\ Echoless(tel.answer, tel.received)
      BY <1>1, <2>3 DEF Heeding, Answering
    <3>2. net.in \in Seq(Byte) /\ Len(net.in) \in Nat /\ tel.received \in Nat /\ BufLen \in Nat
      BY <3>1 DEF Comes, Spoken
    <3>3. m \in 0..Len(net.in)
      BY <3>2
    <3>4. Client!Chunk = SubSeq(net.in, 1, m)
      BY DEF Client!Chunk
    <3> HIDE DEF m
    <3>5. /\ Comes(Whole, tel.received + m, SubSeq(net.in, m + 1, Len(net.in)), server)
          /\ Client!Chunk \in Seq(Byte) /\ Len(Client!Chunk) = m
          /\ \A j \in 1..m : Client!Chunk[j] = Whole[tel.received + j]
      <4>1. Comes(Whole, tel.received + m, SubSeq(net.in, m + 1, Len(net.in)), server)
        BY <3>1, <3>3, ComesRead
      <4>2. SubSeq(net.in, 1, m) \in Seq(Byte) /\ Len(SubSeq(net.in, 1, m)) = m
        BY <3>1, <3>3, ComesRead
      <4>3. \A j \in 1..m : SubSeq(net.in, 1, m)[j] = Whole[tel.received + j]
        BY <3>1, <3>3, ComesRead
      <4> QED
        BY <3>4, <4>1, <4>2, <4>3
    <3>6. Echoless(tel.answer \o Client!Skip(Client!Chunk), tel.received + m)
      <4> DEFINE data == Client!Chunk
      <4>1. data \in Seq(Byte) /\ Len(data) = m /\ \A j \in 1..Len(data) : data[j] = Whole[tel.received + j]
        BY <3>5
      <4> HIDE DEF data
      <4>2. Echoless(tel.answer \o Client!Skip(data), tel.received + Len(data))
        BY <3>1, <3>2, <4>1, EcholessMore
      <4> QED
        BY <4>1, <4>2 DEF data
    <3>7. tel'.received = tel.received + m /\ net'.in = SubSeq(net.in, m + 1, Len(net.in))
      BY <1>1, <2>1, <3>5
    <3>8. Comes(Whole, tel.received, net.in, server)' /\ Echoless(tel.answer, tel.received)'
      BY <1>1, <2>1, <3>5, <3>6, <3>7 DEF Comes, Echoless, Whole
    <3> QED
      BY <1>1, <2>1, <3>1, <3>8 DEF Answering
  <2> QED
    BY <1>1, <2>1, <2>2, <2>3 DEF Heeding
<1> QED
  BY <1>2, <1>3 DEF Client!ReadAnswer

LEMMA EndHeeding ==
  ASSUME Sent, Heeding, Client!ReadEnd
  PROVE  Heeding'
<1>1. /\ tel.at = "answer" /\ tel'.at = "spins" /\ tel'.read = tel.read /\ greeting' = greeting
      /\ greeting \in Seq(Byte) /\ Client!PromptAt(tel.read)
  BY DEF Client!ReadEnd, Client!Leave, Client!Quiet, Sent, Fields, Heeding, Client!AsksAtPrompt
<1> QED
  BY <1>1 DEF Heeding, Client!AsksAtPrompt, Client!PromptAt, Client!Prompt, Client!NewLine, Client!Dot

\* When the answer ends with nothing left to come, what was taken is the text and the
\* prompt (hw12/src/main.c:140-160).
LEMMA SilenceHeeding ==
  ASSUME Spoken, Sent, Heeding, Client!Silence \/ Client!ReadFails
  PROVE  Heeding'
<1> DEFINE a == tel.answer
<1>1. /\ tel.at = "answer" /\ greeting' = greeting /\ net' = net /\ greeting \in Seq(Byte)
      /\ late' = (net.in # <<>> \/ server # <<>>) /\ Client!PromptAt(tel.read)
  BY DEF Client!Silence, Client!ReadFails, Client!EndAnswer, Heeding, Client!AsksAtPrompt
<1>2. CASE Client!Leave("failed")
  <2>1. tel'.at = "failed"
    BY <1>2 DEF Client!Leave, Sent, Fields
  <2> QED
    BY <1>1, <2>1, StopsHeeding
<1>3. CASE Len(a) > 1 /\ tel' = [tel EXCEPT !.answer = SubSeq(@, 1, Len(@) - 1), !.at = "printed"]
  <2>1. tel'.at = "printed" /\ tel'.read = tel.read /\ tel'.answer = SubSeq(a, 1, Len(a) - 1)
    BY <1>3 DEF Sent, Fields
  <2>2. Client!AsksAtPrompt'
    BY <1>1, <2>1 DEF Client!AsksAtPrompt, Client!PromptAt, Client!Prompt, Client!NewLine, Client!Dot
  <2>3. ASSUME tel.read = Len(greeting), ~net.hit PROVE Answering'
    <3>1. Answering
      BY <1>1, <2>3 DEF Heeding
    <3>2. net.answered
      <4> SUFFICES ASSUME ~net.answered PROVE FALSE
        OBVIOUS
      <4>1. a = <<>>
        BY <3>1 DEF Answering
      <4>2. Len(<<>>) = 0
        OBVIOUS
      <4> QED
        BY <1>3, <4>1, <4>2
    <3>3. Comes(Whole, tel.received, net.in, server) /\ Echoless(a, tel.received)
      BY <1>1, <3>1, <3>2 DEF Answering
    <3>4. ASSUME net.in = <<>>, server = <<>> PROVE SubSeq(a, 1, Len(a) - 1) = Text \o <<"n">>
      <4> DEFINE n == Len(Text)
      <4>1. /\ Text \in Seq(Byte) /\ n \in Nat /\ ReqLen \in Nat /\ Len(Whole) = ReqLen + n + 2
            /\ \A j \in 1..n : Whole[ReqLen + j] = Text[j]
            /\ Whole[ReqLen + n + 1] = "n"
        BY SpokenBytes DEF Spoken
      <4>2. tel.received = ReqLen + n + 2
        <5>1. tel.received \in Nat /\ tel.received + Len(net.in) + Len(server) = Len(Whole)
          BY <3>3 DEF Comes
        <5>2. Len(net.in) = 0 /\ Len(server) = 0
          BY <3>4
        <5> HIDE DEF n
        <5> QED
          BY <4>1, <5>1, <5>2
      <4>3. a \in Seq(Byte) /\ Len(a) = n + 2 /\ \A j \in 1..Len(a) : a[j] = Whole[ReqLen + j]
        <5>1. a \in Seq(Byte) /\ \A j \in 1..Len(a) : a[j] = Whole[ReqLen + j]
          BY <3>3 DEF Echoless
        <5>2. tel.received > ReqLen => Len(a) = tel.received - ReqLen
          BY <3>3 DEF Echoless
        <5> HIDE DEF n, a
        <5>3. tel.received > ReqLen /\ tel.received - ReqLen = n + 2
          BY <4>1, <4>2
        <5> QED
          BY <5>1, <5>2, <5>3
      <4> DEFINE b == SubSeq(a, 1, Len(a) - 1)
                 t == Text \o <<"n">>
      <4>4. b \in Seq(Byte) /\ Len(b) = n + 1 /\ \A j \in 1..(n + 1) : b[j] = a[j]
        <5> HIDE DEF n, a
        <5>1. /\ 0 \in Nat /\ Len(a) - 1 = n + 1 /\ n + 1 \in Nat /\ n + 1 <= Len(a) /\ 0 <= n + 1
              /\ (n + 1) - 0 = n + 1 /\ 0 + 1 = 1 /\ \A j \in 1..(n + 1) : 0 + j = j
          BY <4>1, <4>3
        <5>2. /\ SubSeq(a, 0 + 1, n + 1) \in Seq(Byte)
              /\ Len(SubSeq(a, 0 + 1, n + 1)) = (n + 1) - 0
              /\ \A j \in 1..((n + 1) - 0) : SubSeq(a, 0 + 1, n + 1)[j] = a[0 + j]
          BY <4>3, <5>1, PartPlaces
        <5> QED
          BY <5>1, <5>2
      <4>5. t \in Seq(Byte) /\ Len(t) = n + 1 /\ (\A j \in 1..n : t[j] = Text[j]) /\ t[n + 1] = "n"
        <5>1. <<"n">> \in Seq(Byte) /\ Len(<<"n">>) = 1 /\ <<"n">>[1] = "n" /\ 1 \in 1..1
          BY DEF Byte
        <5> QED
          BY <4>1, <5>1, JoinedPlaces
      <4> HIDE DEF b, t, a, n
      <4>6. ASSUME NEW j \in 1..(n + 1) PROVE b[j] = t[j]
        <5>1. j \in 1..(n + 2)
          BY <4>1
        <5>2. b[j] = Whole[ReqLen + j]
          BY <4>3, <4>4, <5>1
        <5>3. CASE j \in 1..n
          BY <4>1, <4>5, <5>2, <5>3
        <5>4. CASE j = n + 1
          <6>1. ReqLen + j = ReqLen + n + 1
            BY <4>1, <5>4
          <6> QED
            BY <4>1, <4>5, <5>2, <5>4, <6>1
        <5> QED
          BY <4>1, <5>3, <5>4
      <4>7. b = t
        BY <4>4, <4>5, <4>6, SeqEqual
      <4> QED
        BY <4>7 DEF b, t
    <3> QED
      BY <1>1, <2>1, <3>2, <3>4 DEF Answering
  <2> QED
    BY <1>1, <2>1, <2>2, <2>3 DEF Heeding
<1> QED
  BY <1>2, <1>3 DEF Client!Silence, Client!ReadFails, Client!EndAnswer

\* What the server says next is what was to come next.
LEMMA SayHeeding ==
  ASSUME Sent, Heeding, Client!Say
  PROVE  Heeding'
<1>1. PICK n \in 1..Len(server) :
        /\ net' = [net EXCEPT !.in = @ \o SubSeq(server, 1, n)]
        /\ server' = SubSeq(server, n + 1, Len(server))
  BY DEF Client!Say
<1>2. /\ tel' = tel /\ greeting' = greeting /\ late' = late /\ server # <<>> /\ tel.at # "connect"
      /\ net'.in = net.in \o SubSeq(server, 1, n) /\ net'.answered = net.answered
      /\ net'.hit = net.hit
  BY <1>1 DEF Client!Say, Client!Talking, Sent, Fields
<1>3. ASSUME Unanswered PROVE Unanswered'
  <2>1. Comes(greeting, tel.read, net.in, server)
    BY <1>3 DEF Unanswered
  <2>2. Comes(greeting, tel.read, net.in \o SubSeq(server, 1, n), SubSeq(server, n + 1, Len(server)))
    BY <2>1, ComesSaid
  <2>3. Comes(greeting, tel.read, net.in, server)'
    BY <1>1, <1>2, <2>2 DEF Comes
  <2> QED
    BY <1>2, <1>3, <2>3 DEF Unanswered
<1>4. ASSUME Answering PROVE Answering'
  <2>1. net.answered
    BY <1>2, <1>4 DEF Answering
  <2>2. ASSUME tel.at = "answer"
        PROVE  Comes(Whole, tel.received, net.in, server)' /\ Echoless(tel.answer, tel.received)'
    <3>1. Comes(Whole, tel.received, net.in, server) /\ Echoless(tel.answer, tel.received)
      BY <1>4, <2>1, <2>2 DEF Answering
    <3>2. Comes(Whole, tel.received, net.in \o SubSeq(server, 1, n), SubSeq(server, n + 1, Len(server)))
      BY <3>1, ComesSaid
    <3> QED
      BY <1>1, <1>2, <3>1, <3>2 DEF Comes, Echoless, Whole
  <2> QED
    BY <1>2, <1>4, <2>1, <2>2 DEF Answering
<1>5. Matching => Matching'
  BY <1>2 DEF Matching
<1>6. Client!AsksAtPrompt => Client!AsksAtPrompt'
  BY <1>2 DEF Client!AsksAtPrompt, Client!PromptAt, Client!Prompt, Client!NewLine, Client!Dot
<1> QED
  BY <1>2, <1>3, <1>4, <1>5, <1>6 DEF Heeding

\* The server answers a whole request, and what it then says is `Whole`.
LEMMA ServesHeeding ==
  ASSUME Spoken, Sent, Heeding, Client!Answer
  PROVE  Heeding'
<1>1. /\ tel' = tel /\ greeting' = greeting /\ late' = late /\ greeting \in Seq(Byte)
      /\ ~net.answered /\ server = <<>> /\ Len(net.out) >= ReqLen
      /\ server' = SubSeq(net.out, 1, ReqLen) \o Text \o Client!Prompt
      /\ net'.answered /\ net'.in = net.in /\ net'.hit = net.hit
  BY DEF Client!Answer, Sent, Fields, Heeding
<1>2. ~(tel.at \in {"connect", "prompt", "request"} /\ tel.sent = 0)
  <2> SUFFICES ASSUME net.out = <<>> PROVE FALSE
    BY DEF Sent, Unsent
  <2>1. Len(<<>>) = 0 /\ ReqLen \in Nat /\ ReqLen > 0
    BY DEF Spoken, Client!TelehackAssumption
  <2> QED
    BY <1>1, <2>1
<1>3. ASSUME tel.at \in {"answer", "printed"}, tel.read = Len(greeting), ~net.hit PROVE Answering'
  <2>1. /\ tel.at = "answer" /\ net.in = <<>> /\ tel.received = 0 /\ tel.answer = <<>>
    BY <1>1, <1>3 DEF Heeding, Answering
  <2>2. server' = Whole
    <3>1. net.out = Client!Request
      BY <1>3, <2>1 DEF Sent, Client!RequestWhole
    <3>2. Client!Request \in Seq(Byte) /\ Len(Client!Request) = ReqLen
      BY SpokenBytes
    <3>3. SubSeq(Client!Request, 1, ReqLen) = Client!Request
      BY <3>2, SubSeqFull
    <3> QED
      BY <1>1, <3>1, <3>3 DEF Whole
  <2>3. Whole \in Seq(Byte) /\ Len(Whole) \in Nat /\ \A j \in 1..Len(Whole) : 0 + Len(<<>>) + j = j
    BY SpokenBytes
  <2>4. Comes(Whole, 0, <<>>, Whole)
    <3>1. <<>> \in Seq(Byte) /\ Len(<<>>) = 0 /\ 0 + Len(<<>>) + Len(Whole) = Len(Whole)
      BY <2>3
    <3>2. \A j \in 1..Len(<<>>) : FALSE
      BY <3>1
    <3> QED
      BY <2>3, <3>1, <3>2 DEF Comes
  <2>5. Echoless(<<>>, 0)
    <3>1. ReqLen \in Nat /\ <<>> \in Seq(Byte) /\ \A j \in 1..Len(<<>>) : FALSE
      BY DEF Spoken, Client!TelehackAssumption
    <3> QED
      BY <3>1 DEF Echoless
  <2>6. /\ Comes(Whole, tel.received, net.in, server)'
        /\ Echoless(tel.answer, tel.received)'
    <3>1. tel'.received = 0 /\ tel'.answer = <<>> /\ net'.in = <<>>
      BY <1>1, <2>1
    <3>2. Comes(Whole, tel'.received, net'.in, server') /\ Echoless(tel'.answer, tel'.received)
      BY <2>2, <2>4, <2>5, <3>1
    <3> QED
      BY <3>2
  <2> QED
    BY <1>1, <2>1, <2>6 DEF Answering
<1>4. ~(tel.at \in {"connect", "prompt"})
  BY <1>2 DEF Sent, Unsent
<1>5. Client!AsksAtPrompt'
  BY <1>1 DEF Heeding, Client!AsksAtPrompt, Client!PromptAt, Client!Prompt, Client!NewLine, Client!Dot
<1> QED
  BY <1>1, <1>2, <1>3, <1>4, <1>5 DEF Heeding

LEMMA IdleHeeding ==
  ASSUME Sent, Heeding, Client!Close \/ UNCHANGED Client!telVars
  PROVE  Heeding'
<1>1. /\ tel' = tel /\ greeting' = greeting /\ late' = late /\ server' = server
      /\ net'.in = net.in /\ net'.answered = net.answered /\ net'.hit = net.hit
  BY DEF Client!Close, Client!telVars, Sent, Fields
<1>2. (Unanswered => Unanswered') /\ (Matching => Matching')
  BY <1>1 DEF Unanswered, Matching, Comes
<1>3. Answering => Answering'
  BY <1>1 DEF Answering, Comes, Echoless, Whole
<1>4. Client!AsksAtPrompt => Client!AsksAtPrompt'
  BY <1>1 DEF Client!AsksAtPrompt, Client!PromptAt, Client!Prompt, Client!NewLine, Client!Dot
<1> QED
  BY <1>1, <1>2, <1>3, <1>4 DEF Heeding

LEMMA FirstHeeding ==
  ASSUME Spoken, Client!Init
  PROVE  Heeding
<1>1. /\ tel.at = "connect" /\ tel.i = 0 /\ tel.read = 0 /\ tel.received = 0 /\ tel.answer = <<>>
      /\ net.in = <<>> /\ ~net.answered /\ server = greeting /\ greeting \in Seq(Byte)
  BY SpokenBytes DEF Client!Init, Client!Begin
<1>2. Comes(greeting, 0, <<>>, greeting)
  <2>1. /\ <<>> \in Seq(Byte) /\ Len(<<>>) = 0 /\ Len(greeting) \in Nat
        /\ 0 + Len(<<>>) + Len(greeting) = Len(greeting)
        /\ \A j \in 1..Len(greeting) : 0 + Len(<<>>) + j = j
    BY <1>1
  <2>2. \A j \in 1..Len(<<>>) : FALSE
    BY <2>1
  <2> QED
    BY <1>1, <2>1, <2>2 DEF Comes
<1>3. Unanswered /\ Matching
  BY <1>1, <1>2 DEF Unanswered, Matching
<1> QED
  BY <1>1, <1>3 DEF Heeding, Client!AsksAtPrompt

-----------------------------------------------------------------------------
\* The client asks at a prompt and misses none but one after another empty line
\* (hw12/src/main.c:93-103), and what it prints of an answer that comes without a
\* pause or an error is the text and its newline (:140-160): whatever the greeting and the text,
\* in whatever pieces they come and however much is received at once.
THEOREM AnswerIsWhole ==
  ASSUME Spoken
  PROVE  Client!Spec => [](Client!AsksAtPrompt /\ Client!AnswerWhole)
<1>1. Client!TelehackAssumption /\ ReqLen \in Nat
  BY DEF Spoken, Client!TelehackAssumption
<1>2. Client!Init => Sent /\ Heeding
  BY <1>1, FirstHeeding, SentInit
<1>3. Sent /\ Heeding /\ [Client!Next]_Client!telVars => Sent' /\ Heeding'
  <2> SUFFICES ASSUME Sent, Heeding, [Client!Next]_Client!telVars PROVE Sent' /\ Heeding'
    OBVIOUS
  <2>1. Sent'
    BY <1>1, SentNext
  <2>2. Heeding'
    BY ConnectHeeding, ReadHeeding, NoPromptHeeding, SendHeeding, InterruptedHeeding, FailsHeeding,
       AnswerHeeding, EndHeeding, SilenceHeeding, SayHeeding, ServesHeeding, IdleHeeding
       DEF Client!Next, Client!Client, Client!Runs
  <2> QED
    BY <2>1, <2>2
<1>4. Heeding => Client!AsksAtPrompt /\ Client!AnswerWhole
  <2> SUFFICES ASSUME Heeding PROVE Client!AnswerWhole
    BY DEF Heeding
  <2>1. tel.at = "printed" /\ tel.read = Len(greeting) /\ ~net.hit => Answering
    BY DEF Heeding
  <2> QED
    BY <2>1 DEF Answering, Client!AnswerWhole, Client!NewLine
<1> QED
  BY <1>2, <1>3, <1>4, PTL DEF Client!Spec

-----------------------------------------------------------------------------
(* The weather report of hw4: whichever call fails, main frees what it had *)
(* and says why there is no report.                                        *)

\* gc_initial_buffer_size and gc_max_buffer_size (main.c:41-42): 1024 and 5 MiB, which is
\* 2 modulo 3, so that no size that has grown is the limit itself.
Sized == /\ FirstSize \in Nat /\ FirstSize > 1
         /\ TopSize \in Nat /\ FirstSize < TopSize /\ TopSize % 3 = 2
         /\ \A a \in Answers : a.size \in Nat

Before == {"url", "global", "curl"}
Main == {"header", "sethdr", "perform", "type", "finish", "parse", "look"}
Labels == {"clean3", "clean2", "clean1", "clean0"}

\* What is allocated where main is (main.c:159-250).
Has ==
    /\ at \in Before \cup {"options"} \cup Main \cup Labels \cup {"exited", "crashed"}
    /\ at \in {"url", "exited"} => has = {}
    /\ at \in {"global", "clean0"} => has = {"url"}
    /\ at \in {"curl", "clean1"} => has = {"url", "global"}
    /\ at \in {"options", "header", "clean2"} => has = {"url", "global", "curl"}
    /\ at \in {"sethdr", "perform", "type", "finish", "parse", "clean3"} => has = {"url", "global", "curl", "list"}
    /\ at = "look" => has = {"url", "global", "curl", "list", "node"}

\* What the buffer is: nothing, until the sixth option, and then a block under the limit.
Stored ==
    /\ asked.size \in Nat
    /\ buffer \in [data : {"garbage", "null", "held"}, size : Nat, room : Nat]
    /\ buffer.data = "held" => buffer.size <= buffer.room /\ 1 < buffer.room /\ buffer.room < TopSize
    /\ buffer.data # "held" /\ at # "exited" => buffer.size = 0 /\ buffer.room = 0
    /\ at = "exited" => buffer.data # "held"
    /\ at = "crashed" => buffer.data = "garbage"
    /\ at \in Before => buffer.data = "garbage" /\ option = 1
    /\ at = "options" => option \in 1..Report!Options
    /\ at \in Main \cup {"clean3"} => buffer.data # "garbage"
    /\ buffer.data = "garbage" => option \in 1..Report!Options /\ (at # "options" => option # Report!Options)

\* What has been found, and what has failed.
Told ==
    /\ DOMAIN outcome = {"result", "report"}
    /\ outcome.report \in Seq({Report!Wanted[k] : k \in 1..5}) /\ Len(outcome.report) <= 5
    /\ \A k \in 1..Len(outcome.report) : [path |-> Report!Wanted[k], tag |-> "string"] \in asked.nodes
    /\ at \in Before \cup {"options"} \cup Main => failing = {} /\ outcome.result = 0
    /\ at \in (Before \cup {"options"} \cup Main) \ {"look"} => outcome.report = <<>>
    /\ at \in Labels \cup {"exited"} =>
        /\ failing = {} => Len(outcome.report) = 5
        /\ failing # {} => outcome.report = <<>>
        /\ "curl" \in failing => outcome.result # 0
        /\ outcome.result # 0 => failing \subseteq {"curl", "url"}

Reporting == Has /\ Stored /\ Told

LEMMA FiveWanted == Len(Report!Wanted) = 5 /\ DOMAIN Report!Wanted = 1..5
  BY DEF Report!Wanted

LEMMA ReportStarts == ASSUME Sized, Report!Init PROVE Reporting
<1>1. Has
  BY DEF Report!Init, Has, Before
<1>2. Stored
  BY DEF Report!Init, Stored, Sized, Before, Main, Labels, Report!Options, Report!EarlyOptions
<1>3. Told
  BY DEF Report!Init, Told, Before, Main, Labels
<1> QED
  BY <1>1, <1>2, <1>3 DEF Reporting

LEMMA ReportingRight == ASSUME Reporting PROVE Report!AllFreed /\ Report!ReportOrReason /\ Report!InBuffer
<1>1. Report!AllFreed
  <2>1. at = "exited" => has = {} /\ buffer.data # "held"
    BY DEF Reporting, Has, Stored
  <2>2. at = "crashed" => option < Report!Options
    BY DEF Reporting, Stored, Report!Options, Report!EarlyOptions
  <2>3. at \in DOMAIN Report!FreesAt => Report!FreesAt[at] \in has
    <3>1. DOMAIN Report!FreesAt = {"clean3", "clean2", "clean1"}
      BY DEF Report!FreesAt
    <3>2. Report!FreesAt["clean3"] = "list" /\ Report!FreesAt["clean2"] = "curl"
     /\ Report!FreesAt["clean1"] = "global"
      BY DEF Report!FreesAt
    <3> QED
      BY <3>1, <3>2 DEF Reporting, Has
  <2> QED
    BY <2>1, <2>2, <2>3 DEF Report!AllFreed
<1>2. Report!ReportOrReason
  <2>1. outcome.report # <<>> <=> Len(outcome.report) # 0
    BY EmptySeq DEF Reporting, Told
  <2>2. Len(outcome.report) = 5 =>
          \A k \in DOMAIN Report!Wanted : [path |-> Report!Wanted[k], tag |-> "string"] \in asked.nodes
    BY FiveWanted DEF Reporting, Told
  <2> HIDE DEF Report!Wanted
  <2> QED
    BY <2>1, <2>2 DEF Reporting, Told, Report!ReportOrReason
<1>3. Report!InBuffer
  BY DEF Reporting, Stored, Report!InBuffer
<1> QED
  BY <1>1, <1>2, <1>3

\* After and FreesAt, place by place.
LEMMA CleanIs ==
  ASSUME Report!Clean
  PROVE  /\ at = "clean3" => at' = "clean2" /\ has' = has \ {"list"}
         /\ at = "clean2" => at' = "clean1" /\ has' = has \ {"curl"}
         /\ at = "clean1" => at' = "clean0" /\ has' = has \ {"global"}
         /\ at \in {"clean3", "clean2", "clean1"}
         /\ UNCHANGED <<asked, option, buffer, outcome, failing>>
<1>1. DOMAIN Report!After = {"clean3", "clean2", "clean1"}
  BY DEF Report!After
<1>2. Report!After["clean3"] = "clean2" /\ Report!After["clean2"] = "clean1"
     /\ Report!After["clean1"] = "clean0"
  BY DEF Report!After
<1>3. Report!FreesAt["clean3"] = "list" /\ Report!FreesAt["clean2"] = "curl"
     /\ Report!FreesAt["clean1"] = "global"
  BY DEF Report!FreesAt
<1> QED
  BY <1>1, <1>2, <1>3 DEF Report!Clean

\* What is allocated is what the place says.
LEMMA HasStep ==
  ASSUME Reporting, Report!Next
  PROVE  Has'
<1>1. CASE Report!MakeUrl
  BY <1>1 DEF Reporting, Has, Before, Main, Labels, Report!MakeUrl, Report!Get, Report!Goto
<1>2. CASE Report!GlobalInit
  BY <1>2 DEF Reporting, Has, Before, Main, Labels, Report!GlobalInit, Report!Get, Report!Goto
<1>3. CASE Report!EasyInit
  BY <1>3 DEF Reporting, Has, Before, Main, Labels, Report!EasyInit, Report!Get, Report!Goto
<1>4. CASE Report!SetOption
  BY <1>4 DEF Reporting, Has, Before, Main, Labels, Report!SetOption, Report!Get, Report!Goto
<1>5. CASE Report!AppendHeader
  BY <1>5 DEF Reporting, Has, Before, Main, Labels, Report!AppendHeader, Report!Get, Report!Goto
<1>6. CASE Report!SetHeader
  BY <1>6 DEF Reporting, Has, Before, Main, Labels, Report!SetHeader, Report!Get, Report!Goto
<1>7. CASE Report!WriteChunk
  BY <1>7 DEF Reporting, Has, Before, Main, Labels, Report!WriteChunk, Report!Get, Report!Goto
<1>8. CASE Report!Perform
  BY <1>8 DEF Reporting, Has, Before, Main, Labels, Report!Perform, Report!Get, Report!Goto
<1>9. CASE Report!CheckType
  BY <1>9 DEF Reporting, Has, Before, Main, Labels, Report!CheckType, Report!Get, Report!Goto
<1>10. CASE Report!Finish
  BY <1>10 DEF Reporting, Has, Before, Main, Labels, Report!Finish, Report!Get, Report!Goto
<1>11. CASE Report!Decode
  BY <1>11 DEF Reporting, Has, Before, Main, Labels, Report!Decode, Report!Get, Report!Goto
<1>12. CASE Report!LookUp
  BY <1>12 DEF Reporting, Has, Before, Main, Labels, Report!LookUp, Report!Get, Report!Goto
<1>13. CASE Report!PrintReport
  BY <1>13 DEF Reporting, Has, Before, Main, Labels, Report!PrintReport, Report!Get, Report!Goto
<1>14. CASE Report!Clean
  BY <1>14, CleanIs DEF Reporting, Has, Before, Main, Labels
<1>15. CASE Report!Clean0
  BY <1>15 DEF Reporting, Has, Before, Main, Labels, Report!Clean0, Report!Get, Report!Goto
<1> QED
  BY <1>1, <1>2, <1>3, <1>4, <1>5, <1>6, <1>7, <1>8, <1>9, <1>10,
     <1>11, <1>12, <1>13, <1>14, <1>15 DEF Report!Next

\* A goto says why, and leaves without a report.
LEMMA GotoTold ==
  ASSUME Told, at \in (Before \cup {"options"} \cup Main) \ {"look"}, asked' = asked,
         NEW label \in Labels \cup {"exited"}, NEW result, NEW why, Report!Goto(label, result, why),
         why # {}, "curl" \in why => result # 0, result # 0 => why \subseteq {"curl", "url"}
  PROVE  Told'
  BY DEF Told, Report!Goto, Before, Main, Labels

\* To go on says nothing.
LEMMA GoOnTold ==
  ASSUME Told, at \in (Before \cup {"options"} \cup Main) \ {"look"}, asked' = asked,
         at' \in Before \cup {"options"} \cup Main, UNCHANGED <<outcome, failing>>
  PROVE  Told'
  BY DEF Told, Before, Main, Labels

LEMMA ToldStep ==
  ASSUME Reporting, Report!Next
  PROVE  Told'
<1>1. CASE Report!MakeUrl
  <2>1. CASE Report!Goto("exited", -1, {"url"})
    BY <1>1, <2>1, GotoTold DEF Reporting, Report!MakeUrl, Before, Main, Labels
  <2>2. CASE ~Report!Goto("exited", -1, {"url"})
    BY <1>1, <2>2, GoOnTold DEF Reporting, Report!MakeUrl, Report!Get, Before, Main
  <2> QED
    BY <2>1, <2>2
<1>2. CASE Report!GlobalInit
  <2>1. CASE Report!Goto("clean0", 1, {"curl"})
    BY <1>2, <2>1, GotoTold DEF Reporting, Report!GlobalInit, Before, Main, Labels
  <2>2. CASE ~Report!Goto("clean0", 1, {"curl"})
    BY <1>2, <2>2, GoOnTold DEF Reporting, Report!GlobalInit, Report!Get, Before, Main
  <2> QED
    BY <2>1, <2>2
<1>3. CASE Report!EasyInit
  <2>1. CASE Report!Goto("clean1", -1, {"curl"})
    BY <1>3, <2>1, GotoTold DEF Reporting, Report!EasyInit, Before, Main, Labels
  <2>2. CASE ~Report!Goto("clean1", -1, {"curl"})
    BY <1>3, <2>2, GoOnTold DEF Reporting, Report!EasyInit, Report!Get, Before, Main
  <2> QED
    BY <2>1, <2>2
<1>4. CASE Report!SetOption
  <2>1. CASE Report!Goto("clean2", 1, {"curl"})
    BY <1>4, <2>1, GotoTold DEF Reporting, Report!SetOption, Before, Main, Labels
  <2>2. CASE ~Report!Goto("clean2", 1, {"curl"})
    BY <1>4, <2>2, GoOnTold DEF Reporting, Report!SetOption, Report!Get, Before, Main
  <2> QED
    BY <2>1, <2>2
<1>5. CASE Report!AppendHeader
  <2>1. CASE Report!Goto("clean2", 0, {"memory"})
    BY <1>5, <2>1, GotoTold DEF Reporting, Report!AppendHeader, Before, Main, Labels
  <2>2. CASE ~Report!Goto("clean2", 0, {"memory"})
    BY <1>5, <2>2, GoOnTold DEF Reporting, Report!AppendHeader, Report!Get, Before, Main
  <2> QED
    BY <2>1, <2>2
<1>6. CASE Report!SetHeader
  <2>1. CASE Report!Goto("clean3", 1, {"curl"})
    BY <1>6, <2>1, GotoTold DEF Reporting, Report!SetHeader, Before, Main, Labels
  <2>2. CASE ~Report!Goto("clean3", 1, {"curl"})
    BY <1>6, <2>2, GoOnTold DEF Reporting, Report!SetHeader, Report!Get, Before, Main
  <2> QED
    BY <2>1, <2>2
<1>7. CASE Report!WriteChunk
  BY <1>7, GoOnTold DEF Reporting, Report!WriteChunk, Before, Main
<1>8. CASE Report!Perform
  <2>1. CASE Report!Goto("clean3", 1, {"curl"})
    BY <1>8, <2>1, GotoTold DEF Reporting, Report!Perform, Before, Main, Labels
  <2>2. CASE ~Report!Goto("clean3", 1, {"curl"})
    BY <1>8, <2>2, GoOnTold DEF Reporting, Report!Perform, Report!Get, Before, Main
  <2> QED
    BY <2>1, <2>2
<1>9. CASE Report!CheckType
  <2>1. CASE at' = "finish" /\ UNCHANGED <<outcome, failing>>
    BY <1>9, <2>1, GoOnTold DEF Reporting, Report!CheckType, Before, Main
  <2>2. CASE Report!Goto("clean3", 0, {"type"}) \/ Report!Goto("clean3", 1, {"curl"})
    BY <1>9, <2>2, GotoTold DEF Reporting, Report!CheckType, Before, Main, Labels
  <2> QED
    BY <1>9, <2>1, <2>2 DEF Report!CheckType
<1>10. CASE Report!Finish
  <2>1. CASE Report!Goto("clean3", 0, {"memory"})
    BY <1>10, <2>1, GotoTold DEF Reporting, Report!Finish, Before, Main, Labels
  <2>2. CASE ~Report!Goto("clean3", 0, {"memory"})
    BY <1>10, <2>2, GoOnTold DEF Reporting, Report!Finish, Report!Get, Before, Main
  <2> QED
    BY <2>1, <2>2
<1>11. CASE Report!Decode
  <2>1. CASE Report!Goto("clean3", 0, {"answer"})
    BY <1>11, <2>1, GotoTold DEF Reporting, Report!Decode, Before, Main, Labels
  <2>2. CASE ~Report!Goto("clean3", 0, {"answer"})
    BY <1>11, <2>2, GoOnTold DEF Reporting, Report!Decode, Report!Get, Before, Main
  <2> QED
    BY <2>1, <2>2
<1>12. CASE Report!LookUp
  <2> DEFINE k == Len(outcome.report) + 1
  <2>1. at = "look" /\ k \in 1..5 /\ asked' = asked
    BY <1>12, FiveWanted DEF Report!LookUp, Reporting, Told
  <2>2. CASE Report!Found(Report!Wanted[k])
    <3>1. outcome' = [outcome EXCEPT !.report = Append(@, Report!Wanted[k])] /\ UNCHANGED <<at, failing>>
      BY <1>12, <2>2 DEF Report!LookUp
    <3>2. [path |-> Report!Wanted[k], tag |-> "string"] \in asked.nodes
      BY <2>2 DEF Report!Found
    <3> DEFINE S == {Report!Wanted[i] : i \in 1..5}
               r == outcome.report
    <3>3. Report!Wanted[k] \in S /\ r \in Seq(S) /\ Len(r) <= 4
      BY <2>1 DEF Reporting, Told
    <3> HIDE DEF S
    <3>4. /\ Append(r, Report!Wanted[k]) \in Seq(S)
          /\ Len(Append(r, Report!Wanted[k])) = Len(r) + 1
      BY <3>3
    <3>5. outcome'.report = Append(r, Report!Wanted[k]) /\ outcome'.result = outcome.result
          /\ DOMAIN outcome' = {"result", "report"}
      BY <3>1 DEF Reporting, Told
    <3>6. \A i \in 1..Len(outcome'.report) : [path |-> Report!Wanted[i], tag |-> "string"] \in asked.nodes
      BY <3>2, <3>3, <3>4, <3>5 DEF Reporting, Told
    <3>7. failing = {} /\ outcome.result = 0
      BY <2>1 DEF Reporting, Told, Main
    <3>8. at' = "look" /\ asked' = asked /\ failing' = {} /\ outcome'.result = 0
      BY <2>1, <3>1, <3>5, <3>7
    <3>9. outcome'.report \in Seq(S) /\ Len(outcome'.report) <= 5
      BY <3>3, <3>4, <3>5
    <3> QED
      BY <3>5, <3>6, <3>8, <3>9 DEF Told, Before, Main, Labels, S
  <2>3. CASE ~Report!Found(Report!Wanted[k])
    <3>1. /\ at' = "clean3" /\ failing' = failing \cup {"answer"}
          /\ outcome' = [outcome EXCEPT !.report = <<>>]
      BY <1>12, <2>3 DEF Report!LookUp
    <3>2. failing = {} /\ outcome.result = 0
      BY <2>1 DEF Reporting, Told, Main
    <3>3. /\ outcome'.report = <<>> /\ outcome'.result = 0 /\ DOMAIN outcome' = {"result", "report"}
          /\ failing' = {"answer"}
      BY <3>1, <3>2 DEF Reporting, Told
    <3>4. outcome'.report \in Seq({Report!Wanted[i] : i \in 1..5}) /\ Len(outcome'.report) = 0
      BY <3>3
    <3> QED
      BY <3>1, <3>3, <3>4 DEF Told, Before, Main, Labels
  <2> QED
    BY <2>2, <2>3
<1>13. CASE Report!PrintReport
  <2>1. /\ at = "look" /\ at' = "clean3" /\ UNCHANGED <<asked, outcome, failing>>
        /\ Len(outcome.report) = 5
    BY <1>13, FiveWanted DEF Report!PrintReport
  <2> QED
    BY <2>1 DEF Reporting, Told, Before, Main, Labels
<1>14. CASE Report!Clean
  BY <1>14, CleanIs DEF Reporting, Told, Before, Main, Labels
<1>15. CASE Report!Clean0
  BY <1>15 DEF Reporting, Told, Before, Main, Labels, Report!Clean0
<1> QED
  BY <1>1, <1>2, <1>3, <1>4, <1>5, <1>6, <1>7, <1>8, <1>9, <1>10,
     <1>11, <1>12, <1>13, <1>14, <1>15 DEF Report!Next

\* The sizes the loop of buffer_resize may come to from a first one.
Reaches(start) ==
    {v \in Nat : \A C \in SUBSET Nat : start \in C /\ (\A c \in C : Report!Larger(c) \in C) => v \in C}

Enough(start, req) == {v \in Reaches(start) : ~(v < req /\ v < TopSize)}

LeastOf(V) == CHOOSE v \in V : \A w \in V : v <= w

\* The loop, one round at a time.
Rounds(g, req) ==
    g = [start \in Nat |-> IF start < req /\ start < TopSize THEN g[Report!Larger(start)] ELSE start]

LEMMA LargerIs ==
  ASSUME Sized, NEW n \in Nat
  PROVE  Report!Larger(n) \in Nat /\ Report!Larger(n) >= n /\ (n > 1 => Report!Larger(n) > n)
         /\ Report!Larger(n) # TopSize
  BY DEF Report!Larger, Sized

\* One round leads to the same sizes, but for the first.
LEMMA ReachesOn ==
  ASSUME Sized, NEW start \in Nat
  PROVE  Reaches(start) = {start} \cup Reaches(Report!Larger(start)) /\ \A v \in Reaches(start) : start <= v
<1> DEFINE Closed(C) == \A c \in C : Report!Larger(c) \in C
<1>1. Reaches(Report!Larger(start)) \subseteq Reaches(start)
  BY DEF Reaches
<1>2. start \in Reaches(start)
  BY DEF Reaches
<1>3. ASSUME NEW v \in Reaches(start), v # start PROVE v \in Reaches(Report!Larger(start))
  <2>1. SUFFICES ASSUME NEW C \in SUBSET Nat, Report!Larger(start) \in C, Closed(C)
                 PROVE  v \in C
    BY <1>3 DEF Reaches
  <2>2. C \cup {start} \in SUBSET Nat /\ start \in C \cup {start} /\ Closed(C \cup {start})
    BY <2>1
  <2>3. v \in C \cup {start}
    BY <2>2 DEF Reaches
  <2> QED
    BY <1>3, <2>3
<1>4. \A v \in Reaches(start) : start <= v
  <2> DEFINE U == {n \in Nat : start <= n}
  <2>1. U \in SUBSET Nat /\ start \in U
    OBVIOUS
  <2>2. Closed(U)
    <3>1. TAKE c \in U
    <3>2. c \in Nat /\ start <= c /\ Report!Larger(c) \in Nat /\ Report!Larger(c) >= c
      BY LargerIs
    <3> QED
      BY <3>2
  <2>3. \A v \in Reaches(start) : v \in U
    <3> HIDE DEF U
    <3> QED
      BY <2>1, <2>2 DEF Reaches
  <2> QED
    BY <2>3
<1> QED
  BY <1>1, <1>2, <1>3, <1>4

\* There is a function that does what the loop does.
LEMMA RoundsEnd ==
  ASSUME Sized, NEW req
  PROVE  \E g : Rounds(g, req)
<1> DEFINE g == [start \in Nat |-> LeastOf(Enough(start, req))]
<1>1. ASSUME NEW start \in Nat
      PROVE  LeastOf(Enough(start, req)) = IF start < req /\ start < TopSize THEN g[Report!Larger(start)] ELSE start
  <2>1. CASE start < req /\ start < TopSize
    <3>1. Enough(start, req) = Enough(Report!Larger(start), req)
      BY <2>1, ReachesOn DEF Enough
    <3> QED
      BY <2>1, <3>1, LargerIs
  <2>2. CASE ~(start < req /\ start < TopSize)
    <3>1. start \in Enough(start, req) /\ (\A w \in Enough(start, req) : start <= w) /\ Enough(start, req) \subseteq Nat
      BY <2>2, ReachesOn DEF Enough, Reaches
    <3>2. \A v \in Enough(start, req) : (\A w \in Enough(start, req) : v <= w) => v = start
      BY <3>1
    <3> QED
      BY <2>2, <3>1, <3>2 DEF LeastOf
  <2> QED
    BY <2>1, <2>2
<1>2. Rounds(g, req)
  <2> DEFINE h == [start \in Nat |-> IF start < req /\ start < TopSize THEN g[Report!Larger(start)] ELSE start]
  <2>1. \A start \in Nat : g[start] = h[start]
    BY <1>1
  <2>2. g = h
    BY <2>1
  <2> HIDE DEF g
  <2> QED
    BY <2>2 DEF Rounds
<1> QED
  BY <1>2

\* The loop ends with what is asked for or beyond the limit, and never at the limit itself.
LEMMA GrownIs ==
  ASSUME Sized, NEW from \in Nat, NEW req \in Nat, from > 1, from # TopSize
  PROVE  /\ Report!Grown(from, req) \in Nat /\ Report!Grown(from, req) >= from
         /\ Report!Grown(from, req) # TopSize
         /\ Report!Grown(from, req) >= req \/ Report!Grown(from, req) >= TopSize
<1> DEFINE g == CHOOSE f : Rounds(f, req)
           Good(n) == g[n] \in Nat /\ g[n] >= n /\ g[n] # TopSize /\ (g[n] >= req \/ g[n] >= TopSize)
           bad == {d \in Nat : \E n \in Nat : n > 1 /\ n # TopSize /\ d = TopSize - n /\ ~Good(n)}
<1>1. Rounds(g, req)
  BY RoundsEnd
<1>2. Report!Grown(from, req) = g[from]
  BY DEF Report!Grown, Rounds
<1> HIDE DEF g
<1>3. ASSUME NEW n \in Nat
      PROVE  g[n] = IF n < req /\ n < TopSize THEN g[Report!Larger(n)] ELSE n
  BY <1>1 DEF Rounds
<1>4. TopSize \in Nat
  BY DEF Sized
<1>5. ASSUME NEW n \in Nat, n # TopSize, ~(n < req /\ n < TopSize) PROVE Good(n)
  BY <1>3, <1>4, <1>5
<1>6. bad = {}
  <2>1. SUFFICES ASSUME bad # {} PROVE FALSE
    OBVIOUS
  <2>2. bad \subseteq Nat
    OBVIOUS
  <2>3. PICK d \in bad : \A q \in bad : ~(<<q, d>> \in OpToRel(<, Nat))
    <3> HIDE DEF bad
    <3> QED
      BY <2>1, <2>2, NatLessThanWellFounded, WFMin, Zenon
  <2>4. PICK n \in Nat : n > 1 /\ n # TopSize /\ d = TopSize - n /\ ~Good(n)
    OBVIOUS
  <2>5. n < req /\ n < TopSize
    BY <1>5, <2>4
  <2>6. g[n] = g[Report!Larger(n)]
    BY <1>3, <2>5
  <2> DEFINE m == Report!Larger(n)
  <2>7. m \in Nat /\ m > n /\ m # TopSize
    BY <2>4, LargerIs
  <2> HIDE DEF m
  <2>8. ~Good(m)
    <3>1. ASSUME Good(m) PROVE g[n] >= n
      BY <2>6, <2>7, <3>1 DEF m
    <3> QED
      BY <2>4, <2>6, <3>1 DEF m
  <2>9. m < req /\ m < TopSize
    BY <1>5, <2>7, <2>8
  <2>10. TopSize - m \in Nat /\ TopSize - m < d /\ d \in Nat
    BY <1>4, <2>4, <2>7, <2>9
  <2>11. TopSize - m \in bad
    BY <2>4, <2>7, <2>8, <2>10
  <2> HIDE DEF bad
  <2> QED
    BY <2>3, <2>10, <2>11 DEF OpToRel
<1>7. Good(from)
  <2>1. CASE from < TopSize
    <3>1. TopSize - from \in Nat
      BY <1>4, <2>1
    <3> QED
      BY <1>6, <3>1
  <2>2. CASE ~(from < TopSize)
    BY <1>5, <2>2
  <2> QED
    BY <2>1, <2>2
<1> QED
  BY <1>2, <1>7

\* Whatever buffer_resize makes of the buffer holds what was asked for, under the limit.
LEMMA ResizedIs ==
  ASSUME Sized, Stored, at # "exited", NEW req \in Nat, NEW r \in Report!Resized(req)
  PROVE  r \in Nat /\ req <= r /\ 1 < r /\ r < TopSize
<1> DEFINE from == IF buffer.data = "null" \/ buffer.room = 0 THEN FirstSize ELSE buffer.room
           far == Report!Grown(from, req)
<1>1. /\ buffer.room \in Nat
      /\ buffer.data = "held" => 1 < buffer.room /\ buffer.room < TopSize
      /\ buffer.data # "held" => buffer.room = 0
  BY DEF Stored
<1>2. from \in Nat /\ from > 1 /\ from < TopSize /\ TopSize \in Nat
  BY <1>1 DEF Sized
<1> HIDE DEF from
<1>3. far \in Nat /\ far >= from /\ far # TopSize /\ (far >= req \/ far >= TopSize)
  BY <1>2, GrownIs
<1> HIDE DEF far
<1>4. r \in IF buffer.room > req THEN {buffer.room}
            ELSE IF far > TopSize THEN {}
            ELSE {far} \cup (IF buffer.data = "held" THEN {req} ELSE {})
  BY DEF Report!Resized, far, from
<1>5. CASE buffer.room > req
  BY <1>1, <1>4, <1>5
<1>6. CASE ~(buffer.room > req)
  <2>1. ~(far > TopSize)
    BY <1>4, <1>6
  <2>2. req <= far /\ far < TopSize
    BY <1>2, <1>3, <2>1
  <2>3. r = far \/ (buffer.data = "held" /\ r = req)
    BY <1>4, <1>6, <2>1
  <2> QED
    BY <1>1, <1>2, <1>3, <1>6, <2>2, <2>3
<1> QED
  BY <1>5, <1>6

\* What is held fits.
LEMMA StoredStep ==
  ASSUME Sized, Reporting, Report!Next
  PROVE  Stored'
<1> USE DEF Reporting, Before, Main, Labels
<1>1. CASE Report!MakeUrl
  BY <1>1 DEF Stored, Report!MakeUrl, Report!Get, Report!Goto, Report!Options, Report!EarlyOptions
<1>2. CASE Report!GlobalInit
  BY <1>2 DEF Stored, Report!GlobalInit, Report!Get, Report!Goto, Report!Options, Report!EarlyOptions
<1>3. CASE Report!EasyInit
  BY <1>3 DEF Stored, Report!EasyInit, Report!Get, Report!Goto, Report!Options, Report!EarlyOptions
<1>4. CASE Report!SetOption
  BY <1>4 DEF Stored, Report!SetOption, Report!Goto, Report!Options, Report!EarlyOptions
<1>5. CASE Report!AppendHeader
  BY <1>5 DEF Stored, Report!AppendHeader, Report!Get, Report!Goto
<1>6. CASE Report!SetHeader
  BY <1>6 DEF Stored, Report!SetHeader, Report!Goto
<1>7. CASE Report!WriteChunk
  <2>1. PICK n \in 1..(asked.size - buffer.size) :
          \E room \in Report!Resized(buffer.size + n) : Report!Hold(room, buffer.size + n)
    BY <1>7 DEF Report!WriteChunk
  <2>2. buffer.size + n \in Nat /\ at = "perform"
    BY <1>7 DEF Report!WriteChunk, Stored
  <2>3. PICK room \in Report!Resized(buffer.size + n) : Report!Hold(room, buffer.size + n)
    BY <2>1
  <2>4. room \in Nat /\ buffer.size + n <= room /\ 1 < room /\ room < TopSize
    BY <2>2, ResizedIs
  <2> QED
    BY <1>7, <2>2, <2>3, <2>4 DEF Stored, Report!WriteChunk, Report!Hold
<1>8. CASE Report!Perform
  BY <1>8 DEF Stored, Report!Perform, Report!Goto
<1>9. CASE Report!CheckType
  BY <1>9 DEF Stored, Report!CheckType, Report!Goto
<1>10. CASE Report!Finish
  <2>1. CASE UNCHANGED buffer
    BY <1>10, <2>1 DEF Stored, Report!Finish, Report!Goto
  <2>2. CASE \E room \in Report!Resized(buffer.size + 1) : Report!Hold(room, buffer.size + 1)
    <3>1. PICK room \in Report!Resized(buffer.size + 1) : Report!Hold(room, buffer.size + 1)
      BY <2>2
    <3>2. buffer.size + 1 \in Nat /\ at = "finish" /\ at' \in {"parse", "clean3"}
      BY <1>10 DEF Report!Finish, Stored, Report!Goto
    <3>3. room \in Nat /\ buffer.size + 1 <= room /\ 1 < room /\ room < TopSize
      BY <3>2, ResizedIs
    <3> QED
      BY <1>10, <3>1, <3>2, <3>3 DEF Stored, Report!Finish, Report!Hold
  <2> QED
    BY <1>10, <2>1, <2>2 DEF Report!Finish
<1>11. CASE Report!Decode
  BY <1>11 DEF Stored, Report!Decode, Report!Get, Report!Goto
<1>12. CASE Report!LookUp
  <2>1. at = "look" /\ at' \in {"look", "clean3"} /\ UNCHANGED <<asked, option, buffer>>
    BY <1>12 DEF Report!LookUp
  <2> QED
    BY <2>1 DEF Stored
<1>13. CASE Report!PrintReport
  BY <1>13 DEF Stored, Report!PrintReport
<1>14. CASE Report!Clean
  BY <1>14, CleanIs DEF Stored
<1>15. CASE Report!Clean0
  BY <1>15 DEF Stored, Report!Clean0
<1> QED
  BY <1>1, <1>2, <1>3, <1>4, <1>5, <1>6, <1>7, <1>8, <1>9, <1>10,
     <1>11, <1>12, <1>13, <1>14, <1>15 DEF Report!Next

\* Whatever the network, the answer and the memory do: main leaves with everything freed and no
\* label frees what was not had; the report is printed when the answer has all five strings,
\* and an error of the network is never a result of 0; and what write_cb stores, its NUL too,
\* lies inside the block (main.c:52-95, :132-145, :159-250, parser.c:155-195).
THEOREM WeatherRight ==
  ASSUME Sized
  PROVE  Report!Spec => [](Report!AllFreed /\ Report!ReportOrReason /\ Report!InBuffer)
<1>1. Report!Init => Reporting
  BY ReportStarts
<1>2. Reporting /\ [Report!Next]_Report!weatherVars => Reporting'
  <2>1. ASSUME Reporting, Report!Next PROVE Reporting'
    BY <2>1, HasStep, StoredStep, ToldStep DEF Reporting
  <2>2. ASSUME Reporting, UNCHANGED Report!weatherVars PROVE Reporting'
    BY <2>2 DEF Reporting, Has, Stored, Told, Report!weatherVars
  <2> QED
    BY <2>1, <2>2
<1>3. Reporting => Report!AllFreed /\ Report!ReportOrReason /\ Report!InBuffer
  BY ReportingRight
<1> QED
  BY <1>1, <1>2, <1>3, PTL DEF Report!Spec

-----------------------------------------------------------------------------
(* The statistics of the logs: sums in words, whatever their order.         *)

\* What an unsigned long holds.
Words == 0..(WordMod - 1)

\* Numbers modulo m: what is left is the only remainder there can be.
LEMMA ModIs ==
  ASSUME NEW m \in Nat \ {0}, NEW a \in Int, NEW q \in Int, NEW r \in 0..(m - 1), a = m * q + r
  PROVE  a % m = r
<1> DEFINE p == a \div m
           s == a % m
<1>1. s \in 0..(m - 1) /\ p \in Int /\ m * q + r = m * p + s
  OBVIOUS
<1> HIDE DEF p, s
<1>2. CASE q > p
  <2>1. m * (q - p) >= m
    BY <1>1, <1>2
  <2> QED
    BY <1>1, <2>1
<1>3. CASE q < p
  <2>1. m * (p - q) >= m
    BY <1>1, <1>3
  <2> QED
    BY <1>1, <2>1
<1>4. r = s
  BY <1>1, <1>2, <1>3
<1> QED
  BY <1>4 DEF s

LEMMA PlusIs ==
  ASSUME Logs!ParseLogsAssumption, NEW a \in Words, NEW b \in Words
  PROVE  /\ Logs!Plus(a, b) = IF a + b < WordMod THEN a + b ELSE a + b - WordMod
         /\ Logs!Plus(a, b) \in Words
<1>1. WordMod \in Nat \ {0} /\ a \in Nat /\ b \in Nat /\ a < WordMod /\ b < WordMod
  BY DEF Logs!ParseLogsAssumption, Words
<1>2. CASE a + b < WordMod
  <2>1. a + b = WordMod * 0 + (a + b) /\ a + b \in 0..(WordMod - 1)
    BY <1>1, <1>2
  <2>2. (a + b) % WordMod = a + b
    BY <1>1, <2>1, ModIs
  <2> QED
    BY <1>2, <2>1, <2>2 DEF Logs!Plus, Words
<1>3. CASE ~(a + b < WordMod)
  <2>1. a + b = WordMod * 1 + (a + b - WordMod) /\ a + b - WordMod \in 0..(WordMod - 1)
    BY <1>1, <1>3
  <2>2. (a + b) % WordMod = a + b - WordMod
    BY <1>1, <2>1, ModIs
  <2> QED
    BY <1>3, <2>1, <2>2 DEF Logs!Plus, Words
<1> QED
  BY <1>2, <1>3

\* Addition in words is a sum.
LEMMA PlusSwaps ==
  ASSUME Logs!ParseLogsAssumption, NEW a \in Words, NEW b \in Words, NEW c \in Words
  PROVE  /\ Logs!Plus(Logs!Plus(a, b), c) = Logs!Plus(Logs!Plus(a, c), b)
         /\ Logs!Plus(Logs!Plus(a, b), c) = Logs!Plus(a, Logs!Plus(b, c))
         /\ Logs!Plus(a, b) = Logs!Plus(b, a)
         /\ Logs!Plus(0, a) = a
<1>1. WordMod \in Nat /\ 0 \in Words
  BY DEF Logs!ParseLogsAssumption, Words
<1> DEFINE p(x, y) == Logs!Plus(x, y)
<1>2. \A x, y \in Words : p(x, y) \in Words /\ p(x, y) = IF x + y < WordMod THEN x + y ELSE x + y - WordMod
  BY PlusIs
<1> HIDE DEF p
<1>3. p(a, b) \in Words /\ p(a, c) \in Words /\ p(b, c) \in Words
  BY <1>2
<1>4. \A x \in Words : x \in Nat /\ x < WordMod
  BY <1>1 DEF Words
<1>5. p(p(a, b), c) = p(p(a, c), b)
  BY <1>1, <1>2, <1>3, <1>4
<1>6. p(p(a, b), c) = p(a, p(b, c))
  BY <1>1, <1>2, <1>3, <1>4
<1>7. p(a, b) = p(b, a) /\ p(0, a) = a
  BY <1>1, <1>2, <1>4
<1> QED
  BY <1>5, <1>6, <1>7 DEF p

\* What is counted modulo a number goes up by one modulo that number.
LEMMA CountNext ==
  ASSUME Logs!ParseLogsAssumption, NEW c \in Nat
  PROVE  c % WordMod \in Words /\ (c + 1) % WordMod = Logs!Plus(c % WordMod, 1)
<1> DEFINE q == c \div WordMod
           r == c % WordMod
<1>1. WordMod \in Nat \ {0} /\ WordMod > 1
  BY DEF Logs!ParseLogsAssumption
<1>2. r \in Words /\ c = WordMod * q + r /\ q \in Int /\ 1 \in Words /\ r \in Nat
  BY <1>1 DEF Words
<1> HIDE DEF q, r
<1>3. Logs!Plus(r, 1) = IF r + 1 < WordMod THEN r + 1 ELSE r + 1 - WordMod
  BY <1>2, PlusIs
<1>4. CASE r + 1 < WordMod
  <2>1. c + 1 = WordMod * q + (r + 1) /\ r + 1 \in 0..(WordMod - 1) /\ c + 1 \in Int
    BY <1>1, <1>2, <1>4
  <2>2. (c + 1) % WordMod = r + 1
    BY <1>1, <1>2, <2>1, ModIs
  <2> QED
    BY <1>2, <1>3, <1>4, <2>2 DEF r
<1>5. CASE r + 1 = WordMod
  <2>1. c + 1 = WordMod * (q + 1) + 0 /\ q + 1 \in Int /\ 0 \in 0..(WordMod - 1) /\ c + 1 \in Int
    BY <1>1, <1>2, <1>5
  <2>2. (c + 1) % WordMod = 0
    BY <1>1, <2>1, ModIs
  <2> QED
    BY <1>1, <1>2, <1>3, <1>5, <2>2 DEF r
<1>6. r + 1 < WordMod \/ r + 1 = WordMod
  BY <1>1, <1>2 DEF Words
<1> QED
  BY <1>4, <1>5, <1>6

\* Among the subsets of a finite set there is a least one of any kind.
LEMMA LeastSet ==
  ASSUME NEW S, IsFiniteSet(S), NEW B \in SUBSET SUBSET S, B # {}
  PROVE  \E U \in B : \A T \in B : T \subseteq U => T = U
<1>1. FiniteSubsetsOf(S) = SUBSET S
  BY FS_FiniteSubsetsOfFinite
<1>2. PICK U \in B : \A T \in B : ~(<<T, U>> \in StrictSubsetOrdering(S))
  BY <1>1, FS_StrictSubsetOrderingWellFounded, WFMin, Zenon
<1> QED
  BY <1>2 DEF StrictSubsetOrdering

One(T) == CHOOSE x \in T : TRUE

Folds(g, S, v) ==
    g = [T \in SUBSET S |-> IF T = {} THEN 0 ELSE Logs!Plus(g[T \ {One(T)}], v[One(T)])]

\* The sum of v over S, modulo the size of a word.
SumOf(S, v) == (CHOOSE g : Folds(g, S, v))[S]

LEMMA FoldsAt ==
  ASSUME NEW S, NEW g, NEW v, Folds(g, S, v), NEW T, T \subseteq S
  PROVE  /\ T = {} => g[T] = 0
         /\ T # {} => g[T] = Logs!Plus(g[T \ {One(T)}], v[One(T)]) /\ One(T) \in T
<1>1. T \in SUBSET S /\ (T # {} => One(T) \in T)
  BY DEF One
<1> QED
  BY <1>1 DEF Folds

\* However far they reach, two folds of the same numbers are the same.
LEMMA FoldsAgree ==
  ASSUME NEW S, NEW R, NEW g, NEW h, NEW v, NEW w, Folds(g, S, v), Folds(h, R, w),
         NEW T, T \subseteq S, T \subseteq R, IsFiniteSet(T), \A x \in T : v[x] = w[x]
  PROVE  g[T] = h[T]
<1> DEFINE B == {U \in SUBSET T : g[U] # h[U]}
<1>1. SUFFICES ASSUME B # {} PROVE FALSE
  OBVIOUS
<1>2. PICK U \in B : \A V \in B : V \subseteq U => V = U
  <2> HIDE DEF B
  <2>1. B \in SUBSET SUBSET T
    BY DEF B
  <2> QED
    BY <1>1, <2>1, LeastSet
<1>3. U \subseteq S /\ U \subseteq R
  OBVIOUS
<1>4. U # {}
  BY <1>3, FoldsAt
<1>5. One(U) \in U /\ U \ {One(U)} # U /\ U \ {One(U)} \subseteq U
  BY <1>3, <1>4, FoldsAt
<1>6. g[U \ {One(U)}] = h[U \ {One(U)}]
  BY <1>2, <1>5
<1> QED
  BY <1>3, <1>4, <1>5, <1>6, FoldsAt

\* There is a fold: of a set, made of the folds of what is left of its subsets.
LEMMA FoldsThere ==
  ASSUME NEW S, IsFiniteSet(S), NEW v
  PROVE  \E g : Folds(g, S, v)
<1> DEFINE B == {U \in SUBSET S : ~\E g : Folds(g, U, v)}
<1>1. SUFFICES ASSUME B # {} PROVE FALSE
  OBVIOUS
<1>2. PICK U \in B : \A V \in B : V \subseteq U => V = U
  <2> HIDE DEF B
  <2>1. B \in SUBSET SUBSET S
    BY DEF B
  <2> QED
    BY <1>1, <2>1, LeastSet
<1> DEFINE Rest(T) == T \ {One(T)}
           f(T) == CHOOSE g : Folds(g, Rest(T), v)
           g == [T \in SUBSET U |-> IF T = {} THEN 0 ELSE Logs!Plus(f(T)[Rest(T)], v[One(T)])]
<1>3. ASSUME NEW T \in SUBSET U, T # {}
      PROVE  Folds(f(T), Rest(T), v) /\ Rest(T) \in SUBSET U
  <2>1. One(T) \in T
    BY <1>3 DEF One
  <2>2. Rest(T) \subseteq U /\ Rest(T) # U /\ Rest(T) \in SUBSET S
    BY <2>1
  <2>3. \E h : Folds(h, Rest(T), v)
    BY <1>2, <2>2
  <2> QED
    BY <2>2, <2>3
<1>4. ASSUME NEW T \in SUBSET U, T # {}
      PROVE  g[Rest(T)] = f(T)[Rest(T)]
  <2> DEFINE R == Rest(T)
  <2>1. Folds(f(T), R, v) /\ R \in SUBSET U
    BY <1>3, <1>4
  <2>2. CASE R = {}
    BY <2>1, <2>2, FoldsAt
  <2>3. CASE R # {}
    <3>1. Folds(f(R), Rest(R), v) /\ Rest(R) \subseteq R
      BY <1>3, <2>1, <2>3
    <3>2. IsFiniteSet(Rest(R))
      <4>1. Rest(R) \in SUBSET S
        BY <2>1
      <4> QED
        BY <4>1, FS_Subset
    <3>3. f(R)[Rest(R)] = f(T)[Rest(R)]
      <4> HIDE DEF f, R, Rest
      <4> QED
        BY <2>1, <3>1, <3>2, FoldsAgree
    <3>4. f(T)[R] = Logs!Plus(f(T)[Rest(R)], v[One(R)])
      <4> HIDE DEF f, R
      <4> QED
        BY <2>1, <2>3, FoldsAt
    <3>5. g[R] = Logs!Plus(f(R)[Rest(R)], v[One(R)])
      <4> HIDE DEF f, R
      <4> QED
        BY <2>1, <2>3
    <3> QED
      BY <3>3, <3>4, <3>5
  <2> QED
    BY <2>2, <2>3
<1>5. g = [T \in SUBSET U |-> IF T = {} THEN 0 ELSE Logs!Plus(g[Rest(T)], v[One(T)])]
  <2> HIDE DEF f, Rest
  <2> DEFINE h == [T \in SUBSET U |-> IF T = {} THEN 0 ELSE Logs!Plus(g[Rest(T)], v[One(T)])]
  <2>1. \A T \in SUBSET U : g[T] = h[T]
    BY <1>4
  <2> QED
    BY <2>1
<1>6. Folds(g, U, v)
  <2> HIDE DEF g
  <2> QED
    BY <1>5 DEF Folds
<1> QED
  BY <1>6

LEMMA SumFolds ==
  ASSUME NEW S, IsFiniteSet(S), NEW v
  PROVE  \E g : Folds(g, S, v) /\ SumOf(S, v) = g[S]
  BY FoldsThere DEF SumOf

\* Any fold of the numbers says the sum of a finite part of them.
LEMMA SumIs ==
  ASSUME NEW S, NEW R, IsFiniteSet(S), S \subseteq R, NEW v, NEW w, \A x \in S : v[x] = w[x],
         NEW g, Folds(g, R, w)
  PROVE  SumOf(S, v) = g[S]
<1>1. PICK h : Folds(h, S, v) /\ SumOf(S, v) = h[S]
  BY SumFolds
<1> QED
  BY <1>1, FoldsAgree

LEMMA SumAgrees ==
  ASSUME NEW S, IsFiniteSet(S), NEW v, NEW w, \A x \in S : v[x] = w[x]
  PROVE  SumOf(S, v) = SumOf(S, w)
<1>1. PICK h : Folds(h, S, w) /\ SumOf(S, w) = h[S]
  BY SumFolds
<1> QED
  BY <1>1, SumIs

LEMMA SumChosen ==
  ASSUME NEW S, IsFiniteSet(S), NEW v
  PROVE  /\ S = {} => SumOf(S, v) = 0
         /\ S # {} => One(S) \in S /\ SumOf(S, v) = Logs!Plus(SumOf(S \ {One(S)}, v), v[One(S)])
<1>1. PICK h : Folds(h, S, v) /\ SumOf(S, v) = h[S]
  BY SumFolds
<1>2. IsFiniteSet(S \ {One(S)})
  BY FS_RemoveElement
<1>3. SumOf(S \ {One(S)}, v) = h[S \ {One(S)}]
  BY <1>1, <1>2, SumIs
<1> QED
  BY <1>1, <1>3, FoldsAt

LEMMA SumType ==
  ASSUME Logs!ParseLogsAssumption, NEW S, IsFiniteSet(S), NEW v, \A x \in S : v[x] \in Words
  PROVE  SumOf(S, v) \in Words
<1> DEFINE B == {U \in SUBSET S : SumOf(U, v) \notin Words}
<1>1. SUFFICES ASSUME B # {} PROVE FALSE
  <2> S \in SUBSET S
    OBVIOUS
  <2> QED
    OBVIOUS
<1>2. PICK U \in B : \A V \in B : V \subseteq U => V = U
  <2> HIDE DEF B
  <2>1. B \in SUBSET SUBSET S
    BY DEF B
  <2> QED
    BY <1>1, <2>1, LeastSet
<1>3. IsFiniteSet(U)
  BY FS_Subset
<1>4. 0 \in Words
  BY DEF Words, Logs!ParseLogsAssumption
<1>5. U # {}
  BY <1>3, <1>4, SumChosen
<1>6. One(U) \in U /\ SumOf(U, v) = Logs!Plus(SumOf(U \ {One(U)}, v), v[One(U)])
  BY <1>3, <1>5, SumChosen
<1>7. SumOf(U \ {One(U)}, v) \in Words
  <2>1. U \ {One(U)} \in SUBSET S /\ U \ {One(U)} \subseteq U /\ U \ {One(U)} # U
    BY <1>6
  <2> QED
    BY <1>2, <2>1
<1> QED
  BY <1>6, <1>7, PlusIs

\* In which order the numbers are added makes no difference.
LEMMA SumTake ==
  ASSUME Logs!ParseLogsAssumption, NEW S, IsFiniteSet(S), NEW v, \A x \in S : v[x] \in Words, NEW b \in S
  PROVE  SumOf(S, v) = Logs!Plus(SumOf(S \ {b}, v), v[b])
<1> DEFINE Taken(U, a) == SumOf(U, v) = Logs!Plus(SumOf(U \ {a}, v), v[a])
           B == {U \in SUBSET S : \E a \in U : ~Taken(U, a)}
<1>1. SUFFICES ASSUME B # {} PROVE FALSE
  <2>1. S \in SUBSET S /\ (S \notin B => Taken(S, b))
    OBVIOUS
  <2> HIDE DEF B
  <2>2. ASSUME B = {} PROVE Taken(S, b)
    BY <2>1, <2>2
  <2> QED
    BY <2>2
<1>2. PICK U \in B : \A V \in B : V \subseteq U => V = U
  <2> HIDE DEF B
  <2>1. B \in SUBSET SUBSET S
    BY DEF B
  <2> QED
    BY <1>1, <2>1, LeastSet
<1>3. PICK a \in U : ~Taken(U, a)
  OBVIOUS
<1> DEFINE c == One(U)
           E == U \ {a, c}
<1>4. IsFiniteSet(U) /\ U \in SUBSET S
  BY FS_Subset
<1>5. c \in U /\ SumOf(U, v) = Logs!Plus(SumOf(U \ {c}, v), v[c])
  BY <1>3, <1>4, SumChosen
<1>6. c # a
  BY <1>3, <1>5
<1> HIDE DEF c
<1>7. SumOf(U \ {c}, v) = Logs!Plus(SumOf(E, v), v[a])
  <2>1. U \ {c} \in SUBSET S /\ U \ {c} \subseteq U /\ U \ {c} # U /\ a \in U \ {c}
    BY <1>4, <1>5, <1>6
  <2>2. Taken(U \ {c}, a)
    BY <1>2, <2>1
  <2>3. (U \ {c}) \ {a} = E
    OBVIOUS
  <2> QED
    BY <2>2, <2>3
<1>8. SumOf(U \ {a}, v) = Logs!Plus(SumOf(E, v), v[c])
  <2>1. U \ {a} \in SUBSET S /\ U \ {a} \subseteq U /\ U \ {a} # U /\ c \in U \ {a}
    BY <1>3, <1>4, <1>5, <1>6
  <2>2. Taken(U \ {a}, c)
    BY <1>2, <2>1
  <2>3. (U \ {a}) \ {c} = E
    OBVIOUS
  <2> QED
    BY <2>2, <2>3
<1>9. SumOf(E, v) \in Words /\ v[a] \in Words /\ v[c] \in Words
  <2>1. E \in SUBSET S /\ IsFiniteSet(E)
    BY <1>4, FS_Subset
  <2>2. a \in S /\ c \in S
    BY <1>4, <1>5
  <2> QED
    BY <2>1, <2>2, SumType
<1>10. Logs!Plus(Logs!Plus(SumOf(E, v), v[a]), v[c]) = Logs!Plus(Logs!Plus(SumOf(E, v), v[c]), v[a])
  BY <1>9, PlusSwaps
<1> QED
  BY <1>3, <1>5, <1>7, <1>8, <1>10

\* Noughts do not count.
LEMMA SumOnly ==
  ASSUME Logs!ParseLogsAssumption, NEW S, IsFiniteSet(S), NEW v, \A x \in S : v[x] \in Words,
         NEW A \in SUBSET S, \A x \in S \ A : v[x] = 0
  PROVE  SumOf(S, v) = SumOf(A, v)
<1> DEFINE B == {U \in SUBSET S : SumOf(U, v) # SumOf(U \cap A, v)}
<1>1. SUFFICES ASSUME B # {} PROVE FALSE
  <2>1. S \in SUBSET S /\ S \cap A = A
    OBVIOUS
  <2>2. S \notin B => SumOf(S, v) = SumOf(A, v)
    BY <2>1
  <2> HIDE DEF B
  <2> QED
    BY <2>2
<1>2. PICK U \in B : \A V \in B : V \subseteq U => V = U
  <2> HIDE DEF B
  <2>1. B \in SUBSET SUBSET S
    BY DEF B
  <2> QED
    BY <1>1, <2>1, LeastSet
<1>3. U \in SUBSET S /\ IsFiniteSet(U) /\ U \cap A \in SUBSET S /\ IsFiniteSet(U \cap A)
      /\ SumOf(U, v) # SumOf(U \cap A, v)
  BY FS_Subset
<1>4. U # {}
  <2>1. U = {} => U \cap A = U
    OBVIOUS
  <2> QED
    BY <1>3, <2>1
<1> DEFINE c == One(U)
<1>5. c \in U /\ SumOf(U, v) = Logs!Plus(SumOf(U \ {c}, v), v[c])
  BY <1>3, <1>4, SumChosen
<1> HIDE DEF c
<1>6. SumOf(U \ {c}, v) = SumOf((U \cap A) \ {c}, v)
  <2>1. U \ {c} \in SUBSET S /\ U \ {c} \subseteq U /\ U \ {c} # U
    BY <1>3, <1>5
  <2>2. U \ {c} \notin B
    BY <1>2, <2>1
  <2>3. (U \ {c}) \cap A = (U \cap A) \ {c}
    OBVIOUS
  <2> QED
    BY <2>1, <2>2, <2>3
<1>7. CASE c \in A
  <2>1. c \in U \cap A /\ \A x \in U \cap A : v[x] \in Words
    BY <1>3, <1>5, <1>7
  <2>2. SumOf(U \cap A, v) = Logs!Plus(SumOf((U \cap A) \ {c}, v), v[c])
    BY <1>3, <2>1, SumTake
  <2> QED
    BY <1>3, <1>5, <1>6, <2>2
<1>8. CASE c \notin A
  <2>1. (U \cap A) \ {c} = U \cap A /\ v[c] = 0
    BY <1>3, <1>5, <1>8
  <2>2. SumOf(U \cap A, v) \in Words /\ 0 \in Words
    BY <1>3, SumType DEF Words, Logs!ParseLogsAssumption
  <2>3. Logs!Plus(SumOf(U \cap A, v), 0) = SumOf(U \cap A, v)
    BY <2>2, PlusSwaps
  <2> QED
    BY <1>3, <1>5, <1>6, <2>1, <2>3
<1> QED
  BY <1>7, <1>8

\* The sum of ones is the number of them.
LEMMA SumOnes ==
  ASSUME Logs!ParseLogsAssumption, NEW S, IsFiniteSet(S), NEW v, \A x \in S : v[x] = 1
  PROVE  SumOf(S, v) = Cardinality(S) % WordMod
<1> DEFINE B == {U \in SUBSET S : SumOf(U, v) # Cardinality(U) % WordMod}
<1>1. SUFFICES ASSUME B # {} PROVE FALSE
  <2>1. S \in SUBSET S
    OBVIOUS
  <2>2. S \notin B => SumOf(S, v) = Cardinality(S) % WordMod
    BY <2>1
  <2> HIDE DEF B
  <2> QED
    BY <2>2
<1>2. PICK U \in B : \A V \in B : V \subseteq U => V = U
  <2> HIDE DEF B
  <2>1. B \in SUBSET SUBSET S
    BY DEF B
  <2> QED
    BY <1>1, <2>1, LeastSet
<1>3. U \in SUBSET S /\ IsFiniteSet(U) /\ SumOf(U, v) # Cardinality(U) % WordMod
  BY FS_Subset
<1>4. WordMod \in Nat \ {0} /\ 0 \in 0..(WordMod - 1) /\ 0 = WordMod * 0 + 0
  BY DEF Logs!ParseLogsAssumption
<1>5. 0 % WordMod = 0
  BY <1>4, ModIs
<1>6. U # {}
  BY <1>3, <1>5, SumChosen, FS_EmptySet
<1> DEFINE c == One(U)
<1>7. c \in U /\ SumOf(U, v) = Logs!Plus(SumOf(U \ {c}, v), v[c])
  BY <1>3, <1>6, SumChosen
<1> HIDE DEF c
<1>8. SumOf(U \ {c}, v) = Cardinality(U \ {c}) % WordMod
  <2>1. U \ {c} \in SUBSET S /\ U \ {c} \subseteq U /\ U \ {c} # U
    BY <1>3, <1>7
  <2> QED
    BY <1>2, <2>1
<1>9. Cardinality(U \ {c}) \in Nat /\ Cardinality(U) = Cardinality(U \ {c}) + 1
  <2>1. IsFiniteSet(U \ {c}) /\ Cardinality(U \ {c}) = Cardinality(U) - 1
    BY <1>3, <1>7, FS_RemoveElement
  <2>2. Cardinality(U) \in Nat /\ Cardinality(U \ {c}) \in Nat
    BY <1>3, <2>1, FS_CardinalityType
  <2> QED
    BY <2>1, <2>2
<1>10. v[c] = 1
  BY <1>3, <1>7
<1> QED
  BY <1>3, <1>7, <1>8, <1>9, <1>10, CountNext

\* When one number changes, the others add up to what they did.
LEMMA SumChange ==
  ASSUME Logs!ParseLogsAssumption, NEW S, IsFiniteSet(S), NEW v, NEW w, NEW a \in S,
         \A x \in S : v[x] \in Words /\ w[x] \in Words, \A x \in S \ {a} : v[x] = w[x]
  PROVE  \E rest \in Words : SumOf(S, v) = Logs!Plus(rest, v[a]) /\ SumOf(S, w) = Logs!Plus(rest, w[a])
<1>1. IsFiniteSet(S \ {a})
  BY FS_RemoveElement
<1>2. SumOf(S \ {a}, v) = SumOf(S \ {a}, w)
  BY <1>1, SumAgrees
<1>3. SumOf(S \ {a}, v) \in Words
  BY <1>1, SumType
<1> QED
  BY <1>2, <1>3, SumTake

-----------------------------------------------------------------------------
(* What is measured: all the bytes, those of a URL, the lines of a referer. *)

Kinds == {<<"all", 0>>} \cup ({"url"} \X Urls) \cup ({"refer"} \X Refers)

Amount(q, l) ==
    IF q[1] = "all" THEN l.trafic
    ELSE IF q[1] = "url" THEN IF l.url = q[2] THEN l.trafic ELSE 0
    ELSE IF l.refer = q[2] THEN 1 ELSE 0

\* What a result says of it.
Held(q, r) ==
    IF q[1] = "all" THEN r.trafic
    ELSE IF q[1] = "url" THEN Logs!Value(r.url, q[2])
    ELSE Logs!Value(r.refer, q[2])

Table(tab, keys) == DOMAIN tab \subseteq keys /\ \A k \in DOMAIN tab : tab[k] \in Words

Result(r) == DOMAIN r = {"url", "refer", "trafic"}
             /\ r.trafic \in Words /\ Table(r.url, Urls) /\ Table(r.refer, Refers)

LEMMA HeldType ==
  ASSUME Logs!ParseLogsAssumption, NEW r, Result(r), NEW q \in Kinds
  PROVE  Held(q, r) \in Words
<1>1. 0 \in Words
  BY DEF Words, Logs!ParseLogsAssumption
<1> QED
  BY <1>1 DEF Held, Result, Table, Kinds, Logs!Value

LEMMA AmountType ==
  ASSUME Logs!ParseLogsAssumption, NEW l \in Logs!Line, NEW q
  PROVE  Amount(q, l) \in Words
<1>1. 0 \in Words /\ 1 \in Words /\ l.trafic \in Words
  BY DEF Words, Logs!ParseLogsAssumption, Logs!Line
<1> QED
  BY <1>1 DEF Amount

LEMMA HeldNothing ==
  ASSUME Logs!ParseLogsAssumption, NEW q \in Kinds
  PROVE  Result(Logs!Nothing) /\ Held(q, Logs!Nothing) = 0
         /\ DOMAIN Logs!Nothing.url = {} /\ DOMAIN Logs!Nothing.refer = {}
<1>1. 0 \in Words
  BY DEF Words, Logs!ParseLogsAssumption
<1> QED
  BY <1>1 DEF Held, Result, Table, Kinds, Logs!Nothing, Logs!NoTable, Logs!Value

\* ht_insert_dupkey_with_increment adds to one key.
LEMMA AddToIs ==
  ASSUME Logs!ParseLogsAssumption, NEW keys, NEW tab, Table(tab, keys), NEW k \in keys, NEW n \in Words
  PROVE  Table(Logs!AddTo(tab, k, n), keys)
<1>1. 0 \in Words
  BY DEF Words, Logs!ParseLogsAssumption
<1>2. Logs!Value(tab, k) # 0 => Logs!Plus(tab[k], n) \in Words
  BY PlusIs DEF Logs!Value, Table
<1> QED
  BY <1>2 DEF Logs!AddTo, Table

LEMMA AddToValue ==
  ASSUME Logs!ParseLogsAssumption, NEW tab, NEW k, NEW n \in Words, NEW x
  PROVE  Logs!Value(Logs!AddTo(tab, k, n), x) =
           IF x = k THEN Logs!Plus(Logs!Value(tab, k), n) ELSE Logs!Value(tab, x)
<1>1. 0 \in Words
  BY DEF Words, Logs!ParseLogsAssumption
<1>2. Logs!Plus(0, n) = n
  BY <1>1, PlusSwaps
<1>3. CASE x = k
  BY <1>2, <1>3 DEF Logs!Value, Logs!AddTo
<1>4. CASE x # k
  BY <1>4 DEF Logs!Value, Logs!AddTo
<1> QED
  BY <1>3, <1>4

\* ht_iter_move_to_ht adds key by key.
LEMMA AddAllValue ==
  ASSUME Logs!ParseLogsAssumption, NEW tab, NEW other, NEW x
  PROVE  Logs!Value(Logs!AddAll(tab, other), x) = Logs!Plus(Logs!Value(tab, x), Logs!Value(other, x))
<1>1. 0 \in Words
  BY DEF Words, Logs!ParseLogsAssumption
<1>2. Logs!Plus(0, 0) = 0
  BY <1>1, PlusSwaps
<1>3. CASE x \in DOMAIN tab \cup DOMAIN other
  BY <1>3 DEF Logs!Value, Logs!AddAll
<1>4. CASE x \notin DOMAIN tab \cup DOMAIN other
  BY <1>2, <1>4 DEF Logs!Value, Logs!AddAll
<1> QED
  BY <1>3, <1>4

LEMMA AddAllIs ==
  ASSUME Logs!ParseLogsAssumption, NEW keys, NEW tab, Table(tab, keys), NEW other, Table(other, keys)
  PROVE  Table(Logs!AddAll(tab, other), keys)
<1>1. 0 \in Words
  BY DEF Words, Logs!ParseLogsAssumption
<1>2. \A x : Logs!Value(tab, x) \in Words /\ Logs!Value(other, x) \in Words
  BY <1>1 DEF Logs!Value, Table
<1>3. \A x : Logs!Plus(Logs!Value(tab, x), Logs!Value(other, x)) \in Words
  BY <1>2, PlusIs
<1> QED
  BY <1>3 DEF Logs!AddAll, Table

LEMMA HeldAdd ==
  ASSUME Logs!ParseLogsAssumption, NEW r, Result(r), NEW l \in Logs!Line
  PROVE  /\ Result(Logs!AddLine(r, l))
         /\ \A w \in {"url", "refer"} : DOMAIN Logs!AddLine(r, l)[w] = DOMAIN r[w] \cup {l[w]}
         /\ \A q \in Kinds : Held(q, Logs!AddLine(r, l)) = Logs!Plus(Held(q, r), Amount(q, l))
<1> DEFINE new == Logs!AddLine(r, l)
           u == Logs!AddTo(r.url, l.url, l.trafic)
           f == Logs!AddTo(r.refer, l.refer, 1)
<1>1. new.url = u /\ new.refer = f /\ new.trafic = Logs!Plus(r.trafic, l.trafic)
      /\ DOMAIN new = {"url", "refer", "trafic"}
  BY DEF Logs!AddLine
<1>2. /\ 0 \in Words /\ 1 \in Words /\ l.trafic \in Words /\ l.url \in Urls /\ l.refer \in Refers
      /\ r.trafic \in Words /\ Table(r.url, Urls) /\ Table(r.refer, Refers)
  BY DEF Words, Logs!ParseLogsAssumption, Logs!Line, Result
<1>3. Table(u, Urls) /\ Table(f, Refers)
  BY <1>2, AddToIs
<1>4. DOMAIN u = DOMAIN r.url \cup {l.url} /\ DOMAIN f = DOMAIN r.refer \cup {l.refer}
  BY DEF Logs!AddTo
<1>5. ASSUME NEW x
      PROVE  /\ Logs!Value(u, x) = IF x = l.url THEN Logs!Plus(Logs!Value(r.url, l.url), l.trafic)
                                   ELSE Logs!Value(r.url, x)
             /\ Logs!Value(f, x) = IF x = l.refer THEN Logs!Plus(Logs!Value(r.refer, l.refer), 1)
                                   ELSE Logs!Value(r.refer, x)
  BY <1>2, AddToValue
<1> HIDE DEF u, f, new
<1>6. Result(new)
  BY <1>1, <1>2, <1>3, PlusIs DEF Result
<1>7. \A w \in {"url", "refer"} : DOMAIN new[w] = DOMAIN r[w] \cup {l[w]}
  BY <1>1, <1>4
<1>8. ASSUME NEW q \in Kinds PROVE Held(q, new) = Logs!Plus(Held(q, r), Amount(q, l))
  <2>1. Held(q, r) \in Words
    BY HeldType
  <2>2. Logs!Plus(Held(q, r), 0) = Held(q, r)
    BY <1>2, <2>1, PlusSwaps
  <2>3. CASE q[1] = "all"
    BY <1>1, <2>3 DEF Held, Amount
  <2>4. CASE q[1] = "url"
    BY <1>1, <1>5, <2>2, <2>4 DEF Held, Amount
  <2>5. CASE q[1] = "refer"
    BY <1>1, <1>5, <2>2, <2>5 DEF Held, Amount
  <2> QED
    BY <2>3, <2>4, <2>5 DEF Kinds
<1> QED
  BY <1>6, <1>7, <1>8 DEF new

LEMMA HeldMerge ==
  ASSUME Logs!ParseLogsAssumption, NEW r, Result(r), NEW s, Result(s)
  PROVE  /\ Result(Logs!Merge(r, s))
         /\ \A w \in {"url", "refer"} : DOMAIN Logs!Merge(r, s)[w] = DOMAIN r[w] \cup DOMAIN s[w]
         /\ \A q \in Kinds : Held(q, Logs!Merge(r, s)) = Logs!Plus(Held(q, r), Held(q, s))
<1> DEFINE new == Logs!Merge(r, s)
           u == Logs!AddAll(r.url, s.url)
           f == Logs!AddAll(r.refer, s.refer)
<1>1. new.url = u /\ new.refer = f /\ new.trafic = Logs!Plus(r.trafic, s.trafic)
      /\ DOMAIN new = {"url", "refer", "trafic"}
  BY DEF Logs!Merge
<1>2. /\ r.trafic \in Words /\ Table(r.url, Urls) /\ Table(r.refer, Refers)
      /\ s.trafic \in Words /\ Table(s.url, Urls) /\ Table(s.refer, Refers)
  BY DEF Result
<1>3. Table(u, Urls) /\ Table(f, Refers)
  BY <1>2, AddAllIs
<1>4. DOMAIN u = DOMAIN r.url \cup DOMAIN s.url /\ DOMAIN f = DOMAIN r.refer \cup DOMAIN s.refer
  BY DEF Logs!AddAll
<1>5. ASSUME NEW x
      PROVE  /\ Logs!Value(u, x) = Logs!Plus(Logs!Value(r.url, x), Logs!Value(s.url, x))
             /\ Logs!Value(f, x) = Logs!Plus(Logs!Value(r.refer, x), Logs!Value(s.refer, x))
  BY AddAllValue
<1> HIDE DEF u, f, new
<1>6. Result(new)
  BY <1>1, <1>2, <1>3, PlusIs DEF Result
<1>7. \A w \in {"url", "refer"} : DOMAIN new[w] = DOMAIN r[w] \cup DOMAIN s[w]
  BY <1>1, <1>4
<1>8. \A q \in Kinds : Held(q, new) = Logs!Plus(Held(q, r), Held(q, s))
  BY <1>1, <1>5 DEF Held
<1> QED
  BY <1>6, <1>7, <1>8 DEF new

-----------------------------------------------------------------------------
(* The threads and the lines. *)

Crew == IF Files < NThreads THEN Files ELSE NThreads

LEMMA ThreadIs ==
  ASSUME Logs!ParseLogsAssumption
  PROVE  /\ Logs!Thread = 1..Crew /\ Crew \in Nat \ {0}
         /\ IsFiniteSet(Logs!Thread) /\ Logs!Cardinality(Logs!Thread) = Crew
<1>1. Logs!Thread = 1..Crew /\ Crew \in Nat \ {0}
  BY DEF Logs!Thread, Crew, Logs!ParseLogsAssumption
<1>2. \A S : Logs!Cardinality(S) = Cardinality(S)
  BY DEF Logs!Cardinality, Cardinality
<1>3. IsFiniteSet(1..Crew) /\ Cardinality(1..Crew) = Crew
  <2>1. 1 \in Int /\ Crew \in Int /\ ~(1 > Crew)
    BY <1>1
  <2> QED
    BY <1>1, <2>1, FS_Interval
<1> QED
  BY <1>1, <1>2, <1>3

LogsTyped ==
    /\ files \in [1..Files -> Seq(Lines)]
    /\ \A f \in 1..Files : Len(files[f]) <= MaxLines
    /\ index \in Nat
    /\ place \in [Logs!Thread -> {"unborn", "claim", "read", "returned"}]
    /\ mine \in [Logs!Thread -> 0..Files]
    /\ nextLine \in [Logs!Thread -> Nat \ {0}]
    /\ erange \in [Logs!Thread -> BOOLEAN]
    /\ DOMAIN res = Logs!Thread /\ \A t \in Logs!Thread : Result(res[t])
    /\ Result(sum)
    /\ DOMAIN top = {"url", "refer"}
    /\ main \in {"spawn", "join", "top", "done", "aborted"}
    /\ joined \in 0..Crew
    /\ main \in {"spawn", "join"} => joined < Crew
    /\ main \in {"top", "done"} => joined = Crew

\* A file is read by one thread, and a thread that has returned found none left.
Apart ==
    /\ \A t \in Logs!Thread : place[t] = "read" => mine[t] \in 1..Files /\ mine[t] <= index
    /\ \A t, u \in Logs!Thread : place[t] = "read" /\ place[u] = "read" /\ mine[t] = mine[u] => t = u
    /\ \A t \in Logs!Thread : place[t] = "returned" => index >= Files
    /\ \A t \in Logs!Thread : t <= joined => place[t] = "returned"
    /\ Logs!InRange => \A t \in Logs!Thread : ~erange[t]

Weights(q) == [s \in Logs!Spots |-> Amount(q, Logs!LineAt(s))]

Shares(q) == [t \in Logs!Thread |-> IF t > joined THEN Held(q, res[t]) ELSE 0]

\* Whatever is measured: what all the lines say is what main, the lines that are unread and the
\* threads that have not been joined say together.
Conserved(q) ==
    SumOf(Logs!Spots, Weights(q)) =
      Logs!Plus(Logs!Plus(Held(q, sum), SumOf(Logs!Unread, Weights(q))), SumOf(Logs!Thread, Shares(q)))

Merging == main \in {"spawn", "join"}

AllConserved == Logs!InRange => \A q \in Kinds : q[1] = "all" \/ Merging => Conserved(q)

KeysOf(w) == {Logs!LineAt(s)[w] : s \in Logs!Spots}

Seen(w, k) ==
    \/ k \in DOMAIN sum[w]
    \/ \E s \in Logs!Unread : Logs!LineAt(s)[w] = k
    \/ \E t \in Logs!Thread : t > joined /\ k \in DOMAIN res[t][w]

KeysKept ==
    Logs!InRange /\ Merging =>
      \A w \in {"url", "refer"} : \A k : k \in KeysOf(w) <=> Seen(w, k)

LEMMA SpotsAre ==
  ASSUME Logs!ParseLogsAssumption, LogsTyped
  PROVE  /\ IsFiniteSet(Logs!Spots)
         /\ Logs!Unread \in SUBSET Logs!Spots /\ IsFiniteSet(Logs!Unread)
         /\ \A s \in Logs!Spots :
              /\ s = <<s[1], s[2]>> /\ s[1] \in 1..Files /\ s[2] \in Nat \ {0} /\ s[2] <= Len(files[s[1]])
              /\ Logs!LineAt(s) \in Logs!Line
         /\ \A q : \A s \in Logs!Spots : Weights(q)[s] \in Words
<1> DEFINE P == (1..Files) \X (1..MaxLines)
<1>1. Files \in Nat /\ MaxLines \in Nat /\ Lines \subseteq Logs!Line
  BY DEF Logs!ParseLogsAssumption
<1>2. IsFiniteSet(P)
  <2>1. IsFiniteSet(1..Files) /\ IsFiniteSet(1..MaxLines)
    BY <1>1, FS_Interval
  <2> QED
    BY <2>1, FS_Product
<1>3. Logs!Spots \in SUBSET P
  BY DEF Logs!Spots
<1>4. IsFiniteSet(Logs!Spots)
  <2> HIDE DEF P
  <2> QED
    BY <1>2, <1>3, FS_Subset
<1>5. Logs!Unread \in SUBSET Logs!Spots
  BY DEF Logs!Unread
<1>6. IsFiniteSet(Logs!Unread)
  BY <1>4, <1>5, FS_Subset
<1>7. ASSUME NEW s \in Logs!Spots
      PROVE  /\ s = <<s[1], s[2]>> /\ s[1] \in 1..Files /\ s[2] \in Nat \ {0} /\ s[2] <= Len(files[s[1]])
             /\ Logs!LineAt(s) \in Logs!Line
  <2>1. s = <<s[1], s[2]>> /\ s[1] \in 1..Files /\ s[2] \in Nat \ {0} /\ s[2] <= Len(files[s[1]])
    BY <1>1, <1>3 DEF Logs!Spots
  <2>2. files[s[1]] \in Seq(Lines)
    BY <2>1 DEF LogsTyped
  <2>3. files[s[1]][s[2]] \in Lines
    BY <2>1, <2>2
  <2> QED
    BY <1>1, <2>1, <2>3 DEF Logs!LineAt
<1>8. \A q : \A s \in Logs!Spots : Weights(q)[s] \in Words
  BY <1>7, AmountType DEF Weights
<1> QED
  BY <1>4, <1>5, <1>6, <1>7, <1>8

LEMMA SharesAre ==
  ASSUME Logs!ParseLogsAssumption, LogsTyped, NEW q \in Kinds
  PROVE  \A t \in Logs!Thread : Shares(q)[t] \in Words
<1>1. 0 \in Words
  BY DEF Words, Logs!ParseLogsAssumption
<1> QED
  BY <1>1, HeldType DEF Shares, LogsTyped

\* The same files, the same lines.
LEMMA SameFiles ==
  ASSUME files' = files
  PROVE  /\ Logs!Spots' = Logs!Spots /\ Logs!InRange' = Logs!InRange
         /\ \A s : Logs!LineAt(s)' = Logs!LineAt(s)
         /\ \A q : Weights(q)' = Weights(q)
         /\ \A w : KeysOf(w)' = KeysOf(w)
  BY DEF Logs!Spots, Logs!InRange, Logs!LineAt, Weights, KeysOf

-----------------------------------------------------------------------------
(* The steps of a thread. *)

\* Claiming the next file moves its lines from those after the index to those of a reader.
LEMMA ClaimUnread ==
  ASSUME Logs!ParseLogsAssumption, LogsTyped, Apart, NEW t \in Logs!Thread, Logs!Claim(t)
  PROVE  Logs!Unread' = Logs!Unread
<1>1. /\ place[t] = "claim" /\ index' = index + 1 /\ index \in Nat /\ files' = files
      /\ \A u \in Logs!Thread : u # t => /\ place'[u] = place[u] /\ mine'[u] = mine[u]
                                         /\ nextLine'[u] = nextLine[u]
  BY DEF Logs!Claim, LogsTyped
<1>2. Logs!Spots' = Logs!Spots /\ \A s \in Logs!Spots : s[1] \in 1..Files /\ s[2] \in Nat \ {0}
  BY <1>1, SameFiles, SpotsAre
<1>3. Files \in Nat
  BY DEF Logs!ParseLogsAssumption
<1>4. CASE index < Files
  <2>1. place'[t] = "read" /\ mine'[t] = index + 1 /\ nextLine'[t] = 1
    BY <1>4 DEF Logs!Claim, LogsTyped
  <2>2. ASSUME NEW s \in Logs!Spots PROVE s \in Logs!Unread' <=> s \in Logs!Unread
    <3>1. s[1] > index <=> s[1] > index + 1 \/ s[1] = index + 1
      BY <1>1, <1>2
    <3>2. s[2] >= 1
      BY <1>2
    <3> QED
      BY <1>1, <1>2, <2>1, <3>1, <3>2 DEF Logs!Unread
  <2> QED
    BY <1>2, <2>2 DEF Logs!Unread
<1>5. CASE ~(index < Files)
  <2>1. place'[t] = "returned"
    BY <1>5 DEF Logs!Claim, LogsTyped
  <2>2. ASSUME NEW s \in Logs!Spots PROVE s \in Logs!Unread' <=> s \in Logs!Unread
    <3>1. ~(s[1] > index) /\ ~(s[1] > index + 1)
      BY <1>1, <1>2, <1>3, <1>5
    <3> QED
      BY <1>1, <1>2, <2>1, <3>1 DEF Logs!Unread
  <2> QED
    BY <1>2, <2>2 DEF Logs!Unread
<1> QED
  BY <1>4, <1>5

\* Reading a line takes it from those that are unread.
LEMMA ReadUnread ==
  ASSUME Logs!ParseLogsAssumption, LogsTyped, Apart, NEW t \in Logs!Thread, Logs!ReadLine(t)
  PROVE  /\ Logs!Unread' = Logs!Unread \ {<<mine[t], nextLine[t]>>}
         /\ <<mine[t], nextLine[t]>> \in Logs!Spots => <<mine[t], nextLine[t]>> \in Logs!Unread
<1> DEFINE sp == <<mine[t], nextLine[t]>>
<1>1. /\ place[t] = "read" /\ files' = files /\ index' = index /\ place' = place /\ mine' = mine
      /\ nextLine'[t] = nextLine[t] + 1 /\ nextLine[t] \in Nat \ {0}
      /\ \A u \in Logs!Thread : u # t => nextLine'[u] = nextLine[u]
  BY DEF Logs!ReadLine, LogsTyped
<1>2. Logs!Spots' = Logs!Spots
      /\ \A s \in Logs!Spots : s = <<s[1], s[2]>> /\ s[1] \in 1..Files /\ s[2] \in Nat \ {0}
  BY <1>1, SameFiles, SpotsAre
<1>3. mine[t] <= index /\ mine[t] \in Nat /\ index \in Nat
  BY <1>1 DEF Apart, LogsTyped
<1>4. \A u \in Logs!Thread : place[u] = "read" /\ mine[u] = mine[t] => u = t
  BY <1>1 DEF Apart
<1>5. ASSUME NEW s \in Logs!Spots PROVE s \in Logs!Unread' <=> s \in Logs!Unread /\ s # sp
  <2>1. s \in Logs!Unread' <=> \/ s[1] > index
                               \/ \E u \in Logs!Thread : place[u] = "read" /\ mine[u] = s[1] /\ s[2] >= nextLine'[u]
    BY <1>1, <1>2 DEF Logs!Unread
  <2>2. s \in Logs!Unread <=> \/ s[1] > index
                              \/ \E u \in Logs!Thread : place[u] = "read" /\ mine[u] = s[1] /\ s[2] >= nextLine[u]
    BY DEF Logs!Unread
  <2>3. CASE s[1] = mine[t]
    <3>1. ~(s[1] > index)
      BY <1>3, <2>3
    <3>2. s \in Logs!Unread' <=> s[2] >= nextLine[t] + 1
      BY <1>1, <1>4, <2>1, <2>3, <3>1
    <3>3. s \in Logs!Unread <=> s[2] >= nextLine[t]
      BY <1>1, <1>4, <2>2, <2>3, <3>1
    <3>4. s # sp <=> s[2] # nextLine[t]
      BY <1>2, <2>3
    <3> QED
      BY <1>1, <1>2, <3>2, <3>3, <3>4
  <2>4. CASE s[1] # mine[t]
    BY <1>1, <2>1, <2>2, <2>4
  <2> QED
    BY <2>3, <2>4
<1>6. Logs!Unread \subseteq Logs!Spots /\ Logs!Unread' \subseteq Logs!Spots
  BY <1>2 DEF Logs!Unread
<1>7. sp \in Logs!Spots => sp \in Logs!Unread
  BY <1>1 DEF Logs!Unread
<1> QED
  BY <1>5, <1>6, <1>7

Conserving == LogsTyped /\ Apart /\ AllConserved /\ KeysKept

\* What moves from one place to another is counted once.
LEMMA Moved ==
  ASSUME Logs!ParseLogsAssumption, NEW m \in Words, NEW u \in Words, NEW r \in Words, NEW h \in Words, NEW a \in Words
  PROVE  /\ Logs!Plus(Logs!Plus(m, Logs!Plus(u, a)), Logs!Plus(r, h))
              = Logs!Plus(Logs!Plus(m, u), Logs!Plus(r, Logs!Plus(h, a)))
         /\ Logs!Plus(Logs!Plus(m, u), Logs!Plus(r, h))
              = Logs!Plus(Logs!Plus(Logs!Plus(m, h), u), Logs!Plus(r, 0))
<1> DEFINE p(x, y) == Logs!Plus(x, y)
<1>1. 0 \in Words
  BY DEF Words, Logs!ParseLogsAssumption
<1>2. \A x, y \in Words : p(x, y) \in Words /\ p(x, y) = p(y, x)
  BY PlusIs, PlusSwaps
<1>3. \A x, y, z \in Words : p(p(x, y), z) = p(x, p(y, z))
  BY PlusSwaps
<1>4. \A x \in Words : p(x, 0) = x
  BY <1>1, PlusSwaps
<1> HIDE DEF p
<1>5. p(p(m, p(u, a)), p(r, h)) = p(p(m, u), p(r, p(h, a)))
  <2>1. p(m, p(u, a)) = p(p(m, u), a) /\ p(m, u) \in Words /\ p(r, h) \in Words
    BY <1>2, <1>3
  <2>2. p(p(p(m, u), a), p(r, h)) = p(p(m, u), p(a, p(r, h)))
    BY <1>3, <2>1
  <2>3. p(a, p(r, h)) = p(p(r, h), a) /\ p(p(r, h), a) = p(r, p(h, a))
    BY <1>2, <1>3, <2>1
  <2> QED
    BY <2>1, <2>2, <2>3
<1>6. p(p(m, u), p(r, h)) = p(p(p(m, h), u), p(r, 0))
  <2>1. p(r, 0) = r /\ p(m, u) \in Words /\ p(m, h) \in Words
    BY <1>2, <1>4
  <2>2. p(p(m, u), p(r, h)) = p(p(m, u), p(h, r)) /\ p(p(m, u), p(h, r)) = p(p(p(m, u), h), r)
    BY <1>2, <1>3, <2>1
  <2>3. p(p(m, u), h) = p(m, p(u, h)) /\ p(u, h) = p(h, u) /\ p(m, p(h, u)) = p(p(m, h), u)
    BY <1>2, <1>3
  <2> QED
    BY <2>1, <2>2, <2>3
<1> QED
  BY <1>5, <1>6 DEF p

LEMMA LogsInit ==
  ASSUME Logs!ParseLogsAssumption, Logs!Init
  PROVE  Conserving /\ top = [url |-> <<>>, refer |-> <<>>] /\ main = "spawn"
<1>1. LogsTyped
  <2>1. files \in [1..Files -> Seq(Lines)] /\ \A f \in 1..Files : Len(files[f]) <= MaxLines
    <3>1. files \in [1..Files -> UNION {[1..n -> Lines] : n \in 0..MaxLines}]
      BY DEF Logs!Init
    <3>2. ASSUME NEW f \in 1..Files PROVE files[f] \in Seq(Lines) /\ Len(files[f]) <= MaxLines
      <4>1. PICK n \in 0..MaxLines : files[f] \in [1..n -> Lines]
        BY <3>1
      <4>2. MaxLines \in Nat /\ n \in Nat /\ n <= MaxLines
        BY DEF Logs!ParseLogsAssumption
      <4> QED
        BY <4>1, <4>2
    <3> QED
      BY <3>1, <3>2
  <2>2. \A t \in Logs!Thread : Result(res[t])
    <3>1. PICK q : q \in Kinds
      BY DEF Kinds
    <3>2. Result(Logs!Nothing)
      BY <3>1, HeldNothing
    <3> QED
      BY <3>2 DEF Logs!Init
  <2>3. Result(sum)
    <3>1. PICK q : q \in Kinds
      BY DEF Kinds
    <3> QED
      BY <3>1, HeldNothing DEF Logs!Init
  <2> QED
    BY <2>1, <2>2, <2>3, ThreadIs DEF LogsTyped, Logs!Init, Logs!ParseLogsAssumption
<1>2. Apart
  <2>1. \A t \in Logs!Thread : ~(t <= joined)
    BY ThreadIs DEF Logs!Init
  <2> QED
    BY <2>1 DEF Apart, Logs!Init
<1>3. Logs!Unread = Logs!Spots
  BY <1>1, SpotsAre DEF Logs!Unread, Logs!Init
<1>4. ASSUME NEW q \in Kinds PROVE Conserved(q)
  <2> DEFINE W == SumOf(Logs!Spots, Weights(q))
  <2>1. W \in Words /\ 0 \in Words
    BY <1>1, SpotsAre, SumType DEF Words, Logs!ParseLogsAssumption
  <2>2. Held(q, sum) = 0 /\ \A t \in Logs!Thread : Shares(q)[t] = 0
    BY HeldNothing DEF Logs!Init, Shares
  <2>3. SumOf(Logs!Thread, Shares(q)) = 0
    <3>1. SumOf(Logs!Thread, Shares(q)) = SumOf({}, Shares(q))
      BY <2>1, <2>2, ThreadIs, SumOnly
    <3> QED
      BY <3>1, SumChosen, FS_EmptySet
  <2>4. W = Logs!Plus(Logs!Plus(0, W), 0)
    BY <2>1, PlusSwaps
  <2> QED
    BY <1>3, <2>2, <2>3, <2>4 DEF Conserved
<1>5. ASSUME NEW w \in {"url", "refer"}, NEW k PROVE k \in KeysOf(w) <=> Seen(w, k)
  <2>1. DOMAIN Logs!Nothing[w] = {}
    BY DEF Logs!Nothing, Logs!NoTable
  <2> QED
    BY <1>3, <2>1 DEF KeysOf, Seen, Logs!Init
<1> QED
  BY <1>1, <1>2, <1>4, <1>5 DEF Conserving, AllConserved, KeysKept, Logs!Init

\* Where only the place of a thread changes, and no line is forgotten, all stays as it was.
LEMMA SameAmounts ==
  ASSUME Logs!ParseLogsAssumption, Conserving, UNCHANGED <<files, res, sum, joined>>,
         Logs!Unread' = Logs!Unread, main' = main \/ main' = "aborted" \/ (Merging /\ Merging')
  PROVE  AllConserved' /\ KeysKept'
<1>1. /\ Logs!Spots' = Logs!Spots /\ Logs!InRange' = Logs!InRange
      /\ \A q : Weights(q)' = Weights(q)
      /\ \A w : KeysOf(w)' = KeysOf(w)
      /\ \A s : Logs!LineAt(s)' = Logs!LineAt(s)
  BY SameFiles
<1>2. Logs!Thread' = Logs!Thread /\ \A q : Shares(q)' = Shares(q)
  BY DEF Shares, Logs!Thread
<1>3. \A q : Conserved(q)' <=> Conserved(q)
  BY <1>1, <1>2 DEF Conserved
<1>4. Merging' => Merging
  BY DEF Merging
<1>5. \A w, k : Seen(w, k)' <=> Seen(w, k)
  BY <1>1, <1>2 DEF Seen
<1> QED
  BY <1>1, <1>3, <1>4, <1>5 DEF Conserving, AllConserved, KeysKept

LEMMA ClaimStep ==
  ASSUME Logs!ParseLogsAssumption, Conserving, NEW t \in Logs!Thread, Logs!Claim(t)
  PROVE  Conserving'
<1> USE DEF Conserving
<1>1. LogsTyped'
  <2>1. index' \in Nat /\ (index < Files => index + 1 \in 0..Files)
    BY DEF LogsTyped, Logs!ParseLogsAssumption, Logs!Claim
  <2>2. Logs!Thread' = Logs!Thread /\ Crew' = Crew /\ UNCHANGED <<files, res, main, joined, sum, top>>
    BY DEF Logs!Thread, Crew, Logs!Claim
  <2>3. erange' \in [Logs!Thread -> BOOLEAN]
    <3>1. CASE index < Files
      <4>1. PICK kept \in {erange[t], FALSE} : erange' = [erange EXCEPT ![t] = kept]
        BY <3>1 DEF Logs!Claim
      <4>2. kept \in BOOLEAN
        BY DEF LogsTyped
      <4> QED
        BY <4>1, <4>2 DEF LogsTyped
    <3>2. CASE ~(index < Files)
      BY <3>2 DEF Logs!Claim, LogsTyped
    <3> QED
      BY <3>1, <3>2
  <2>4. /\ place' \in [Logs!Thread -> {"unborn", "claim", "read", "returned"}]
        /\ mine' \in [Logs!Thread -> 0..Files]
        /\ nextLine' \in [Logs!Thread -> Nat \ {0}]
    <3>1. CASE index < Files
      <4>1. /\ place' = [place EXCEPT ![t] = "read"] /\ mine' = [mine EXCEPT ![t] = index + 1]
            /\ nextLine' = [nextLine EXCEPT ![t] = 1]
        BY <3>1 DEF Logs!Claim
      <4> QED
        BY <2>1, <3>1, <4>1 DEF LogsTyped
    <3>2. CASE ~(index < Files)
      BY <3>2 DEF Logs!Claim, LogsTyped
    <3> QED
      BY <3>1, <3>2
  <2> QED
    BY <2>1, <2>2, <2>3, <2>4 DEF LogsTyped
<1>2. Apart'
  <2>1. index \in Nat /\ Files \in Nat /\ index' = index + 1 /\ place[t] = "claim"
    BY DEF LogsTyped, Logs!ParseLogsAssumption, Logs!Claim
  <2>2. \A u \in Logs!Thread : u # t => place'[u] = place[u] /\ mine'[u] = mine[u]
    BY DEF LogsTyped, Logs!Claim
  <2>3. \/ index < Files /\ place'[t] = "read" /\ mine'[t] = index + 1
        \/ ~(index < Files) /\ place'[t] = "returned"
    BY DEF LogsTyped, Logs!Claim
  <2>4. \A u \in Logs!Thread : place'[u] = "read" => mine'[u] \in 1..Files /\ mine'[u] <= index + 1
    BY <2>1, <2>2, <2>3 DEF Apart
  <2>5. \A u, x \in Logs!Thread : place'[u] = "read" /\ place'[x] = "read" /\ mine'[u] = mine'[x] => u = x
    BY <2>1, <2>2, <2>3 DEF Apart
  <2>6. \A u \in Logs!Thread : place'[u] = "returned" => index' >= Files
    BY <2>1, <2>2, <2>3 DEF Apart
  <2>7. joined' = joined /\ \A u \in Logs!Thread : u <= joined => place'[u] = "returned"
    <3>1. joined' = joined /\ ~(t <= joined)
      BY <2>1 DEF Apart, Logs!Claim
    <3> QED
      BY <2>2, <3>1 DEF Apart
  <2>8. Logs!InRange' => \A u \in Logs!Thread : ~erange'[u]
    BY SameFiles DEF Apart, Logs!Claim, LogsTyped
  <2>9. Logs!Thread' = Logs!Thread
    BY DEF Logs!Thread
  <2> QED
    BY <2>1, <2>4, <2>5, <2>6, <2>7, <2>8, <2>9 DEF Apart
<1>3. AllConserved' /\ KeysKept'
  BY ClaimUnread, SameAmounts DEF Logs!Claim
<1> QED
  BY <1>1, <1>2, <1>3

LEMMA EndOfFileStep ==
  ASSUME Logs!ParseLogsAssumption, Conserving, NEW t \in Logs!Thread, Logs!EndOfFile(t)
  PROVE  Conserving'
<1> USE DEF Conserving
<1>1. LogsTyped'
  BY DEF LogsTyped, Logs!EndOfFile
<1>2. /\ UNCHANGED <<files, index, mine, nextLine, erange, res, main, joined, sum, top>>
      /\ place[t] = "read" /\ place'[t] = "claim" /\ nextLine[t] > Len(files[mine[t]])
      /\ \A u \in Logs!Thread : u # t => place'[u] = place[u]
  BY DEF LogsTyped, Logs!EndOfFile
<1>3. Apart'
  <2>1. ~(t <= joined)
    BY <1>2 DEF Apart
  <2>2. Logs!InRange' = Logs!InRange /\ Logs!Thread' = Logs!Thread
    BY <1>2, SameFiles DEF Logs!Thread
  <2>3. Logs!InRange' => \A u \in Logs!Thread : ~erange'[u]
    BY <1>2, <2>2 DEF Apart
  <2> QED
    BY <1>2, <2>1, <2>2, <2>3 DEF Apart
<1>4. Logs!Unread' = Logs!Unread
  <2>1. Logs!Spots' = Logs!Spots
    BY <1>2, SameFiles
  <2>2. ASSUME NEW s \in Logs!Spots PROVE s \in Logs!Unread' <=> s \in Logs!Unread
    <3>1. s[2] \in Nat /\ s[2] <= Len(files[s[1]]) /\ s[1] \in 1..Files /\ Len(files[s[1]]) \in Nat
      BY SpotsAre DEF LogsTyped
    <3>2. nextLine[t] \in Nat
      BY DEF LogsTyped
    <3>3. ~(mine[t] = s[1] /\ s[2] >= nextLine[t])
      BY <1>2, <3>1, <3>2
    <3> QED
      BY <1>2, <2>1, <3>3 DEF Logs!Unread
  <2> QED
    BY <2>1, <2>2 DEF Logs!Unread
<1>5. AllConserved' /\ KeysKept'
  BY <1>2, <1>4, SameAmounts
<1> QED
  BY <1>1, <1>3, <1>5

LEMMA ReadErrorStep ==
  ASSUME Logs!ParseLogsAssumption, Conserving, NEW t \in Logs!Thread, Logs!ReadError(t)
  PROVE  Conserving'
<1> USE DEF Conserving
<1>1. LogsTyped'
  BY DEF LogsTyped, Logs!ReadError, Logs!thread
<1>2. UNCHANGED <<files, index, place, mine, nextLine, erange, res, joined, sum, top>> /\ main' = "aborted"
  BY DEF Logs!ReadError, Logs!thread
<1>3. Apart' /\ Logs!Unread' = Logs!Unread
  <2>1. Logs!InRange' = Logs!InRange /\ Logs!Thread' = Logs!Thread /\ Logs!Spots' = Logs!Spots
    BY <1>2, SameFiles DEF Logs!Thread
  <2> QED
    BY <1>2, <2>1 DEF Apart, Logs!Unread
<1>4. AllConserved' /\ KeysKept'
  BY <1>2, <1>3, SameAmounts
<1> QED
  BY <1>1, <1>3, <1>4

LEMMA SpawnStep ==
  ASSUME Logs!ParseLogsAssumption, Conserving, Logs!Spawn
  PROVE  Conserving'
<1> USE DEF Conserving
<1>1. PICK t \in Logs!Thread :
        /\ place[t] = "unborn" /\ place' = [place EXCEPT ![t] = "claim"]
        /\ main' \in {"spawn", "join"} /\ main = "spawn"
        /\ UNCHANGED <<files, index, mine, nextLine, erange, res, joined, sum, top>>
  BY DEF Logs!Spawn
<1>2. LogsTyped'
  BY <1>1 DEF LogsTyped
<1>3. \A u \in Logs!Thread : place'[u] = (IF u = t THEN "claim" ELSE place[u])
  BY <1>1 DEF LogsTyped
<1>4. Logs!InRange' = Logs!InRange /\ Logs!Thread' = Logs!Thread /\ Logs!Spots' = Logs!Spots
  BY <1>1, SameFiles DEF Logs!Thread
<1>5. Apart'
  <2>1. ~(t <= joined)
    BY <1>1 DEF Apart
  <2>2. Logs!InRange' => \A u \in Logs!Thread : ~erange'[u]
    BY <1>1, <1>4 DEF Apart
  <2> QED
    BY <1>1, <1>3, <1>4, <2>1, <2>2 DEF Apart
<1>6. Logs!Unread' = Logs!Unread
  BY <1>1, <1>3, <1>4 DEF Logs!Unread
<1>7. AllConserved' /\ KeysKept'
  <2>1. Merging /\ Merging'
    BY <1>1 DEF Merging
  <2> QED
    BY <1>1, <1>6, <2>1, SameAmounts
<1> QED
  BY <1>2, <1>5, <1>7

LEMMA ReadLineStep ==
  ASSUME Logs!ParseLogsAssumption, Conserving, NEW t \in Logs!Thread, Logs!ReadLine(t)
  PROVE  Conserving'
<1> USE DEF Conserving
<1> DEFINE l == files[mine[t]][nextLine[t]]
           sp == <<mine[t], nextLine[t]>>
<1>1. /\ place[t] = "read" /\ nextLine[t] <= Len(files[mine[t]])
      /\ UNCHANGED <<files, index, place, mine, main, joined, sum, top>>
      /\ nextLine' = [nextLine EXCEPT ![t] = @ + 1]
      /\ erange' = [erange EXCEPT ![t] = @ \/ ~l.inRange]
      /\ res' = IF l.complete /\ ~erange'[t] THEN [res EXCEPT ![t] = Logs!AddLine(@, l)] ELSE res
  BY DEF Logs!ReadLine
<1>2. /\ mine[t] \in 1..Files /\ mine[t] <= index /\ files[mine[t]] \in Seq(Lines) /\ nextLine[t] \in Nat \ {0}
      /\ Len(files[mine[t]]) <= MaxLines
  BY <1>1 DEF Apart, LogsTyped
<1>3. l \in Logs!Line
  <2>1. l \in Lines
    BY <1>1, <1>2
  <2> QED
    BY <2>1 DEF Logs!ParseLogsAssumption
<1>4. t > joined
  <2>1. joined \in 0..Crew
    BY DEF LogsTyped
  <2>2. joined \in Nat /\ t \in Nat
    BY <2>1, ThreadIs
  <2>3. ~(t <= joined)
    BY <1>1 DEF Apart
  <2> QED
    BY <2>2, <2>3
<1>5. Logs!LineAt(sp) = l /\ (sp \in Logs!Spots <=> l.complete /\ l.inRange)
  <2>1. MaxLines \in Nat /\ nextLine[t] \in 1..MaxLines
    BY <1>1, <1>2 DEF Logs!ParseLogsAssumption
  <2> QED
    BY <1>1, <1>2, <2>1 DEF Logs!Spots, Logs!LineAt
<1>6. Result(Logs!AddLine(res[t], l)) /\ Result(res[t])
  BY <1>3, HeldAdd DEF LogsTyped
<1> HIDE DEF l, sp
<1>7. LogsTyped'
  <2>1. nextLine' \in [Logs!Thread -> Nat \ {0}]
    BY <1>1, <1>2 DEF LogsTyped
  <2>2. erange' \in [Logs!Thread -> BOOLEAN]
    <3>1. l.inRange \in BOOLEAN
      BY <1>3 DEF Logs!Line
    <3> QED
      BY <1>1, <3>1 DEF LogsTyped
  <2>3. DOMAIN res' = Logs!Thread /\ \A u \in Logs!Thread : Result(res'[u])
    BY <1>1, <1>6 DEF LogsTyped
  <2>4. Logs!Thread' = Logs!Thread /\ Crew' = Crew
    BY DEF Logs!Thread, Crew
  <2> QED
    BY <1>1, <2>1, <2>2, <2>3, <2>4 DEF LogsTyped
<1>8. /\ Logs!Spots' = Logs!Spots /\ Logs!InRange' = Logs!InRange
      /\ \A q : Weights(q)' = Weights(q)
      /\ \A w : KeysOf(w)' = KeysOf(w)
      /\ \A s : Logs!LineAt(s)' = Logs!LineAt(s)
      /\ Logs!Thread' = Logs!Thread
  BY <1>1, SameFiles DEF Logs!Thread
<1>9. Logs!InRange => l.inRange
  BY <1>1, <1>2 DEF Logs!InRange, l
<1>10. Apart'
  <2>1. Logs!InRange' => \A u \in Logs!Thread : ~erange'[u]
    BY <1>1, <1>8, <1>9 DEF Apart, LogsTyped
  <2> QED
    BY <1>1, <1>8, <2>1 DEF Apart
<1>11. Logs!Unread' = Logs!Unread \ {sp} /\ (sp \in Logs!Spots => sp \in Logs!Unread)
  BY ReadUnread DEF sp
<1>12. ASSUME Logs!InRange
       PROVE  /\ ~l.complete => Logs!Unread' = Logs!Unread /\ res' = res
              /\ l.complete => /\ sp \in Logs!Unread
                               /\ res'[t] = Logs!AddLine(res[t], l)
                               /\ \A u \in Logs!Thread : u # t => res'[u] = res[u]
  <2>1. l.inRange /\ erange'[t] = (erange[t] \/ ~l.inRange) /\ ~erange[t]
    BY <1>1, <1>9, <1>12 DEF Apart, LogsTyped
  <2>2. Logs!Unread \subseteq Logs!Spots
    BY DEF Logs!Unread
  <2>3. ~l.complete => Logs!Unread' = Logs!Unread
    BY <1>5, <1>11, <2>2
  <2> QED
    BY <1>1, <1>5, <1>11, <2>1, <2>3 DEF LogsTyped
<1>13. ASSUME Logs!InRange, NEW q \in Kinds, Conserved(q)
       PROVE  Conserved(q)'
  <2>1. CASE ~l.complete
    <3>1. Shares(q)' = Shares(q)
      BY <1>1, <1>8, <1>12, <1>13, <2>1 DEF Shares
    <3> QED
      BY <1>1, <1>8, <1>12, <1>13, <2>1, <3>1 DEF Conserved
  <2>2. CASE l.complete
    <3> DEFINE W == Weights(q)
               a == Amount(q, l)
               h == Held(q, res[t])
               u == SumOf(Logs!Unread \ {sp}, W)
               m == Held(q, sum)
    <3>1. W[sp] = a /\ sp \in Logs!Spots
      BY <1>5, <1>11, <1>12, <1>13, <2>2, SpotsAre DEF Weights
    <3>2. SumOf(Logs!Unread, W) = Logs!Plus(u, a)
      <4>1. IsFiniteSet(Logs!Unread) /\ \A s \in Logs!Unread : W[s] \in Words
        BY SpotsAre
      <4>2. sp \in Logs!Unread
        BY <1>12, <1>13, <2>2
      <4> HIDE DEF W
      <4>3. SumOf(Logs!Unread, W) = Logs!Plus(SumOf(Logs!Unread \ {sp}, W), W[sp])
        BY <4>1, <4>2, SumTake
      <4> QED
        BY <3>1, <4>3
    <3>3. /\ Shares(q)[t] = h /\ Shares(q)'[t] = Logs!Plus(h, a)
          /\ \A x \in Logs!Thread \ {t} : Shares(q)[x] = Shares(q)'[x]
      <4>1. Held(q, res'[t]) = Logs!Plus(h, a)
        BY <1>3, <1>6, <1>12, <1>13, <2>2, HeldAdd
      <4> QED
        BY <1>1, <1>4, <1>8, <1>12, <1>13, <2>2, <4>1 DEF Shares
    <3>4. PICK rest \in Words : SumOf(Logs!Thread, Shares(q)) = Logs!Plus(rest, h)
                                /\ SumOf(Logs!Thread, Shares(q)') = Logs!Plus(rest, Logs!Plus(h, a))
      <4> DEFINE v == Shares(q)
                 w == Shares(q)'
      <4>1. \A x \in Logs!Thread : v[x] \in Words /\ w[x] \in Words
        <5>1. \A x \in Logs!Thread : v[x] \in Words
          BY SharesAre
        <5>2. w[t] \in Words
          <6>1. h \in Words /\ a \in Words
            BY <1>3, <1>6, HeldType, AmountType
          <6> QED
            BY <3>3, <6>1, PlusIs
        <5> QED
          BY <3>3, <5>1, <5>2
      <4>2. v[t] = h /\ w[t] = Logs!Plus(h, a) /\ \A x \in Logs!Thread \ {t} : v[x] = w[x]
        BY <3>3
      <4>3. IsFiniteSet(Logs!Thread)
        BY ThreadIs
      <4> HIDE DEF v, w, h, a
      <4>4. \E r \in Words : SumOf(Logs!Thread, v) = Logs!Plus(r, v[t]) /\ SumOf(Logs!Thread, w) = Logs!Plus(r, w[t])
        BY <4>1, <4>2, <4>3, SumChange
      <4> QED
        BY <4>2, <4>4 DEF v, w
    <3>5. m \in Words /\ u \in Words /\ h \in Words /\ a \in Words
      <4>1. u \in Words
        <5>1. Logs!Unread \ {sp} \in SUBSET Logs!Spots
          BY DEF Logs!Unread
        <5>2. IsFiniteSet(Logs!Unread \ {sp})
          BY <5>1, SpotsAre, FS_Subset
        <5>3. \A s \in Logs!Unread \ {sp} : W[s] \in Words
          BY <5>1, SpotsAre
        <5> HIDE DEF W
        <5> QED
          BY <5>2, <5>3, SumType
      <4>2. m \in Words /\ h \in Words /\ a \in Words
        BY <1>3, <1>6, HeldType, AmountType DEF LogsTyped
      <4> QED
        BY <4>1, <4>2
    <3>6. /\ Held(q, sum)' = m /\ SumOf(Logs!Unread, Weights(q))' = u
          /\ SumOf(Logs!Thread, Shares(q))' = Logs!Plus(rest, Logs!Plus(h, a))
          /\ SumOf(Logs!Spots, Weights(q))' = SumOf(Logs!Spots, W)
      BY <1>1, <1>8, <1>11, <3>4
    <3>7. SumOf(Logs!Spots, W) = Logs!Plus(Logs!Plus(m, Logs!Plus(u, a)), Logs!Plus(rest, h))
      BY <1>13, <3>2, <3>4 DEF Conserved
    <3> HIDE DEF m, u, h, a, W
    <3>8. SumOf(Logs!Spots, W) = Logs!Plus(Logs!Plus(m, u), Logs!Plus(rest, Logs!Plus(h, a)))
      BY <3>5, <3>7, Moved
    <3> QED
      BY <3>6, <3>8 DEF Conserved
  <2> QED
    BY <2>1, <2>2
<1>14. AllConserved'
  <2>1. Merging' = Merging
    BY <1>1 DEF Merging
  <2> QED
    BY <1>8, <1>13, <2>1 DEF AllConserved
<1>15. ASSUME Logs!InRange, Merging, NEW w \in {"url", "refer"}, NEW k
       PROVE  Seen(w, k)' <=> Seen(w, k)
  <2>1. CASE ~l.complete
    BY <1>1, <1>8, <1>12, <1>15, <2>1 DEF Seen
  <2>2. CASE l.complete
    <3>1. DOMAIN res'[t][w] = DOMAIN res[t][w] \cup {l[w]}
      BY <1>3, <1>6, <1>12, <1>15, <2>2, HeldAdd
    <3>2. (\E s \in Logs!Unread : Logs!LineAt(s)[w] = k) <=> l[w] = k \/ \E s \in Logs!Unread' : Logs!LineAt(s)[w] = k
      BY <1>5, <1>11, <1>12, <1>15, <2>2
    <3>3. (\E u \in Logs!Thread : u > joined /\ k \in DOMAIN res'[u][w])
          <=> l[w] = k \/ \E u \in Logs!Thread : u > joined /\ k \in DOMAIN res[u][w]
      BY <1>4, <1>12, <1>15, <2>2, <3>1
    <3>4. Seen(w, k)' <=> \/ k \in DOMAIN sum[w]
                          \/ \E s \in Logs!Unread' : Logs!LineAt(s)[w] = k
                          \/ \E u \in Logs!Thread : u > joined /\ k \in DOMAIN res'[u][w]
      BY <1>1, <1>8 DEF Seen
    <3> QED
      BY <3>2, <3>3, <3>4 DEF Seen
  <2> QED
    BY <2>1, <2>2
<1>16. KeysKept'
  <2>1. Merging' = Merging
    BY <1>1 DEF Merging
  <2> QED
    BY <1>8, <1>15, <2>1 DEF KeysKept
<1> QED
  BY <1>7, <1>10, <1>14, <1>16

-----------------------------------------------------------------------------
(* The steps of main. *)

\* What main takes over from a thread is not counted twice.
LEMMA JoinStep ==
  ASSUME Logs!ParseLogsAssumption, Conserving, Logs!Join
  PROVE  /\ LogsTyped' /\ Apart'
         /\ Logs!InRange' => /\ \A q \in Kinds : Conserved(q)'
                             /\ \A w \in {"url", "refer"} : \A k : (k \in KeysOf(w))' <=> Seen(w, k)'
<1> USE DEF Conserving
<1> DEFINE j == joined + 1
<1>1. /\ main = "join" /\ place[j] = "returned" /\ sum' = Logs!Merge(sum, res[j]) /\ joined' = j
      /\ main' = IF j = Crew THEN "top" ELSE "join"
      /\ UNCHANGED <<files, index, place, mine, nextLine, erange, res, top>>
  BY ThreadIs DEF Logs!Join, Logs!thread
<1>2. j \in Logs!Thread /\ joined < j /\ joined \in Nat /\ j <= Crew
  <2>1. joined \in 0..Crew /\ joined < Crew
    BY <1>1 DEF LogsTyped
  <2> QED
    BY <2>1, ThreadIs
<1>3. \A t \in Logs!Thread : t \in Nat
  BY ThreadIs
<1> HIDE DEF j
<1>4. Result(sum) /\ Result(res[j])
  BY <1>2 DEF LogsTyped
<1>5. Logs!Thread' = Logs!Thread /\ Crew' = Crew /\ Logs!Spots' = Logs!Spots /\ Logs!InRange' = Logs!InRange
      /\ (\A q : Weights(q)' = Weights(q)) /\ (\A w : KeysOf(w)' = KeysOf(w))
      /\ (\A s : Logs!LineAt(s)' = Logs!LineAt(s))
  BY <1>1, SameFiles DEF Logs!Thread, Crew
<1>6. Logs!Unread' = Logs!Unread
  BY <1>1, <1>5 DEF Logs!Unread
<1>7. LogsTyped'
  <2>1. Result(sum')
    BY <1>1, <1>4, HeldMerge
  <2>2. j \in 0..Crew /\ (main' = "join" => j < Crew) /\ (main' = "top" => j = Crew) /\ main' \in {"join", "top"}
    BY <1>1, <1>2, ThreadIs
  <2> QED
    BY <1>1, <1>5, <2>1, <2>2 DEF LogsTyped
<1>8. Apart'
  <2>1. \A t \in Logs!Thread : t <= j <=> t <= joined \/ t = j
    BY <1>2, <1>3 DEF j
  <2>2. Logs!InRange' => \A u \in Logs!Thread : ~erange'[u]
    BY <1>1, <1>5 DEF Apart
  <2> QED
    BY <1>1, <1>5, <2>1, <2>2 DEF Apart
<1>9. \A t \in Logs!Thread : t > joined <=> t > joined' \/ t = j
  BY <1>1, <1>2, <1>3 DEF j
<1>10. ~(j > joined')
  BY <1>1, <1>2, <1>3
<1>11. ASSUME Logs!InRange, NEW q \in Kinds PROVE Conserved(q)'
  <2> DEFINE W == Weights(q)
             u == SumOf(Logs!Unread, W)
             m == Held(q, sum)
             h == Held(q, res[j])
             v == Shares(q)
             w == Shares(q)'
  <2>1. Conserved(q)
    BY <1>1, <1>11 DEF AllConserved, Merging
  <2>2. v[j] = h /\ w[j] = 0 /\ \A x \in Logs!Thread \ {j} : v[x] = w[x]
    BY <1>1, <1>2, <1>5, <1>9, <1>10 DEF Shares
  <2>3. \A x \in Logs!Thread : v[x] \in Words /\ w[x] \in Words
    <3>1. 0 \in Words /\ \A x \in Logs!Thread : v[x] \in Words
      BY SharesAre DEF Words, Logs!ParseLogsAssumption
    <3> QED
      BY <2>2, <3>1
  <2>4. PICK rest \in Words : SumOf(Logs!Thread, v) = Logs!Plus(rest, h) /\ SumOf(Logs!Thread, w) = Logs!Plus(rest, 0)
    <3>1. IsFiniteSet(Logs!Thread)
      BY ThreadIs
    <3> HIDE DEF v, w, h
    <3>2. \E r \in Words : SumOf(Logs!Thread, v) = Logs!Plus(r, v[j]) /\ SumOf(Logs!Thread, w) = Logs!Plus(r, w[j])
      BY <1>2, <2>2, <2>3, <3>1, SumChange
    <3> QED
      BY <2>2, <3>2
  <2>5. m \in Words /\ h \in Words
    BY <1>4, HeldType
  <2>6. u \in Words
    <3>1. IsFiniteSet(Logs!Unread) /\ \A s \in Logs!Unread : W[s] \in Words
      BY SpotsAre
    <3> HIDE DEF W
    <3> QED
      BY <3>1, SumType
  <2>7. Held(q, sum') = Logs!Plus(m, h)
    BY <1>1, <1>4, HeldMerge
  <2>8. SumOf(Logs!Spots, W) = Logs!Plus(Logs!Plus(m, u), Logs!Plus(rest, h))
    BY <2>1, <2>4 DEF Conserved
  <2>9. /\ SumOf(Logs!Unread, Weights(q))' = u /\ Held(q, sum)' = Logs!Plus(m, h)
        /\ SumOf(Logs!Thread, Shares(q))' = Logs!Plus(rest, 0)
        /\ SumOf(Logs!Spots, Weights(q))' = SumOf(Logs!Spots, W)
    BY <1>5, <1>6, <2>4, <2>7
  <2> HIDE DEF u, m, h, v, w, W
  <2>10. SumOf(Logs!Spots, W) = Logs!Plus(Logs!Plus(Logs!Plus(m, h), u), Logs!Plus(rest, 0))
    BY <2>5, <2>6, <2>8, Moved
  <2> QED
    BY <2>9, <2>10 DEF Conserved
<1>12. ASSUME Logs!InRange, NEW w \in {"url", "refer"}, NEW k PROVE (k \in KeysOf(w))' <=> Seen(w, k)'
  <2>1. k \in KeysOf(w) <=> Seen(w, k)
    BY <1>1, <1>12 DEF KeysKept, Merging
  <2>2. DOMAIN sum'[w] = DOMAIN sum[w] \cup DOMAIN res[j][w]
    BY <1>1, <1>4, HeldMerge
  <2>3. (\E t \in Logs!Thread : t > joined /\ k \in DOMAIN res[t][w])
        <=> k \in DOMAIN res[j][w] \/ \E t \in Logs!Thread : t > joined' /\ k \in DOMAIN res[t][w]
    BY <1>2, <1>9
  <2>4. Seen(w, k)' <=> \/ k \in DOMAIN sum'[w]
                        \/ \E s \in Logs!Unread : Logs!LineAt(s)[w] = k
                        \/ \E t \in Logs!Thread : t > joined' /\ k \in DOMAIN res[t][w]
    BY <1>1, <1>5, <1>6 DEF Seen
  <2> QED
    BY <1>5, <2>1, <2>2, <2>3, <2>4 DEF Seen
<1> QED
  BY <1>5, <1>7, <1>8, <1>11, <1>12

\* When every thread has been joined all there is to say is in the sum.
LEMMA AllJoined ==
  ASSUME Logs!ParseLogsAssumption, LogsTyped, Apart, joined = Crew
  PROVE  /\ \A q \in Kinds : Conserved(q) => SumOf(Logs!Spots, Weights(q)) = Held(q, sum)
         /\ \A w \in {"url", "refer"} : \A k : Seen(w, k) <=> k \in DOMAIN sum[w]
<1>1. \A t \in Logs!Thread : t <= joined /\ ~(t > joined)
  BY ThreadIs
<1>2. \A t \in Logs!Thread : place[t] = "returned"
  BY <1>1 DEF Apart
<1>3. index >= Files /\ Files \in Nat /\ index \in Nat
  <2>1. 1 \in Logs!Thread
    BY ThreadIs
  <2> QED
    BY <1>2, <2>1 DEF Apart, LogsTyped, Logs!ParseLogsAssumption
<1>4. Logs!Unread = {}
  <2>1. \A s \in Logs!Spots : ~(s[1] > index)
    BY <1>3, SpotsAre
  <2> QED
    BY <1>2, <2>1 DEF Logs!Unread
<1>5. ASSUME NEW q \in Kinds, Conserved(q) PROVE SumOf(Logs!Spots, Weights(q)) = Held(q, sum)
  <2>1. \A t \in Logs!Thread : Shares(q)[t] = 0
    BY <1>1 DEF Shares
  <2>2. Held(q, sum) \in Words /\ 0 \in Words
    BY HeldType DEF LogsTyped, Words, Logs!ParseLogsAssumption
  <2>3. SumOf(Logs!Thread, Shares(q)) = 0
    <3>1. SumOf(Logs!Thread, Shares(q)) = SumOf({}, Shares(q))
      BY <2>1, <2>2, ThreadIs, SumOnly
    <3> QED
      BY <3>1, SumChosen, FS_EmptySet
  <2>4. SumOf(Logs!Unread, Weights(q)) = 0
    BY <1>4, SumChosen, FS_EmptySet
  <2>5. Logs!Plus(Logs!Plus(Held(q, sum), 0), 0) = Held(q, sum)
    BY <2>2, PlusSwaps
  <2> QED
    BY <1>5, <2>3, <2>4, <2>5 DEF Conserved
<1>6. ASSUME NEW w \in {"url", "refer"}, NEW k PROVE Seen(w, k) <=> k \in DOMAIN sum[w]
  BY <1>1, <1>4 DEF Seen
<1> QED
  BY <1>5, <1>6

-----------------------------------------------------------------------------
(* The top sequences. *)

Sorted(seq) == \A i, k \in 1..Len(seq) : i < k => seq[i][2] >= seq[k][2]

\* In a sorted sequence the entries that are not less come first.
LEMMA NotLess ==
  ASSUME NEW K, NEW seq \in Seq(K \X Nat), Sorted(seq), NEW v \in Nat
  PROVE  LET n == Logs!Cardinality({i \in DOMAIN seq : seq[i][2] >= v})
         IN  n \in 0..Len(seq) /\ \A i \in 1..Len(seq) : seq[i][2] >= v <=> i <= n
<1> DEFINE A == {i \in DOMAIN seq : seq[i][2] >= v}
           L == Len(seq)
           bad == {i \in 1..L : ~(seq[i][2] >= v)}
<1>1. L \in Nat /\ DOMAIN seq = 1..L /\ \A i \in 1..L : seq[i][2] \in Nat
  <2>1. \A i \in 1..L : seq[i] \in K \X Nat
    OBVIOUS
  <2> QED
    BY <2>1
<1>2. PICK m \in 0..L : \A i \in 1..L : seq[i][2] >= v <=> i <= m
  <2>1. CASE bad = {}
    <3>1. \A i \in 1..L : seq[i][2] >= v
      BY <2>1
    <3>2. L \in 0..L /\ \A i \in 1..L : i <= L
      BY <1>1
    <3> HIDE DEF L
    <3>3. \A i \in 1..L : seq[i][2] >= v <=> i <= L
      BY <3>1, <3>2
    <3> QED
      BY <3>2, <3>3
  <2>2. CASE bad # {}
    <3>1. bad \subseteq Nat
      OBVIOUS
    <3>2. PICK b \in bad : \A q \in bad : ~(<<q, b>> \in OpToRel(<, Nat))
      <4> HIDE DEF bad
      <4> QED
        BY <2>2, <3>1, NatLessThanWellFounded, WFMin, Zenon
    <3>3. b \in 1..L /\ ~(seq[b][2] >= v) /\ b - 1 \in 0..L
      BY <1>1
    <3>4. ASSUME NEW i \in 1..L PROVE seq[i][2] >= v <=> i <= b - 1
      <4>1. CASE i < b
        <5>1. <<i, b>> \in OpToRel(<, Nat)
          BY <3>3, <4>1 DEF OpToRel
        <5>2. i \notin bad
          BY <3>2, <5>1
        <5> QED
          BY <3>3, <4>1, <5>2
      <4>2. CASE ~(i < b)
        <5>1. i = b \/ seq[b][2] >= seq[i][2]
          BY <3>3, <4>2 DEF Sorted
        <5> QED
          BY <1>1, <3>3, <4>2, <5>1
      <4> QED
        BY <4>1, <4>2
    <3> QED
      BY <3>3, <3>4
  <2> QED
    BY <2>1, <2>2
<1>3. A = 1..m
  BY <1>1, <1>2
<1>4. Cardinality(1..m) = m
  <2>1. 1 \in Int /\ m \in Int /\ m \in Nat
    BY <1>1
  <2>2. Cardinality(1..m) = IF 1 > m THEN 0 ELSE m - 1 + 1
    BY <2>1, FS_Interval
  <2> QED
    BY <2>1, <2>2
<1>5. Logs!Cardinality(A) = Cardinality(A)
  BY DEF Logs!Cardinality, Cardinality
<1>6. Logs!Cardinality(A) = m
  BY <1>3, <1>4, <1>5
<1> HIDE DEF A
<1> QED
  BY <1>2, <1>6 DEF A

\* The entry comes after the first n, and the others are as they were.
InsertedAt(n, K, seq, e) ==
    LET new == Logs!InsertSorted(seq, e)
    IN  /\ \A i \in 1..Len(seq) : seq[i][2] >= e[2] <=> i <= n
        /\ new \in Seq(K \X Nat) /\ Len(new) = Len(seq) + 1
        /\ \A i \in 1..(Len(seq) + 1) :
             new[i] = IF i <= n THEN seq[i] ELSE IF i = n + 1 THEN e ELSE seq[i - 1]

\* g_sequence_insert_sorted.
LEMMA InsertedIs ==
  ASSUME NEW K, NEW seq \in Seq(K \X Nat), Sorted(seq), NEW e \in K \X Nat
  PROVE  \E n \in 0..Len(seq) : InsertedAt(n, K, seq, e)
<1> DEFINE n == Logs!Cardinality({i \in DOMAIN seq : seq[i][2] >= e[2]})
           E == K \X Nat
           L == Len(seq)
           a == SubSeq(seq, 1, n)
           b == SubSeq(seq, n + 1, L)
           new == Logs!InsertSorted(seq, e)
<1>1. n \in 0..L /\ \A i \in 1..L : seq[i][2] >= e[2] <=> i <= n
  <2>1. e[2] \in Nat
    OBVIOUS
  <2> QED
    BY <2>1, NotLess
<1>2. new = a \o <<e>> \o b
  BY DEF Logs!InsertSorted
<1> HIDE DEF n, new, E
<1>3. L \in Nat /\ seq \in Seq(E) /\ e \in E
  BY DEF E
<1>4. a \in Seq(E) /\ Len(a) = n /\ \A i \in 1..n : a[i] = seq[i]
  BY <1>1, <1>3
<1>5. b \in Seq(E) /\ Len(b) = L - n /\ \A i \in 1..(L - n) : b[i] = seq[n + i]
  BY <1>1, <1>3
<1> HIDE DEF a, b
<1>6. a \o <<e>> \in Seq(E) /\ Len(a \o <<e>>) = n + 1
      /\ \A i \in 1..(n + 1) : (a \o <<e>>)[i] = IF i <= n THEN a[i] ELSE e
  BY <1>1, <1>3, <1>4
<1>7. new \in Seq(E) /\ Len(new) = L + 1
      /\ \A i \in 1..(L + 1) : new[i] = IF i <= n + 1 THEN (a \o <<e>>)[i] ELSE b[i - (n + 1)]
  <2> DEFINE c == a \o <<e>>
  <2>1. c \in Seq(E) /\ Len(c) = n + 1
    BY <1>6
  <2> HIDE DEF c
  <2>2. c \o b \in Seq(E) /\ Len(c \o b) = L + 1
        /\ \A i \in 1..(L + 1) : (c \o b)[i] = IF i <= n + 1 THEN c[i] ELSE b[i - (n + 1)]
    BY <1>1, <1>3, <1>5, <2>1
  <2> QED
    BY <1>2, <2>2 DEF c
<1>8. \A i \in 1..(L + 1) : new[i] = IF i <= n THEN seq[i] ELSE IF i = n + 1 THEN e ELSE seq[i - 1]
  <2>1. TAKE i \in 1..(L + 1)
  <2>2. CASE i <= n
    BY <1>1, <1>4, <1>6, <1>7, <2>2
  <2>3. CASE i = n + 1
    BY <1>1, <1>4, <1>6, <1>7, <2>3
  <2>4. CASE i > n + 1
    <3>1. i - (n + 1) \in 1..(L - n) /\ n + (i - (n + 1)) = i - 1 /\ n \in Nat /\ i \in Nat
      <4>1. L \in Nat /\ n \in 0..L
        BY <1>1, <1>3
      <4> HIDE DEF L
      <4> QED
        BY <2>4, <4>1
    <3>2. new[i] = b[i - (n + 1)]
      BY <1>7, <2>4, <3>1
    <3>3. b[i - (n + 1)] = seq[i - 1]
      BY <1>5, <3>1
    <3> QED
      BY <2>4, <3>1, <3>2, <3>3
  <2> QED
    BY <1>1, <1>3, <2>2, <2>3, <2>4
<1> QED
  BY <1>1, <1>7, <1>8 DEF E, new, InsertedAt

\* The first of the keys by their values, as many as there are to be.
Best(seq, keys, val) ==
    /\ seq \in Seq(keys \X Nat) /\ Sorted(seq)
    /\ \A i \in 1..Len(seq) : seq[i][2] = val[seq[i][1]]
    /\ \A i, k \in 1..Len(seq) : i < k => seq[i][1] # seq[k][1]
    /\ \/ Len(seq) = Cardinality(keys) /\ Len(seq) < StatSize
       \/ Cardinality(keys) >= StatSize /\ Len(seq) = StatSize
    /\ Len(seq) < StatSize => \A k \in keys : \E i \in 1..Len(seq) : seq[i][1] = k
    /\ \A k \in keys : (\A i \in 1..Len(seq) : seq[i][1] # k) => val[k] <= seq[Len(seq)][2]

\* ht_iter_move_to_seq keeps the best when a key is added.
LEMMA BestMore ==
  ASSUME Logs!ParseLogsAssumption, NEW keys, IsFiniteSet(keys), NEW val, NEW k, k \notin keys,
         \A x \in keys \cup {k} : val[x] \in Nat, NEW seq, Best(seq, keys, val)
  PROVE  Best(Logs!MoveToSeq(seq, <<k, val[k]>>), keys \cup {k}, val)
<1> DEFINE e == <<k, val[k]>>
           more == keys \cup {k}
           L == Len(seq)
           ins == Logs!InsertSorted(seq, e)
           new == Logs!MoveToSeq(seq, e)
<1>1. Cardinality(more) = Cardinality(keys) + 1 /\ Cardinality(keys) \in Nat /\ StatSize \in Nat \ {0}
  BY FS_AddElement, FS_CardinalityType DEF Logs!ParseLogsAssumption
<1>2. seq \in Seq(more \X Nat) /\ Sorted(seq) /\ e \in more \X Nat /\ L \in Nat
  <2>1. seq \in Seq(keys \X Nat)
    BY DEF Best
  <2>2. L \in Nat /\ seq = [i \in 1..L |-> seq[i]] /\ \A i \in 1..L : seq[i] \in keys \X Nat
    BY <2>1
  <2>3. \A i \in 1..L : seq[i] \in more \X Nat
    BY <2>2
  <2>4. seq \in Seq(more \X Nat)
    BY <2>2, <2>3, IsASeq
  <2> QED
    BY <2>2, <2>4 DEF Best
<1>3. \A i \in 1..L : seq[i][1] \in keys /\ seq[i][1] # k /\ seq[i][2] \in Nat /\ seq[i][2] = val[seq[i][1]]
  <2>1. \A i \in 1..L : seq[i] \in keys \X Nat
    BY DEF Best
  <2> QED
    BY <2>1 DEF Best
<1>4. PICK n \in 0..L : InsertedAt(n, more, seq, e)
  <2> HIDE DEF e, more
  <2> QED
    BY <1>2, InsertedIs
<1>5. /\ \A i \in 1..L : seq[i][2] >= e[2] <=> i <= n
      /\ ins \in Seq(more \X Nat) /\ Len(ins) = L + 1
      /\ \A i \in 1..(L + 1) : ins[i] = IF i <= n THEN seq[i] ELSE IF i = n + 1 THEN e ELSE seq[i - 1]
  BY <1>4 DEF InsertedAt
<1>6. e[1] = k /\ e[2] = val[k] /\ val[k] \in Nat
  OBVIOUS
<1> HIDE DEF ins, e, L
<1>7. n \in Nat /\ n <= L /\ L + 1 \in Nat /\ n + 1 \in 1..(L + 1)
  BY <1>2
<1>8. ASSUME NEW i \in 1..(L + 1)
      PROVE  \/ i <= n /\ i \in 1..L /\ ins[i] = seq[i]
             \/ i = n + 1 /\ ins[i] = e
             \/ i > n + 1 /\ i - 1 \in 1..L /\ ins[i] = seq[i - 1]
  <2>1. ins[i] = IF i <= n THEN seq[i] ELSE IF i = n + 1 THEN e ELSE seq[i - 1]
    BY <1>5
  <2>2. i \in Nat /\ (i <= n => i \in 1..L) /\ (~(i <= n) /\ i # n + 1 => i > n + 1 /\ i - 1 \in 1..L)
    BY <1>2, <1>7
  <2> QED
    BY <2>1, <2>2
<1>9. ASSUME NEW i \in 1..(L + 1) PROVE ins[i][2] = val[ins[i][1]] /\ ins[i][2] \in Nat
  BY <1>3, <1>6, <1>8
<1>10. ASSUME NEW i \in 1..(L + 1), NEW j \in 1..(L + 1), i < j
      PROVE  ins[i][1] # ins[j][1] /\ ins[i][2] >= ins[j][2]
  <2>1. \A x, y \in 1..L : x < y => seq[x][1] # seq[y][1] /\ seq[x][2] >= seq[y][2]
    BY DEF Best, Sorted, L
  <2>2. \A x \in 1..L : seq[x][2] >= e[2] <=> x <= n
    BY <1>5
  <2>3. CASE j <= n
    <3>1. i \in 1..L /\ j \in 1..L /\ ins[i] = seq[i] /\ ins[j] = seq[j]
      BY <1>10, <1>7, <1>8, <2>3
    <3> QED
      BY <1>10, <2>1, <3>1
  <2>4. CASE j = n + 1
    <3>1. ins[j] = e /\ i <= n /\ i \in 1..L /\ ins[i] = seq[i]
      BY <1>10, <1>7, <1>8, <2>4
    <3> QED
      BY <1>3, <1>6, <2>2, <3>1
  <2>5. CASE j > n + 1
    <3>1. ins[j] = seq[j - 1] /\ j - 1 \in 1..L /\ ~(j - 1 <= n)
      BY <1>7, <1>8, <2>5
    <3>2. CASE i <= n
      <4>1. ins[i] = seq[i] /\ i \in 1..L /\ i < j - 1
        BY <1>7, <1>8, <2>5, <3>2
      <4> QED
        BY <2>1, <3>1, <4>1
    <3>3. CASE i = n + 1
      <4>1. ins[i] = e
        BY <1>7, <1>8, <3>3
      <4>2. ~(seq[j - 1][2] >= e[2]) /\ seq[j - 1][2] \in Nat /\ seq[j - 1][1] # k
        BY <1>3, <2>2, <3>1
      <4> QED
        BY <1>6, <3>1, <4>1, <4>2
    <3>4. CASE i > n + 1
      <4>1. ins[i] = seq[i - 1] /\ i - 1 \in 1..L /\ i - 1 < j - 1
        BY <1>10, <1>7, <1>8, <3>4
      <4> QED
        BY <2>1, <3>1, <4>1
    <3> QED
      BY <1>7, <3>2, <3>3, <3>4
  <2> QED
    BY <1>7, <2>3, <2>4, <2>5
<1>11. ASSUME NEW x \in more, (\E i \in 1..L : seq[i][1] = x) \/ x = k PROVE \E i \in 1..(L + 1) : ins[i][1] = x
  <2>1. ASSUME NEW i \in 1..L PROVE \E j \in 1..(L + 1) : ins[j] = seq[i]
    <3>1. CASE i <= n
      <4>1. i \in 1..(L + 1)
        BY <1>2
      <4>2. ins[i] = seq[i]
        BY <1>7, <1>8, <3>1, <4>1
      <4> QED
        BY <4>1, <4>2
    <3>2. CASE ~(i <= n)
      <4>1. i + 1 \in 1..(L + 1) /\ ~(i + 1 <= n) /\ i + 1 # n + 1 /\ i + 1 - 1 = i
        BY <1>2, <1>7, <3>2
      <4>2. ins[i + 1] = seq[i]
        BY <1>7, <1>8, <4>1
      <4> QED
        BY <4>1, <4>2
    <3> QED
      BY <3>1, <3>2
  <2>2. ins[n + 1] = e
    <3>1. ~(n + 1 <= n) /\ ~(n + 1 > n + 1)
      BY <1>7
    <3> QED
      BY <1>7, <1>8, <3>1
  <2> QED
    BY <1>6, <1>11, <1>7, <2>1, <2>2
<1>12. CASE L < StatSize
  <2>1. new = ins
    BY <1>12 DEF Logs!MoveToSeq, ins, L
  <2>2. L = Cardinality(keys) /\ \A x \in keys : \E i \in 1..L : seq[i][1] = x
    BY <1>1, <1>2, <1>12 DEF Best, L
  <2>3. \A x \in more : \E i \in 1..(L + 1) : ins[i][1] = x
    BY <1>11, <2>2
  <2>4. Sorted(ins)
    BY <1>5, <1>10 DEF Sorted
  <2>5. /\ \A i \in 1..Len(ins) : ins[i][2] = val[ins[i][1]]
        /\ \A i, j \in 1..Len(ins) : i < j => ins[i][1] # ins[j][1]
    BY <1>5, <1>9, <1>10
  <2>6. \A x \in more : \E i \in 1..Len(ins) : ins[i][1] = x
    BY <1>5, <2>3
  <2>7. \/ Len(ins) = Cardinality(more) /\ Len(ins) < StatSize
        \/ Cardinality(more) >= StatSize /\ Len(ins) = StatSize
    BY <1>1, <1>2, <1>5, <1>12, <2>2
  <2> HIDE DEF more, new
  <2>8. Best(ins, more, val)
    BY <1>5, <2>4, <2>7, <2>5, <2>6 DEF Best
  <2> QED
    BY <2>1, <2>8 DEF new, more, e
<1>13. CASE ~(L < StatSize)
  <2>1. L = StatSize /\ L >= 1 /\ Cardinality(keys) >= StatSize /\ L \in 1..L
    BY <1>1, <1>2, <1>13 DEF Best, L
  <2>2. \A x \in keys : (\A i \in 1..L : seq[i][1] # x) => val[x] <= seq[L][2]
    BY DEF Best, L
  <2>3. CASE seq[L][2] >= e[2]
    <3>1. new = seq
      BY <1>13, <2>3 DEF Logs!MoveToSeq, L
    <3>2. \A x \in more : (\A i \in 1..L : seq[i][1] # x) => val[x] <= seq[L][2]
      BY <1>3, <1>6, <2>1, <2>2, <2>3
    <3>3. Cardinality(more) >= StatSize
      BY <1>1, <2>1
    <3>4. \A i, j \in 1..L : i < j => seq[i][1] # seq[j][1]
      BY DEF Best, L
    <3> HIDE DEF more, new
    <3>5. Best(seq, more, val)
      BY <1>1, <1>2, <1>3, <2>1, <3>2, <3>3, <3>4 DEF Best, L
    <3> QED
      BY <3>1, <3>5 DEF new, more, e
  <2>4. CASE ~(seq[L][2] >= e[2])
    <3> DEFINE cut == SubSeq(ins, 1, L)
    <3>1. new = cut
      BY <1>13, <2>4 DEF Logs!MoveToSeq, ins, L
    <3>2. cut \in Seq(more \X Nat) /\ Len(cut) = L /\ \A i \in 1..L : cut[i] = ins[i]
      BY <1>2, <1>5
    <3> HIDE DEF cut, new
    <3>3. n < L
      BY <1>2, <1>5, <2>1, <2>4
    <3>4. ins[L + 1] = seq[L] /\ L + 1 \in 1..(L + 1) /\ L \in 1..(L + 1)
      <4>1. L + 1 \in 1..(L + 1) /\ L \in 1..(L + 1) /\ L + 1 > n + 1 /\ L + 1 - 1 = L
        BY <1>2, <1>7, <2>1, <3>3
      <4>2. ~(L + 1 <= n) /\ L + 1 # n + 1
        BY <1>2, <1>7, <4>1
      <4> QED
        BY <1>8, <4>1, <4>2
    <3>5. ins[L][2] >= seq[L][2] /\ ins[L][2] \in Nat /\ cut[L] = ins[L]
      <4>1. L < L + 1
        BY <1>2
      <4> QED
        BY <1>9, <1>10, <2>1, <3>2, <3>4, <4>1
    <3>6. ASSUME NEW x \in more, \A i \in 1..L : cut[i][1] # x PROVE val[x] <= cut[L][2]
      <4>1. CASE \A i \in 1..(L + 1) : ins[i][1] # x
        <5>1. x \in keys /\ \A i \in 1..L : seq[i][1] # x
          BY <1>11, <3>6, <4>1 DEF more
        <5>2. val[x] <= seq[L][2] /\ val[x] \in Nat /\ seq[L][2] \in Nat
          BY <1>3, <2>1, <2>2, <5>1
        <5> QED
          BY <3>5, <5>2
      <4>2. CASE \E i \in 1..(L + 1) : ins[i][1] = x
        <5>1. PICK i \in 1..(L + 1) : ins[i][1] = x
          BY <4>2
        <5>2. i = L + 1
          <6>1. i \in 1..L \/ i = L + 1
            BY <1>2
          <6> QED
            BY <3>2, <3>6, <5>1, <6>1
        <5>3. x = seq[L][1] /\ val[x] = seq[L][2] /\ seq[L][2] \in Nat
          BY <1>3, <2>1, <3>4, <5>1, <5>2
        <5> QED
          BY <3>5, <5>3
      <4> QED
        BY <4>1, <4>2
    <3>7. \A i \in 1..L : i \in 1..(L + 1)
      BY <1>2
    <3>8. Sorted(cut) /\ \A i, j \in 1..L : i < j => cut[i][1] # cut[j][1]
      <4>1. ASSUME NEW i \in 1..L, NEW j \in 1..L, i < j
            PROVE  cut[i][2] >= cut[j][2] /\ cut[i][1] # cut[j][1]
        <5>1. ins[i][2] >= ins[j][2] /\ ins[i][1] # ins[j][1]
          BY <1>10, <3>7, <4>1
        <5> QED
          BY <3>2, <5>1
      <4> QED
        BY <3>2, <4>1 DEF Sorted
    <3>9. \A i \in 1..L : cut[i][2] = val[cut[i][1]]
      BY <1>9, <3>2, <3>7
    <3>10. Cardinality(more) >= StatSize
      BY <1>1, <2>1
    <3> HIDE DEF more
    <3>11. Best(cut, more, val)
      BY <1>1, <2>1, <3>2, <3>6, <3>8, <3>9, <3>10 DEF Best
    <3> QED
      BY <3>1, <3>11 DEF new, more, e
  <2> QED
    BY <2>3, <2>4
<1> QED
  BY <1>12, <1>13

-----------------------------------------------------------------------------
(* The best of each table. *)

ValueOf(w) == [k \in KeysOf(w) |-> SumOf(Logs!Spots, Weights(<<w, k>>))]

\* What is left of a table is as the lines say, and the best of what was taken from it is there.
PickedFrom(w) ==
    /\ DOMAIN sum[w] \subseteq KeysOf(w)
    /\ \A k \in DOMAIN sum[w] : sum[w][k] = ValueOf(w)[k]
    /\ Best(top[w], KeysOf(w) \ DOMAIN sum[w], ValueOf(w))

Picked ==
    /\ Merging => \A w \in {"url", "refer"} : top[w] = <<>>
    /\ Logs!InRange /\ main \in {"top", "done"} => \A w \in {"url", "refer"} : PickedFrom(w)
    /\ main = "done" => \A w \in {"url", "refer"} : DOMAIN sum[w] = {}

\* A thread that has something to do has not been joined.
LEMMA WorkerMerging ==
  ASSUME Logs!ParseLogsAssumption, Conserving, NEW t \in Logs!Thread, Logs!Worker(t)
  PROVE  Merging
<1>1. place[t] # "returned" /\ main # "aborted"
  BY DEF Logs!Worker, Logs!Claim, Logs!ReadLine, Logs!EndOfFile, Logs!ReadError, Logs!Alive
<1>2. ~(t <= joined)
  BY <1>1 DEF Conserving, Apart
<1>3. joined # Crew
  BY <1>2, ThreadIs
<1> QED
  BY <1>1, <1>3 DEF Conserving, LogsTyped, Merging

LEMMA WorkerPicks ==
  ASSUME Logs!ParseLogsAssumption, Conserving, Picked, NEW t \in Logs!Thread, Logs!Worker(t)
  PROVE  Picked'
<1>1. Merging
  BY WorkerMerging
<1>2. top' = top /\ main' \in {main, "aborted"}
  BY DEF Logs!Worker, Logs!Claim, Logs!ReadLine, Logs!EndOfFile, Logs!ReadError
<1> QED
  BY <1>1, <1>2 DEF Picked, Merging

\* A key of a table is one of the lines', and what is measured of it.
LEMMA KeyKinds ==
  ASSUME Logs!ParseLogsAssumption, LogsTyped, NEW w \in {"url", "refer"}
  PROVE  /\ \A k \in KeysOf(w) : <<w, k>> \in Kinds
         /\ \A k \in DOMAIN sum[w] : <<w, k>> \in Kinds /\ Held(<<w, k>>, sum) = sum[w][k]
         /\ \A k \in KeysOf(w) : ValueOf(w)[k] \in Words /\ ValueOf(w)[k] \in Nat
         /\ IsFiniteSet(KeysOf(w))
<1>1. \A s \in Logs!Spots : Logs!LineAt(s) \in Logs!Line
  BY SpotsAre
<1>2. \A k \in KeysOf(w) : <<w, k>> \in Kinds
  BY <1>1 DEF KeysOf, Kinds, Logs!Line
<1>3. \A k \in DOMAIN sum[w] : <<w, k>> \in Kinds /\ Held(<<w, k>>, sum) = sum[w][k]
  BY DEF LogsTyped, Result, Table, Kinds, Held, Logs!Value
<1>4. ASSUME NEW k \in KeysOf(w) PROVE ValueOf(w)[k] \in Words /\ ValueOf(w)[k] \in Nat
  <2>1. SumOf(Logs!Spots, Weights(<<w, k>>)) \in Words
    BY SpotsAre, SumType
  <2> QED
    BY <2>1 DEF ValueOf, Words, Logs!ParseLogsAssumption
<1>5. IsFiniteSet(KeysOf(w))
  <2> DEFINE f == [s \in Logs!Spots |-> Logs!LineAt(s)[w]]
  <2>1. f \in Surjection(Logs!Spots, KeysOf(w))
    BY DEF Surjection, KeysOf
  <2>2. IsFiniteSet(Logs!Spots)
    BY SpotsAre
  <2> HIDE DEF f
  <2> QED
    BY <2>1, <2>2, FS_Surjection
<1> QED
  BY <1>2, <1>3, <1>4, <1>5

\* With every thread joined the sum is what the lines say.
SumSaysAll ==
    /\ \A q \in Kinds : Conserved(q) => SumOf(Logs!Spots, Weights(q)) = Held(q, sum)
    /\ \A w \in {"url", "refer"} : \A k : Seen(w, k) <=> k \in DOMAIN sum[w]

\* Before a key is taken nothing has been picked.
Picking ==
    /\ \A w \in {"url", "refer"} : \A k : k \in KeysOf(w) <=> k \in DOMAIN sum[w]
    /\ \A q \in Kinds : SumOf(Logs!Spots, Weights(q)) = Held(q, sum)
    /\ \A w \in {"url", "refer"} : top[w] = <<>>

LEMMA PickingPicks ==
  ASSUME Logs!ParseLogsAssumption, LogsTyped, Picking, NEW w \in {"url", "refer"}
  PROVE  PickedFrom(w)
<1>1. DOMAIN sum[w] = KeysOf(w)
  BY DEF Picking
<1>2. \A k \in DOMAIN sum[w] : sum[w][k] = ValueOf(w)[k]
  <2>1. TAKE k \in DOMAIN sum[w]
  <2>2. <<w, k>> \in Kinds /\ Held(<<w, k>>, sum) = sum[w][k] /\ k \in KeysOf(w)
    BY <1>1, KeyKinds
  <2>3. SumOf(Logs!Spots, Weights(<<w, k>>)) = sum[w][k]
    BY <2>2 DEF Picking
  <2> QED
    BY <2>2, <2>3 DEF ValueOf
<1>3. Best(<<>>, {}, ValueOf(w))
  <2>1. Cardinality({}) = 0 /\ StatSize \in Nat /\ StatSize > 0
    BY FS_EmptySet DEF Logs!ParseLogsAssumption
  <2>2. Len(<<>>) = 0 /\ <<>> \in Seq({} \X Nat) /\ 1..0 = {}
    OBVIOUS
  <2> QED
    BY <2>1, <2>2 DEF Best, Sorted
<1> QED
  BY <1>1, <1>2, <1>3 DEF PickedFrom, Picking

LEMMA AllJoinedThen ==
  ASSUME Logs!ParseLogsAssumption
  PROVE  (LogsTyped /\ Apart /\ joined = Crew => SumSaysAll)'
<1>1. LogsTyped /\ Apart /\ joined = Crew => SumSaysAll
  BY AllJoined DEF SumSaysAll
<1> QED
  BY <1>1, PTL

LEMMA PickingThen ==
  ASSUME Logs!ParseLogsAssumption
  PROVE  (LogsTyped /\ Picking => \A w \in {"url", "refer"} : PickedFrom(w))'
<1>1. LogsTyped /\ Picking => \A w \in {"url", "refer"} : PickedFrom(w)
  BY PickingPicks
<1> QED
  BY <1>1, PTL

\* The last thread is joined: the sum is complete.
LEMMA JoinPicks ==
  ASSUME Logs!ParseLogsAssumption, Conserving, Picked, Logs!Join
  PROVE  Conserving' /\ Picked'
<1>1. /\ main = "join" /\ top' = top /\ main' \in {"join", "top"} /\ files' = files
      /\ main' = "join" \/ joined' = Crew'
  <2>1. Crew' = Crew /\ Logs!Cardinality(Logs!Thread) = Crew
    BY ThreadIs DEF Crew
  <2> QED
    BY <2>1 DEF Logs!Join, Logs!thread
<1>2. LogsTyped' /\ Apart'
  BY JoinStep
<1>3. /\ Logs!InRange' => \A q \in Kinds : Conserved(q)'
      /\ Logs!InRange' => \A w \in {"url", "refer"} : \A k : (k \in KeysOf(w))' <=> Seen(w, k)'
  BY JoinStep
<1>4. Conserving'
  BY <1>2, <1>3 DEF Conserving, AllConserved, KeysKept
<1>5. \A w \in {"url", "refer"} : top[w] = <<>>
  BY <1>1 DEF Picked, Merging
<1>6. ASSUME main' = "top", Logs!InRange' PROVE Picking'
  <2>1. SumSaysAll'
    BY <1>1, <1>2, <1>6, AllJoinedThen
  <2> QED
    BY <1>1, <1>3, <1>5, <1>6, <2>1 DEF SumSaysAll, Picking
<1>7. ASSUME main' = "top", Logs!InRange' PROVE \A w \in {"url", "refer"} : PickedFrom(w)'
  BY <1>2, <1>6, <1>7, PickingThen
<1>8. Picked'
  BY <1>1, <1>5, <1>7 DEF Picked, Merging
<1> QED
  BY <1>4, <1>8

\* One key is taken out of a table.
TakeKey(w) ==
    /\ main = "top"
    /\ \E k \in DOMAIN sum[w] :
         /\ top' = [top EXCEPT ![w] = Logs!MoveToSeq(@, <<k, sum[w][k]>>)]
         /\ sum' = [sum EXCEPT ![w] = Logs!Without(@, k)]
    /\ UNCHANGED <<files, index, place, mine, nextLine, erange, res, main, joined>>

LEMMA TakeKeyStep ==
  ASSUME Logs!ParseLogsAssumption, Conserving, Picked, NEW w \in {"url", "refer"}, TakeKey(w)
  PROVE  Conserving' /\ Picked'
<1>1. PICK k \in DOMAIN sum[w] :
        /\ top' = [top EXCEPT ![w] = Logs!MoveToSeq(@, <<k, sum[w][k]>>)]
        /\ sum' = [sum EXCEPT ![w] = Logs!Without(@, k)]
  BY DEF TakeKey
<1>2. main = "top" /\ UNCHANGED <<files, index, place, mine, nextLine, erange, res, main, joined>>
  BY DEF TakeKey
<1>3. LogsTyped
  BY DEF Conserving
<1>4. /\ DOMAIN top' = DOMAIN top /\ DOMAIN top = {"url", "refer"}
      /\ top'[w] = Logs!MoveToSeq(top[w], <<k, sum[w][k]>>)
      /\ \A o \in {"url", "refer"} : o # w => top'[o] = top[o]
  BY <1>1, <1>3 DEF LogsTyped
<1>5. /\ DOMAIN sum' = {"url", "refer", "trafic"} /\ sum'.trafic = sum.trafic
      /\ sum'[w] = Logs!Without(sum[w], k)
      /\ \A o \in {"url", "refer"} : o # w => sum'[o] = sum[o]
  BY <1>1, <1>3 DEF LogsTyped, Result
<1>6. DOMAIN sum'[w] = DOMAIN sum[w] \ {k} /\ \A x \in DOMAIN sum'[w] : sum'[w][x] = sum[w][x]
  BY <1>5 DEF Logs!Without
<1>7. /\ Logs!Thread' = Logs!Thread /\ Crew' = Crew /\ Logs!Spots' = Logs!Spots /\ Logs!InRange' = Logs!InRange
      /\ (\A q : Weights(q)' = Weights(q)) /\ (\A o : KeysOf(o)' = KeysOf(o))
  BY <1>2, SameFiles DEF Logs!Thread, Crew
<1>8. Logs!Unread' = Logs!Unread /\ \A q : Shares(q)' = Shares(q)
  BY <1>2, <1>7 DEF Logs!Unread, Shares
<1>9. LogsTyped'
  <2>1. Result(sum')
    <3>1. Table(sum[w], IF w = "url" THEN Urls ELSE Refers)
      BY <1>3 DEF LogsTyped, Result
    <3>2. Table(sum'[w], IF w = "url" THEN Urls ELSE Refers)
      BY <1>6, <3>1 DEF Table
    <3> QED
      BY <1>3, <1>5, <3>2 DEF LogsTyped, Result
  <2> QED
    BY <1>2, <1>3, <1>4, <1>7, <2>1 DEF LogsTyped
<1>10. Apart'
  BY <1>2, <1>7 DEF Conserving, Apart
<1>11. AllConserved' /\ KeysKept'
  <2>1. ~Merging'
    BY <1>2 DEF Merging
  <2>2. ASSUME NEW q \in Kinds, q[1] = "all" PROVE Conserved(q)' <=> Conserved(q)
    BY <1>5, <1>7, <1>8, <2>2 DEF Conserved, Held
  <2> QED
    BY <1>7, <2>1, <2>2 DEF Conserving, AllConserved, KeysKept
<1>12. Conserving'
  BY <1>9, <1>10, <1>11 DEF Conserving
<1>13. \A o : ValueOf(o)' = ValueOf(o)
  BY <1>7 DEF ValueOf
<1>14. ASSUME Logs!InRange PROVE PickedFrom(w)'
  <2> DEFINE keys == KeysOf(w) \ DOMAIN sum[w]
             val == ValueOf(w)
  <2>1. PickedFrom(w)
    BY <1>2, <1>14 DEF Picked
  <2>2. k \in KeysOf(w) /\ k \notin keys /\ sum[w][k] = val[k] /\ Best(top[w], keys, val)
        /\ keys \cup {k} = KeysOf(w) \ DOMAIN sum'[w] /\ keys \cup {k} \in SUBSET KeysOf(w)
    BY <1>6, <2>1 DEF PickedFrom
  <2>3. IsFiniteSet(keys) /\ \A x \in keys \cup {k} : val[x] \in Nat
    <3>1. IsFiniteSet(KeysOf(w)) /\ \A x \in KeysOf(w) : val[x] \in Nat
      BY <1>3, KeyKinds
    <3> QED
      BY <2>2, <3>1, FS_Subset
  <2> HIDE DEF keys, val
  <2>4. Best(Logs!MoveToSeq(top[w], <<k, val[k]>>), keys \cup {k}, val)
    BY <2>2, <2>3, BestMore
  <2>5. Best(top'[w], KeysOf(w) \ DOMAIN sum'[w], val)
    BY <1>4, <2>2, <2>4
  <2>6. /\ DOMAIN sum'[w] \subseteq KeysOf(w)
        /\ \A x \in DOMAIN sum'[w] : sum'[w][x] = val[x]
    BY <1>6, <2>1 DEF PickedFrom, val
  <2> QED
    BY <1>7, <1>13, <2>5, <2>6 DEF PickedFrom, val
<1>15. ASSUME Logs!InRange, NEW o \in {"url", "refer"}, o # w PROVE PickedFrom(o)'
  <2>1. PickedFrom(o)
    BY <1>2, <1>15 DEF Picked
  <2> QED
    BY <1>4, <1>5, <1>7, <1>13, <1>15, <2>1 DEF PickedFrom
<1>16. Picked'
  BY <1>2, <1>7, <1>14, <1>15 DEF Picked, Merging
<1> QED
  BY <1>12, <1>16

LEMMA FinishStep ==
  ASSUME Logs!ParseLogsAssumption, Conserving, Picked, Logs!Finish
  PROVE  Conserving' /\ Picked'
<1>1. /\ main = "top" /\ DOMAIN sum.url = {} /\ DOMAIN sum.refer = {} /\ main' = "done"
      /\ UNCHANGED <<files, index, place, mine, nextLine, erange, res, joined, sum, top>>
  BY DEF Logs!Finish, Logs!thread
<1>2. /\ Logs!Thread' = Logs!Thread /\ Crew' = Crew /\ Logs!Spots' = Logs!Spots /\ Logs!InRange' = Logs!InRange
      /\ (\A q : Weights(q)' = Weights(q)) /\ (\A o : KeysOf(o)' = KeysOf(o))
  BY <1>1, SameFiles DEF Logs!Thread, Crew
<1>3. Logs!Unread' = Logs!Unread /\ \A q : Shares(q)' = Shares(q)
  BY <1>1, <1>2 DEF Logs!Unread, Shares
<1>4. LogsTyped' /\ Apart'
  BY <1>1, <1>2 DEF Conserving, LogsTyped, Apart
<1>5. AllConserved' /\ KeysKept'
  <2>1. ~Merging'
    BY <1>1 DEF Merging
  <2>2. \A q : Conserved(q)' <=> Conserved(q)
    BY <1>1, <1>2, <1>3 DEF Conserved
  <2> QED
    BY <1>2, <2>1, <2>2 DEF Conserving, AllConserved, KeysKept
<1>6. \A o : PickedFrom(o)' <=> PickedFrom(o)
  BY <1>1, <1>2 DEF PickedFrom, ValueOf
<1>7. Picked'
  BY <1>1, <1>2, <1>6 DEF Picked, Merging
<1> QED
  BY <1>4, <1>5, <1>7 DEF Conserving

LEMMA LogsStays ==
  ASSUME Logs!ParseLogsAssumption, Conserving, Picked, UNCHANGED Logs!vars
  PROVE  Conserving' /\ Picked'
<1>1. UNCHANGED <<files, index, place, mine, nextLine, erange, res, main, joined, sum, top>>
  BY DEF Logs!vars, Logs!thread
<1>2. /\ Logs!Thread' = Logs!Thread /\ Crew' = Crew /\ Logs!Spots' = Logs!Spots /\ Logs!InRange' = Logs!InRange
      /\ (\A q : Weights(q)' = Weights(q)) /\ (\A o : KeysOf(o)' = KeysOf(o))
  BY <1>1, SameFiles DEF Logs!Thread, Crew
<1>3. Logs!Unread' = Logs!Unread
  BY <1>1, <1>2 DEF Logs!Unread
<1>4. LogsTyped' /\ Apart'
  BY <1>1, <1>2 DEF Conserving, LogsTyped, Apart
<1>5. AllConserved' /\ KeysKept'
  BY <1>1, <1>3, SameAmounts
<1>6. \A o : PickedFrom(o)' <=> PickedFrom(o)
  BY <1>1, <1>2 DEF PickedFrom, ValueOf
<1>7. Picked'
  BY <1>1, <1>2, <1>6 DEF Picked, Merging
<1> QED
  BY <1>4, <1>5, <1>7 DEF Conserving

LEMMA LogsNext ==
  ASSUME Logs!ParseLogsAssumption, Conserving, Picked, [Logs!Next]_Logs!vars
  PROVE  Conserving' /\ Picked'
<1>1. CASE Logs!Spawn
  <2>1. Merging /\ Merging' /\ top' = top
    BY <1>1 DEF Logs!Spawn, Merging
  <2>2. Picked'
    BY <2>1 DEF Picked, Merging
  <2> QED
    BY <1>1, <2>2, SpawnStep
<1>2. CASE Logs!Join
  BY <1>2, JoinPicks
<1>3. CASE Logs!MoveUrl
  <2>1. TakeKey("url")
    BY <1>3 DEF Logs!MoveUrl, TakeKey, Logs!thread
  <2> QED
    BY <2>1, TakeKeyStep
<1>4. CASE Logs!MoveRefer
  <2>1. TakeKey("refer")
    BY <1>4 DEF Logs!MoveRefer, TakeKey, Logs!thread
  <2> QED
    BY <2>1, TakeKeyStep
<1>5. CASE Logs!Finish
  BY <1>5, FinishStep
<1>6. ASSUME NEW t \in Logs!Thread, Logs!Worker(t) PROVE Conserving' /\ Picked'
  <2>1. Picked'
    BY <1>6, WorkerPicks
  <2>2. CASE Logs!Claim(t)
    BY <2>1, <2>2, ClaimStep
  <2>3. CASE Logs!ReadLine(t)
    BY <2>1, <2>3, ReadLineStep DEF Conserving
  <2>4. CASE Logs!EndOfFile(t)
    BY <2>1, <2>4, EndOfFileStep
  <2>5. CASE Logs!ReadError(t)
    BY <2>1, <2>5, ReadErrorStep
  <2> QED
    BY <1>6, <2>2, <2>3, <2>4, <2>5 DEF Logs!Worker
<1>7. CASE UNCHANGED Logs!vars
  BY <1>7, LogsStays
<1> QED
  BY <1>1, <1>2, <1>3, <1>4, <1>5, <1>6, <1>7 DEF Logs!Next, Logs!Main
-----------------------------------------------------------------------------
(* What the lines say, in the words of the properties. *)

\* The sum of the bytes.
LEMMA TotalIs ==
  ASSUME Logs!ParseLogsAssumption, LogsTyped, NEW T \in SUBSET Logs!Spots
  PROVE  Logs!Total(T) = SumOf(T, Weights(<<"all", 0>>))
<1> DEFINE v == [s \in T |-> Logs!LineAt(s).trafic]
<1>1. IsFiniteSet(T)
  BY SpotsAre, FS_Subset
<1>2. Logs!Total(T) = SumOf(T, v)
  <2>1. PICK g : Folds(g, T, v)
    BY <1>1, FoldsThere
  <2> DEFINE Adds(f) == f = [U \in SUBSET T |->
                     IF U = {} THEN 0 ELSE LET x == CHOOSE x \in U : TRUE
                                           IN  (f[U \ {x}] + Logs!LineAt(x).trafic) % WordMod]
             h == CHOOSE f : Adds(f)
  <2>2. Logs!Total(T) = h[T]
    BY DEF Logs!Total, Logs!FoldSet, Logs!MapThenFoldSet, Logs!Plus
  <2>3. \A f : Adds(f) <=> Folds(f, T, v)
    <3>1. TAKE f
    <3>2. \A U \in SUBSET T : U # {} => One(U) \in U /\ v[One(U)] = Logs!LineAt(One(U)).trafic
      BY DEF One
    <3>3. [U \in SUBSET T |->
                     IF U = {} THEN 0 ELSE LET x == CHOOSE x \in U : TRUE
                                           IN  (f[U \ {x}] + Logs!LineAt(x).trafic) % WordMod]
          = [U \in SUBSET T |-> IF U = {} THEN 0 ELSE Logs!Plus(f[U \ {One(U)}], v[One(U)])]
      <4> HIDE DEF v
      <4> QED
        BY <3>2 DEF Logs!Plus, One
    <3> HIDE DEF v
    <3> QED
      BY <3>3 DEF Folds
  <2>4. Folds(h, T, v)
    <3> HIDE DEF v, Adds
    <3> QED
      BY <2>1, <2>3
  <2> HIDE DEF h, v, Adds
  <2>5. SumOf(T, v) = h[T]
    BY <1>1, <2>4, SumIs
  <2> QED
    BY <2>2, <2>5
<1>3. \A s \in T : v[s] = Weights(<<"all", 0>>)[s]
  BY DEF Weights, Amount
<1> HIDE DEF v
<1> QED
  BY <1>1, <1>2, <1>3, SumAgrees

\* The sum of what the threads hold.
LEMMA HeldByThreads ==
  ASSUME Logs!ParseLogsAssumption, LogsTyped, Logs!InRange,
         Logs!Total(Logs!Spots) = Logs!Plus(Logs!Plus(sum.trafic, Logs!Total(Logs!Unread)),
                                            SumOf(Logs!Thread, Shares(<<"all", 0>>)))
  PROVE  Logs!InOnePlace
<1> DEFINE share(t) == IF t > joined THEN res[t].trafic ELSE 0
           T == Logs!Thread
           v == Shares(<<"all", 0>>)
           Adds(f) == f = [U \in SUBSET T |->
                   IF U = {} THEN 0 ELSE LET x == CHOOSE x \in U : TRUE
                                         IN  (f[U \ {x}] + share(x)) % WordMod]
           h == CHOOSE f : Adds(f)
<1>1. Logs!InOnePlace <=>
        (Logs!InRange => Logs!Total(Logs!Spots) = Logs!Plus(Logs!Plus(sum.trafic, Logs!Total(Logs!Unread)), h[T]))
  BY DEF Logs!InOnePlace, Logs!FoldSet, Logs!MapThenFoldSet, Logs!Plus
<1>2. IsFiniteSet(T)
  BY ThreadIs
<1>3. \A t \in T : v[t] = share(t)
  BY DEF Shares, Held
<1>4. \A f : Adds(f) <=> Folds(f, T, v)
  <2>1. TAKE f
  <2> HIDE DEF v, T
  <2>2. \A U \in SUBSET T : U # {} => One(U) \in U /\ v[One(U)] = share(One(U))
    BY <1>3 DEF One
  <2> HIDE DEF share
  <2>3. [U \in SUBSET T |->
                   IF U = {} THEN 0 ELSE LET x == CHOOSE x \in U : TRUE
                                         IN  (f[U \ {x}] + share(x)) % WordMod]
        = [U \in SUBSET T |-> IF U = {} THEN 0 ELSE Logs!Plus(f[U \ {One(U)}], v[One(U)])]
    BY <2>2 DEF Logs!Plus, One
  <2> QED
    BY <2>3 DEF Folds
<1>5. PICK g : Folds(g, T, v)
  BY <1>2, FoldsThere
<1>6. Folds(h, T, v)
  <2> HIDE DEF v, T, share, Adds
  <2> QED
    BY <1>4, <1>5
<1> HIDE DEF h, v, T, Adds
<1>7. SumOf(T, v) = h[T]
  BY <1>2, <1>6, SumIs
<1> QED
  BY <1>1, <1>7 DEF T, v

\* The bytes of a URL.
LEMMA UrlTotalIs ==
  ASSUME Logs!ParseLogsAssumption, LogsTyped, NEW u
  PROVE  Logs!UrlTotal(u) = SumOf(Logs!Spots, Weights(<<"url", u>>))
<1> DEFINE T == {s \in Logs!Spots : Logs!LineAt(s).url = u}
           v == Weights(<<"url", u>>)
           w == Weights(<<"all", 0>>)
<1>1. IsFiniteSet(Logs!Spots) /\ \A s \in Logs!Spots : v[s] \in Words
  BY SpotsAre
<1>2. T \in SUBSET Logs!Spots
  OBVIOUS
<1>3. IsFiniteSet(T)
  BY <1>1, <1>2, FS_Subset
<1>4. (\A s \in Logs!Spots \ T : v[s] = 0) /\ \A s \in T : v[s] = w[s]
  BY DEF Weights, Amount
<1>5. Logs!UrlTotal(u) = Logs!Total(T)
  BY DEF Logs!UrlTotal
<1> HIDE DEF T, v, w
<1>6. SumOf(Logs!Spots, v) = SumOf(T, v)
  BY <1>1, <1>2, <1>4, SumOnly
<1>7. SumOf(T, v) = SumOf(T, w)
  BY <1>3, <1>4, SumAgrees
<1>8. Logs!Total(T) = SumOf(T, w)
  BY <1>2, TotalIs DEF w
<1> QED
  BY <1>5, <1>6, <1>7, <1>8 DEF v

\* The lines of a referer.
LEMMA ReferTotalIs ==
  ASSUME Logs!ParseLogsAssumption, LogsTyped, NEW r
  PROVE  Logs!ReferTotal(r) = SumOf(Logs!Spots, Weights(<<"refer", r>>))
<1> DEFINE T == {s \in Logs!Spots : Logs!LineAt(s).refer = r}
           v == Weights(<<"refer", r>>)
<1>1. IsFiniteSet(Logs!Spots) /\ \A s \in Logs!Spots : v[s] \in Words
  BY SpotsAre
<1>2. T \in SUBSET Logs!Spots
  OBVIOUS
<1>3. IsFiniteSet(T)
  BY <1>1, <1>2, FS_Subset
<1>4. (\A s \in Logs!Spots \ T : v[s] = 0) /\ \A s \in T : v[s] = 1
  BY DEF Weights, Amount
<1>5. Logs!ReferTotal(r) = Cardinality(T) % WordMod
  BY DEF Logs!ReferTotal, Logs!Cardinality, Cardinality
<1> HIDE DEF T, v
<1>6. SumOf(Logs!Spots, v) = SumOf(T, v)
  BY <1>1, <1>2, <1>4, SumOnly
<1>7. SumOf(T, v) = Cardinality(T) % WordMod
  BY <1>3, <1>4, SumOnes
<1> QED
  BY <1>5, <1>6, <1>7 DEF v

\* The best are the top ones.
LEMMA BestIsTop ==
  ASSUME Logs!ParseLogsAssumption, NEW keys, IsFiniteSet(keys), NEW val, NEW seq, Best(seq, keys, val)
  PROVE  /\ Len(seq) = Logs!Min({StatSize, Logs!Cardinality(keys)})
         /\ \A i \in DOMAIN seq : seq[i][1] \in keys /\ seq[i][2] = val[seq[i][1]]
         /\ \A i, k \in DOMAIN seq : i < k => seq[i][1] # seq[k][1] /\ seq[i][2] >= seq[k][2]
         /\ \A k \in keys : (\A i \in DOMAIN seq : seq[i][1] # k) => val[k] <= seq[Len(seq)][2]
<1>1. Logs!Cardinality(keys) = Cardinality(keys)
  BY DEF Logs!Cardinality, Cardinality
<1>2. Cardinality(keys) \in Nat /\ StatSize \in Nat
  BY FS_CardinalityType DEF Logs!ParseLogsAssumption
<1>3. \A a, b \in Nat : Logs!Min({a, b}) = IF a < b THEN a ELSE b
  BY DEF Logs!Min
<1>4. Len(seq) = Logs!Min({StatSize, Logs!Cardinality(keys)})
  BY <1>1, <1>2, <1>3 DEF Best
<1>5. seq \in Seq(keys \X Nat) /\ DOMAIN seq = 1..Len(seq)
  BY DEF Best
<1>6. \A i \in DOMAIN seq : seq[i][1] \in keys
  <2>1. \A i \in 1..Len(seq) : seq[i] \in keys \X Nat
    BY <1>5
  <2> QED
    BY <1>5, <2>1
<1> QED
  BY <1>4, <1>5, <1>6 DEF Best, Sorted

LEMMA LogsConserve ==
  ASSUME Logs!ParseLogsAssumption, Conserving
  PROVE  Logs!InOnePlace
<1>1. SUFFICES ASSUME Logs!InRange PROVE Logs!InOnePlace
  BY DEF Logs!InOnePlace
<1>2. LogsTyped /\ Conserved(<<"all", 0>>)
  BY <1>1 DEF Conserving, AllConserved, Kinds
<1>3. Logs!Unread \in SUBSET Logs!Spots
  BY <1>2, SpotsAre
<1>4. Logs!Total(Logs!Spots) = SumOf(Logs!Spots, Weights(<<"all", 0>>))
      /\ Logs!Total(Logs!Unread) = SumOf(Logs!Unread, Weights(<<"all", 0>>))
  BY <1>2, <1>3, TotalIs
<1>5. Held(<<"all", 0>>, sum) = sum.trafic
  BY DEF Held
<1> QED
  BY <1>1, <1>2, <1>4, <1>5, HeldByThreads DEF Conserved

LEMMA LogsTold ==
  ASSUME Logs!ParseLogsAssumption, Conserving, Picked
  PROVE  Logs!StatisticsRight
<1>1. SUFFICES ASSUME Logs!InRange, main = "done"
      PROVE  /\ sum.trafic = Logs!Total(Logs!Spots)
             /\ Logs!IsTop(top.url, {Logs!LineAt(s).url : s \in Logs!Spots}, Logs!UrlTotal)
             /\ Logs!IsTop(top.refer, {Logs!LineAt(s).refer : s \in Logs!Spots}, Logs!ReferTotal)
  BY DEF Logs!StatisticsRight
<1>2. LogsTyped /\ Apart /\ Conserved(<<"all", 0>>) /\ <<"all", 0>> \in Kinds /\ joined = Crew
  BY <1>1 DEF Conserving, AllConserved, Kinds, LogsTyped
<1>3. sum.trafic = Logs!Total(Logs!Spots)
  <2>1. SumOf(Logs!Spots, Weights(<<"all", 0>>)) = Held(<<"all", 0>>, sum)
    BY <1>2, AllJoined
  <2>2. Logs!Total(Logs!Spots) = SumOf(Logs!Spots, Weights(<<"all", 0>>))
    BY <1>2, TotalIs
  <2> QED
    BY <2>1, <2>2 DEF Held
<1>4. ASSUME NEW w \in {"url", "refer"} PROVE Best(top[w], KeysOf(w), ValueOf(w)) /\ IsFiniteSet(KeysOf(w))
  <2>1. PickedFrom(w) /\ DOMAIN sum[w] = {}
    BY <1>1 DEF Picked
  <2>2. KeysOf(w) \ DOMAIN sum[w] = KeysOf(w)
    BY <2>1
  <2> QED
    BY <1>2, <2>1, <2>2, KeyKinds DEF PickedFrom
<1>5. Logs!IsTop(top.url, {Logs!LineAt(s).url : s \in Logs!Spots}, Logs!UrlTotal)
  <2>1. KeysOf("url") = {Logs!LineAt(s).url : s \in Logs!Spots}
    BY DEF KeysOf
  <2>2. \A k \in KeysOf("url") : ValueOf("url")[k] = Logs!UrlTotal(k)
    BY <1>2, UrlTotalIs DEF ValueOf
  <2>3. Best(top.url, KeysOf("url"), ValueOf("url")) /\ IsFiniteSet(KeysOf("url"))
    BY <1>4
  <2> DEFINE keys == KeysOf("url")
             val == ValueOf("url")
  <2> HIDE DEF keys, val
  <2>4. /\ Len(top.url) = Logs!Min({StatSize, Logs!Cardinality(keys)})
        /\ \A i \in DOMAIN top.url : top.url[i][1] \in keys /\ top.url[i][2] = val[top.url[i][1]]
        /\ \A i, k \in DOMAIN top.url : i < k => top.url[i][1] # top.url[k][1] /\ top.url[i][2] >= top.url[k][2]
        /\ \A k \in keys : (\A i \in DOMAIN top.url : top.url[i][1] # k) => val[k] <= top.url[Len(top.url)][2]
    BY <2>3, BestIsTop DEF keys, val
  <2>5. \A k \in keys : val[k] = Logs!UrlTotal(k)
    BY <2>2 DEF keys, val
  <2>6. Logs!IsTop(top.url, keys, Logs!UrlTotal)
    BY <2>4, <2>5 DEF Logs!IsTop
  <2> QED
    BY <2>1, <2>6 DEF keys
<1>6. Logs!IsTop(top.refer, {Logs!LineAt(s).refer : s \in Logs!Spots}, Logs!ReferTotal)
  <2>1. KeysOf("refer") = {Logs!LineAt(s).refer : s \in Logs!Spots}
    BY DEF KeysOf
  <2>2. \A k \in KeysOf("refer") : ValueOf("refer")[k] = Logs!ReferTotal(k)
    BY <1>2, ReferTotalIs DEF ValueOf
  <2>3. Best(top.refer, KeysOf("refer"), ValueOf("refer")) /\ IsFiniteSet(KeysOf("refer"))
    BY <1>4
  <2> DEFINE keys == KeysOf("refer")
             val == ValueOf("refer")
  <2> HIDE DEF keys, val
  <2>4. /\ Len(top.refer) = Logs!Min({StatSize, Logs!Cardinality(keys)})
        /\ \A i \in DOMAIN top.refer : top.refer[i][1] \in keys /\ top.refer[i][2] = val[top.refer[i][1]]
        /\ \A i, k \in DOMAIN top.refer : i < k => top.refer[i][1] # top.refer[k][1] /\ top.refer[i][2] >= top.refer[k][2]
        /\ \A k \in keys : (\A i \in DOMAIN top.refer : top.refer[i][1] # k) => val[k] <= top.refer[Len(top.refer)][2]
    BY <2>3, BestIsTop DEF keys, val
  <2>5. \A k \in keys : val[k] = Logs!ReferTotal(k)
    BY <2>2 DEF keys, val
  <2>6. Logs!IsTop(top.refer, keys, Logs!ReferTotal)
    BY <2>4, <2>5 DEF Logs!IsTop
  <2> QED
    BY <2>1, <2>6 DEF keys
<1> QED
  BY <1>3, <1>5, <1>6

\* While threads read and are joined no byte is counted twice or forgotten; and where no number
\* is out of range, what is printed are the statistics of all the lines: the sum of the bytes,
\* and of the URLs and the referers the first by their bytes and lines, whichever thread read
\* them and in whatever order the tables are walked (main.c:95-160, :204-230, :338-370).
THEOREM StatisticsOfAllLines ==
  ASSUME Logs!ParseLogsAssumption
  PROVE  Logs!Spec => [](Logs!InOnePlace /\ Logs!StatisticsRight)
<1> DEFINE Inv == Conserving /\ Picked
<1>1. Logs!Init => Inv
  <2>1. SUFFICES ASSUME Logs!Init PROVE Inv
    OBVIOUS
  <2>2. Conserving /\ top = [url |-> <<>>, refer |-> <<>>] /\ main = "spawn"
    BY <2>1, LogsInit
  <2> QED
    BY <2>2 DEF Picked
<1>2. Inv /\ [Logs!Next]_Logs!vars => Inv'
  BY LogsNext
<1>3. Inv => Logs!InOnePlace /\ Logs!StatisticsRight
  BY LogsConserve, LogsTold
<1> QED
  BY <1>1, <1>2, <1>3, PTL DEF Logs!Spec
=============================================================================
