------------------------------- MODULE Buffer -------------------------------
(***************************************************************************)
(* The growing byte buffer of the file server (hw13/fileserver/buffer.c),  *)
(* by its sizes.  An append that needs memory goes through the loop of     *)
(* buffer_extend, one step per iteration, and then through malloc or       *)
(* realloc, which may fail.  alloc is the size of the block really held,   *)
(* which the program knows only as buffer_size.                            *)
(***************************************************************************)
EXTENDS Integers

CONSTANTS
  InitSize,   \* gc_initial_buffer_size
  MaxSize,    \* gc_max_buffer_size
  MaxAppend,  \* the longest append
  MaxData,    \* bound on data_size: no append is tried beyond it
  SizeMax     \* the largest size_t

ASSUME BufferAssumption ==
  /\ InitSize \in Nat /\ InitSize > 1
  /\ MaxSize \in Nat /\ MaxSize > InitSize
  /\ MaxAppend \in Nat \ {0}
  /\ MaxData \in Nat /\ MaxData <= SizeMax    \* data_size does not wrap
  /\ SizeMax \in Nat
  /\ SizeMax >= MaxSize + MaxAppend

\* No size that buffer_extend tries is the largest one: 3 * n \div 2 is never 2
\* modulo 3, which 5 * 1024 * 1024 is.
ASSUME MaxSizeAssumption == MaxSize % 3 = 2

VARIABLES
  use,          \* what the buffer is for: "request", or "answer" (or a path)
  held,         \* is data non-null?
  data_size,    \* bytes in use
  buffer_size,  \* bytes the program believes it holds
  alloc,        \* bytes it holds
  want,         \* the append under way: its length, 0 if there is none
  sz,           \* buffer_extend's new size
  what,         \* the append under way or the last one: "data" or a "nul"
  ok            \* has the last append succeeded, and not been popped?

vars == <<use, held, data_size, buffer_size, alloc, want, sz, what, ok>>

TypeOK ==
  /\ use \in {"request", "answer"}
  /\ held \in BOOLEAN
  /\ data_size \in Nat
  /\ buffer_size \in Nat
  /\ alloc \in Nat
  /\ want \in 0..MaxAppend
  /\ sz \in Nat
  /\ what \in {"data", "nul"}
  /\ ok \in BOOLEAN

Init ==
  /\ use \in {"request", "answer"}
  /\ held = FALSE
  /\ data_size = 0
  /\ buffer_size = 0
  /\ alloc = 0
  /\ want = 0
  /\ sz = 0
  /\ what = "data"
  /\ ok = TRUE

\* buffer_size - data_size, in size_t.
Spare == (buffer_size - data_size) % (SizeMax + 1)

\* The append finds room, or buffer_extend has nothing to do.
AppendInPlace(n) ==
  /\ want = 0 /\ data_size + n <= MaxData
  /\ (held /\ Spare >= n) \/ buffer_size > data_size + n
  /\ data_size' = data_size + n
  /\ ok' = TRUE
  /\ UNCHANGED <<use, held, buffer_size, alloc, want, sz>>

\* The append has to extend the buffer first.
AppendExtends(n) ==
  /\ want = 0 /\ data_size + n <= MaxData
  /\ ~held \/ Spare < n
  /\ buffer_size <= data_size + n
  /\ want' = n
  /\ sz' = IF ~held \/ buffer_size = 0 THEN InitSize ELSE buffer_size
  /\ UNCHANGED <<use, held, data_size, buffer_size, alloc, ok>>

\* Mutant of Short: the length of the append is left out.
ShortOfOld == sz < data_size /\ sz < MaxSize

Short == sz < data_size + want /\ sz < MaxSize

Grow ==
  /\ want > 0 /\ Short
  /\ sz' = (sz * 3) \div 2
  /\ UNCHANGED <<use, held, data_size, buffer_size, alloc, want, what, ok>>

\* Mutant of Obtain: buffer_size is the size asked for first.
ObtainAsAsked(n) ==
  /\ held' = TRUE
  /\ alloc' = n
  /\ buffer_size' = sz
  /\ data_size' = data_size + want
  /\ ok' = TRUE

\* A block of n bytes is obtained and the bytes are copied in.
Obtain(n) ==
  /\ held' = TRUE
  /\ alloc' = n
  /\ buffer_size' = n
  /\ data_size' = data_size + want
  /\ ok' = TRUE

\* malloc or realloc of sz bytes; when realloc fails, of just what is needed.
Reserve ==
  /\ want > 0 /\ ~Short /\ sz <= MaxSize
  /\ Obtain(sz) \/ (held /\ Obtain(data_size + want))
  /\ want' = 0
  /\ UNCHANGED <<use, sz, what>>

\* Mutant of Refuse: buffer_size is set before the allocation succeeds.
RefuseTooLate ==
  /\ want > 0 /\ ~Short
  /\ buffer_size' = sz
  /\ ok' = FALSE
  /\ want' = 0
  /\ UNCHANGED <<use, held, data_size, alloc, sz, what>>

\* The buffer may not grow that far, or there is no memory.
Refuse ==
  /\ want > 0 /\ ~Short
  /\ buffer_size' = IF held \/ sz > MaxSize THEN buffer_size ELSE 0
  /\ ok' = FALSE
  /\ want' = 0
  /\ UNCHANGED <<use, held, data_size, alloc, sz, what>>

\* Mutant of PopBack: no wrap around.
PopBelowZero ==
  /\ use = "request"
  /\ want = 0 /\ ok /\ what = "nul"
  /\ data_size > 0
  /\ buffer_size' = buffer_size - 1
  /\ what' = "data"
  /\ UNCHANGED <<use, held, data_size, alloc, want, sz, ok>>

PopBack ==
  /\ use = "request"
  /\ want = 0 /\ ok /\ what = "nul"
  /\ data_size > 0
  /\ buffer_size' = (buffer_size - 1) % (SizeMax + 1)
  /\ what' = "data"
  /\ UNCHANGED <<use, held, data_size, alloc, want, sz, ok>>

Clear ==
  /\ use # "request"
  /\ want = 0
  /\ data_size' = 0
  /\ UNCHANGED <<use, held, buffer_size, alloc, want, sz, what, ok>>

\* The path and the answer are appended to and cleared.  The request gets data,
\* then the NUL of catch_http_request, which is popped before there is more
\* data, and a failure ends its use.
MayAppend == use = "request" => ok /\ what = "data"

\* buffer_append and buffer_append_string.
AppendData ==
  /\ MayAppend /\ what' = "data"
  /\ \E n \in 1..MaxAppend : AppendInPlace(n) \/ AppendExtends(n)

\* buffer_push_back of a NUL.
PushNul ==
  /\ MayAppend /\ what' = "nul"
  /\ AppendInPlace(1) \/ AppendExtends(1)

Next == AppendData \/ PushNul \/ Grow \/ Reserve \/ Refuse \/ PopBack \/ Clear
Spec == Init /\ [][Next]_vars

-----------------------------------------------------------------------------
(* Properties.                                                             *)

\* Everything appended to a path or an answer lies inside the block, whose size
\* is known exactly.
Contained == use # "request" => data_size <= buffer_size /\ buffer_size = alloc

\* The request buffer loses a byte of buffer_size with every NUL popped; but as
\* long as nothing has been written past the block, the program does not
\* believe it to be longer than it is.
Modest == data_size <= alloc => buffer_size <= alloc

\* The comment on buffer_extend: from the call to its failure, an append that
\* does not succeed leaves the buffer as it was.
FailureKeeps ==
  [][want # 0 /\ ~(want' = 0 /\ ok') => UNCHANGED <<held, data_size, buffer_size, alloc>>]_vars

=============================================================================
