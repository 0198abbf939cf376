------------------------------- MODULE CrcFile -------------------------------
(***************************************************************************)
(* The checksum of a mapped file (hw10/main.c): the file is mapped as a    *)
(* whole and read page by page, each page unmapped when it has been read.  *)
(* A checksum is the sequence of what it is of.                            *)
(***************************************************************************)
EXTENDS Integers, Sequences

CONSTANTS PageSize,    \* PAGE_SIZE, 2 MiB
          MaxFile      \* bound on the size of a file

VARIABLES size,      \* of the file
          step,      \* where main is; "failed" and, for the size of the file, "refused"
          fd,        \* "none", "open" or "closed"; "twice" if it is closed again
          mapped,    \* the bytes that are mapped
          offset,
          crc        \* the bytes, by their offset, that have gone into the checksum

crcVars == <<size, step, fd, mapped, offset, crc>>

Bytes(from, to) == {b \in 0..(MaxFile - 1) : from <= b /\ b < to}

\* exit_with_error: the descriptor it is given is closed.
Fails(closes) ==
    /\ step' = "failed"
    /\ fd' = IF closes THEN (IF fd = "open" THEN "closed" ELSE "twice") ELSE fd
    /\ UNCHANGED <<size, mapped, offset, crc>>

\* open, fstat, and whether the file is a regular one.
Open ==
    /\ step = "open"
    /\ \/ fd' = "open" /\ step' = "map" /\ UNCHANGED <<size, mapped, offset, crc>>
       \/ Fails(FALSE)
       \/ step' = "failed" /\ fd' = "closed" /\ UNCHANGED <<size, mapped, offset, crc>>

\* mmap, which refuses a length of 0; then the descriptor is closed.
Map ==
    /\ step = "map"
    /\ \/ /\ size > 0
          /\ mapped' = Bytes(0, size) /\ fd' = "closed" /\ step' = "advise"
          /\ UNCHANGED <<size, offset, crc>>
       \/ size = 0 /\ step' = "refused" /\ fd' = "closed" /\ UNCHANGED <<size, mapped, offset, crc>>
       \/ Fails(TRUE)

\* madvise; when it fails the descriptor is closed once more.
Advise ==
    /\ step = "advise"
    /\ \/ step' = "page" /\ UNCHANGED <<size, fd, mapped, offset, crc>>
       \/ Fails(TRUE)

\* crc32_proc of n bytes from the offset on, which must be mapped.
Process(n) == crc' = crc \o [k \in 1..n |-> IF offset + k - 1 \in mapped THEN offset + k - 1 ELSE -1]

UnmapFromStart(n) == mapped' = mapped \ Bytes(0, offset + n + 1)    \* mutant: a byte too many

Unmap(n) == mapped' = mapped \ Bytes(offset, offset + n)

Pages == size \div PageSize

ReadPage ==
    /\ step = "page" /\ offset < Pages * PageSize
    /\ Process(PageSize)
    /\ Unmap(PageSize)
    /\ offset' = offset + PageSize
    /\ UNCHANGED <<size, step, fd>>

\* munmap refuses a length of 0, and may fail.
ReadTail ==
    LET tail == size % PageSize IN
    /\ step = "page" /\ offset >= Pages * PageSize
    /\ Process(tail)
    /\ \/ tail > 0 /\ Unmap(tail) /\ step' = "printed"
       \/ tail = 0 /\ step' = "refused" /\ UNCHANGED mapped
       \/ step' = "failed" /\ UNCHANGED mapped
    /\ UNCHANGED <<size, fd, offset>>

\* munmap of a page fails.
PageFails ==
    /\ step = "page" /\ offset < Pages * PageSize
    /\ Fails(FALSE)

Init == /\ size \in 0..MaxFile
        /\ step = "open"
        /\ fd = "none"
        /\ mapped = {}
        /\ offset = 0
        /\ crc = <<>>

Next == Open \/ Map \/ Advise \/ ReadPage \/ ReadTail \/ PageFails

Spec == Init /\ [][Next]_crcVars

-----------------------------------------------------------------------------
(* The checksum that is printed is that of the whole file, every byte read   *)
(* once, in order and while it is mapped, and nothing is left mapped; and no *)
(* file is refused after pages of it were read that has a part of a page at  *)
(* its end (hw10/main.c:65-86).                                              *)
WholeFile ==
    /\ step = "printed" =>
        /\ crc = [k \in 1..size |-> k - 1]
        /\ mapped = {}
    /\ step = "refused" => size % PageSize = 0
    /\ -1 \notin {crc[k] : k \in DOMAIN crc}

(* The program computes the checksum of files that exceed the memory         *)
(* (hw10/readme.md:9-10): no file is refused for its size.  It is when this  *)
(* is a multiple of the page's: munmap of nothing fails, after all has been  *)
(* read (hw10/main.c:66, :81).                                               *)
AnySize == step = "refused" => size = 0
=============================================================================
