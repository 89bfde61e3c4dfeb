------------------------------ MODULE CircBuf ------------------------------
(***************************************************************************)
(* The index arithmetic of include/bathos/circ_buf.h.  A circular buffer   *)
(* of `size' slots is described by two indices in 0 .. size-1; the code    *)
(* computes modulo the size with "& (size - 1)", which is % size because   *)
(* every buffer of the system has a power of two as its size.              *)
(***************************************************************************)
EXTENDS Integers

\* (index + 1) & (size - 1), the step of a head or a tail.
CIRC_INC(index, size) == (index + 1) % size

\* Number of slots in use.
CIRC_CNT(head, tail, size) == (head - tail) % size

\* Mutated form: a full buffer looks like one with every slot free.
CIRC_SPACE_NoGap(head, tail, size) == size - CIRC_CNT(head, tail, size)

\* Number of slots that may still be filled: one slot always stays free, as
\* a completely full buffer would have head = tail, like an empty one.
CIRC_SPACE(head, tail, size) == CIRC_CNT(tail, head + 1, size)

\* Number of used slots up to the end of the array.
CIRC_CNT_TO_END(head, tail, size) ==
    LET end == size - tail
        n   == (head + end) % size
    IN  IF n < end THEN n ELSE end

\* Number of free slots up to the end of the array.
CIRC_SPACE_TO_END(head, tail, size) ==
    LET end == size - 1 - head
        n   == (end + tail) % size
    IN  IF n <= end THEN n ELSE end + 1
=============================================================================
