----------------------------- MODULE Allocator -----------------------------
(***************************************************************************)
(* The buddy allocator (lib/allocator.c).                                  *)
(*                                                                         *)
(* A buffer is named by its index, the number of its first order 0 cell,   *)
(* and its order.  Whether it is available is one bit of __bitmap.  There  *)
(* is no record of what has been handed out: bathos_free_buffer is passed  *)
(* the size again.  held is what the callers own.  All callers run in      *)
(* thread context, so the two operations are atomic.                       *)
(***************************************************************************)
EXTENDS Integers, FiniteSets, FiniteSetsExt

CONSTANTS
    NORDERS,     \* BATHOS_NORDERS
    Memory,      \* BATHOS_ALLOCATOR_MEMORY, in bytes
    BitsPerLong, \* bits in a word of __bitmap
    Sizes,       \* the sizes the callers ask for
    NULL

MAX_ORDER == NORDERS - 1
Orders    == 0 .. MAX_ORDER

NBUFS(o)    == 2^(NORDERS - o - 1)
BUF_SIZE(o) == Memory \div NBUFS(o)
Indexes     == 0 .. NBUFS(0) - 1

ASSUME AllocatorAssumption ==
    /\ NORDERS \in Nat \ {0} /\ BitsPerLong \in Nat \ {0}
    /\ Memory \in Nat /\ Memory >= NBUFS(0)
    /\ Sizes \subseteq Nat \ {0} /\ NULL \notin Int

VARIABLES
    __bitmap,       \* the bits that are set
    __initialized,
    held            \* the callers' buffers: [off |-> offset in mem, size |-> size]

vars == <<__bitmap, __initialized, held>>

-----------------------------------------------------------------------------
(* Sizes, indexes and bits                                                 *)

\* The smallest order whose buffers are large enough, -1 if there is none.
size_to_order(size) ==
    LET fits == {o \in Orders : size <= BUF_SIZE(o)}
    IN  IF fits = {} THEN -1 ELSE Min(fits)

\* index ^ (1 << order)
get_buddy(index, order) ==
    IF (index \div 2^order) % 2 = 0 THEN index + 2^order ELSE index - 2^order

\* index & ~(1 << order)
get_parent(index, order) ==
    IF (index \div 2^order) % 2 = 0 THEN index ELSE index - 2^order

index_to_bit(index, order) == 2^NORDERS - 2^(NORDERS - order) + index \div 2^order

is_free(bm, index, order) == index_to_bit(index, order) \in bm

\* The words an order's bits are in, the bits of its mask, and ffs of a word.
Words(order) ==
    index_to_bit(0, order) \div BitsPerLong
      .. index_to_bit(NBUFS(0) - 1, order) \div BitsPerLong
Masked(bm, order, word) ==
    {b \in bm : /\ b \div BitsPerLong = word
                /\ index_to_bit(0, order) <= b
                /\ b < index_to_bit(0, order) + NBUFS(order)}

\* The index of the first available buffer of an order, or NULL.
find_free_buf(bm, order) ==
    LET hits == {w \in Words(order) : Masked(bm, order, w) # {}}
        w    == Min(hits)
        i    == w - index_to_bit(0, order) \div BitsPerLong
        bit  == (Min(Masked(bm, order, w)) % BitsPerLong)
                  - (index_to_bit(0, order) % BitsPerLong) + i * BitsPerLong
    IN  IF hits = {} THEN NULL ELSE bit * 2^order

-----------------------------------------------------------------------------
(* Coalescing and splitting: the bitmap that results                       *)

\* Mutated form: the buddy stays available.
coalesce_keeps(bm, index, order) ==
    IF order = MAX_ORDER \/ ~is_free(bm, get_buddy(index, order), order) THEN bm
    ELSE (bm \ {index_to_bit(index, order)})
           \cup {index_to_bit(get_parent(index, order), order + 1)}

\* The bitmap after __coalesce_buffers(index, order).
coalesce_buffers(bm, index, order) ==
    LET f[o \in order .. MAX_ORDER, b \in SUBSET (0 .. 2^NORDERS - 1), x \in Indexes] ==
            IF o = MAX_ORDER \/ ~is_free(b, get_buddy(x, o), o) THEN b
            ELSE f[o + 1,
                   (b \ {index_to_bit(x, o), index_to_bit(get_buddy(x, o), o)})
                     \cup {index_to_bit(get_parent(x, o), o + 1)},
                   get_parent(x, o)]
    IN  f[order, bm, index]

\* The bitmap after __split_buffers(min_order, order).
split_buffers(bm, min_order, order) ==
    LET f[o \in Orders, b \in SUBSET (0 .. 2^NORDERS - 1)] ==
            LET x == find_free_buf(b, o)
                s == (b \ {index_to_bit(x, o)})
                       \cup {index_to_bit(x, o - 1),
                             index_to_bit(get_buddy(x, o - 1), o - 1)}
            IN  IF x = NULL THEN b
                ELSE IF o - min_order > 1 THEN f[o - 1, s] ELSE s
    IN  f[order, bm]

\* The bitmap after the for loop of bathos_alloc_buffer.
search(bm, order) ==
    LET f[i \in order .. MAX_ORDER, b \in SUBSET (0 .. 2^NORDERS - 1)] ==
            IF find_free_buf(b, order) # NULL \/ i >= MAX_ORDER THEN b
            ELSE f[i + 1, split_buffers(b, order, i + 1)]
    IN  f[order, bm]

-----------------------------------------------------------------------------
Init ==
    /\ __bitmap = {}
    /\ __initialized = FALSE
    /\ held = {}

\* The bitmap bathos_alloc_buffer works on: the first call initializes it.
Ready ==
    IF __initialized THEN __bitmap ELSE {index_to_bit(0, MAX_ORDER)}

\* The index bathos_alloc_buffer(size) finds, or NULL.
Found(size) ==
    LET order == size_to_order(size)
    IN  IF order < 0 THEN NULL ELSE find_free_buf(search(Ready, order), order)

bathos_alloc_buffer(size) ==
    LET order == size_to_order(size)
        index == Found(size)
        bm    == IF order < 0 THEN Ready ELSE search(Ready, order)
    IN  /\ __initialized' = TRUE
        /\ IF index = NULL
           THEN __bitmap' = bm /\ UNCHANGED held
           ELSE /\ __bitmap' = bm \ {index_to_bit(index, order)}
                /\ held' = held \cup {[off |-> index * BUF_SIZE(0), size |-> size]}

\* The two checks of bathos_free_buffer.  1 << (order - 1) is undefined for
\* order 0; no outcome of it is a bit of an offset in mem.
Refused(b, order) ==
    \/ b.off >= Memory
    \/ order > 0 /\ (b.off \div 2^(order - 1)) % 2 = 1

bathos_free_buffer(b) ==
    LET order == size_to_order(b.size)
        index == b.off \div BUF_SIZE(0)
    IN  /\ held' = held \ {b}
        /\ __bitmap' =
              IF Refused(b, order) THEN __bitmap
              ELSE coalesce_buffers(__bitmap \cup {index_to_bit(index, order)},
                                    index, order)
        /\ UNCHANGED __initialized

Alloc == \E size \in Sizes : bathos_alloc_buffer(size)
Free  == \E b \in held : bathos_free_buffer(b)

Next == Alloc \/ Free

Spec == Init /\ [][Next]_vars

-----------------------------------------------------------------------------
TypeOK ==
    /\ __bitmap \subseteq 0 .. 2^NORDERS - 2
    /\ __initialized \in BOOLEAN
    /\ held \subseteq [off : 0 .. Memory - 1, size : Sizes]

Bytes(b) == b.off .. b.off + b.size - 1

\* What callers hold lies inside mem, and no two of them share a byte.
BuffersDisjoint ==
    \A b \in held :
        /\ Bytes(b) \subseteq 0 .. Memory - 1
        /\ \A c \in held \ {b} : Bytes(b) \cap Bytes(c) = {}

\* The order 0 cells of a buffer, of what is available and of what is held.
Cells(index, order) == index .. index + 2^order - 1
HeldCells(b)  == Cells(b.off \div BUF_SIZE(0), size_to_order(b.size))
Available     == {x \in Indexes \X Orders :
                     x[1] % 2^x[2] = 0 /\ is_free(Ready, x[1], x[2])}

\* Every cell belongs to exactly one buffer, available or held.
CellsAccounted ==
    /\ BuffersDisjoint
    /\ \A c \in Indexes :
          Cardinality({x \in Available : c \in Cells(x[1], x[2])})
            + Cardinality({b \in held : c \in HeldCells(b)}) = 1

\* Two buddies are never both available: they are merged at every level, so
\* that the memory is in one piece again when everything has been freed.
Coalesced ==
    \A x \in Available :
        x[2] < MAX_ORDER => ~is_free(Ready, get_buddy(x[1], x[2]), x[2])

\* bathos_alloc_buffer fails only if every aligned piece of that order has a
\* cell somebody holds, whatever was allocated, split and merged before.
FitsIfFree ==
    \A size \in Sizes :
        LET order == size_to_order(size)
        IN  order >= 0 /\ Found(size) = NULL =>
                \A x \in {y \in Indexes : y % 2^order = 0} :
                    \E b \in held : HeldCells(b) \cap Cells(x, order) # {}

\* Nothing is leaked by a split, a merge or an early return and nothing is
\* given twice, to the byte; and what is free is in pieces as large as what is
\* held allows, and found.
MemoryAccounted == CellsAccounted /\ Coalesced /\ FitsIfFree
=============================================================================
