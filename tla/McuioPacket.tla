---------------------------- MODULE McuioPacket ----------------------------
(***************************************************************************)
(* The packets of the mcuio protocol (include/tasks/mcuio.h) and the       *)
(* registers of a function: finding the range that a request is for and    *)
(* the default operations on it (mcuio/task-mcuio.c).                      *)
(*                                                                         *)
(* A packet is a record: f (func), off (offset), t (the low five bits of   *)
(* type: 0 .. 7 for rdb, wrb, rdw, wrw, rddw, wrdw, rdq, wrq), the three   *)
(* flags fill, rep and err of type, and data, the bytes of data[2].        *)
(***************************************************************************)
EXTENDS Integers, Sequences, FiniteSetsExt

CONSTANT Harvard      \* ARCH_IS_HARVARD: constants are in a memory of their own
ASSUME PacketAssumption == Harvard \in BOOLEAN

EPERM  == 1
EACCES == 13
ENODEV == 19
EINVAL == 22

is_read(p)  == p.t % 2 = 0
is_write(p) == p.t % 2 = 1
data_len(p) == 2 ^ (p.t \div 2)
set_reply(p) == [p EXCEPT !.rep = TRUE]

\* The bytes of a 32 bit value, little endian.
Dword(v) == <<v % 256, (v \div 256) % 256, (v \div 65536) % 256, (v \div 16777216) % 256>>

\* data after its first bytes were replaced by bytes.
Put(data, bytes) == bytes \o SubSeq(data, Len(bytes) + 1, Len(data))

\* The value of data[0].
Value(data) == data[1] + 256 * data[2] + 65536 * data[3] + 16777216 * data[4]

\* __mcuio_send_error_to_host: what it makes of the packet.
set_error(p, e) == [p EXCEPT !.err = TRUE, !.data = Put(@, Dword(e))]

-----------------------------------------------------------------------------
(* The ranges of a function: sequences of [start, len, ops]                *)

Range_(start, len, ops) == [start |-> start, len |-> len, ops |-> ops]

\* The first range that holds all the data of the request, or 0.
lookup_range(ranges, p) ==
    LET fits(i) == /\ p.off >= ranges[i].start
                   /\ p.off + data_len(p) - 1 <= ranges[i].start + ranges[i].len - 1
        found == {i \in DOMAIN ranges : fits(i)}
    IN  IF found = {} THEN 0 ELSE Min(found)

\* How many bytes the default operations copy.
AccessLen(p) == IF p.fill THEN 8 ELSE data_len(p)

\* mcuio_rdb, mcuio_rdw, mcuio_rddw and mcuio_rdq read the memory at their
\* target: the one of constants, but mcuio_rdq the ram, which is the same
\* memory unless the machine is a Harvard one.
default_rd(flash, ram, off, p) ==
    LET mem == IF Harvard /\ p.t # 6 THEN flash ELSE ram
    IN  Put(p.data, [k \in 1 .. AccessLen(p) |-> mem[off + k - 1]])

\* mcuio_wrb, mcuio_wrw, mcuio_wrdw and mcuio_wrq write the ram.
default_wr(mem, off, p) ==
    [a \in DOMAIN mem |-> IF a - off \in 0 .. AccessLen(p) - 1
                          THEN p.data[a - off + 1] ELSE mem[a]]
=============================================================================
