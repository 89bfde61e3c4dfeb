--------------------------------- MODULE W1 ---------------------------------
(***************************************************************************)
(* The one-wire bus: the search for the devices (drivers/w1.c), bit by bit *)
(* over a wire on which a 0 wins, and the writes to an eeprom              *)
(* (drivers/w1-eeprom.c), page by page with a read back of each page.      *)
(*                                                                         *)
(* A rom is a function from its bits, 0 the first on the wire, to {0, 1};  *)
(* its first ClassBits bits are the class.  IntBits is the width of the    *)
(* int through which __w1_scan_one hands a bit of the rom to __get_dibit.  *)
(***************************************************************************)
EXTENDS Integers, Sequences, FiniteSets, SequencesExt

CONSTANTS RomBits, IntBits, ClassBits,
          W1_MAX_DEVICES,
          MaxPresent,   \* devices on the bus
          PageSize,     \* 32 in the code
          MemSize, MaxWrite

VARIABLE w1
    \* present: the roms on the bus; devs: bus->devs; i, cmask: of w1_scan_bus;
    \* mem: what each eeprom holds, 0 or an index into the buffer of the writer;
    \* wr: the write under way or the last one; pc

Bit == 0 .. RomBits - 1
Rom == [Bit -> {0, 1}]
NoBits == [k \in Bit |-> 0]
EepromClass == [k \in 0 .. ClassBits - 1 |-> 1]
w1_class(rom) == [k \in 0 .. ClassBits - 1 |-> rom[k]]

-----------------------------------------------------------------------------
\* The wire: every device that takes part in the search sends its bit, then
\* the bit's complement, and leaves when the bus answers the other one.
ReadBit(part, k)           == IF \E r \in part : r[k] = 0 THEN 0 ELSE 1
ReadComplement(part, k)    == IF \E r \in part : r[k] = 1 THEN 0 ELSE 1
WriteBit(part, k, bit)     == {r \in part : r[k] = bit}

\* One bit of the search, for a state s with the rom so far, the conflicts and
\* the devices that still take part.  A bit that does not fit an int is 0 for
\* __get_dibit.
Selected(rom, k) == IF k < IntBits THEN rom[k] ELSE 0

__get_dibit(s, k) ==
    LET a == ReadBit(s.part, k)
        b == ReadComplement(s.part, k)
        select == Selected(s.rom, k)
    IN  IF a # b
        THEN [s EXCEPT !.part = WriteBit(@, k, a), !.rom[k] = IF a = 1 THEN 1 ELSE @]
        ELSE [s EXCEPT !.part = WriteBit(@, k, select),
                       !.cmask[k] = IF select = 0 THEN 1 ELSE @]

__w1_scan_one(present, rom) ==
    FoldLeft(__get_dibit, [part |-> present, rom |-> rom, cmask |-> NoBits],
             [k \in 1 .. RomBits |-> k - 1])

LastConflict(cmask) == CHOOSE k \in Bit : cmask[k] = 1 /\ \A j \in Bit : j > k => cmask[j] = 0

\* Mutated form: what follows the conflict is as in the last rom.
NextRom_keeps_tail(rom, cmask) == [rom EXCEPT ![LastConflict(cmask)] = 1]

\* The rom to look for after one whose search had the conflicts in cmask: the
\* last of them is answered with 1, what follows it starts from 0 again.
NextRom(rom, cmask) ==
    [k \in Bit |-> IF k < LastConflict(cmask) THEN rom[k]
                   ELSE IF k = LastConflict(cmask) THEN 1 ELSE 0]

W1State(present, pc) ==
    [present |-> present, devs |-> [j \in 1 .. W1_MAX_DEVICES |-> NoBits],
     i |-> 0, cmask |-> NoBits, pc |-> pc,
     mem |-> [r \in present |-> [a \in 0 .. MemSize - 1 |-> 0]],
     wr |-> [offset |-> 0, blen |-> 0, at |-> 0, ret |-> 0, got |-> <<>>]]

W1Init ==
    \E present \in {P \in SUBSET Rom : Cardinality(P) <= MaxPresent} : w1 = W1State(present, "scan")

\* One round of the loop of w1_scan_bus.  Nobody answers the reset on a bus
\* without devices.
w1_scan_bus ==
    /\ w1.pc = "scan"
    /\ IF \/ w1.i = W1_MAX_DEVICES
          \/ w1.i > 0 /\ w1.cmask = NoBits
          \/ w1.present = {}
       THEN w1' = [w1 EXCEPT !.pc = "idle"]
       ELSE LET rom == IF w1.i = 0 THEN NoBits ELSE NextRom(w1.devs[w1.i], w1.cmask)
                s   == __w1_scan_one(w1.present, rom)
            IN  w1' = [w1 EXCEPT !.i = @ + 1, !.devs[w1.i + 1] = s.rom, !.cmask = s.cmask]

-----------------------------------------------------------------------------
\* w1_write_eeprom_bus writes to the first device of its class.
Eeproms == {j \in 1 .. W1_MAX_DEVICES : w1_class(w1.devs[j]) = EepromClass}
Target  == w1.devs[CHOOSE j \in Eeproms : \A k \in Eeproms : j <= k]

w1_write_eeprom_bus == \E offset \in 0 .. MemSize - 1, blen \in 1 .. MaxWrite :
    /\ w1.pc = "idle"
    /\ Eeproms # {}
    /\ offset + blen <= MemSize
    /\ w1' = [w1 EXCEPT !.pc = "write",
                        !.wr = [offset |-> offset, blen |-> blen, at |-> 0, ret |-> 0, got |-> <<>>]]

\* The length of the next page-local write: the rest of the page that offset
\* is in for the first one, and whole pages up to the last part.
PageRest(offset) == PageSize - (offset % PageSize)
Piece(wr) ==
    LET offset == wr.offset + wr.at
        left   == wr.blen - wr.at
    IN  IF wr.at = 0 /\ offset % PageSize # 0
        THEN IF (offset + left - 1) \div PageSize # offset \div PageSize
             THEN PageRest(offset) ELSE left
        ELSE IF left > PageSize THEN PageSize ELSE left

\* The scratchpad is one page: an address past its end is one at its start.
ScratchpadCopied(mem, wr, n) ==
    LET offset == wr.offset + wr.at
        base   == offset - (offset % PageSize)
        at(k)  == base + ((offset + k) % PageSize)
    IN  [a \in DOMAIN mem |->
            IF \E k \in 0 .. n - 1 : at(k) = a
            THEN wr.at + 1 + (CHOOSE k \in 0 .. n - 1 : at(k) = a /\ \A j \in k + 1 .. n - 1 : at(j) # a)
            ELSE mem[a]]

\* The write of a page ends with an error when what is read back from the
\* scratchpad differs, or no device has the rom: nothing is copied then.
w1_write_page ==
    /\ w1.pc = "write" /\ w1.wr.at < w1.wr.blen
    /\ LET n == Piece(w1.wr)
       IN  \/ /\ Target \in w1.present
              /\ w1' = [w1 EXCEPT !.mem[Target] = ScratchpadCopied(@, w1.wr, n),
                                  !.wr.at = @ + n, !.wr.ret = @ + n]
           \/ \E err \in 1 .. 3 : w1' = [w1 EXCEPT !.wr.ret = -err, !.pc = "done"]

WriteEnds ==
    /\ w1.pc = "write" /\ w1.wr.at >= w1.wr.blen
    /\ w1' = [w1 EXCEPT !.pc = "written"]

\* w1_read_eeprom_bus of what was written.
w1_read_eeprom_bus ==
    /\ w1.pc = "written"
    /\ w1' = [w1 EXCEPT !.pc = "done",
                        !.wr.got = [k \in 1 .. w1.wr.blen |-> w1.mem[Target][w1.wr.offset + k - 1]]]

W1Next == w1_scan_bus \/ w1_write_eeprom_bus \/ w1_write_page \/ WriteEnds \/ w1_read_eeprom_bus

-----------------------------------------------------------------------------
\* The bit at which the search has to choose between two devices.
FirstDifference(r, q) == CHOOSE k \in Bit : r[k] # q[k] /\ \A j \in 0 .. k - 1 : r[j] = q[j]
Resolvable == \A r, q \in w1.present : r # q => FirstDifference(r, q) < IntBits
FoundRoms == {w1.devs[j] : j \in 1 .. w1.i}

\* Every round of the search finds a device of the bus that no earlier round
\* found, and it ends with all of them, or as many as devs has room for, as
\* long as no two devices differ only in bits that an int does not hold
\* (__w1_scan_one).
ScanFindsAll ==
    Resolvable =>
        /\ FoundRoms \subseteq w1.present
        /\ Cardinality(FoundRoms) = w1.i
        /\ w1.pc # "scan" => \/ w1.i = Cardinality(w1.present)
                             \/ w1.i = W1_MAX_DEVICES /\ w1.i < Cardinality(w1.present)

\* At each moment of a write the eeprom holds the start of the buffer, at the
\* place it was meant for, and nothing else has changed, whichever page the
\* line spoils; after a write that reports its length all of it reads back
\* (w1_write_eeprom).
EepromWritten ==
    Resolvable =>
        LET wr == w1.wr
            started == w1.pc \in {"write", "written", "done"}
        IN  /\ \A r \in w1.present : \A a \in 0 .. MemSize - 1 :
                  w1.mem[r][a] = IF started /\ r = Target /\ a \in wr.offset .. wr.offset + wr.at - 1
                                 THEN a - wr.offset + 1 ELSE 0
            /\ w1.pc = "written" => wr.ret = wr.blen
            /\ wr.got # <<>> => wr.got = [k \in 1 .. wr.blen |-> k]

\* The devices of a bus are all found and none twice, and what is written to
\* their memories is there, in whichever pieces it was sent.
OneWireTrue == ScanFindsAll /\ EepromWritten
=============================================================================
