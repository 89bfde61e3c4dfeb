---------------------------- MODULE McuioStream ----------------------------
(***************************************************************************)
(* How the mcuio task (mcuio/task-mcuio.c) puts together the packets that  *)
(* the host sends over a serial line: the handler of the input ready event *)
(* reads the character device's pipe (CharDev) into input_packet, and      *)
(* gives the packet on when it is complete.  There is nothing in the       *)
(* stream that marks where a packet begins: what is left of a packet is    *)
(* given up when no character came for HZ/20 ticks.                        *)
(*                                                                         *)
(* The characters are numbered; packet k of the host is made of those from *)
(* k * PacketLen to (k + 1) * PacketLen - 1, modulo NChars.                *)
(***************************************************************************)
EXTENDS CharDev

CONSTANT PacketLen   \* sizeof(struct mcuio_base_packet)

ASSUME StreamAssumption ==
    PacketLen \in Nat \ {0} /\ NPipes = 1 /\ NChars % PacketLen = 0

VARIABLES
    packet,    \* the characters in input_packet: curr_len of them, and those
               \* that the handler is adding
    quiet,     \* time_after(jiffies, last + HZ/20)
    clean,     \* history: since the host last paused between two packets,
               \* nothing it sent was dropped
    expected   \* history: where the next packet begins, if clean

streamvars == <<vars, packet, quiet, clean, expected>>

InputPipe == 1
Between   == char % PacketLen = 0     \* the host is between two packets
Idle      == pc = "loop" /\ q = <<>>

StreamInit ==
    /\ Init
    /\ packet = <<>>
    /\ quiet = FALSE
    /\ clean = TRUE /\ expected = 0

\* The uart's interrupt handler; a character that finds no room is lost.
Interrupt ==
    /\ IrqHandler
    /\ clean' = (clean /\ ~Full(InputPipe))
    /\ expected' = IF clean' THEN expected ELSE 0
    /\ UNCHANGED <<packet, quiet>>

\* The host pauses for more than HZ/20 ticks, or the task is kept that long.
Pause ==
    /\ ~quiet
    /\ quiet' = TRUE
    /\ clean' = (Between /\ Idle /\ CNT(InputPipe) = 0)
    /\ expected' = IF clean' THEN char ELSE 0
    /\ UNCHANGED <<vars, packet>>

\* Mutated form: what is left of a packet is never given up.
DataReadyNoTimeout ==
    /\ CopyUpTo(PacketLen - Len(packet))
    /\ quiet' = FALSE
    /\ IF rbuf' = <<>>
       THEN packet' = <<>> /\ clean' = (clean /\ packet = <<>>)
       ELSE packet' = packet \o rbuf' /\ UNCHANGED clean
    /\ expected' = IF clean' THEN expected ELSE 0

\* data_ready_handle, up to the copy in bathos_dev_read.  An event for
\* characters that an earlier call has read already makes pipe_read fail with
\* -EAGAIN, which also gives up what is left of a packet.
DataReady ==
    LET kept == IF quiet THEN <<>> ELSE packet
    IN  /\ CopyUpTo(PacketLen - Len(kept))
        /\ quiet' = FALSE
        /\ IF rbuf' = <<>>
           THEN packet' = <<>> /\ clean' = (clean /\ kept = <<>>)
           ELSE packet' = kept \o rbuf' /\ UNCHANGED clean
        /\ expected' = IF clean' THEN expected ELSE 0

\* The rest of bathos_dev_read.
DevRead ==
    /\ ReadTail \/ ReadTrigger
    /\ UNCHANGED <<packet, quiet, clean, expected>>

\* The rest of data_ready_handle: curr_len is increased, and a packet that is
\* complete is given on (Given) and makes room for the next one.
Given == pc = "return" /\ Len(packet) = PacketLen
Received ==
    /\ ReadReturn
    /\ IF Given
       THEN /\ packet' = <<>>
            /\ expected' = IF clean THEN (expected + PacketLen) % NChars ELSE 0
       ELSE UNCHANGED <<packet, expected>>
    /\ UNCHANGED <<quiet, clean>>

Handler    == DataReady \/ DevRead \/ Received
StreamNext == Interrupt \/ Pause \/ Handler

StreamSpec == StreamInit /\ [][StreamNext]_streamvars

-----------------------------------------------------------------------------
StreamTypeOK ==
    /\ TypeOK
    /\ packet \in Seq(Chars) /\ Len(packet) <= PacketLen
    /\ quiet \in BOOLEAN /\ clean \in BOOLEAN
    /\ expected \in Chars

\* The task gives on exactly the packets that the host sent, each once and in
\* order, from the first pause of the host between two packets to the next
\* time something is dropped: whatever the line did before, a pause of more
\* than HZ/20 is enough to find the packets again.
PacketsWhole ==
    [][Given /\ pc' = "loop" /\ clean =>
          packet = [k \in 1 .. PacketLen |-> (expected + k - 1) % NChars]]_streamvars

\* When the task has nothing left to do it has given on all the packets that
\* the host sent: none waits for a character of the next one.
AllGivenOn ==
    Idle /\ Between /\ clean /\ InputPipe \notin excused =>
        CNT(InputPipe) = 0 /\ (packet = <<>> \/ quiet) /\ expected = char
=============================================================================
