------------------------------ MODULE Lininoio ------------------------------
(***************************************************************************)
(* The lininoio protocol (lininoio/core.c) over the raw ethernet device of *)
(* the unix port (drivers/unix-eth.c), a client and a server of one buffer *)
(* queue, with the writer of a lininoio device (drivers/lininoio-dev.c).   *)
(*                                                                         *)
(* Everything runs in thread context; packets arrive when idle() finds the *)
(* socket readable, which is only when the event queue is empty.           *)
(***************************************************************************)
EXTENDS BufferQueue

CONSTANTS
    RxBuffers,   \* CONFIG_LININOIO_RX_BUFFERS
    MaxWrites,   \* bound: a task writes to a lininoio device while fewer
                 \* buffers than this are held
    MaxPackets   \* bound: packets that are received

ASSUME LininoioAssumption ==
    /\ RxBuffers \in Nat /\ MaxPackets \in Nat /\ MaxWrites \in Nat

\* What a received packet is: an association reply with status 0 or another
\* one, data for a channel, or some other type.
Packets == {"areply", "refused", "data", "other"}
NoPacket == "none"

VARIABLES
    bq,           \* the buffer queue
    op, data,     \* of each buffer: op->type, and the packet in it
    rx_queue, tx_queue,
    state, activity, outstanding_rx_buffers,
    started,      \* the static variable of lininoio_periodic
    arming,       \* lininoio_buf_available_handle is in its loop
    rcvd,         \* how many packets have been received
    sent,         \* history: the kinds of packets that were sent
    unread, overwritten, \* history: buffers with a packet that has not been
                         \* processed; such a packet was overwritten
    accepted      \* history: a reply with status 0 has been processed

server == <<rx_queue, tx_queue>>
core   == <<state, activity, outstanding_rx_buffers, started, arming>>
hist   == <<sent, unread, overwritten, accepted>>
vars   == <<bq, op, data, server, core, rcvd, hist>>

Init ==
    /\ bq = async_start(server_init)     \* unix_eth_open, lininoio_init
    /\ op = [b \in Bufs |-> "NONE"] /\ data = [b \in Bufs |-> NoPacket]
    /\ rx_queue = <<>> /\ tx_queue = <<>>
    /\ state = "UNASSOCIATED" /\ activity = 0 /\ outstanding_rx_buffers = 0
    /\ started = FALSE /\ arming = FALSE
    /\ rcvd = 0
    /\ sent = {} /\ unread = {} /\ overwritten = FALSE /\ accepted = FALSE

\* The event being handled, which leaves the queue with the handler's end.
At(e)    == bq.q # <<>> /\ Head(bq.q)[1] = e
Buf      == Head(bq.q)[2]
Retire(s) == [s EXCEPT !.q = Tail(@)]

-----------------------------------------------------------------------------
(* lininoio/core.c                                                         *)

\* lininoio_periodic, the task's job: it takes a buffer first and then sees
\* whether it needs one.
lininoio_periodic ==
    /\ ~arming
    /\ LET s == IF started THEN bq ELSE async_start(bq)
           b == GotBuf(s)
       IN  /\ started' = TRUE
           /\ IF ~CanGet(s)
              THEN bq' = s /\ UNCHANGED <<op, data, state, activity>>
              ELSE CASE \/ state = "ASSOCIATING"
                        \/ state = "ASSOCIATED" /\ activity \notin {0, -1} ->
                          bq' = get_buf(s) /\ UNCHANGED <<op, data, state, activity>>
                     [] state = "ASSOCIATED" /\ activity \in {0, -1} ->
                          /\ bq' = bdescr_put(get_buf(s), b)
                          /\ op' = [op EXCEPT ![b] = "SEND"]
                          /\ data' = [data EXCEPT ![b] = "alive"]
                          /\ activity' = -1
                          /\ UNCHANGED state
                     [] state = "UNASSOCIATED" ->
                          /\ bq' = bdescr_put(get_buf(s), b)
                          /\ op' = [op EXCEPT ![b] = "SEND"]
                          /\ data' = [data EXCEPT ![b] = "arequest"]
                          /\ state' = "ASSOCIATING"
                          /\ UNCHANGED activity
    /\ UNCHANGED <<outstanding_rx_buffers, arming, server, rcvd, hist>>

\* lininoio_buf_available_handle: a turn of its loop, which no other code of
\* the thread interrupts, gives a buffer back to be received into ...
Wanted == outstanding_rx_buffers < RxBuffers /\ CanGet(bq)
AvailableTurn ==
    /\ At("available") /\ Wanted
    /\ LET b == GotBuf(bq)
       IN  /\ bq' = bdescr_put(get_buf(bq), b)
           /\ op' = [op EXCEPT ![b] = "RECV"]
    /\ outstanding_rx_buffers' = outstanding_rx_buffers + 1
    /\ arming' = TRUE
    /\ UNCHANGED <<data, server, state, activity, started, rcvd, hist>>

\* ... and its end.
AvailableReturn ==
    /\ At("available") /\ ~Wanted
    /\ bq' = Retire(bq)
    /\ arming' = FALSE
    /\ UNCHANGED <<op, data, server, state, activity, outstanding_rx_buffers,
                   started, rcvd, hist>>

\* __process_areply: a refusal is ignored, and so is, but for the channels'
\* setup, an acceptance.
process_areply(status) == accepted' = (accepted \/ status = "areply")

\* lininoio_buf_processed_handle, for an operation that is RECV (the device
\* reports no other): __process_input.
Processed ==
    /\ At("processed")
    /\ IF data[Buf] \in {"areply", "refused"} THEN process_areply(data[Buf])
       ELSE UNCHANGED accepted
    /\ bq' = Retire(bdescr_put(bq, Buf))
    /\ unread' = unread \ {Buf}
    /\ UNCHANGED <<op, data, server, core, rcvd, sent, overwritten>>

-----------------------------------------------------------------------------
(* drivers/unix-eth.c                                                      *)

\* Mutated form: the client gets a processed event as well.
start_tx_processed(s, b) == buf_processed(buf_done(s, b), b)

\* start_tx with b the only buffer of tx_queue: it is sent, or refused
\* because of its address, and done in any case.
start_tx(s, b) == buf_done(s, b)

\* A buffer that is on the list already leaves its place.
Without(b, s) ==
    LET i == CHOOSE j \in DOMAIN s : s[j] = b
    IN  IF b \in Range(s) THEN SubSeq(s, 1, i - 1) \o SubSeq(s, i + 1, Len(s)) ELSE s
list_move_tail(b, s) == Append(Without(b, s), b)

\* unix_eth_setup_handler
Setup ==
    /\ At("setup")
    /\ CASE op[Buf] = "SEND" ->
              /\ bq' = Retire(start_tx(bq, Buf))
              /\ sent' = sent \cup {data[Buf]}
              /\ UNCHANGED rx_queue
         [] op[Buf] = "RECV" ->
              /\ bq' = Retire(bq)
              /\ rx_queue' = list_move_tail(Buf, rx_queue)
              /\ UNCHANGED sent
         [] op[Buf] = "NONE" ->
              /\ bq' = Retire(buf_done(bq, Buf))
              /\ UNCHANGED <<rx_queue, sent>>
    /\ UNCHANGED <<op, data, tx_queue, core, rcvd, unread, overwritten, accepted>>

\* Mutated form: the socket is also looked at while events are queued.
SocketReadyAnytime ==
    /\ rcvd < MaxPackets
    /\ ~At("input") /\ bq' = Trigger(bq, "input", None)
    /\ UNCHANGED <<op, data, server, core, rcvd, hist>>

\* idle() finds the socket readable and triggers unix_eth_input.
SocketReady ==
    /\ bq.q = <<>>
    /\ rcvd < MaxPackets
    /\ bq' = Trigger(bq, "input", None)
    /\ UNCHANGED <<op, data, server, core, rcvd, hist>>

\* unix_eth_input_ready_handler, when no buffer is queued or recv fails: the
\* packet is gone.
InputLost ==
    /\ At("input")
    /\ rcvd' = rcvd + 1
    /\ bq' = Retire(bq)
    /\ UNCHANGED <<op, data, server, core, hist>>

\* ... and when it reads the packet into the first buffer of rx_queue, which
\* stays where it is.
InputReceived ==
    /\ At("input")
    /\ rx_queue # <<>>
    /\ LET b == Head(rx_queue)
       IN  /\ \E p \in Packets : data' = [data EXCEPT ![b] = p]
           /\ bq' = Retire(buf_processed(bq, b))
           /\ overwritten' = (overwritten \/ b \in unread)
           /\ unread' = unread \cup {b}
    /\ rcvd' = rcvd + 1
    /\ UNCHANGED <<op, server, core, sent, accepted>>

-----------------------------------------------------------------------------
(* drivers/lininoio-dev.c                                                  *)

\* lininoio_dev_write gets a buffer, copies into it and returns.
DevWrite ==
    /\ ~arming
    /\ Cardinality({b \in Bufs : bq.users[b] > 0}) < MaxWrites
    /\ CanGet(bq)
    /\ bq' = get_buf(bq)
    /\ data' = [data EXCEPT ![GotBuf(bq)] = "data"]
    /\ UNCHANGED <<op, server, core, rcvd, hist>>

-----------------------------------------------------------------------------
Handle == AvailableTurn \/ AvailableReturn \/ Processed \/ Setup \/ InputLost \/ InputReceived

Next == lininoio_periodic \/ Handle \/ SocketReady \/ DevWrite

Spec == Init /\ [][Next]_vars

-----------------------------------------------------------------------------
TypeOK ==
    /\ bq.free \in Seq(Bufs) /\ Cardinality(Range(bq.free)) = Len(bq.free)
    /\ bq.stopped \in BOOLEAN
    /\ bq.users \in [Bufs -> -MaxPackets .. 1]
    /\ bq.release \subseteq Bufs
    /\ bq.q \in Seq({"available", "setup", "processed", "input"} \X ({None} \cup Bufs))
    /\ op \in [Bufs -> {"NONE", "SEND", "RECV"}]
    /\ data \in [Bufs -> Packets \cup {NoPacket, "arequest", "alive"}]
    /\ rx_queue \in Seq(Bufs) /\ tx_queue = <<>>
    /\ state \in {"UNASSOCIATED", "ASSOCIATING", "ASSOCIATED"}
    /\ activity \in -1 .. 1
    /\ outstanding_rx_buffers \in 0 .. RxBuffers
    /\ started \in BOOLEAN /\ arming \in BOOLEAN
    /\ rcvd \in 0 .. MaxPackets

Pending(e, b) == <<e, b>> \in Range(bq.q)

\* A free buffer is nobody's: no event about it is queued, nobody holds it
\* and it is not waiting for a packet.
FreeBuffersIdle ==
    \A b \in Range(bq.free) :
        /\ ~Pending("setup", b) /\ ~Pending("processed", b)
        /\ bq.users[b] = 0
        /\ b \notin Range(rx_queue)

\* Free buffers are put to use: while one is free and too few wait for
\* packets, an available event is queued.
AvailableNotForgotten ==
    bq.free # <<>> /\ outstanding_rx_buffers < RxBuffers => Pending("available", None)

\* A packet is processed before another one is read into its buffer, although
\* the buffer stays first in rx_queue all the time.
PacketsNotOverwritten == ~overwritten

=============================================================================
