----------------------------- MODULE UsbDevice ------------------------------
(***************************************************************************)
(* The driver of Freescale's usb device controller                         *)
(* (drivers/usb-device-freescale.c) under the inlines of                   *)
(* include/bathos/usb-device-controller.h.  The device is one record d:    *)
(* the driver's memory, the buffer descriptors it shares with the          *)
(* controller, and the controller's registers.  Every operation takes the  *)
(* record and returns the new one, or [d, ret] where its result is used.   *)
(***************************************************************************)
EXTENDS Integers, Sequences, FiniteSets, FiniteSetsExt, SequencesExt, TLC

CONSTANT EpSize     \* ep->size, of every endpoint

ASSUME UsbFreescaleAssumption == EpSize \in Nat \ {0}

\* The endpoints of one usb-serial device, in the order of usb_endpoints.
ACM == 1
RX  == 2
TX  == 3
Eps == 0 .. 3
ep_is_tx(e) == e \in {ACM, TX}

NULL == [at |-> "null", off |-> 0, data |-> <<>>]
Const(bytes) == [at |-> "const", off |-> 0, data |-> bytes]
EpBuf(i) == [at |-> IF i = 1 THEN "buf1" ELSE "buf2", off |-> 0, data |-> <<>>]
BufIndex(a) == IF a.at = "buf1" THEN 1 ELSE 2

(* struct usb_device_tx_buf and its inlines                                *)
TxBuf(a, len, const) ==
    [buf |-> a, len |-> len, const |-> const, busy |-> FALSE, tz |-> FALSE, stall |-> FALSE]
NullTxBuf  == TxBuf(NULL, 0, TRUE)
StallTxBuf == [NullTxBuf EXCEPT !.stall = TRUE]

TX_BUF_BUSY == 16384
\* The flag is looked for in the length.  (Where the data of a free buffer was
\* is forgotten.)
usb_device_tx_buf_is_free(b) == (b.len \div TX_BUF_BUSY) % 2 = 0
usb_device_tx_buf_free(b) == [NullTxBuf EXCEPT !.len = b.len, !.tz = b.tz]
usb_device_tx_buf_update(b, l) == [b EXCEPT !.buf.off = @ + l, !.len = @ - Min({@, l})]

\* A buffer descriptor without an owner; pid is the token it was used for.
NoBd(a) == [own |-> FALSE, data1 |-> FALSE, bc |-> 0, pid |-> "none", address |-> a]

FreshDevice ==
    [ bdt       |-> [x \in Eps \X {0, 1} \X {0, 1} |-> NoBd(NULL)],  \* endpoint, tx, odd
      odd       |-> [e \in Eps |-> 0],             \* ll_data->odd
      tx_data0  |-> [e \in Eps |-> FALSE],         \* the next packet is a DATA1
      tx_bufs   |-> [x \in Eps \X {0, 1} |-> NullTxBuf],
      curr      |-> [e \in Eps |-> -1],            \* curr_tx_buf
      busy      |-> [e \in Eps |-> {}],            \* BUSY1 and BUSY2
      mem       |-> [x \in Eps \X {1, 2} |-> <<>>],\* buf1 and buf2
      next_addr |-> 0, configuration |-> 0, users |-> 0,
      ep_users  |-> [e \in Eps |-> 0],
      status    |-> [e \in Eps |-> 0],
      rx_buf    |-> [e \in Eps |-> NULL], rx_cnt |-> [e \in Eps |-> 0],
      cb        |-> <<>>,                          \* what the usb-serial device has pushed
      \* registers, and what the controller keeps to itself
      addr      |-> 0, irq |-> FALSE,
      enabled   |-> {},                            \* EPTXEN and EPRXEN: <<e, tx>>
      epstall   |-> {},
      istat     |-> {}, stat |-> <<>>,             \* tokens done, oldest first
      hw_odd    |-> [x \in Eps \X {0, 1} |-> 0],
      txsuspend |-> FALSE ]

-----------------------------------------------------------------------------
(* Transmission                                                            *)

FreeSlots(d, e) == {i \in {0, 1} : usb_device_tx_buf_is_free(d.tx_bufs[<<e, i>>])}

PrepareBd(d, e, slot, b, l) ==
    [d EXCEPT !.bdt[<<e, 1, d.odd[e]>>] =
                  [own |-> TRUE, data1 |-> d.tx_data0[e], bc |-> l, pid |-> "none", address |-> b.buf],
              !.tx_data0[e] = ~@,
              !.odd[e] = 1 - @,
              !.tx_bufs[<<e, slot>>] = usb_device_tx_buf_update(b, l),
              !.curr[e] = IF @ = -1 THEN slot ELSE @]

\* A descriptor is busy as long as it has an address.
BdBusy(d, e) == d.bdt[<<e, 1, d.odd[e]>>].address.at # "null"
__prepare_bd(d, e, slot) ==
    IF BdBusy(d, e) THEN d
    ELSE PrepareBd(d, e, slot, d.tx_bufs[<<e, slot>>], Min({d.tx_bufs[<<e, slot>>].len, EpSize}))

\* (A full copy has been passed by its address when it is freed, and is taken
\* for another one: it stays busy.  The bytes of a freed copy are forgotten.)
FreeCopy(d, e, a) ==
    IF a.at \in {"buf1", "buf2"} /\ a.off < EpSize
    THEN [d EXCEPT !.busy[e] = @ \ {BufIndex(a)}, !.mem[<<e, BufIndex(a)>>] = <<>>]
    ELSE d
__free_tx_buf(d, e, slot) ==
    [FreeCopy(d, e, d.tx_bufs[<<e, slot>>].buf) EXCEPT !.tx_bufs[<<e, slot>>] = usb_device_tx_buf_free(@)]

\* The transmission of a packet of buffer b, in slot, is over: its rest is
\* next, or an empty packet that ends it, or the other buffer.
Finished(d, e, slot) ==
    LET freed == [__free_tx_buf(d, e, slot) EXCEPT !.curr[e] = -1]
    IN  IF usb_device_tx_buf_is_free(d.tx_bufs[<<e, 1 - slot>>]) THEN freed
        ELSE __prepare_bd([freed EXCEPT !.curr[e] = 1 - slot], e, 1 - slot)
UpdateTxBuf(d, e, slot, b) ==
    IF b.len = 0 /\ ~b.tz THEN Finished(d, e, slot)
    ELSE __prepare_bd([d EXCEPT !.tx_bufs[<<e, slot>>].tz = @ /\ b.len > 0], e, slot)
__update_tx_buf(d, e) ==
    IF d.curr[e] = -1 THEN d
    ELSE UpdateTxBuf(d, e, d.curr[e], d.tx_bufs[<<e, d.curr[e]>>])

\* __clone_tx_buf: a buffer that may change is copied into one of the two
\* of the endpoint, as much of it as one packet holds.
EAGAIN == -1
ENOMEM == -2
NoClone(d, e, b) == ~b.const /\ b.len > 0 /\ d.busy[e] = {1, 2}
CloneInto(d, e, b, i, l) ==
    [ d |-> [d EXCEPT !.busy[e] = @ \cup {i}, !.mem[<<e, i>>] = SubSeq(b.buf.data, 1, l)],
      b |-> [b EXCEPT !.buf = EpBuf(i), !.len = l] ]
Cloned(d, e, b) ==
    IF b.const \/ b.len = 0 THEN [d |-> d, b |-> b]
    ELSE CloneInto(d, e, b, Min({1, 2} \ d.busy[e]), Min({b.len, EpSize}))

stall_ep(d, e, stall) ==
    [d EXCEPT !.epstall = IF stall THEN @ \cup {e} ELSE @ \ {e}]

Queued(d, e, b, slot) ==
    LET q == [d EXCEPT !.tx_bufs[<<e, slot>>] = [b EXCEPT !.busy = TRUE]]
    IN  IF b.stall THEN [d |-> stall_ep(q, 0, TRUE), ret |-> 0]
        ELSE [d |-> __prepare_bd(q, e, slot), ret |-> IF BdBusy(q, e) THEN ENOMEM ELSE b.len]
QueuedClone(e, x, slot) == Queued(x.d, e, x.b, slot)
submit_tx_buf(d, e, b) ==
    IF FreeSlots(d, e) = {} \/ NoClone(d, e, b) THEN [d |-> d, ret |-> EAGAIN]
    ELSE QueuedClone(e, Cloned(d, e, b), Min(FreeSlots(d, e)))

\* usb_device_controller_submit_tx_buf: what ends with a full packet, and is
\* shorter than what was asked for, needs an empty packet to end it.
UNDETERMINED == 65535
NeedsTz(requested, len) ==
    (requested = UNDETERMINED \/ requested > len) /\ len > 0 /\ len % EpSize = 0
controller_submit(d, e, requested, b) ==
    submit_tx_buf(d, e, [b EXCEPT !.tz = NeedsTz(requested, b.len)])

-----------------------------------------------------------------------------
(* The other operations                                                    *)

ArmRx(d, e) ==
    [d EXCEPT !.bdt = (<<e, 0, 0>> :> [NoBd(EpBuf(1)) EXCEPT !.own = TRUE, !.bc = EpSize])
                   @@ (<<e, 0, 1>> :> [NoBd(EpBuf(2)) EXCEPT !.own = TRUE, !.bc = EpSize]) @@ @]
__do_enable_ep(d, e, tx) ==
    [(IF tx = 1 THEN d ELSE ArmRx(d, e)) EXCEPT !.enabled = @ \cup {<<e, tx>>}]
enable_ep(d, e) ==
    IF e = 0 THEN __do_enable_ep(__do_enable_ep(d, 0, 0), 0, 1)
    ELSE __do_enable_ep(d, e, IF ep_is_tx(e) THEN 1 ELSE 0)

\* Mutated form: the driver goes on with the other descriptor.
reset_ep_KeepOdd(d, e) ==
    [d EXCEPT !.tx_bufs = [x \in DOMAIN @ |-> IF x[1] = e THEN usb_device_tx_buf_free(@[x]) ELSE @[x]],
              !.bdt[<<e, 1, 0>>].address = NULL, !.bdt[<<e, 1, 1>>].address = NULL,
              !.curr[e] = -1]

reset_ep(d, e) ==
    [d EXCEPT !.odd[e] = 0,
              !.tx_bufs = [x \in DOMAIN @ |-> IF x[1] = e THEN usb_device_tx_buf_free(@[x]) ELSE @[x]],
              !.bdt[<<e, 1, 0>>].address = NULL, !.bdt[<<e, 1, 1>>].address = NULL,
              !.curr[e] = -1]

\* ODDRST makes the controller start with the even descriptors.
reset(d) ==
    enable_ep(reset_ep([d EXCEPT !.hw_odd = [x \in DOMAIN @ |-> 0], !.addr = 0], 0), 0)

enable(d) == [d EXCEPT !.irq = TRUE]
set_address(d) == [d EXCEPT !.addr = d.next_addr]
notify_read(d, e, len) ==
    IF len <= 0 THEN d ELSE [d EXCEPT !.rx_cnt[e] = Max({0, @ - len})]

usb_device_controller_get(d) ==
    [(IF d.users = 0 THEN enable(d) ELSE d) EXCEPT !.users = @ + 1]
\* Endpoint 0 is enabled by the reset of the bus.
EpGot(d, e) == IF d.ep_users[e] = 0 /\ e # 0 THEN enable_ep(d, e) ELSE d
usb_device_ep_get(d, e) ==
    [EpGot(usb_device_controller_get(d), e) EXCEPT !.ep_users[e] = @ + 1]

-----------------------------------------------------------------------------
(***************************************************************************)
(* A usb-serial device on the bus: the requests to the control endpoint    *)
(* (drivers/usb-device-controller.c), the endpoints as pipes               *)
(* (drivers/usb-device-ep.c), the cdc-acm protocol above them              *)
(* (drivers/usb-cdc-acm.c), the controller's side of the buffer            *)
(* descriptors, and a host.  The interrupt handler runs as the handler of  *)
(* an event: the controller and the host go on while it is pending.        *)
(***************************************************************************)
CONSTANTS
    Descriptors,    \* the length of each descriptor: <<type, index>> -> length
    Lengths,        \* wLength of a request for a descriptor
    MaxResets,      \* bound: resets of the bus
    OutChars,       \* how many characters can be told apart
    Room,           \* bound: characters that wait for the client
    Backlog         \* bound: finished tokens, at most the controller's four

VARIABLES
    d,              \* the device
    h,              \* the host
    read            \* the next character that the client reads

usbvars == <<d, h, read>>

DescriptorTypes == {"device", "config", "string"}
Descriptor(type, index) == [k \in 1 .. Descriptors[<<type, index>>] |-> <<type, index, k>>]
lim(type) == Max({0} \cup {x[2] + 1 : x \in {y \in DOMAIN Descriptors : y[1] = type}})
LineCoding == << <<"line coding", 0, 1>> >>
StatusByte(v) == << <<"status", v, 1>> >>
StatusWord == << <<"status", 0, 1>>, <<"status", 0, 2>> >>

\* A setup packet: recipient, request, value, index and length.
Req(rcp, r, value, index, length) ==
    [rcp |-> rcp, r |-> r, value |-> value, index |-> index, length |-> length]
NoReq == Req("none", "none", 0, 0, 0)
BadReq(rcp) == Req(rcp, "unknown", 0, 0, 0)

-----------------------------------------------------------------------------
(* drivers/usb-device-controller.c                                         *)

control_ack(dv) == controller_submit(dv, 0, 0, NullTxBuf)
stall_handshake(dv) == controller_submit(dv, 0, 0, StallTxBuf)
Answer(dv, length, bytes) ==
    controller_submit(dv, 0, length, TxBuf(Const(bytes), Len(bytes), TRUE))

handle_get_descriptor(dv, type, index, length) ==
    IF type \notin DescriptorTypes \/ index >= lim(type) THEN stall_handshake(dv)
    ELSE Answer(dv, length, SubSeq(Descriptor(type, index), 1,
                                   Min({length, Descriptors[<<type, index>>]})))

\* Only configuration 0 can be set; the others are acknowledged all the same.
usb_device_controller_set_configuration(dv, config) ==
    IF config > 0 THEN dv ELSE [dv EXCEPT !.configuration = config]

handle_set_address(dv, value) == control_ack([dv EXCEPT !.next_addr = value])

handle_device_request(dv, q) ==
    CASE q.r \in {"class", "CLEAR_FEATURE", "SET_FEATURE"} -> control_ack(dv)
      [] q.r = "GET_STATUS"        -> Answer(dv, q.length, StatusWord)
      [] q.r = "SET_ADDRESS"       -> handle_set_address(dv, q.value)
      [] q.r = "GET_DESCRIPTOR"    -> handle_get_descriptor(dv, q.value, q.index, q.length)
      [] q.r = "GET_CONFIGURATION" -> Answer(dv, q.length, StatusByte(dv.configuration))
      [] q.r = "SET_CONFIGURATION" ->
            control_ack(usb_device_controller_set_configuration(dv, q.value))
      [] OTHER                     -> stall_handshake(dv)

handle_interface_request(dv, q) ==
    CASE q.r \in {"class", "GET_LINE_CODING", "SET_LINE_CODING", "GET_INTERFACE", "SET_INTERFACE"} ->
            [d |-> dv, ret |-> 1]
      [] q.r = "GET_STATUS" -> Answer(dv, q.length, StatusWord)
      [] q.r \in {"CLEAR_FEATURE", "SET_FEATURE"} -> control_ack(dv)
      [] OTHER -> stall_handshake(dv)

Halt(dv, q) ==
    IF q.index = 0 \/ q.value # 0 THEN dv
    ELSE [stall_ep(dv, q.index, q.r = "SET_FEATURE")
            EXCEPT !.status[q.index] = IF q.r = "SET_FEATURE" THEN 1 ELSE 0]
handle_endpoint_request(dv, q) ==
    CASE q.r = "class" -> [d |-> dv, ret |-> 1]
      [] q.r = "GET_STATUS" -> Answer(dv, q.length, StatusByte(dv.status[q.index]))
      [] q.r \in {"SET_FEATURE", "CLEAR_FEATURE"} -> control_ack(Halt(dv, q))
      [] OTHER -> stall_handshake(dv)

-----------------------------------------------------------------------------
(* drivers/usb-device-ep.c and drivers/usb-cdc-acm.c                       *)

usb_ep_open(dv, e) ==
    usb_device_ep_get([dv EXCEPT !.status[e] = 0, !.ep_users[e] = 0], e)
usb_ep_write(dv, e, bytes) ==
    controller_submit(dv, e, UNDETERMINED,
        TxBuf(IF bytes = <<>> THEN NULL ELSE Const(bytes), Len(bytes), FALSE))
EP_IOC_GET_RX_BUF(dv, e) ==
    IF dv.rx_cnt[e] = 0 THEN <<>>
    ELSE SubSeq(dv.mem[<<e, BufIndex(dv.rx_buf[e])>>], 1, dv.rx_cnt[e])

\* usb_uart_open: the control endpoint, the acm endpoint, and with
\* bathos_dev_open those of the data.
usb_uart_open(dv) ==
    usb_ep_open(usb_ep_open(usb_ep_open(usb_ep_open(dv, 0), ACM), RX), TX)

control_handle(dv, q) ==
    usb_ep_write(dv, 0, IF q.r = "GET_LINE_CODING" THEN LineCoding ELSE <<>>).d

\* Mutated form: the characters are pushed at the front.
data_handle_Front(dv) ==
    notify_read([dv EXCEPT !.cb = EP_IOC_GET_RX_BUF(dv, RX) \o @], RX, dv.rx_cnt[RX])
data_handle(dv) ==
    notify_read([dv EXCEPT !.cb = @ \o EP_IOC_GET_RX_BUF(dv, RX)], RX, dv.rx_cnt[RX])

\* __ep_out triggers the event of the endpoint's pipe, which is handled at once.
EpOut(dv, e, a, len) == [dv EXCEPT !.rx_buf[e] = a, !.rx_cnt[e] = len]
usb_device_ctrl_ep_setup(dv, q) == control_handle(dv, q)
usb_device_controller_out(dv, e, a, len) ==
    IF e = RX THEN data_handle(EpOut(dv, RX, a, len)) ELSE dv

\* A request that is not handled here goes to the protocol.
ToProtocol(x, q) ==
    IF x.ret = 0 THEN x.d ELSE usb_device_ctrl_ep_setup(x.d, q)
usb_device_controller_setup(dv, q) ==
    CASE q.rcp = "device"    -> handle_device_request(dv, q).d
      [] q.rcp = "interface" -> ToProtocol(handle_interface_request(dv, q), q)
      [] q.rcp = "endpoint"  -> handle_endpoint_request(dv, q).d
      [] OTHER               -> stall_handshake(dv).d

usb_device_controller_in(dv) ==
    IF dv.next_addr = 0 THEN dv ELSE [set_address(dv) EXCEPT !.next_addr = 0]

-----------------------------------------------------------------------------
(* usb_device_freescale_irq_handler                                        *)

\* (Contents that nobody will look at again are forgotten: of a receive buffer
\* that goes back to the controller, unless an answer was copied to it, and of
\* a descriptor that was sent.)
Armed(b) == [b EXCEPT !.own = TRUE, !.bc = EpSize, !.pid = "none"]
\* The descriptor of a packet to endpoint 0 goes back to the controller at once.
Rearm(dv) ==
    IF dv.stat # <<>> /\ Head(dv.stat)[1] = 0 /\ Head(dv.stat)[2] = 0
    THEN [dv EXCEPT !.bdt[Head(dv.stat)] = Armed(@)] ELSE dv

Forget(dv, t) ==
    IF t[2] = 1 \/ t[3] + 1 \in dv.busy[t[1]] THEN dv
    ELSE [dv EXCEPT !.mem[<<t[1], t[3] + 1>>] = <<>>]
TokenDone(dv, t, bd) ==
    CASE bd.pid = "setup" ->
            usb_device_controller_setup([dv EXCEPT !.tx_data0[0] = TRUE],
                                        dv.mem[<<0, BufIndex(bd.address)>>])
      [] bd.pid = "in" ->
            __update_tx_buf(usb_device_controller_in([dv EXCEPT !.bdt[t] = [NoBd(NULL) EXCEPT !.pid = "in"]]), t[1])
      [] bd.pid = "out" ->
            [usb_device_controller_out(dv, t[1], bd.address, bd.bc) EXCEPT !.bdt[t] = Armed(@)]
      [] OTHER -> dv

\* Writing ISTAT takes the oldest token out of STAT.
Popped(dv) == [dv EXCEPT !.stat = IF @ = <<>> THEN @ ELSE Tail(@)]
irq_handler(dv, rearmed) ==
    IF "reset" \in dv.istat THEN Popped(reset([rearmed EXCEPT !.istat = {}]))
    ELSE IF "stall" \in dv.istat THEN stall_ep([rearmed EXCEPT !.istat = @ \ {"stall"}], 0, FALSE)
    ELSE [Forget(TokenDone(Popped(rearmed), Head(dv.stat), dv.bdt[Head(dv.stat)]), Head(dv.stat))
            EXCEPT !.txsuspend = FALSE]

IrqPending == d.irq /\ (d.istat # {} \/ d.stat # <<>>)
IRQ_USBOTG ==
    /\ IrqPending
    /\ d' = irq_handler(d, Rearm(d))
    /\ UNCHANGED <<h, read>>

-----------------------------------------------------------------------------
(* The controller's side of a token                                        *)

Ready(e, tx) ==
    /\ <<e, tx>> \in d.enabled /\ e \notin d.epstall /\ ~d.txsuspend
    /\ d.bdt[<<e, tx, d.hw_odd[<<e, tx>>]>>].own
    /\ Len(d.stat) < Backlog
    /\ "reset" \notin d.istat

Done(e, tx, pid, bc) ==
    LET t == <<e, tx, d.hw_odd[<<e, tx>>]>>
    IN  [d EXCEPT !.bdt[t].own = FALSE, !.bdt[t].pid = pid, !.bdt[t].bc = bc,
                  !.hw_odd[<<e, tx>>] = 1 - @,
                  !.stat = Append(@, t)]
\* A packet is received into the buffer of the descriptor.
Received(e, pid, content, bc) ==
    LET i == d.hw_odd[<<e, 0>>] + 1
    IN  IF bc = 0 THEN Done(e, 0, pid, 0)
        ELSE [Done(e, 0, pid, bc) EXCEPT !.mem[<<e, i>>] = content]
\* What is sent from the address of the next descriptor.
SentBd(e) == d.bdt[<<e, 1, d.hw_odd[<<e, 1>>]>>]
Packet(e, bd) ==
    CASE bd.bc = 0 -> <<>>
      [] bd.address.at = "null"  -> << <<"garbage", 0, 0>> >>
      [] bd.address.at = "const" -> SubSeq(bd.address.data, bd.address.off + 1, bd.address.off + bd.bc)
      [] OTHER -> SubSeq(d.mem[<<e, BufIndex(bd.address)>>], bd.address.off + 1, bd.address.off + bd.bc)

-----------------------------------------------------------------------------
(* The host.  It ends a transfer, or resets the bus, before it starts      *)
(* another one.  It asks interfaces and endpoints only once the device has *)
(* an address, and addresses it only after a reset.                        *)

DefaultRequests ==
    {Req("device", "GET_DESCRIPTOR", x[1], x[2], l) :
        x \in (DOMAIN Descriptors) \cup {<<"string", lim("string")>>, <<"unknown", 0>>}, l \in Lengths}
    \cup {Req("device", "SET_ADDRESS", 1, 0, 0), BadReq("device"), BadReq("other")}
\* While the host also exchanges data it only looks after the endpoint.
EndpointRequests ==
    {Req("endpoint", r, 0, RX, 0) : r \in {"SET_FEATURE", "CLEAR_FEATURE"}}
    \cup {Req("endpoint", "GET_STATUS", 0, RX, 2)}
AddressedRequests ==
    {Req("device", "GET_DESCRIPTOR", "config", 0, l) : l \in Lengths}
    \cup {Req("device", "SET_CONFIGURATION", v, 0, 0) : v \in {0, 1}}
    \cup {Req("device", "GET_CONFIGURATION", 0, 0, 1), Req("device", "GET_STATUS", 0, 0, 2),
          Req("device", "class", 0, 0, 0), Req("device", "SET_FEATURE", 1, 0, 0)}
    \cup {Req("interface", "GET_LINE_CODING", 0, 0, 1), Req("interface", "SET_LINE_CODING", 0, 0, 1),
          Req("interface", "class", 0, 0, 0), Req("interface", "SET_FEATURE", 0, 0, 0), BadReq("interface")}
    \cup EndpointRequests \cup {BadReq("endpoint")}
Requests == IF h.addr = 0 THEN DefaultRequests
            ELSE IF h.bulk THEN EndpointRequests
            ELSE AddressedRequests

\* What a request is to be answered: the bytes, or a stall.
Stalls(q) == \/ q.r = "unknown"
             \/ q.r = "GET_DESCRIPTOR" /\ <<q.value, q.index>> \notin DOMAIN Descriptors
Expected(q) ==
    CASE q.r = "GET_DESCRIPTOR"    -> SubSeq(Descriptor(q.value, q.index), 1,
                                             Min({q.length, Descriptors[<<q.value, q.index>>]}))
      [] q.r = "GET_CONFIGURATION" -> StatusByte(0)
      [] q.r = "GET_LINE_CODING"   -> LineCoding
      [] q.r = "GET_STATUS"        -> IF q.rcp = "device" THEN StatusWord
                                      ELSE StatusByte(IF h.halted THEN 1 ELSE 0)
      [] OTHER                     -> <<>>
AsksData(q) == q.r \in {"GET_DESCRIPTOR", "GET_CONFIGURATION", "GET_LINE_CODING", "GET_STATUS"}

Host(halted, resets) ==
    [stage |-> "idle", req |-> NoReq, got |-> <<>>, data1 |-> TRUE,
     addr |-> 0, halted |-> halted, resets |-> resets,
     bulk |-> FALSE,     \* data has been exchanged
     sent |-> 0, asked |-> -1, in_data1 |-> FALSE,
     wrong |-> FALSE]    \* history: an answer was not what it should have been

UsbInit == d = FreshDevice /\ h = [Host(FALSE, 0) EXCEPT !.stage = "detached"] /\ read = 0

\* A task opens the usb-serial device, which pulls the line up.
ClientOpen ==
    /\ d.users = 0
    /\ d' = usb_uart_open(d)
    /\ UNCHANGED <<h, read>>

\* The bus is reset between two transfers, though their interrupts may still
\* be pending, but for those that set the address; and not any more once data
\* has been exchanged.  (The driver would keep the descriptor of an answer
\* that is cut short, the address to be set, and the place of the endpoints
\* other than 0 in their descriptors.)  Endpoints stay halted.  The host lets
\* the device recover, that is handle what is pending, before the next request.
HostReset ==
    /\ d.irq /\ h.resets < MaxResets
    /\ h.stage \in {"detached", "idle", "stalled"} /\ d.next_addr = 0
    /\ h' = [Host(h.halted, h.resets + 1) EXCEPT !.stage = "recovery", !.wrong = h.wrong]
    /\ d' = [d EXCEPT !.istat = @ \cup {"reset"}, !.txsuspend = FALSE]
    /\ UNCHANGED read

HostSetup ==
    /\ h.stage \in {"idle", "recovery"} /\ h.addr = d.addr /\ Ready(0, 0)
    /\ h.stage = "recovery" => d.stat = <<>>
    /\ \E q \in Requests :
          /\ h' = [h EXCEPT !.stage = IF q.r = "SET_LINE_CODING" THEN "out" ELSE "in",
                            !.req = q, !.got = <<>>, !.data1 = TRUE]
          /\ d' = [Received(0, "setup", q, 8) EXCEPT !.txsuspend = TRUE]
    /\ UNCHANGED read

\* The data of a request that has some, and the empty packet that ends one
\* that was answered with data.
HostOut ==
    /\ h.addr = d.addr /\ Ready(0, 0)
    /\ \/ /\ h.stage = "out"
          /\ h' = [h EXCEPT !.stage = "in"]
          /\ d' = Received(0, "out", LineCoding, 1)
       \/ /\ h.stage = "status"
          /\ h' = [h EXCEPT !.stage = "idle"]
          /\ d' = Received(0, "out", <<>>, 0)
    /\ UNCHANGED read

\* A packet with the wrong toggle is acknowledged and thrown away.
Over(bytes) == Len(bytes) < EpSize \/ Len(h.got) + EpSize >= h.req.length
Ended(got) ==
    [h EXCEPT !.stage = IF AsksData(h.req) THEN "status" ELSE "idle",
              !.req = NoReq, !.got = <<>>, !.data1 = TRUE,
              !.addr = IF h.req.r = "SET_ADDRESS" THEN h.req.value ELSE @,
              !.halted = IF h.req.rcp = "endpoint" /\ ~AsksData(h.req) THEN h.req.r = "SET_FEATURE" ELSE @,
              !.wrong = @ \/ Stalls(h.req) \/ got # Expected(h.req)]
Accepted(bytes) ==
    IF Over(bytes) THEN Ended(h.got \o bytes)
    ELSE [h EXCEPT !.got = @ \o bytes, !.data1 = ~@]
HostIn ==
    /\ h.stage = "in" /\ h.addr = d.addr /\ Ready(0, 1)
    /\ h' = IF SentBd(0).data1 = h.data1 THEN Accepted(Packet(0, SentBd(0))) ELSE h
    /\ d' = Done(0, 1, "in", SentBd(0).bc)
    /\ UNCHANGED read

\* Every token of a stalled endpoint is answered with a stall, a setup too.
HostStalled ==
    /\ h.stage \in {"in", "idle", "recovery"} /\ h.addr = d.addr /\ 0 \in d.epstall /\ "reset" \notin d.istat
    /\ h' = IF h.stage # "in" THEN h
            ELSE [h EXCEPT !.stage = "stalled", !.req = NoReq, !.wrong = @ \/ ~Stalls(h.req)]
    /\ d' = [d EXCEPT !.istat = @ \cup {"stall"}]
    /\ UNCHANGED read
HostGivesUp ==
    /\ h.stage = "stalled"
    /\ h' = [h EXCEPT !.stage = "idle"]
    /\ UNCHANGED <<d, read>>

\* A character for the client, the first of them between two requests; a
\* question waits for its reply before the next one is sent.
Waiting == Len(d.cb) + Cardinality({k \in DOMAIN d.stat : d.stat[k][1] = RX})
BulkOut ==
    /\ h.addr # 0 /\ h.addr = d.addr /\ Ready(RX, 0) /\ Waiting < Room
    /\ h.bulk \/ (h.stage = "idle" /\ d.stat = <<>>)
    /\ \E ask \in BOOLEAN :
          /\ ask => (h.asked = -1 /\ h.sent = 0)
          /\ d' = Received(RX, "out", << <<"char", h.sent, IF ask THEN 1 ELSE 0>> >>, 1)
          /\ h' = [h EXCEPT !.bulk = TRUE, !.resets = MaxResets,
                           !.sent = (@ + 1) % OutChars, !.asked = IF ask THEN h.sent ELSE @]
    /\ UNCHANGED read
Reply(n) == << <<"reply", n, 1>> >>
BulkIn ==
    /\ h.addr # 0 /\ h.addr = d.addr /\ Ready(TX, 1)
    /\ h' = IF SentBd(TX).data1 # h.in_data1 THEN h
            ELSE [h EXCEPT !.in_data1 = ~@, !.asked = -1,
                           !.wrong = @ \/ Packet(TX, SentBd(TX)) # Reply(h.asked)]
    /\ d' = Done(TX, 1, "in", SentBd(TX).bc)
    /\ UNCHANGED read

\* The client reads what there is and replies to a question.
Questions(s) == {k \in DOMAIN s : s[k][3] = 1}
ClientRead ==
    /\ d.cb # <<>>
    /\ read' = (read + Len(d.cb)) % OutChars
    /\ d' = [(IF Questions(d.cb) = {} THEN d
              ELSE usb_ep_write(d, TX, Reply(d.cb[Max(Questions(d.cb))][2])).d)
             EXCEPT !.cb = <<>>]
    /\ UNCHANGED h

UsbNext ==
    \/ ClientOpen \/ ClientRead \/ IRQ_USBOTG
    \/ HostReset \/ HostSetup \/ HostOut \/ HostIn \/ HostStalled \/ HostGivesUp
    \/ BulkOut \/ BulkIn

UsbSpec == UsbInit /\ [][UsbNext]_usbvars

-----------------------------------------------------------------------------
\* Once its interrupts are handled the device waits for what the host does
\* next: a request finds the endpoint ready, and where the host waits for a
\* packet there is one, or a stall.
DeviceReady ==
    d.users > 0 /\ h.resets > 0 /\ ~IrqPending =>
        /\ d.addr = h.addr
        /\ h.stage = "in" => Ready(0, 1) \/ 0 \in d.epstall
        /\ h.stage \in {"idle", "status", "out"} => Ready(0, 0) \/ 0 \in d.epstall
        /\ h.asked # -1 => d.cb # <<>> \/ Ready(TX, 1)

\* What the host reads in answer to a request is what the request asks for,
\* whole and in order, and the reply to a question of the host is that of the
\* client: however late the interrupts are handled and in whichever of the two
\* descriptors a packet is.  Only requests that are not supported are stalled,
\* and the device is ready for the next one.
AnswersRight == ~h.wrong /\ DeviceReady

InFlight == [k \in DOMAIN d.stat |->
    IF d.stat[k][1] = RX THEN d.mem[<<RX, d.stat[k][3] + 1>>] ELSE <<>>]

\* The client reads the characters that the host has sent, all of them and in
\* order, also while two packets wait in the descriptors.
SerialInOrder ==
    LET s == FlattenSeq(<<d.cb>> \o InFlight)
    IN  /\ \A k \in DOMAIN s : s[k][2] = (read + k - 1) % OutChars
        /\ (read + Len(s)) % OutChars = h.sent
=============================================================================
