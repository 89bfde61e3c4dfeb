-------------------------------- MODULE I2c --------------------------------
(***************************************************************************)
(* The bit banging i2c controller, an mcuio function                       *)
(* (mcuio/mcuio_bitbang_i2c_func.c), with the way its interrupts take      *)
(* (mcuio/mcuio_irq_controller_msg.c, mcuio/task-mcuio.c) and the host.    *)
(*                                                                         *)
(* The host's requests, the steps of a transaction and the interrupts are  *)
(* all events of one queue, handled one after the other.  The handler of   *)
(* I2C_GO runs until the transaction ends or has to wait for the host; it  *)
(* is made of several steps here (going), but nothing comes between them.  *)
(* One buffer is shared by the output (obuf) and the input (ibuf).         *)
(***************************************************************************)
EXTENDS CircBuf, Sequences, FiniteSetsExt

CONSTANTS
    Size,       \* sizeof(i2c_data.buffer)
    Burst,      \* sizeof(uint64_t): the size of an access with fill
    Outs, Ins,  \* the sizes of a transaction's output and input
    MaxTransactions, \* bound: how many transactions the host asks for
    MaxPolls,   \* bound: how often the host reads the status unasked, in each
                \* transaction
    QueueSize   \* how many events the event queue can hold

ASSUME I2cAssumption ==
    /\ Size \in Nat \ {0} /\ Burst \in 1 .. Size - 1
    /\ Outs \subseteq Nat /\ Ins \subseteq Nat /\ MaxTransactions \in Nat /\ MaxPolls \in Nat
    /\ QueueSize \in Nat \ {0}

Slots == 0 .. Size - 1
OBUF_HIGH_WATERMARK == ((Size - 1) \div Burst) * Burst
IBUF_HI_WATERMARK   == ((Size - 1) \div Burst) * Burst

VARIABLES
    state, status,            \* i2c_data
    obuf_len, ibuf_len, data_cnt,
    buffer, obuf_head, obuf_tail, ibuf_head, ibuf_tail,
    going,                    \* the handler of I2C_GO is in its loop
    q,                        \* the event queue
    req,                      \* the request the host awaits the reply of
    host,                     \* the host, see below
    result,                   \* history: a result the host has not been told
    tainted                   \* history: obuf may hold bytes of an earlier
                              \* transaction that failed

xfer == <<obuf_len, ibuf_len>>
obuf == <<obuf_head, obuf_tail>>
ibuf == <<ibuf_head, ibuf_tail>>
hist == <<result, tainted>>
vars == <<state, status, xfer, data_cnt, buffer, obuf, ibuf, going, q, req, host, hist>>

\* The bytes of transaction host.t.
HostByte(k)  == 10 * host.t + k
SlaveByte(k) == 100 + 10 * host.t + k
Excess       == 99
NoReq        == <<"none">>

\* trigger_event; nobody here acts on its result.
Trigger(queue, e) == IF Len(queue) < QueueSize THEN Append(queue, e) ELSE queue

Init ==
    /\ state = "IDLE" /\ status = 0
    /\ obuf_len = 0 /\ ibuf_len = 0 /\ data_cnt = 0
    /\ buffer = [s \in Slots |-> 0]
    /\ obuf_head = 0 /\ obuf_tail = 0 /\ ibuf_head = 0 /\ ibuf_tail = 0
    /\ going = FALSE
    /\ q = <<>> /\ req = NoReq
    /\ host = [phase |-> "idle", t |-> 0, ol |-> 0, il |-> 0, wrote |-> 0,
               quota |-> 0, got |-> 0, avail |-> 0, irq |-> FALSE, polls |-> 0]
    /\ result = 0 /\ tainted = FALSE

OCnt == CIRC_CNT(obuf_head, obuf_tail, Size)
ICnt == CIRC_CNT(ibuf_head, ibuf_tail, Size)

-----------------------------------------------------------------------------
(* The states of a transaction: __i2c_handle_go                            *)

TRANSACTION_OK     == 1
OBUF_LO_WM_REACHED == 2
IBUF_HI_WM_REACHED == 4
NAK_RECEIVED       == 128

\* __i2c_bitbang_next_state leaves the loop to wait for the host.
Waits == {"AWAITING_OUTPUT_DATA", "AWAITING_INPUT_SPACE"}
NextState(s) == state' = s /\ going' = (s \notin Waits)

\* __i2c_bitbang_end_transaction
EndTransaction(s) ==
    /\ status' = s
    /\ state' = IF s = TRANSACTION_OK THEN "IDLE" ELSE "ERROR"
    /\ going' = FALSE
    /\ q' = Trigger(q, "irq")
    /\ result' = s
    /\ tainted' = (tainted \/ s = NAK_RECEIVED)

Going(s) == going /\ state = s

\* What sending a byte, or the slave's address, returns: the slave
\* acknowledges it, or does not, or holds the clock for too long.
send_byte       == {0, -1}
send_slave_addr == send_byte

\* What receiving a byte gives; a timeout is not noticed.
recv_byte == SlaveByte(data_cnt + 1)

GoIdle ==
    /\ Going("IDLE")
    /\ NextState("START_SENT")
    /\ UNCHANGED <<status, xfer, data_cnt, buffer, obuf, ibuf, q, req, host, hist>>

GoAddress ==
    /\ Going("START_SENT") \/ Going("REPEATED_START_SENT")
    /\ \E stat \in send_slave_addr :
          \/ /\ stat = 0
             /\ NextState(IF state = "START_SENT" THEN "ADDR_SENT" ELSE "ADDR_SENT_2")
             /\ UNCHANGED <<status, q, hist>>
          \/ stat < 0 /\ EndTransaction(NAK_RECEIVED)
    /\ UNCHANGED <<xfer, data_cnt, buffer, obuf, ibuf, req, host>>

GoAddrSent ==
    /\ Going("ADDR_SENT")
    /\ IF obuf_len = 0 THEN NextState("DATA_SENT") /\ UNCHANGED data_cnt
       ELSE NextState("SENDING_DATA") /\ data_cnt' = 0
    /\ UNCHANGED <<status, xfer, buffer, obuf, ibuf, q, req, host, hist>>

\* A byte is sent and the slave does not acknowledge it.
GoSendNak ==
    /\ Going("SENDING_DATA")
    /\ \E stat \in send_byte : stat < 0
    /\ obuf_tail' = obuf_head
    /\ EndTransaction(NAK_RECEIVED)
    /\ UNCHANGED <<xfer, data_cnt, buffer, obuf_head, ibuf, req, host>>

\* Mutated form: the bytes in excess stay in obuf.
GoSendKeepsExcess ==
    /\ Going("SENDING_DATA")
    /\ data_cnt' = data_cnt + 1
    /\ obuf_tail' = CIRC_INC(obuf_tail, Size)
    /\ LET count == CIRC_CNT(obuf_head, obuf_tail', Size)
           done  == data_cnt' = obuf_len
           low   == ~done /\ count = 0
       IN  /\ NextState(IF done THEN "DATA_SENT"
                        ELSE IF low THEN "AWAITING_OUTPUT_DATA" ELSE "SENDING_DATA")
           /\ status' = IF low THEN OBUF_LO_WM_REACHED ELSE status
           /\ q' = IF low THEN Trigger(q, "irq") ELSE q
    /\ UNCHANGED <<xfer, buffer, obuf_head, ibuf, req, host, hist>>

\* A byte is sent; the host is asked for more when obuf is empty.
GoSend ==
    /\ Going("SENDING_DATA")
    /\ 0 \in send_byte
    /\ data_cnt' = data_cnt + 1
    /\ LET done  == data_cnt' = obuf_len
           next  == CIRC_INC(obuf_tail, Size)
           count == CIRC_CNT(obuf_head, next, Size)
           low   == ~done /\ count = 0
       IN  /\ obuf_tail' = IF done THEN obuf_head ELSE next
           /\ NextState(IF done THEN "DATA_SENT"
                        ELSE IF low THEN "AWAITING_OUTPUT_DATA" ELSE "SENDING_DATA")
           /\ status' = IF low THEN OBUF_LO_WM_REACHED ELSE status
           /\ q' = IF low THEN Trigger(q, "irq") ELSE q
    /\ UNCHANGED <<xfer, buffer, obuf_head, ibuf, req, host, hist>>

GoDataSent ==
    /\ Going("DATA_SENT")
    /\ IF ibuf_len = 0
       THEN EndTransaction(TRANSACTION_OK) /\ UNCHANGED data_cnt
       ELSE /\ NextState(IF obuf_len = 0 THEN "RECEIVING_DATA" ELSE "REPEATED_START_SENT")
            /\ data_cnt' = 0
            /\ UNCHANGED <<status, q, hist>>
    /\ UNCHANGED <<xfer, buffer, obuf, ibuf, req, host>>

GoAddrSent2 ==
    /\ Going("ADDR_SENT_2")
    /\ NextState("RECEIVING_DATA")
    /\ data_cnt' = 0
    /\ UNCHANGED <<status, xfer, buffer, obuf, ibuf, q, req, host, hist>>

\* A byte is received, whether the slave sends it in time or not.
GoReceive ==
    /\ Going("RECEIVING_DATA")
    /\ buffer' = [buffer EXCEPT ![ibuf_head] = recv_byte]
    /\ ibuf_head' = CIRC_INC(ibuf_head, Size)
    /\ data_cnt' = data_cnt + 1
    /\ LET done  == data_cnt' = ibuf_len
           space == CIRC_SPACE(ibuf_head', ibuf_tail, Size)
           high  == ~done /\ space = IBUF_HI_WATERMARK
       IN  /\ NextState(IF done THEN "DATA_RECEIVED"
                        ELSE IF space > 0 THEN "RECEIVING_DATA" ELSE "AWAITING_INPUT_SPACE")
           /\ status' = IF high THEN IBUF_HI_WM_REACHED ELSE status
           /\ q' = IF high THEN Trigger(q, "irq") ELSE q
    /\ UNCHANGED <<xfer, obuf, ibuf_tail, req, host, hist>>

GoDataReceived ==
    /\ Going("DATA_RECEIVED")
    /\ EndTransaction(TRANSACTION_OK)
    /\ UNCHANGED <<xfer, data_cnt, buffer, obuf, ibuf, req, host>>

HandleGo == \/ GoIdle \/ GoAddress \/ GoAddrSent \/ GoSendNak \/ GoSend
            \/ GoDataSent \/ GoAddrSent2 \/ GoReceive \/ GoDataReceived

-----------------------------------------------------------------------------
(* The events                                                              *)

At(e) == ~going /\ q # <<>> /\ Head(q) = e

\* __i2c_bitbang_do_transaction, I2C_GO: some states ignore it.
Go ==
    /\ At("go")
    /\ q' = Tail(q)
    /\ going' = (state \notin Waits \cup {"ERROR"})
    /\ UNCHANGED <<state, status, xfer, data_cnt, buffer, obuf, ibuf, req, host, hist>>

\* I2C_RESET: __i2c_handle_reset
Reset ==
    /\ At("reset")
    /\ q' = Tail(q)
    /\ status' = 0 /\ state' = "IDLE"
    /\ UNCHANGED <<xfer, data_cnt, buffer, obuf, ibuf, going, req, host, hist>>

\* mcuio_irq_handle, for an interrupt that is active ("irq") or not.
Irq ==
    /\ At("irq") \/ At("noirq")
    /\ q' = IF Head(q) = "irq" THEN Trigger(Tail(q), "request") ELSE Tail(q)
    /\ UNCHANGED <<state, status, xfer, data_cnt, buffer, obuf, ibuf, going, req, host, hist>>

\* mcuio_function_request_handle sends the interrupt controller's message.
FunctionRequest ==
    /\ At("request")
    /\ q' = Tail(q)
    /\ host' = [host EXCEPT !.irq = TRUE]
    /\ UNCHANGED <<state, status, xfer, data_cnt, buffer, obuf, ibuf, going, req, hist>>

-----------------------------------------------------------------------------
(* The host's requests (the event "req" is mcuio_data_ready)               *)

\* A write of XFER_DATA.  What a transaction that was not acknowledged leaves
\* in obuf is sent by the next one.
XferData ==
    /\ At("req") /\ req[1] = "xfer"
    /\ obuf_len' = host.ol /\ ibuf_len' = host.il
    /\ tainted' = (tainted /\ OCnt > 0)
    /\ q' = Tail(q) /\ req' = NoReq
    /\ UNCHANGED <<state, status, data_cnt, buffer, obuf, ibuf, going, host, result>>

\* A write of CMD with START_TRANSACTION.
StartTransaction ==
    /\ At("req") /\ req[1] = "start"
    /\ q' = Trigger(Tail(q), "go") /\ req' = NoReq
    /\ UNCHANGED <<state, status, xfer, data_cnt, buffer, obuf, ibuf, going, host, hist>>

\* The host after it was told status s, with count bytes of input.
HostTold(s, count) ==
    [host EXCEPT
        !.phase = CASE s = TRANSACTION_OK     -> IF host.got = host.il THEN "idle" ELSE "draining"
                    [] s = NAK_RECEIVED       -> "idle"
                    [] s = OBUF_LO_WM_REACHED -> IF host.wrote < host.ol THEN "feeding" ELSE "running"
                    [] s = IBUF_HI_WM_REACHED -> "reading"
                    [] s = 0                  -> "running",
        !.quota = OBUF_HIGH_WATERMARK,
        !.avail = Min({count, host.il - host.got})]

\* A read of STATUS: i2c_bitbang_registers_rddw.
ReadStatus ==
    /\ At("req") /\ req[1] = "status"
    /\ LET ended == state \notin Waits \cup {"SENDING_DATA", "RECEIVING_DATA"}
       IN  q' = IF status = 0 THEN Tail(q)
                ELSE IF ended THEN Trigger(Trigger(Tail(q), "noirq"), "reset")
                ELSE Trigger(Tail(q), "noirq")
    /\ host' = HostTold(status, ICnt)
    /\ result' = 0
    /\ req' = NoReq
    /\ UNCHANGED <<state, status, xfer, data_cnt, buffer, obuf, ibuf, going, tainted>>

\* Mutated form: more bytes than needed are waited for.
Enough_OneMore(have, togo) == have > Min({togo, OBUF_HIGH_WATERMARK})

\* Whether obuf holds enough to go on.
Enough(have, togo) == have >= Min({togo, OBUF_HIGH_WATERMARK})

\* A write of n bytes to obuf that have room (the host sees to it):
\* i2c_bitbang_obuf_wrb.  The last access may be longer than the data.
WriteObuf ==
    /\ At("req") /\ req[1] = "write"
    /\ LET n    == req[2]
           byte(k) == IF host.wrote + k <= host.ol THEN HostByte(host.wrote + k) ELSE Excess
           head == (obuf_head + n) % Size
           resume == /\ state = "AWAITING_OUTPUT_DATA"
                     /\ Enough(CIRC_CNT(head, obuf_tail, Size), obuf_len - data_cnt)
       IN  /\ n <= CIRC_SPACE(obuf_head, obuf_tail, Size)
           /\ buffer' = [s \in Slots |->
                            IF (s - obuf_head) % Size < n
                            THEN byte(((s - obuf_head) % Size) + 1) ELSE buffer[s]]
           /\ obuf_head' = head
           /\ state' = IF resume THEN "SENDING_DATA" ELSE state
           /\ q' = IF resume THEN Trigger(Tail(q), "go") ELSE Tail(q)
           /\ host' = [host EXCEPT
                          !.wrote = Min({@ + n, host.ol}), !.quota = @ - n,
                          !.phase = IF @ = "feeding" /\ (host.wrote + n >= host.ol \/ host.quota = n)
                                    THEN "running" ELSE @]
    /\ req' = NoReq
    /\ UNCHANGED <<status, xfer, data_cnt, obuf_tail, ibuf, going, hist>>

\* ... and -EINVAL when there is no room: the host gives up.
WriteObufFull ==
    /\ At("req") /\ req[1] = "write"
    /\ req[2] > CIRC_SPACE(obuf_head, obuf_tail, Size)
    /\ q' = Tail(q) /\ req' = NoReq
    /\ host' = [host EXCEPT !.phase = "idle"]
    /\ tainted' = TRUE
    /\ UNCHANGED <<state, status, xfer, data_cnt, buffer, obuf, ibuf, going, result>>

\* A read of n bytes of ibuf, of which it has that many:
\* i2c_bitbang_ibuf_rdb.
ReadIbuf ==
    /\ At("req") /\ req[1] = "read"
    /\ LET n == req[2]
           resume == state = "AWAITING_INPUT_SPACE"
       IN  /\ n <= ICnt
           /\ ibuf_tail' = (ibuf_tail + n) % Size
           /\ state' = IF resume THEN "RECEIVING_DATA" ELSE state
           /\ q' = IF resume THEN Trigger(Tail(q), "go") ELSE Tail(q)
           /\ host' = [host EXCEPT !.got = @ + n, !.avail = @ - n,
                          !.phase = IF @ = "draining" /\ host.got + n = host.il
                                    THEN "idle" ELSE @]
    /\ req' = NoReq
    /\ UNCHANGED <<status, xfer, data_cnt, buffer, obuf, ibuf_head, going, hist>>

Handle == \/ HandleGo \/ Go \/ Reset \/ Irq \/ FunctionRequest
          \/ XferData \/ StartTransaction \/ ReadStatus
          \/ WriteObuf \/ WriteObufFull \/ ReadIbuf

-----------------------------------------------------------------------------
(* The host: it sends one request at a time, fills obuf before it starts a *)
(* transaction and whenever it is asked to, and reads all the input.       *)
(*    host.phase           what it is doing                                *)
(*    host.t, ol, il       the transaction's number, output and input size *)
(*    host.wrote, got      how much of them it has written and read        *)
(*    host.quota, avail    how much it may write and read now              *)
(*    host.irq             an interrupt it has not attended to             *)

Ask(r, h) ==
    /\ req = NoReq /\ Len(q) < QueueSize
    /\ req' = r /\ host' = h
    /\ q' = Append(q, "req")
    /\ UNCHANGED <<state, status, xfer, data_cnt, buffer, obuf, ibuf, going, hist>>

HostXfer ==
    /\ host.phase = "idle" /\ host.t < MaxTransactions
    /\ \E ol \in Outs, il \in Ins :
          Ask(<<"xfer">>,
              [host EXCEPT !.phase = "filling", !.t = @ + 1, !.ol = ol, !.il = il,
                           !.wrote = 0, !.got = 0, !.quota = OBUF_HIGH_WATERMARK,
                           !.avail = 0, !.polls = 0])

HostWrite ==
    /\ host.phase \in {"filling", "feeding"}
    /\ host.wrote < host.ol
    /\ \E n \in {1, Burst} : n <= host.quota /\ Ask(<<"write", n>>, host)

HostStart ==
    /\ host.phase = "filling"
    /\ host.ol = 0 \/ host.wrote > 0
    /\ Ask(<<"start">>, [host EXCEPT !.phase = "running"])

HostReadsStatus ==
    /\ \/ host.phase = "running" /\ host.irq
       \/ host.phase = "reading" /\ host.avail = 0
    /\ Ask(<<"status">>, [host EXCEPT !.irq = FALSE])

HostPolls ==
    /\ host.phase = "running" /\ host.polls < MaxPolls
    /\ Ask(<<"status">>, [host EXCEPT !.polls = @ + 1])

HostReads ==
    /\ host.phase \in {"reading", "draining"}
    /\ LET left == IF host.phase = "reading" THEN host.avail ELSE host.il - host.got
       IN  \E n \in {1, Burst} : n <= left /\ Ask(<<"read", n>>, host)

Host == HostXfer \/ HostWrite \/ HostStart \/ HostReadsStatus \/ HostReads

Next == Handle \/ Host \/ HostPolls

Spec == Init /\ [][Next]_vars

\* Main handles the events, and the host goes on.
FairSpec == Spec /\ WF_vars(Handle) /\ WF_vars(Host)

-----------------------------------------------------------------------------
Events == {"go", "reset", "irq", "noirq", "request", "req"}

TypeOK ==
    /\ state \in {"IDLE", "START_SENT", "ADDR_SENT", "SENDING_DATA", "DATA_SENT",
                  "REPEATED_START_SENT", "ADDR_SENT_2", "RECEIVING_DATA",
                  "DATA_RECEIVED", "ERROR"} \cup Waits
    /\ status \in {0, TRANSACTION_OK, OBUF_LO_WM_REACHED, IBUF_HI_WM_REACHED, NAK_RECEIVED}
    /\ obuf_len \in Outs \cup {0} /\ ibuf_len \in Ins \cup {0}
    /\ data_cnt \in 0 .. Max({obuf_len, ibuf_len} \cup Outs \cup Ins)
    /\ buffer \in [Slots -> Nat]
    /\ {obuf_head, obuf_tail, ibuf_head, ibuf_tail} \subseteq Slots
    /\ going \in BOOLEAN
    /\ q \in Seq(Events) /\ Len(q) <= QueueSize
    /\ (req = NoReq) = ("req" \notin {q[k] : k \in DOMAIN q})
    /\ result \in {0, TRANSACTION_OK, NAK_RECEIVED}
    /\ tainted \in BOOLEAN

\* A transaction sends the bytes that the host wrote for it, in order, each
\* when it is there, however the host's writes and the refills interleave
\* (unless an earlier transaction that was not acknowledged left some).
OwnBytesSent ==
    Going("SENDING_DATA") /\ ~tainted =>
        OCnt > 0 /\ buffer[obuf_tail] = HostByte(data_cnt + 1)

\* ibuf holds what the slave sent and the host has not read, in order,
\* although obuf shares its memory (unless obuf holds bytes of an earlier
\* transaction, as before).
InputInOrder ==
    ~tainted => \A k \in 1 .. ICnt :
        buffer[(ibuf_tail + k - 1) % Size] = SlaveByte(host.got + k)

\* TRANSACTION_OK means that all the output was sent and all the input is
\* there for the host to read, and it stays in the status register until the
\* host has read it.
ResultTrue ==
    result = TRANSACTION_OK /\ ~tainted =>
        /\ status = result
        /\ host.wrote = host.ol /\ OCnt = 0
        /\ host.got + ICnt = host.il

\* No byte is lost, repeated or taken for another one on its way between the
\* host and the slave, and a transaction that says so has been done in full
\* (send_data, read_data, the status register).
BytesInOrder == OwnBytesSent /\ InputInOrder /\ ResultTrue

\* Every transaction that is started ends, and the host is told.
TransactionsEnd == (host.phase = "running") ~> (host.phase = "idle")
=============================================================================
