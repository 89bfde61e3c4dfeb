------------------------------ MODULE CharDev ------------------------------
(***************************************************************************)
(* The receive path of a character device (drivers/dev.c): an interrupt    *)
(* handler pushes characters into the circular buffer of every pipe that   *)
(* is open on the device and triggers the pipes' input ready events; the   *)
(* handlers of those events, in thread context, read the pipes.            *)
(***************************************************************************)
EXTENDS CircBuf, FiniteSets, Sequences, Functions, FiniteSetsExt

CONSTANTS
    NPipes,     \* the pipes of dev->pipes are 1 .. NPipes, in list order
    Size,       \* d.cb.size
    NChars,     \* how many characters can be told apart
    MaxPush,    \* bound: the longest buffer a driver pushes
    MaxRead,    \* bound: the longest buffer a client reads into
    OnlyIfRoom, \* whether drivers push only what fits into every pipe
    Hwms,       \* the values of the rx high watermark
    QueueSize   \* how many events the event queue can hold

Pipes == 1 .. NPipes
Slots == 0 .. Size - 1
Chars == 0 .. NChars - 1

ASSUME CharDevAssumption ==
    /\ NPipes \in Nat \ {0} /\ Size \in Nat \ {0} /\ NChars \in Nat \ {0}
    /\ MaxPush \in Nat \ {0} /\ MaxRead \in Nat \ {0}
    /\ Hwms \subseteq Nat /\ 0 \in Hwms
    /\ QueueSize \in Nat \ {0} /\ OnlyIfRoom \in BOOLEAN

VARIABLES
    head, tail, buf,  \* d.cb of each pipe's dev_data
    rx_hwm,
    q,                \* the event queue: the pipes whose input is ready
    pc, rbuf,         \* where bathos_dev_read is, and what it has copied
    char,             \* the next character to arrive
    overrun,          \* history: a push has written past the end of buf
    fifo,             \* history: what each pipe has accepted and not yet read
    excused           \* history: pipes whose last event was not triggered
                      \* because the queue was full, or whose watermark was
                      \* lowered below what they hold

cb   == <<head, tail, buf>>
vars == <<cb, rx_hwm, q, pc, rbuf, char, overrun, fifo, excused>>

CNT(p) == CIRC_CNT(head[p], tail[p], Size)

-----------------------------------------------------------------------------
Init ==
    /\ head = [p \in Pipes |-> 0] /\ tail = [p \in Pipes |-> 0]
    /\ buf = [p \in Pipes |-> [s \in Slots |-> 0]]
    /\ rx_hwm = [p \in Pipes |-> 0]
    /\ q = <<>>
    /\ pc = "loop" /\ rbuf = <<>>
    /\ char = 0
    /\ overrun = FALSE
    /\ fifo = [p \in Pipes |-> <<>>]
    /\ excused = {}

\* The queue after n calls of pipe_dev_trigger_event(dev, pipe_input_ready):
\* each triggers the events of all the pipes, in list order, while there is
\* room; and the pipes that none of these events is for.
Wanted(n) == [k \in 1 .. n * NPipes |-> ((k - 1) % NPipes) + 1]
Got(n)    == SubSeq(Wanted(n), 1, Min({Len(Wanted(n)), QueueSize - Len(q)}))
TriggerAll(n) ==
    /\ q' = q \o Got(n)
    /\ excused' = IF n = 0 THEN excused
                  ELSE Pipes \ Range(Got(n))

-----------------------------------------------------------------------------
(* The driver's interrupt handler                                          *)

\* _bathos_pipe_push_chars on pipe p copies up to the end of the buffer, and
\* then the rest from its start.  The room is computed before the first copy.
FirstPart(p, len) ==
    Min({len, CIRC_SPACE_TO_END(head[p], tail[p], Size)})
SecondPart(p, len) ==
    LET l == FirstPart(p, len)
    IN  IF l = 0 THEN 0
        ELSE Min({len - l, CIRC_SPACE(head[p], tail[p], Size)})
Copied(p, len) == FirstPart(p, len) + SecondPart(p, len)

Full(p) == CIRC_SPACE(head[p], tail[p], Size) = 0

\* Where character k of len is written; slot Size and up are not the buffer's.
Place(p, len, k) ==
    LET l == FirstPart(p, len)
    IN  IF k <= l THEN head[p] + k - 1 ELSE ((head[p] + l) % Size) + k - l - 1

\* Mutated form: the second part is copied from the start of b.
CopyNoAdvance(p, b) ==
    [s \in Slots |->
        LET here == {k \in 1 .. Copied(p, Len(b)) : Place(p, Len(b), k) = s}
            k    == Max(here)
            l    == FirstPart(p, Len(b))
        IN  IF here = {} THEN buf[p][s] ELSE b[IF k > l THEN k - l ELSE k]]

\* The buffer after b has been copied into it.
Copy(p, b) ==
    [s \in Slots |->
        LET here == {k \in 1 .. Copied(p, Len(b)) : Place(p, Len(b), k) = s}
        IN  IF here = {} THEN buf[p][s] ELSE b[Max(here)]]

\* bathos_dev_push_chars: the pipes one after the other, until one is full.
Reached == {p \in Pipes : \A o \in 1 .. p : ~Full(o)}

Above(p, n) == CIRC_CNT((head[p] + n) % Size, tail[p], Size) > rx_hwm[p]

Push(b) ==
    LET n == [p \in Pipes |-> IF p \in Reached THEN Copied(p, Len(b)) ELSE 0]
    IN  /\ buf' = [p \in Pipes |-> IF p \in Reached THEN Copy(p, b) ELSE buf[p]]
        /\ head' = [p \in Pipes |-> (head[p] + n[p]) % Size]
        /\ fifo' = [p \in Pipes |-> fifo[p] \o SubSeq(b, 1, n[p])]
        /\ overrun' = (overrun \/ \E p \in Reached : \E k \in 1 .. n[p] :
                                      Place(p, Len(b), k) >= Size)
        /\ TriggerAll(Cardinality({p \in Reached : Above(p, n[p])}))
        /\ UNCHANGED <<tail, rx_hwm, pc, rbuf>>

\* The code never looks at a character, so that it is enough to number them:
\* a buffer holds the next ones that arrive.  Once a push has overrun the
\* buffer anything may happen.
IrqHandler ==
    /\ ~overrun
    /\ \E len \in 1 .. MaxPush :
          /\ OnlyIfRoom => \A p \in Pipes :
                Full(p) \/ len <= CIRC_SPACE(head[p], tail[p], Size)
          /\ Push([k \in 1 .. len |-> (char + k - 1) % NChars])
          /\ char' = (char + len) % NChars

-----------------------------------------------------------------------------
(* The client: an event's handler reads the event's pipe once              *)

\* bathos_dev_read(pipe, buf, len) computes l and copies ...
CopyUpTo(len) ==
    /\ pc = "loop" /\ q # <<>>
    /\ LET p == Head(q)
       IN  rbuf' = [k \in 1 .. Min({len, CIRC_CNT_TO_END(head[p], tail[p], Size)})
                      |-> buf[p][tail[p] + k - 1]]
    /\ IF rbuf' = <<>> THEN pc' = "loop" /\ q' = Tail(q)     \* -EAGAIN
       ELSE pc' = "copied" /\ UNCHANGED q
    /\ UNCHANGED <<cb, rx_hwm, char, overrun, fifo, excused>>

ReadCopy == \E len \in 1 .. MaxRead : CopyUpTo(len)

\* ... then moves tail, ...
ReadTail ==
    /\ pc = "copied"
    /\ LET p == Head(q)
       IN  /\ tail' = [tail EXCEPT ![p] = (@ + Len(rbuf)) % Size]
           /\ fifo' = [fifo EXCEPT ![p] = SubSeq(@, Len(rbuf) + 1, Len(@))]
    /\ pc' = "moved"
    /\ UNCHANGED <<head, buf, rx_hwm, q, rbuf, char, overrun, excused>>

\* Mutated form: the events are not triggered again.
ReadTriggerNever ==
    /\ pc = "moved"
    /\ TriggerAll(0)
    /\ pc' = "return"
    /\ rbuf' = <<>>
    /\ UNCHANGED <<cb, rx_hwm, char, overrun, fifo>>

\* ... triggers the events again if there is more to read ...
ReadTrigger ==
    /\ pc = "moved"
    /\ TriggerAll(IF CNT(Head(q)) > 0 THEN 1 ELSE 0)
    /\ pc' = "return"
    /\ rbuf' = <<>>
    /\ UNCHANGED <<cb, rx_hwm, char, overrun, fifo>>

\* ... and the handler returns.
ReadReturn ==
    /\ pc = "return"
    /\ q' = Tail(q)
    /\ pc' = "loop"
    /\ UNCHANGED <<cb, rx_hwm, rbuf, char, overrun, fifo, excused>>

\* DEV_IOC_RX_SET_HIGH_WATERMARK, from some handler.
SetHwm ==
    /\ pc = "loop"
    /\ \E p \in Pipes, k \in Hwms :
          /\ rx_hwm' = [rx_hwm EXCEPT ![p] = k]
          /\ excused' = IF k < rx_hwm[p] /\ k < CNT(p)
                        THEN excused \cup {p} ELSE excused
    /\ UNCHANGED <<cb, q, pc, rbuf, char, overrun, fifo>>

Read == ReadCopy \/ ReadTail \/ ReadTrigger \/ ReadReturn

Next == IrqHandler \/ Read \/ SetHwm

Spec == Init /\ [][Next]_vars

-----------------------------------------------------------------------------
TypeOK ==
    /\ head \in [Pipes -> Slots] /\ tail \in [Pipes -> Slots]
    /\ buf \in [Pipes -> [Slots -> Chars]]
    /\ rx_hwm \in [Pipes -> Hwms]
    /\ q \in Seq(Pipes) /\ Len(q) <= QueueSize
    /\ pc \in {"loop", "copied", "moved", "return"}
    /\ rbuf \in Seq(Chars) /\ Len(rbuf) < Size
    /\ char \in Chars
    /\ overrun \in BOOLEAN
    /\ fifo \in [Pipes -> Seq(Chars)]
    /\ excused \subseteq Pipes

\* What a read has copied is what it then removes, the oldest characters of
\* the pipe, although a push may come between its steps.
ReadsInOrder ==
    pc = "copied" =>
        /\ Len(rbuf) \in 1 .. Len(fifo[Head(q)])
        /\ rbuf = SubSeq(fifo[Head(q)], 1, Len(rbuf))

\* Between tail and head every pipe's buffer holds what was accepted for the
\* pipe and not read yet, in order: the one slot that is left free keeps a
\* writer from overtaking the reader, even when it interrupts a read, and no
\* push writes past the end of a buffer; and what is read is what was pushed.
BufferIsFifo ==
    /\ ~overrun
    /\ \A p \in Pipes :
        /\ CNT(p) = Len(fifo[p])
        /\ \A k \in DOMAIN fifo[p] : buf[p][(tail[p] + k - 1) % Size] = fifo[p][k]
    /\ ReadsInOrder

\* A pipe with more characters than its watermark has an event in the queue,
\* or is being read, unless the queue had no room for the event or the
\* watermark was lowered: no interleaving of a push with a read forgets it.
NoStall ==
    \A p \in Pipes :
        CNT(p) > rx_hwm[p] => p \in Range(q) \/ p \in excused
=============================================================================
