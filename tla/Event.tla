------------------------------- MODULE Event -------------------------------
(***************************************************************************)
(* The event core of bathos: lib/event.c, and the loop of main.c that      *)
(* drives it.  One core runs one main context (bathos_loop, which runs     *)
(* every event handler to completion) and interrupt service routines that  *)
(* preempt it.  No port nests interrupts, so an ISR runs to its end before *)
(* main goes on: `isr' is the one that is running, or NoIrq.               *)
(*                                                                         *)
(* Two kinds of events exist.  Regular events are queued by trigger_event  *)
(* in the circular buffer pe_buffer, from main or from an ISR.  Interrupt  *)
(* events are one bit per irq: trigger_interrupt_event runs the low level  *)
(* handler in the ISR, masks the irq and sets the bit; the main loop runs  *)
(* the high level handler, clears the bit and unmasks the irq.             *)
(***************************************************************************)
EXTENDS CircBuf

CONSTANTS
    NEvts,         \* pe_buffer_nevts, the size of the circular buffer
    Events,        \* the (event, data) pairs trigger_event is called with
    NrHandlers,    \* how many handlers are linked in for each of them
    TickEvent,     \* the pair (hw_timer_tick, NULL)
    NrInterrupts,  \* CONFIG_NR_INTERRUPTS
    BitsPerLong,   \* BITS_PER_LONG, the bits of a word of ie_pending_flags
    HasHl,         \* the irqs whose high level handler is not the default
    TickIrqs,      \* the irqs of the free-running system timer
    MaxTriggers,   \* bound: triggers of one handler invocation
    IrqsOff,       \* does interrupt_disable() keep ISRs out?
    IdleSleeps,    \* idle() sleeps (atmega, cortex-m) or triggers (main.c)
    NoEvent, NoIrq

Irqs  == 0 .. NrInterrupts - 1
Words == {i \div BitsPerLong : i \in Irqs}
Slots == 0 .. NEvts - 1
Ctx   == {"main", "isr"}

ASSUME NEvtsAssumption == NEvts \in Nat /\ NEvts > 1
ASSUME EventsAssumption ==
    /\ NoEvent \notin Events
    /\ TickEvent \in Events
    /\ NrHandlers \in [Events -> Nat]
ASSUME IrqsAssumption ==
    /\ NrInterrupts \in Nat
    /\ BitsPerLong \in Nat \ {0}
    /\ NoIrq \notin Int
    /\ HasHl \subseteq Irqs
    /\ TickIrqs \subseteq Irqs \ HasHl
ASSUME BoundsAssumption ==
    /\ MaxTriggers \in Nat \ {0}
    /\ IrqsOff \in BOOLEAN
    /\ IdleSleeps \in BOOLEAN

VARIABLES
    pe_head, pe_tail, pe_buffer,   \* the queue of regular events
    ie_pending_flags,              \* the set of irqs whose bit is set
    line, masked,                  \* the irq controller: requests, masks
    isr,                           \* the irq being served, or NoIrq
    mpc,                           \* where main is in its loop
    w, irq,                        \* handle_interrupt_events: the word it is
                                   \* at, the irq whose handler it runs
    word,                          \* the word clear_bit has read
    n,                             \* events left in handle_regular_events
    evt, hdl, given,               \* event being served, handlers started,
                                   \* and the event given to the last one
    tpc, th, te,                   \* trigger_event, per context: next step,
                                   \* its local h and its arguments
    left,                          \* triggers a handler has left
    owed                           \* history: irqs requested and whose own
                                   \* handler has not been started since

queue  == <<pe_head, pe_tail, pe_buffer>>
irqs   == <<ie_pending_flags, line, masked, owed>>
scan   == <<w, irq, word>>
serve  == <<n, evt, hdl, given>>
trig   == <<tpc, th, te>>
vars   == <<queue, irqs, isr, mpc, scan, serve, trig, left>>

TypeOK ==
    /\ pe_head \in Slots /\ pe_tail \in Slots
    /\ pe_buffer \in [Slots -> Events \cup {NoEvent}]
    /\ ie_pending_flags \subseteq Irqs
    /\ line \subseteq Irqs /\ masked \subseteq Irqs /\ owed \subseteq Irqs
    /\ isr \in Irqs \cup {NoIrq}
    /\ mpc \in {"check", "irqs", "hl", "clear", "write", "unmask", "snap",
                "regular", "handlers", "body", "idle", "asleep"}
    /\ w \in Nat
    /\ irq \in Irqs \cup {NoIrq}
    /\ word \subseteq Irqs
    /\ n \in Slots
    /\ evt \in Events \cup {NoEvent} /\ given \in Events \cup {NoEvent}
    /\ hdl \in Nat
    /\ tpc \in [Ctx -> {"none", "advance", "fill"}]
    /\ th \in [Ctx -> Slots]
    /\ te \in [Ctx -> Events \cup {NoEvent}]
    /\ left \in [Ctx -> 0 .. MaxTriggers]

Init ==
    /\ pe_head = 0 /\ pe_tail = 0
    /\ pe_buffer = [s \in Slots |-> NoEvent]
    /\ ie_pending_flags = {} /\ line = {} /\ masked = {} /\ owed = {}
    /\ isr = NoIrq
    /\ mpc = "check"
    /\ w = 0 /\ irq = NoIrq /\ word = {}
    /\ n = 0 /\ evt = NoEvent /\ hdl = 0 /\ given = NoEvent
    /\ tpc = [c \in Ctx |-> "none"]
    /\ th = [c \in Ctx |-> 0]
    /\ te = [c \in Ctx |-> NoEvent]
    /\ left = [c \in Ctx |-> 0]

-----------------------------------------------------------------------------
(* The contexts.                                                           *)

\* The context that has the core.
Running(c) == IF isr = NoIrq THEN c = "main" ELSE c = "isr"

\* Mutated form: clear_bit leaves interrupts enabled.
InCriticalNoClear == tpc["main"] = "advance"

\* Mutated form: trigger_event leaves interrupts enabled.
InCriticalNoTrigger == mpc = "write"

\* Main is between interrupt_disable() and interrupt_restore(), in
\* trigger_event or in clear_bit.
InCritical == tpc["main"] = "advance" \/ mpc = "write"

\* Main executes its own code, not a call of trigger_event.
MainAt(pc) == Running("main") /\ tpc["main"] = "none" /\ mpc = pc

-----------------------------------------------------------------------------
(* trigger_event(e, data)                                                  *)

\* A handler (or the default idle) calls trigger_event while it may.
MayTrigger(c, e) ==
    /\ Running(c)
    /\ tpc[c] = "none"
    /\ left[c] > 0
    /\ c = "main" => \/ mpc \in {"hl", "body"}
                     \/ mpc = "idle" /\ e = TickEvent

\* No slot is free: -ENOMEM, and nothing is queued.
TriggerFull(c, e) ==
    /\ MayTrigger(c, e)
    /\ CIRC_SPACE(pe_head, pe_tail, NEvts) = 0
    /\ left' = [left EXCEPT ![c] = @ - 1]
    /\ UNCHANGED <<queue, irqs, isr, mpc, scan, serve, trig>>

\* Inside the critical section: the space is checked and h = pe_head.
TriggerReserve(c, e) ==
    /\ MayTrigger(c, e)
    /\ CIRC_SPACE(pe_head, pe_tail, NEvts) # 0
    /\ left' = [left EXCEPT ![c] = @ - 1]
    /\ tpc' = [tpc EXCEPT ![c] = "advance"]
    /\ th' = [th EXCEPT ![c] = pe_head]
    /\ te' = [te EXCEPT ![c] = e]
    /\ UNCHANGED <<queue, irqs, isr, mpc, scan, serve>>

\* Still inside it: pe_head advances.  The compiler may have kept pe_head in
\* a register or may read it again.
TriggerAdvance(c) ==
    /\ Running(c)
    /\ tpc[c] = "advance"
    /\ pe_head' \in {CIRC_INC(th[c], NEvts), CIRC_INC(pe_head, NEvts)}
    /\ tpc' = [tpc EXCEPT ![c] = "fill"]
    /\ UNCHANGED <<pe_tail, pe_buffer, irqs, isr, mpc, scan, serve, th, te, left>>

\* After interrupt_restore(): the slot is filled (and the locals go away).
TriggerFill(c) ==
    /\ Running(c)
    /\ tpc[c] = "fill"
    /\ pe_buffer' = [pe_buffer EXCEPT ![th[c]] = te[c]]
    /\ tpc' = [tpc EXCEPT ![c] = "none"]
    /\ th' = [th EXCEPT ![c] = 0]
    /\ te' = [te EXCEPT ![c] = NoEvent]
    /\ UNCHANGED <<pe_head, pe_tail, irqs, isr, mpc, scan, serve, left>>

Trigger(c) ==
    \/ \E e \in Events : TriggerFull(c, e) \/ TriggerReserve(c, e)
    \/ TriggerAdvance(c)
    \/ TriggerFill(c)

-----------------------------------------------------------------------------
(* Interrupts: the controller, and trigger_interrupt_event in the ISR.     *)

\* A device requests service; the controller latches the request.
Raise(i) ==
    /\ i \notin line
    /\ line' = line \cup {i}
    /\ owed' = owed \cup {i}
    /\ UNCHANGED <<queue, ie_pending_flags, masked, isr, mpc, scan, serve, trig, left>>

\* The core takes an unmasked request: the low level handler starts, and a
\* sleeping main will find itself after its sleep instruction.
EnterIsr(i) ==
    /\ isr = NoIrq
    /\ i \in line \ masked
    /\ IrqsOff => ~InCritical
    /\ isr' = i
    /\ line' = line \ {i}
    /\ owed' = IF i \in HasHl THEN owed ELSE owed \ {i}
    /\ left' = [left EXCEPT !["isr"] = MaxTriggers]
    /\ mpc' = IF mpc = "asleep" THEN "check" ELSE mpc
    /\ UNCHANGED <<queue, ie_pending_flags, masked, scan, serve, trig>>

\* The low level handler is done.  An irq with a high level handler of its
\* own is acknowledged (its latch is cleared) and masked, and its bit is set.
IsrReturn ==
    /\ isr # NoIrq
    /\ tpc["isr"] = "none"
    /\ isr' = NoIrq
    /\ left' = [left EXCEPT !["isr"] = 0]
    /\ IF isr \in HasHl
       THEN /\ masked' = masked \cup {isr}
            /\ line' = line \ {isr}
            /\ ie_pending_flags' = ie_pending_flags \cup {isr}
       ELSE UNCHANGED <<masked, line, ie_pending_flags>>
    /\ UNCHANGED <<queue, owed, mpc, scan, serve, trig>>

-----------------------------------------------------------------------------
(* handle_interrupt_events, in main.                                       *)

\* The irqs whose bit is in word k of ie_pending_flags.
InWord(k) == {i \in ie_pending_flags : i \div BitsPerLong = k}

\* Mutated form: ffs counts from one, and "i--" is forgotten.
HlEventFfs(i) == i + 1

\* The index in interrupt_events_start[] of the event whose handler is run
\* for irq i: the code adds the word's index to the irq's own.
HlEvent(i) == i + i \div BitsPerLong

\* ffs: the lowest irq pending in the word is served first; its high level
\* handler starts.
StartHl ==
    /\ MainAt("irqs")
    /\ \E i \in InWord(w) :
          /\ \A j \in InWord(w) : i <= j
          /\ irq' = i
          /\ owed' = owed \ {HlEvent(i)}
    /\ mpc' = "hl"
    /\ left' = [left EXCEPT !["main"] = MaxTriggers]
    /\ UNCHANGED <<queue, ie_pending_flags, line, masked, isr, w, word, serve, trig>>

EndHl ==
    /\ MainAt("hl")
    /\ mpc' = "clear"
    /\ left' = [left EXCEPT !["main"] = 0]
    /\ UNCHANGED <<queue, irqs, isr, scan, serve, trig>>

\* clear_bit disables interrupts, reads the word ...
ClearRead ==
    /\ MainAt("clear")
    /\ word' = InWord(w)
    /\ mpc' = "write"
    /\ UNCHANGED <<queue, irqs, isr, w, irq, serve, trig, left>>

\* ... and writes it back without the bit.
ClearWrite ==
    /\ MainAt("write")
    /\ ie_pending_flags' = (ie_pending_flags \ InWord(w)) \cup (word \ {irq})
    /\ word' = {}
    /\ mpc' = "unmask"
    /\ UNCHANGED <<queue, line, masked, owed, isr, w, irq, serve, trig, left>>

Unmask ==
    /\ MainAt("unmask")
    /\ masked' = masked \ {irq}
    /\ irq' = NoIrq
    /\ mpc' = "irqs"
    /\ UNCHANGED <<queue, ie_pending_flags, line, owed, isr, w, word, serve, trig, left>>

\* Nothing is left in this word: the next one, or the regular events.
NextWord ==
    /\ MainAt("irqs")
    /\ InWord(w) = {}
    /\ IF w + 1 \in Words
       THEN w' = w + 1 /\ mpc' = mpc
       ELSE w' = 0 /\ mpc' = "snap"
    /\ UNCHANGED <<queue, irqs, isr, irq, word, serve, trig, left>>

-----------------------------------------------------------------------------
(* handle_regular_events, in main.                                         *)

\* n = pending_regular_events(): events triggered from now on wait for the
\* next round.
Snapshot ==
    /\ MainAt("snap")
    /\ n' = CIRC_CNT(pe_head, pe_tail, NEvts)
    /\ mpc' = "regular"
    /\ UNCHANGED <<queue, irqs, isr, scan, evt, hdl, given, trig, left>>

\* The event at the tail is copied.
FetchEvent ==
    /\ MainAt("regular")
    /\ n > 0
    /\ evt' = pe_buffer[pe_tail]
    /\ hdl' = 0
    /\ mpc' = "handlers"
    /\ UNCHANGED <<queue, irqs, isr, scan, n, given, trig, left>>

\* Its next handler starts; the data it is given is read from the slot again.
StartHandler ==
    /\ MainAt("handlers")
    /\ hdl < NrHandlers[evt]
    /\ hdl' = hdl + 1
    /\ given' = pe_buffer[pe_tail]
    /\ left' = [left EXCEPT !["main"] = MaxTriggers]
    /\ mpc' = "body"
    /\ UNCHANGED <<queue, irqs, isr, scan, n, evt, trig>>

EndHandler ==
    /\ MainAt("body")
    /\ left' = [left EXCEPT !["main"] = 0]
    /\ mpc' = "handlers"
    /\ UNCHANGED <<queue, irqs, isr, scan, serve, trig>>

\* All its handlers have run: the slot is released.
Retire ==
    /\ MainAt("handlers")
    /\ hdl = NrHandlers[evt]
    /\ pe_tail' = CIRC_INC(pe_tail, NEvts)
    /\ n' = n - 1
    /\ evt' = NoEvent /\ hdl' = 0 /\ given' = NoEvent
    /\ mpc' = "regular"
    /\ UNCHANGED <<pe_head, pe_buffer, irqs, isr, scan, trig, left>>

-----------------------------------------------------------------------------
(* bathos_loop                                                             *)

\* Mutated form: pending_events() looks at the interrupt events only.
PendingIrqs == ie_pending_flags # {}

\* pending_events()
Pending == ie_pending_flags # {} \/ CIRC_CNT(pe_head, pe_tail, NEvts) # 0

\* The snapshot has been served: handle_events returns.
RoundDone ==
    /\ MainAt("regular")
    /\ n = 0
    /\ mpc' = "check"
    /\ UNCHANGED <<queue, irqs, isr, scan, serve, trig, left>>

\* while (pending_events()) handle_events(); idle();
CheckPending ==
    /\ MainAt("check")
    /\ mpc' = IF Pending THEN "irqs" ELSE "idle"
    /\ left' = [left EXCEPT !["main"] = IF Pending \/ IdleSleeps THEN 0 ELSE 1]
    /\ UNCHANGED <<queue, irqs, isr, scan, serve, trig>>

\* idle() executes the sleep instruction.  An ISR that ran since the check
\* does not keep main from sleeping.
Sleep ==
    /\ MainAt("idle")
    /\ IdleSleeps
    /\ mpc' = "asleep"
    /\ UNCHANGED <<queue, irqs, isr, scan, serve, trig, left>>

\* The default idle() has triggered its tick.
IdleReturn ==
    /\ MainAt("idle")
    /\ ~IdleSleeps
    /\ left["main"] = 0
    /\ mpc' = "check"
    /\ UNCHANGED <<queue, irqs, isr, scan, serve, trig, left>>

MainLoop ==
    \/ CheckPending \/ Sleep \/ IdleReturn
    \/ StartHl \/ EndHl \/ ClearRead \/ ClearWrite \/ Unmask \/ NextWord
    \/ Snapshot \/ FetchEvent \/ StartHandler \/ EndHandler \/ Retire
    \/ RoundDone

Next ==
    \/ \E i \in Irqs : Raise(i) \/ EnterIsr(i)
    \/ IsrReturn
    \/ \E c \in Ctx : Trigger(c)
    \/ MainLoop

Spec == Init /\ [][Next]_vars

\* Main gets the core again and again (no storm of interrupts starves it),
\* every handler returns, the core takes an interrupt that stays requested
\* and the system timer ticks for ever.
Fairness ==
    /\ SF_vars(Trigger("main") \/ MainLoop)
    /\ WF_vars(Trigger("isr") \/ IsrReturn)
    /\ \A i \in Irqs : SF_vars(EnterIsr(i))
    /\ \A i \in TickIrqs : WF_vars(Raise(i))

FairSpec == Spec /\ Fairness

-----------------------------------------------------------------------------
(* Interrupt events.                                                       *)

\* An irq is masked exactly while its bit is set, or in the short time
\* between clear_bit and bathos_unmask_irq.  A masked irq without its bit
\* would never be served again; a bit of an unmasked one lets the irq be
\* taken while its high level handler still runs.
MaskedIffPending ==
    masked = ie_pending_flags \cup (IF mpc = "unmask" THEN {irq} ELSE {})

\* A request is never forgotten: until the irq's own handler has been started
\* after it, the request is latched, or its ISR runs, or its bit is set and
\* is not the one that clear_bit is about to clear.
NoRequestLost ==
    \A i \in owed :
        \/ i \in line
        \/ isr = i
        \/ i \in ie_pending_flags /\ i # irq

-----------------------------------------------------------------------------
(* Regular events.                                                         *)

\* The slots in use when the head is h and the tail is t.
Between(h, t) == {s \in Slots : CIRC_CNT(s, t, NEvts) < CIRC_CNT(h, t, NEvts)}

Occupied == Between(pe_head, pe_tail)

\* The slot main is serving.
Serving == mpc \in {"handlers", "body"}

\* A slot that trigger_event has taken and not yet filled is in the queue,
\* belongs to one context only, and is not the one whose handlers are being
\* run, although it is filled outside the critical section.
ReservedSlotsSafe ==
    /\ \A c \in Ctx :
          tpc[c] = "fill" => /\ th[c] \in Occupied
                             /\ Serving => th[c] # pe_tail
    /\ tpc["main"] # "none" /\ tpc["isr"] # "none" => th["main"] # th["isr"]

\* All the handlers of an event get the same, valid event, although its slot
\* is read again for each of them while ISRs and the handlers trigger events.
HandlersSeeOneEvent ==
    /\ Serving => evt \in Events /\ pe_buffer[pe_tail] = evt
    /\ mpc = "body" => given = evt

\* The content of a slot: what is about to be stored in it, or what it holds.
Filling(c, s) == tpc[c] = "fill" /\ th[c] = s

Content(s) ==
    IF Filling("main", s) THEN te["main"]
    ELSE IF Filling("isr", s) THEN te["isr"]
    ELSE pe_buffer[s]

\* The k-th slot counted from the tail t.
Slot(t, k) == (t + k - 1) % NEvts

Queue ==
    [k \in 1 .. CIRC_CNT(pe_head, pe_tail, NEvts) |-> Content(Slot(pe_tail, k))]

Fifo == INSTANCE EventFifo WITH
            q <- Queue, started <- hdl, last <- given, Capacity <- NEvts - 1

\* trigger_event and handle_regular_events implement a bounded FIFO queue:
\* nothing accepted is lost, duplicated, reordered or replaced.
ImplementsFifo == Fifo!FifoSpec

-----------------------------------------------------------------------------
(* Liveness.                                                               *)

\* High level handlers are served first and as long as their irqs keep
\* coming.  Once they come no more, every queued event gets its turn and
\* leaves the queue, also when an ISR triggers it after main has decided to
\* sleep.
EventsServed ==
    <>[](line \cap HasHl = {}) =>
        \A s \in Slots : (s \in Occupied) ~> (s \notin Occupied)

\* A requested irq gets its handler as soon as the irqs that ffs prefers
\* have stopped.
RequestsServed ==
    \A i \in Irqs :
        <>[](\A j \in HasHl : j < i => j \notin line) =>
            ((i \in owed) ~> (i \notin owed))

\* Whatever is asked of main is done in the end.
Served == EventsServed /\ RequestsServed
=============================================================================
