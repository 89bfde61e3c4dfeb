---------------------------- MODULE EventProofs ----------------------------
(***************************************************************************)
(* Proofs about Event, for every size of the queue, every set of events    *)
(* and handlers and every number of irqs: types, irqs and requests, and    *)
(* the queue of regular events.  The slots of the queue that are being     *)
(* filled are safe, and the circular buffer implements the FIFO queue of   *)
(* EventFifo, on a port whose interrupt_disable() keeps ISRs out.          *)
(***************************************************************************)
EXTENDS Event, TLAPS, SequenceTheorems

-----------------------------------------------------------------------------
(* Indices of the circular buffer.                                         *)

\* CIRC_INC stays in the buffer, and CIRC_CNT and CIRC_SPACE without `%'.
LEMMA CircFacts ==
    /\ \A h \in Slots : /\ CIRC_INC(h, NEvts) \in Slots
                        /\ CIRC_INC(h, NEvts) = IF h = NEvts - 1 THEN 0 ELSE h + 1
    /\ \A h, t \in Slots :
          /\ CIRC_CNT(h, t, NEvts) \in Slots
          /\ CIRC_CNT(h, t, NEvts) = IF h >= t THEN h - t ELSE h - t + NEvts
          /\ CIRC_SPACE(h, t, NEvts) = IF t > h THEN t - h - 1 ELSE t - h - 1 + NEvts
BY NEvtsAssumption DEF Slots, CIRC_INC, CIRC_CNT, CIRC_SPACE

-----------------------------------------------------------------------------
(* Type correctness.                                                       *)

\* While the handlers of an event run, the snapshot counts that event.
CountsServed == Serving => n > 0

\* The inductive invariant behind the type invariant: TypeOK needs that n is
\* not zero when Retire decrements it.
TypeInv == TypeOK /\ CountsServed

USE DEF Ctx

\* The types at the start.
LEMMA TypeInvInit == Init => TypeInv
BY NEvtsAssumption, BoundsAssumption
DEF Init, TypeInv, TypeOK, CountsServed, Serving, Slots

\* Every step keeps the types and the count of events.
LEMMA TypeInvNext == TypeInv /\ [Next]_vars => TypeInv'
<1> SUFFICES ASSUME TypeInv, [Next]_vars PROVE TypeInv'
  OBVIOUS
<1> USE NEvtsAssumption, EventsAssumption, IrqsAssumption, BoundsAssumption
<1> USE DEF TypeInv, TypeOK, CountsServed, Serving
<1>1. ASSUME NEW i \in Irqs, Raise(i) PROVE TypeInv'
  BY <1>1 DEF Raise, queue, scan, serve, trig
<1>2. ASSUME NEW i \in Irqs, EnterIsr(i) PROVE TypeInv'
  BY <1>2 DEF EnterIsr, queue, scan, serve, trig
<1>3. CASE IsrReturn
  BY <1>3 DEF IsrReturn, queue, scan, serve, trig
<1>4. ASSUME NEW c \in Ctx, NEW e \in Events, TriggerFull(c, e) PROVE TypeInv'
  BY <1>4 DEF TriggerFull, MayTrigger, queue, irqs, scan, serve, trig
<1>5. ASSUME NEW c \in Ctx, NEW e \in Events, TriggerReserve(c, e) PROVE TypeInv'
  BY <1>5 DEF TriggerReserve, MayTrigger, queue, irqs, scan, serve
<1>6. ASSUME NEW c \in Ctx, TriggerAdvance(c) PROVE TypeInv'
  BY <1>6, CircFacts DEF TriggerAdvance, irqs, scan, serve
<1>7. ASSUME NEW c \in Ctx, TriggerFill(c) PROVE TypeInv'
  BY <1>7 DEF TriggerFill, Slots, irqs, scan, serve
<1>8. CASE StartHl
  BY <1>8 DEF StartHl, MainAt, InWord, queue, serve, trig
<1>9. CASE EndHl
  BY <1>9 DEF EndHl, MainAt, queue, irqs, scan, serve, trig
<1>10. CASE ClearRead
  BY <1>10 DEF ClearRead, MainAt, InWord, queue, irqs, serve, trig
<1>11. CASE ClearWrite
  BY <1>11 DEF ClearWrite, MainAt, InWord, queue, serve, trig
<1>12. CASE Unmask
  BY <1>12 DEF Unmask, MainAt, queue, serve, trig
<1>13. CASE NextWord
  BY <1>13 DEF NextWord, MainAt, queue, irqs, serve, trig
<1>14. CASE Snapshot
  BY <1>14, CircFacts DEF Snapshot, MainAt, queue, irqs, scan, trig
<1>15. CASE FetchEvent
  BY <1>15 DEF FetchEvent, MainAt, queue, irqs, scan, trig
<1>16. CASE StartHandler
  BY <1>16 DEF StartHandler, MainAt, queue, irqs, scan, trig
<1>17. CASE EndHandler
  BY <1>17 DEF EndHandler, MainAt, queue, irqs, scan, serve, trig
<1>18. CASE Retire
  <2>1. n' \in Slots
    BY <1>18 DEF Retire, MainAt, Slots
  <2>2. pe_tail' \in Slots
    BY <1>18, CircFacts DEF Retire
  <2> QED
    BY <1>18, <2>1, <2>2 DEF Retire, MainAt, irqs, scan, trig
<1>19. CASE RoundDone
  BY <1>19 DEF RoundDone, MainAt, queue, irqs, scan, serve, trig
<1>20. CASE CheckPending
  BY <1>20 DEF CheckPending, MainAt, queue, irqs, scan, serve, trig
<1>21. CASE Sleep
  BY <1>21 DEF Sleep, MainAt, queue, irqs, scan, serve, trig
<1>22. CASE IdleReturn
  BY <1>22 DEF IdleReturn, MainAt, queue, irqs, scan, serve, trig
<1>23. CASE UNCHANGED vars
  BY <1>23 DEF vars, queue, irqs, scan, serve, trig
<1> QED
  BY <1>1, <1>2, <1>3, <1>4, <1>5, <1>6, <1>7, <1>8, <1>9, <1>10, <1>11, <1>12,
     <1>13, <1>14, <1>15, <1>16, <1>17, <1>18, <1>19, <1>20, <1>21, <1>22, <1>23
  DEF Next, Trigger, MainLoop

\* Every variable of the event core keeps its type: in particular the head,
\* the tail and the number of events left of a round stay inside the buffer.
THEOREM TypeCorrect == Spec => []TypeOK
<1>1. Init => TypeInv
  BY TypeInvInit
<1>2. TypeInv /\ [Next]_vars => TypeInv'
  BY TypeInvNext
<1>3. TypeInv => TypeOK
  BY DEF TypeInv
<1> QED
  BY <1>1, <1>2, <1>3, PTL DEF Spec

-----------------------------------------------------------------------------
(* Interrupt events, where interrupt_disable() keeps ISRs out.             *)

\* handle_interrupt_events is between StartHl and Unmask.
ServingIrq == mpc \in {"hl", "clear", "write", "unmask"}

\* The strengthening of MaskedIffPending: which irq main serves, what
\* clear_bit has read is still the word, and an ISR's irq is not masked.
IrqInv ==
    /\ MaskedIffPending
    /\ isr \notin masked
    /\ IF ServingIrq THEN irq \in Irqs ELSE irq = NoIrq
    /\ mpc \in {"hl", "clear", "write"} => irq \in InWord(w)
    /\ mpc = "write" => word = InWord(w) /\ isr = NoIrq
    /\ mpc = "unmask" => irq \notin ie_pending_flags

\* At the start no interrupt is pending or masked.
LEMMA IrqInvInit == Init => IrqInv
BY IrqsAssumption DEF Init, IrqInv, MaskedIffPending, ServingIrq

\* With interrupts off in the critical sections, every step keeps the pending
\* flags and the masks together.
LEMMA IrqInvNext == IrqsOff /\ TypeInv /\ IrqInv /\ [Next]_vars => IrqInv'
<1> SUFFICES ASSUME IrqsOff, TypeInv, IrqInv, [Next]_vars PROVE IrqInv'
  OBVIOUS
<1> USE IrqsAssumption
<1> USE DEF IrqInv, MaskedIffPending, ServingIrq, InWord
<1>0. /\ ie_pending_flags \subseteq Irqs /\ masked \subseteq Irqs
      /\ isr \in Irqs \cup {NoIrq} /\ NoIrq \notin Irqs
  BY DEF TypeInv, TypeOK, Irqs
<1>1. ASSUME NEW i \in Irqs, Raise(i) PROVE IrqInv'
  BY <1>1 DEF Raise, scan
<1>2. ASSUME NEW i \in Irqs, EnterIsr(i) PROVE IrqInv'
  BY <1>0, <1>2 DEF EnterIsr, InCritical, scan
<1>3. CASE IsrReturn
  BY <1>0, <1>3 DEF IsrReturn, scan
<1>4. ASSUME NEW c \in Ctx, NEW e \in Events, TriggerFull(c, e) PROVE IrqInv'
  BY <1>4 DEF TriggerFull, irqs, scan
<1>5. ASSUME NEW c \in Ctx, NEW e \in Events, TriggerReserve(c, e) PROVE IrqInv'
  BY <1>5 DEF TriggerReserve, irqs, scan
<1>6. ASSUME NEW c \in Ctx, TriggerAdvance(c) PROVE IrqInv'
  BY <1>6 DEF TriggerAdvance, irqs, scan
<1>7. ASSUME NEW c \in Ctx, TriggerFill(c) PROVE IrqInv'
  BY <1>7 DEF TriggerFill, irqs, scan
<1>8. CASE StartHl
  BY <1>0, <1>8 DEF StartHl, MainAt
<1>9. CASE EndHl
  BY <1>9 DEF EndHl, MainAt, irqs, scan
<1>10. CASE ClearRead
  BY <1>10 DEF ClearRead, MainAt, Running, irqs
<1>11. CASE ClearWrite
  <2>1. ie_pending_flags' = ie_pending_flags \ {irq}
    BY <1>11 DEF ClearWrite, MainAt
  <2> QED
    BY <1>11, <2>1 DEF ClearWrite, MainAt
<1>12. CASE Unmask
  BY <1>0, <1>12 DEF Unmask, MainAt
<1>13. CASE NextWord
  BY <1>13 DEF NextWord, MainAt, irqs
<1>14. CASE \/ Snapshot \/ FetchEvent \/ StartHandler \/ EndHandler \/ Retire
            \/ RoundDone \/ CheckPending \/ Sleep \/ IdleReturn
  BY <1>14 DEF Snapshot, FetchEvent, StartHandler, EndHandler, Retire, RoundDone,
               CheckPending, Sleep, IdleReturn, MainAt, irqs, scan
<1>15. CASE UNCHANGED vars
  BY <1>15 DEF vars, irqs, scan
<1> QED
  BY <1>1, <1>2, <1>3, <1>4, <1>5, <1>6, <1>7, <1>8, <1>9, <1>10, <1>11, <1>12,
     <1>13, <1>14, <1>15
  DEF Next, Trigger, MainLoop

\* On a port whose interrupt_disable() works, an irq is masked exactly while
\* it waits for its high level handler or for bathos_unmask_irq: no irq is
\* left masked for ever, none is taken again before its handler is done.
THEOREM IrqsMaskedWhilePending == IrqsOff => (Spec => []MaskedIffPending)
<1> SUFFICES ASSUME IrqsOff PROVE Spec => []MaskedIffPending
  OBVIOUS
<1>1. Init => TypeInv /\ IrqInv
  BY TypeInvInit, IrqInvInit
<1>2. TypeInv /\ IrqInv /\ [Next]_vars => TypeInv' /\ IrqInv'
  BY TypeInvNext, IrqInvNext
<1>3. IrqInv => MaskedIffPending
  BY DEF IrqInv
<1> QED
  BY <1>1, <1>2, <1>3, PTL DEF Spec

\* Of the irqs without a high level handler, every request not yet taken is
\* still latched.
LatchedInv == \A i \in owed \ HasHl : i \in line

RequestInv == NoRequestLost /\ LatchedInv

\* With a single word of flags, the event whose handler is run is the irq's.
LEMMA HlEventOfOneWord ==
    NrInterrupts <= BitsPerLong => \A i \in Irqs : HlEvent(i) = i
BY IrqsAssumption DEF Irqs, HlEvent

\* With one word of flags, no step loses a request.
LEMMA RequestInvNext ==
    NrInterrupts <= BitsPerLong /\ TypeInv /\ IrqInv /\ RequestInv /\ [Next]_vars
        => RequestInv'
<1> SUFFICES ASSUME NrInterrupts <= BitsPerLong, TypeInv, IrqInv, RequestInv,
                    [Next]_vars
             PROVE  RequestInv'
  OBVIOUS
<1> USE IrqsAssumption
<1> USE DEF RequestInv, NoRequestLost, LatchedInv
<1>0. /\ ie_pending_flags \subseteq Irqs /\ owed \subseteq Irqs
      /\ isr \in Irqs \cup {NoIrq} /\ NoIrq \notin Irqs
  BY DEF TypeInv, TypeOK, Irqs
<1>1. ASSUME NEW i \in Irqs, Raise(i) PROVE RequestInv'
  BY <1>1 DEF Raise, scan
<1>2. ASSUME NEW i \in Irqs, EnterIsr(i) PROVE RequestInv'
  BY <1>0, <1>2 DEF EnterIsr, scan
<1>3. CASE IsrReturn
  <2>1. isr # irq
    BY <1>0, <1>3 DEF IsrReturn, IrqInv, MaskedIffPending, ServingIrq, InWord
  <2> QED
    BY <1>0, <1>3, <2>1 DEF IsrReturn, scan
<1>4. ASSUME NEW c \in Ctx, NEW e \in Events, TriggerFull(c, e) PROVE RequestInv'
  BY <1>4 DEF TriggerFull, irqs, scan
<1>5. ASSUME NEW c \in Ctx, NEW e \in Events, TriggerReserve(c, e) PROVE RequestInv'
  BY <1>5 DEF TriggerReserve, irqs, scan
<1>6. ASSUME NEW c \in Ctx, TriggerAdvance(c) PROVE RequestInv'
  BY <1>6 DEF TriggerAdvance, irqs, scan
<1>7. ASSUME NEW c \in Ctx, TriggerFill(c) PROVE RequestInv'
  BY <1>7 DEF TriggerFill, irqs, scan
<1>8. CASE StartHl
  BY <1>0, <1>8, HlEventOfOneWord DEF StartHl, InWord
<1>9. CASE ClearWrite
  <2>1. ie_pending_flags' = ie_pending_flags \ {irq}
    BY <1>9 DEF ClearWrite, MainAt, IrqInv, InWord
  <2> QED
    BY <1>9, <2>1 DEF ClearWrite
<1>10. CASE Unmask
  BY <1>0, <1>10 DEF Unmask
<1>11. CASE \/ EndHl \/ ClearRead \/ NextWord \/ Snapshot \/ FetchEvent
            \/ StartHandler \/ EndHandler \/ Retire \/ RoundDone
            \/ CheckPending \/ Sleep \/ IdleReturn
  BY <1>11 DEF EndHl, ClearRead, NextWord, Snapshot, FetchEvent, StartHandler,
               EndHandler, Retire, RoundDone, CheckPending, Sleep, IdleReturn,
               irqs, scan
<1>12. CASE UNCHANGED vars
  BY <1>12 DEF vars, irqs, scan
<1> QED
  BY <1>1, <1>2, <1>3, <1>4, <1>5, <1>6, <1>7, <1>8, <1>9, <1>10, <1>11, <1>12
  DEF Next, Trigger, MainLoop

\* No interrupt request is lost, on a port whose interrupt_disable() works
\* and whose irqs fit in one word of ie_pending_flags.
THEOREM RequestsKept ==
    IrqsOff /\ NrInterrupts <= BitsPerLong => (Spec => []NoRequestLost)
<1> SUFFICES ASSUME IrqsOff, NrInterrupts <= BitsPerLong
             PROVE  Spec => []NoRequestLost
  OBVIOUS
<1>1. Init => TypeInv /\ IrqInv /\ RequestInv
  BY TypeInvInit, IrqInvInit DEF Init, RequestInv, NoRequestLost, LatchedInv
<1>2. TypeInv /\ IrqInv /\ RequestInv /\ [Next]_vars
        => TypeInv' /\ IrqInv' /\ RequestInv'
  BY TypeInvNext, IrqInvNext, RequestInvNext
<1>3. RequestInv => NoRequestLost
  BY DEF RequestInv
<1> QED
  BY <1>1, <1>2, <1>3, PTL DEF Spec
-----------------------------------------------------------------------------
(* Slots.                                                                  *)

\* The slot at the head is free; taking it makes it, and only it, occupied.
LEMMA AdvanceHead ==
    ASSUME NEW h \in Slots, NEW t \in Slots, CIRC_SPACE(h, t, NEvts) # 0
    PROVE  /\ h \notin Between(h, t)
           /\ Between(CIRC_INC(h, NEvts), t) = Between(h, t) \cup {h}
           /\ CIRC_CNT(CIRC_INC(h, NEvts), t, NEvts) = CIRC_CNT(h, t, NEvts) + 1
           /\ CIRC_CNT(h, t, NEvts) < NEvts - 1
<1> DEFINE i == CIRC_INC(h, NEvts)
<1>1. i \in Slots /\ i = IF h = NEvts - 1 THEN 0 ELSE h + 1
  BY CircFacts
<1>2. t - h # 1 /\ ~(t = 0 /\ h = NEvts - 1)
  <2>1. CIRC_SPACE(h, t, NEvts) = IF t > h THEN t - h - 1 ELSE t - h - 1 + NEvts
    BY CircFacts
  <2> QED
    BY NEvtsAssumption, <2>1 DEF Slots
<1>3. \A s \in Slots : CIRC_CNT(s, t, NEvts) = IF s >= t THEN s - t ELSE s - t + NEvts
  BY CircFacts
<1> HIDE DEF i
<1>4. /\ CIRC_CNT(i, t, NEvts) = CIRC_CNT(h, t, NEvts) + 1
      /\ CIRC_CNT(h, t, NEvts) < NEvts - 1
  BY NEvtsAssumption, <1>1, <1>2, <1>3 DEF Slots
<1>5. h \notin Between(h, t)
  BY NEvtsAssumption, <1>3 DEF Slots, Between
<1>6. \A s \in Slots : CIRC_CNT(s, t, NEvts) < CIRC_CNT(i, t, NEvts)
                          <=> s = h \/ CIRC_CNT(s, t, NEvts) < CIRC_CNT(h, t, NEvts)
  BY NEvtsAssumption, <1>3, <1>4 DEF Slots
<1>7. Between(i, t) = Between(h, t) \cup {h}
  BY <1>6 DEF Between
<1> QED
  BY <1>4, <1>5, <1>7 DEF i

\* The slot at the tail of a queue that is not empty is occupied; releasing it
\* frees it, and only it.
LEMMA AdvanceTail ==
    ASSUME NEW h \in Slots, NEW t \in Slots, CIRC_CNT(h, t, NEvts) # 0
    PROVE  /\ t \in Between(h, t)
           /\ Between(h, CIRC_INC(t, NEvts)) = Between(h, t) \ {t}
           /\ CIRC_CNT(h, CIRC_INC(t, NEvts), NEvts) = CIRC_CNT(h, t, NEvts) - 1
<1> DEFINE i == CIRC_INC(t, NEvts)
<1>1. i \in Slots /\ i = IF t = NEvts - 1 THEN 0 ELSE t + 1
  BY CircFacts
<1>2. \A s, u \in Slots : CIRC_CNT(s, u, NEvts) = IF s >= u THEN s - u ELSE s - u + NEvts
  BY CircFacts
<1>3. h # t
  BY NEvtsAssumption, <1>2 DEF Slots
<1> HIDE DEF i
<1>4. CIRC_CNT(h, i, NEvts) = CIRC_CNT(h, t, NEvts) - 1
  BY NEvtsAssumption, <1>1, <1>2, <1>3 DEF Slots
<1>5. t \in Between(h, t)
  BY NEvtsAssumption, <1>2, <1>3 DEF Slots, Between
<1>6. \A s \in Slots : CIRC_CNT(s, i, NEvts) < CIRC_CNT(h, i, NEvts)
                          <=> s # t /\ CIRC_CNT(s, t, NEvts) < CIRC_CNT(h, t, NEvts)
  BY NEvtsAssumption, <1>1, <1>2, <1>3 DEF Slots
<1>7. Between(h, i) = Between(h, t) \ {t}
  BY <1>6 DEF Between
<1> QED
  BY <1>4, <1>5, <1>7 DEF i

\* Counting slots from the tail enumerates the occupied ones and then the
\* head, and moving the tail shifts the count by one.
LEMMA SlotFacts ==
    ASSUME NEW h \in Slots, NEW t \in Slots
    PROVE  /\ \A k \in 1 .. CIRC_CNT(h, t, NEvts) : Slot(t, k) \in Between(h, t)
           /\ Slot(t, CIRC_CNT(h, t, NEvts) + 1) = h
           /\ Slot(t, 1) = t
           /\ \A k \in 1 .. NEvts - 1 : Slot(CIRC_INC(t, NEvts), k) = Slot(t, k + 1)
<1> DEFINE i == CIRC_INC(t, NEvts)
<1>0. i \in Slots /\ i = IF t = NEvts - 1 THEN 0 ELSE t + 1
  BY CircFacts
<1> HIDE DEF i
<1>1. \A u \in Slots : \A k \in 1 .. NEvts :
         Slot(u, k) = IF u + k - 1 < NEvts THEN u + k - 1 ELSE u + k - 1 - NEvts
  BY NEvtsAssumption DEF Slots, Slot
<1>2. \A k \in 1 .. NEvts - 1 : Slot(i, k) = Slot(t, k + 1)
  BY NEvtsAssumption, <1>0, <1>1 DEF Slots
<1>3. \A s \in Slots : CIRC_CNT(s, t, NEvts) = IF s >= t THEN s - t ELSE s - t + NEvts
  BY CircFacts
<1>4. \A k \in 1 .. CIRC_CNT(h, t, NEvts) : Slot(t, k) \in Between(h, t)
  <2> SUFFICES ASSUME NEW k \in 1 .. CIRC_CNT(h, t, NEvts)
               PROVE  Slot(t, k) \in Between(h, t)
    OBVIOUS
  <2>1. k \in 1 .. NEvts - 1 /\ CIRC_CNT(h, t, NEvts) \in 0 .. NEvts - 1
    BY CircFacts, NEvtsAssumption DEF Slots
  <2>2. Slot(t, k) = IF t + k - 1 < NEvts THEN t + k - 1 ELSE t + k - 1 - NEvts
    BY <1>1, <2>1, NEvtsAssumption
  <2>3. Slot(t, k) \in Slots
    BY <2>1, <2>2, NEvtsAssumption DEF Slots
  <2>4. CIRC_CNT(Slot(t, k), t, NEvts) = k - 1
    BY <1>3, <2>1, <2>2, <2>3, NEvtsAssumption DEF Slots
  <2> QED
    BY <2>1, <2>3, <2>4 DEF Between
<1>5. Slot(t, CIRC_CNT(h, t, NEvts) + 1) = h /\ Slot(t, 1) = t
  BY NEvtsAssumption, <1>1, <1>3 DEF Slots
<1> QED
  BY <1>2, <1>4, <1>5 DEF i

-----------------------------------------------------------------------------
(* The inductive invariant of the queue.                                   *)

\* Who may be inside trigger_event: an ISR that runs, and main when one of
\* its handlers or idle() runs; main is not preempted in its critical section.
ContextInv ==
    /\ tpc["isr"] # "none" => isr # NoIrq
    /\ tpc["main"] = "advance" => isr = NoIrq
    /\ tpc["main"] # "none" => mpc \in {"hl", "body", "idle"}

\* A context that has read h is still right about it; one that has advanced
\* the head owns an occupied slot, which nobody else owns.
ReserveInv ==
    /\ \A c \in Ctx : tpc[c] # "none" => te[c] \in Events
    /\ \A c \in Ctx : tpc[c] = "advance" =>
          th[c] = pe_head /\ CIRC_SPACE(pe_head, pe_tail, NEvts) # 0
    /\ \A c \in Ctx : tpc[c] = "fill" => th[c] \in Occupied
    /\ tpc["main"] = "fill" /\ tpc["isr"] = "fill" => th["main"] # th["isr"]

\* An occupied slot holds an event or is about to.
FilledInv ==
    \A s \in Occupied : pe_buffer[s] \in Events \/ \E c \in Ctx : Filling(c, s)

\* The rest of the snapshot is in the queue, and the event being served is
\* the one at the tail, which no context is filling.
ServeInv ==
    /\ mpc \in {"regular", "handlers", "body"} =>
          n <= CIRC_CNT(pe_head, pe_tail, NEvts)
    /\ Serving => /\ evt \in Events
                  /\ pe_buffer[pe_tail] = evt
                  /\ \A c \in Ctx : ~Filling(c, pe_tail)
    /\ mpc = "body" => given = evt
    /\ ~Serving => hdl = 0

QueueInv == ContextInv /\ ReserveInv /\ FilledInv /\ ServeInv

\* At the start the queue is empty.
LEMMA QueueInvInit == Init => QueueInv
<1> SUFFICES ASSUME Init PROVE QueueInv
  OBVIOUS
<1>1. Occupied = {}
  BY NEvtsAssumption, CircFacts DEF Init, Occupied, Between, Slots
<1>2. tpc["main"] = "none" /\ tpc["isr"] = "none"
  BY DEF Init
<1> QED
  BY <1>1, <1>2
  DEF Init, QueueInv, ContextInv, ReserveInv, FilledInv, ServeInv, Serving

\* The actions that neither queue, fill, serve nor release a slot.
LEMMA QueueInvElsewhere ==
    ASSUME TypeInv, QueueInv,
           UNCHANGED <<queue, trig>>,
           UNCHANGED serve,
           isr' = isr \/ (isr' = NoIrq /\ tpc["isr"] = "none")
                     \/ (isr = NoIrq /\ tpc["main"] # "advance"),
           mpc' = mpc \/ (/\ mpc \notin {"regular", "handlers", "body"}
                          /\ mpc' \notin {"regular", "handlers", "body"}
                          /\ tpc["main"] = "none")
    PROVE  QueueInv'
BY NEvtsAssumption, IrqsAssumption
DEF QueueInv, ContextInv, ReserveInv, FilledInv, ServeInv, Serving, Occupied,
    Filling, queue, trig, serve

\* While main runs outside trigger_event, no context is inside it.
LEMMA NobodyTriggers ==
    ASSUME QueueInv, NEW pc, MainAt(pc)
    PROVE  \A c \in Ctx : tpc[c] = "none"
<1>1. isr = NoIrq
  BY DEF MainAt, Running
<1>2. tpc["isr"] = "none"
  BY <1>1 DEF QueueInv, ContextInv
<1> QED
  BY <1>2 DEF MainAt

\* Every step keeps the slots of the events apart.
LEMMA QueueInvNext == IrqsOff /\ TypeInv /\ QueueInv /\ [Next]_vars => QueueInv'
<1> SUFFICES ASSUME IrqsOff, TypeInv, QueueInv, [Next]_vars PROVE QueueInv'
  OBVIOUS
<1>0. /\ pe_head \in Slots /\ pe_tail \in Slots /\ n \in Slots
      /\ pe_buffer \in [Slots -> Events \cup {NoEvent}]
      /\ tpc \in [Ctx -> {"none", "advance", "fill"}]
      /\ th \in [Ctx -> Slots] /\ te \in [Ctx -> Events \cup {NoEvent}]
      /\ Serving => n > 0
  BY DEF TypeInv, TypeOK, CountsServed
<1>1. ASSUME NEW i \in Irqs, Raise(i) PROVE QueueInv'
  BY <1>1, QueueInvElsewhere DEF Raise
<1>2. ASSUME NEW i \in Irqs, EnterIsr(i) PROVE QueueInv'
  BY <1>2 DEF EnterIsr, InCritical, QueueInv, ContextInv, ReserveInv, FilledInv,
              ServeInv, Serving, Occupied, Filling, queue, trig, serve
<1>3. CASE IsrReturn
  BY <1>3, QueueInvElsewhere DEF IsrReturn
<1>4. ASSUME NEW c \in Ctx, NEW e \in Events, TriggerFull(c, e) PROVE QueueInv'
  BY <1>4, QueueInvElsewhere DEF TriggerFull
<1>5. ASSUME NEW c \in Ctx, NEW e \in Events, TriggerReserve(c, e) PROVE QueueInv'
  <2> USE <1>5 DEF TriggerReserve, MayTrigger, Running, queue, serve
  <2>1. ContextInv'
    BY <1>0, IrqsAssumption DEF QueueInv, ContextInv
  <2>2. ReserveInv'
    BY <1>0 DEF QueueInv, ReserveInv, Occupied
  <2>3. FilledInv' /\ ServeInv'
    BY <1>0 DEF QueueInv, FilledInv, ServeInv, Serving, Occupied, Filling
  <2> QED
    BY <2>1, <2>2, <2>3 DEF QueueInv
<1>6. ASSUME NEW c \in Ctx, TriggerAdvance(c) PROVE QueueInv'
  <2> USE <1>6 DEF TriggerAdvance, Running
  <2>1. /\ th[c] = pe_head /\ te[c] \in Events
        /\ CIRC_SPACE(pe_head, pe_tail, NEvts) # 0
        /\ pe_head' = CIRC_INC(pe_head, NEvts)
    BY DEF QueueInv, ReserveInv
  <2>2. /\ pe_head \notin Occupied
        /\ Occupied' = Occupied \cup {pe_head}
        /\ CIRC_CNT(pe_head', pe_tail', NEvts) = CIRC_CNT(pe_head, pe_tail, NEvts) + 1
    BY <1>0, <2>1, AdvanceHead DEF Occupied
  <2>3. \A d \in Ctx : d # c => tpc[d] # "advance"
    <3>1. CASE c = "main"
      BY <3>1 DEF QueueInv, ContextInv
    <3>2. CASE c = "isr"
      BY <3>2 DEF QueueInv, ContextInv
    <3> QED
      BY <3>1, <3>2
  <2>4. ContextInv'
    BY <1>0 DEF QueueInv, ContextInv
  <2>5. ReserveInv'
    <3>1. \A d \in Ctx : /\ tpc'[d] # "none" => te'[d] \in Events
                         /\ tpc'[d] # "advance"
                         /\ tpc'[d] = "fill" => th'[d] \in Occupied'
      BY <1>0, <2>1, <2>2, <2>3 DEF QueueInv, ReserveInv
    <3>2. (tpc["main"] = "fill" /\ tpc["isr"] = "fill" => th["main"] # th["isr"])'
      BY <1>0, <2>1, <2>2 DEF QueueInv, ReserveInv
    <3> QED
      BY <3>1, <3>2 DEF ReserveInv
  <2>6. FilledInv'
    BY <1>0, <2>1, <2>2 DEF QueueInv, FilledInv, Filling
  <2>7. CIRC_CNT(pe_head, pe_tail, NEvts) \in Nat /\ n \in Nat
    BY <1>0, CircFacts DEF Slots
  <2>8. Serving => pe_tail \in Occupied
    <3> SUFFICES ASSUME Serving PROVE pe_tail \in Occupied
      OBVIOUS
    <3>1. CIRC_CNT(pe_head, pe_tail, NEvts) # 0
      BY <1>0, <2>7 DEF QueueInv, ServeInv, Serving
    <3> QED
      BY <1>0, <3>1, AdvanceTail DEF Occupied
  <2>9. \A d \in Ctx : Serving => ~Filling(d, pe_tail)'
    BY <1>0, <2>1, <2>2, <2>8 DEF QueueInv, ServeInv, Filling
  <2>10. ServeInv'
    BY <2>2, <2>7, <2>9 DEF QueueInv, ServeInv, Serving, serve
  <2> QED
    BY <2>4, <2>5, <2>6, <2>10 DEF QueueInv
<1>7. ASSUME NEW c \in Ctx, TriggerFill(c) PROVE QueueInv'
  <2> USE <1>7 DEF TriggerFill, Running
  <2>1. Occupied' = Occupied /\ Occupied \subseteq Slots
    BY DEF Occupied, Between
  <2>2. ContextInv'
    BY <1>0 DEF QueueInv, ContextInv
  <2>3. ReserveInv'
    BY <1>0, <2>1 DEF QueueInv, ReserveInv
  <2>4. FilledInv'
    BY <1>0, <2>1 DEF QueueInv, FilledInv, ReserveInv, Filling
  <2>5. ServeInv'
    BY <1>0 DEF QueueInv, ServeInv, Serving, Filling, serve
  <2> QED
    BY <2>2, <2>3, <2>4, <2>5 DEF QueueInv
<1>8. CASE StartHl \/ EndHl \/ ClearRead \/ ClearWrite \/ Unmask \/ NextWord
  BY <1>8, QueueInvElsewhere
  DEF StartHl, EndHl, ClearRead, ClearWrite, Unmask, NextWord, MainAt
<1>9. CASE RoundDone \/ CheckPending \/ Sleep \/ IdleReturn
  BY <1>9 DEF RoundDone, CheckPending, Sleep, IdleReturn, MainAt, QueueInv,
      ContextInv, ReserveInv, FilledInv, ServeInv, Serving, Occupied, Filling,
      queue, trig, serve
<1>10. CASE Snapshot
  <2>1. n' <= CIRC_CNT(pe_head', pe_tail', NEvts)
    BY <1>0, <1>10, CircFacts DEF Snapshot, queue, Slots
  <2> QED
    BY ZenonT(40), <1>10, <2>1 DEF Snapshot, MainAt, QueueInv, ContextInv, ReserveInv,
        FilledInv, ServeInv, Serving, Occupied, Filling, queue, trig
<1>11. CASE FetchEvent
  <2> USE <1>11 DEF FetchEvent
  <2>1. pe_tail \in Occupied
    BY <1>0, AdvanceTail, CircFacts DEF MainAt, QueueInv, ServeInv, Occupied, Slots
  <2>2. \A c \in Ctx : tpc[c] = "none"
    BY NobodyTriggers
  <2>3. pe_buffer[pe_tail] \in Events
    BY <2>1, <2>2 DEF QueueInv, FilledInv, Filling
  <2> QED
    BY <2>2, <2>3 DEF MainAt, QueueInv, ContextInv, ReserveInv, FilledInv, ServeInv,
        Serving, Occupied, Filling, queue, trig
<1>12. CASE StartHandler
  BY ZenonT(40), <1>12 DEF StartHandler, MainAt, QueueInv, ContextInv, ReserveInv, FilledInv,
      ServeInv, Serving, Occupied, Filling, queue, trig
<1>13. CASE EndHandler
  BY <1>13 DEF EndHandler, MainAt, QueueInv, ContextInv, ReserveInv, FilledInv,
      ServeInv, Serving, Occupied, Filling, queue, trig, serve
<1>14. CASE Retire
  <2> USE <1>14 DEF Retire, trig
  <2>1. CIRC_CNT(pe_head, pe_tail, NEvts) \in Slots /\ Serving
    BY <1>0, CircFacts DEF MainAt, Serving
  <2>2. n > 0 /\ n <= CIRC_CNT(pe_head, pe_tail, NEvts)
    BY <1>0, <2>1 DEF QueueInv, ServeInv, Serving
  <2>3. /\ Occupied' = Occupied \ {pe_tail}
        /\ CIRC_CNT(pe_head', pe_tail', NEvts) = CIRC_CNT(pe_head, pe_tail, NEvts) - 1
    BY <1>0, <2>1, <2>2, AdvanceTail DEF Occupied, Slots
  <2>4. \A c \in Ctx : tpc[c] = "none"
    BY NobodyTriggers
  <2>5. ServeInv'
    BY <1>0, <2>1, <2>2, <2>3 DEF ServeInv, Serving, Slots
  <2> QED
    BY <2>3, <2>4, <2>5 DEF QueueInv, ContextInv, ReserveInv, FilledInv, Filling
<1>15. CASE UNCHANGED vars
  BY <1>15, QueueInvElsewhere DEF vars
<1> QED
  BY <1>1, <1>2, <1>3, <1>4, <1>5, <1>6, <1>7, <1>8, <1>9, <1>10, <1>11, <1>12,
     <1>13, <1>14, <1>15
  DEF Next, Trigger, MainLoop

\* A slot that trigger_event has taken and not yet filled is in the queue,
\* belongs to one context and is not the one being served; all the handlers
\* of an event see that event in its slot.
THEOREM SlotsSafe ==
    IrqsOff => (Spec => [](ReservedSlotsSafe /\ HandlersSeeOneEvent))
<1> SUFFICES ASSUME IrqsOff
             PROVE  Spec => [](ReservedSlotsSafe /\ HandlersSeeOneEvent)
  OBVIOUS
<1>1. Init => TypeInv /\ QueueInv
  BY TypeInvInit, QueueInvInit
<1>2. TypeInv /\ QueueInv /\ [Next]_vars => TypeInv' /\ QueueInv'
  BY TypeInvNext, QueueInvNext
<1>3. TypeInv /\ QueueInv => ReservedSlotsSafe /\ HandlersSeeOneEvent
  <2> SUFFICES ASSUME TypeInv, QueueInv
               PROVE  ReservedSlotsSafe /\ HandlersSeeOneEvent
    OBVIOUS
  <2>1. HandlersSeeOneEvent
    BY DEF QueueInv, ServeInv, HandlersSeeOneEvent, Serving
  <2>2. ASSUME NEW c \in Ctx, tpc[c] = "fill"
        PROVE  th[c] \in Occupied /\ (Serving => th[c] # pe_tail)
    BY <2>2 DEF QueueInv, ReserveInv, ServeInv, Filling
  <2>3. ASSUME tpc["main"] # "none", tpc["isr"] # "none"
        PROVE  th["main"] # th["isr"]
    <3>1. tpc["main"] = "fill" /\ tpc["isr"] \in {"advance", "fill"}
      BY <2>3 DEF TypeInv, TypeOK, QueueInv, ContextInv
    <3>2. CASE tpc["isr"] = "fill"
      BY <3>1, <3>2 DEF QueueInv, ReserveInv
    <3>3. CASE tpc["isr"] = "advance"
      <4>1. th["isr"] = pe_head /\ CIRC_SPACE(pe_head, pe_tail, NEvts) # 0
        BY <3>3 DEF QueueInv, ReserveInv
      <4>2. pe_head \notin Occupied
        BY <4>1, AdvanceHead DEF TypeInv, TypeOK, Occupied
      <4> QED
        BY <3>1, <4>1, <4>2 DEF QueueInv, ReserveInv
    <3> QED
      BY <3>1, <3>2, <3>3
  <2> QED
    BY <2>1, <2>2, <2>3 DEF ReservedSlotsSafe
<1> QED
  BY <1>1, <1>2, <1>3, PTL DEF Spec

-----------------------------------------------------------------------------
(* The circular buffer implements the FIFO queue.                          *)

\* How to recognise an Append and a Tail.
LEMMA IsAppend ==
    ASSUME NEW S, NEW q \in Seq(S), NEW r \in Seq(S), NEW e \in S,
           Len(r) = Len(q) + 1,
           \A k \in 1 .. Len(q) : r[k] = q[k],
           r[Len(q) + 1] = e
    PROVE  r = Append(q, e)
<1>1. /\ Append(q, e) \in Seq(S) /\ Len(Append(q, e)) = Len(q) + 1
      /\ \A k \in 1 .. Len(q) : Append(q, e)[k] = q[k]
      /\ Append(q, e)[Len(q) + 1] = e
  BY AppendProperties
<1>2. \A k \in 1 .. Len(r) : r[k] = Append(q, e)[k]
  BY <1>1
<1> QED
  BY <1>1, <1>2, SeqEqual

\* A sequence that starts at the second element of another is its tail.
LEMMA IsTail ==
    ASSUME NEW S, NEW q \in Seq(S), NEW r \in Seq(S), Len(q) # 0,
           Len(r) = Len(q) - 1,
           \A k \in 1 .. Len(r) : r[k] = q[k + 1]
    PROVE  r = Tail(q)
<1>1. /\ Tail(q) \in Seq(S) /\ Len(Tail(q)) = Len(q) - 1
      /\ \A k \in 1 .. Len(Tail(q)) : Tail(q)[k] = q[k + 1]
  OBVIOUS
<1> QED
  BY <1>1, SeqEqual

\* The queue is a sequence of events, as long as CIRC_CNT says.
LEMMA QueueSeq ==
    TypeInv /\ QueueInv =>
        /\ CIRC_CNT(pe_head, pe_tail, NEvts) \in Nat
        /\ Queue \in Seq(Events)
        /\ Len(Queue) = CIRC_CNT(pe_head, pe_tail, NEvts)
        /\ \A k \in 1 .. Len(Queue), s \in Slots :
              s = Slot(pe_tail, k) => Queue[k] = Content(s)
<1> SUFFICES ASSUME TypeInv, QueueInv
             PROVE  /\ CIRC_CNT(pe_head, pe_tail, NEvts) \in Nat
                    /\ Queue \in Seq(Events)
                    /\ Len(Queue) = CIRC_CNT(pe_head, pe_tail, NEvts)
                    /\ \A k \in 1 .. Len(Queue), s \in Slots :
                          s = Slot(pe_tail, k) => Queue[k] = Content(s)
  OBVIOUS
<1>1. CIRC_CNT(pe_head, pe_tail, NEvts) \in Nat
  BY CircFacts DEF TypeInv, TypeOK, Slots
<1>2. \A k \in 1 .. CIRC_CNT(pe_head, pe_tail, NEvts) : Slot(pe_tail, k) \in Occupied
  BY SlotFacts DEF TypeInv, TypeOK, Occupied
<1>3. \A s \in Occupied : Content(s) \in Events
  <2> SUFFICES ASSUME NEW s \in Occupied PROVE Content(s) \in Events
    OBVIOUS
  <2>1. \A c \in Ctx : Filling(c, s) => te[c] \in Events
    BY DEF Filling, QueueInv, ReserveInv
  <2>2. (\A c \in Ctx : ~Filling(c, s)) => pe_buffer[s] \in Events
    BY DEF QueueInv, FilledInv
  <2> QED
    BY <2>1, <2>2 DEF Content
<1>4. Queue \in [1 .. CIRC_CNT(pe_head, pe_tail, NEvts) -> Events]
  BY <1>2, <1>3 DEF Queue
<1>5. Queue \in Seq(Events) /\ Len(Queue) = CIRC_CNT(pe_head, pe_tail, NEvts)
  BY <1>1, <1>4
<1> QED
  BY <1>1, <1>5 DEF Queue

\* Only the content of the occupied slots matters.
LEMMA SameQueue ==
    ASSUME TypeInv, UNCHANGED <<pe_head, pe_tail>>,
           \A s \in Occupied : Content(s)' = Content(s)
    PROVE  Queue' = Queue
<1>1. \A k \in 1 .. CIRC_CNT(pe_head, pe_tail, NEvts) : Slot(pe_tail, k) \in Occupied
  BY SlotFacts DEF TypeInv, TypeOK, Occupied
<1> QED
  BY <1>1 DEF Queue

\* What trigger_event has not advanced yet is not in the queue.
LEMMA ReserveIsStutter ==
    ASSUME TypeInv, NEW c \in Ctx, NEW e \in Events, TriggerReserve(c, e)
    PROVE  Queue' = Queue
<1>1. \A s \in Occupied : Content(s)' = Content(s)
  <2>1. \A d \in Ctx, s \in Occupied :
           /\ Filling(d, s)' <=> Filling(d, s)
           /\ Filling(d, s) => te'[d] = te[d]
    BY DEF TriggerReserve, MayTrigger, Filling, TypeInv, TypeOK
  <2> QED
    BY <2>1 DEF TriggerReserve, queue, Content
<1> QED
  BY <1>1, SameQueue DEF TriggerReserve, queue

\* Storing the event changes where it is, not the queue.
LEMMA FillIsStutter ==
    ASSUME TypeInv, QueueInv, NEW c \in Ctx, TriggerFill(c)
    PROVE  Queue' = Queue
<1> USE DEF TriggerFill, TypeInv, TypeOK
<1>1. \A s \in Occupied : Content(s)' = Content(s)
  <2> SUFFICES ASSUME NEW s \in Occupied PROVE Content(s)' = Content(s)
    OBVIOUS
  <2>1. s \in Slots
    BY DEF Occupied, Between
  <2>2. CASE s = th[c]
    <3>1. /\ Content(s) = te[c]
          /\ \A d \in Ctx : ~Filling(d, s)'
      BY <2>2 DEF Content, Filling, QueueInv, ReserveInv
    <3> QED
      BY <2>1, <2>2, <3>1 DEF Content
  <2>3. CASE s # th[c]
    <3>1. \A d \in Ctx : /\ Filling(d, s)' <=> Filling(d, s)
                         /\ Filling(d, s) => te'[d] = te[d]
      BY <2>3 DEF Filling
    <3> QED
      BY <2>1, <2>3, <3>1 DEF Content
  <2> QED
    BY <2>2, <2>3
<1> QED
  BY <1>1, SameQueue

\* Advancing the head accepts the event.
LEMMA AdvanceAccepts ==
    ASSUME TypeInv, QueueInv, QueueInv', TypeInv', NEW c \in Ctx, TriggerAdvance(c)
    PROVE  \E e \in Events : Fifo!Accept(e)
<1>1. /\ pe_head \in Slots /\ pe_tail \in Slots
      /\ pe_head' = CIRC_INC(pe_head, NEvts) /\ pe_tail' = pe_tail
      /\ CIRC_SPACE(pe_head, pe_tail, NEvts) # 0
      /\ th[c] = pe_head /\ te[c] \in Events
  BY DEF TriggerAdvance, TypeInv, TypeOK, QueueInv, ReserveInv
<1>2. /\ pe_head \notin Occupied
      /\ CIRC_CNT(pe_head', pe_tail', NEvts) = CIRC_CNT(pe_head, pe_tail, NEvts) + 1
      /\ CIRC_CNT(pe_head, pe_tail, NEvts) < NEvts - 1
  BY <1>1, AdvanceHead DEF Occupied
<1>3. \A s \in Slots : s # pe_head => Content(s)' = Content(s)
  <2> SUFFICES ASSUME NEW s \in Slots, s # pe_head PROVE Content(s)' = Content(s)
    OBVIOUS
  <2>1. \A d \in Ctx : Filling(d, s)' <=> Filling(d, s)
    BY <1>1 DEF TriggerAdvance, Filling, TypeInv, TypeOK
  <2> QED
    BY <2>1 DEF TriggerAdvance, Content
<1>4. \A s \in Slots : s = pe_head => Content(s)' = te[c]
  <2> SUFFICES ASSUME NEW s \in Slots, s = pe_head PROVE Content(s)' = te[c]
    OBVIOUS
  <2>1. Filling(c, s)'
    BY <1>1 DEF TriggerAdvance, Filling, TypeInv, TypeOK
  <2>2. \A d \in Ctx : d # c => ~Filling(d, s)'
    BY <1>1, <1>2 DEF TriggerAdvance, Filling, TypeInv, TypeOK, QueueInv, ReserveInv
  <2> QED
    BY <2>1, <2>2 DEF TriggerAdvance, Content
<1>5. /\ \A k \in 1 .. CIRC_CNT(pe_head, pe_tail, NEvts) :
            Slot(pe_tail, k) \in Slots /\ Slot(pe_tail, k) # pe_head
      /\ Slot(pe_tail, CIRC_CNT(pe_head, pe_tail, NEvts) + 1) = pe_head
  BY <1>1, <1>2, SlotFacts DEF Occupied, Between
<1>6. /\ Len(Queue) \in Nat /\ Len(Queue') = Len(Queue) + 1
      /\ Queue \in Seq(Events) /\ Queue' \in Seq(Events)
      /\ Len(Queue) = CIRC_CNT(pe_head, pe_tail, NEvts)
      /\ \A k \in 1 .. Len(Queue), s \in Slots :
            s = Slot(pe_tail, k) => Queue[k] = Content(s)
      /\ \A k \in 1 .. Len(Queue'), s \in Slots :
            s = Slot(pe_tail', k) => Queue'[k] = Content(s)'
  <2>1. (TypeInv /\ QueueInv =>
            /\ CIRC_CNT(pe_head, pe_tail, NEvts) \in Nat
            /\ Queue \in Seq(Events)
            /\ Len(Queue) = CIRC_CNT(pe_head, pe_tail, NEvts)
            /\ \A k \in 1 .. Len(Queue), s \in Slots :
                  s = Slot(pe_tail, k) => Queue[k] = Content(s))'
    BY QueueSeq, PTL
  <2> QED
    BY <1>2, <2>1, QueueSeq
<1> HIDE DEF Queue
<1>7. \A k \in 1 .. Len(Queue) : Queue'[k] = Queue[k]
  <2> SUFFICES ASSUME NEW k \in 1 .. Len(Queue) PROVE Queue'[k] = Queue[k]
    OBVIOUS
  <2>1. PICK s \in Slots : s = Slot(pe_tail, k) /\ s # pe_head
    BY <1>5, <1>6
  <2> QED
    <3>1. k \in 1 .. Len(Queue') /\ s = Slot(pe_tail', k)
      BY <1>1, <1>6, <2>1
    <3>2. Queue'[k] = Content(s)' /\ Queue[k] = Content(s)
      BY Zenon, <1>6, <2>1, <3>1
    <3> QED
      BY <1>3, <2>1, <3>2
<1>8. Queue'[Len(Queue) + 1] = te[c]
  <2>1. pe_head = Slot(pe_tail', Len(Queue) + 1)
    BY <1>1, <1>5, <1>6
  <2>2. Len(Queue) + 1 \in 1 .. Len(Queue')
    BY <1>6
  <2>3. PICK s \in Slots : s = pe_head
    BY <1>1
  <2>4. Queue'[Len(Queue) + 1] = Content(s)'
    BY <1>6, <2>1, <2>2, <2>3
  <2> QED
    BY <1>4, <2>3, <2>4
<1>9. Queue' = Append(Queue, te[c])
  <2>1. /\ Queue \in Seq(Events) /\ Queue' \in Seq(Events)
        /\ Len(Queue') = Len(Queue) + 1 /\ te[c] \in Events
    BY <1>1, <1>6
  <2>2. \A r \in Seq(Events) :
           /\ Len(r) = Len(Queue) + 1
           /\ \A k \in 1 .. Len(Queue) : r[k] = Queue[k]
           /\ r[Len(Queue) + 1] = te[c]
           => r = Append(Queue, te[c])
    BY <2>1, IsAppend
  <2> QED
    BY <1>7, <1>8, <2>1, <2>2
<1> QED
  BY <1>1, <1>2, <1>6, <1>9 DEF Fifo!Accept, TriggerAdvance, serve

\* Main, serving an event, serves the oldest one.
LEMMA HeadServed ==
    ASSUME TypeInv, QueueInv, Serving
    PROVE  Queue # <<>> /\ Head(Queue) = evt /\ evt \in Events
<1>1. /\ pe_head \in Slots /\ pe_tail \in Slots /\ n \in Slots /\ n > 0
      /\ n <= CIRC_CNT(pe_head, pe_tail, NEvts)
      /\ evt \in Events /\ pe_buffer[pe_tail] = evt
      /\ \A c \in Ctx : ~Filling(c, pe_tail)
  BY DEF TypeInv, TypeOK, CountsServed, QueueInv, ServeInv, Serving
<1>2. Len(Queue) \in Nat \ {0} /\ Queue \in Seq(Events)
  BY <1>1, QueueSeq DEF Slots
<1>3. Queue[1] = Content(pe_tail)
  BY <1>1, <1>2, QueueSeq, SlotFacts
<1> QED
  BY <1>1, <1>2, <1>3 DEF Content

\* A handler starts on the event at the head of the queue.
LEMMA HandlerRuns ==
    ASSUME TypeInv, QueueInv, StartHandler
    PROVE  Fifo!Run
<1>1. Serving
  BY DEF StartHandler, MainAt, Serving
<1>2. Queue' = Queue
  BY DEF StartHandler, Queue, Content, Filling, queue, trig
<1>3. pe_buffer[pe_tail] = evt
  BY <1>1 DEF QueueInv, ServeInv
<1> QED
  BY <1>1, <1>2, <1>3, HeadServed DEF StartHandler, Fifo!Run

\* Advancing the tail removes the oldest event.
LEMMA RetireLeaves ==
    ASSUME TypeInv, QueueInv, QueueInv', TypeInv', Retire
    PROVE  Fifo!Leave
<1>1. Serving
  BY DEF Retire, MainAt, Serving
<1>2. /\ pe_head \in Slots /\ pe_tail \in Slots
      /\ pe_head' = pe_head /\ pe_tail' = CIRC_INC(pe_tail, NEvts)
      /\ CIRC_CNT(pe_head, pe_tail, NEvts) # 0
      /\ CIRC_CNT(pe_head, pe_tail, NEvts) \in Slots
  <2>1. n \in Slots /\ n > 0 /\ n <= CIRC_CNT(pe_head, pe_tail, NEvts)
    BY <1>1 DEF TypeInv, TypeOK, CountsServed, QueueInv, ServeInv, Serving
  <2>2. pe_head \in Slots /\ pe_tail \in Slots
    BY DEF TypeInv, TypeOK
  <2>3. CIRC_CNT(pe_head, pe_tail, NEvts) \in Slots
    BY <2>2, CircFacts
  <2> QED
    BY <2>1, <2>2, <2>3 DEF Retire, Slots
<1>3. CIRC_CNT(pe_head', pe_tail', NEvts) = CIRC_CNT(pe_head, pe_tail, NEvts) - 1
  BY <1>2, AdvanceTail
<1>4. \A s \in Slots : Content(s)' = Content(s)
  BY DEF Retire, Content, Filling, trig
<1>5. \A k \in 1 .. CIRC_CNT(pe_head, pe_tail, NEvts) - 1 :
         /\ Slot(pe_tail', k) = Slot(pe_tail, k + 1)
         /\ Slot(pe_tail, k + 1) \in Slots
  BY <1>2, NEvtsAssumption, SlotFacts DEF Between, Slots
<1>6. /\ Len(Queue) \in Nat \ {0} /\ Len(Queue') = Len(Queue) - 1
      /\ Queue \in Seq(Events) /\ Queue' \in Seq(Events)
      /\ Len(Queue) = CIRC_CNT(pe_head, pe_tail, NEvts)
      /\ \A k \in 1 .. Len(Queue), s \in Slots :
            s = Slot(pe_tail, k) => Queue[k] = Content(s)
      /\ \A k \in 1 .. Len(Queue'), s \in Slots :
            s = Slot(pe_tail', k) => Queue'[k] = Content(s)'
  <2>1. (TypeInv /\ QueueInv =>
            /\ CIRC_CNT(pe_head, pe_tail, NEvts) \in Nat
            /\ Queue \in Seq(Events)
            /\ Len(Queue) = CIRC_CNT(pe_head, pe_tail, NEvts)
            /\ \A k \in 1 .. Len(Queue), s \in Slots :
                  s = Slot(pe_tail, k) => Queue[k] = Content(s))'
    BY QueueSeq, PTL
  <2> QED
    BY <1>2, <1>3, <2>1, QueueSeq
<1>7. \A k \in 1 .. Len(Queue') : Queue'[k] = Queue[k + 1]
  <2> SUFFICES ASSUME NEW k \in 1 .. Len(Queue') PROVE Queue'[k] = Queue[k + 1]
    OBVIOUS
  <2>1. k \in 1 .. CIRC_CNT(pe_head, pe_tail, NEvts) - 1 /\ k + 1 \in 1 .. Len(Queue)
    BY <1>6
  <2>2. PICK s \in Slots : s = Slot(pe_tail', k) /\ s = Slot(pe_tail, k + 1)
    BY <1>5, <2>1
  <2>3. Queue'[k] = Content(s)' /\ Queue[k + 1] = Content(s)
    BY Zenon, <1>6, <2>1, <2>2
  <2> QED
    BY <1>4, <2>2, <2>3
<1>8. Queue' = Tail(Queue)
  <2>1. /\ Queue \in Seq(Events) /\ Queue' \in Seq(Events)
        /\ Len(Queue) # 0 /\ Len(Queue') = Len(Queue) - 1
    BY <1>6
  <2> QED
    BY <1>7, <2>1, IsTail
<1> QED
  BY <1>1, <1>8, HeadServed DEF Retire, Fifo!Leave

\* Every step of the ring buffer is a step of the queue, or none.
LEMMA FifoStep ==
    IrqsOff /\ TypeInv /\ QueueInv /\ [Next]_vars => [Fifo!FifoNext]_(Fifo!fifoVars)
<1> SUFFICES ASSUME IrqsOff, TypeInv, QueueInv, [Next]_vars
             PROVE  [Fifo!FifoNext]_(Fifo!fifoVars)
  OBVIOUS
<1> USE DEF Fifo!fifoVars
<1>0. TypeInv' /\ QueueInv'
  BY TypeInvNext, QueueInvNext
<1>1. ASSUME UNCHANGED <<queue, trig>>, UNCHANGED <<hdl, given>>
      PROVE  UNCHANGED Fifo!fifoVars
  BY <1>1 DEF Queue, Content, Filling, queue, trig
<1>2. ASSUME NEW i \in Irqs, Raise(i) \/ EnterIsr(i)
      PROVE  UNCHANGED Fifo!fifoVars
  BY <1>1, <1>2 DEF Raise, EnterIsr, serve
<1>3. ASSUME NEW c \in Ctx, NEW e \in Events, TriggerFull(c, e)
      PROVE  UNCHANGED Fifo!fifoVars
  BY <1>1, <1>3 DEF TriggerFull, serve
<1>4. ASSUME NEW c \in Ctx, NEW e \in Events, TriggerReserve(c, e)
      PROVE  UNCHANGED Fifo!fifoVars
  BY <1>4, ReserveIsStutter DEF TriggerReserve, serve
<1>5. ASSUME NEW c \in Ctx, TriggerAdvance(c) PROVE Fifo!FifoNext
  BY <1>0, <1>5, AdvanceAccepts DEF Fifo!FifoNext
<1>6. ASSUME NEW c \in Ctx, TriggerFill(c) PROVE UNCHANGED Fifo!fifoVars
  BY <1>6, FillIsStutter DEF TriggerFill, serve
<1>7. CASE \/ IsrReturn \/ StartHl \/ EndHl \/ ClearRead \/ ClearWrite \/ Unmask
           \/ NextWord \/ Snapshot \/ EndHandler \/ RoundDone \/ CheckPending
           \/ Sleep \/ IdleReturn \/ UNCHANGED vars
  BY <1>1, <1>7 DEF IsrReturn, StartHl, EndHl, ClearRead, ClearWrite, Unmask,
      NextWord, Snapshot, EndHandler, RoundDone, CheckPending, Sleep, IdleReturn,
      vars, serve
<1>8. CASE FetchEvent
  <2>1. hdl' = hdl
    BY <1>8 DEF FetchEvent, MainAt, QueueInv, ServeInv, Serving
  <2> QED
    BY <1>1, <1>8, <2>1 DEF FetchEvent
<1>9. CASE StartHandler
  BY <1>9, HandlerRuns DEF Fifo!FifoNext
<1>10. CASE Retire
  BY <1>0, <1>10, RetireLeaves DEF Fifo!FifoNext
<1> QED
  BY <1>2, <1>3, <1>4, <1>5, <1>6, <1>7, <1>8, <1>9, <1>10
  DEF Next, Trigger, MainLoop

\* On a port whose interrupt_disable() works, trigger_event and the main loop
\* implement a bounded FIFO queue of events: whatever ISRs and handlers do,
\* nothing accepted is lost, duplicated, reordered or replaced, and each
\* handler of each event is started once, with that event.
THEOREM QueueIsFifo == IrqsOff => (Spec => ImplementsFifo)
<1> SUFFICES ASSUME IrqsOff PROVE Spec => ImplementsFifo
  OBVIOUS
<1>1. Init => TypeInv /\ QueueInv
  BY TypeInvInit, QueueInvInit
<1>2. TypeInv /\ QueueInv /\ [Next]_vars => TypeInv' /\ QueueInv'
  BY TypeInvNext, QueueInvNext
<1>3. Init => Fifo!FifoInit
  <2> SUFFICES ASSUME Init PROVE Fifo!FifoInit
    OBVIOUS
  <2>1. Queue \in Seq(Events) /\ Len(Queue) = 0
    <3>1. pe_head = 0 /\ pe_tail = 0 /\ 0 \in Slots
      BY NEvtsAssumption DEF Init, Slots
    <3>2. CIRC_CNT(pe_head, pe_tail, NEvts) = 0
      BY <3>1, CircFacts
    <3> QED
      BY <1>1, <3>2, QueueSeq
  <2> QED
    BY <2>1 DEF Init, Fifo!FifoInit
<1>4. TypeInv /\ QueueInv /\ [Next]_vars => [Fifo!FifoNext]_(Fifo!fifoVars)
  BY FifoStep
<1> QED
  BY <1>1, <1>2, <1>3, <1>4, PTL DEF Spec, ImplementsFifo, Fifo!FifoSpec
=============================================================================
