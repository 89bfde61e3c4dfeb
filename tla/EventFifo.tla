----------------------------- MODULE EventFifo -----------------------------
(***************************************************************************)
(* What the queue of regular events promises its users.  An event whose    *)
(* trigger_event succeeds is queued once, behind every event accepted      *)
(* before it; each of its handlers is started once, while it is the oldest *)
(* event of the queue, and is given that event; then it leaves the queue.  *)
(* The queue holds at most Capacity events.                                *)
(***************************************************************************)
EXTENDS Naturals, Sequences

CONSTANTS Events, NrHandlers, Capacity, NoEvent

VARIABLES
    q,        \* the accepted events, oldest first
    started,  \* how many handlers of the oldest one have been started
    last      \* the event the last of them was given

fifoVars == <<q, started, last>>

FifoInit == q = <<>> /\ started = 0 /\ last = NoEvent

Accept(e) ==
    /\ Len(q) < Capacity
    /\ q' = Append(q, e)
    /\ UNCHANGED <<started, last>>

Run ==
    /\ q # <<>>
    /\ started < NrHandlers[Head(q)]
    /\ started' = started + 1
    /\ last' = Head(q)
    /\ UNCHANGED q

Leave ==
    /\ q # <<>>
    /\ started = NrHandlers[Head(q)]
    /\ q' = Tail(q)
    /\ started' = 0
    /\ last' = NoEvent

FifoNext == (\E e \in Events : Accept(e)) \/ Run \/ Leave

FifoSpec == FifoInit /\ [][FifoNext]_fifoVars
=============================================================================
