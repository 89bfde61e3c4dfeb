------------------------------ MODULE MCEvent ------------------------------
(* Small instances of Event for TLC.                                       *)
EXTENDS Event

\* Event "b" has two handlers, the timer tick one.
MCHandlers == [e \in Events |-> IF e = TickEvent THEN 1 ELSE 2]
=============================================================================
