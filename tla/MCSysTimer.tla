----------------------------- MODULE MCSysTimer -----------------------------
(* Small instances of SysTimer for TLC.                                    *)
EXTENDS SysTimer

\* Periods of 2 and 3 jiffies (and 2 for a third task).
MCPeriod == [t \in Tasks |-> IF t = 2 THEN 3 ELSE 2]

\* The first releases: together for the first two tasks.
MCRelease0 == [t \in Tasks |-> IF t = 3 THEN 1 ELSE 0]
=============================================================================
