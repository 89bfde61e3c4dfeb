------------------------------ MODULE SysTimer ------------------------------
(***************************************************************************)
(* The system timer (sys_timer.c) and the periodic scheduler               *)
(* (periodic_scheduler.c) above the queue of events.                       *)
(*                                                                         *)
(* scheduled_ticks is a delta queue: its first element holds an absolute   *)
(* time, each other one the distance from the element before it.  The      *)
(* handler of hw_timer_tick takes the expired elements off the queue and   *)
(* triggers sys_timer_tick for each; the handler of that event runs the    *)
(* task's job and puts the task into the delta queue again.  jiffies is    *)
(* incremented by an ISR between any two steps, and wraps.                 *)
(***************************************************************************)
EXTENDS Integers, Sequences, FiniteSets, FiniteSetsExt

CONSTANTS
    NTasks,      \* the tasks are 1 .. NTasks, in the order of the .task section
    Period,      \* the period of each task
    Release0,    \* the initial release of each task
    HZ,          \* the jiffies pts_init adds to it
    Wrap,        \* the values of an unsigned long: jiffies counts modulo Wrap
    Jiffies0,    \* jiffies when pts_init runs
    NBufs,       \* how many scheduled_ticks the allocator can hold
    QueueSize,   \* how many events the event queue can hold
    MaxLag,      \* bound: jiffies between two scans of the delta queue, and
                 \* timer ticks in the event queue
    MaxOther     \* bound: events of other users in the event queue

Tasks == 1 .. NTasks
Time  == 0 .. Wrap - 1

\* The events: a task t is (sys_timer_tick, t), and
HwTick == 0            \* (hw_timer_tick, NULL)
Other  == NTasks + 1   \* any other event

ASSUME SysTimerAssumption ==
    /\ NTasks \in Nat \ {0}
    /\ Wrap \in Nat \ {0} /\ Wrap % 2 = 0
    /\ Period \in [Tasks -> 1 .. Wrap \div 4]
    /\ Release0 \in [Tasks -> 0 .. Wrap \div 4]
    /\ HZ \in 0 .. Wrap \div 4 /\ Jiffies0 \in Time
    /\ NBufs \in Nat /\ QueueSize \in Nat \ {0}
    /\ MaxLag \in Nat \ {0} /\ MaxOther \in Nat

VARIABLES
    jiffies,
    scheduled_ticks,  \* sequence of [when |-> time or distance, data |-> task]
    release,          \* p->release of each task
    q,                \* the event queue, oldest first
    pc, now,          \* where main is, and the local `now' of the scheduler
    p,                \* the task pts_init or pts_handle is at
    togo,             \* history: jiffies left to the instant that the last
                      \* sys_timer_enqueue_tick of a task was called for
    lag,              \* history: jiffies since scheduled_ticks was scanned
    dead              \* history: tasks dropped by a failed call

vars == <<jiffies, scheduled_ticks, release, q, pc, now, p, togo, lag, dead>>

-----------------------------------------------------------------------------
(* jiffies.h                                                               *)

\* (long)(b) - (long)(a) < 0
time_after(a, b) == (b - a) % Wrap >= Wrap \div 2

time_before(a, b) == time_after(b, a)

\* (long)(b) - (long)(a) >= 0
time_before_eq(a, b) == (b - a) % Wrap < Wrap \div 2

-----------------------------------------------------------------------------
(* sys_timer_enqueue_tick(evt_jiffies, data)                               *)

\* t->when after the loop has passed the first k elements.
Residue(t, s, k) == (t - MapThenSumSet(LAMBDA i : s[i].when, 1 .. k)) % Wrap

\* list_add_tail: x goes in front of the element k of s, or to the end of s.
list_add_tail(x, s, k) ==
    [i \in 1 .. Len(s) + 1 |-> IF i < k THEN s[i] ELSE IF i = k THEN x ELSE s[i - 1]]

\* Mutated form: the element behind the new one keeps its distance.
InsertTickNoAdjust(s, t, data) ==
    LET stops == {k \in DOMAIN s : time_before(Residue(t, s, k - 1), s[k].when)}
        k     == IF stops = {} THEN Len(s) + 1 ELSE Min(stops)
    IN  list_add_tail([when |-> Residue(t, s, k - 1), data |-> data], s, k)

\* The loop stops at the first element that is due after t->when, which is
\* made relative to each element passed; that element becomes relative to t.
InsertTick(s, t, data) ==
    LET stops == {k \in DOMAIN s : time_before(Residue(t, s, k - 1), s[k].when)}
        k     == IF stops = {} THEN Len(s) + 1 ELSE Min(stops)
        r     == Residue(t, s, k - 1)
        s1    == IF stops = {} THEN s
                 ELSE [s EXCEPT ![k].when = (@ - r) % Wrap]
    IN  list_add_tail([when |-> r, data |-> data], s1, k)

\* No buffer for the tick: -ENOMEM, which pts_handle ignores.
EnqueueFails == Len(scheduled_ticks) = NBufs

Enqueue(evt_jiffies, data) ==
    IF EnqueueFails
    THEN /\ dead' = dead \cup {data}
         /\ UNCHANGED <<scheduled_ticks, togo>>
    ELSE /\ scheduled_ticks' =
               InsertTick(scheduled_ticks, (jiffies + evt_jiffies) % Wrap, data)
         /\ togo' = [togo EXCEPT ![data] = evt_jiffies]
         /\ UNCHANGED dead

-----------------------------------------------------------------------------
Init ==
    /\ jiffies = Jiffies0 /\ now = Jiffies0
    /\ scheduled_ticks = <<>>
    /\ release = [t \in Tasks |-> (Release0[t] + Jiffies0 + HZ) % Wrap]
    /\ q = <<>>
    /\ pc = "init" /\ p = 1
    /\ togo = [t \in Tasks |-> 0]
    /\ lag = 0
    /\ dead = {}

\* pts_init enqueues the tasks one after the other and gives up when it
\* cannot enqueue one.
PtsInit ==
    /\ pc = "init"
    /\ IF EnqueueFails
       THEN /\ dead' = dead \cup p .. NTasks
            /\ UNCHANGED <<scheduled_ticks, togo>>
       ELSE Enqueue((release[p] - now) % Wrap, p)
    /\ IF EnqueueFails \/ p = NTasks
       THEN pc' = "loop" /\ p' = 1 /\ now' = 0
       ELSE pc' = pc /\ p' = p + 1 /\ now' = now
    /\ UNCHANGED <<jiffies, release, q, lag>>

\* The tasks in the delta queue, and how many events of a kind are queued.
Scheduled == {scheduled_ticks[k].data : k \in DOMAIN scheduled_ticks}
Queued(e) == Cardinality({k \in DOMAIN q : q[k] = e})

\* The timer interrupt: jiffies++, and trigger_event(hw_timer_tick).  Main is
\* at most MaxLag jiffies late with its scans when it has something to do.
TimerIrq ==
    /\ lag < MaxLag \/ q = <<>>
    /\ Queued(HwTick) < MaxLag
    /\ lag' = lag + 1
    /\ jiffies' = (jiffies + 1) % Wrap
    /\ q' = IF Len(q) < QueueSize THEN Append(q, HwTick) ELSE q
    /\ togo' = [t \in Tasks |-> IF t \in Scheduled THEN togo[t] - 1 ELSE togo[t]]
    /\ UNCHANGED <<scheduled_ticks, release, pc, now, p, dead>>

\* Some other driver or handler triggers an event of its own.
OtherEvent ==
    /\ Len(q) < QueueSize
    /\ Queued(Other) < MaxOther
    /\ q' = Append(q, Other)
    /\ UNCHANGED <<jiffies, scheduled_ticks, release, pc, now, p, togo, lag, dead>>

-----------------------------------------------------------------------------
(* The handlers.  An event leaves the queue when its handler returns.      *)

OtherHandled ==
    /\ pc = "loop" /\ q # <<>> /\ Head(q) = Other
    /\ q' = Tail(q)
    /\ UNCHANGED <<jiffies, scheduled_ticks, release, pc, now, p, togo, lag, dead>>

\* on_hw_timer_tick starts.
TickStart ==
    /\ pc = "loop" /\ q # <<>> /\ Head(q) = HwTick
    /\ pc' = "scan"
    /\ lag' = 0
    /\ UNCHANGED <<jiffies, scheduled_ticks, release, q, now, p, togo, dead>>

Expired ==
    scheduled_ticks # <<>> /\ ~time_after(Head(scheduled_ticks).when, jiffies)

\* The list is empty, or its first element is in the future.
TickEnd ==
    /\ pc = "scan"
    /\ ~Expired
    /\ pc' = "loop"
    /\ q' = Tail(q)
    /\ UNCHANGED <<jiffies, scheduled_ticks, release, now, p, togo, lag, dead>>

\* The first element has expired: sys_timer_tick is triggered, if there is
\* room for it ...
TickFire ==
    /\ pc = "scan"
    /\ Expired
    /\ IF Len(q) < QueueSize
       THEN q' = Append(q, Head(scheduled_ticks).data) /\ UNCHANGED dead
       ELSE dead' = dead \cup {Head(scheduled_ticks).data} /\ UNCHANGED q
    /\ pc' = "pop"
    /\ UNCHANGED <<jiffies, scheduled_ticks, release, now, p, togo, lag>>

\* Mutated form: list_del is forgotten.
TickPopNoDel ==
    /\ pc = "pop"
    /\ pc' = "scan"
    /\ UNCHANGED <<jiffies, scheduled_ticks, release, q, now, p, togo, lag, dead>>

\* ... and the next element is made absolute, from the current jiffies.
TickPop ==
    /\ pc = "pop"
    /\ scheduled_ticks' =
          LET s == Tail(scheduled_ticks)
          IN  IF s = <<>> THEN s ELSE [s EXCEPT ![1].when = (@ + jiffies) % Wrap]
    /\ pc' = "scan"
    /\ UNCHANGED <<jiffies, release, q, now, p, togo, lag, dead>>

\* pts_handle: the job has run, the next release is computed ...
PtsHandle ==
    /\ pc = "loop" /\ q # <<>> /\ Head(q) \in Tasks
    /\ p' = Head(q)
    /\ LET r == (release[p'] + Period[p']) % Wrap
       IN  release' = [release EXCEPT ![p'] =
                          IF time_before_eq(r, jiffies) THEN (jiffies + 1) % Wrap ELSE r]
    /\ now' = jiffies
    /\ pc' = "rearm"
    /\ UNCHANGED <<jiffies, scheduled_ticks, q, togo, lag, dead>>

\* Mutated form: a task whose release has come meanwhile is not enqueued.
PtsRearmAhead ==
    /\ pc = "rearm"
    /\ IF time_before_eq(release[p], jiffies) THEN UNCHANGED <<scheduled_ticks, togo, dead>>
       ELSE Enqueue((release[p] - now) % Wrap, p)
    /\ q' = Tail(q)
    /\ pc' = "loop"
    /\ p' = 1 /\ now' = 0
    /\ UNCHANGED <<jiffies, release, lag>>

\* ... and the task is enqueued for it; jiffies is read again by then.
PtsRearm ==
    /\ pc = "rearm"
    /\ Enqueue((release[p] - now) % Wrap, p)
    /\ q' = Tail(q)
    /\ pc' = "loop"
    /\ p' = 1 /\ now' = 0
    /\ UNCHANGED <<jiffies, release, lag>>

Main == PtsInit \/ OtherHandled \/ TickStart \/ TickEnd \/ TickFire \/ TickPop
          \/ PtsHandle \/ PtsRearm

Next == TimerIrq \/ OtherEvent \/ Main

Spec == Init /\ [][Next]_vars

\* Main and the timer run for ever.
FairSpec == Spec /\ WF_vars(Main) /\ WF_vars(TimerIrq)

-----------------------------------------------------------------------------
TypeOK ==
    /\ jiffies \in Time /\ now \in Time
    /\ scheduled_ticks \in Seq([when : Time, data : Tasks])
    /\ Len(scheduled_ticks) <= NBufs
    /\ release \in [Tasks -> Time]
    /\ q \in Seq({HwTick, Other} \cup Tasks) /\ Len(q) <= QueueSize
    /\ pc \in {"init", "loop", "scan", "pop", "rearm"}
    /\ p \in Tasks
    /\ togo \in [Tasks -> Int]
    /\ lag \in 0 .. MaxLag + 1
    /\ dead \subseteq Tasks

\* The first k distances, as on_hw_timer_tick will add them up: the jiffies
\* left until element k expires, counted from now (negative when it is late).
Expires(k) ==
    LET d == (MapThenSumSet(LAMBDA i : scheduled_ticks[i].when, 1 .. k) - jiffies) % Wrap
    IN  IF d < Wrap \div 2 THEN d ELSE d - Wrap

\* The delta queue never lets a tick expire before the instant it was asked
\* for, whatever was inserted before it or removed since, and is sorted.
NeverEarly ==
    /\ pc # "pop" => \A k \in DOMAIN scheduled_ticks :
          /\ Expires(k) >= togo[scheduled_ticks[k].data]
          /\ k > 1 => Expires(k) >= Expires(k - 1)
    /\ \A t \in Tasks : Queued(t) > 0 => togo[t] <= 0

\* A tick is late by at most one lag for itself and one for each task that
\* may have been before it: on_hw_timer_tick makes the next element absolute
\* from the current jiffies and not from the time of the element it removes.
LateBounded ==
    \A t \in Tasks : Queued(t) > 0 => togo[t] >= -(NTasks * (MaxLag + 1))

\* The delta queue keeps the times that were asked for, whatever is inserted
\* and removed and wherever jiffies wraps: a tick is never early, and its
\* delay is bounded.
OnTime == NeverEarly /\ LateBounded

\* The elements of the delta queue that have not been triggered.
Waiting == IF pc = "pop" THEN 2 .. Len(scheduled_ticks) ELSE DOMAIN scheduled_ticks

\* Every task is in exactly one place: waiting in the delta queue, in the
\* event queue (or running), or dropped because of -ENOMEM.
ExactlyOnce ==
    pc # "init" =>
        \A t \in Tasks :
            Cardinality({k \in Waiting : scheduled_ticks[k].data = t})
              + Queued(t) + (IF t \in dead THEN 1 ELSE 0) = 1

\* Every task that was not dropped is released again and again.
TasksRun == \A t \in Tasks : []<>(Queued(t) > 0 \/ t \in dead)
=============================================================================
