-------------------------------- MODULE Pipe --------------------------------
(***************************************************************************)
(* The life of a pipe (lib/pipe.c) on the unix port: its files             *)
(* (arch-unix/pipe.c), the idle loop that selects on them                  *)
(* (arch-unix/idle.c), a uart of the devices section (drivers/dev.c), and  *)
(* the tasks that close and reopen a pipe at its end of file               *)
(* (mcuio/task-mcuio.c, tasks/task-loopback-pipe.c).                       *)
(*                                                                         *)
(* Everything runs in thread context, one handler after the other; what is *)
(* hard is that opening and closing are completed by events, so that other *)
(* handlers run in between.                                                *)
(***************************************************************************)
EXTENDS Integers, Sequences, FiniteSets, Functions, FiniteSetsExt

CONSTANTS
    NBufs,       \* how many struct bathos_pipe the allocator can hold
    NSlots,      \* MAX_BATHOS_PIPES
    MaxFd,       \* the process can have the descriptors 0 .. MaxFd
    Names,       \* the pipes' names: a subset of {"uart", "file", "fd"}
    Modes,       \* the pipes' modes: a subset of {"in", "out", "inout"}
    QueueSize,   \* how many events the event queue can hold
    MallocDirty  \* whether malloc may return memory that is not zero

Pids  == 1 .. NBufs
Fds   == 0 .. MaxFd
Uart  == 0                 \* the uart's struct bathos_dev
Devs  == {Uart} \cup Pids  \* the unix port makes a device for each pipe
NULL  == -1
FREE_FD     == -1
RESERVED_FD == -2
TheFd == 0                 \* the descriptor that the name "fd" stands for

ASSUME PipeAssumption ==
    /\ NBufs \in Nat \ {0} /\ NSlots \in Nat \ {0} /\ MaxFd \in Nat
    /\ Names \subseteq {"uart", "file", "fd"} /\ Names # {}
    /\ Modes \subseteq {"in", "out", "inout"} /\ Modes # {}
    /\ QueueSize \in Nat \ {0} /\ MallocDirty \in BOOLEAN

VARIABLES
    nalloc,   \* the pipes 1 .. nalloc have been allocated
    pipe,     \* of each pipe: [n |-> name, mode, dev |-> device or NULL]
    pipes,    \* dev->pipes of each device
    fd, spipe, \* priv[] of arch-unix/pipe.c: fd and pipe of each slot
    slot,     \* dev->arch_priv of the devices of the unix port
    osfds,    \* the descriptors that are open
    rd_fdset, wr_fdset, nfds,
    rx,       \* the uart's receiver is enabled
    q,        \* the event queue: <<event, pipe>>
    owned,    \* the pipes the tasks have open
    faults    \* history: what went wrong in a handler

port == <<fd, spipe, slot, osfds>>
sel  == <<rd_fdset, wr_fdset, nfds>>
vars == <<nalloc, pipe, pipes, port, sel, rx, q, owned, faults>>

In(p)  == pipe[p].mode \in {"in", "inout"}
Out(p) == pipe[p].mode \in {"out", "inout"}

Init ==
    /\ nalloc = 0
    /\ pipe = [p \in Pids |-> [n |-> "uart", mode |-> "in", dev |-> NULL]]
    /\ pipes = [d \in Devs |-> <<>>]
    /\ fd = [i \in 1 .. NSlots |-> FREE_FD]
    /\ spipe = [i \in 1 .. NSlots |-> NULL]
    /\ slot = [p \in Pids |-> NULL]
    /\ osfds = IF "fd" \in Names THEN {TheFd} ELSE {}
    /\ rd_fdset = {} /\ wr_fdset = {} /\ nfds = 0
    /\ rx = FALSE
    /\ q = <<>>
    /\ owned = {}
    /\ faults = {}

\* A queue after trigger_event for the events es, in that order.
Trigger(queue, es) ==
    queue \o SubSeq(es, 1, Min({Len(es), QueueSize - Len(queue)}))

-----------------------------------------------------------------------------
(* pipe_open(n, mode)                                                      *)

\* The first free slot, and the lowest free descriptor, or NULL.
FreeSlot == LET free == {i \in 1 .. NSlots : fd[i] = FREE_FD}
            IN  IF free = {} THEN NULL ELSE Min(free)
FreeFd   == LET free == Fds \ osfds
            IN  IF free = {} THEN NULL ELSE Min(free)

\* Allocation comes first; a buffer that was allocated never goes back.
Allocated(n, mode, dev) ==
    /\ nalloc' = nalloc + 1
    /\ pipe' = [pipe EXCEPT ![nalloc + 1] = [n |-> n, mode |-> mode, dev |-> dev]]

\* ... list_add and the event, with the queue and the tasks' pipes (and the
\* faults, below) as they are before the call.
Listed(d, mode, queue, own) ==
    LET p == nalloc + 1
    IN  /\ pipes' = [pipes EXCEPT ![d] = <<p>> \o @]
        /\ owned' = own \cup {p}
        /\ q' = Trigger(queue,
                    <<<<IF mode # "out" THEN "in_opened" ELSE "out_opened", p>>>>)

\* -ENFILE: there is no buffer.
OpenNoBuffer(queue, own, flt) ==
    /\ nalloc = NBufs
    /\ q' = queue /\ owned' = own /\ faults' = flt
    /\ UNCHANGED <<nalloc, pipe, pipes, port, rx>>

\* The uart: bathos_dev_open, which enables what the mode asks for.
OpenUart(mode, queue, own, flt) ==
    /\ nalloc < NBufs
    /\ Allocated("uart", mode, Uart)
    /\ Listed(Uart, mode, queue, own)
    /\ rx' = (rx \/ mode \in {"in", "inout"})
    /\ faults' = flt
    /\ UNCHANGED port

\* The uart's open fails, for instance because of -ENOMEM.
OpenUartFails(mode, queue, own, flt) ==
    /\ nalloc < NBufs
    /\ Allocated("uart", mode, NULL)
    /\ q' = queue /\ owned' = own /\ faults' = flt
    /\ UNCHANGED <<pipes, port, rx>>

\* bathos_arch_find_dev finds no slot: -ENXIO.
OpenNoSlot(n, mode, queue, own, flt) ==
    /\ nalloc < NBufs /\ FreeSlot = NULL
    /\ Allocated(n, mode, NULL)
    /\ q' = queue /\ owned' = own /\ faults' = flt
    /\ UNCHANGED <<pipes, port, rx>>

\* bathos_arch_find_dev makes a device and unix_open opens the file.  The
\* device is not zeroed, so that its list may look initialized.
OpenUnix(n, mode, queue, own, flt) ==
    /\ nalloc < NBufs /\ FreeSlot # NULL
    /\ n = "file" => FreeFd # NULL
    /\ LET p == nalloc + 1
           f == IF n = "fd" THEN TheFd ELSE FreeFd
       IN  /\ Allocated(n, mode, p)
           /\ slot' = [slot EXCEPT ![p] = FreeSlot]
           /\ spipe' = [spipe EXCEPT ![FreeSlot] = p]
           /\ fd' = [fd EXCEPT ![FreeSlot] = f]
           /\ osfds' = IF n = "fd" THEN osfds ELSE osfds \cup {f}
           /\ Listed(p, mode, queue, own)
           /\ \/ faults' = flt
              \/ MallocDirty /\ faults' = flt \cup {"wild list"}
    /\ UNCHANGED rx

\* unix_open fails: fd is -1, which also marks the slot as free.
OpenUnixFails(mode, queue, own, flt) ==
    /\ nalloc < NBufs /\ FreeSlot # NULL
    /\ Allocated("file", mode, NULL)
    /\ spipe' = [spipe EXCEPT ![FreeSlot] = nalloc + 1]
    /\ q' = queue /\ owned' = own /\ faults' = flt
    /\ UNCHANGED <<pipes, fd, slot, osfds, rx>>

pipe_open(n, mode, queue, own, flt) ==
    \/ OpenNoBuffer(queue, own, flt)
    \/ n = "uart" /\ OpenUart(mode, queue, own, flt)
    \/ n = "uart" /\ OpenUartFails(mode, queue, own, flt)
    \/ n # "uart" /\ OpenNoSlot(n, mode, queue, own, flt)
    \/ n # "uart" /\ OpenUnix(n, mode, queue, own, flt)
    \/ n = "file" /\ OpenUnixFails(mode, queue, own, flt)

\* Mutated form: the event that frees the pipe is forgotten.
CloseEventsNoFree(p) == <<<<IF In(p) THEN "in_closed" ELSE "out_closed", p>>>>

\* Mutated form: each direction frees the pipe.
CloseEventsTwice(p) ==
    (IF In(p) THEN <<<<"in_closed", p>>, <<"really_closed", p>>>> ELSE <<>>)
      \o (IF Out(p) THEN <<<<"out_closed", p>>, <<"really_closed", p>>>> ELSE <<>>)

\* The two events of pipe_close(p), which does nothing else.
CloseEvents(p) == <<<<IF In(p) THEN "in_closed" ELSE "out_closed", p>>,
                    <<"really_closed", p>>>>

\* The faults when the queue has no room for both.
Dropped(queue) ==
    IF Len(queue) + 2 > QueueSize THEN faults \cup {"event dropped"} ELSE faults

-----------------------------------------------------------------------------
(* A task opens or closes a pipe.                                          *)

Idling == q = <<>>

TaskOpens ==
    /\ \E n \in Names, mode \in Modes : pipe_open(n, mode, q, owned, faults)
    /\ UNCHANGED sel

\* pipe_close returns -EBADF when p->dev is NULL.
TaskCloses ==
    \E p \in owned :
        /\ owned' = owned \ {p}
        /\ pipe[p].dev # NULL
        /\ q' = Trigger(q, CloseEvents(p))
        /\ faults' = Dropped(q)
        /\ UNCHANGED <<nalloc, pipe, pipes, port, sel, rx>>

-----------------------------------------------------------------------------
(* The handlers of the events                                              *)

At(e) == q # <<>> /\ Head(q)[1] \in e

\* Whether p has a device of the unix port, and its descriptor.
HasFile(p) == pipe[p].dev \in Pids
FdOf(p)    == fd[slot[pipe[p].dev]]

\* pipe_opened_handle
Opened ==
    /\ At({"in_opened", "out_opened"})
    /\ LET p == Head(q)[2]
       IN  IF HasFile(p)
           THEN /\ rd_fdset' = IF In(p) THEN rd_fdset \cup {FdOf(p)} ELSE rd_fdset
                /\ wr_fdset' = IF Out(p) THEN wr_fdset \cup {FdOf(p)} ELSE wr_fdset
                /\ nfds' = Max({nfds, FdOf(p) + 1})
           ELSE UNCHANGED sel
    /\ q' = Tail(q)
    /\ UNCHANGED <<nalloc, pipe, pipes, port, rx, owned, faults>>

\* __recalc_nfds, for the sets r and w.
recalc_nfds(r, w) == IF r \cup w = {} THEN -1 ELSE Max(r \cup w) + 1

\* pipe_closed_handle
Closed ==
    /\ At({"in_closed", "out_closed"})
    /\ LET p == Head(q)[2]
       IN  IF HasFile(p)
           THEN /\ rd_fdset' = IF In(p) THEN rd_fdset \ {FdOf(p)} ELSE rd_fdset
                /\ wr_fdset' = IF Out(p) THEN wr_fdset \ {FdOf(p)} ELSE wr_fdset
                /\ nfds' = IF FdOf(p) + 1 = nfds
                           THEN recalc_nfds(rd_fdset', wr_fdset') ELSE nfds
           ELSE UNCHANGED sel
    /\ q' = Tail(q)
    /\ UNCHANGED <<nalloc, pipe, pipes, port, rx, owned, faults>>

\* Mutated form: the pipe is not taken off the list.
ReallyClosedKeepsList ==
    /\ At({"really_closed"})
    /\ LET p == Head(q)[2]
       IN  pipe' = [pipe EXCEPT ![p].dev = NULL]
    /\ q' = Tail(q)
    /\ UNCHANGED <<nalloc, pipes, port, sel, rx, owned, faults>>

\* list_del_init: the list s without p, which is on it.
list_del(p, s) ==
    LET i == CHOOSE j \in DOMAIN s : s[j] = p
    IN  [k \in 1 .. Len(s) - 1 |-> IF k < i THEN s[k] ELSE s[k + 1]]

\* do_free_pipe: the last pipe of a device closes it (unix_close, or
\* bathos_dev_close, which disables what the mode of this pipe asks for).
ReallyClosed ==
    /\ At({"really_closed"})
    /\ LET p == Head(q)[2]
           d == pipe[p].dev
           last == d # NULL /\ list_del(p, pipes[d]) = <<>>
       IN  IF d = NULL
           THEN /\ faults' = faults \cup {"no device"}
                /\ UNCHANGED <<pipe, pipes, port, rx>>
           ELSE /\ pipes' = [pipes EXCEPT ![d] = list_del(p, @)]
                /\ IF last /\ d # Uart
                   THEN /\ osfds' = osfds \ {FdOf(p)}
                        /\ fd' = [fd EXCEPT ![slot[d]] = FREE_FD]
                   ELSE UNCHANGED <<osfds, fd>>
                /\ rx' = (rx /\ ~(last /\ d = Uart /\ In(p)))
                /\ pipe' = [pipe EXCEPT ![p].dev = NULL]
                /\ UNCHANGED <<spipe, slot, faults>>
    /\ q' = Tail(q)
    /\ UNCHANGED <<nalloc, sel, owned>>

\* The reader of a pipe: an error, or some data.
InputRead ==
    /\ At({"input_ready"})
    /\ q' = Tail(q)
    /\ UNCHANGED <<nalloc, pipe, pipes, port, sel, rx, owned, faults>>

\* The reader of a pipe at end of file closes the pipe and opens it again.
InputEof ==
    /\ At({"input_ready"})
    /\ LET p == Head(q)[2]
           own == owned \ {p}
       IN  /\ p \in owned /\ HasFile(p) /\ In(p)
           /\ pipe_open(pipe[p].n, pipe[p].mode, Trigger(Tail(q), CloseEvents(p)),
                        own, Dropped(Tail(q)))
    /\ UNCHANGED sel

\* pipe_output_ready, hw_timer_tick
OtherHandled ==
    /\ At({"output_ready", "tick"})
    /\ q' = Tail(q)
    /\ UNCHANGED <<nalloc, pipe, pipes, port, sel, rx, owned, faults>>

-----------------------------------------------------------------------------
(* idle()                                                                  *)

Selected  == {f \in rd_fdset : f < nfds}
SelectOk  == nfds >= 0 /\ Selected \subseteq osfds
FdToPipe(f) == LET s == {i \in 1 .. NSlots : fd[i] = f}
               IN  IF s = {} THEN NULL ELSE spipe[Min(s)]

\* The events trigger_event_for_pipe(p) triggers.
ReadyEvents(p) ==
    LET all(e) == [k \in DOMAIN pipes[pipe[p].dev] |-> <<e, pipes[pipe[p].dev][k]>>]
    IN  (IF In(p) THEN all("input_ready") ELSE <<>>)
          \o (IF Out(p) THEN all("output_ready") ELSE <<>>)

\* select fails: the process sleeps for a second.
IdleError ==
    /\ Idling /\ ~SelectOk
    /\ UNCHANGED vars

IdleTimeout ==
    /\ Idling /\ SelectOk
    /\ q' = Trigger(q, <<<<"tick", 0>>>>)
    /\ UNCHANGED <<nalloc, pipe, pipes, port, sel, rx, owned, faults>>

\* One descriptor is ready (more of them are more of the same).
IdleReady ==
    /\ Idling /\ SelectOk
    /\ \E f \in Selected :
          LET p == FdToPipe(f)
          IN  IF p = NULL \/ pipe[p].dev = NULL
              THEN faults' = faults \cup {"no pipe"} /\ UNCHANGED q
              ELSE q' = Trigger(q, ReadyEvents(p)) /\ UNCHANGED faults
    /\ UNCHANGED <<nalloc, pipe, pipes, port, sel, rx, owned>>

Handle == Opened \/ Closed \/ ReallyClosed \/ InputRead \/ InputEof \/ OtherHandled
Idle   == IdleError \/ IdleTimeout \/ IdleReady

Next == TaskOpens \/ TaskCloses \/ Handle \/ Idle

Spec == Init /\ [][Next]_vars

\* The main loop goes on.
FairSpec == Spec /\ WF_vars(Handle)

-----------------------------------------------------------------------------
TypeOK ==
    /\ nalloc \in 0 .. NBufs
    /\ pipe \in [Pids -> [n : {"uart", "file", "fd"}, mode : {"in", "out", "inout"},
                          dev : Devs \cup {NULL}]]
    /\ pipes \in [Devs -> Seq(Pids)]
    /\ fd \in [1 .. NSlots -> Fds \cup {FREE_FD, RESERVED_FD}]
    /\ spipe \in [1 .. NSlots -> Pids \cup {NULL}]
    /\ slot \in [Pids -> 1 .. NSlots \cup {NULL}]
    /\ osfds \subseteq Fds /\ rd_fdset \subseteq Fds /\ wr_fdset \subseteq Fds
    /\ nfds \in -1 .. MaxFd + 1
    /\ rx \in BOOLEAN
    /\ q \in Seq({"in_opened", "out_opened", "in_closed", "out_closed",
                  "really_closed", "input_ready", "output_ready", "tick"}
                   \X (Pids \cup {0}))
    /\ Len(q) <= QueueSize
    /\ owned \subseteq Pids

\* A device's list holds, once each, the pipes that point to the device; and
\* every pipe a task has open is one of them.
ListsMatch ==
    /\ \A d \in Devs :
          /\ Range(pipes[d]) = {p \in 1 .. nalloc : pipe[p].dev = d}
          /\ IsInjective(pipes[d])
    /\ \A p \in owned : pipe[p].dev # NULL

\* idle() selects on descriptors that are open.
SelectedFdsOpen == Idling => Selected \subseteq osfds

\* Nobody meets a pipe that is gone: there is no second really_closed event
\* for a pipe, no ready descriptor belongs to no open pipe, and idle() does
\* not select on a descriptor that was closed.
NoFaults == faults \cap {"no device", "no pipe"} = {} /\ SelectedFdsOpen

\* Every pipe that is closed is taken off its device's list, unless the queue
\* had no room for the events of a pipe_close, which returns no error.
ClosedPipesLeave ==
    \A p \in Pids :
        (p <= nalloc /\ p \notin owned)
            ~> (pipe[p].dev = NULL \/ "event dropped" \in faults)
=============================================================================
