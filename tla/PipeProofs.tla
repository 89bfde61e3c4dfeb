----------------------------- MODULE PipeProofs -----------------------------
(***************************************************************************)
(* Proofs about Pipe, for every number of pipes, slots, descriptors and    *)
(* events: the lists of the devices hold the pipes that are open, each of  *)
(* them once, and no handler meets a pipe that is gone.                    *)
(*                                                                         *)
(* The lists need ListInv: the event that frees a pipe is queued once and  *)
(* after pipe_close alone, so that do_free_pipe takes a pipe off a list    *)
(* that it is on.  The handlers need the order of the events of a pipe's   *)
(* life as well (Sorted), and that slots and descriptors belong to one     *)
(* pipe each (SlotInv, WatchInv); that is only so where no pipe is opened  *)
(* on a descriptor that another pipe may have.                             *)
(***************************************************************************)
EXTENDS PipeLemmas, WellFoundedInduction

-----------------------------------------------------------------------------
(* The lists of the devices.                                               *)

\* The least of some natural numbers.
LEMMA LeastNatural ==
    ASSUME NEW T, T \subseteq Nat, T # {}
    PROVE  Min(T) \in T
<1>1. \E x \in T : \A y \in T : ~(<<y, x>> \in OpToRel(<, Nat))
  BY Zenon, NatLessThanWellFounded, WFMin
<1>2. PICK x \in T : \A y \in T : ~(<<y, x>> \in OpToRel(<, Nat))
  BY Zenon, <1>1
<1>3. \A y \in T : x <= y
  <2> SUFFICES ASSUME NEW y \in T PROVE x <= y
    OBVIOUS
  <2>1. x \in Nat /\ y \in Nat
    OBVIOUS
  <2>2. <<y, x>> \in Nat \X Nat /\ <<y, x>>[1] = y /\ <<y, x>>[2] = x
    BY <2>1
  <2>3. ~(y < x)
    BY <1>2, <2>2 DEF OpToRel
  <2> QED
    BY <2>1, <2>3
<1>4. \E z \in T : \A y \in T : z <= y
  BY <1>3
<1> QED
  BY Zenon, <1>4 DEF Min

SpipeOK == spipe \in [1 .. NSlots -> Pids \cup {NULL}]

\* The pipe that idle() finds for a descriptor is a pipe.
LEMMA FoundPipe ==
    ASSUME SpipeOK, NEW f, FdToPipe(f) # NULL
    PROVE  FdToPipe(f) \in Pids
<1> DEFINE s == {i \in 1 .. NSlots : fd[i] = f}
<1>1. s # {} /\ FdToPipe(f) = spipe[Min(s)]
  BY DEF FdToPipe
<1>2. s \subseteq Nat /\ s \subseteq 1 .. NSlots
  BY PipeAssumption
<1> HIDE DEF s
<1>3. Min(s) \in s
  BY Zenon, <1>1, <1>2, LeastNatural
<1> QED
  BY Zenon, <1>1, <1>2, <1>3 DEF SpipeOK

\* The slots hold pipes.
LEMMA NextSpipe ==
    ASSUME SpipeOK, nalloc \in 0 .. NBufs, [Next]_vars
    PROVE  SpipeOK'
<1>1. ASSUME NEW n, NEW mode, NEW s, NEW own, NEW flt, pipe_open(n, mode, s, own, flt)
      PROVE  SpipeOK'
  <2>1. CASE UNCHANGED spipe
    BY <2>1 DEF SpipeOK
  <2>2. CASE nalloc < NBufs /\ spipe' = [spipe EXCEPT ![FreeSlot] = nalloc + 1]
    <3>1. nalloc + 1 \in Pids
      BY <2>2, PipeAssumption DEF Pids
    <3> QED
      BY Zenon, <2>2, <3>1 DEF SpipeOK
  <2> QED
    BY Zenon, <1>1, <2>1, <2>2 DEF pipe_open, OpenNoBuffer, OpenUart, OpenUartFails,
       OpenNoSlot, OpenUnix, OpenUnixFails, port
<1>2. CASE TaskOpens
  BY <1>1, <1>2 DEF TaskOpens
<1>3. CASE InputEof
  BY <1>1, <1>3 DEF InputEof
<1>4. CASE ReallyClosed
  BY Zenon, <1>4 DEF ReallyClosed, SpipeOK, port
<1>5. CASE TaskCloses \/ Opened \/ Closed \/ InputRead \/ OtherHandled \/ Idle \/ UNCHANGED vars
  <2>1. UNCHANGED spipe
    BY Zenon, <1>5 DEF TaskCloses, Opened, Closed, InputRead, OtherHandled, Idle, IdleError,
                IdleTimeout, IdleReady, vars, port
  <2> QED
    BY <2>1 DEF SpipeOK
<1> QED
  BY <1>2, <1>3, <1>4, <1>5 DEF Next, Handle

\* The lists, before any assumption on the names.
LEMMA NextLists ==
    ASSUME ListInv(q, owned), SpipeOK, [Next]_vars
    PROVE  ListInv(q, owned)'
<1> DEFINE p == Head(q)[2]
<1>1. q \in Seq(Events) /\ pipe \in [Pids -> PipeRec] /\ owned \subseteq Pids
  BY DEF ListInv
<1>2. CASE TaskOpens
  <2>1. PICK n \in Names, mode \in Modes : pipe_open(n, mode, q, owned, faults)
    BY <1>2 DEF TaskOpens
  <2>2. n \in {"uart", "file", "fd"} /\ mode \in {"in", "out", "inout"}
    BY PipeAssumption
  <2> QED
    BY <2>1, <2>2, OpenLists
<1>3. CASE TaskCloses
  <2>1. PICK r \in owned : /\ owned' = owned \ {r} /\ q' = Trigger(q, CloseEvents(r))
                           /\ UNCHANGED <<nalloc, pipe, pipes>>
    BY <1>3 DEF TaskCloses
  <2>2. ListInv(Trigger(q, CloseEvents(r)), owned \ {r})
    BY ClosingLists
  <2> QED
    BY <2>1, <2>2 DEF ListInv
<1>4. ASSUME q # <<>>, q' = Tail(q), UNCHANGED <<nalloc, pipe, pipes, owned>>
      PROVE  ListInv(q, owned)'
  <2>1. ListInv(Tail(q), owned)
    BY <1>4, TailLists
  <2> QED
    BY <1>4, <2>1 DEF ListInv
<1>5. CASE Opened \/ Closed \/ InputRead \/ OtherHandled
  BY <1>4, <1>5 DEF Opened, Closed, InputRead, OtherHandled, At
<1>6. CASE ReallyClosed
  BY <1>6, FreedLists
<1>7. CASE InputEof
  <2>1. /\ q # <<>> /\ p \in owned
        /\ pipe_open(pipe[p].n, pipe[p].mode, Trigger(Tail(q), CloseEvents(p)),
                     owned \ {p}, Dropped(Tail(q)))
    BY <1>7 DEF InputEof, At
  <2>2. pipe[p].n \in {"uart", "file", "fd"} /\ pipe[p].mode \in {"in", "out", "inout"}
    BY <1>1, <2>1 DEF PipeRec
  <2> HIDE DEF p
  <2>3. ListInv(Tail(q), owned)
    BY <2>1, TailLists
  <2>4. ListInv(Trigger(Tail(q), CloseEvents(p)), owned \ {p})
    BY <2>1, <2>3, ClosingLists
  <2> QED
    BY <2>1, <2>2, <2>4, OpenLists
<1>8. CASE IdleError
  BY <1>8 DEF IdleError, vars, ListInv
<1>9. ASSUME q = <<>>, NEW es \in Seq(Events), q' = Trigger(q, es), UpTo(es, nalloc),
             \A i \in 1 .. Len(es) : Rank(es[i][1]) = 0,
             UNCHANGED <<nalloc, pipe, pipes, owned>>
      PROVE  ListInv(q, owned)'
  <2>1. ListInv(Trigger(<<>>, es), owned)
    BY <1>9, ReadyLists
  <2> QED
    BY <1>9, <2>1 DEF ListInv
<1>10. CASE IdleTimeout
  <2> DEFINE es == <<<<"tick", 0>>>>
  <2>1. es \in Seq(Events) /\ UpTo(es, nalloc) /\ \A i \in 1 .. Len(es) : Rank(es[i][1]) = 0
    <3>1. <<"tick", 0>> \in Events
      BY DEF Events
    <3>2. es \in Seq(Events) /\ Len(es) = 1 /\ es[1] = <<"tick", 0>>
      BY <3>1
    <3>3. nalloc >= 0
      BY DEF ListInv
    <3> HIDE DEF es
    <3> QED
      BY <3>2, <3>3, Ranks DEF UpTo
  <2> QED
    BY <1>9, <1>10, <2>1 DEF IdleTimeout, Idling
<1>11. CASE IdleReady
  <2>1. PICK f \in Selected :
          LET r == FdToPipe(f)
          IN  IF r = NULL \/ pipe[r].dev = NULL
              THEN faults' = faults \cup {"no pipe"} /\ UNCHANGED q
              ELSE q' = Trigger(q, ReadyEvents(r)) /\ UNCHANGED faults
    BY Zenon, <1>11 DEF IdleReady
  <2> DEFINE r == FdToPipe(f)
  <2>2. CASE q' = q
    BY Zenon, <1>11, <2>2 DEF IdleReady, ListInv
  <2>3. CASE r # NULL /\ pipe[r].dev # NULL /\ q' = Trigger(q, ReadyEvents(r))
    <3>1. r \in Pids
      BY <2>3, FoundPipe
    <3> HIDE DEF r
    <3> DEFINE es == ReadyEvents(r)
    <3>2. es \in Seq(Events) /\ UpTo(es, nalloc) /\ \A i \in 1 .. Len(es) : Rank(es[i][1]) = 0
      BY <2>3, <3>1, ReadyOnList
    <3>3. q = <<>> /\ UNCHANGED <<nalloc, pipe, pipes, owned>> /\ q' = Trigger(q, es)
      BY Zenon, <1>11, <2>3 DEF IdleReady, Idling
    <3> HIDE DEF es
    <3> QED
      BY <1>9, <3>2, <3>3
  <2> QED
    BY Zenon, <2>1, <2>2, <2>3
<1>12. CASE UNCHANGED vars
  BY <1>12 DEF vars, ListInv
<1> QED
  BY <1>2, <1>3, <1>5, <1>6, <1>7, <1>8, <1>10, <1>11, <1>12 DEF Next, Handle, Idle

\* Whatever the tasks open and close, and in whatever order the events are
\* handled or lost: the list of a device's pipes holds each of them once, and
\* a pipe that a task has open is on the list of its device (pipe_open,
\* pipe_close and do_free_pipe of lib/pipe.c).
THEOREM ListsAlwaysMatch == Spec => []ListsMatch
<1> DEFINE Inv == ListInv(q, owned) /\ SpipeOK
<1>1. Init => Inv
  BY InitLists DEF Init, SpipeOK
<1>2. Inv /\ [Next]_vars => Inv'
  <2> SUFFICES ASSUME Inv, [Next]_vars PROVE Inv'
    OBVIOUS
  <2>1. nalloc \in 0 .. NBufs
    BY DEF ListInv
  <2> QED
    BY <2>1, NextLists, NextSpipe
<1>3. Inv => ListsMatch
  <2> SUFFICES ASSUME ListInv(q, owned) PROVE ListsMatch
    OBVIOUS
  <2>1. ASSUME NEW d \in Devs
        PROVE  /\ Range(pipes[d]) = {p \in 1 .. nalloc : pipe[p].dev = d}
               /\ IsInjective(pipes[d])
    <3> DEFINE l == pipes[d]
    <3>1. l \in Seq(Pids) /\ NoRepeat(l) /\ Range(l) = {p \in Pids : pipe[p].dev = d}
      BY DEF ListInv
    <3>2. \A p \in Pids : pipe[p].dev = d => p \in 1 .. nalloc
      <4> SUFFICES ASSUME NEW p \in Pids, pipe[p].dev = d PROVE p \in 1 .. nalloc
        OBVIOUS
      <4>1. d # NULL
        BY PipeAssumption DEF Devs, Uart, Pids, NULL
      <4>2. ~(p > nalloc) /\ nalloc \in Int
        BY <4>1 DEF ListInv
      <4> QED
        BY <4>2 DEF Pids
    <3>3. 1 .. nalloc \subseteq Pids
      BY PipeAssumption DEF ListInv, Pids
    <3>4. Range(l) = {p \in 1 .. nalloc : pipe[p].dev = d}
      BY <3>1, <3>2, <3>3
    <3> HIDE DEF l
    <3>5. Len(l) \in Nat /\ DOMAIN l = 1 .. Len(l)
      BY <3>1, LenProperties
    <3>6. IsInjective(l)
      BY <3>1, <3>5 DEF NoRepeat, IsInjective
    <3> QED
      BY <3>4, <3>6 DEF l
  <2>2. \A p \in owned : pipe[p].dev # NULL
    BY DEF ListInv
  <2> QED
    BY <2>1, <2>2 DEF ListsMatch
<1> QED
  BY <1>1, <1>2, <1>3, PTL DEF Spec

-----------------------------------------------------------------------------
(* The descriptors.                                                        *)

\* The slot and the descriptor that open takes are free.
LEMMA FreeOnes ==
    /\ FreeSlot # NULL => FreeSlot \in 1 .. NSlots /\ fd[FreeSlot] = FREE_FD
    /\ FreeFd # NULL => FreeFd \in Fds /\ FreeFd \notin osfds
<1>1. ASSUME FreeSlot # NULL PROVE FreeSlot \in 1 .. NSlots /\ fd[FreeSlot] = FREE_FD
  <2> DEFINE free == {i \in 1 .. NSlots : fd[i] = FREE_FD}
  <2>1. free # {} /\ FreeSlot = Min(free)
    BY <1>1 DEF FreeSlot
  <2>2. free \subseteq Nat
    BY PipeAssumption
  <2> HIDE DEF free
  <2>3. Min(free) \in free
    BY Zenon, <2>1, <2>2, LeastNatural
  <2> QED
    BY <2>1, <2>3 DEF free
<1>2. ASSUME FreeFd # NULL PROVE FreeFd \in Fds /\ FreeFd \notin osfds
  <2> DEFINE free == Fds \ osfds
  <2>1. free # {} /\ FreeFd = Min(free)
    BY <1>2 DEF FreeFd
  <2>2. free \subseteq Nat
    BY PipeAssumption DEF Fds
  <2> HIDE DEF free
  <2>3. Min(free) \in free
    BY Zenon, <2>1, <2>2, LeastNatural
  <2> QED
    BY <2>1, <2>3 DEF free
<1> QED
  BY <1>1, <1>2

\* pipe_open itself meets no pipe that is gone.
LEMMA OpenFaults ==
    ASSUME NEW s, NEW own, NEW flt, NEW n, NEW mode, pipe_open(n, mode, s, own, flt)
    PROVE  faults' = flt \/ faults' = flt \cup {"wild list"}
BY Zenon DEF pipe_open, OpenNoBuffer, OpenUart, OpenUartFails, OpenNoSlot, OpenUnix, OpenUnixFails

\* pipe_open gives a new pipe a slot and a descriptor that no other pipe has.
LEMMA OpenFiles ==
    ASSUME NEW s, NEW own, FileInv(s, own), NEW flt,
           NEW n \in {"uart", "file"}, NEW mode \in {"in", "out", "inout"},
           pipe_open(n, mode, s, own, flt), rd_fdset' = rd_fdset
    PROVE  FileInv(q, owned)'
<1>1. ListInv(q, owned)'
  BY OpenLists DEF FileInv
<1> DEFINE p == nalloc + 1
           i == FreeSlot
           f == FreeFd
<1>2. /\ SlotInv /\ WatchInv(s) /\ rd_fdset' = rd_fdset /\ Sorted(s)
      /\ NULL # Uart /\ NULL # p
  BY DEF FileInv, ListInv, sel, NULL, Uart
<1>4. CASE OpenNoBuffer(s, own, flt)
  <2>1. q' = s /\ UNCHANGED <<pipe, fd, spipe, slot, osfds>>
    BY <1>4 DEF OpenNoBuffer, port
  <2>2. SlotInv' /\ WatchInv(q)' /\ Sorted(q)'
    BY <1>2, <2>1 DEF SlotInv, WatchInv, In
  <2> QED
    BY <1>1, <2>2 DEF FileInv
\* a pipe without a file
<1>5. ASSUME NEW dev \in {NULL, Uart}, nalloc < NBufs, Allocated(n, mode, dev),
             dev = NULL => q' = s, dev # NULL => Listed(dev, mode, s, own),
             UNCHANGED <<fd, slot, osfds>>,
             spipe' = spipe \/ (i # NULL /\ spipe' = [spipe EXCEPT ![i] = p])
      PROVE  FileInv(q, owned)'
  <2>1. /\ p \in Pids /\ pipe[p].dev = NULL /\ p # NULL /\ p # Uart
        /\ \A r \in Pids : r # p => pipe'[r] = pipe[r]
        /\ pipe'[p].dev = dev /\ pipe'[p].n # "fd"
        /\ Sorted(q') /\ ~About(q', 3, p)
        /\ \A r \in Pids, k \in 1 .. 3 : r # p => (About(q', k, r) <=> About(s, k, r))
    <3>1. NewPipe(p, mode, dev, s)
      BY <1>5, AllocatedFiles
    <3> QED
      BY Zenon, <3>1 DEF NewPipe
  <2> HIDE DEF p, i
  <2>2. \A r \in Pids : pipe'[r].dev = r <=> r # p /\ pipe[r].dev = r
    BY <1>5, <2>1
  <2>3. \A j \in 1 .. NSlots : fd[j] # FREE_FD =>
           /\ spipe'[j] = spipe[j] /\ spipe[j] \in Pids /\ spipe[j] # p
           /\ pipe[spipe[j]].dev = spipe[j] /\ slot[spipe[j]] = j
    <3> SUFFICES ASSUME NEW j \in 1 .. NSlots, fd[j] # FREE_FD
                 PROVE  /\ spipe'[j] = spipe[j] /\ spipe[j] \in Pids /\ spipe[j] # p
                        /\ pipe[spipe[j]].dev = spipe[j] /\ slot[spipe[j]] = j
      OBVIOUS
    <3>1. /\ spipe[j] \in Pids /\ pipe[spipe[j]].dev = spipe[j] /\ slot[spipe[j]] = j
          /\ spipe \in [1 .. NSlots -> Pids \cup {NULL}]
      BY <1>2 DEF SlotInv
    <3>2. spipe[j] # p
      BY <2>1, <3>1
    <3>3. i # NULL => i # j
      BY FreeOnes DEF i
    <3> QED
      BY Zenon, <1>5, <3>1, <3>2, <3>3
  <2>4. SlotInv'
    <3>1. /\ fd' \in [1 .. NSlots -> Fds \cup {FREE_FD}] /\ osfds' \subseteq Fds
          /\ slot' \in [Pids -> 1 .. NSlots \cup {NULL}]
          /\ \A j, k \in 1 .. NSlots : fd'[j] = fd'[k] /\ fd'[j] # FREE_FD => j = k
      BY <1>2, <1>5 DEF SlotInv
    <3>2. spipe' \in [1 .. NSlots -> Pids \cup {NULL}]
      BY <1>2, <1>5, <2>1 DEF SlotInv
    <3>3. \A r \in Pids : pipe'[r].n # "fd"
      <4>1. \A r \in Pids : pipe[r].n # "fd"
        BY Zenon, <1>2 DEF SlotInv
      <4>2. pipe'[p].n # "fd" /\ \A r \in Pids : r # p => pipe'[r] = pipe[r]
        BY Zenon, <2>1
      <4> QED
        BY Zenon, <4>1, <4>2
    <3>4. ASSUME NEW r \in Pids, pipe'[r].dev = r
          PROVE  slot'[r] \in 1 .. NSlots /\ spipe'[slot'[r]] = r /\ fd'[slot'[r]] \in osfds'
      <4>1. slot[r] \in 1 .. NSlots /\ spipe[slot[r]] = r /\ fd[slot[r]] \in osfds
        BY <1>2, <2>2, <3>4 DEF SlotInv
      <4>2. fd[slot[r]] # FREE_FD
        BY <1>2, <4>1 DEF SlotInv, Fds, FREE_FD
      <4> QED
        BY <1>5, <2>3, <4>1, <4>2
    <3>5. ASSUME NEW j \in 1 .. NSlots, fd'[j] # FREE_FD
          PROVE  spipe'[j] \in Pids /\ pipe'[spipe'[j]].dev = spipe'[j] /\ slot'[spipe'[j]] = j
      BY <1>5, <2>2, <2>3, <3>5
    <3> QED
      BY <3>1, <3>2, <3>3, <3>4, <3>5 DEF SlotInv
  <2>5. WatchInv(q)'
    <3>1. \A g \in rd_fdset : \E r \in Pids : /\ pipe'[r].dev = r /\ pipe'[r].mode \in {"in", "inout"}
                                              /\ fd'[slot'[r]] = g
      <4> TAKE g \in rd_fdset
      <4>1. PICK r \in Pids : pipe[r].dev = r /\ In(r) /\ fd[slot[r]] = g
        BY <1>2 DEF WatchInv
      <4>2. r # p
        BY <2>1, <4>1
      <4>3. pipe'[r] = pipe[r]
        BY <2>1, <4>2
      <4> QED
        BY <1>5, <4>1, <4>3 DEF In
    <3>2. ASSUME NEW r \in Pids, pipe'[r].dev = r, About(q', 3, r), ~About(q', 2, r)
          PROVE  fd'[slot'[r]] \notin rd_fdset /\ ~About(q', 1, r)
      <4>1. r # p /\ pipe[r].dev = r
        BY <2>2, <3>2
      <4>2. About(s, 3, r) /\ ~About(s, 2, r) /\ (About(q', 1, r) <=> About(s, 1, r))
        BY <2>1, <3>2, <4>1
      <4> QED
        BY <1>2, <1>5, <4>1, <4>2 DEF WatchInv
    <3> QED
      BY <1>2, <3>1, <3>2 DEF WatchInv, In
  <2> QED
    BY <1>1, <2>1, <2>4, <2>5 DEF FileInv
<1>6. CASE n = "uart" /\ OpenUart(mode, s, own, flt)
  BY <1>2, <1>5, <1>6 DEF OpenUart, port
<1>7. CASE n = "uart" /\ OpenUartFails(mode, s, own, flt)
  BY <1>5, <1>7 DEF OpenUartFails, port
<1>8. CASE n # "uart" /\ OpenNoSlot(n, mode, s, own, flt)
  BY <1>5, <1>8 DEF OpenNoSlot, port
<1>9. CASE n = "file" /\ OpenUnixFails(mode, s, own, flt)
  BY <1>5, <1>9 DEF OpenUnixFails
\* a pipe with a file
<1>10. CASE n # "uart" /\ OpenUnix(n, mode, s, own, flt)
  <2>1. /\ nalloc < NBufs /\ i # NULL /\ f # NULL /\ Allocated(n, mode, p)
        /\ slot' = [slot EXCEPT ![p] = i] /\ spipe' = [spipe EXCEPT ![i] = p]
        /\ fd' = [fd EXCEPT ![i] = f] /\ osfds' = osfds \cup {f}
        /\ Listed(p, mode, s, own)
    BY Zenon, <1>10 DEF OpenUnix
  <2>2. /\ p \in Pids /\ pipe[p].dev = NULL /\ p # NULL
        /\ \A r \in Pids : r # p => pipe'[r] = pipe[r]
        /\ pipe'[p].dev = p /\ pipe'[p].n # "fd"
        /\ Sorted(q') /\ ~About(q', 3, p)
        /\ \A r \in Pids, k \in 1 .. 3 : r # p => (About(q', k, r) <=> About(s, k, r))
    <3>1. NewPipe(p, mode, p, s)
      BY Zenon, <1>2, <2>1, AllocatedFiles
    <3> QED
      BY Zenon, <3>1 DEF NewPipe
  <2>3. i \in 1 .. NSlots /\ fd[i] = FREE_FD /\ f \in Fds /\ f \notin osfds /\ f # FREE_FD
    <3>1. i \in 1 .. NSlots /\ fd[i] = FREE_FD /\ f \in Fds /\ f \notin osfds
      BY <2>1, FreeOnes
    <3> QED
      BY <3>1 DEF Fds, FREE_FD
  <2> HIDE DEF p, i, f
  <2>4. /\ fd \in [1 .. NSlots -> Fds \cup {FREE_FD}] /\ osfds \subseteq Fds
        /\ spipe \in [1 .. NSlots -> Pids \cup {NULL}]
        /\ slot \in [Pids -> 1 .. NSlots \cup {NULL}]
    BY <1>2 DEF SlotInv
  <2>5. ASSUME NEW r \in Pids, r # p, pipe[r].dev = r
        PROVE  /\ slot'[r] = slot[r] /\ slot[r] \in 1 .. NSlots /\ spipe'[slot[r]] = r
               /\ fd'[slot[r]] = fd[slot[r]] /\ fd[slot[r]] \in osfds /\ slot[r] # i
    <3>1. slot[r] \in 1 .. NSlots /\ spipe[slot[r]] = r /\ fd[slot[r]] \in osfds
      BY <1>2, <2>5 DEF SlotInv
    <3>2. slot[r] # i
      BY <2>3, <2>4, <3>1 DEF Fds, FREE_FD
    <3>3. slot'[r] = slot[r]
      BY <2>1, <2>4, <2>5
    <3> QED
      BY <2>1, <2>4, <3>1, <3>2, <3>3
  <2>6. slot'[p] = i /\ spipe'[i] = p /\ fd'[i] = f
    BY <2>1, <2>2, <2>3, <2>4
  <2>7. ASSUME NEW j \in 1 .. NSlots, j # i PROVE fd'[j] = fd[j] /\ spipe'[j] = spipe[j]
    BY <2>1, <2>4, <2>7
  \* no slot that is taken has a descriptor that is closed
  <2>8. ASSUME NEW j \in 1 .. NSlots, fd[j] # FREE_FD
        PROVE  fd[j] # f /\ spipe[j] \in Pids /\ spipe[j] # p /\ pipe[spipe[j]].dev = spipe[j] /\ slot[spipe[j]] = j
    <3>1. spipe[j] \in Pids /\ pipe[spipe[j]].dev = spipe[j] /\ slot[spipe[j]] = j
      BY <1>2, <2>8 DEF SlotInv
    <3>2. fd[slot[spipe[j]]] \in osfds
      BY <1>2, <3>1 DEF SlotInv
    <3>3. spipe[j] # p
      BY <2>2, <3>1
    <3> QED
      BY <2>3, <3>1, <3>2, <3>3
  <2>9. SlotInv'
    <3>1. /\ fd' \in [1 .. NSlots -> Fds \cup {FREE_FD}] /\ osfds' \subseteq Fds
          /\ spipe' \in [1 .. NSlots -> Pids \cup {NULL}]
          /\ slot' \in [Pids -> 1 .. NSlots \cup {NULL}]
      BY <2>1, <2>2, <2>3, <2>4
    <3>2. \A r \in Pids : pipe'[r].n # "fd"
      BY <1>2, <2>2 DEF SlotInv
    <3>3. ASSUME NEW r \in Pids, pipe'[r].dev = r
          PROVE  slot'[r] \in 1 .. NSlots /\ spipe'[slot'[r]] = r /\ fd'[slot'[r]] \in osfds'
      <4>1. CASE r = p
        BY <2>1, <2>3, <2>6, <4>1
      <4>2. CASE r # p
        <5>1. pipe[r].dev = r
          BY <2>2, <3>3, <4>2
        <5> QED
          <6>1. /\ slot'[r] = slot[r] /\ slot[r] \in 1 .. NSlots /\ spipe'[slot[r]] = r
                /\ fd'[slot[r]] = fd[slot[r]] /\ fd[slot[r]] \in osfds
            BY Zenon, <2>5, <4>2, <5>1
          <6>2. osfds \subseteq osfds'
            BY Zenon, <2>1
          <6> QED
            BY Zenon, <6>1, <6>2
      <4> QED
        BY <4>1, <4>2
    <3>4. ASSUME NEW j \in 1 .. NSlots, fd'[j] # FREE_FD
          PROVE  spipe'[j] \in Pids /\ pipe'[spipe'[j]].dev = spipe'[j] /\ slot'[spipe'[j]] = j
      <4>1. CASE j = i
        BY <2>2, <2>6, <4>1
      <4>2. CASE j # i
        <5>1. /\ fd[j] # FREE_FD /\ spipe'[j] = spipe[j] /\ spipe[j] \in Pids /\ spipe[j] # p
              /\ pipe[spipe[j]].dev = spipe[j] /\ slot[spipe[j]] = j
          BY <2>7, <2>8, <3>4, <4>2
        <5>2. pipe'[spipe[j]] = pipe[spipe[j]]
          BY <2>2, <5>1
        <5>3. slot'[spipe[j]] = slot[spipe[j]]
          BY <2>5, <5>1
        <5> QED
          BY <5>1, <5>2, <5>3
      <4> QED
        BY <4>1, <4>2
    <3>5. ASSUME NEW j \in 1 .. NSlots, NEW k \in 1 .. NSlots, fd'[j] = fd'[k], fd'[j] # FREE_FD
          PROVE  j = k
      <4>1. CASE j = i /\ k # i
        BY <2>3, <2>6, <2>7, <2>8, <3>5, <4>1
      <4>2. CASE j # i /\ k = i
        BY <2>3, <2>6, <2>7, <2>8, <3>5, <4>2
      <4>3. CASE j # i /\ k # i
        BY <1>2, <2>7, <3>5, <4>3 DEF SlotInv
      <4> QED
        BY <4>1, <4>2, <4>3
    <3> QED
      BY <3>1, <3>2, <3>3, <3>4, <3>5 DEF SlotInv
  <2>10. WatchInv(q)'
    <3>1. \A g \in rd_fdset : \E r \in Pids : /\ pipe'[r].dev = r /\ pipe'[r].mode \in {"in", "inout"}
                                              /\ fd'[slot'[r]] = g
      <4> TAKE g \in rd_fdset
      <4>1. PICK r \in Pids : pipe[r].dev = r /\ In(r) /\ fd[slot[r]] = g
        BY <1>2 DEF WatchInv
      <4>2. r # p
        BY <2>2, <4>1
      <4>3. pipe'[r] = pipe[r] /\ fd'[slot'[r]] = g
        BY <2>2, <2>5, <4>1, <4>2
      <4> QED
        BY <4>1, <4>3 DEF In
    <3>2. ASSUME NEW r \in Pids, pipe'[r].dev = r, About(q', 3, r), ~About(q', 2, r)
          PROVE  fd'[slot'[r]] \notin rd_fdset /\ ~About(q', 1, r)
      <4>1. r # p
        BY <2>2, <3>2
      <4>2. pipe[r].dev = r /\ fd'[slot'[r]] = fd[slot[r]]
        BY <2>2, <2>5, <3>2, <4>1
      <4>3. About(s, 3, r) /\ ~About(s, 2, r) /\ (About(q', 1, r) <=> About(s, 1, r))
        BY <2>2, <3>2, <4>1
      <4> QED
        BY <1>2, <4>2, <4>3 DEF WatchInv
    <3> QED
      BY <1>2, <3>1, <3>2 DEF WatchInv, In
  <2> QED
    BY <1>1, <2>2, <2>9, <2>10 DEF FileInv
<1> QED
  BY <1>4, <1>6, <1>7, <1>8, <1>9, <1>10 DEF pipe_open

\* What idle() selects on is open, and it finds the pipe again.
LEMMA WatchedOpen ==
    ASSUME SlotInv, WatchInv(q), NEW f \in rd_fdset
    PROVE  f \in osfds /\ FdToPipe(f) \in Pids /\ pipe[FdToPipe(f)].dev # NULL
<1>1. PICK p \in Pids : pipe[p].dev = p /\ fd[slot[p]] = f
  BY DEF WatchInv
<1>2. slot[p] \in 1 .. NSlots /\ f \in osfds
  BY <1>1 DEF SlotInv
<1> DEFINE s == {i \in 1 .. NSlots : fd[i] = f}
<1>3. slot[p] \in s
  BY <1>1, <1>2
<1>4. FdToPipe(f) = spipe[Min(s)]
  BY <1>3 DEF FdToPipe
<1>5. s \subseteq Nat /\ s # {}
  BY <1>3, PipeAssumption
<1> HIDE DEF s
<1>6. Min(s) \in s
  BY Zenon, <1>5, LeastNatural
<1>7. Min(s) \in 1 .. NSlots /\ fd[Min(s)] # FREE_FD
  BY <1>2, <1>6 DEF s, SlotInv, Fds, FREE_FD
<1>8. spipe[Min(s)] \in Pids /\ pipe[spipe[Min(s)]].dev = spipe[Min(s)]
  BY <1>7 DEF SlotInv
<1>9. spipe[Min(s)] # NULL
  BY <1>8 DEF Pids, NULL
<1> QED
  BY <1>2, <1>4, <1>8, <1>9

Blamed == {"no device", "no pipe"}

\* Every step keeps the invariant and meets no pipe that is gone.
LEMMA NextFiles ==
    ASSUME "fd" \notin Names, FileInv(q, owned), faults \cap Blamed = {}, [Next]_vars
    PROVE  FileInv(q, owned)' /\ faults' \cap Blamed = {}
<1> DEFINE p == Head(q)[2]
<1>1. /\ q \in Seq(Events) /\ pipe \in [Pids -> PipeRec] /\ owned \subseteq Pids
      /\ ListInv(q, owned) /\ SlotInv /\ WatchInv(q) /\ Sorted(q) /\ SpipeOK
  BY DEF FileInv, ListInv, SlotInv, SpipeOK
<1>2. \A s : Dropped(s) \cap Blamed = {}
  BY Zenon DEF Dropped, Blamed
<1>3. \A s : (s \cup {"wild list"}) \cap Blamed = s \cap Blamed
  BY Zenon DEF Blamed
<1>4. CASE TaskOpens
  <2>1. PICK n \in Names, mode \in Modes : pipe_open(n, mode, q, owned, faults)
    BY <1>4 DEF TaskOpens
  <2>2. n \in {"uart", "file"} /\ mode \in {"in", "out", "inout"} /\ rd_fdset' = rd_fdset
    BY <1>4, PipeAssumption DEF TaskOpens, sel
  <2>3. FileInv(q, owned)'
    BY <2>1, <2>2, OpenFiles
  <2>4. faults' = faults \/ faults' = faults \cup {"wild list"}
    BY Zenon, <2>1, OpenFaults
  <2> QED
    BY Zenon, <1>3, <2>3, <2>4
<1>5. CASE TaskCloses
  <2>1. PICK r \in owned :
           /\ owned' = owned \ {r} /\ q' = Trigger(q, CloseEvents(r)) /\ faults' = Dropped(q)
           /\ UNCHANGED <<nalloc, pipe, pipes, fd, spipe, slot, osfds, rd_fdset>>
    BY <1>5 DEF TaskCloses, port, sel
  <2>2. FileInv(Trigger(q, CloseEvents(r)), owned \ {r})
    BY ClosingFiles
  <2>3. FileInv(q, owned)'
    BY ZenonT(60), <2>1, <2>2 DEF FileInv, ListInv, SlotInv, WatchInv, In
  <2> QED
    BY <1>2, <2>1, <2>3
<1>6. CASE InputRead \/ OtherHandled
  <2>1. /\ q # <<>> /\ Head(q)[1] \in {"input_ready", "output_ready", "tick"} /\ q' = Tail(q)
        /\ UNCHANGED <<nalloc, pipe, pipes, fd, spipe, slot, osfds, rd_fdset, owned, faults>>
    BY <1>6 DEF InputRead, OtherHandled, At, port, sel
  <2>2. Rank(Head(q)[1]) = 0
    BY <2>1, Ranks
  <2>3. FileInv(Tail(q), owned)
    BY <2>1, <2>2, TailFiles
  <2>4. /\ nalloc' = nalloc /\ pipe' = pipe /\ pipes' = pipes /\ fd' = fd /\ spipe' = spipe /\ slot' = slot
        /\ osfds' = osfds /\ rd_fdset' = rd_fdset /\ owned' = owned /\ q' = Tail(q)
    BY <2>1
  <2>5. FileInv(q, owned)'
    BY ZenonT(60), <2>3, <2>4 DEF FileInv, ListInv, SlotInv, WatchInv, In
  <2> QED
    BY <1>2, <2>1, <2>5
<1>7. CASE Opened
  BY <1>7, OpenedFiles DEF Opened
<1>8. CASE Closed
  BY <1>8, ClosedFiles DEF Closed
<1>9. CASE ReallyClosed
  BY <1>1, <1>9, FreedFiles, FreedLists
<1>10. CASE InputEof
  <2>1. /\ q # <<>> /\ p \in owned /\ Head(q)[1] = "input_ready" /\ rd_fdset' = rd_fdset
        /\ pipe_open(pipe[p].n, pipe[p].mode, Trigger(Tail(q), CloseEvents(p)),
                     owned \ {p}, Dropped(Tail(q)))
    BY <1>10 DEF InputEof, At, sel
  <2>2. pipe[p].n \in {"uart", "file"} /\ pipe[p].mode \in {"in", "out", "inout"}
    <3>1. p \in Pids
      BY <1>1, <2>1
    <3> HIDE DEF p
    <3>2. pipe[p] \in PipeRec /\ pipe[p].n # "fd"
      BY <1>1, <3>1 DEF SlotInv
    <3> QED
      BY <3>2 DEF PipeRec
  <2>3. Rank(Head(q)[1]) = 0
    BY <2>1, Ranks
  <2> HIDE DEF p
  <2>4. FileInv(Tail(q), owned)
    BY <2>1, <2>3, TailFiles
  <2>5. FileInv(Trigger(Tail(q), CloseEvents(p)), owned \ {p})
    BY <2>1, <2>4, ClosingFiles
  <2>6. FileInv(q, owned)'
    <3> DEFINE s == Trigger(Tail(q), CloseEvents(p))
               own == owned \ {p}
    <3> HIDE DEF s, own
    <3>1. FileInv(s, own) /\ pipe_open(pipe[p].n, pipe[p].mode, s, own, Dropped(Tail(q)))
      BY <2>1, <2>5 DEF s, own
    <3> QED
      BY <2>1, <2>2, <3>1, OpenFiles
  <2>7. faults' = Dropped(Tail(q)) \/ faults' = Dropped(Tail(q)) \cup {"wild list"}
    BY Zenon, <2>1, OpenFaults
  <2> QED
    BY Zenon, <1>2, <1>3, <2>6, <2>7
<1>11. CASE UNCHANGED vars \/ IdleError
  <2>1. UNCHANGED <<nalloc, pipe, pipes, fd, spipe, slot, osfds, rd_fdset, owned, faults, q>>
    BY <1>11 DEF IdleError, vars, port, sel
  <2> QED
    BY <2>1 DEF FileInv, ListInv, SlotInv, WatchInv, In
<1>12. ASSUME IdleTimeout \/ IdleReady, Sorted(q'), \A k \in 1 .. 3 : \A r : ~About(q', k, r)
       PROVE  FileInv(q, owned)'
  <2>1. ListInv(q, owned)'
    BY <1>1, <1>12, NextLists DEF Next, Idle
  <2>2. UNCHANGED <<pipe, fd, spipe, slot, osfds, rd_fdset>>
    BY Zenon, <1>12 DEF IdleTimeout, IdleReady, port, sel
  <2>3. SlotInv'
    BY <1>1, <2>2 DEF SlotInv
  <2>4. WatchInv(q)'
    <3>1. pipe' = pipe /\ fd' = fd /\ slot' = slot /\ rd_fdset' = rd_fdset
      BY <2>2
    <3>2. \A r : ~About(q', 3, r)
      <4>1. 3 \in 1 .. 3
        OBVIOUS
      <4> QED
        BY Zenon, <1>12, <4>1
    <3>3. \A f \in rd_fdset : \E r \in Pids : pipe[r].dev = r /\ In(r) /\ fd[slot[r]] = f
      BY Zenon, <1>1 DEF WatchInv
    <3>4. \A r : In(r)' = In(r)
      BY Zenon, <3>1 DEF In
    <3> QED
      BY Zenon, <3>1, <3>2, <3>3, <3>4 DEF WatchInv
  <2> QED
    BY <1>12, <2>1, <2>3, <2>4 DEF FileInv
<1>13. CASE IdleTimeout
  <2> DEFINE es == <<<<"tick", 0>>>>
  <2>1. es \in Seq(Events) /\ UpTo(es, nalloc) /\ \A i \in 1 .. Len(es) : Rank(es[i][1]) = 0
    <3>1. <<"tick", 0>> \in Events
      BY DEF Events
    <3>2. es \in Seq(Events) /\ Len(es) = 1 /\ es[1] = <<"tick", 0>>
      BY <3>1
    <3>3. nalloc >= 0
      BY <1>1 DEF ListInv
    <3> HIDE DEF es
    <3> QED
      BY <3>2, <3>3, Ranks DEF UpTo
  <2>2. q = <<>> /\ q' = Trigger(q, es) /\ faults' = faults
    BY <1>13 DEF IdleTimeout, Idling
  <2> HIDE DEF es
  <2>3. Sorted(q') /\ \A k \in 1 .. 3 : \A r : ~About(q', k, r)
    BY <2>1, <2>2, TriggerReady
  <2> QED
    BY <1>12, <1>13, <2>2, <2>3
<1>14. CASE IdleReady
  <2>1. PICK f \in Selected :
          LET r == FdToPipe(f)
          IN  IF r = NULL \/ pipe[r].dev = NULL
              THEN faults' = faults \cup {"no pipe"} /\ UNCHANGED q
              ELSE q' = Trigger(q, ReadyEvents(r)) /\ UNCHANGED faults
    BY Zenon, <1>14 DEF IdleReady
  <2> DEFINE r == FdToPipe(f)
             es == ReadyEvents(r)
  <2>2. r \in Pids /\ pipe[r].dev # NULL
    BY <1>1, WatchedOpen DEF Selected
  <2>3. q = <<>> /\ q' = Trigger(q, es) /\ faults' = faults
    <3>1. r # NULL
      BY <2>2 DEF Pids, NULL
    <3> QED
      BY Zenon, <1>14, <2>1, <2>2, <3>1 DEF IdleReady, Idling
  <2>4. es \in Seq(Events) /\ UpTo(es, nalloc) /\ \A i \in 1 .. Len(es) : Rank(es[i][1]) = 0
    BY <1>1, <2>2, ReadyOnList
  <2> HIDE DEF es, r
  <2>5. Sorted(q') /\ \A k \in 1 .. 3 : \A c : ~About(q', k, c)
    BY <2>3, <2>4, TriggerReady
  <2> QED
    BY <1>12, <1>14, <2>3, <2>5
<1> QED
  BY <1>4, <1>5, <1>6, <1>7, <1>8, <1>9, <1>10, <1>11, <1>13, <1>14 DEF Next, Handle, Idle

\* Where pipes are opened on files and on the uart, no handler and no turn of
\* idle() meets a pipe without a device, or a descriptor without a pipe,
\* however the tasks' calls and the handlers of the events interleave.  With
\* pipes on descriptors ("fd") it is not so: two pipes may share one, and the
\* first one that is freed closes it.
THEOREM NobodyMeetsGonePipe ==
    ASSUME "fd" \notin Names
    PROVE  Spec => []NoFaults
<1> DEFINE Inv == FileInv(q, owned) /\ faults \cap Blamed = {}
<1>1. Init => Inv
  BY InitFiles DEF Init
<1>2. Inv /\ [Next]_vars => Inv'
  BY NextFiles
<1>3. Inv => NoFaults
  <2> SUFFICES ASSUME Inv PROVE NoFaults
    OBVIOUS
  <2>1. \A f \in rd_fdset : f \in osfds
    BY WatchedOpen DEF FileInv
  <2> QED
    BY Zenon, <2>1 DEF NoFaults, SelectedFdsOpen, Selected, Blamed
<1> QED
  BY <1>1, <1>2, <1>3, PTL DEF Spec
=============================================================================
