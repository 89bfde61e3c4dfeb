---------------------------- MODULE BufferQueue ----------------------------
(***************************************************************************)
(* Buffer queues: lib/buffer_queue.c (the client's side),                  *)
(* lib/buffer_queue_server.c (the server's side) and the reference counts  *)
(* of include/bathos/buffer.h.                                             *)
(*                                                                         *)
(* A queue is a record s:                                                  *)
(*    s.free     free_bufs, first buffer first                             *)
(*    s.stopped  the flag of the same name                                 *)
(*    s.users    the users counter of each buffer                          *)
(*    s.release  the buffers whose release_event is the setup event        *)
(*    s.q        the event queue: <<event, data>>                          *)
(* and each operator below gives the record after a call.  busy_bufs holds *)
(* the buffers that are on no other list; nobody looks at it.              *)
(***************************************************************************)
EXTENDS Integers, Sequences, FiniteSets, Functions

CONSTANTS
    NBufs,     \* how many buffers the server has
    QueueSize  \* how many events the event queue can hold

Bufs == 1 .. NBufs
None == 0      \* the data of an event that is not about a buffer

ASSUME BufferQueueAssumption == NBufs \in Nat \ {0} /\ QueueSize \in Nat \ {0}

\* trigger_event, whose result no caller below looks at.
Trigger(s, e, b) ==
    [s EXCEPT !.q = IF Len(@) < QueueSize THEN Append(@, <<e, b>>) ELSE @]

\* bathos_bqueue_server_init adds each buffer at the head of the list.
server_init ==
    [free    |-> [i \in Bufs |-> NBufs + 1 - i],
     stopped |-> FALSE,
     users   |-> [b \in Bufs |-> 0],
     release |-> {},
     q       |-> <<>>]

-----------------------------------------------------------------------------
(* The client                                                              *)

client_init(s) == [s EXCEPT !.stopped = TRUE]

start(s) == [Trigger(s, "available", None) EXCEPT !.stopped = FALSE]

\* pipe_async_start
async_start(s) == start(client_init(s))

\* Whether bathos_bqueue_get_buf returns a buffer, which one, and what it does.
CanGet(s)  == ~s.stopped /\ s.free # <<>>
GotBuf(s)  == Head(s.free)
get_buf(s) ==
    [s EXCEPT !.free = Tail(@),
              !.release = @ \cup {GotBuf(s)},
              !.users[GotBuf(s)] = @ + 1]

\* bdescr_put: the last user's release triggers the release_event.
bdescr_put(s, b) ==
    LET t == [s EXCEPT !.users[b] = @ - 1]
    IN  IF t.users[b] = 0 /\ b \in s.release THEN Trigger(t, "setup", b) ELSE t

-----------------------------------------------------------------------------
(* The server                                                              *)

\* Mutated form: the client is told whenever a buffer was already free.
buf_done_inverted(s, b) ==
    LET t == [s EXCEPT !.free = <<b>> \o @]
    IN  IF s.free # <<>> THEN Trigger(t, "available", None) ELSE t

\* bathos_bqueue_server_buf_done, for a buffer that is on another list.
buf_done(s, b) ==
    LET t == [s EXCEPT !.free = <<b>> \o @]
    IN  IF s.free = <<>> THEN Trigger(t, "available", None) ELSE t

\* bathos_bqueue_server_buf_processed
buf_processed(s, b) == Trigger(s, "processed", b)
=============================================================================
