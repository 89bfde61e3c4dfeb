--------------------------- MODULE LininoioProofs ---------------------------
(***************************************************************************)
(* Proofs about Lininoio, for every number of buffers and of receptions    *)
(* and every size of the event queue: a free buffer is nobody's, whether   *)
(* or not events are lost.                                                 *)
(***************************************************************************)
EXTENDS Lininoio, TLAPS, SequenceTheorems

-----------------------------------------------------------------------------
(* Sequences.                                                              *)

\* No element of X is in s twice; not even two of them are in s.
NoRepeat(s, X) ==
    \A i, j \in 1 .. Len(s) : s[i] = s[j] /\ s[i] \in X => i = j
Single(s, X) ==
    \A i, j \in 1 .. Len(s) : s[i] \in X /\ s[j] \in X => i = j

\* A sequence with one element more ...
LEMMA Appended ==
    ASSUME NEW S, NEW s \in Seq(S), NEW x \in S
    PROVE  /\ Append(s, x) \in Seq(S) /\ Append(s, x) # <<>>
           /\ Len(Append(s, x)) = Len(s) + 1
           /\ \A k \in 1 .. Len(s) : Append(s, x)[k] = s[k]
           /\ Append(s, x)[Len(s) + 1] = x
           /\ Range(Append(s, x)) = Range(s) \cup {x}
           /\ s # <<>> => Head(Append(s, x)) = Head(s) /\ Tail(Append(s, x)) = Append(Tail(s), x)
<1> DEFINE t == Append(s, x)
<1>1. /\ t \in Seq(S) /\ t # <<>> /\ Len(t) = Len(s) + 1 /\ Len(s) \in Nat
      /\ \A k \in 1 .. Len(s) : t[k] = s[k]
      /\ t[Len(s) + 1] = x
  BY AppendProperties, LenProperties
<1>2. Range(t) = Range(s) \cup {x}
  <2>1. DOMAIN t = 1 .. Len(s) + 1 /\ DOMAIN s = 1 .. Len(s)
    BY <1>1, LenProperties
  <2> HIDE DEF t
  <2>2. ASSUME NEW y \in Range(t) PROVE y \in Range(s) \cup {x}
    <3>1. PICK k \in 1 .. Len(s) + 1 : y = t[k]
      BY <2>1, <2>2 DEF Range
    <3>2. CASE k = Len(s) + 1
      BY <1>1, <3>1, <3>2
    <3>3. CASE k # Len(s) + 1
      <4>1. k \in 1 .. Len(s)
        BY <1>1, <3>3
      <4> QED
        BY <1>1, <2>1, <3>1, <4>1 DEF Range
    <3> QED
      BY <3>2, <3>3
  <2>3. ASSUME NEW y \in Range(s) PROVE y \in Range(t)
    <3>1. PICK k \in 1 .. Len(s) : y = s[k]
      BY <2>1, <2>3 DEF Range
    <3>2. k \in 1 .. Len(s) + 1 /\ y = t[k]
      BY <1>1, <3>1
    <3> QED
      BY <2>1, <3>2 DEF Range
  <2>4. x \in Range(t)
    <3>1. Len(s) + 1 \in 1 .. Len(s) + 1
      BY <1>1
    <3> QED
      BY <1>1, <2>1, <3>1 DEF Range
  <2> QED
    BY <2>2, <2>3, <2>4
<1>3. s # <<>> => Head(t) = Head(s) /\ Tail(t) = Append(Tail(s), x)
  BY HeadTailAppend
<1> QED
  BY <1>1, <1>2, <1>3

\* ... and one with its first element taken away.
LEMMA HeadAndTail ==
    ASSUME NEW S, NEW s \in Seq(S), s # <<>>
    PROVE  /\ Head(s) \in S /\ Tail(s) \in Seq(S) /\ Head(s) = s[1] /\ Len(s) \in Nat \ {0}
           /\ Len(Tail(s)) = Len(s) - 1
           /\ \A k \in 1 .. Len(s) - 1 : Tail(s)[k] = s[k + 1]
           /\ Range(s) = {Head(s)} \cup Range(Tail(s))
<1>1. /\ Tail(s) \in Seq(S) /\ Len(Tail(s)) = Len(s) - 1 /\ Len(s) \in Nat \ {0} /\ Head(s) = s[1]
      /\ \A k \in 1 .. Len(Tail(s)) : Tail(s)[k] = s[k + 1]
      /\ Head(s) \in S
  BY HeadTailProperties, LenProperties, EmptySeq
<1>2. DOMAIN s = 1 .. Len(s) /\ DOMAIN Tail(s) = 1 .. Len(s) - 1
  BY <1>1, LenProperties
<1>3. ASSUME NEW k \in 1 .. Len(s) PROVE s[k] \in {Head(s)} \cup Range(Tail(s))
  <2>1. CASE k = 1
    BY <1>1, <2>1
  <2>2. CASE k # 1
    <3>1. k - 1 \in DOMAIN Tail(s) /\ Tail(s)[k - 1] = s[k]
      BY <1>1, <1>2, <2>2
    <3> QED
      BY Zenon, <3>1 DEF Range
  <2> QED
    BY <2>1, <2>2
<1>4. ASSUME NEW k \in 1 .. Len(s) - 1 PROVE Tail(s)[k] \in Range(s)
  <2>1. k + 1 \in DOMAIN s /\ Tail(s)[k] = s[k + 1]
    BY <1>1, <1>2
  <2> QED
    BY <2>1 DEF Range
<1>5. Head(s) \in Range(s)
  BY <1>1, <1>2 DEF Range
<1>6. Range(s) = {Head(s)} \cup Range(Tail(s))
  BY <1>2, <1>3, <1>4, <1>5 DEF Range
<1> QED
  BY <1>1, <1>6

\* Repetitions in them.
LEMMA AppendedOnce ==
    ASSUME NEW S, NEW s \in Seq(S), NEW x \in S, NEW X
    PROVE  /\ NoRepeat(s, X) /\ (x \in X => x \notin Range(s)) => NoRepeat(Append(s, x), X)
           /\ Single(s, X) /\ (x \in X => \A y \in Range(s) : y \notin X) => Single(Append(s, x), X)
<1> DEFINE t == Append(s, x)
<1>1. /\ Len(t) = Len(s) + 1 /\ Len(s) \in Nat /\ DOMAIN s = 1 .. Len(s)
      /\ \A k \in 1 .. Len(s) : t[k] = s[k]
      /\ t[Len(s) + 1] = x
  BY Appended, LenProperties
<1> HIDE DEF t
<1>2. \A k \in 1 .. Len(s) : s[k] \in Range(s)
  BY <1>1 DEF Range
<1>3. \A k \in 1 .. Len(t) : k \in 1 .. Len(s) \/ k = Len(s) + 1
  BY <1>1
<1>4. NoRepeat(s, X) /\ (x \in X => x \notin Range(s)) => NoRepeat(t, X)
  BY <1>1, <1>2, <1>3 DEF NoRepeat
<1>5. Single(s, X) /\ (x \in X => \A y \in Range(s) : y \notin X) => Single(t, X)
  BY <1>1, <1>2, <1>3 DEF Single
<1> QED
  BY <1>4, <1>5 DEF t

\* ... and the first element is not repeated in the rest.
LEMMA TailOnce ==
    ASSUME NEW S, NEW s \in Seq(S), s # <<>>, NEW X
    PROVE  /\ NoRepeat(s, X) => NoRepeat(Tail(s), X) /\ (Head(s) \in X => Head(s) \notin Range(Tail(s)))
           /\ Single(s, X) => Single(Tail(s), X) /\ (Head(s) \in X => \A y \in Range(Tail(s)) : y \notin X)
<1> DEFINE t == Tail(s)
<1>1. /\ Len(t) = Len(s) - 1 /\ Len(s) \in Nat \ {0} /\ DOMAIN t = 1 .. Len(s) - 1
      /\ \A k \in 1 .. Len(s) - 1 : t[k] = s[k + 1]
      /\ Head(s) = s[1] /\ 1 \in 1 .. Len(s)
  BY HeadAndTail, LenProperties
<1> HIDE DEF t
<1>2. \A k \in 1 .. Len(s) - 1 : k + 1 \in 1 .. Len(s) /\ k + 1 # 1
  BY <1>1
<1>3. \A i, j \in 1 .. Len(s) - 1 : i + 1 = j + 1 => i = j
  BY <1>1
<1>4. \A y \in Range(t) : \E k \in 1 .. Len(s) - 1 : y = s[k + 1]
  BY <1>1 DEF Range
<1>5. NoRepeat(s, X) => NoRepeat(t, X) /\ (Head(s) \in X => Head(s) \notin Range(t))
  BY <1>1, <1>2, <1>3, <1>4 DEF NoRepeat
<1>6. Single(s, X) => Single(t, X) /\ (Head(s) \in X => \A y \in Range(t) : y \notin X)
  BY <1>1, <1>2, <1>3, <1>4 DEF Single
<1> QED
  BY <1>5, <1>6 DEF t

-----------------------------------------------------------------------------
(* Buffers.                                                                *)

BufEvent(e) == {e} \X Bufs
Events == {<<"available", None>>, <<"input", None>>} \cup BufEvent("setup") \cup BufEvent("processed")

\* The states of a buffer queue.
BQ == [free : Seq(Bufs), stopped : BOOLEAN, users : [Bufs -> Int],
       release : SUBSET Bufs, q : Seq(Events)]

\* A buffer of queue s is in one place: free, on its way to the server, or
\* waiting for packets in rx; in the first two nobody holds it, and in the
\* third its users counter, which each packet decrements, never gets back to
\* zero.  o is the operation of each buffer.
Places(s, rx, o) ==
    /\ s \in BQ /\ ~s.stopped /\ rx \in Seq(Bufs)
    /\ o \in [Bufs -> {"NONE", "SEND", "RECV"}]
    /\ NoRepeat(s.free, Bufs) /\ NoRepeat(s.q, BufEvent("setup"))
    /\ \A b \in Range(s.free) :
          <<"setup", b>> \notin Range(s.q) /\ s.users[b] = 0 /\ b \notin Range(rx)
    /\ \A b \in Bufs : <<"setup", b>> \in Range(s.q) =>
          o[b] # "NONE" /\ s.users[b] = 0 /\ b \notin Range(rx)
    /\ \A b \in Range(rx) : s.users[b] <= 0
    /\ \A b \in Bufs : <<"processed", b>> \in Range(s.q) => b \in Range(rx)

BufInv ==
    /\ Places(bq, rx_queue, op)
    /\ state \in {"UNASSOCIATED", "ASSOCIATING", "ASSOCIATED"}

-----------------------------------------------------------------------------
(* The operators of the buffer queue.                                      *)

\* The events, by their names.
LEMMA EventKinds ==
    /\ \A b \in Bufs : <<"setup", b>> \in Events /\ <<"processed", b>> \in Events
    /\ <<"available", None>> \in Events /\ <<"input", None>> \in Events
    /\ \A x \in Events : x[1] \in {"setup", "processed"} => x[2] \in Bufs /\ x = <<x[1], x[2]>>
    /\ \A x \in Events : x[1] \in {"available", "input"} => x = <<x[1], None>>
BY DEF Events, BufEvent

\* trigger_event appends the event, or loses it, and changes nothing else.
LEMMA Triggered ==
    ASSUME NEW s \in BQ, NEW e, NEW x, <<e, x>> \in Events
    PROVE  LET t == Trigger(s, e, x) IN
           /\ t \in BQ
           /\ t.free = s.free /\ t.stopped = s.stopped /\ t.users = s.users /\ t.release = s.release
           /\ t.q = (IF Len(s.q) < QueueSize THEN Append(s.q, <<e, x>>) ELSE s.q)
           /\ Range(t.q) \subseteq Range(s.q) \cup {<<e, x>>}
           /\ Range(s.q) \subseteq Range(t.q)
           /\ Len(s.q) < QueueSize => <<e, x>> \in Range(t.q)
<1> DEFINE t == Trigger(s, e, x)
           z == IF Len(s.q) < QueueSize THEN Append(s.q, <<e, x>>) ELSE s.q
<1>1. z \in Seq(Events)
  BY Appended DEF BQ
<1>2. t = [s EXCEPT !.q = z]
  BY DEF Trigger, BQ
<1>3. /\ Range(z) \subseteq Range(s.q) \cup {<<e, x>>}
      /\ Range(s.q) \subseteq Range(z)
      /\ Len(s.q) < QueueSize => <<e, x>> \in Range(z)
  <2>1. s.q \in Seq(Events)
    BY DEF BQ
  <2>2. Range(Append(s.q, <<e, x>>)) = Range(s.q) \cup {<<e, x>>}
    BY <2>1, Appended
  <2> QED
    BY <2>2
<1> HIDE DEF z
<1>4. t \in BQ /\ t.q = z /\ t.free = s.free /\ t.stopped = s.stopped
      /\ t.users = s.users /\ t.release = s.release
  BY Zenon, <1>1, <1>2 DEF BQ
<1> QED
  BY <1>3, <1>4 DEF z

\* pipe_async_start is a trigger.
LEMMA Started ==
    ASSUME NEW s \in BQ
    PROVE  LET t == async_start(s) IN
           /\ t \in BQ /\ ~t.stopped
           /\ t.free = s.free /\ t.users = s.users /\ t.release = s.release
           /\ t.q = Trigger(s, "available", None).q
<1> DEFINE u == client_init(s)
           v == Trigger(u, "available", None)
<1>1. u \in BQ /\ u.free = s.free /\ u.users = s.users /\ u.release = s.release /\ u.q = s.q
  BY Zenon DEF client_init, BQ
<1>2. /\ v \in BQ /\ v.free = u.free /\ v.users = u.users /\ v.release = u.release
      /\ v.q = (IF Len(u.q) < QueueSize THEN Append(u.q, <<"available", None>>) ELSE u.q)
  BY <1>1, Triggered, EventKinds
<1>3. Trigger(s, "available", None).q
        = IF Len(s.q) < QueueSize THEN Append(s.q, <<"available", None>>) ELSE s.q
  BY Triggered, EventKinds
<1>4. async_start(s) = [v EXCEPT !.stopped = FALSE]
  BY DEF async_start, start
<1> HIDE DEF u, v
<1>5. [v EXCEPT !.stopped = FALSE] \in BQ /\ ~[v EXCEPT !.stopped = FALSE].stopped
      /\ [v EXCEPT !.stopped = FALSE].free = v.free /\ [v EXCEPT !.stopped = FALSE].users = v.users
      /\ [v EXCEPT !.stopped = FALSE].release = v.release /\ [v EXCEPT !.stopped = FALSE].q = v.q
  BY Zenon, <1>2 DEF BQ
<1> QED
  BY <1>1, <1>2, <1>3, <1>4, <1>5

\* bathos_bqueue_get_buf takes the first free buffer.
LEMMA Got ==
    ASSUME NEW s \in BQ, s.free # <<>>
    PROVE  LET t == get_buf(s)
               b == GotBuf(s) IN
           /\ t \in BQ /\ b \in Bufs
           /\ t.stopped = s.stopped /\ t.q = s.q
           /\ t.free = Tail(s.free) /\ Range(s.free) = {b} \cup Range(t.free)
           /\ t.users = [s.users EXCEPT ![b] = @ + 1]
           /\ b \in t.release
<1> DEFINE b == GotBuf(s)
<1>1. s.free \in Seq(Bufs)
  BY DEF BQ
<1>2. b \in Bufs /\ Tail(s.free) \in Seq(Bufs) /\ Range(s.free) = {b} \cup Range(Tail(s.free))
  BY <1>1, HeadAndTail DEF GotBuf
<1> DEFINE w == [s.users EXCEPT ![b] = @ + 1]
           r == s.release \cup {b}
<1>3. get_buf(s) = [s EXCEPT !.free = Tail(@), !.release = r, !.users = w]
  BY DEF get_buf, b, BQ
<1>4. w \in [Bufs -> Int] /\ r \in SUBSET Bufs /\ b \in r
  BY <1>2 DEF BQ
<1> HIDE DEF b, w, r
<1>5. get_buf(s) \in BQ
  BY Zenon, <1>2, <1>3, <1>4 DEF BQ
<1>6. get_buf(s).free = Tail(s.free) /\ get_buf(s).stopped = s.stopped /\ get_buf(s).q = s.q
      /\ get_buf(s).users = w /\ get_buf(s).release = r
  BY <1>2, <1>3 DEF BQ
<1> QED
  BY <1>2, <1>4, <1>5, <1>6 DEF b, w

\* A put that leaves no user of a buffer whose release_event is set ...
LEMMA PutLast ==
    ASSUME NEW s \in BQ, NEW b \in Bufs, s.users[b] = 1, b \in s.release
    PROVE  LET t == bdescr_put(s, b) IN
           /\ t \in BQ /\ t.free = s.free /\ t.stopped = s.stopped
           /\ t.users = [s.users EXCEPT ![b] = 0]
           /\ t.q = Trigger(s, "setup", b).q
<1> DEFINE w == [s.users EXCEPT ![b] = @ - 1]
           u == [s EXCEPT !.users = w]
<1>1. w \in [Bufs -> Int] /\ w[b] = 0 /\ w = [s.users EXCEPT ![b] = 0]
  BY DEF BQ
<1>2. bdescr_put(s, b) = IF u.users[b] = 0 /\ b \in s.release THEN Trigger(u, "setup", b) ELSE u
  BY DEF bdescr_put
<1> HIDE DEF w
<1>3. u \in BQ /\ u.free = s.free /\ u.stopped = s.stopped /\ u.q = s.q /\ u.users = w
  BY Zenon, <1>1 DEF BQ
<1> HIDE DEF u
<1>4. bdescr_put(s, b) = Trigger(u, "setup", b) /\ <<"setup", b>> \in Events
  BY Zenon, <1>1, <1>2, <1>3, EventKinds
<1>5. /\ Trigger(u, "setup", b) \in BQ
      /\ Trigger(u, "setup", b).free = s.free
      /\ Trigger(u, "setup", b).stopped = s.stopped
      /\ Trigger(u, "setup", b).users = w
      /\ Trigger(u, "setup", b).q = Trigger(s, "setup", b).q
  BY <1>3, <1>4, Triggered
<1> QED
  BY <1>1, <1>4, <1>5

\* ... and one that makes the counter negative.
LEMMA PutUnused ==
    ASSUME NEW s \in BQ, NEW b \in Bufs, s.users[b] <= 0
    PROVE  LET t == bdescr_put(s, b) IN
           /\ t \in BQ /\ t.free = s.free /\ t.stopped = s.stopped /\ t.q = s.q
           /\ t.users = [s.users EXCEPT ![b] = @ - 1]
<1> DEFINE w == [s.users EXCEPT ![b] = @ - 1]
           u == [s EXCEPT !.users = w]
<1>1. w \in [Bufs -> Int] /\ w[b] # 0
  BY DEF BQ
<1>2. bdescr_put(s, b) = IF u.users[b] = 0 /\ b \in s.release THEN Trigger(u, "setup", b) ELSE u
  BY DEF bdescr_put
<1> HIDE DEF w
<1>3. u \in BQ /\ u.free = s.free /\ u.stopped = s.stopped /\ u.q = s.q /\ u.users = w
  BY Zenon, <1>1 DEF BQ
<1> QED
  BY <1>1, <1>2, <1>3 DEF w

\* A list with an element added at its head.
LEMMA Prepended ==
    ASSUME NEW S, NEW s \in Seq(S), NEW x \in S, NEW X
    PROVE  /\ <<x>> \o s \in Seq(S) /\ <<x>> \o s # <<>>
           /\ Range(<<x>> \o s) = Range(s) \cup {x}
           /\ NoRepeat(s, X) /\ x \notin Range(s) => NoRepeat(<<x>> \o s, X)
<1> DEFINE t == <<x>> \o s
<1>1. <<x>> \in Seq(S) /\ Len(<<x>>) = 1 /\ <<x>>[1] = x
  OBVIOUS
<1>2. /\ t \in Seq(S) /\ Len(t) = 1 + Len(s) /\ Len(s) \in Nat
      /\ DOMAIN s = 1 .. Len(s)
  BY <1>1, ConcatProperties, LenProperties
<1>2a. \A k \in 1 .. Len(t) : t[k] = (IF k <= 1 THEN <<x>>[k] ELSE s[k - 1])
  BY <1>1, <1>2, ConcatProperties
<1>2b. DOMAIN t = 1 .. Len(s) + 1
  BY <1>2, LenProperties
<1> HIDE DEF t
<1>3. t[1] = x /\ 1 \in 1 .. Len(t) /\ \A k \in 2 .. Len(t) : t[k] = s[k - 1] /\ k - 1 \in 1 .. Len(s)
  BY <1>1, <1>2, <1>2a
<1>4. t # <<>>
  BY <1>2, EmptySeq
<1>5. \A k \in 1 .. Len(s) : t[k + 1] = s[k] /\ k + 1 \in 1 .. Len(t)
  BY <1>2, <1>2a
<1>6. \A k \in 1 .. Len(t) : k = 1 \/ k \in 2 .. Len(t)
  BY <1>2
<1>7. Range(t) = Range(s) \cup {x}
  <2>1. ASSUME NEW y \in Range(t) PROVE y \in Range(s) \cup {x}
    BY <2>1, <1>2, <1>2b, <1>3, <1>6 DEF Range
  <2>2. ASSUME NEW y \in Range(s) PROVE y \in Range(t)
    BY <2>2, <1>2, <1>2b, <1>5 DEF Range
  <2>3. x \in Range(t)
    BY <1>2, <1>2b, <1>3 DEF Range
  <2> QED
    BY <2>1, <2>2, <2>3
<1>8. ASSUME NoRepeat(s, X), x \notin Range(s) PROVE NoRepeat(t, X)
  <2>1. \A k \in 2 .. Len(t) : t[k] # x
    BY <1>2, <1>3, <1>8 DEF Range
  <2>2. \A i, j \in 2 .. Len(t) : i - 1 = j - 1 => i = j
    BY <1>2
  <2> QED
    BY Zenon, <1>3, <1>6, <1>8, <2>1, <2>2 DEF NoRepeat
<1> QED
  BY <1>2, <1>4, <1>7, <1>8 DEF t

\* bathos_bqueue_server_buf_done makes the buffer the first free one.
LEMMA Done ==
    ASSUME NEW s \in BQ, NEW b \in Bufs
    PROVE  LET t == buf_done(s, b) IN
           /\ t \in BQ /\ t.stopped = s.stopped /\ t.users = s.users
           /\ t.free = <<b>> \o s.free /\ t.free # <<>> /\ Range(t.free) = Range(s.free) \cup {b}
           /\ t.q = IF s.free = <<>> THEN Trigger(s, "available", None).q ELSE s.q
<1> DEFINE f == <<b>> \o s.free
           u == [s EXCEPT !.free = f]
<1>1. f \in Seq(Bufs) /\ f # <<>> /\ Range(f) = Range(s.free) \cup {b}
  BY Prepended DEF BQ
<1>2. buf_done(s, b) = IF s.free = <<>> THEN Trigger(u, "available", None) ELSE u
  BY DEF buf_done, BQ
<1> HIDE DEF f
<1>3. u \in BQ /\ u.free = f /\ u.stopped = s.stopped /\ u.q = s.q /\ u.users = s.users
  BY Zenon, <1>1 DEF BQ
<1> HIDE DEF u
<1>4. /\ Trigger(u, "available", None) \in BQ
      /\ Trigger(u, "available", None).free = f
      /\ Trigger(u, "available", None).stopped = s.stopped
      /\ Trigger(u, "available", None).users = s.users
      /\ Trigger(u, "available", None).q = Trigger(s, "available", None).q
  BY <1>3, Triggered, EventKinds
<1> QED
  BY Zenon, <1>1, <1>2, <1>3, <1>4 DEF f

\* A handler's end takes its event from the queue.
LEMMA Retired ==
    ASSUME NEW s \in BQ, s.q # <<>>
    PROVE  LET t == Retire(s) IN
           /\ t \in BQ /\ t.stopped = s.stopped /\ t.users = s.users /\ t.free = s.free
           /\ t.q = Tail(s.q)
BY Zenon, HeadAndTail DEF Retire, BQ

\* A trigger of an event that is not in the queue repeats nothing.
LEMMA TriggeredOnce ==
    ASSUME NEW s \in BQ, NEW e, NEW x, <<e, x>> \in Events, NEW X
    PROVE  LET t == Trigger(s, e, x) IN
           /\ NoRepeat(s.q, X) /\ (<<e, x>> \in X => <<e, x>> \notin Range(s.q)) => NoRepeat(t.q, X)
           /\ Single(s.q, X) /\ (<<e, x>> \in X => \A y \in Range(s.q) : y \notin X) => Single(t.q, X)
<1>1. s.q \in Seq(Events)
  BY DEF BQ
<1>2. Trigger(s, e, x).q = (IF Len(s.q) < QueueSize THEN Append(s.q, <<e, x>>) ELSE s.q)
  BY Triggered
<1> QED
  BY <1>1, <1>2, AppendedOnce

-----------------------------------------------------------------------------
(* What the operators do to the places of the buffers.                     *)

\* The elements of a sequence over S are in S.
LEMMA MembersTyped ==
    ASSUME NEW S, NEW s \in Seq(S)
    PROVE  Range(s) \subseteq S
BY LenProperties DEF Range

\* An event that is not about a buffer.
LEMMA PlacesTrigger ==
    ASSUME NEW s, NEW rx, NEW o, Places(s, rx, o), NEW e \in {"available", "input"}
    PROVE  Places(Trigger(s, e, None), rx, o)
<1> DEFINE t == Trigger(s, e, None)
<1>1. s \in BQ /\ <<e, None>> \in Events /\ <<e, None>> \notin BufEvent("setup")
      /\ \A b \in Bufs : <<"setup", b>> # <<e, None>> /\ <<"processed", b>> # <<e, None>>
  BY Zenon, EventKinds DEF Places, BufEvent
<1>2. /\ t \in BQ
      /\ t.free = s.free /\ t.stopped = s.stopped /\ t.users = s.users
      /\ Range(t.q) \subseteq Range(s.q) \cup {<<e, None>>}
  BY <1>1, Triggered
<1>3. NoRepeat(s.q, BufEvent("setup")) => NoRepeat(t.q, BufEvent("setup"))
  BY <1>1, TriggeredOnce
<1>4. \A b \in Range(s.free) : b \in Bufs
  BY <1>1, MembersTyped DEF BQ
<1> HIDE DEF t
<1>5. Places(t, rx, o)
  BY <1>1, <1>2, <1>3, <1>4 DEF Places
<1> QED
  BY <1>5 DEF t

\* Starting the queue moves no buffer.
LEMMA PlacesStart ==
    ASSUME NEW s, NEW rx, NEW o, Places(s, rx, o)
    PROVE  Places(async_start(s), rx, o)
<1> DEFINE t == async_start(s)
           u == Trigger(s, "available", None)
<1>1. s \in BQ
  BY DEF Places
<1>2. t \in BQ /\ ~t.stopped /\ t.free = s.free /\ t.users = s.users /\ t.q = u.q
  BY <1>1, Started
<1>3. Places(u, rx, o)
  BY PlacesTrigger
<1>4. u.free = s.free /\ u.users = s.users
  BY <1>1, Triggered, EventKinds
<1> HIDE DEF t, u
<1>5. Places(t, rx, o)
  BY <1>2, <1>3, <1>4 DEF Places
<1> QED
  BY <1>5 DEF t

\* A buffer that is held once and in no other place.
Held(s, rx, b) ==
    /\ s.users[b] = 1 /\ b \in s.release
    /\ b \notin Range(s.free) /\ b \notin Range(rx) /\ <<"setup", b>> \notin Range(s.q)

\* A buffer that is got leaves the free list and is held.
LEMMA PlacesGet ==
    ASSUME NEW s, NEW rx, NEW o, Places(s, rx, o), s.free # <<>>
    PROVE  /\ GotBuf(s) \in Bufs /\ GotBuf(s) \in Range(s.free)
           /\ Places(get_buf(s), rx, o)
           /\ Held(get_buf(s), rx, GotBuf(s))
           /\ get_buf(s).q = s.q
<1> DEFINE t == get_buf(s)
           b == GotBuf(s)
<1>1. s \in BQ /\ s.free \in Seq(Bufs) /\ s.users \in [Bufs -> Int]
  BY DEF Places, BQ
<1>2. /\ t \in BQ /\ b \in Bufs /\ t.stopped = s.stopped /\ t.q = s.q
      /\ t.free = Tail(s.free) /\ Range(s.free) = {b} \cup Range(t.free)
      /\ t.users = [s.users EXCEPT ![b] = @ + 1] /\ b \in t.release
  BY Zenon, <1>1, Got
<1>3. NoRepeat(t.free, Bufs) /\ b \notin Range(t.free)
  <2>1. b = Head(s.free)
    BY DEF GotBuf
  <2> QED
    BY <1>1, <1>2, <2>1, TailOnce DEF Places
<1>4. \A c \in Range(s.free) : c \in Bufs
  BY <1>1, MembersTyped
<1>5. s.users[b] = 0 /\ <<"setup", b>> \notin Range(s.q) /\ b \notin Range(rx)
  BY <1>2 DEF Places
<1>5a. \A c \in Range(rx) : c \in Bufs
  BY MembersTyped DEF Places
<1> HIDE DEF t, b
<1>6. t.users[b] = 1 /\ \A c \in Bufs : c # b => t.users[c] = s.users[c]
  BY <1>1, <1>2, <1>5
<1>7. Places(t, rx, o)
  <2>1. t \in BQ /\ ~t.stopped /\ rx \in Seq(Bufs) /\ o \in [Bufs -> {"NONE", "SEND", "RECV"}]
        /\ NoRepeat(t.free, Bufs) /\ NoRepeat(t.q, BufEvent("setup"))
    BY <1>2, <1>3 DEF Places
  <2>2. ASSUME NEW c \in Range(t.free)
        PROVE  <<"setup", c>> \notin Range(t.q) /\ t.users[c] = 0 /\ c \notin Range(rx)
    BY <1>2, <1>3, <1>4, <1>6 DEF Places
  <2>3. ASSUME NEW c \in Bufs, <<"setup", c>> \in Range(t.q)
        PROVE  o[c] # "NONE" /\ t.users[c] = 0 /\ c \notin Range(rx)
    BY <1>2, <1>5, <1>6, <2>3 DEF Places
  <2>4. ASSUME NEW c \in Range(rx) PROVE t.users[c] <= 0
    BY <1>5, <1>5a, <1>6 DEF Places
  <2>5. \A c \in Bufs : <<"processed", c>> \in Range(t.q) => c \in Range(rx)
    BY <1>2 DEF Places
  <2> QED
    BY <2>1, <2>2, <2>3, <2>4, <2>5 DEF Places
<1>8. Held(t, rx, b)
  BY <1>2, <1>3, <1>5, <1>6 DEF Held
<1> QED
  BY <1>2, <1>7, <1>8 DEF t, b

\* A held buffer that is put goes on its way to the server with its operation,
\* or nowhere if the event is lost.
LEMMA PlacesPut ==
    ASSUME NEW s, NEW rx, NEW o, Places(s, rx, o), NEW b \in Bufs, Held(s, rx, b),
           NEW k \in {"SEND", "RECV"}
    PROVE  /\ Places(bdescr_put(s, b), rx, [o EXCEPT ![b] = k])
           /\ bdescr_put(s, b).free = s.free
           /\ bdescr_put(s, b).q = Trigger(s, "setup", b).q
<1> DEFINE t == bdescr_put(s, b)
           p == [o EXCEPT ![b] = k]
           u == Trigger(s, "setup", b)
<1>1. s \in BQ /\ s.users \in [Bufs -> Int] /\ <<"setup", b>> \in Events
      /\ s.users[b] = 1 /\ b \in s.release
      /\ b \notin Range(s.free) /\ b \notin Range(rx) /\ <<"setup", b>> \notin Range(s.q)
  BY Zenon, EventKinds DEF Places, BQ, Held
<1>2. /\ t \in BQ /\ t.free = s.free /\ t.stopped = s.stopped
      /\ t.users = [s.users EXCEPT ![b] = 0] /\ t.q = u.q
  BY <1>1, PutLast
<1>3. Range(u.q) \subseteq Range(s.q) \cup {<<"setup", b>>}
  BY <1>1, Triggered
<1>4. NoRepeat(u.q, BufEvent("setup"))
  BY Zenon, <1>1, TriggeredOnce DEF Places
<1>5. \A c \in Range(s.free) \cup Range(rx) : c \in Bufs
  BY <1>1, MembersTyped DEF Places, BQ
<1>6. p \in [Bufs -> {"NONE", "SEND", "RECV"}] /\ p[b] = k /\ \A c \in Bufs : c # b => p[c] = o[c]
  BY DEF Places
<1> HIDE DEF t, p, u
<1>7. t.users[b] = 0 /\ \A c \in Bufs : c # b => t.users[c] = s.users[c]
  BY <1>1, <1>2
<1>8. \A c \in Bufs : /\ <<"setup", c>> = <<"setup", b>> => c = b
                      /\ <<"processed", c>> # <<"setup", b>>
  OBVIOUS
<1>9. Places(t, rx, p)
  <2>1. t \in BQ /\ ~t.stopped /\ rx \in Seq(Bufs)
        /\ NoRepeat(t.free, Bufs) /\ NoRepeat(t.q, BufEvent("setup"))
    BY <1>2, <1>4 DEF Places
  <2>2. ASSUME NEW c \in Range(t.free)
        PROVE  <<"setup", c>> \notin Range(t.q) /\ t.users[c] = 0 /\ c \notin Range(rx)
    BY <1>1, <1>2, <1>3, <1>5, <1>7, <1>8 DEF Places
  <2>3. ASSUME NEW c \in Bufs, <<"setup", c>> \in Range(t.q)
        PROVE  p[c] # "NONE" /\ t.users[c] = 0 /\ c \notin Range(rx)
    BY <1>1, <1>2, <1>3, <1>6, <1>7, <1>8, <2>3 DEF Places
  <2>4. ASSUME NEW c \in Range(rx) PROVE t.users[c] <= 0
    BY Zenon, <1>1, <1>5, <1>7 DEF Places
  <2>5. \A c \in Bufs : <<"processed", c>> \in Range(t.q) => c \in Range(rx)
    BY <1>2, <1>3, <1>8 DEF Places
  <2> QED
    BY <1>6, <2>1, <2>2, <2>3, <2>4, <2>5 DEF Places
<1> QED
  BY <1>2, <1>9 DEF t, p, u

\* A put of a buffer that waits for packets sends it nowhere.
LEMMA PlacesPutUnused ==
    ASSUME NEW s, NEW rx, NEW o, Places(s, rx, o), NEW b \in Range(rx)
    PROVE  /\ Places(bdescr_put(s, b), rx, o)
           /\ bdescr_put(s, b).free = s.free /\ bdescr_put(s, b).q = s.q
<1> DEFINE t == bdescr_put(s, b)
<1>1. s \in BQ /\ s.users \in [Bufs -> Int] /\ s.users[b] <= 0
  BY DEF Places, BQ
<1>2. \A c \in Range(s.free) \cup Range(rx) : c \in Bufs
  BY <1>1, MembersTyped DEF Places, BQ
<1>3. /\ t \in BQ /\ t.free = s.free /\ t.stopped = s.stopped /\ t.q = s.q
      /\ t.users = [s.users EXCEPT ![b] = @ - 1]
  BY <1>1, <1>2, PutUnused
<1> HIDE DEF t
<1>4. t.users[b] <= 0 /\ \A c \in Bufs : c # b => t.users[c] = s.users[c]
  BY <1>1, <1>2, <1>3
<1>5. Places(t, rx, o)
  BY <1>2, <1>3, <1>4 DEF Places
<1> QED
  BY <1>3, <1>5 DEF t

\* The end of a handler.
LEMMA PlacesRetire ==
    ASSUME NEW s, NEW rx, NEW o, Places(s, rx, o), s.q # <<>>
    PROVE  /\ Places(Retire(s), rx, o)
           /\ Retire(s).free = s.free /\ Retire(s).users = s.users /\ Retire(s).q = Tail(s.q)
           /\ \A b \in Bufs : Head(s.q) = <<"setup", b>> => <<"setup", b>> \notin Range(Tail(s.q))
<1> DEFINE t == Retire(s)
<1>1. s \in BQ /\ s.q \in Seq(Events)
  BY DEF Places, BQ
<1>2. t \in BQ /\ t.stopped = s.stopped /\ t.users = s.users /\ t.free = s.free /\ t.q = Tail(s.q)
  BY <1>1, Retired
<1>3. Range(Tail(s.q)) \subseteq Range(s.q)
  BY <1>1, HeadAndTail
<1>4. NoRepeat(Tail(s.q), BufEvent("setup"))
      /\ (Head(s.q) \in BufEvent("setup") => Head(s.q) \notin Range(Tail(s.q)))
  BY <1>1, TailOnce DEF Places
<1>5. \A b \in Range(s.free) : b \in Bufs
  BY <1>1, MembersTyped DEF BQ
<1> HIDE DEF t
<1>6. Places(t, rx, o)
  BY <1>2, <1>3, <1>4, <1>5 DEF Places
<1>7. \A b \in Bufs : Head(s.q) = <<"setup", b>> => <<"setup", b>> \notin Range(Tail(s.q))
  BY <1>4 DEF BufEvent
<1> QED
  BY <1>2, <1>6, <1>7 DEF t

\* The server takes a buffer, whose setup event is retired afterwards, back.
LEMMA PlacesDone ==
    ASSUME NEW s, NEW rx, NEW o, Places(s, rx, o), NEW b \in Bufs,
           s.q # <<>>, Head(s.q) = <<"setup", b>>
    PROVE  LET t == Retire(buf_done(s, b)) IN
           /\ Places(t, rx, o)
           /\ t.free # <<>>
           /\ t.q = Tail(IF s.free = <<>> THEN Trigger(s, "available", None).q ELSE s.q)
           /\ s.free = <<>> /\ Len(s.q) < QueueSize => <<"available", None>> \in Range(t.q)
<1> DEFINE u == buf_done(s, b)
           t == Retire(u)
           v == Trigger(s, "available", None)
<1>1. s \in BQ /\ s.q \in Seq(Events) /\ s.free \in Seq(Bufs) /\ <<"available", None>> \in Events
      /\ <<"available", None>> # <<"setup", b>>
  BY EventKinds DEF Places, BQ
<1>2. /\ u \in BQ /\ u.stopped = s.stopped /\ u.users = s.users
      /\ u.free = <<b>> \o s.free /\ u.free # <<>> /\ Range(u.free) = Range(s.free) \cup {b}
      /\ u.q = IF s.free = <<>> THEN v.q ELSE s.q
  BY Zenon, <1>1, Done
<1>3. /\ Places(v, rx, o) /\ v.free = s.free /\ v.users = s.users
      /\ v.q = (IF Len(s.q) < QueueSize THEN Append(s.q, <<"available", None>>) ELSE s.q)
      /\ Range(s.q) \subseteq Range(v.q)
      /\ Len(s.q) < QueueSize => <<"available", None>> \in Range(v.q)
  <2>1. Places(v, rx, o)
    BY PlacesTrigger
  <2>2. v.free = s.free /\ v.users = s.users
    BY <1>1, Triggered
  <2>3. v.q = (IF Len(s.q) < QueueSize THEN Append(s.q, <<"available", None>>) ELSE s.q)
    BY <1>1, Triggered
  <2>4. /\ Range(s.q) \subseteq Range(v.q)
        /\ Len(s.q) < QueueSize => <<"available", None>> \in Range(v.q)
    BY Zenon, <1>1, Triggered
  <2> QED
    BY <2>1, <2>2, <2>3, <2>4
<1>4. v.q # <<>> /\ Head(v.q) = <<"setup", b>> /\ v.q \in Seq(Events)
  <2>1. /\ Append(s.q, <<"available", None>>) # <<>>
        /\ Append(s.q, <<"available", None>>) \in Seq(Events)
        /\ Head(Append(s.q, <<"available", None>>)) = Head(s.q)
    BY <1>1, Appended
  <2> QED
    BY Zenon, <1>1, <1>3, <2>1
<1>5. u.q # <<>> /\ Head(u.q) = <<"setup", b>> /\ u.q \in Seq(Events)
  BY Zenon, <1>1, <1>2, <1>4
<1>6. t \in BQ /\ t.stopped = s.stopped /\ t.users = s.users /\ t.free = u.free /\ t.q = Tail(u.q)
  BY <1>2, <1>5, Retired
<1>7. /\ Places(Retire(v), rx, o) /\ Retire(v).q = Tail(v.q) /\ <<"setup", b>> \notin Range(Tail(v.q))
      /\ Retire(v).free = s.free /\ Retire(v).users = s.users
  BY Zenon, <1>3, <1>4, PlacesRetire
<1>8. /\ Places(Retire(s), rx, o) /\ Retire(s).q = Tail(s.q) /\ <<"setup", b>> \notin Range(Tail(s.q))
      /\ Retire(s).free = s.free /\ Retire(s).users = s.users
  BY Zenon, PlacesRetire
<1> DEFINE w == IF s.free = <<>> THEN Retire(v) ELSE Retire(s)
<1>9. Places(w, rx, o) /\ w.q = t.q /\ <<"setup", b>> \notin Range(t.q) /\ w.free = s.free
      /\ w.users = s.users
  BY Zenon, <1>2, <1>6, <1>7, <1>8
<1>10. b \notin Range(s.free) /\ s.users[b] = 0 /\ b \notin Range(rx)
  <2>1. <<"setup", b>> \in Range(s.q)
    BY <1>1, HeadAndTail
  <2> QED
    BY <2>1 DEF Places
<1>11. NoRepeat(u.free, Bufs)
  BY <1>1, <1>2, <1>10, Prepended DEF Places
<1>12. s.free = <<>> /\ Len(s.q) < QueueSize => <<"available", None>> \in Range(t.q)
  <2>1. Range(v.q) = {Head(v.q)} \cup Range(Tail(v.q))
    BY <1>4, HeadAndTail
  <2> QED
    BY <1>1, <1>2, <1>3, <1>4, <1>6, <2>1
<1> HIDE DEF u, t, v, w
<1>13. Places(t, rx, o)
  <2>1. t \in BQ /\ ~t.stopped /\ rx \in Seq(Bufs) /\ o \in [Bufs -> {"NONE", "SEND", "RECV"}]
        /\ NoRepeat(t.free, Bufs) /\ NoRepeat(t.q, BufEvent("setup"))
    BY <1>6, <1>9, <1>11 DEF Places
  <2>2. ASSUME NEW c \in Range(t.free)
        PROVE  <<"setup", c>> \notin Range(t.q) /\ t.users[c] = 0 /\ c \notin Range(rx)
    BY ZenonT(40), <1>2, <1>6, <1>9, <1>10 DEF Places
  <2>3. \A c \in Bufs : <<"setup", c>> \in Range(t.q) =>
           o[c] # "NONE" /\ t.users[c] = 0 /\ c \notin Range(rx)
    BY <1>6, <1>9 DEF Places
  <2>4. \A c \in Range(rx) : t.users[c] <= 0
    BY <1>6, <1>9 DEF Places
  <2>5. \A c \in Bufs : <<"processed", c>> \in Range(t.q) => c \in Range(rx)
    BY <1>9 DEF Places
  <2> QED
    BY <2>1, <2>2, <2>3, <2>4, <2>5 DEF Places
<1> QED
  BY <1>2, <1>6, <1>12, <1>13 DEF t, u, v

\* A packet is reported for a buffer that waits for packets.
LEMMA PlacesProcessed ==
    ASSUME NEW s, NEW rx, NEW o, Places(s, rx, o), NEW b \in Range(rx)
    PROVE  Places(buf_processed(s, b), rx, o)
<1> DEFINE t == Trigger(s, "processed", b)
<1>1. s \in BQ /\ \A c \in Range(s.free) \cup Range(rx) : c \in Bufs
  BY MembersTyped DEF Places, BQ
<1>2. <<"processed", b>> \in Events /\ <<"processed", b>> \notin BufEvent("setup")
      /\ \A c \in Bufs : /\ <<"setup", c>> # <<"processed", b>>
                         /\ <<"processed", c>> = <<"processed", b>> => c = b
  BY Zenon, <1>1, EventKinds DEF BufEvent
<1>3. /\ t \in BQ /\ t.free = s.free /\ t.stopped = s.stopped /\ t.users = s.users
      /\ Range(t.q) \subseteq Range(s.q) \cup {<<"processed", b>>}
  BY <1>1, <1>2, Triggered
<1>4. NoRepeat(t.q, BufEvent("setup"))
  BY <1>1, <1>2, TriggeredOnce DEF Places
<1> HIDE DEF t
<1>5. Places(t, rx, o)
  BY <1>1, <1>2, <1>3, <1>4 DEF Places
<1> QED
  BY <1>5 DEF t, buf_processed

\* The server queues a buffer that is in no other place for reception.
LEMMA PlacesQueued ==
    ASSUME NEW s, NEW rx, NEW o, Places(s, rx, o), NEW b \in Bufs,
           s.users[b] = 0, b \notin Range(s.free), b \notin Range(rx),
           <<"setup", b>> \notin Range(s.q)
    PROVE  Places(s, list_move_tail(b, rx), o)
<1> DEFINE r == list_move_tail(b, rx)
<1>1. r \in Seq(Bufs) /\ Range(r) = Range(rx) \cup {b}
  BY Appended DEF Places, list_move_tail, Without
<1> HIDE DEF r
<1>2. Places(s, r, o)
  BY <1>1 DEF Places
<1> QED
  BY <1>2 DEF r

-----------------------------------------------------------------------------
(* Free buffers are idle.                                                  *)

\* The event being handled.
LEMMA AtHead ==
    ASSUME BufInv, NEW e \in {"available", "input", "setup", "processed"}, At(e)
    PROVE  /\ bq.q # <<>> /\ bq.q \in Seq(Events)
           /\ e \in {"available", "input"} => Head(bq.q) = <<e, None>>
           /\ e \in {"setup", "processed"} => Buf \in Bufs /\ Head(bq.q) = <<e, Buf>>
           /\ Head(bq.q) \in Range(bq.q)
<1>1. bq.q \in Seq(Events) /\ bq.q # <<>> /\ Head(bq.q)[1] = e
  BY DEF BufInv, Places, BQ, At
<1>2. Head(bq.q) \in Events /\ Head(bq.q) \in Range(bq.q)
  BY <1>1, HeadAndTail
<1> QED
  BY <1>1, <1>2, EventKinds DEF Buf

\* At the start all buffers are free.
LEMMA InitPlaces == Places(server_init, <<>>, [b \in Bufs |-> "NONE"])
<1> DEFINE f == [i \in Bufs |-> NBufs + 1 - i]
           e == <<>>
<1>1. f \in Seq(Bufs) /\ Len(f) = NBufs /\ DOMAIN f = 1 .. NBufs
  BY BufferQueueAssumption DEF Bufs
<1>2. NoRepeat(f, Bufs)
  BY <1>1, BufferQueueAssumption DEF NoRepeat, Bufs
<1>3. e \in Seq(Events) /\ e \in Seq(Bufs) /\ Range(e) = {} /\ NoRepeat(e, BufEvent("setup"))
  BY EmptySeq DEF Range, NoRepeat
<1>4. server_init \in BQ /\ ~server_init.stopped /\ server_init.users = [b \in Bufs |-> 0]
      /\ server_init.free = f /\ server_init.q = e
  BY <1>1, <1>3 DEF server_init, BQ
<1>5. Range(f) \subseteq Bufs
  BY Zenon, <1>1, MembersTyped
<1> HIDE DEF f, e
<1>6. Places(server_init, e, [b \in Bufs |-> "NONE"])
  BY <1>2, <1>3, <1>4, <1>5 DEF Places
<1> QED
  BY <1>6 DEF e

\* ... also after the protocol's first start.
LEMMA BufInit == Init => BufInv
BY InitPlaces, PlacesStart DEF Init, BufInv

\* What lininoio_periodic does to the buffers: it may start the queue, and
\* then takes a buffer, keeps it or puts it.
LEMMA PeriodicCases ==
    ASSUME BufInv, lininoio_periodic
    PROVE  LET s == IF started THEN bq ELSE async_start(bq)
               b == GotBuf(s) IN
           /\ Places(s, rx_queue, op) /\ rx_queue' = rx_queue
           /\ \/ bq' = s /\ op' = op /\ state' = state
              \/ /\ s.free # <<>> /\ bq' = get_buf(s) /\ op' = op /\ state' = state
              \/ /\ s.free # <<>> /\ bq' = bdescr_put(get_buf(s), b)
                 /\ op' = [op EXCEPT ![b] = "SEND"]
                 /\ \/ state = "UNASSOCIATED" /\ state' = "ASSOCIATING"
                    \/ state = "ASSOCIATED" /\ state' = state
<1> DEFINE s == IF started THEN bq ELSE async_start(bq)
           b == GotBuf(s)
<1>1. Places(s, rx_queue, op)
  BY PlacesStart DEF BufInv
<1>2. rx_queue' = rx_queue
  BY DEF lininoio_periodic, server
<1>3. CASE ~CanGet(s)
  BY <1>1, <1>2, <1>3 DEF lininoio_periodic
<1>4. CASE CanGet(s)
  <2>1. s.free # <<>>
    BY <1>4 DEF CanGet
  <2>2. \/ bq' = get_buf(s) /\ op' = op /\ state' = state
        \/ /\ bq' = bdescr_put(get_buf(s), b) /\ op' = [op EXCEPT ![b] = "SEND"]
           /\ \/ state = "UNASSOCIATED" /\ state' = "ASSOCIATING"
              \/ state = "ASSOCIATED" /\ state' = state
    BY Zenon, <1>4 DEF lininoio_periodic, BufInv
  <2> QED
    BY <1>1, <1>2, <2>1, <2>2
<1> QED
  BY <1>3, <1>4

\* Every step keeps each buffer in one place.
LEMMA BufStep == BufInv /\ [Next]_vars => BufInv'
<1> SUFFICES ASSUME BufInv, [Next]_vars PROVE BufInv'
  OBVIOUS
<1> USE DEF BufInv
<1>1. CASE lininoio_periodic
  <2> DEFINE s == IF started THEN bq ELSE async_start(bq)
             b == GotBuf(s)
  <2>1. /\ Places(s, rx_queue, op) /\ rx_queue' = rx_queue
        /\ \/ bq' = s /\ op' = op /\ state' = state
           \/ /\ s.free # <<>> /\ bq' = get_buf(s) /\ op' = op /\ state' = state
           \/ /\ s.free # <<>> /\ bq' = bdescr_put(get_buf(s), b)
              /\ op' = [op EXCEPT ![b] = "SEND"]
              /\ \/ state = "UNASSOCIATED" /\ state' = "ASSOCIATING"
                 \/ state = "ASSOCIATED" /\ state' = state
    BY <1>1, PeriodicCases
  <2> HIDE DEF s
  <2>2. CASE s.free = <<>>
    BY <2>1, <2>2
  <2>3. CASE s.free # <<>>
    <3>1. b \in Bufs /\ Places(get_buf(s), rx_queue, op) /\ Held(get_buf(s), rx_queue, b)
      BY <2>1, <2>3, PlacesGet
    <3>2. Places(bdescr_put(get_buf(s), b), rx_queue, [op EXCEPT ![b] = "SEND"])
      BY Zenon, <3>1, PlacesPut
    <3> QED
      BY <2>1, <3>1, <3>2
  <2> QED
    BY <2>2, <2>3
<1>2. CASE AvailableTurn
  <2> DEFINE b == GotBuf(bq)
  <2>1. /\ bq.free # <<>> /\ bq' = bdescr_put(get_buf(bq), b) /\ op' = [op EXCEPT ![b] = "RECV"]
        /\ rx_queue' = rx_queue /\ state' = state
    BY <1>2 DEF AvailableTurn, Wanted, CanGet, server
  <2>2. b \in Bufs /\ Places(get_buf(bq), rx_queue, op) /\ Held(get_buf(bq), rx_queue, b)
    BY <2>1, PlacesGet
  <2>3. Places(bdescr_put(get_buf(bq), b), rx_queue, [op EXCEPT ![b] = "RECV"])
    BY Zenon, <2>2, PlacesPut
  <2> QED
    BY <2>1, <2>3
<1>3. CASE AvailableReturn
  <2>1. bq.q # <<>> /\ bq' = Retire(bq) /\ op' = op /\ rx_queue' = rx_queue /\ state' = state
    BY <1>3 DEF AvailableReturn, At, server
  <2> QED
    BY <2>1, PlacesRetire
<1>4. CASE Processed
  <2>1. /\ bq' = Retire(bdescr_put(bq, Buf)) /\ op' = op /\ rx_queue' = rx_queue /\ state' = state
        /\ At("processed")
    BY <1>4 DEF Processed, server, core
  <2>2. bq.q # <<>> /\ Buf \in Bufs /\ <<"processed", Buf>> \in Range(bq.q)
    BY <2>1, AtHead
  <2>3. Buf \in Range(rx_queue)
    BY <2>2 DEF Places
  <2>4. Places(bdescr_put(bq, Buf), rx_queue, op) /\ bdescr_put(bq, Buf).q = bq.q
    BY <2>3, PlacesPutUnused
  <2>5. Places(Retire(bdescr_put(bq, Buf)), rx_queue, op)
    BY <2>2, <2>4, PlacesRetire
  <2> QED
    BY <2>1, <2>5
<1>5. CASE Setup
  <2>1. At("setup") /\ op' = op /\ state' = state
    BY <1>5 DEF Setup, core
  <2>2. /\ bq.q # <<>> /\ Buf \in Bufs /\ Head(bq.q) = <<"setup", Buf>>
        /\ <<"setup", Buf>> \in Range(bq.q)
    BY <2>1, AtHead
  <2>3. op[Buf] \in {"SEND", "RECV"} /\ bq.users[Buf] = 0 /\ Buf \notin Range(rx_queue)
        /\ Buf \notin Range(bq.free)
    BY <2>2 DEF Places
  <2>4. CASE op[Buf] = "SEND"
    <3>1. bq' = Retire(buf_done(bq, Buf)) /\ rx_queue' = rx_queue
      BY <1>5, <2>4 DEF Setup, start_tx
    <3> QED
      BY <2>1, <2>2, <3>1, PlacesDone
  <2>5. CASE op[Buf] = "RECV"
    <3>1. bq' = Retire(bq) /\ rx_queue' = list_move_tail(Buf, rx_queue)
      BY <1>5, <2>5 DEF Setup
    <3>2. /\ Places(Retire(bq), rx_queue, op) /\ Retire(bq).free = bq.free
          /\ Retire(bq).users = bq.users /\ <<"setup", Buf>> \notin Range(Retire(bq).q)
      BY Zenon, <2>2, PlacesRetire
    <3>3. Places(Retire(bq), list_move_tail(Buf, rx_queue), op)
      BY <2>2, <2>3, <3>2, PlacesQueued
    <3> QED
      BY <2>1, <3>1, <3>3
  <2> QED
    BY <2>3, <2>4, <2>5
<1>6. CASE InputLost
  <2>1. bq.q # <<>> /\ bq' = Retire(bq) /\ op' = op /\ rx_queue' = rx_queue /\ state' = state
    BY <1>6 DEF InputLost, At, server, core
  <2> QED
    BY <2>1, PlacesRetire
<1>7. CASE InputReceived
  <2> DEFINE b == Head(rx_queue)
  <2>1. /\ At("input") /\ rx_queue # <<>> /\ bq' = Retire(buf_processed(bq, b))
        /\ op' = op /\ rx_queue' = rx_queue /\ state' = state
    BY <1>7 DEF InputReceived, server, core
  <2>2. b \in Range(rx_queue)
    BY <2>1, HeadAndTail DEF Places
  <2>3. Places(buf_processed(bq, b), rx_queue, op)
    BY <2>2, PlacesProcessed
  <2>4. buf_processed(bq, b).q # <<>>
    <3>1. bq.q # <<>> /\ bq.q \in Seq(Events)
      BY <2>1, AtHead
    <3>2. b \in Bufs /\ bq \in BQ
      BY <2>2, MembersTyped DEF Places
    <3>3. <<"processed", b>> \in Events
      BY Zenon, <3>2, EventKinds
    <3>4. buf_processed(bq, b).q = IF Len(bq.q) < QueueSize THEN Append(bq.q, <<"processed", b>>) ELSE bq.q
      BY <3>2, <3>3, Triggered DEF buf_processed
    <3>5. Append(bq.q, <<"processed", b>>) # <<>>
      BY <3>1, <3>3, Appended
    <3> QED
      BY Zenon, <3>1, <3>4, <3>5
  <2> QED
    BY <2>1, <2>3, <2>4, PlacesRetire
<1>8. CASE SocketReady
  <2>1. bq' = Trigger(bq, "input", None) /\ op' = op /\ rx_queue' = rx_queue /\ state' = state
    BY <1>8 DEF SocketReady, server, core
  <2> QED
    BY <2>1, PlacesTrigger
<1>9. CASE DevWrite
  <2>1. /\ bq.free # <<>> /\ bq' = get_buf(bq) /\ op' = op /\ rx_queue' = rx_queue
        /\ state' = state
    BY <1>9 DEF DevWrite, CanGet, server, core
  <2> QED
    BY <2>1, PlacesGet
<1>10. CASE UNCHANGED vars
  BY <1>10 DEF vars, server, core
<1> QED
  BY <1>1, <1>2, <1>3, <1>4, <1>5, <1>6, <1>7, <1>8, <1>9, <1>10 DEF Next, Handle

\* The buffers are in one place each, for every size of the event queue.
LEMMA BufAlways == Spec => []BufInv
<1>1. Init => BufInv
  BY BufInit DEF Init, BufInv
<1> QED
  BY <1>1, BufStep, PTL DEF Spec

\* A buffer on free_bufs has no event in the queue, no user, and is not on
\* rx_queue (bathos_bqueue_get_buf, bdescr_put, unix_eth_setup_handler):
\* so getting it cannot take it from anybody.  Lost events only leak buffers.
THEOREM FreeIdle == Spec => []FreeBuffersIdle
<1>1. BufInv => FreeBuffersIdle
  <2>1. BufInv => \A b \in Range(bq.free) : b \in Bufs
    BY MembersTyped DEF BufInv, Places, BQ
  <2> QED
    BY Zenon, <2>1 DEF BufInv, Places, FreeBuffersIdle, Pending
<1> QED
  BY <1>1, BufAlways, PTL
=============================================================================
