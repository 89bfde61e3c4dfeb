------------------------- MODULE LininoioRoomProofs -------------------------
(***************************************************************************)
(* Proofs about Lininoio, for every number of buffers and of receptions:   *)
(* when the event queue has room for four events more than there are       *)
(* buffers, no packet is overwritten before it is processed and no free    *)
(* buffer is forgotten while receptions are missing.                       *)
(***************************************************************************)
EXTENDS LininoioProofs, FiniteSetTheorems

-----------------------------------------------------------------------------
(* Room in the event queue.                                                *)

Where(s, x) == {i \in 1 .. Len(s) : s[i] = x}
InputEvents == {<<"input", None>>} \cup BufEvent("processed")

\* The association request has still to be sent.
Sending(b) == op[b] = "SEND" /\ Pending("setup", b)
SendLeft == state = "UNASSOCIATED" \/ \E b \in Bufs : Sending(b)

AvailableCount == Cardinality(Where(bq.q, <<"available", None>>))

\* The queue has at most one event of a packet; available events are caused
\* by the start of the protocol, by the first run of the task and by the one
\* request, so there are never more than three.
RoomInv ==
    /\ BufInv
    /\ Single(bq.q, InputEvents)
    /\ unread \subseteq Bufs /\ \A b \in unread : Pending("processed", b)
    /\ state \in {"UNASSOCIATED", "ASSOCIATING"}
    /\ state = "UNASSOCIATED" => \A b \in Bufs : ~Sending(b)
    /\ \A b, c \in Bufs : Sending(b) /\ Sending(c) => b = c
    /\ AvailableCount + (IF started THEN 0 ELSE 1) + (IF SendLeft THEN 1 ELSE 0) <= 3
    /\ overwritten = FALSE /\ AvailableNotForgotten

-----------------------------------------------------------------------------
(* Counting events.                                                        *)

\* The positions of an event are finitely many ...
LEMMA WhereFinite ==
    ASSUME NEW S, NEW s \in Seq(S), NEW x
    PROVE  IsFiniteSet(Where(s, x)) /\ Cardinality(Where(s, x)) \in Nat
<1>1. Len(s) \in Nat
  BY LenProperties
<1>2. IsFiniteSet(1 .. Len(s))
  BY <1>1, FS_Interval
<1>3. Where(s, x) \subseteq 1 .. Len(s)
  BY DEF Where
<1> QED
  BY <1>2, <1>3, FS_Subset, FS_CardinalityType

\* ... one more if it is appended ...
LEMMA WhereAppend ==
    ASSUME NEW S, NEW s \in Seq(S), NEW y \in S, NEW x
    PROVE  Cardinality(Where(Append(s, y), x)) = Cardinality(Where(s, x)) + IF y = x THEN 1 ELSE 0
<1> DEFINE t == Append(s, y)
<1>1. /\ Len(t) = Len(s) + 1 /\ Len(s) \in Nat
      /\ \A k \in 1 .. Len(s) : t[k] = s[k]
      /\ t[Len(s) + 1] = y
  BY Appended, LenProperties
<1>2. IsFiniteSet(Where(s, x)) /\ Cardinality(Where(s, x)) \in Nat
  BY WhereFinite
<1> HIDE DEF t
<1>3. CASE y = x
  <2>1. Where(t, x) = Where(s, x) \cup {Len(s) + 1}
    BY <1>1, <1>3 DEF Where
  <2>2. Len(s) + 1 \notin Where(s, x)
    BY <1>1 DEF Where
  <2>3. Cardinality(Where(s, x) \cup {Len(s) + 1}) = Cardinality(Where(s, x)) + 1
    BY Zenon, <1>2, <2>2, FS_AddElement
  <2> QED
    BY <1>3, <2>1, <2>3 DEF t
<1>4. CASE y # x
  <2>1. Where(t, x) = Where(s, x)
    BY <1>1, <1>4 DEF Where
  <2> QED
    BY <1>2, <1>4, <2>1 DEF t
<1> QED
  BY <1>3, <1>4

\* ... and one less if it is taken.
LEMMA WhereTail ==
    ASSUME NEW S, NEW s \in Seq(S), s # <<>>, NEW x
    PROVE  Cardinality(Where(Tail(s), x)) <= Cardinality(Where(s, x)) - IF Head(s) = x THEN 1 ELSE 0
<1> DEFINE t == Tail(s)
           A == Where(t, x)
           B == Where(s, x) \ {1}
<1>1. /\ Len(t) = Len(s) - 1 /\ Len(s) \in Nat \ {0} /\ Head(s) = s[1] /\ t \in Seq(S)
      /\ \A k \in 1 .. Len(s) - 1 : t[k] = s[k + 1]
  BY HeadAndTail
<1>2. IsFiniteSet(Where(s, x)) /\ Cardinality(Where(s, x)) \in Nat
  BY WhereFinite
<1> HIDE DEF t
<1>3. \A k \in A : k \in Nat /\ k + 1 \in B
  BY <1>1 DEF Where
<1>4. IsFiniteSet(B)
  BY <1>2, FS_Subset
<1>5. Cardinality(A) <= Cardinality(B)
  <2> DEFINE f == [k \in A |-> k + 1]
  <2>1. f \in Injection(A, B)
    BY <1>3 DEF Injection, IsInjective
  <2> QED
    BY <1>4, <2>1, FS_Injection
<1>6. CASE Head(s) = x
  <2>1. 1 \in Where(s, x)
    BY <1>1, <1>6 DEF Where
  <2>2. Cardinality(Where(s, x) \ {1}) = Cardinality(Where(s, x)) - 1
    BY Zenon, <1>2, <2>1, FS_RemoveElement
  <2> QED
    BY <1>5, <1>6, <2>2 DEF t
<1>7. CASE Head(s) # x
  <2>1. 1 \notin Where(s, x)
    BY <1>1, <1>7 DEF Where
  <2>2. B = Where(s, x)
    BY <2>1
  <2>3. IsFiniteSet(A) /\ Cardinality(A) \in Nat
    BY <1>1, WhereFinite
  <2> HIDE DEF A, B
  <2>4. Cardinality(A) <= Cardinality(Where(s, x)) - 0
    BY <1>2, <1>5, <2>2, <2>3
  <2> QED
    BY <1>7, <2>4 DEF A, t
<1> QED
  BY <1>6, <1>7

\* How many positions a sequence of length n has.
LEMMA Positions ==
    ASSUME NEW n \in Nat
    PROVE  IsFiniteSet(1 .. n) /\ Cardinality(1 .. n) = n
<1>1. IsFiniteSet(1 .. n) /\ Cardinality(1 .. n) = IF 1 > n THEN 0 ELSE n - 1 + 1
  BY FS_Interval
<1> QED
  BY <1>1

\* An event queue is no longer than what its events can be.
LEMMA QueueLength ==
    ASSUME NEW q \in Seq(Events), NoRepeat(q, BufEvent("setup")), Single(q, InputEvents),
           NEW C \in SUBSET Bufs, \A b \in Bufs : <<"setup", b>> \in Range(q) => b \in C
    PROVE  /\ IsFiniteSet(C) /\ Cardinality(C) \in Nat
           /\ Len(q) <= Cardinality(Where(q, <<"available", None>>)) + 1 + Cardinality(C)
<1> DEFINE A == Where(q, <<"available", None>>)
           I == {i \in 1 .. Len(q) : q[i] \in InputEvents}
           P == {i \in 1 .. Len(q) : q[i] \in BufEvent("setup")}
<1>1. Len(q) \in Nat /\ DOMAIN q = 1 .. Len(q) /\ \A i \in 1 .. Len(q) : q[i] \in Events
  BY LenProperties, ElementOfSeq
<1>2. IsFiniteSet(1 .. Len(q)) /\ Cardinality(1 .. Len(q)) = Len(q)
  BY <1>1, Positions
<1>3. 1 .. Len(q) = (A \cup I) \cup P
  BY <1>1 DEF Where, InputEvents, Events
<1>4. IsFiniteSet(A) /\ IsFiniteSet(I) /\ IsFiniteSet(P) /\ IsFiniteSet(A \cup I)
  <2>1. A \subseteq 1 .. Len(q) /\ I \subseteq 1 .. Len(q) /\ P \subseteq 1 .. Len(q)
        /\ A \cup I \subseteq 1 .. Len(q)
    BY DEF Where
  <2> QED
    BY <1>2, <2>1, FS_Subset
<1>5. Cardinality(I) <= 1
  <2>1. CASE I = {}
    BY <2>1, FS_EmptySet
  <2>2. CASE I # {}
    <3>1. PICK i \in I : TRUE
      BY <2>2
    <3>2. \A j \in I : j = i
      BY <3>1 DEF Single
    <3>3. I = {i}
      BY <3>1, <3>2
    <3>4. Cardinality({i}) = 1
      BY Zenon, FS_Singleton
    <3> HIDE DEF I
    <3> QED
      BY <3>3, <3>4
  <2> QED
    BY <2>1, <2>2
<1>6. IsFiniteSet(C) /\ Cardinality(C) \in Nat
  <2>1. IsFiniteSet(Bufs)
    BY BufferQueueAssumption, FS_Interval DEF Bufs
  <2> QED
    BY <2>1, FS_Subset, FS_CardinalityType
<1>7. Cardinality(P) <= Cardinality(C)
  <2> DEFINE f == [i \in P |-> q[i][2]]
  <2>1. \A i \in P : q[i][2] \in C /\ q[i] = <<"setup", q[i][2]>>
    BY <1>1 DEF BufEvent, Range
  <2>2. f \in [P -> C]
    BY <2>1
  <2>3. ASSUME NEW i \in P, NEW j \in P, f[i] = f[j] PROVE i = j
    <3>1. q[i][2] = q[j][2]
      BY <2>3
    <3>2. q[i] = q[j]
      BY Zenon, <2>1, <3>1
    <3> QED
      BY <3>2 DEF NoRepeat
  <2>4. f \in Injection(P, C)
    BY Zenon, <2>2, <2>3 DEF Injection, IsInjective
  <2> QED
    BY <1>6, <2>4, FS_Injection
<1>8. /\ Cardinality(A \cup I) = Cardinality(A) + Cardinality(I) - Cardinality(A \cap I)
      /\ Cardinality((A \cup I) \cup P)
           = Cardinality(A \cup I) + Cardinality(P) - Cardinality((A \cup I) \cap P)
  BY Zenon, <1>4, FS_Union
<1>9. /\ Cardinality(A) \in Nat /\ Cardinality(I) \in Nat /\ Cardinality(P) \in Nat
      /\ Cardinality(A \cap I) \in Nat /\ Cardinality((A \cup I) \cap P) \in Nat
  <2>1. IsFiniteSet(A \cap I) /\ IsFiniteSet((A \cup I) \cap P)
    BY <1>4, FS_Subset
  <2> QED
    BY <1>4, <2>1, FS_CardinalityType
<1>10. Cardinality((A \cup I) \cup P) = Len(q)
  BY Zenon, <1>2, <1>3
<1> HIDE DEF A, I, P
<1>11. Len(q) <= Cardinality(A) + 1 + Cardinality(C)
  BY <1>1, <1>5, <1>6, <1>7, <1>8, <1>9, <1>10
<1> QED
  BY <1>6, <1>11 DEF A

-----------------------------------------------------------------------------
(* No packet is overwritten and no free buffer forgotten.                  *)

\* The number of available events.
LEMMA CountNat ==
    ASSUME BufInv, BufInv'
    PROVE  AvailableCount \in Nat /\ AvailableCount' \in Nat
<1>1. bq.q \in Seq(Events) /\ bq'.q \in Seq(Events)
  BY DEF BufInv, Places, BQ
<1> QED
  BY <1>1, WhereFinite DEF AvailableCount

\* The bound's arithmetic.
LEMMA SumsBounded ==
    ASSUME NEW a \in Nat, NEW b \in Nat, NEW i \in Nat, NEW j \in Nat, NEW k \in Nat,
           a + i + j <= 3, b <= a, k <= j
    PROVE  b + i + k <= 3
OBVIOUS

\* A step that causes no available event and sends nothing new.
LEMMA RoomKept ==
    ASSUME RoomInv, BufInv', started' = started, state' = state, overwritten' = overwritten,
           Single(bq.q, InputEvents)',
           unread' \subseteq Bufs, \A b \in unread' : Pending("processed", b)',
           \A b \in Bufs : Sending(b)' => Sending(b),
           AvailableCount' <= AvailableCount,
           AvailableNotForgotten'
    PROVE  RoomInv'
<1>1. AvailableCount \in Nat /\ AvailableCount' \in Nat
  BY CountNat DEF RoomInv
<1>2. SendLeft' => SendLeft
  BY DEF SendLeft
<1>3. (AvailableCount + (IF started THEN 0 ELSE 1) + (IF SendLeft THEN 1 ELSE 0) <= 3)'
  <2> DEFINE i == IF started THEN 0 ELSE 1
             j == IF SendLeft THEN 1 ELSE 0
             k == IF SendLeft' THEN 1 ELSE 0
  <2>1. i \in Nat /\ j \in Nat /\ k \in Nat /\ k <= j
    BY <1>2
  <2>2. AvailableCount + i + j <= 3
    BY DEF RoomInv
  <2> HIDE DEF i, j, k
  <2>3. AvailableCount' + i + k <= 3
    BY Zenon, <1>1, <2>1, <2>2, SumsBounded
  <2> QED
    BY <2>3 DEF i, k
<1>4. /\ state' \in {"UNASSOCIATED", "ASSOCIATING"}
      /\ state' = "UNASSOCIATED" => \A b \in Bufs : ~(Sending(b)')
      /\ \A b, c \in Bufs : Sending(b)' /\ Sending(c)' => b = c
  BY DEF RoomInv
<1>5. overwritten' = FALSE
  BY DEF RoomInv
<1> QED
  BY <1>3, <1>4, <1>5 DEF RoomInv

\* What a trigger does to the count and to the events of packets ...
LEMMA TriggerRoom ==
    ASSUME NEW s \in BQ, NEW e, NEW x, <<e, x>> \in Events
    PROVE  LET t == Trigger(s, e, x) IN
           /\ Cardinality(Where(t.q, <<"available", None>>))
                <= Cardinality(Where(s.q, <<"available", None>>)) + IF e = "available" THEN 1 ELSE 0
           /\ e \in {"available", "setup"} /\ Single(s.q, InputEvents) => Single(t.q, InputEvents)
<1> DEFINE a == <<"available", None>>
<1>1. s.q \in Seq(Events)
  BY DEF BQ
<1>2. Trigger(s, e, x).q = (IF Len(s.q) < QueueSize THEN Append(s.q, <<e, x>>) ELSE s.q)
  BY Triggered
<1>3. Cardinality(Where(s.q, a)) \in Nat
  BY <1>1, WhereFinite
<1>4. Cardinality(Where(Append(s.q, <<e, x>>), a))
        = Cardinality(Where(s.q, a)) + IF <<e, x>> = a THEN 1 ELSE 0
  BY <1>1, WhereAppend
<1>5. Cardinality(Where(Trigger(s, e, x).q, a))
        <= Cardinality(Where(s.q, a)) + IF e = "available" THEN 1 ELSE 0
  <2>1. CASE e = "available"
    BY <1>2, <1>3, <1>4, <2>1
  <2>2. CASE e # "available"
    <3>1. <<e, x>> # a
      BY <2>2
    <3> HIDE DEF a
    <3> QED
      BY <1>2, <1>3, <1>4, <2>2, <3>1
  <2> QED
    BY <2>1, <2>2
<1>6. e \in {"available", "setup"} => <<e, x>> \notin InputEvents
  BY DEF InputEvents, BufEvent
<1>7. e \in {"available", "setup"} /\ Single(s.q, InputEvents) => Single(Trigger(s, e, x).q, InputEvents)
  BY <1>6, TriggeredOnce
<1> QED
  BY <1>5, <1>7

\* ... and what a handler's end does.
LEMMA RetireRoom ==
    ASSUME NEW q \in Seq(Events), q # <<>>
    PROVE  /\ Cardinality(Where(Tail(q), <<"available", None>>))
                <= Cardinality(Where(q, <<"available", None>>))
           /\ Single(q, InputEvents) => Single(Tail(q), InputEvents)
           /\ \A x \in Range(q) : x # Head(q) => x \in Range(Tail(q))
           /\ Range(Tail(q)) \subseteq Range(q)
<1> DEFINE a == <<"available", None>>
<1>1. /\ Cardinality(Where(q, a)) \in Nat
      /\ Cardinality(Where(Tail(q), a)) <= Cardinality(Where(q, a)) - IF Head(q) = a THEN 1 ELSE 0
      /\ Tail(q) \in Seq(Events)
  BY WhereFinite, WhereTail, HeadAndTail
<1>1a. Cardinality(Where(Tail(q), a)) \in Nat
  BY Zenon, <1>1, WhereFinite
<1> HIDE DEF a
<1>2. Cardinality(Where(Tail(q), a)) <= Cardinality(Where(q, a))
  BY <1>1, <1>1a
<1>3. Single(q, InputEvents) => Single(Tail(q), InputEvents)
  BY TailOnce
<1>4. Range(q) = {Head(q)} \cup Range(Tail(q))
  BY HeadAndTail
<1> QED
  BY <1>2, <1>3, <1>4 DEF a

\* What is pending after a step with the same operations of the buffers.
LEMMA SendingKept ==
    ASSUME op' = op, \A b \in Bufs : Pending("setup", b)' => Pending("setup", b)
    PROVE  \A b \in Bufs : Sending(b)' => Sending(b)
BY DEF Sending

\* There is room for the events that count.
LEMMA RoomForEvents ==
    ASSUME RoomInv, QueueSize >= NBufs + 4
    PROVE  /\ (\E b \in Bufs : Sending(b)) => Len(bq.q) < QueueSize
           /\ rx_queue # <<>> => Len(bq.q) < QueueSize
<1> DEFINE n == AvailableCount
           C == Bufs \ {Head(rx_queue)}
<1>1. /\ bq.q \in Seq(Events) /\ Len(bq.q) \in Nat /\ rx_queue \in Seq(Bufs)
      /\ NoRepeat(bq.q, BufEvent("setup")) /\ Single(bq.q, InputEvents)
  BY LenProperties DEF RoomInv, BufInv, Places, BQ
<1>2. n \in Nat
  BY <1>1, WhereFinite DEF AvailableCount
<1>3. IsFiniteSet(Bufs) /\ Cardinality(Bufs) = NBufs /\ NBufs \in Nat /\ QueueSize \in Nat
  BY BufferQueueAssumption, FS_Interval DEF Bufs
<1>4. ASSUME NEW b \in Bufs, Sending(b) PROVE Len(bq.q) < QueueSize
  <2>1. SendLeft
    BY <1>4 DEF SendLeft
  <2>2. n + (IF started THEN 0 ELSE 1) + 1 <= 3
    BY <2>1 DEF RoomInv
  <2>3. n <= 2
    BY <1>2, <2>2
  <2>4. Len(bq.q) <= n + 1 + Cardinality(Bufs)
    BY <1>1, QueueLength DEF AvailableCount
  <2> HIDE DEF n
  <2> QED
    BY <1>1, <1>2, <1>3, <2>3, <2>4
<1>5. ASSUME rx_queue # <<>> PROVE Len(bq.q) < QueueSize
  <2>1. Head(rx_queue) \in Range(rx_queue) /\ Head(rx_queue) \in Bufs
    BY <1>1, <1>5, HeadAndTail
  <2>2. n + (IF started THEN 0 ELSE 1) + (IF SendLeft THEN 1 ELSE 0) <= 3
    BY DEF RoomInv
  <2>3. n <= 3
    BY <1>2, <2>2
  <2>4. \A b \in Bufs : <<"setup", b>> \in Range(bq.q) => b \in C
    BY <2>1 DEF RoomInv, BufInv, Places
  <2>5. Cardinality(C) = NBufs - 1
    BY Zenon, <1>3, <2>1, FS_RemoveElement
  <2>6. C \in SUBSET Bufs
    OBVIOUS
  <2> HIDE DEF C
  <2>7. Len(bq.q) <= n + 1 + Cardinality(C)
    BY Zenon, <1>1, <2>4, <2>6, QueueLength DEF AvailableCount
  <2> HIDE DEF n
  <2> QED
    BY <1>1, <1>2, <1>3, <2>3, <2>5, <2>7
<1> QED
  BY <1>4, <1>5

\* A handler's end that changes nothing else about the events.
LEMMA RetireKeepsRoom ==
    ASSUME RoomInv, BufInv', bq.q # <<>>, bq'.q = Tail(bq.q),
           op' = op, started' = started, state' = state, overwritten' = overwritten,
           unread' \subseteq unread, \A b \in unread' : Head(bq.q) # <<"processed", b>>,
           AvailableNotForgotten'
    PROVE  RoomInv'
<1>1. bq.q \in Seq(Events)
  BY DEF RoomInv, BufInv, Places, BQ
<1>2. /\ AvailableCount' <= AvailableCount
      /\ Single(bq.q, InputEvents)'
      /\ \A x \in Range(bq.q) : x # Head(bq.q) => x \in Range(bq'.q)
      /\ Range(bq'.q) \subseteq Range(bq.q)
  BY <1>1, RetireRoom DEF RoomInv, AvailableCount
<1>3. unread' \subseteq Bufs /\ \A b \in unread' : Pending("processed", b)'
  BY <1>2 DEF RoomInv, Pending
<1>4. \A b \in Bufs : Sending(b)' => Sending(b)
  BY <1>2, SendingKept DEF Pending
<1> QED
  BY <1>2, <1>3, <1>4, RoomKept

\* At the start one available event is in the queue.
LEMMA RoomInit == Init => RoomInv
<1> SUFFICES ASSUME Init PROVE RoomInv
  OBVIOUS
<1> DEFINE s == server_init
           a == <<"available", None>>
           e == <<>>
<1>1. BufInv
  BY BufInit DEF Init, BufInv
<1>2. s \in BQ /\ s.q = e /\ e \in Seq(Events) /\ Len(e) = 0 /\ a \in Events
  BY InitPlaces, EmptySeq, EventKinds DEF Places, server_init
<1>2a. bq.q = Trigger(s, "available", None).q
  BY <1>2, Started DEF Init
<1>2b. Range(e) = {} /\ Single(e, InputEvents) /\ a \notin InputEvents
  BY <1>2 DEF Range, Single, InputEvents, BufEvent
<1>2c. s \in BQ /\ a \in Events
  BY <1>2
<1>2d. e \in Seq(Events) /\ a \in Events
  BY <1>2
<1> HIDE DEF s, e
<1>3. bq.q = Append(e, a)
  <2>1. Trigger(s, "available", None).q = IF Len(s.q) < QueueSize THEN Append(s.q, a) ELSE s.q
    BY <1>2c, Triggered
  <2> QED
    BY <1>2, <1>2a, <2>1, BufferQueueAssumption
<1> HIDE DEF a
<1>4. Range(bq.q) = {a} /\ Single(bq.q, InputEvents)
  <2>2. Range(Append(e, a)) = Range(e) \cup {a}
    BY <1>2d, Appended
  <2>3. Single(Append(e, a), InputEvents)
    BY Zenon, <1>2, <1>2b, AppendedOnce
  <2> QED
    BY <1>2b, <1>3, <2>2, <2>3
<1>5. AvailableCount = 1
  <2>1. Where(e, a) = {}
    BY <1>2 DEF Where
  <2>2. Cardinality(Where(e, a)) = 0
    BY <2>1, FS_EmptySet
  <2>3. Cardinality(Where(Append(e, a), a)) = Cardinality(Where(e, a)) + 1
    BY <1>2d, WhereAppend
  <2> QED
    BY <1>3, <2>2, <2>3 DEF AvailableCount, a
<1>6. /\ \A b \in Bufs : ~Sending(b)
      /\ unread = {} /\ state = "UNASSOCIATED" /\ ~started /\ overwritten = FALSE
  BY DEF Init, Sending
<1>7. Pending("available", None)
  BY <1>4 DEF Pending, a
<1>8. AvailableCount + (IF started THEN 0 ELSE 1) + (IF SendLeft THEN 1 ELSE 0) <= 3
  <2>1. (IF started THEN 0 ELSE 1) = 1 /\ (IF SendLeft THEN 1 ELSE 0) = 1
    BY <1>6 DEF SendLeft
  <2> QED
    BY <1>5, <2>1
<1> QED
  BY <1>1, <1>4, <1>6, <1>7, <1>8 DEF RoomInv, AvailableNotForgotten

\* lininoio_periodic adds an available event in its first run only, and sends
\* the request once.
LEMMA RoomPeriodic ==
    ASSUME RoomInv, BufInv', lininoio_periodic
    PROVE  RoomInv'
<1> DEFINE s == IF started THEN bq ELSE async_start(bq)
           b == GotBuf(s)
           a == <<"available", None>>
           n == Cardinality(Where(s.q, a))
           i == IF started THEN 0 ELSE 1
<1>1. /\ Places(s, rx_queue, op) /\ Places(bq, rx_queue, op)
      /\ \/ bq' = s /\ op' = op /\ state' = state
         \/ /\ s.free # <<>> /\ bq' = get_buf(s) /\ op' = op /\ state' = state
         \/ /\ s.free # <<>> /\ bq' = bdescr_put(get_buf(s), b)
            /\ op' = [op EXCEPT ![b] = "SEND"]
            /\ state = "UNASSOCIATED" /\ state' = "ASSOCIATING"
  BY PeriodicCases DEF RoomInv, BufInv
<1>2. /\ unread' = unread /\ overwritten' = overwritten /\ started'
      /\ outstanding_rx_buffers' = outstanding_rx_buffers
  BY DEF lininoio_periodic, hist
<1>3. bq \in BQ /\ bq.q \in Seq(Events) /\ s \in BQ /\ s.q \in Seq(Events) /\ a \in Events
  BY <1>1, EventKinds DEF Places, BQ
<1>4. AvailableCount \in Nat /\ n \in Nat /\ AvailableCount' \in Nat /\ i \in Nat
  BY <1>3, WhereFinite, CountNat DEF AvailableCount, RoomInv
<1>5. /\ s.free = bq.free /\ Range(bq.q) \subseteq Range(s.q) /\ Range(s.q) \subseteq Range(bq.q) \cup {a}
      /\ n <= AvailableCount + i /\ Single(s.q, InputEvents)
  <2>1. CASE started
    BY <1>4, <2>1 DEF AvailableCount, RoomInv
  <2>2. CASE ~started
    <3> DEFINE t == Trigger(bq, "available", None)
    <3>1. s.free = bq.free /\ s.q = t.q
      BY <1>3, <2>2, Started
    <3>2. /\ Range(bq.q) \subseteq Range(t.q) /\ Range(t.q) \subseteq Range(bq.q) \cup {a}
          /\ Single(t.q, InputEvents)
      BY ZenonT(40), <1>3, Triggered, TriggerRoom DEF RoomInv
    <3>3. Cardinality(Where(t.q, a)) <= AvailableCount + 1
      BY <1>3, TriggerRoom DEF AvailableCount
    <3> QED
      BY <2>2, <3>1, <3>2, <3>3
  <2> QED
    BY <2>1, <2>2
<1>6. AvailableCount + i + (IF SendLeft THEN 1 ELSE 0) <= 3
  BY DEF RoomInv
<1>7. AvailableNotForgotten
  BY DEF RoomInv
<1>8. \A c \in Bufs : <<"setup", c>> # a /\ <<"processed", c>> # a
  OBVIOUS
<1> HIDE DEF s, n, i, a
<1>9. CASE op' = op /\ state' = state /\ bq'.q = s.q /\ (bq'.free # <<>> => bq.free # <<>>)
  <2>1. /\ Single(bq.q, InputEvents)'
        /\ \A c \in unread' : Pending("processed", c)'
        /\ \A c \in Bufs : Sending(c)' <=> Sending(c)
        /\ AvailableCount' = n
    <3>1. Single(bq.q, InputEvents)' /\ AvailableCount' = n
      BY <1>5, <1>9 DEF AvailableCount, n, a
    <3>2. \A c \in unread' : Pending("processed", c)'
      BY Zenon, <1>2, <1>5, <1>9 DEF RoomInv, Pending
    <3>3. \A c \in Bufs : Pending("setup", c)' <=> Pending("setup", c)
      BY <1>5, <1>8, <1>9 DEF Pending
    <3> QED
      BY <1>9, <3>1, <3>2, <3>3 DEF Sending
  <2>2. AvailableNotForgotten'
    BY <1>2, <1>5, <1>7, <1>9 DEF AvailableNotForgotten, Pending
  <2>3. SendLeft' <=> SendLeft
    BY <1>9, <2>1 DEF SendLeft
  <2>4. (AvailableCount + (IF started THEN 0 ELSE 1) + (IF SendLeft THEN 1 ELSE 0) <= 3)'
    <3> DEFINE j == IF SendLeft THEN 1 ELSE 0
    <3>1. j \in Nat /\ (IF SendLeft' THEN 1 ELSE 0) = j /\ (IF started' THEN 0 ELSE 1) = 0
      BY <1>2, <2>3
    <3>2. AvailableCount + i + j <= 3
      BY <1>6
    <3> HIDE DEF j
    <3>3. n + 0 + j <= 3
      BY <1>4, <1>5, <3>1, <3>2
    <3> QED
      BY <2>1, <3>1, <3>3
  <2> QED
    BY <1>2, <1>9, <2>1, <2>2, <2>4 DEF RoomInv
<1>10. CASE bq' = s /\ op' = op /\ state' = state
  BY <1>5, <1>9, <1>10
<1>11. CASE s.free # <<>> /\ bq' = get_buf(s) /\ op' = op /\ state' = state
  <2>1. bq'.q = s.q
    BY <1>1, <1>11, PlacesGet
  <2> QED
    BY <1>5, <1>9, <1>11, <2>1
<1>12. CASE /\ s.free # <<>> /\ bq' = bdescr_put(get_buf(s), b)
            /\ op' = [op EXCEPT ![b] = "SEND"]
            /\ state = "UNASSOCIATED" /\ state' = "ASSOCIATING"
  <2> DEFINE g == get_buf(s)
             t == Trigger(g, "setup", b)
  <2>1. b \in Bufs /\ Places(g, rx_queue, op) /\ Held(g, rx_queue, b) /\ g.q = s.q
    BY <1>1, <1>12, PlacesGet
  <2>2. bq'.q = t.q /\ bq'.free = g.free
    BY Zenon, <1>12, <2>1, PlacesPut
  <2>3. g \in BQ /\ <<"setup", b>> \in Events /\ op \in [Bufs -> {"NONE", "SEND", "RECV"}]
    BY Zenon, <2>1, EventKinds DEF Places
  <2>4. /\ Range(g.q) \subseteq Range(t.q) /\ Range(t.q) \subseteq Range(g.q) \cup {<<"setup", b>>}
        /\ Single(g.q, InputEvents) => Single(t.q, InputEvents)
    BY Zenon, <2>3, Triggered, TriggerRoom
  <2>5. AvailableCount' <= n + 0
    BY <2>1, <2>2, <2>3, TriggerRoom DEF AvailableCount, n, a
  <2>6. \A c \in Bufs : Sending(c)' => c = b
    <3>1. \A c \in Bufs : c # b => op'[c] = op[c]
      BY <1>12, <2>3
    <3>2. \A c \in Bufs : c # b /\ Pending("setup", c)' => Pending("setup", c)
      <4>1. Range(bq'.q) \subseteq Range(bq.q) \cup {a, <<"setup", b>>}
        <5> HIDE DEF g, t
        <5> QED
          BY <1>5, <2>1, <2>2, <2>4
      <4>2. \A c \in Bufs : c # b => <<"setup", c>> # <<"setup", b>>
        OBVIOUS
      <4> QED
        BY <1>8, <4>1, <4>2 DEF Pending
    <3>3. \A c \in Bufs : ~Sending(c)
      BY <1>12 DEF RoomInv
    <3> QED
      BY <3>1, <3>2, <3>3 DEF Sending
  <2>7. \A c \in unread' : Pending("processed", c)'
    BY Zenon, <1>2, <1>5, <2>1, <2>2, <2>4 DEF Pending, RoomInv
  <2>8. AvailableNotForgotten'
    BY <1>2, <1>5, <1>7, <1>12, <2>1, <2>2, <2>4 DEF AvailableNotForgotten, Pending
  <2>9. SendLeft
    BY <1>12 DEF SendLeft
  <2>10. (AvailableCount + (IF started THEN 0 ELSE 1) + (IF SendLeft THEN 1 ELSE 0) <= 3)'
    <3> DEFINE k == IF SendLeft' THEN 1 ELSE 0
    <3>1. k \in Nat /\ k <= 1 /\ (IF started' THEN 0 ELSE 1) = 0 /\ (IF SendLeft THEN 1 ELSE 0) = 1
      BY <1>2, <2>9
    <3>2. AvailableCount + i + 1 <= 3
      BY <1>6, <3>1
    <3> HIDE DEF k
    <3>3. AvailableCount' + 0 + k <= 3
      <4>1. n + 0 + 1 <= 3
        BY <1>4, <1>5, <3>2
      <4>2. AvailableCount' <= n
        BY <1>4, <2>5
      <4> QED
        BY Zenon, <1>4, <3>1, <4>1, <4>2, SumsBounded
    <3> QED
      BY <3>1, <3>3 DEF k
  <2>11. Single(bq.q, InputEvents)'
    BY <1>5, <2>1, <2>2, <2>4
  <2> QED
    BY <1>2, <1>12, <2>6, <2>7, <2>8, <2>10, <2>11 DEF RoomInv
<1> QED
  BY <1>1, <1>10, <1>11, <1>12

\* A turn of lininoio_buf_available_handle.
LEMMA RoomTurn ==
    ASSUME RoomInv, BufInv', AvailableTurn
    PROVE  RoomInv'
<1> DEFINE b == GotBuf(bq)
           g == get_buf(bq)
           t == Trigger(g, "setup", b)
<1>1. /\ bq.free # <<>> /\ bq' = bdescr_put(g, b) /\ op' = [op EXCEPT ![b] = "RECV"]
      /\ state' = state /\ started' = started /\ unread' = unread /\ overwritten' = overwritten
      /\ At("available")
  BY DEF AvailableTurn, Wanted, CanGet, hist
<1>2. Places(bq, rx_queue, op) /\ op \in [Bufs -> {"NONE", "SEND", "RECV"}]
  BY DEF RoomInv, BufInv, Places
<1>3. b \in Bufs /\ Places(g, rx_queue, op) /\ Held(g, rx_queue, b) /\ g.q = bq.q
  BY <1>1, <1>2, PlacesGet
<1>4. bq'.q = t.q
  BY Zenon, <1>3, <1>1, PlacesPut
<1>5. g \in BQ /\ <<"setup", b>> \in Events
  BY Zenon, <1>3, EventKinds DEF Places
<1>6. /\ Range(g.q) \subseteq Range(t.q) /\ Range(t.q) \subseteq Range(g.q) \cup {<<"setup", b>>}
      /\ Single(g.q, InputEvents) => Single(t.q, InputEvents)
  BY <1>5, Triggered, TriggerRoom
<1>7. AvailableCount' <= AvailableCount
  <2>1. AvailableCount' <= AvailableCount + 0
    BY <1>3, <1>4, <1>5, TriggerRoom DEF AvailableCount
  <2>2. AvailableCount \in Nat /\ AvailableCount' \in Nat
    BY CountNat DEF RoomInv
  <2> QED
    BY <2>1, <2>2
<1>8. \A c \in Bufs : Sending(c)' => Sending(c)
  <2>1. op'[b] = "RECV" /\ \A c \in Bufs : c # b => op'[c] = op[c]
    BY <1>1, <1>2, <1>3
  <2>2. ASSUME NEW c \in Bufs, c # b, Pending("setup", c)' PROVE Pending("setup", c)
    <3>1. <<"setup", c>> \in Range(t.q)
      BY Zenon, <1>4, <2>2 DEF Pending
    <3>2. <<"setup", c>> # <<"setup", b>>
      BY <2>2
    <3>3. <<"setup", c>> \in Range(g.q)
      BY Zenon, <1>6, <3>1, <3>2
    <3> QED
      BY Zenon, <1>3, <3>3 DEF Pending
  <2> QED
    BY <2>1, <2>2 DEF Sending
<1>9. \A c \in unread' : Pending("processed", c)'
  BY Zenon, <1>1, <1>3, <1>4, <1>6 DEF Pending, RoomInv
<1>10. AvailableNotForgotten'
  <2>1. <<"available", None>> \in Range(bq.q)
    BY <1>1, AtHead DEF RoomInv
  <2> QED
    BY <1>3, <1>4, <1>6, <2>1 DEF AvailableNotForgotten, Pending
<1>11. Single(bq.q, InputEvents)' /\ unread' \subseteq Bufs
  BY <1>1, <1>3, <1>4, <1>6 DEF RoomInv
<1> QED
  BY <1>1, <1>7, <1>8, <1>9, <1>10, <1>11, RoomKept

\* unix_eth_setup_handler for the request that is sent.
LEMMA RoomSend ==
    ASSUME RoomInv, BufInv', Setup, op[Buf] = "SEND", QueueSize >= NBufs + 4
    PROVE  RoomInv'
<1> DEFINE a == <<"available", None>>
           v == Trigger(bq, "available", None)
           q == IF bq.free = <<>> THEN v.q ELSE bq.q
<1>1. /\ bq' = Retire(buf_done(bq, Buf)) /\ op' = op /\ state' = state /\ started' = started
      /\ unread' = unread /\ overwritten' = overwritten /\ At("setup")
      /\ outstanding_rx_buffers' = outstanding_rx_buffers
  BY DEF Setup, start_tx, core
<1>2. /\ bq.q # <<>> /\ bq.q \in Seq(Events) /\ Buf \in Bufs /\ Head(bq.q) = <<"setup", Buf>>
      /\ <<"setup", Buf>> \in Range(bq.q)
  BY <1>1, AtHead DEF RoomInv
<1>3. Places(bq, rx_queue, op) /\ bq \in BQ /\ a \in Events
  BY EventKinds DEF RoomInv, BufInv, Places
<1>4. Sending(Buf) /\ SendLeft /\ state = "ASSOCIATING"
  <2>1. Sending(Buf)
    BY <1>2 DEF Sending, Pending
  <2> QED
    BY <1>2, <2>1 DEF SendLeft, RoomInv
<1>5. Len(bq.q) < QueueSize
  BY <1>2, <1>4, RoomForEvents
<1>6. bq'.q = Tail(q) /\ (bq.free = <<>> => a \in Range(bq'.q))
  BY <1>1, <1>2, <1>3, <1>5, PlacesDone
<1>3a. bq \in BQ /\ a \in Events
  BY <1>3
<1>3b. bq.q \in Seq(Events) /\ a \in Events /\ bq.q # <<>>
  BY <1>2, <1>3
<1>7. v.q = Append(bq.q, a)
  <2>1. v.q = IF Len(bq.q) < QueueSize THEN Append(bq.q, a) ELSE bq.q
    BY <1>3a, Triggered
  <2> QED
    BY <1>5, <2>1
<1>8. /\ Head(v.q) = Head(bq.q) /\ v.q # <<>> /\ v.q \in Seq(Events)
      /\ Range(v.q) = Range(bq.q) \cup {a}
  <2>1. /\ Head(Append(bq.q, a)) = Head(bq.q) /\ Append(bq.q, a) # <<>>
        /\ Append(bq.q, a) \in Seq(Events) /\ Range(Append(bq.q, a)) = Range(bq.q) \cup {a}
    <3> HIDE DEF a
    <3> QED
      BY <1>3b, Appended
  <2> QED
    BY Zenon, <1>7, <2>1
<1>9. Cardinality(Where(v.q, a)) <= AvailableCount + 1 /\ Single(v.q, InputEvents)
  BY <1>3, TriggerRoom DEF AvailableCount, RoomInv
<1>10. AvailableCount \in Nat /\ AvailableCount' \in Nat /\ Cardinality(Where(v.q, a)) \in Nat
  BY <1>8, CountNat, WhereFinite DEF RoomInv
<1> HIDE DEF v
<1>11. /\ q # <<>> /\ q \in Seq(Events) /\ Head(q) = <<"setup", Buf>>
       /\ Range(bq.q) \subseteq Range(q) /\ Range(q) \subseteq Range(bq.q) \cup {a}
       /\ Single(q, InputEvents)
  BY <1>2, <1>8, <1>9 DEF RoomInv
<1>12. Cardinality(Where(q, a)) <= AvailableCount + 1
  BY <1>9, <1>10 DEF AvailableCount
<1> HIDE DEF q
<1>13. /\ Cardinality(Where(Tail(q), a)) <= Cardinality(Where(q, a)) /\ Single(Tail(q), InputEvents)
       /\ \A x \in Range(q) : x # Head(q) => x \in Range(Tail(q))
       /\ Range(Tail(q)) \subseteq Range(q)
  BY <1>11, RetireRoom
<1>14. AvailableCount' <= AvailableCount + 1
  <2>1. Cardinality(Where(q, a)) \in Nat
    BY <1>11, WhereFinite
  <2>2. AvailableCount' <= Cardinality(Where(q, a))
    BY <1>6, <1>13 DEF AvailableCount
  <2> QED
    BY <1>10, <1>12, <2>1, <2>2
<1>15. \A c \in Bufs : ~(Sending(c)')
  <2>1. \A c \in Bufs : <<"setup", c>> # a
    OBVIOUS
  <2>2. <<"setup", Buf>> \notin Range(bq'.q)
    <3>1. NoRepeat(q, BufEvent("setup"))
      <4>1. NoRepeat(v.q, BufEvent("setup"))
        <5>1. Places(v, rx_queue, op)
          BY <1>3, PlacesTrigger DEF v
        <5> QED
          BY <5>1 DEF Places
      <4> QED
        BY <1>3, <4>1 DEF q, Places
    <3>2. Head(q) \in BufEvent("setup")
      BY <1>2, <1>11 DEF BufEvent
    <3> QED
      BY <1>6, <1>11, <3>1, <3>2, TailOnce
  <2>3. ASSUME NEW c \in Bufs, Sending(c)' PROVE FALSE
    <3>1. <<"setup", c>> \in Range(bq.q)
      BY <1>6, <1>11, <1>13, <2>1, <2>3 DEF Sending, Pending
    <3>2. Sending(c)
      BY <1>1, <2>3, <3>1 DEF Sending, Pending
    <3>3. c = Buf
      BY <1>2, <1>4, <3>2 DEF RoomInv
    <3> QED
      BY <2>2, <2>3, <3>3 DEF Sending, Pending
  <2> QED
    BY <2>3
<1>16. (AvailableCount + (IF started THEN 0 ELSE 1) + (IF SendLeft THEN 1 ELSE 0) <= 3)'
  <2> DEFINE i == IF started THEN 0 ELSE 1
  <2>1. /\ i \in Nat /\ (IF SendLeft' THEN 1 ELSE 0) = 0 /\ (IF started' THEN 0 ELSE 1) = i
        /\ (IF SendLeft THEN 1 ELSE 0) = 1
    BY <1>1, <1>4, <1>15 DEF SendLeft
  <2>2. AvailableCount + i + 1 <= 3
    BY <2>1 DEF RoomInv
  <2> HIDE DEF i
  <2>3. AvailableCount' + i + 0 <= 3
    <3>1. \A m, n \in Nat : n <= m + 1 /\ m + i + 1 <= 3 => n + i + 0 <= 3
      BY <2>1
    <3> QED
      BY <1>10, <1>14, <2>2, <3>1
  <2> QED
    BY <2>1, <2>3
<1>17. ASSUME NEW c \in unread' PROVE Pending("processed", c)'
  <2>1. <<"processed", c>> \in Range(q)
    BY <1>1, <1>11, <1>17 DEF RoomInv, Pending
  <2>2. <<"processed", c>> # Head(q)
    BY <1>11
  <2> QED
    BY <1>6, <1>13, <2>1, <2>2 DEF Pending
<1>18. AvailableNotForgotten'
  <2>1. CASE bq.free = <<>>
    BY <1>6, <2>1 DEF AvailableNotForgotten, Pending
  <2>2. CASE bq.free # <<>>
    <3>1. AvailableNotForgotten' \/ a \in Range(bq.q)
      BY <1>1, <2>2 DEF RoomInv, AvailableNotForgotten, Pending
    <3>2. a # Head(q)
      BY <1>11
    <3> QED
      BY <1>6, <1>11, <1>13, <3>1, <3>2 DEF AvailableNotForgotten, Pending
  <2> QED
    BY <2>1, <2>2
<1>19. overwritten' = FALSE /\ Single(bq.q, InputEvents)' /\ unread' \subseteq Bufs
       /\ state' \in {"UNASSOCIATED", "ASSOCIATING"}
  BY <1>1, <1>6, <1>13 DEF RoomInv
<1> QED
  BY <1>15, <1>16, <1>17, <1>18, <1>19 DEF RoomInv

\* unix_eth_input_ready_handler: its own event is the only one of a packet, so
\* the first buffer of rx_queue holds no packet that is not processed.
LEMMA RoomReceived ==
    ASSUME RoomInv, BufInv', InputReceived, QueueSize >= NBufs + 4
    PROVE  RoomInv'
<1> DEFINE b == Head(rx_queue)
           p == <<"processed", b>>
           r == Tail(bq.q)
<1>1. /\ bq' = Retire(buf_processed(bq, b)) /\ op' = op /\ state' = state /\ started' = started
      /\ unread' = unread \cup {b} /\ overwritten' = (overwritten \/ b \in unread)
      /\ At("input") /\ rx_queue # <<>>
      /\ outstanding_rx_buffers' = outstanding_rx_buffers
  BY DEF InputReceived, core
<1>2. /\ bq.q # <<>> /\ bq.q \in Seq(Events) /\ Head(bq.q) = <<"input", None>>
      /\ Places(bq, rx_queue, op) /\ bq \in BQ
  BY <1>1, AtHead DEF RoomInv, BufInv, Places
<1>3. b \in Range(rx_queue) /\ b \in Bufs /\ p \in Events
  <2>0. rx_queue \in Seq(Bufs)
    BY Zenon, <1>2 DEF Places
  <2>1. b \in Range(rx_queue) /\ b \in Bufs
    BY <1>1, <2>0, HeadAndTail
  <2> QED
    BY Zenon, <2>1, EventKinds
<1>4. Len(bq.q) < QueueSize
  BY <1>1, RoomForEvents
<1> HIDE DEF b
<1>5. bq'.q = Append(r, p) /\ bq'.free = bq.free
  <2> DEFINE t == buf_processed(bq, b)
  <2>1. t \in BQ /\ t.free = bq.free /\ t.q = IF Len(bq.q) < QueueSize THEN Append(bq.q, p) ELSE bq.q
    BY <1>2, <1>3, Triggered DEF buf_processed
  <2>2. /\ Append(bq.q, p) # <<>> /\ Tail(Append(bq.q, p)) = Append(r, p)
    <3> DEFINE l == bq.q
    <3>1. l \in Seq(Events) /\ l # <<>> /\ p \in Events
      BY <1>2, <1>3
    <3> HIDE DEF l, p
    <3>2. Append(l, p) # <<>> /\ Tail(Append(l, p)) = Append(Tail(l), p)
      BY <3>1, Appended
    <3> QED
      BY <3>2 DEF l
  <2> HIDE DEF t
  <2>3. Retire(t).q = Tail(t.q) /\ Retire(t).free = t.free
    BY Zenon, <1>4, <2>1, <2>2, Retired
  <2> QED
    BY <1>1, <1>4, <2>1, <2>2, <2>3 DEF t
<1>6. /\ r \in Seq(Events) /\ \A x \in Range(r) : x \notin InputEvents
      /\ Single(r, InputEvents)
  <2>1. r \in Seq(Events)
    BY <1>2, HeadAndTail
  <2>2. Head(bq.q) \in InputEvents /\ Single(bq.q, InputEvents)
    BY Zenon, <1>2 DEF InputEvents, RoomInv
  <2> QED
    BY <1>2, <2>1, <2>2, TailOnce
<1>7. /\ Cardinality(Where(r, <<"available", None>>)) <= AvailableCount
      /\ \A x \in Range(bq.q) : x # Head(bq.q) => x \in Range(r)
      /\ Range(r) \subseteq Range(bq.q)
  BY <1>2, RetireRoom DEF AvailableCount
<1> HIDE DEF p, r
<1>8. Range(bq'.q) = Range(r) \cup {p} /\ Single(bq.q, InputEvents)'
  <2>1. Range(Append(r, p)) = Range(r) \cup {p}
    BY <1>3, <1>6, Appended
  <2>2. Single(Append(r, p), InputEvents)
    BY <1>3, <1>6, AppendedOnce
  <2> QED
    BY <1>5, <2>1, <2>2
<1>9. unread = {}
  <2>1. ASSUME NEW c \in unread PROVE FALSE
    <3>1. c \in Bufs /\ <<"processed", c>> \in Range(bq.q)
      BY <2>1 DEF RoomInv, Pending
    <3>2. <<"processed", c>> \in Range(r)
      BY <1>2, <1>7, <3>1
    <3> QED
      BY <1>6, <3>1, <3>2 DEF InputEvents, BufEvent
  <2> QED
    BY <2>1
<1>10. /\ overwritten' = overwritten /\ unread' \subseteq Bufs
       /\ \A c \in unread' : Pending("processed", c)'
  BY Zenon, <1>1, <1>3, <1>8, <1>9 DEF RoomInv, Pending, p
<1>11. \A c \in Bufs : Sending(c)' => Sending(c)
  <2>1. \A c \in Bufs : <<"setup", c>> # p
    BY DEF p
  <2> QED
    BY <1>1, <1>7, <1>8, <2>1 DEF Sending, Pending
<1>12. AvailableCount' <= AvailableCount
  <2> DEFINE a == <<"available", None>>
  <2>1. p # a
    BY DEF p
  <2>2. Cardinality(Where(r, a)) \in Nat
    BY <1>6, WhereFinite
  <2> HIDE DEF a
  <2>3. Cardinality(Where(Append(r, p), a)) = Cardinality(Where(r, a)) + IF p = a THEN 1 ELSE 0
    BY <1>3, <1>6, WhereAppend
  <2>4. Cardinality(Where(Append(r, p), a)) = Cardinality(Where(r, a))
    BY <2>1, <2>2, <2>3
  <2> QED
    BY <1>5, <1>7, <2>4 DEF AvailableCount, a
<1>13. AvailableNotForgotten'
  <2>1. <<"available", None>> \in Range(bq.q) => <<"available", None>> \in Range(bq'.q)
    BY <1>2, <1>7, <1>8
  <2> QED
    BY <1>1, <1>5, <2>1 DEF RoomInv, AvailableNotForgotten, Pending
<1> QED
  BY <1>1, <1>8, <1>10, <1>11, <1>12, <1>13, RoomKept

\* Every step keeps the invariant.
LEMMA RoomStep ==
    ASSUME QueueSize >= NBufs + 4
    PROVE  RoomInv /\ [Next]_vars => RoomInv'
<1> SUFFICES ASSUME RoomInv, [Next]_vars PROVE RoomInv'
  OBVIOUS
<1>1. BufInv /\ BufInv'
  BY BufStep DEF RoomInv
<1>2. Places(bq, rx_queue, op) /\ bq \in BQ /\ bq.q \in Seq(Events) /\ AvailableNotForgotten
  BY <1>1 DEF RoomInv, BufInv, Places, BQ
<1>3. CASE AvailableReturn
  <2>1. /\ At("available") /\ ~Wanted /\ bq' = Retire(bq) /\ op' = op /\ state' = state
        /\ started' = started /\ unread' = unread /\ overwritten' = overwritten
        /\ outstanding_rx_buffers' = outstanding_rx_buffers
    BY <1>3 DEF AvailableReturn, hist
  <2>2. bq.q # <<>> /\ Head(bq.q) = <<"available", None>>
    BY <1>1, <2>1, AtHead
  <2>3. bq'.q = Tail(bq.q) /\ bq'.free = bq.free
    BY <1>2, <2>1, <2>2, Retired
  <2>4. AvailableNotForgotten'
    <3>1. ~bq.stopped
      BY <1>2 DEF Places
    <3> QED
      BY <2>1, <2>3, <3>1 DEF AvailableNotForgotten, Wanted, CanGet
  <2>5. \A b \in unread' : Head(bq.q) # <<"processed", b>>
    BY <2>2
  <2> QED
    BY <1>1, <2>1, <2>2, <2>3, <2>4, <2>5, RetireKeepsRoom
<1>4. CASE Processed
  <2> DEFINE t == bdescr_put(bq, Buf)
  <2>1. /\ At("processed") /\ bq' = Retire(t) /\ op' = op /\ state' = state
        /\ started' = started /\ unread' = unread \ {Buf} /\ overwritten' = overwritten
        /\ outstanding_rx_buffers' = outstanding_rx_buffers
    BY <1>4 DEF Processed, core
  <2>2. /\ bq.q # <<>> /\ Buf \in Bufs /\ Head(bq.q) = <<"processed", Buf>>
        /\ <<"processed", Buf>> \in Range(bq.q)
    BY <1>1, <2>1, AtHead
  <2>3. Buf \in Range(rx_queue)
    BY <1>2, <2>2 DEF Places
  <2>4. Places(t, rx_queue, op) /\ t.q = bq.q /\ t.free = bq.free
    BY <1>2, <2>3, PlacesPutUnused
  <2> HIDE DEF t
  <2>5. bq'.q = Tail(bq.q) /\ bq'.free = bq.free
    BY Zenon, <2>1, <2>2, <2>4, PlacesRetire
  <2>6. AvailableNotForgotten'
    <3>1. <<"available", None>> \in Range(bq.q) => <<"available", None>> \in Range(bq'.q)
      <4>1. \A x \in Range(bq.q) : x # Head(bq.q) => x \in Range(Tail(bq.q))
        BY <1>2, <2>2, RetireRoom
      <4> QED
        BY <2>2, <2>5, <4>1
    <3> QED
      BY <1>2, <2>1, <2>5, <3>1 DEF AvailableNotForgotten, Pending
  <2>7. unread' \subseteq unread /\ \A b \in unread' : Head(bq.q) # <<"processed", b>>
    BY <2>1, <2>2
  <2> QED
    BY <1>1, <2>1, <2>2, <2>5, <2>6, <2>7, RetireKeepsRoom
<1>5. CASE Setup
  <2>1. /\ At("setup") /\ op' = op /\ state' = state /\ started' = started
        /\ unread' = unread /\ overwritten' = overwritten
        /\ outstanding_rx_buffers' = outstanding_rx_buffers
    BY <1>5 DEF Setup, core
  <2>2. /\ bq.q # <<>> /\ Buf \in Bufs /\ Head(bq.q) = <<"setup", Buf>>
        /\ <<"setup", Buf>> \in Range(bq.q)
    BY <1>1, <2>1, AtHead
  <2>3. op[Buf] \in {"SEND", "RECV"}
    BY <1>2, <2>2 DEF Places
  <2>4. CASE op[Buf] = "SEND"
    BY <1>1, <1>5, <2>4, RoomSend
  <2>5. CASE op[Buf] = "RECV"
    <3>1. bq' = Retire(bq)
      BY <1>5, <2>5 DEF Setup
    <3>2. bq'.q = Tail(bq.q) /\ bq'.free = bq.free
      BY <1>2, <2>2, <3>1, Retired
    <3>3. AvailableNotForgotten'
      <4>1. \A x \in Range(bq.q) : x # Head(bq.q) => x \in Range(Tail(bq.q))
        BY <1>2, <2>2, RetireRoom
      <4>2. <<"available", None>> \in Range(bq.q) => <<"available", None>> \in Range(bq'.q)
        BY <2>2, <3>2, <4>1
      <4> QED
        BY <1>2, <2>1, <3>2, <4>2 DEF AvailableNotForgotten, Pending
    <3>4. \A b \in unread' : Head(bq.q) # <<"processed", b>>
      BY <2>2
    <3> QED
      BY <1>1, <2>1, <2>2, <3>2, <3>3, <3>4, RetireKeepsRoom
  <2> QED
    BY <2>3, <2>4, <2>5
<1>6. CASE InputLost
  <2>1. /\ At("input") /\ bq' = Retire(bq) /\ op' = op /\ state' = state
        /\ started' = started /\ unread' = unread /\ overwritten' = overwritten
        /\ outstanding_rx_buffers' = outstanding_rx_buffers
    BY <1>6 DEF InputLost, core, hist
  <2>2. bq.q # <<>> /\ Head(bq.q) = <<"input", None>>
    BY <1>1, <2>1, AtHead
  <2>3. bq'.q = Tail(bq.q) /\ bq'.free = bq.free
    BY <1>2, <2>1, <2>2, Retired
  <2>4. AvailableNotForgotten'
    <3>1. \A x \in Range(bq.q) : x # Head(bq.q) => x \in Range(Tail(bq.q))
      BY <1>2, <2>2, RetireRoom
    <3>2. <<"available", None>> \in Range(bq.q) => <<"available", None>> \in Range(bq'.q)
      BY <2>2, <2>3, <3>1
    <3> QED
      BY <1>2, <2>1, <2>3, <3>2 DEF AvailableNotForgotten, Pending
  <2>5. \A b \in unread' : Head(bq.q) # <<"processed", b>>
    BY <2>2
  <2> QED
    BY <1>1, <2>1, <2>2, <2>3, <2>4, <2>5, RetireKeepsRoom
<1>7. CASE SocketReady
  <2>1. /\ bq.q = <<>> /\ bq' = Trigger(bq, "input", None) /\ op' = op /\ state' = state
        /\ started' = started /\ unread' = unread /\ overwritten' = overwritten
        /\ outstanding_rx_buffers' = outstanding_rx_buffers
    BY <1>7 DEF SocketReady, core, hist
  <2>2. <<"input", None>> \in Events
    BY EventKinds
  <2>3. /\ bq'.free = bq.free /\ Range(bq'.q) \subseteq Range(bq.q) \cup {<<"input", None>>}
        /\ Range(bq.q) \subseteq Range(bq'.q)
    BY <1>2, <2>1, <2>2, Triggered
  <2>4. Single(bq.q, InputEvents)'
    <3>1. Range(bq.q) = {}
      BY <2>1 DEF Range
    <3>2. \A y \in Range(bq.q) : y \notin InputEvents
      BY <3>1
    <3> QED
      BY Zenon, <1>2, <2>1, <2>2, <3>2, TriggeredOnce DEF RoomInv
  <2>5. AvailableCount' <= AvailableCount
    <3>1. AvailableCount' <= AvailableCount + 0
      BY <1>2, <2>1, <2>2, TriggerRoom DEF AvailableCount
    <3>2. AvailableCount \in Nat /\ AvailableCount' \in Nat
      BY <1>1, CountNat
    <3> QED
      BY <3>1, <3>2
  <2>6. AvailableNotForgotten'
    BY <1>2, <2>1, <2>3 DEF AvailableNotForgotten, Pending
  <2>7. unread' \subseteq Bufs /\ \A b \in unread' : Pending("processed", b)'
    BY <2>1, <2>3 DEF RoomInv, Pending
  <2>8. \A b \in Bufs : Sending(b)' => Sending(b)
    BY <2>1, <2>3 DEF Sending, Pending
  <2> QED
    BY <1>1, <2>1, <2>4, <2>5, <2>6, <2>7, <2>8, RoomKept
<1>8. CASE DevWrite
  <2>1. /\ bq.free # <<>> /\ bq' = get_buf(bq) /\ op' = op /\ state' = state
        /\ started' = started /\ unread' = unread /\ overwritten' = overwritten
        /\ outstanding_rx_buffers' = outstanding_rx_buffers
    BY <1>8 DEF DevWrite, CanGet, core, hist
  <2>2. bq'.q = bq.q
    BY <1>2, <2>1, PlacesGet
  <2>3. AvailableNotForgotten'
    BY <1>2, <2>1, <2>2 DEF AvailableNotForgotten, Pending
  <2>4. Single(bq.q, InputEvents)' /\ AvailableCount' <= AvailableCount
    <3>1. AvailableCount \in Nat
      BY <1>1, CountNat
    <3> QED
      BY <2>2, <3>1 DEF RoomInv, AvailableCount
  <2>5. unread' \subseteq Bufs /\ \A b \in unread' : Pending("processed", b)'
    BY <2>1, <2>2 DEF RoomInv, Pending
  <2>6. \A b \in Bufs : Sending(b)' => Sending(b)
    BY <2>1, <2>2 DEF Sending, Pending
  <2> QED
    BY <1>1, <2>1, <2>3, <2>4, <2>5, <2>6, RoomKept
<1>9. CASE UNCHANGED vars
  <2>1. UNCHANGED <<bq, op, state, started, unread, overwritten, outstanding_rx_buffers>>
    BY <1>9 DEF vars, core, hist
  <2>2. Single(bq.q, InputEvents)' /\ AvailableNotForgotten' /\ SendLeft' = SendLeft
        /\ AvailableCount' = AvailableCount /\ \A b \in Bufs : Sending(b)' = Sending(b)
    BY <1>2, <2>1 DEF RoomInv, AvailableNotForgotten, Pending, SendLeft, Sending, AvailableCount
  <2> QED
    BY <1>1, <2>1, <2>2 DEF RoomInv, Pending
<1> QED
  BY ZenonT(40), <1>1, <1>3, <1>4, <1>5, <1>6, <1>7, <1>8, <1>9, RoomPeriodic, RoomTurn, RoomReceived
  DEF Next, Handle

\* RoomInv always holds.
LEMMA RoomAlways ==
    ASSUME QueueSize >= NBufs + 4
    PROVE  Spec => []RoomInv
BY RoomInit, RoomStep, PTL DEF Spec

\* unix_eth_input_ready_handler, which reads every packet into the first
\* buffer of rx_queue and leaves it there, never overwrites a packet that
\* __process_input has not seen: for every number of packets, if the event
\* queue holds at least four events more than there are buffers.
THEOREM NothingOverwritten ==
    ASSUME QueueSize >= NBufs + 4
    PROVE  Spec => []PacketsNotOverwritten
<1>1. RoomInv => PacketsNotOverwritten
  BY DEF RoomInv, PacketsNotOverwritten
<1> QED
  BY <1>1, RoomAlways, PTL

\* Under the same condition, whenever a buffer is free and receptions are
\* missing the event that makes lininoio_buf_available_handle give it to the
\* server is in the queue.
THEOREM AvailablePending ==
    ASSUME QueueSize >= NBufs + 4
    PROVE  Spec => []AvailableNotForgotten
<1>1. RoomInv => AvailableNotForgotten
  BY DEF RoomInv
<1> QED
  BY <1>1, RoomAlways, PTL
=============================================================================
