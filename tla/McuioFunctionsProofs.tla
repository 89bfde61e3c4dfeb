------------------------ MODULE McuioFunctionsProofs ------------------------
(***************************************************************************)
(* Proofs about McuioFunctions, for every number of gpios, of events and   *)
(* of requests under way, and for every request that the host may make:    *)
(*   InterruptNotForgotten  the test function's interrupt reaches the host *)
(*   TimersRun              a pwm output's own timer runs while it is on   *)
(*   EdgesToldOnce          the host is told of every edge once            *)
(*   EveryAnswerMatches     an answer is that of the request               *)
(*                                                                         *)
(* The first one rests on WayInv: where one form of the interrupt is taken *)
(* off (an event, the message in the controller's buffer, the host's       *)
(* read), the next one is there, or lost says so.  The others need what    *)
(* WayInv says of the types: where data_ready is handled there is a        *)
(* request.                                                                *)
(***************************************************************************)
EXTENDS McuioFunctions, TLAPS, SequenceTheorems

\* No function has more ranges than a gpio controller: the least of some of
\* them is one of them.
LEMMA LeastRange ==
    ASSUME NEW T, T \subseteq 1 .. 11, T # {}
    PROVE  Min(T) \in T
<1> DEFINE Least(k) == k \in T /\ \A y \in T : k <= y
<1>1. PICK z \in T : z \in 1 .. 11
  BY Zenon
<1>2. \/ \E k \in 1 .. 4 : Least(k)
      \/ \A k \in 1 .. 4 : k \notin T
  OBVIOUS
<1>3. \/ \E k \in 1 .. 8 : Least(k)
      \/ \A k \in 1 .. 8 : k \notin T
  BY <1>2
<1>4. \E k \in T : Least(k)
  BY <1>1, <1>3
<1> QED
  BY Zenon, <1>4 DEF Min

-----------------------------------------------------------------------------
(* Sequences: what is in a queue.                                          *)

Has(s, e) == \E k \in DOMAIN s : s[k] = e

\* An event or a packet is put at the end.
LEMMA HasAppend ==
    ASSUME NEW S, NEW s \in Seq(S), NEW x \in S, NEW e
    PROVE  /\ Append(s, x) \in Seq(S) /\ Has(Append(s, x), x)
           /\ Has(s, e) => Has(Append(s, x), e)
<1> DEFINE u == Append(s, x)
<1>1. /\ u \in Seq(S) /\ Len(u) = Len(s) + 1 /\ Len(s) \in Nat
      /\ u[Len(s) + 1] = x /\ \A i \in 1 .. Len(s) : u[i] = s[i]
      /\ DOMAIN s = 1 .. Len(s) /\ DOMAIN u = 1 .. Len(s) + 1
  BY AppendProperties, LenProperties
<1> HIDE DEF u
<1> QED
  BY <1>1 DEF Has, u

\* The first one is taken off.
LEMMA HasTail ==
    ASSUME NEW S, NEW s \in Seq(S), s # <<>>, NEW e
    PROVE  /\ Head(s) \in S /\ Tail(s) \in Seq(S)
           /\ Has(s, e) /\ Head(s) # e => Has(Tail(s), e)
<1> DEFINE u == Tail(s)
<1>1. /\ u \in Seq(S) /\ Len(s) \in Nat /\ Len(s) >= 1 /\ Len(u) = Len(s) - 1
      /\ Head(s) = s[1] /\ s[1] \in S
      /\ \A i \in 1 .. Len(u) : u[i] = s[i + 1]
      /\ DOMAIN s = 1 .. Len(s) /\ DOMAIN u = 1 .. Len(u)
  BY HeadTailProperties, ElementOfSeq, LenProperties
<1> HIDE DEF u
<1>2. ASSUME Has(s, e), Head(s) # e PROVE Has(u, e)
  <2>1. PICK k \in 1 .. Len(s) : s[k] = e
    BY <1>1, <1>2 DEF Has
  <2>2. k # 1
    BY <1>1, <1>2, <2>1
  <2>3. k - 1 \in 1 .. Len(u) /\ (k - 1) + 1 = k
    BY <1>1, <2>2
  <2>4. u[k - 1] = e
    BY <1>1, <2>1, <2>3
  <2> QED
    BY <1>1, <2>3, <2>4 DEF Has
<1> QED
  BY <1>1, <1>2 DEF u

\* Where the requests are announced in a queue, and that they are at most n:
\* each one has a number of its own.
Where(s) == {i \in 1 .. Len(s) : s[i] = <<"data_ready">>}
AtMost(s, n) == \E f \in [Where(s) -> 1 .. n] : \A i, j \in Where(s) : f[i] = f[j] => i = j

\* They are one more if one is appended ...
LEMMA AtMostAppend ==
    ASSUME NEW S, NEW s \in Seq(S), NEW y \in S, NEW n \in Nat, AtMost(s, n)
    PROVE  /\ y # <<"data_ready">> => AtMost(Append(s, y), n)
           /\ AtMost(Append(s, y), n + 1)
<1> DEFINE t == Append(s, y)
           x == <<"data_ready">>
<1>1. /\ Len(t) = Len(s) + 1 /\ Len(s) \in Nat
      /\ \A k \in 1 .. Len(s) : t[k] = s[k]
      /\ t[Len(s) + 1] = y
  BY AppendProperties, LenProperties
<1>2. PICK f \in [Where(s) -> 1 .. n] : \A i, j \in Where(s) : f[i] = f[j] => i = j
  BY DEF AtMost
<1>a. Where(t) = {i \in 1 .. Len(t) : t[i] = x} /\ Where(s) = {i \in 1 .. Len(s) : s[i] = x}
  BY Zenon DEF Where
<1> HIDE DEF t, x
<1>3. Where(t) \subseteq Where(s) \cup {Len(s) + 1} /\ (y # x => Where(t) = Where(s)) /\ Len(s) + 1 \notin Where(s)
  BY <1>1, <1>a
<1>4. y # x => AtMost(t, n)
  BY <1>2, <1>3 DEF AtMost
<1>5. AtMost(t, n + 1)
  <2> DEFINE W == Where(t)
             h == [i \in W |-> IF i = Len(s) + 1 THEN n + 1 ELSE f[i]]
  <2>1. \A i \in W : i = Len(s) + 1 \/ (i \in Where(s) /\ f[i] \in 1 .. n)
    BY <1>2, <1>3
  <2>2. h \in [W -> 1 .. n + 1]
    BY <2>1
  <2>3. \A i, j \in W : h[i] = h[j] => i = j
    BY <1>2, <2>1
  <2> QED
    BY Zenon, <2>2, <2>3 DEF AtMost
<1> QED
  BY <1>4, <1>5 DEF t, x

\* ... and one less if one is taken.
LEMMA AtMostTail ==
    ASSUME NEW S, NEW s \in Seq(S), s # <<>>, NEW n \in Nat, AtMost(s, n)
    PROVE  /\ AtMost(Tail(s), n)
           /\ Head(s) = <<"data_ready">> => n >= 1 /\ AtMost(Tail(s), n - 1)
<1> DEFINE t == Tail(s)
           x == <<"data_ready">>
<1>1. /\ Len(t) = Len(s) - 1 /\ Len(s) \in Nat /\ Len(s) >= 1 /\ Head(s) = s[1] /\ t \in Seq(S)
      /\ \A k \in 1 .. Len(t) : t[k] = s[k + 1]
  BY HeadTailProperties, LenProperties
<1>2. PICK f \in [Where(s) -> 1 .. n] : \A i, j \in Where(s) : f[i] = f[j] => i = j
  BY DEF AtMost
<1> DEFINE W == Where(t)
<1> HIDE DEF t, x
<1>3. \A i \in W : i \in Nat /\ i + 1 # 1 /\ i + 1 \in Where(s)
  BY <1>1 DEF Where
<1>4. AtMost(t, n)
  <2> DEFINE h == [i \in W |-> f[i + 1]]
  <2>1. h \in [W -> 1 .. n]
    BY <1>2, <1>3
  <2>2. \A i, j \in W : h[i] = h[j] => i = j
    BY <1>2, <1>3
  <2> QED
    BY Zenon, <2>1, <2>2 DEF AtMost
<1>5. ASSUME Head(s) = x PROVE n >= 1 /\ AtMost(t, n - 1)
  <2>1. 1 \in Where(s)
    BY <1>1, <1>5 DEF Where, x
  <2>2. f[1] \in 1 .. n
    BY <1>2, <2>1
  <2> DEFINE h == [i \in W |-> IF f[i + 1] = n THEN f[1] ELSE f[i + 1]]
  <2>3. \A i \in W : f[i + 1] \in 1 .. n /\ f[i + 1] # f[1]
    BY <1>2, <1>3, <2>1
  <2>4. h \in [W -> 1 .. n - 1]
    <3> SUFFICES ASSUME NEW i \in W PROVE h[i] \in 1 .. n - 1
      OBVIOUS
    <3>1. f[i + 1] \in 1 .. n /\ f[i + 1] # f[1] /\ h[i] = IF f[i + 1] = n THEN f[1] ELSE f[i + 1]
      BY <2>3
    <3> QED
      BY <2>2, <3>1
  <2>5. \A i, j \in W : h[i] = h[j] => i = j
    <3> SUFFICES ASSUME NEW i \in W, NEW j \in W, h[i] = h[j] PROVE i = j
      OBVIOUS
    <3>1. f[i + 1] = f[j + 1]
      BY <2>3
    <3> QED
      BY <1>2, <1>3, <3>1
  <2>6. n >= 1
    BY <2>2
  <2> HIDE DEF h
  <2> QED
    BY Zenon, <2>4, <2>5, <2>6 DEF AtMost
<1> QED
  BY <1>4, <1>5 DEF t, x

-----------------------------------------------------------------------------
(* The ranges                                                              *)

\* What mcuio_request_received gets to see: requests and replies.
Reply == set_reply(Message(i2c))
Packets == Requests \cup {Reply}

\* lookup_range finds a range that holds the access.
LEMMA RangeFound ==
    ASSUME NEW ranges, NEW n \in 0 .. 11, DOMAIN ranges = 1 .. n, NEW pk, lookup_range(ranges, pk) # 0
    PROVE  LET i == lookup_range(ranges, pk)
           IN  /\ i \in 1 .. n
               /\ pk.off >= ranges[i].start
               /\ pk.off + data_len(pk) - 1 <= ranges[i].start + ranges[i].len - 1
<1> DEFINE fits(i) == /\ pk.off >= ranges[i].start
                      /\ pk.off + data_len(pk) - 1 <= ranges[i].start + ranges[i].len - 1
           found == {i \in DOMAIN ranges : fits(i)}
<1>1. lookup_range(ranges, pk) = IF found = {} THEN 0 ELSE Min(found)
  BY DEF lookup_range
<1> HIDE DEF fits
<1>2. found \subseteq 1 .. n /\ found \subseteq 1 .. 11
  <2>1. found \subseteq 1 .. n
    BY Zenon
  <2>2. 1 .. n \subseteq 1 .. 11
    OBVIOUS
  <2> QED
    BY Zenon, <2>1, <2>2
<1>3. found # {} => Min(found) \in found
  BY Zenon, <1>2, LeastRange
<1>4. lookup_range(ranges, pk) \in found
  BY <1>1, <1>3
<1> QED
  BY <1>4 DEF fits

\* The interrupt controller has read only registers alone.
LEMMA OnlyReadsUseTheMessage ==
    ASSUME Req \in Requests, Req.f = "irqc", lookup_range(Ranges(Req.f), Req) > 0
    PROVE  Ranges(Req.f)[lookup_range(Ranges(Req.f), Req)].ops = "ro"
<1> DEFINE r == irq_controller_msg_ranges
<1>1. Ranges(Req.f) = r
  BY DEF Ranges
<1>2. DOMAIN r = 1 .. 1 /\ r[1].ops = "ro"
  BY DEF irq_controller_msg_ranges, Range_
<1> HIDE DEF r
<1>3. lookup_range(r, Req) # 0 /\ 1 \in 0 .. 11
  BY <1>1
<1>4. lookup_range(r, Req) \in 1 .. 1
  BY Zenon, <1>2, <1>3, RangeFound
<1> QED
  BY <1>1, <1>2, <1>4

\* The status of the test function is in a range that has an operation.
LEMMA StatusRange ==
    /\ StatusRead \in Requests /\ ~StatusRead.rep /\ StatusRead.f = "irq_test" /\ is_read(StatusRead)
    /\ lookup_range(Ranges("irq_test"), StatusRead) = 2
    /\ Ranges("irq_test")[2].ops = "irq_test" /\ HasOp("irq_test", StatusRead)
<1> DEFINE r == irq_test_ranges
           x == StatusRead
<1>1. Zeros \in [1 .. 8 -> 0 .. 255]
  BY DEF Zeros
<1>2. x = [f |-> "irq_test", off |-> 12, t |-> 4, fill |-> FALSE, rep |-> FALSE, err |-> FALSE, data |-> Zeros]
  BY DEF StatusRead, Packet
<1>3. x.f = "irq_test" /\ x.off = 12 /\ x.t = 4 /\ x.rep = FALSE
  BY <1>2
<1>4. x \in Requests
  BY <1>1, <1>2 DEF Requests, Functions
<1>5. is_read(x) /\ HasOp("irq_test", x)
  BY <1>3 DEF is_read, HasOp
<1>6. data_len(x) = 4
  <2>1. 4 \div 2 = 2 /\ 2 ^ 2 = 4
    OBVIOUS
  <2> QED
    BY <1>3, <2>1 DEF data_len
<1>7. Ranges("irq_test") = r
  BY DEF Ranges
<1>8. DOMAIN r = {1, 2} /\ r[1].start = 0 /\ r[1].len = 8 /\ r[2].start = 12 /\ r[2].len = 4 /\ r[2].ops = "irq_test"
  BY DEF irq_test_ranges, Range_
<1> HIDE DEF r, x
<1> DEFINE fits(i) == /\ x.off >= r[i].start
                      /\ x.off + data_len(x) - 1 <= r[i].start + r[i].len - 1
           found == {i \in DOMAIN r : fits(i)}
<1>9. lookup_range(r, x) = IF found = {} THEN 0 ELSE Min(found)
  BY DEF lookup_range
<1>10. fits(2) /\ ~fits(1)
  BY <1>3, <1>6, <1>8
<1> HIDE DEF fits
<1>11. found = {2}
  BY <1>8, <1>10
<1>12. Min(found) \in found
  BY <1>11, LeastRange
<1>13. lookup_range(r, x) = 2
  BY <1>9, <1>11, <1>12
<1> QED
  BY <1>3, <1>4, <1>5, <1>7, <1>8, <1>13 DEF x

-----------------------------------------------------------------------------
(* The test function's interrupt is on its way.                            *)

Runtimes == {"common", "pwm", "adc", "irqc"}

QueueEvents ==
    {<<"data_ready">>, <<"tick">>, <<"gpio_evt">>, <<"request">>}
        \cup {Irq_(f, a) : f \in {irq_test, i2c, NoFunction}, a \in BOOLEAN}

\* The variables hold what the handlers take them for, and for every event
\* there is a request.
Typed ==
    /\ q \in Seq(QueueEvents) /\ inp \in Seq(Packets) /\ AtMost(q, Len(inp))
    /\ \E T : host \in [todo : Seq(Requests), told : T]
    /\ \E A : to_host \in [Runtimes -> A]
    /\ irqt \in [active : BOOLEAN, enabled : BOOLEAN]

\* The forms that an interrupt takes on its way to the host, in l: lost, h:
\* host.told, b: the controller's buffer.
OnWay(l, h, queue, b, input) ==
    \/ irq_test \in l \cup h
    \/ Has(queue, Irq_(irq_test, TRUE))
    \/ Has(queue, <<"request">>) /\ b = Message(irq_test)
    \/ Has(input, StatusRead)

\* OnWay is the property.
LEMMA WayMeans ==
    InterruptOnItsWay <=> (irqt.active => OnWay(lost, host.told, q, to_host["irqc"], inp))
BY DEF InterruptOnItsWay, OnWay, Has, Queued

\* The kinds of events are told apart by their first component.
LEMMA EventsDiffer ==
    /\ Irq_(irq_test, TRUE) \in QueueEvents /\ Irq_(irq_test, FALSE) \in QueueEvents /\ Irq_(i2c, TRUE) \in QueueEvents
    /\ \A a \in BOOLEAN : Irq_(NoFunction, a) \in QueueEvents
    /\ <<"data_ready">> # Irq_(irq_test, TRUE) /\ <<"data_ready">> # <<"request">>
    /\ <<"tick">> # Irq_(irq_test, TRUE) /\ <<"tick">> # <<"request">>
    /\ <<"gpio_evt">> # Irq_(irq_test, TRUE) /\ <<"gpio_evt">> # <<"request">>
    /\ <<"request">> # Irq_(irq_test, TRUE)
<1>1. \A f : \A a : Irq_(f, a)[1] = "irq"
  BY DEF Irq_
<1>2. <<"data_ready">>[1] # "irq" /\ <<"tick">>[1] # "irq" /\ <<"gpio_evt">>[1] # "irq" /\ <<"request">>[1] # "irq"
  OBVIOUS
<1>3. <<"data_ready">>[1] # <<"request">>[1] /\ <<"tick">>[1] # <<"request">>[1] /\ <<"gpio_evt">>[1] # <<"request">>[1]
  OBVIOUS
<1>4. /\ Irq_(irq_test, TRUE) \in QueueEvents /\ Irq_(irq_test, FALSE) \in QueueEvents /\ Irq_(i2c, TRUE) \in QueueEvents
      /\ \A a \in BOOLEAN : Irq_(NoFunction, a) \in QueueEvents
  <2>1. \A f \in {irq_test, i2c, NoFunction}, a \in BOOLEAN : Irq_(f, a) \in QueueEvents
    BY DEF QueueEvents
  <2> QED
    BY Zenon, <2>1
<1> QED
  BY Zenon, <1>1, <1>2, <1>3, <1>4

\* trigger_event
LEMMA Triggered ==
    ASSUME NEW s \in Seq(QueueEvents), NEW e \in QueueEvents, NEW x
    PROVE  /\ Trigger(s, e) \in Seq(QueueEvents)
           /\ Has(s, x) => Has(Trigger(s, e), x)
           /\ ~Full(s) => Has(Trigger(s, e), e)
BY HasAppend DEF Trigger

\* The events that announce requests.
LEMMA TriggeredReady ==
    ASSUME NEW s \in Seq(QueueEvents), NEW e \in QueueEvents \ {<<"data_ready">>}, NEW n \in Nat, AtMost(s, n)
    PROVE  AtMost(Trigger(s, e), n)
BY AtMostAppend DEF Trigger

\* There is a packet for the event that is handled, and for every other one.
LEMMA TakenReady ==
    ASSUME q \in Seq(QueueEvents), q # <<>>, inp \in Seq(Packets), AtMost(q, Len(inp))
    PROVE  /\ Len(inp) \in Nat /\ Rest \in Seq(QueueEvents) /\ AtMost(Rest, Len(inp))
           /\ Head(q) = <<"data_ready">> =>
                /\ inp # <<>> /\ Tail(inp) \in Seq(Packets)
                /\ Len(Tail(inp)) \in Nat /\ AtMost(Rest, Len(Tail(inp)))
<1>1. Len(inp) \in Nat /\ Tail(q) \in Seq(QueueEvents)
  BY LenProperties, HeadTailProperties
<1>2. AtMost(Tail(q), Len(inp)) /\ (Head(q) = <<"data_ready">> => Len(inp) >= 1 /\ AtMost(Tail(q), Len(inp) - 1))
  BY Zenon, <1>1, AtMostTail
<1>3. ASSUME Len(inp) >= 1
      PROVE  inp # <<>> /\ Tail(inp) \in Seq(Packets) /\ Len(Tail(inp)) = Len(inp) - 1 /\ Len(Tail(inp)) \in Nat
  BY <1>1, <1>3, EmptySeq, HeadTailProperties
<1> QED
  BY Zenon, <1>1, <1>2, <1>3 DEF Rest

WayInv == Typed /\ InterruptOnItsWay

\* At the start no interrupt is active.
LEMMA InitWay == Init => WayInv
<1> SUFFICES ASSUME Init PROVE WayInv
  OBVIOUS
<1>1. PICK script \in Scripts : host = [todo |-> script, told |-> {}]
  BY Zenon DEF Init
<1>2. script \in Seq(Requests)
  BY FunctionsAssumption
<1>3. host \in [todo : Seq(Requests), told : {{}}]
  BY <1>1, <1>2
<1>4. q \in Seq(QueueEvents) /\ inp \in Seq(Packets) /\ AtMost(q, Len(inp))
  <2>1. q = <<>> /\ inp = <<>>
    BY DEF Init
  <2>2. Where(<<>>) = {} /\ Len(<<>>) = 0
    BY DEF Where
  <2>3. AtMost(<<>>, Len(<<>>))
    <3> DEFINE f == [i \in {} |-> 1]
    <3>1. f \in [{} -> 1 .. 0]
      OBVIOUS
    <3> QED
      BY Zenon, <2>2, <3>1 DEF AtMost
  <2> QED
    BY <2>1, <2>3
<1>5. to_host \in [Runtimes -> {NoPacket}]
  BY DEF Init, Runtimes
<1>6. irqt \in [active : BOOLEAN, enabled : BOOLEAN] /\ irqt.active = FALSE
  BY DEF Init
<1> QED
  BY Zenon, <1>3, <1>4, <1>5, <1>6 DEF WayInv, Typed, InterruptOnItsWay

\* Nothing of it changes.
LEMMA SameWay ==
    ASSUME WayInv, UNCHANGED <<q, inp, to_host, host, lost, irqt>>
    PROVE  WayInv'
BY Zenon DEF WayInv, Typed, InterruptOnItsWay, Queued

\* A request leaves the input with the event that announced it.
LEMMA TakenFrom ==
    ASSUME Typed, At(<<"data_ready">>), NEW e \in QueueEvents \ {<<"data_ready">>},
           q' = Rest \/ q' = Trigger(Rest, e), inp' = Tail(inp)
    PROVE  q' \in Seq(QueueEvents) /\ inp' \in Seq(Packets) /\ AtMost(q', Len(inp'))
<1>1. q \in Seq(QueueEvents) /\ inp \in Seq(Packets) /\ q # <<>> /\ Head(q) = <<"data_ready">> /\ AtMost(q, Len(inp))
  BY DEF Typed, At
<1>2. /\ Rest \in Seq(QueueEvents) /\ inp' \in Seq(Packets)
      /\ Len(inp') \in Nat /\ AtMost(Rest, Len(inp'))
  BY Zenon, <1>1, TakenReady
<1> QED
  BY Zenon, <1>2, Triggered, TriggeredReady

\* What a handler of the requests does when it does not read the test
\* function's status: the request leaves the input, events may be added, and
\* if the controller's buffer is used its message counts as lost.
LEMMA RequestTaken ==
    ASSUME WayInv, q # <<>>, Head(q) = <<"data_ready">>, Req # StatusRead,
           NEW e \in QueueEvents \ {<<"data_ready">>}, q' = Rest \/ q' = Trigger(Rest, e), inp' = Tail(inp),
           NEW T, host' \in [todo : Seq(Requests), told : T], host'.told = host.told,
           NEW A, to_host' \in [Runtimes -> A],
           to_host'["irqc"] = to_host["irqc"] \/ Waiting \subseteq lost', lost \subseteq lost',
           irqt' \in [active : BOOLEAN, enabled : BOOLEAN], irqt'.active = irqt.active
    PROVE  WayInv'
<1>1. q \in Seq(QueueEvents) /\ inp \in Seq(Packets)
  BY DEF WayInv, Typed
<1>2. /\ Rest \in Seq(QueueEvents)
      /\ Has(q, Irq_(irq_test, TRUE)) => Has(Rest, Irq_(irq_test, TRUE))
      /\ Has(q, <<"request">>) => Has(Rest, <<"request">>)
  BY Zenon, <1>1, HasTail, EventsDiffer DEF Rest
<1>3. /\ q' \in Seq(QueueEvents)
      /\ Has(q, Irq_(irq_test, TRUE)) => Has(q', Irq_(irq_test, TRUE))
      /\ Has(q, <<"request">>) => Has(q', <<"request">>)
  <2>1. CASE q' = Rest
    BY Zenon, <1>2, <2>1
  <2>2. CASE q' = Trigger(Rest, e)
    BY Zenon, <1>2, <2>2, Triggered
  <2> QED
    BY Zenon, <2>1, <2>2
<1>4. inp' \in Seq(Packets) /\ (Has(inp, StatusRead) => Has(inp', StatusRead)) /\ AtMost(q', Len(inp'))
  <2>1. /\ inp # <<>> /\ Rest \in Seq(QueueEvents) /\ inp' \in Seq(Packets)
        /\ Len(inp') \in Nat /\ AtMost(Rest, Len(inp'))
    BY Zenon, <1>1, TakenReady DEF WayInv, Typed
  <2>2. AtMost(q', Len(inp'))
    <3>1. CASE q' = Rest
      BY Zenon, <2>1, <3>1
    <3>2. CASE q' = Trigger(Rest, e)
      BY Zenon, <2>1, <3>2, TriggeredReady
    <3> QED
      BY Zenon, <3>1, <3>2
  <2>3. Has(inp, StatusRead) => Has(inp', StatusRead)
    BY <1>1, <2>1, HasTail DEF Req
  <2> QED
    BY Zenon, <2>1, <2>2, <2>3
<1>5. Typed'
  BY Zenon, <1>3, <1>4 DEF Typed
<1>6. InterruptOnItsWay'
  <2> SUFFICES ASSUME irqt'.active
               PROVE  OnWay(lost', host'.told, q', to_host'["irqc"], inp')
    BY Zenon DEF InterruptOnItsWay, OnWay, Has, Queued
  <2>1. OnWay(lost, host.told, q, to_host["irqc"], inp)
    BY WayMeans DEF WayInv
  <2>2. CASE irq_test \in lost \cup host.told
    BY Zenon, <2>2 DEF OnWay
  <2>3. CASE Has(q, Irq_(irq_test, TRUE))
    BY Zenon, <1>3, <2>3 DEF OnWay
  <2>4. CASE Has(q, <<"request">>) /\ to_host["irqc"] = Message(irq_test)
    <3>1. Waiting = {irq_test}
      <4>1. Message(irq_test).f = "host" /\ Message(irq_test).off = irq_test
        BY DEF Message, Packet
      <4> QED
        BY <2>4, <4>1 DEF Waiting, Queued, Has
    <3> QED
      BY Zenon, <1>3, <2>4, <3>1 DEF OnWay
  <2>5. CASE Has(inp, StatusRead)
    BY Zenon, <1>4, <2>5 DEF OnWay
  <2> QED
    BY Zenon, <2>1, <2>2, <2>3, <2>4, <2>5 DEF OnWay
<1> QED
  BY <1>5, <1>6 DEF WayInv

\* Where data_ready is handled there is a packet.
LEMMA RequestThere ==
    ASSUME Typed, At(<<"data_ready">>)
    PROVE  /\ q # <<>> /\ Head(q) = <<"data_ready">> /\ inp # <<>> /\ Req \in Packets
           /\ ~Req.rep => Req \in Requests
<1>1. q \in Seq(QueueEvents) /\ inp \in Seq(Packets) /\ q # <<>> /\ Head(q) = <<"data_ready">>
  BY DEF Typed, At
<1>4. inp # <<>>
  BY Zenon, <1>1, TakenReady DEF Typed
<1>5. Req \in Packets
  BY <1>1, <1>4, HeadTailProperties DEF Req
<1>6. Reply.rep = TRUE
  BY DEF Reply, set_reply, Message, Packet
<1> QED
  BY <1>1, <1>4, <1>5, <1>6 DEF Packets

\* The runtimes.
LEMMA RuntimeOf == \A f : Runtime(f) \in Runtimes /\ (Runtime(f) = "irqc" => f = "irqc")
BY DEF Runtime, Runtimes

\* An operation of a range that is not read only does not use the
\* controller's buffer.
LEMMA OtherBuffers ==
    ASSUME Typed, NEW ops, ops # "ro", Serving(ops)
    PROVE  Runtime(Req.f) # "irqc"
<1>1. Req \in Requests
  BY RequestThere DEF Serving
<1>2. lookup_range(Ranges(Req.f), Req) > 0 /\ Ranges(Req.f)[lookup_range(Ranges(Req.f), Req)].ops = ops
  BY DEF Serving
<1>3. Req.f # "irqc"
  BY <1>1, <1>2, OnlyReadsUseTheMessage
<1> QED
  BY <1>3, RuntimeOf

\* The status of the test function is read by ServeIrqTest alone.
LEMMA OtherRequests ==
    /\ \A ops : ops # "irq_test" /\ Serving(ops) => Req # StatusRead
    /\ ServeNoOp \/ ServeNoRange \/ ServeNoFunction \/ ReplyReceived => Req # StatusRead
<1> SUFFICES ASSUME Req = StatusRead
             PROVE  /\ \A ops : ops # "irq_test" => ~Serving(ops)
                    /\ ~ServeNoOp /\ ~ServeNoRange /\ ~ServeNoFunction /\ ~ReplyReceived
  OBVIOUS
<1>1. /\ ~Req.rep /\ Req.f = "irq_test" /\ lookup_range(Ranges(Req.f), Req) = 2
      /\ Ranges(Req.f)[2].ops = "irq_test" /\ HasOp("irq_test", Req)
  BY StatusRange
<1>2. \A ops : ops # "irq_test" => ~Serving(ops)
  BY <1>1 DEF Serving
<1>3. ~ServeNoOp
  BY <1>1 DEF ServeNoOp
<1>4. ~ServeNoRange /\ ~ServeNoFunction /\ ~ReplyReceived
  BY <1>1 DEF ServeNoRange, ServeNoFunction, ReplyReceived
<1> QED
  BY <1>2, <1>3, <1>4

\* The answer goes to one buffer.
LEMMA Answered ==
    ASSUME Typed, NEW r \in Runtimes, NEW a, Send(r, a)
    PROVE  /\ inp' = Tail(inp)
           /\ \E A : to_host' \in [Runtimes -> A]
           /\ to_host'[r] = a
           /\ r # "irqc" => to_host'["irqc"] = to_host["irqc"]
<1>1. PICK A : to_host \in [Runtimes -> A]
  BY Zenon DEF Typed
<1>2. inp' = Tail(inp) /\ to_host' = [to_host EXCEPT ![r] = a]
  BY DEF Send
<1>3. to_host' \in [Runtimes -> A \cup {a}]
  BY <1>1, <1>2
<1>4. to_host'[r] = a /\ (r # "irqc" => to_host'["irqc"] = to_host["irqc"])
  BY <1>1, <1>2 DEF Runtimes
<1> QED
  BY Zenon, <1>2, <1>3, <1>4

\* An answer that does not touch the controller's buffer.
LEMMA ServedWay ==
    ASSUME WayInv, NEW ops, ops \notin {"ro", "irq_test"}, Serving(ops),
           NEW stat, NEW data, Answer(stat, data),
           NEW e \in QueueEvents \ {<<"data_ready">>}, q' = Rest \/ q' = Trigger(Rest, e),
           UNCHANGED <<host, lost, irqt>>
    PROVE  WayInv'
<1>1. Typed
  BY DEF WayInv
<1> DEFINE r == Runtime(Req.f)
<1>2. r \in Runtimes /\ r # "irqc"
  BY <1>1, OtherBuffers, RuntimeOf
<1>3. \E a : Send(r, a)
  BY DEF Answer
<1> HIDE DEF r
<1>4. inp' = Tail(inp) /\ (\E A : to_host' \in [Runtimes -> A]) /\ to_host'["irqc"] = to_host["irqc"]
  BY Zenon, <1>1, <1>2, <1>3, Answered
<1>5. q # <<>> /\ Head(q) = <<"data_ready">> /\ Req # StatusRead
  BY <1>1, RequestThere, OtherRequests DEF Serving
<1>6. PICK T : host' \in [todo : Seq(Requests), told : T]
  BY <1>1 DEF Typed
<1>7. PICK A : to_host' \in [Runtimes -> A]
  BY Zenon, <1>4
<1>8. irqt' \in [active : BOOLEAN, enabled : BOOLEAN] /\ irqt'.active = irqt.active /\ host'.told = host.told /\ lost \subseteq lost'
  BY <1>1 DEF Typed
<1> QED
  BY Zenon, <1>4, <1>5, <1>6, <1>7, <1>8, RequestTaken

\* The events that announce no request.
LEMMA OtherEvents ==
    /\ {<<"tick">>, <<"gpio_evt">>, <<"request">>} \subseteq QueueEvents \ {<<"data_ready">>}
    /\ \A a \in BOOLEAN : /\ Irq_(irq_test, a) \in QueueEvents \ {<<"data_ready">>}
                          /\ Irq_(i2c, a) \in QueueEvents \ {<<"data_ready">>}
                          /\ Irq_(NoFunction, a) \in QueueEvents \ {<<"data_ready">>}
<1>1. \A f \in {irq_test, i2c, NoFunction}, a \in BOOLEAN : Irq_(f, a) \in QueueEvents
  BY DEF QueueEvents
<1>2. \A f, a : Irq_(f, a) # <<"data_ready">>
  <2>1. \A f, a : Irq_(f, a)[1] = "irq"
    BY DEF Irq_
  <2> QED
    BY <2>1
<1>3. {<<"tick">>, <<"gpio_evt">>, <<"request">>} \subseteq QueueEvents \ {<<"data_ready">>}
  BY DEF QueueEvents
<1> QED
  BY Zenon, <1>1, <1>2, <1>3

\* The operations on the registers of the devices.
LEMMA RegistersWay ==
    WayInv /\ (ServeZero \/ ServeGpio \/ ServeGpioSet \/ ServeGpioStatus \/ ServePwm \/ ServeAdc) => WayInv'
<1> SUFFICES ASSUME WayInv, ServeZero \/ ServeGpio \/ ServeGpioSet \/ ServeGpioStatus \/ ServePwm \/ ServeAdc
             PROVE  WayInv'
  OBVIOUS
<1>0. Irq_(NoFunction, FALSE) \in QueueEvents \ {<<"data_ready">>}
  BY Zenon, OtherEvents
<1>1. CASE ServeZero
  <2>1. Serving("rw") /\ q' = Rest /\ UNCHANGED <<host, lost, irqt>>
    BY <1>1 DEF ServeZero
  <2>2. \E stat, data : Answer(stat, data)
    BY <1>1 DEF ServeZero
  <2> QED
    BY Zenon, <1>0, <2>1, <2>2, ServedWay
<1>2. CASE ServeGpio
  <2>1. PICK ops \in {"data", "clr", "modes", "evts"} :
          Serving(ops) /\ \E off \in {Off} : \E r \in {GpioResult(ops, off)} : Answer(r.stat, r.data) /\ g' = r.g
    BY <1>2 DEF ServeGpio
  <2>2. q' = Rest /\ UNCHANGED <<host, lost, irqt>>
    BY <1>2 DEF ServeGpio
  <2>3. \E stat, data : Answer(stat, data)
    BY Zenon, <2>1
  <2>4. ops \notin {"ro", "irq_test"}
    OBVIOUS
  <2> QED
    BY Zenon, <1>0, <2>1, <2>2, <2>3, <2>4, ServedWay
<1>3. CASE ServeGpioSet
  <2>1. Serving("set") /\ UNCHANGED <<host, lost, irqt>>
    BY <1>3 DEF ServeGpioSet
  <2>2. (q' = Rest /\ \E stat, data : Answer(stat, data)) \/ UNCHANGED <<q, to_host, inp>>
    BY Zenon, <1>3 DEF ServeGpioSet
  <2>3. CASE UNCHANGED <<q, to_host, inp>>
    BY <2>1, <2>3, SameWay
  <2> QED
    BY Zenon, <1>0, <2>1, <2>2, <2>3, ServedWay
<1>4. CASE ServeGpioStatus
  <2>1. Serving("status") /\ UNCHANGED <<host, lost, irqt>>
    BY <1>4 DEF ServeGpioStatus
  <2>2. q' = Rest \/ q' = Trigger(Rest, Irq_(NoFunction, FALSE))
    BY Zenon, <1>4 DEF ServeGpioStatus
  <2>3. \E stat, data : Answer(stat, data)
    BY Zenon, <1>4 DEF ServeGpioStatus
  <2> QED
    BY Zenon, <1>0, <2>1, <2>2, <2>3, ServedWay
<1>5. CASE ServePwm
  <2>1. Serving("pwm") /\ UNCHANGED <<host, lost, irqt>>
    BY <1>5 DEF ServePwm
  <2>2. (q' = Rest /\ \E stat, data : Answer(stat, data)) \/ UNCHANGED <<q, to_host, inp>>
    BY Zenon, <1>5 DEF ServePwm
  <2>3. CASE UNCHANGED <<q, to_host, inp>>
    BY <2>1, <2>3, SameWay
  <2> QED
    BY Zenon, <1>0, <2>1, <2>2, <2>3, ServedWay
<1>6. CASE ServeAdc
  <2>1. q' = Rest /\ UNCHANGED <<host, lost, irqt>>
    BY <1>6 DEF ServeAdc
  <2>2. \/ Serving("adc_gen") /\ \E stat, data : Answer(stat, data)
        \/ Serving("adc") /\ \E stat, data : Answer(stat, data)
    <3> DEFINE reg == Off % 64
    <3>1. reg \in {0, 4, 8} \/ (reg = 12 /\ adc.en) \/ (reg = 12 /\ ~adc.en) \/ (~(reg \in {0, 4, 8}) /\ reg # 12)
      OBVIOUS
    <3> QED
      BY <1>6 DEF ServeAdc
  <2> QED
    BY Zenon, <1>0, <2>1, <2>2, ServedWay
<1> QED
  BY <1>1, <1>2, <1>3, <1>4, <1>5, <1>6

\* The answers that may go to the controller's buffer.
LEMMA AnyBufferWay ==
    ASSUME WayInv, At(<<"data_ready">>), Req # StatusRead, NEW a, Send(Runtime(Req.f), a), q' = Rest,
           lost' = lost \cup Overwritten(Runtime(Req.f)), UNCHANGED <<host, irqt>>
    PROVE  WayInv'
<1>1. Typed
  BY DEF WayInv
<1> DEFINE r == Runtime(Req.f)
<1>2. r \in Runtimes
  BY RuntimeOf
<1>3. Send(r, a) /\ lost' = lost \cup Overwritten(r)
  OBVIOUS
<1> HIDE DEF r
<1>4. inp' = Tail(inp) /\ (\E A : to_host' \in [Runtimes -> A]) /\ (r # "irqc" => to_host'["irqc"] = to_host["irqc"])
  BY <1>1, <1>2, <1>3, Answered
<1>5. to_host'["irqc"] = to_host["irqc"] \/ Waiting \subseteq lost'
  BY <1>3, <1>4 DEF Overwritten
<1>6. q # <<>> /\ Head(q) = <<"data_ready">>
  BY <1>1, RequestThere
<1>7. PICK T : host' \in [todo : Seq(Requests), told : T]
  BY <1>1 DEF Typed
<1>8. PICK A : to_host' \in [Runtimes -> A]
  BY Zenon, <1>4
<1>9. irqt' \in [active : BOOLEAN, enabled : BOOLEAN] /\ irqt'.active = irqt.active /\ host'.told = host.told /\ lost \subseteq lost'
  BY <1>1, <1>3 DEF Typed
<1>10. Irq_(NoFunction, FALSE) \in QueueEvents \ {<<"data_ready">>}
  BY Zenon, OtherEvents
<1> QED
  BY Zenon, <1>4, <1>5, <1>6, <1>7, <1>8, <1>9, <1>10, RequestTaken

\* The requests that may use the controller's buffer: lost tells of the message
\* that waited there.
LEMMA AnswersWay ==
    WayInv /\ (ServeRo \/ ServeNoOp \/ ServeNoRange \/ ServeNoFunction \/ ReplyReceived) => WayInv'
<1> SUFFICES ASSUME WayInv, ServeRo \/ ServeNoOp \/ ServeNoRange \/ ServeNoFunction \/ ReplyReceived
             PROVE  WayInv'
  OBVIOUS
<1>0. Req # StatusRead /\ At(<<"data_ready">>)
  BY OtherRequests DEF ServeRo, ServeNoOp, ServeNoRange, ServeNoFunction, ReplyReceived, Serving
<1>1. CASE ServeRo \/ ServeNoOp \/ ServeNoRange
  <2>1. q' = Rest /\ lost' = lost \cup Overwritten(Runtime(Req.f)) /\ UNCHANGED <<host, irqt>>
    BY <1>1 DEF ServeRo, ServeNoOp, ServeNoRange, regs
  <2>2. \E a : Send(Runtime(Req.f), a)
    BY <1>1 DEF ServeRo, ServeNoOp, ServeNoRange, Answer
  <2> QED
    BY <1>0, <2>1, <2>2, AnyBufferWay
<1>2. CASE ServeNoFunction \/ ReplyReceived
  <2>1. q' = Rest /\ inp' = Tail(inp) /\ UNCHANGED <<to_host, host, lost, irqt>>
    BY <1>2 DEF ServeNoFunction, ReplyReceived, regs, hist
  <2>2. Typed
    BY DEF WayInv
  <2>3. q # <<>> /\ Head(q) = <<"data_ready">>
    BY <1>0, <2>2, RequestThere
  <2>4. PICK T : host' \in [todo : Seq(Requests), told : T]
    BY <2>1, <2>2 DEF Typed
  <2>5. PICK A : to_host' \in [Runtimes -> A]
    BY Zenon, <2>1, <2>2 DEF Typed
  <2>6. irqt' \in [active : BOOLEAN, enabled : BOOLEAN] /\ irqt'.active = irqt.active /\ host'.told = host.told
        /\ lost \subseteq lost' /\ to_host'["irqc"] = to_host["irqc"]
    BY <2>1, <2>2 DEF Typed
  <2>7. Irq_(NoFunction, FALSE) \in QueueEvents \ {<<"data_ready">>}
    BY Zenon, OtherEvents
  <2> QED
    BY Zenon, <1>0, <2>1, <2>3, <2>4, <2>5, <2>6, <2>7, RequestTaken
<1> QED
  BY <1>1, <1>2

\* The status of the test function: reading it ends the interrupt.
LEMMA IrqTestWay == WayInv /\ ServeIrqTest => WayInv'
<1> SUFFICES ASSUME WayInv, ServeIrqTest PROVE WayInv'
  OBVIOUS
<1>1. Typed /\ Serving("irq_test") /\ host' = host /\ At(<<"data_ready">>)
  BY DEF WayInv, ServeIrqTest, Serving
<1> DEFINE r == Runtime(Req.f)
<1>2. r \in Runtimes /\ r # "irqc"
  BY <1>1, OtherBuffers, RuntimeOf
<1>3. \E a : Send(r, a)
  BY Zenon DEF ServeIrqTest, Answer
<1> HIDE DEF r
<1>4. inp' = Tail(inp) /\ (\E A : to_host' \in [Runtimes -> A]) /\ to_host'["irqc"] = to_host["irqc"]
  BY <1>1, <1>2, <1>3, Answered
<1>5. q # <<>> /\ Head(q) = <<"data_ready">>
  BY <1>1, RequestThere
<1>6. PICK T : host' \in [todo : Seq(Requests), told : T]
  BY <1>1 DEF Typed
<1>7. PICK A : to_host' \in [Runtimes -> A]
  BY Zenon, <1>4
<1>8. irqt \in [active : BOOLEAN, enabled : BOOLEAN]
  BY <1>1 DEF Typed
<1>9. Irq_(irq_test, FALSE) \in QueueEvents \ {<<"data_ready">>}
  BY Zenon, OtherEvents
<1>10. CASE is_read(Req)
  <2>1. /\ irqt' = [irqt EXCEPT !.active = FALSE]
        /\ q' = Rest \/ q' = Trigger(Rest, Irq_(irq_test, FALSE))
    BY Zenon, <1>10 DEF ServeIrqTest, irq_test_status_rddw
  <2>2. irqt' \in [active : BOOLEAN, enabled : BOOLEAN] /\ irqt'.active = FALSE
    BY Zenon, <1>8, <2>1
  <2>3. q' \in Seq(QueueEvents) /\ inp' \in Seq(Packets) /\ AtMost(q', Len(inp'))
    BY Zenon, <1>1, <1>4, <1>9, <2>1, TakenFrom
  <2> QED
    BY Zenon, <1>6, <1>7, <2>2, <2>3 DEF WayInv, Typed, InterruptOnItsWay
<1>11. CASE ~is_read(Req)
  <2>1. irqt' = [irqt EXCEPT !.enabled = Value(Req.data) # 0] /\ q' = Rest /\ lost' = lost
    BY <1>11 DEF ServeIrqTest
  <2>2. irqt' \in [active : BOOLEAN, enabled : BOOLEAN] /\ irqt'.active = irqt.active
    BY Zenon, <1>8, <2>1
  <2>3. Req # StatusRead
    BY <1>11, StatusRange
  <2>4. host'.told = host.told /\ lost \subseteq lost'
    BY <1>1, <2>1
  <2> QED
    BY Zenon, <1>4, <1>5, <1>6, <1>7, <1>9, <2>1, <2>2, <2>3, <2>4, RequestTaken
<1> QED
  BY <1>10, <1>11

\* Events that leave the input and the controller's buffer alone.
LEMMA KeptWay ==
    ASSUME WayInv, q' \in Seq(QueueEvents), AtMost(q', Len(inp)), UNCHANGED <<inp, to_host, host>>,
           Has(q, Irq_(irq_test, TRUE)) => Has(q', Irq_(irq_test, TRUE)),
           Has(q, <<"request">>) => Has(q', <<"request">>),
           irqt' \in [active : BOOLEAN, enabled : BOOLEAN], lost \subseteq lost',
           irqt'.active => irqt.active \/ irq_test \in lost' \/ Has(q', Irq_(irq_test, TRUE))
    PROVE  WayInv'
<1>2. Typed'
  BY Zenon DEF WayInv, Typed
<1>3. InterruptOnItsWay'
  <2> SUFFICES ASSUME irqt'.active
               PROVE  OnWay(lost', host.told, q', to_host["irqc"], inp)
    BY Zenon DEF InterruptOnItsWay, OnWay, Has, Queued
  <2>1. irqt.active => OnWay(lost, host.told, q, to_host["irqc"], inp)
    BY WayMeans DEF WayInv
  <2> QED
    BY Zenon, <2>1 DEF OnWay
<1> QED
  BY <1>2, <1>3 DEF WayInv

\* What is left when another event was handled.
LEMMA RestWay ==
    ASSUME Typed, q # <<>>, Head(q) # Irq_(irq_test, TRUE)
    PROVE  /\ Rest \in Seq(QueueEvents) /\ Len(inp) \in Nat /\ AtMost(Rest, Len(inp))
           /\ Has(q, Irq_(irq_test, TRUE)) => Has(Rest, Irq_(irq_test, TRUE))
           /\ Head(q) # <<"request">> /\ Has(q, <<"request">>) => Has(Rest, <<"request">>)
<1>1. q \in Seq(QueueEvents) /\ inp \in Seq(Packets) /\ AtMost(q, Len(inp))
  BY DEF Typed
<1> QED
  BY Zenon, <1>1, TakenReady, HasTail DEF Rest

\* hw_timer_tick raises the interrupt: it is queued, or lost.
LEMMA TickWay == WayInv /\ Tick => WayInv'
<1> SUFFICES ASSUME WayInv, Tick PROVE WayInv'
  OBVIOUS
<1>1. Typed /\ q # <<>> /\ Head(q) = <<"tick">>
  BY DEF WayInv, Tick, At
<1> DEFINE i  == Irq_(irq_test, TRUE)
           q1 == IF Edges(g) # {} THEN Trigger(Rest, <<"gpio_evt">>) ELSE Rest
<1>2. /\ Rest \in Seq(QueueEvents) /\ Len(inp) \in Nat /\ AtMost(Rest, Len(inp))
      /\ Has(q, i) => Has(Rest, i)
      /\ Has(q, <<"request">>) => Has(Rest, <<"request">>)
  BY Zenon, <1>1, RestWay, EventsDiffer
<1>3. i \in QueueEvents \ {<<"data_ready">>} /\ <<"gpio_evt">> \in QueueEvents \ {<<"data_ready">>}
  BY Zenon, OtherEvents
<1>4. PICK due \in BOOLEAN :
         LET raise == due /\ irqt.enabled /\ ~irqt.active
         IN  /\ irqt' = hwtimer_evt_handle(due)
             /\ q' = IF raise THEN Trigger(q1, Irq_(irq_test, TRUE)) ELSE q1
             /\ lost' = IF raise /\ Full(q1) THEN lost \cup {irq_test} ELSE lost
  BY Zenon DEF Tick
<1> DEFINE raise == due /\ irqt.enabled /\ ~irqt.active
<1>5. UNCHANGED <<inp, to_host, host>>
  BY DEF Tick
<1>6. irqt \in [active : BOOLEAN, enabled : BOOLEAN]
  BY <1>1 DEF Typed
<1>7. /\ irqt' \in [active : BOOLEAN, enabled : BOOLEAN]
      /\ irqt'.active = (irqt.active \/ (due /\ irqt.enabled))
  BY <1>4, <1>6 DEF hwtimer_evt_handle
<1>70. irqt'.active => irqt.active \/ raise
  BY <1>7
<1> HIDE DEF i
<1>8. /\ q1 \in Seq(QueueEvents) /\ AtMost(q1, Len(inp))
      /\ Has(Rest, i) => Has(q1, i)
      /\ Has(Rest, <<"request">>) => Has(q1, <<"request">>)
  BY Zenon, <1>2, <1>3, Triggered, TriggeredReady
<1>9. q' = (IF raise THEN Trigger(q1, i) ELSE q1) /\ lost' = IF raise /\ Full(q1) THEN lost \cup {irq_test} ELSE lost
  BY <1>4 DEF i
<1> HIDE DEF q1, raise
<1>10. /\ q' \in Seq(QueueEvents) /\ AtMost(q', Len(inp))
       /\ Has(q1, i) => Has(q', i)
       /\ Has(q1, <<"request">>) => Has(q', <<"request">>)
  BY <1>2, <1>3, <1>8, <1>9, Triggered, TriggeredReady
<1>11. raise => irq_test \in lost' \/ Has(q', i)
  BY <1>3, <1>8, <1>9, Triggered
<1>12. lost \subseteq lost'
  BY <1>9
<1> QED
  BY Zenon, <1>2, <1>5, <1>7, <1>70, <1>8, <1>10, <1>11, <1>12, KeptWay DEF i

\* __gpio_evt_handle raises the interrupt of no function.
LEMMA GpioEvtWay == WayInv /\ GpioEvt => WayInv'
<1> SUFFICES ASSUME WayInv, GpioEvt PROVE WayInv'
  OBVIOUS
<1>1. Typed /\ q # <<>> /\ Head(q) = <<"gpio_evt">> /\ UNCHANGED <<inp, to_host, host, lost, irqt>>
  BY DEF WayInv, GpioEvt, At, hist
<1>2. /\ Rest \in Seq(QueueEvents) /\ Len(inp) \in Nat /\ AtMost(Rest, Len(inp))
      /\ Has(q, Irq_(irq_test, TRUE)) => Has(Rest, Irq_(irq_test, TRUE))
      /\ Has(q, <<"request">>) => Has(Rest, <<"request">>)
  BY Zenon, <1>1, RestWay, EventsDiffer
<1>3. PICK e \in QueueEvents \ {<<"data_ready">>} : q' = Trigger(Rest, e)
  <2>1. (g'.s.status # {}) \in BOOLEAN
    OBVIOUS
  <2>2. q' = Trigger(Rest, Irq_(NoFunction, g'.s.status # {}))
    BY Zenon DEF GpioEvt
  <2> QED
    BY Zenon, <2>1, <2>2, OtherEvents
<1>4. /\ q' \in Seq(QueueEvents) /\ AtMost(q', Len(inp))
      /\ Has(Rest, Irq_(irq_test, TRUE)) => Has(q', Irq_(irq_test, TRUE))
      /\ Has(Rest, <<"request">>) => Has(q', <<"request">>)
  BY Zenon, <1>2, <1>3, Triggered, TriggeredReady
<1>5. irqt' \in [active : BOOLEAN, enabled : BOOLEAN] /\ lost \subseteq lost' /\ (irqt'.active => irqt.active)
  BY <1>1 DEF Typed
<1> QED
  BY Zenon, <1>1, <1>2, <1>4, <1>5, KeptWay

\* Events from outside.
LEMMA OutsideWay == WayInv /\ (Timer \/ PinChanges \/ I2cIrq) => WayInv'
<1> SUFFICES ASSUME WayInv, Timer \/ PinChanges \/ I2cIrq PROVE WayInv'
  OBVIOUS
<1>1. Typed /\ UNCHANGED <<inp, to_host, host, lost, irqt>>
  BY Zenon DEF WayInv, Timer, PinChanges, I2cIrq, hist, regs
<1>2. q' = q \/ \E e \in QueueEvents \ {<<"data_ready">>} : q' = Trigger(q, e)
  <2>1. <<"tick">> \in QueueEvents \ {<<"data_ready">>} /\ Irq_(i2c, TRUE) \in QueueEvents \ {<<"data_ready">>}
    BY Zenon, OtherEvents
  <2> QED
    BY Zenon, <2>1 DEF Timer, PinChanges, I2cIrq
<1>3. CASE q' = q
  BY <1>1, <1>3, SameWay
<1>4. ASSUME NEW e \in QueueEvents \ {<<"data_ready">>}, q' = Trigger(q, e) PROVE WayInv'
  <2>0. q \in Seq(QueueEvents) /\ inp \in Seq(Packets) /\ AtMost(q, Len(inp)) /\ Len(inp) \in Nat
    BY <1>1, LenProperties DEF Typed
  <2>1. /\ q' \in Seq(QueueEvents) /\ AtMost(q', Len(inp))
        /\ Has(q, Irq_(irq_test, TRUE)) => Has(q', Irq_(irq_test, TRUE))
        /\ Has(q, <<"request">>) => Has(q', <<"request">>)
    BY Zenon, <1>4, <2>0, Triggered, TriggeredReady
  <2>2. irqt' \in [active : BOOLEAN, enabled : BOOLEAN] /\ lost \subseteq lost' /\ (irqt'.active => irqt.active)
    BY <1>1 DEF Typed
  <2> QED
    BY Zenon, <1>1, <2>1, <2>2, KeptWay
<1> QED
  BY <1>2, <1>3, <1>4

\* mcuio_irq_handle: the interrupt becomes a message, or another's message
\* takes the buffer.
LEMMA IrqWay == WayInv /\ Irq => WayInv'
<1> SUFFICES ASSUME WayInv, Irq PROVE WayInv'
  OBVIOUS
<1> DEFINE f == Head(q)[2]
           i == Irq_(irq_test, TRUE)
<1>1. Typed /\ q # <<>> /\ Head(q)[1] = "irq" /\ UNCHANGED <<inp, host, irqt>> /\ q \in Seq(QueueEvents)
  BY Zenon DEF WayInv, Irq, regs, Typed
<1>2. Head(q) # <<"request">> /\ Head(q) # <<"data_ready">>
  BY <1>1
<1>3. /\ Rest \in Seq(QueueEvents) /\ Len(inp) \in Nat /\ AtMost(Rest, Len(inp))
      /\ Head(q) # i /\ Has(q, i) => Has(Rest, i)
      /\ Has(q, <<"request">>) => Has(Rest, <<"request">>)
  <2>1. /\ Rest \in Seq(QueueEvents) /\ Len(inp) \in Nat /\ AtMost(Rest, Len(inp))
    BY Zenon, <1>1, TakenReady DEF Typed
  <2>2. Head(q) # i /\ Has(q, i) => Has(Rest, i)
    BY Zenon, <1>1, HasTail DEF Rest
  <2>3. Has(q, <<"request">>) => Has(Rest, <<"request">>)
    BY <1>1, <1>2, HasTail DEF Rest
  <2> QED
    BY Zenon, <2>1, <2>2, <2>3
<1>4. Head(q) = i => f = irq_test /\ Head(q)[3]
  <2>1. i[2] = irq_test
    BY DEF Irq_
  <2>2. i[3]
    BY DEF Irq_
  <2> HIDE DEF i
  <2> QED
    BY <2>1, <2>2
<1>5. CASE f > 31 \/ ~Head(q)[3]
  <2>1. q' = Rest /\ UNCHANGED <<to_host, lost>>
    BY <1>5 DEF Irq
  <2>2. Head(q) # i
    <3>1. ~(irq_test > 31)
      BY DEF irq_test
    <3> HIDE DEF i
    <3> QED
      BY <1>4, <1>5, <3>1
  <2>3. irqt' \in [active : BOOLEAN, enabled : BOOLEAN] /\ lost \subseteq lost' /\ (irqt'.active => irqt.active)
    BY <1>1, <2>1 DEF Typed
  <2> QED
    BY Zenon, <1>1, <1>3, <2>1, <2>2, <2>3, KeptWay
<1>6. CASE ~(f > 31 \/ ~Head(q)[3])
  <2>1. /\ to_host' = [to_host EXCEPT !["irqc"] = Message(f)]
        /\ q' = Trigger(Rest, <<"request">>)
        /\ lost' = lost \cup (Waiting \ {f}) \cup (IF Full(Rest) THEN {f} ELSE {})
    BY <1>6 DEF Irq
  <2>2. <<"request">> \in QueueEvents \ {<<"data_ready">>}
    BY Zenon, OtherEvents
  <2>3. /\ q' \in Seq(QueueEvents) /\ AtMost(q', Len(inp))
        /\ Has(Rest, i) => Has(q', i)
        /\ Has(Rest, <<"request">>) => Has(q', <<"request">>)
        /\ ~Full(Rest) => Has(q', <<"request">>)
    BY Zenon, <1>3, <2>1, <2>2, Triggered, TriggeredReady
  <2>4. PICK A : to_host \in [Runtimes -> A]
    BY Zenon, <1>1 DEF Typed
  <2>5. to_host'["irqc"] = Message(f) /\ to_host' \in [Runtimes -> A \cup {Message(f)}]
    BY <2>1, <2>4 DEF Runtimes
  <2>7. Typed'
    BY Zenon, <1>1, <2>3, <2>5 DEF Typed
  <2>8. InterruptOnItsWay'
    <3> SUFFICES ASSUME irqt.active
                 PROVE  OnWay(lost', host.told, q', to_host'["irqc"], inp)
      BY Zenon, <1>1 DEF InterruptOnItsWay, OnWay, Has, Queued
    <3>1. OnWay(lost, host.told, q, to_host["irqc"], inp)
      BY WayMeans DEF WayInv
    <3>2. CASE irq_test \in lost \cup host.told \/ Has(inp, StatusRead)
      BY Zenon, <2>1, <3>2 DEF OnWay
    <3>3. CASE f = irq_test
      BY Zenon, <2>1, <2>3, <2>5, <3>3 DEF OnWay
    <3>4. CASE f # irq_test /\ Has(q, i)
      BY Zenon, <1>3, <1>4, <2>3, <3>4 DEF OnWay
    <3>5. CASE f # irq_test /\ Has(q, <<"request">>) /\ to_host["irqc"] = Message(irq_test)
      <4>1. Message(irq_test).f = "host" /\ Message(irq_test).off = irq_test
        BY DEF Message, Packet
      <4>2. Waiting = {irq_test}
        BY <3>5, <4>1 DEF Waiting, Queued, Has
      <4> QED
        BY Zenon, <2>1, <3>5, <4>2 DEF OnWay
    <3> QED
      BY Zenon, <3>1, <3>2, <3>3, <3>4, <3>5 DEF OnWay
  <2> QED
    BY <2>7, <2>8 DEF WayInv
<1> QED
  BY <1>5, <1>6

\* mcuio_function_request_handle: the host is told what the buffer holds.
LEMMA FunctionRequestWay == WayInv /\ FunctionRequest => WayInv'
<1> SUFFICES ASSUME WayInv, FunctionRequest PROVE WayInv'
  OBVIOUS
<1> DEFINE i == Irq_(irq_test, TRUE)
           b == to_host["irqc"]
           told == IF b.f = "host" THEN host.told \cup {b.off} ELSE host.told
<1>1. Typed /\ q # <<>> /\ Head(q) = <<"request">> /\ UNCHANGED <<inp, to_host, irqt, lost>> /\ q' = Rest
  BY DEF WayInv, FunctionRequest, At, regs, hist
<1>2. /\ Rest \in Seq(QueueEvents) /\ Len(inp) \in Nat /\ AtMost(Rest, Len(inp))
      /\ Has(q, i) => Has(Rest, i)
  BY Zenon, <1>1, RestWay, EventsDiffer
<1>3. PICK T : host \in [todo : Seq(Requests), told : T]
  BY <1>1 DEF Typed
<1>4. host' = [host EXCEPT !.told = told]
  BY DEF FunctionRequest
<1> HIDE DEF told
<1>5. host' \in [todo : Seq(Requests), told : T \cup {told}] /\ host'.told = told
  BY <1>3, <1>4
<1>7. Typed'
  BY Zenon, <1>1, <1>2, <1>5 DEF Typed
<1>8. InterruptOnItsWay'
  <2> SUFFICES ASSUME irqt.active
               PROVE  OnWay(lost, told, q', to_host["irqc"], inp)
    BY Zenon, <1>1, <1>5 DEF InterruptOnItsWay, OnWay, Has, Queued
  <2>1. OnWay(lost, host.told, q, to_host["irqc"], inp)
    BY WayMeans DEF WayInv
  <2>2. host.told \subseteq told
    BY DEF told
  <2>3. b = Message(irq_test) => irq_test \in told
    <3>1. Message(irq_test).f = "host" /\ Message(irq_test).off = irq_test
      BY DEF Message, Packet
    <3> QED
      BY <3>1 DEF told
  <2> QED
    BY Zenon, <1>1, <1>2, <2>1, <2>2, <2>3 DEF OnWay
<1> QED
  BY <1>7, <1>8 DEF WayInv

\* The host's packets.
LEMMA AskWay ==
    ASSUME WayInv, NEW x \in Packets, Ask(x),
           NEW T, host' \in [todo : Seq(Requests), told : T],
           irq_test \in host.told => irq_test \in host'.told \/ x = StatusRead
    PROVE  WayInv'
<1> DEFINE i == Irq_(irq_test, TRUE)
<1>1. /\ Typed /\ inp' = Append(inp, x) /\ q' = Append(q, <<"data_ready">>)
      /\ UNCHANGED <<to_host, irqt, lost>> /\ q \in Seq(QueueEvents) /\ inp \in Seq(Packets)
  BY Zenon DEF WayInv, Ask, regs, hist, Typed
<1>2. <<"data_ready">> \in QueueEvents
  BY DEF QueueEvents
<1>3. /\ q' \in Seq(QueueEvents)
      /\ Has(q, i) => Has(q', i)
      /\ Has(q, <<"request">>) => Has(q', <<"request">>)
  BY Zenon, <1>1, <1>2, HasAppend
<1>4. inp' \in Seq(Packets) /\ Has(inp', x) /\ (Has(inp, StatusRead) => Has(inp', StatusRead))
  BY <1>1, HasAppend
<1>5. AtMost(q', Len(inp'))
  <2>1. Len(inp) \in Nat /\ AtMost(q, Len(inp)) /\ Len(inp') = Len(inp) + 1
    BY <1>1, LenProperties, AppendProperties DEF Typed
  <2>2. AtMost(q', Len(inp) + 1)
    BY Zenon, <1>1, <1>2, <2>1, AtMostAppend
  <2> QED
    BY <2>1, <2>2
<1>6. Typed'
  BY Zenon, <1>1, <1>3, <1>4, <1>5 DEF Typed
<1>7. InterruptOnItsWay'
  <2> SUFFICES ASSUME irqt.active
               PROVE  OnWay(lost, host'.told, q', to_host["irqc"], inp')
    BY Zenon, <1>1 DEF InterruptOnItsWay, OnWay, Has, Queued
  <2>1. OnWay(lost, host.told, q, to_host["irqc"], inp)
    BY WayMeans DEF WayInv
  <2> QED
    BY Zenon, <1>3, <1>4, <2>1 DEF OnWay
<1> QED
  BY <1>6, <1>7 DEF WayInv

\* The host makes a request, answers a message or reads the status.
LEMMA HostWay == WayInv /\ (HostAsks \/ HostAnswers \/ HostReadsStatus) => WayInv'
<1> SUFFICES ASSUME WayInv, HostAsks \/ HostAnswers \/ HostReadsStatus PROVE WayInv'
  OBVIOUS
<1>1. PICK T : host \in [todo : Seq(Requests), told : T]
  BY DEF WayInv, Typed
<1>2. CASE HostAsks
  <2> DEFINE x == Head(host.todo)
             s == Tail(host.todo)
  <2>1. host.todo # <<>> /\ Ask(x) /\ host' = [host EXCEPT !.todo = s]
    BY <1>2 DEF HostAsks
  <2>2. host.todo \in Seq(Requests)
    BY <1>1
  <2>3. x \in Requests /\ s \in Seq(Requests)
    BY <2>1, <2>2, HeadTailProperties
  <2> HIDE DEF x, s
  <2>4. host' \in [todo : Seq(Requests), told : T] /\ host'.told = host.told
    BY <1>1, <2>1, <2>3
  <2>5. x \in Packets
    BY <2>3 DEF Packets
  <2> QED
    BY <2>1, <2>4, <2>5, AskWay
<1>3. CASE HostAnswers
  <2> DEFINE u == host.told \ {i2c}
  <2>1. Ask(Reply) /\ host' = [host EXCEPT !.told = u] /\ Reply \in Packets
    BY <1>3 DEF HostAnswers, Packets, Reply
  <2>2. irq_test \in host.told => irq_test \in u
    BY DEF irq_test, i2c
  <2> HIDE DEF u
  <2>3. host' \in [todo : Seq(Requests), told : T \cup {u}] /\ host'.told = u
    BY <1>1, <2>1
  <2> QED
    BY Zenon, <2>1, <2>2, <2>3, AskWay
<1>4. CASE HostReadsStatus
  <2> DEFINE u == host.told \ {irq_test}
  <2>1. Ask(StatusRead) /\ host' = [host EXCEPT !.told = u]
    BY <1>4 DEF HostReadsStatus
  <2>2. StatusRead \in Packets
    BY StatusRange DEF Packets
  <2> HIDE DEF u
  <2>3. host' \in [todo : Seq(Requests), told : T \cup {u}]
    BY <1>1, <2>1
  <2> QED
    BY Zenon, <2>1, <2>2, <2>3, AskWay
<1> QED
  BY <1>2, <1>3, <1>4

\* Every step keeps the interrupt on its way.
LEMMA NextWay == WayInv /\ [Next]_vars => WayInv'
<1> SUFFICES ASSUME WayInv, [Next]_vars PROVE WayInv'
  OBVIOUS
<1>1. CASE Serve
  BY <1>1, RegistersWay, AnswersWay, IrqTestWay DEF Serve
<1>2. CASE Tick
  BY <1>2, TickWay
<1>3. CASE GpioEvt
  BY <1>3, GpioEvtWay
<1>4. CASE Irq
  BY <1>4, IrqWay
<1>5. CASE FunctionRequest
  BY <1>5, FunctionRequestWay
<1>6. CASE Timer \/ PinChanges \/ I2cIrq
  BY <1>6, OutsideWay
<1>7. CASE HostAsks \/ HostAnswers \/ HostReadsStatus
  BY <1>7, HostWay
<1>8. CASE UNCHANGED vars
  BY <1>8, SameWay DEF vars, regs, hist
<1> QED
  BY <1>1, <1>2, <1>3, <1>4, <1>5, <1>6, <1>7, <1>8 DEF Next, Handle

\* The invariant holds throughout.
LEMMA WayAlways == Spec => []WayInv
BY InitWay, NextWay, PTL DEF Spec

\* While the interrupt of the test function is active, the host knows of it or
\* it is on its way: as an event of the controller (mcuio_irq_handle), as the
\* message in the controller's one buffer, as the host's read of the status;
\* or the queue was full or the buffer was used again, and it is lost.  No
\* interleaving of the timer, the handlers and the host's requests forgets it.
THEOREM InterruptNotForgotten == Spec => []InterruptOnItsWay
<1>1. WayInv => InterruptOnItsWay
  BY DEF WayInv
<1> QED
  BY <1>1, WayAlways, PTL

-----------------------------------------------------------------------------
(* The timers of the pwm outputs.                                          *)

\* The registers of the outputs are a range of the pwm function alone.
LEMMA PwmRanges ==
    ASSUME Typed, Serving("pwm")
    PROVE  Req \in Requests /\ Req.f = "pwm" /\ Off \in 0 .. 383
<1> DEFINE R == Ranges(Req.f)
           i == lookup_range(R, Req)
<1>1. Req \in Requests /\ i > 0 /\ R[i].ops = "pwm" /\ Req.f # "none" /\ HasOp("pwm", Req)
  BY RequestThere DEF Serving
<1>2. Req.f \in Functions /\ Req.off \in Nat /\ Req.t \in 0 .. 7 /\ (Req.f = "pwm" => Req.off < 448)
  BY <1>1 DEF Requests
<1> HIDE DEF R
<1>3. CASE Req.f = "pwm"
  <2>1. R = << Range_(0, 8, "ro"), Range_(8, 4, "ro"), Range_(64, 4032, "pwm") >>
    BY <1>3 DEF R, Ranges, pwm_ranges
  <2>2. DOMAIN R = 1 .. 3 /\ R[1].ops # "pwm" /\ R[2].ops # "pwm" /\ R[3].start = 64
    BY <2>1 DEF Range_
  <2>3. i \in 1 .. 3 /\ Req.off >= R[i].start
    <3>1. i # 0 /\ DOMAIN R = 1 .. 3 /\ 3 \in 0 .. 11
      BY <1>1, <2>2
    <3> QED
      BY Zenon, <3>1, RangeFound
  <2> HIDE DEF i
  <2>4. i = 3
    BY <1>1, <2>2, <2>3
  <2>5. Off = Req.off - 64
    BY <2>2, <2>4 DEF Off, R, i
  <2>6. Off \in 0 .. 383
    BY <1>2, <1>3, <2>2, <2>3, <2>4, <2>5
  <2> QED
    BY <1>1, <1>3, <2>6
<1>4. CASE Req.f = "gpio"
  <2>1. DOMAIN R = 1 .. 11 /\ \A k \in 1 .. 11 : R[k].ops # "pwm"
    BY <1>4 DEF R, Ranges, gpio_ranges, Range_
  <2>2. i \in 1 .. 11
    <3>1. i # 0 /\ DOMAIN R = 1 .. 11 /\ 11 \in 0 .. 11
      BY <1>1, <2>1
    <3> QED
      BY Zenon, <3>1, RangeFound
  <2> QED
    BY <1>1, <2>1, <2>2
<1>5. CASE Req.f \in Functions \ {"gpio", "pwm"}
  <2>1. \E n \in 1 .. 5 : DOMAIN R = 1 .. n /\ \A k \in 1 .. n : R[k].ops # "pwm"
    <3>1. CASE Req.f = "adc"
      <4>1. DOMAIN R = 1 .. 5 /\ \A k \in 1 .. 5 : R[k].ops # "pwm"
        BY <3>1 DEF R, Ranges, adc_ranges, Range_
      <4> QED
        BY <4>1
    <3>2. CASE Req.f = "irq_test"
      <4>1. DOMAIN R = 1 .. 2 /\ \A k \in 1 .. 2 : R[k].ops # "pwm"
        BY <3>2 DEF R, Ranges, irq_test_ranges, Range_
      <4> QED
        BY <4>1
    <3>3. CASE Req.f \in {"irqc", "js"}
      <4>1. DOMAIN R = 1 .. 1 /\ \A k \in 1 .. 1 : R[k].ops # "pwm"
        BY <3>3 DEF R, Ranges, irq_controller_msg_ranges, js_ranges, Range_
      <4> QED
        BY <4>1
    <3>4. CASE Req.f = "zero"
      <4>1. DOMAIN R = 1 .. 3 /\ \A k \in 1 .. 3 : R[k].ops # "pwm"
        BY <3>4 DEF R, Ranges, zero_ranges, Range_
      <4> QED
        BY <4>1
    <3> QED
      BY <1>5, <3>1, <3>2, <3>3, <3>4 DEF Functions
  <2>2. PICK n \in 1 .. 5 : DOMAIN R = 1 .. n /\ \A k \in 1 .. n : R[k].ops # "pwm"
    BY <2>1
  <2>3. i \in 1 .. n
    <3>1. i # 0 /\ n \in 0 .. 11
      BY <1>1
    <3> QED
      BY Zenon, <2>2, <3>1, RangeFound
  <2> QED
    BY <1>1, <2>2, <2>3
<1> QED
  BY <1>2, <1>3, <1>4, <1>5

\* A record of the outputs; what the registers hold does not matter.
PwmRecords(S) ==
    [stat : SUBSET Outputs, orig : S, t_ref : [Outputs -> Int], run : SUBSET Outputs,
     pol : S, period : S, duty : S]

\* Output 0 is the one that has a timer, and the timer's number, for itself.
OwnTimer(v) ==
    /\ v.t_ref[0] = IF 0 \in v.stat THEN 1 ELSE 0
    /\ 0 \in v.stat <=> 0 \in v.run

\* Timer 0 is that of output 0 alone.
LEMMA OutputTable ==
    /\ \A id \in Outputs : pwms[id].tim \in Outputs /\ (pwms[id].tim = 0 <=> id = 0)
    /\ pwms[1].tim = 1 /\ pwms[2].tim = 1 /\ pwms[3].tim = 1 /\ pwms[4].tim = 3 /\ pwms[5].tim = 4
BY DEF pwms, Out, Outputs

\* Output 0 is the one output that has its timer, and the timer's number, for
\* itself.
LEMMA OwnTimerOfZero ==
    ASSUME NEW id \in Outputs, \A o \in Outputs : (pwms[o].tim = id) = (o = id)
    PROVE  id = 0
<1>1. id # 1
  <2>1. 2 \in Outputs
    BY DEF Outputs
  <2> QED
    BY <2>1, OutputTable
<1>2. pwms[id].tim = id
  OBVIOUS
<1> QED
  BY <1>1, <1>2, OutputTable DEF Outputs

\* pwm_en: check_init_timer starts the timer of an output that was not enabled.
LEMMA TimerEnabled ==
    ASSUME NEW S, NEW v \in PwmRecords(S), OwnTimer(v), NEW id \in Outputs, NEW ddr
    PROVE  (\E R : pwm_en(v, id, ddr) \in PwmRecords(R)) /\ OwnTimer(pwm_en(v, id, ddr))
<1> DEFINE t == pwms[id].tim
           u == check_init_timer(v, id)
           n == IF pwms[id].gpio \in ddr THEN u.orig \cup {id} ELSE u.orig \ {id}
           x == [u EXCEPT !.orig = n, !.stat = @ \cup {id}]
<1>1. t \in Outputs /\ (t = 0 <=> id = 0) /\ 0 \in Outputs
  BY OutputTable DEF Outputs
<1> HIDE DEF t
<1>2. (\E R : u \in PwmRecords(R)) /\ u.stat = v.stat
      /\ (u.t_ref[0] = IF id = 0 \/ 0 \in v.stat THEN 1 ELSE 0)
      /\ (0 \in u.run <=> id = 0 \/ 0 \in v.run)
  <2>1. CASE v.t_ref[t] = 0
    <3> DEFINE a == [v EXCEPT !.t_ref[t] = 1]
               p == [a.period EXCEPT ![t] = IF t \in {1, 3} THEN 39999 ELSE a.period[t]]
               b == [a EXCEPT !.run = @ \cup {t}, !.period = p]
    <3>1. u = b
      BY <2>1 DEF check_init_timer, init_timer, t
    <3>2. a \in PwmRecords(S) /\ a.t_ref = [v.t_ref EXCEPT ![t] = 1] /\ a.stat = v.stat /\ a.run = v.run
      BY <1>1 DEF PwmRecords
    <3> HIDE DEF a, p
    <3>3. b \in PwmRecords(S \cup {p}) /\ b.t_ref = a.t_ref /\ b.stat = a.stat /\ b.run = a.run \cup {t}
      BY Zenon, <1>1, <3>2 DEF PwmRecords
    <3>4. v.t_ref \in [Outputs -> Int]
      BY DEF PwmRecords
    <3> HIDE DEF b, u
    <3> QED
      BY <1>1, <2>1, <3>1, <3>2, <3>3, <3>4 DEF OwnTimer
  <2>2. CASE v.t_ref[t] # 0 /\ t \notin v.stat
    <3> DEFINE m == (v.t_ref[t] + 1) % 256
               a == [v EXCEPT !.t_ref[t] = m]
    <3>1. u = a
      BY <2>2 DEF check_init_timer, t
    <3>2. v.t_ref \in [Outputs -> Int] /\ v.t_ref[t] \in Int
      BY <1>1 DEF PwmRecords
    <3>3. m \in Int
      BY <3>2
    <3> HIDE DEF m
    <3>4. a \in PwmRecords(S) /\ a.t_ref = [v.t_ref EXCEPT ![t] = m] /\ a.stat = v.stat /\ a.run = v.run
      BY <1>1, <3>3 DEF PwmRecords
    <3>5. t # 0
      BY <2>2 DEF OwnTimer
    <3> HIDE DEF a, u
    <3> QED
      BY <1>1, <3>1, <3>2, <3>4, <3>5 DEF OwnTimer
  <2>3. CASE v.t_ref[t] # 0 /\ t \in v.stat
    <3>1. u = v
      BY <2>3 DEF check_init_timer, t
    <3> HIDE DEF u
    <3> QED
      BY <1>1, <2>3, <3>1 DEF OwnTimer
  <2> QED
    BY <2>1, <2>2, <2>3
<1>3. pwm_en(v, id, ddr) = x
  BY DEF pwm_en
<1> HIDE DEF u, n
<1>4. PICK R : u \in PwmRecords(R)
  BY <1>2
<1>5. x \in PwmRecords(R \cup {n}) /\ x.t_ref = u.t_ref /\ x.run = u.run /\ x.stat = u.stat \cup {id}
  BY Zenon, <1>4 DEF PwmRecords
<1> HIDE DEF x
<1>6. OwnTimer(x)
  BY <1>2, <1>5 DEF OwnTimer
<1> QED
  BY <1>3, <1>5, <1>6

\* pwm_dis: check_deinit_timer stops the timer of the last output that used it.
LEMMA TimerDisabled ==
    ASSUME NEW S, NEW v \in PwmRecords(S), OwnTimer(v), NEW id \in Outputs
    PROVE  (\E R : pwm_dis(v, id) \in PwmRecords(R)) /\ OwnTimer(pwm_dis(v, id))
<1> DEFINE t == pwms[id].tim
           m == (v.t_ref[id] - 1) % 256
           a == IF id \in v.stat THEN [v EXCEPT !.t_ref[id] = m] ELSE v
           u == check_deinit_timer(v, id)
           x == [u EXCEPT !.stat = @ \ {id}]
<1>1. t \in Outputs /\ (t = 0 <=> id = 0) /\ 0 \in Outputs
  BY OutputTable DEF Outputs
<1>2. v.t_ref \in [Outputs -> Int] /\ v.t_ref[id] \in Int
  BY DEF PwmRecords
<1>3. m \in Int /\ (v.t_ref[id] = 1 => m = 0)
  BY <1>2
<1>4. u = IF a.t_ref[id] = 0 THEN deinit_timer(a, t) ELSE a
  BY DEF check_deinit_timer
<1>5. pwm_dis(v, id) = x
  BY DEF pwm_dis
<1> HIDE DEF t, m, u
<1>6. /\ a \in PwmRecords(S) /\ a.stat = v.stat /\ a.run = v.run
      /\ a.t_ref = IF id \in v.stat THEN [v.t_ref EXCEPT ![id] = m] ELSE v.t_ref
  BY <1>3 DEF PwmRecords
<1> HIDE DEF a
<1>7. a.t_ref[0] = IF 0 \in v.stat /\ id # 0 THEN 1 ELSE 0
  BY <1>1, <1>2, <1>3, <1>6 DEF OwnTimer
<1>8. (\E R : u \in PwmRecords(R)) /\ u.stat = v.stat /\ u.t_ref = a.t_ref
      /\ (0 \in u.run <=> id # 0 /\ 0 \in v.run)
  <2>1. CASE a.t_ref[id] = 0
    <3> DEFINE p == [a.period EXCEPT ![t] = IF t \in {1, 3} THEN 0 ELSE a.period[t]]
               b == [a EXCEPT !.run = @ \ {t}, !.period = p]
    <3>1. u = b
      BY <1>4, <2>1 DEF deinit_timer
    <3> HIDE DEF p
    <3>2. b \in PwmRecords(S \cup {p}) /\ b.t_ref = a.t_ref /\ b.stat = a.stat /\ b.run = a.run \ {t}
      BY Zenon, <1>6 DEF PwmRecords
    <3> HIDE DEF b
    <3> QED
      BY <1>1, <1>6, <3>1, <3>2
  <2>2. CASE a.t_ref[id] # 0
    <3>1. u = a
      BY <1>4, <2>2
    <3>2. id # 0
      BY <1>7, <2>2
    <3> QED
      BY <1>6, <3>1, <3>2
  <2> QED
    BY <2>1, <2>2
<1>9. PICK R : u \in PwmRecords(R)
  BY <1>8
<1>10. x \in PwmRecords(R) /\ x.t_ref = u.t_ref /\ x.run = u.run /\ x.stat = u.stat \ {id}
  BY <1>9 DEF PwmRecords
<1> HIDE DEF x
<1>11. OwnTimer(x)
  BY <1>7, <1>8, <1>10 DEF OwnTimer
<1> QED
  BY <1>5, <1>10, <1>11

\* The other registers of an output.
LEMMA OtherRegisters ==
    ASSUME NEW S, NEW v \in PwmRecords(S), OwnTimer(v), NEW id, NEW val, NEW inv
    PROVE  /\ (\E R : set_polarity(v, id, inv) \in PwmRecords(R)) /\ OwnTimer(set_polarity(v, id, inv))
           /\ (\E R : set_period(v, id, val) \in PwmRecords(R)) /\ OwnTimer(set_period(v, id, val))
           /\ (\E R : set_duty(v, id, val) \in PwmRecords(R)) /\ OwnTimer(set_duty(v, id, val))
<1> DEFINE a == IF inv THEN v.pol \cup {id} ELSE v.pol \ {id}
           b == [v.period EXCEPT ![pwms[id].tim] = Less(id, val)]
           c == [v.duty EXCEPT ![id] = Less(id, val)]
           x == [v EXCEPT !.pol = a]
           y == [v EXCEPT !.period = b]
           z == [v EXCEPT !.duty = c]
<1>1. set_polarity(v, id, inv) = x /\ set_period(v, id, val) = y /\ set_duty(v, id, val) = z
  BY DEF set_polarity, set_period, set_duty
<1> HIDE DEF a, b, c
<1>2. x \in PwmRecords(S \cup {a}) /\ x.stat = v.stat /\ x.run = v.run /\ x.t_ref = v.t_ref
  BY DEF PwmRecords
<1>3. y \in PwmRecords(S \cup {b}) /\ y.stat = v.stat /\ y.run = v.run /\ y.t_ref = v.t_ref
  BY DEF PwmRecords
<1>4. z \in PwmRecords(S \cup {c}) /\ z.stat = v.stat /\ z.run = v.run /\ z.t_ref = v.t_ref
  BY DEF PwmRecords
<1> HIDE DEF x, y, z
<1>5. OwnTimer(x) /\ OwnTimer(y) /\ OwnTimer(z)
  BY <1>2, <1>3, <1>4 DEF OwnTimer
<1> QED
  BY <1>1, <1>2, <1>3, <1>4, <1>5

\* pwm_ctrl_wrdw
LEMMA OutputWritten ==
    ASSUME NEW S, NEW v \in PwmRecords(S), OwnTimer(v), NEW off \in 0 .. 383, NEW val, NEW ddr
    PROVE  LET u == pwm_ctrl_wrdw(v, off, val, ddr).w
           IN  (\E R : u \in PwmRecords(R)) /\ OwnTimer(u)
<1> DEFINE id == Idx(off)
           on == val % 2 = 1
           inv == (val \div 2) % 2 = 1
           e == IF on THEN pwm_en(v, id, ddr) ELSE pwm_dis(v, id)
           u == pwm_ctrl_wrdw(v, off, val, ddr).w
<1> SUFFICES (\E R : u \in PwmRecords(R)) /\ OwnTimer(u)
  OBVIOUS
<1>1. id \in Outputs
  BY DEF Idx, Outputs
<1> HIDE DEF id
<1>2. (\E R : e \in PwmRecords(R)) /\ OwnTimer(e)
  BY <1>1, TimerEnabled, TimerDisabled
<1>3. \/ u = set_polarity(e, id, inv)
      \/ u = set_period(v, id, val)
      \/ u = set_duty(v, id, val)
      \/ u = v
  BY DEF pwm_ctrl_wrdw, id
<1> HIDE DEF e, u, inv
<1>4. CASE u = set_polarity(e, id, inv)
  BY <1>2, <1>4, OtherRegisters
<1>5. CASE u = set_period(v, id, val)
  BY <1>5, OtherRegisters
<1>6. CASE u = set_duty(v, id, val)
  BY <1>6, OtherRegisters
<1> QED
  BY <1>3, <1>4, <1>5, <1>6

TimerInv == (\E S : w \in PwmRecords(S)) /\ OwnTimer(w)

\* At the start no timer runs.
LEMMA InitTimers == Init => TimerInv
<1> SUFFICES ASSUME Init PROVE TimerInv
  OBVIOUS
<1> DEFINE z == [i \in Outputs |-> 0]
<1>1. /\ w.stat = {} /\ w.t_ref = z /\ w.run = {}
      /\ w \in [stat : {{}}, orig : {{}}, t_ref : {z}, run : {{}}, pol : {{}}, period : {z}, duty : {z}]
  BY DEF Init, PwmInit
<1>2. z \in [Outputs -> Int] /\ z[0] = 0
  BY DEF Outputs
<1> HIDE DEF z
<1>3. w \in PwmRecords({{}, z})
  BY <1>1, <1>2 DEF PwmRecords
<1>4. OwnTimer(w)
  BY <1>1, <1>2 DEF OwnTimer
<1> QED
  BY <1>3, <1>4 DEF TimerInv

\* Only a write to a pwm register changes the timers.
LEMMA NextTimers == WayInv /\ TimerInv /\ [Next]_vars => TimerInv'
<1> SUFFICES ASSUME WayInv, TimerInv, [Next]_vars PROVE TimerInv'
  OBVIOUS
<1>1. w' = w \/ ServePwm
  BY Zenon DEF Next, Handle, Serve, ServeRo, ServeZero, ServeGpio, ServeGpioSet, ServeGpioStatus, ServeAdc,
         ServeIrqTest, ServeNoOp, ServeNoRange, ServeNoFunction, ReplyReceived, Tick, GpioEvt, Irq,
         FunctionRequest, Timer, PinChanges, I2cIrq, HostAsks, HostAnswers, HostReadsStatus, Ask, vars, regs
<1>2. CASE w' = w
  BY <1>2 DEF TimerInv
<1>3. CASE ServePwm
  <2>1. Off \in 0 .. 383
    BY <1>3, PwmRanges DEF ServePwm, WayInv
  <2>2. w' = w \/ w' = pwm_ctrl_wrdw(w, Off, Value(Req.data), g.DDR).w
    BY <1>3 DEF ServePwm
  <2>3. CASE w' = pwm_ctrl_wrdw(w, Off, Value(Req.data), g.DDR).w
    <3> DEFINE o == Off
               val == Value(Req.data)
               ddr == g.DDR
    <3>1. w' = pwm_ctrl_wrdw(w, o, val, ddr).w /\ o \in 0 .. 383
      BY <2>1, <2>3
    <3> HIDE DEF o, val, ddr
    <3> QED
      BY ZenonT(40), <3>1, OutputWritten DEF TimerInv
  <2> QED
    BY <1>2, <2>2, <2>3
<1> QED
  BY <1>1, <1>2, <1>3

\* An output that has its timer for itself, and the timer's number, has a timer
\* that runs just while the output is enabled (check_init_timer,
\* check_deinit_timer): whatever the host writes to the registers of any
\* output, and in whatever order, the counts of the other outputs, which mix
\* timers and outputs, never stop it or keep it running.
THEOREM TimersRun == Spec => []OwnTimerRuns
<1>1. TimerInv => OwnTimerRuns
  BY OwnTimerOfZero DEF TimerInv, OwnTimer, OwnTimerRuns
<1>2. Spec => []TimerInv
  BY InitTimers, NextTimers, WayAlways, PTL DEF Spec
<1> QED
  BY <1>1, <1>2, PTL

-----------------------------------------------------------------------------
(* The edges that the host is told of                                      *)

\* The tables of ranges.
LEMMA RangeTables ==
    ASSUME NEW f \in Functions
    PROVE  \E n \in 1 .. 11 : DOMAIN Ranges(f) = 1 .. n /\ \A k \in 1 .. n : Ranges(f)[k].start \in Nat
<1>1. CASE f = "gpio"
  <2>1. DOMAIN Ranges(f) = 1 .. 11 /\ \A k \in 1 .. 11 : Ranges(f)[k].start \in Nat
    BY <1>1 DEF Ranges, gpio_ranges, Range_
  <2> QED
    BY <2>1
<1>2. CASE f = "adc"
  <2>1. DOMAIN Ranges(f) = 1 .. 5 /\ \A k \in 1 .. 5 : Ranges(f)[k].start \in Nat
    BY <1>2 DEF Ranges, adc_ranges, Range_
  <2> QED
    BY <2>1
<1>3. CASE f = "irq_test"
  <2>1. DOMAIN Ranges(f) = 1 .. 2 /\ \A k \in 1 .. 2 : Ranges(f)[k].start \in Nat
    BY <1>3 DEF Ranges, irq_test_ranges, Range_
  <2> QED
    BY <2>1
<1>4. CASE f \in {"irqc", "js"}
  <2>1. DOMAIN Ranges(f) = 1 .. 1 /\ \A k \in 1 .. 1 : Ranges(f)[k].start \in Nat
    BY <1>4 DEF Ranges, irq_controller_msg_ranges, js_ranges, Range_
  <2> QED
    BY <2>1
<1>5. CASE f \in {"zero", "pwm"}
  <2>1. DOMAIN Ranges(f) = 1 .. 3 /\ \A k \in 1 .. 3 : Ranges(f)[k].start \in Nat
    BY <1>5 DEF Ranges, zero_ranges, pwm_ranges, Range_
  <2> QED
    BY <2>1
<1> QED
  BY Zenon, <1>1, <1>2, <1>3, <1>4, <1>5 DEF Functions

\* Where a range is found for a request, the offset in it is a number.
LEMMA OffsetThere ==
    ASSUME Typed, At(<<"data_ready">>), ~Req.rep, Req.f # "none", lookup_range(Ranges(Req.f), Req) # 0
    PROVE  Req \in Requests /\ Off \in Nat
<1> DEFINE R == Ranges(Req.f)
           i == lookup_range(R, Req)
<1>1. Req \in Requests
  BY RequestThere
<1>2. Req.f \in Functions /\ Req.off \in Nat
  BY <1>1 DEF Requests
<1>3. PICK n \in 1 .. 11 : DOMAIN R = 1 .. n /\ \A k \in 1 .. n : R[k].start \in Nat
  BY <1>2, RangeTables
<1>4. i # 0 /\ n \in 0 .. 11
  OBVIOUS
<1> HIDE DEF R
<1>5. i \in 1 .. n /\ Req.off >= R[i].start
  BY Zenon, <1>3, <1>4, RangeFound
<1>6. Off = Req.off - R[i].start
  BY DEF Off, R
<1> HIDE DEF i
<1>7. Off \in Nat
  BY <1>2, <1>3, <1>5, <1>6
<1> QED
  BY <1>1, <1>7

\* A bit of a byte of eight gpios is set where the gpio is.
LEMMA ByteBit ==
    ASSUME NEW set, NEW first \in Int, NEW j \in 0 .. 7, first + j \in set
    PROVE  (Byte(set, first) \div 2 ^ j) % 2 = 1
<1> DEFINE bit(k) == IF first + k \in set THEN 2 ^ k ELSE 0
           c(k) == IF first + k \in set THEN 1 ELSE 0
           x == c(0) + 2 * c(1) + 4 * c(2) + 8 * c(3) + 16 * c(4) + 32 * c(5) + 64 * c(6) + 128 * c(7)
<1>1. 2 ^ 0 = 1 /\ 2 ^ 1 = 2 /\ 2 ^ 2 = 4 /\ 2 ^ 3 = 8 /\ 2 ^ 4 = 16 /\ 2 ^ 5 = 32 /\ 2 ^ 6 = 64 /\ 2 ^ 7 = 128
  OBVIOUS
<1>2. /\ bit(0) = c(0) /\ bit(1) = 2 * c(1) /\ bit(2) = 4 * c(2) /\ bit(3) = 8 * c(3)
      /\ bit(4) = 16 * c(4) /\ bit(5) = 32 * c(5) /\ bit(6) = 64 * c(6) /\ bit(7) = 128 * c(7)
  BY <1>1
<1>3. Byte(set, first) = bit(0) + bit(1) + bit(2) + bit(3) + bit(4) + bit(5) + bit(6) + bit(7)
  BY DEF Byte
<1> HIDE DEF bit
<1>4. Byte(set, first) = x
  BY <1>2, <1>3
<1>5. \A k \in 0 .. 7 : c(k) \in 0 .. 1
  OBVIOUS
<1>6. c(j) = 1
  OBVIOUS
<1> HIDE DEF c
<1>7. CASE j = 0
  <2>1. (x \div 1) % 2 = 1
    BY <1>5, <1>6, <1>7
  <2> QED
    BY <1>1, <1>4, <1>7, <2>1
<1>8. CASE j = 1
  <2>1. (x \div 2) % 2 = 1
    BY <1>5, <1>6, <1>8
  <2> QED
    BY <1>1, <1>4, <1>8, <2>1
<1>9. CASE j = 2
  <2>1. (x \div 4) % 2 = 1
    BY <1>5, <1>6, <1>9
  <2> QED
    BY <1>1, <1>4, <1>9, <2>1
<1>10. CASE j = 3
  <2>1. (x \div 8) % 2 = 1
    BY <1>5, <1>6, <1>10
  <2> QED
    BY <1>1, <1>4, <1>10, <2>1
<1>11. CASE j = 4
  <2>1. (x \div 16) % 2 = 1
    BY <1>5, <1>6, <1>11
  <2> QED
    BY <1>1, <1>4, <1>11, <2>1
<1>12. CASE j = 5
  <2>1. (x \div 32) % 2 = 1
    BY <1>5, <1>6, <1>12
  <2> QED
    BY <1>1, <1>4, <1>12, <2>1
<1>13. CASE j = 6
  <2>1. (x \div 64) % 2 = 1
    BY <1>5, <1>6, <1>13
  <2> QED
    BY <1>1, <1>4, <1>13, <2>1
<1>14. CASE j = 7
  <2>1. (x \div 128) % 2 = 1
    BY <1>5, <1>6, <1>14
  <2> QED
    BY <1>1, <1>4, <1>14, <2>1
<1> QED
  BY <1>7, <1>8, <1>9, <1>10, <1>11, <1>12, <1>13, <1>14

\* Put replaces the first bytes and leaves the others.
LEMMA PutBytes ==
    ASSUME NEW A, NEW data \in Seq(A), NEW bytes \in Seq(A)
    PROVE  /\ Put(data, bytes) \in Seq(A)
           /\ \A k \in 1 .. Len(bytes) : Put(data, bytes)[k] = bytes[k]
           /\ Len(bytes) <= Len(data) =>
                 /\ Len(Put(data, bytes)) = Len(data)
                 /\ \A k \in Len(bytes) + 1 .. Len(data) : Put(data, bytes)[k] = data[k]
<1> DEFINE n == Len(bytes)
           rest == SubSeq(data, n + 1, Len(data))
<1>1. n \in Nat /\ Len(data) \in Nat
  BY LenProperties
<1>2. rest \in Seq(A)
  <2>1. \A k \in n + 1 .. Len(data) : data[k] \in A
    BY <1>1, ElementOfSeq
  <2> QED
    BY <1>1, <2>1, SubSeqProperties
<1>3. n <= Len(data) => Len(rest) = Len(data) - n /\ \A k \in 1 .. Len(data) - n : rest[k] = data[n + k]
  <2> SUFFICES ASSUME n <= Len(data)
               PROVE  Len(rest) = Len(data) - n /\ \A k \in 1 .. Len(data) - n : rest[k] = data[n + k]
    OBVIOUS
  <2>1. \A k \in n + 1 .. Len(data) : data[k] \in A
    BY <1>1, ElementOfSeq
  <2>2. /\ Len(rest) = IF n + 1 <= Len(data) THEN Len(data) - (n + 1) + 1 ELSE 0
        /\ \A k \in 1 .. Len(data) - (n + 1) + 1 : rest[k] = data[(n + 1) + k - 1]
    BY <1>1, <2>1, SubSeqProperties
  <2> HIDE DEF n, rest
  <2> QED
    BY <1>1, <2>2
<1> HIDE DEF rest
<1>4. Put(data, bytes) = bytes \o rest
  BY DEF Put, rest
<1>5. /\ bytes \o rest \in Seq(A) /\ Len(bytes \o rest) = n + Len(rest)
      /\ \A k \in 1 .. n + Len(rest) : (bytes \o rest)[k] = IF k <= n THEN bytes[k] ELSE rest[k - n]
  BY <1>2, ConcatProperties
<1> HIDE DEF n
<1>6. Len(rest) \in Nat
  BY <1>2, LenProperties
<1>7. \A k \in 1 .. n : (bytes \o rest)[k] = bytes[k]
  BY <1>1, <1>5, <1>6
<1>8. ASSUME n <= Len(data), NEW k \in n + 1 .. Len(data)
      PROVE  (bytes \o rest)[k] = data[k]
  <2>1. k \in 1 .. n + Len(rest) /\ ~(k <= n) /\ k - n \in 1 .. Len(data) - n /\ n + (k - n) = k
    BY <1>1, <1>3, <1>8
  <2> QED
    BY <1>3, <1>5, <1>8, <2>1
<1>9. n <= Len(data) => Len(bytes \o rest) = Len(data)
  BY <1>1, <1>3, <1>5
<1> QED
  BY <1>4, <1>5, <1>7, <1>8, <1>9 DEF n

\* A byte of gpios is a number.
LEMMA ByteNumber == ASSUME NEW set, NEW first PROVE Byte(set, first) \in Nat
<1> DEFINE bit(k) == IF first + k \in set THEN 2 ^ k ELSE 0
<1>1. 2 ^ 0 = 1 /\ 2 ^ 1 = 2 /\ 2 ^ 2 = 4 /\ 2 ^ 3 = 8 /\ 2 ^ 4 = 16 /\ 2 ^ 5 = 32 /\ 2 ^ 6 = 64 /\ 2 ^ 7 = 128
  OBVIOUS
<1>2. /\ bit(0) \in Nat /\ bit(1) \in Nat /\ bit(2) \in Nat /\ bit(3) \in Nat
      /\ bit(4) \in Nat /\ bit(5) \in Nat /\ bit(6) \in Nat /\ bit(7) \in Nat
  BY <1>1
<1>3. Byte(set, first) = bit(0) + bit(1) + bit(2) + bit(3) + bit(4) + bit(5) + bit(6) + bit(7)
  BY DEF Byte
<1> HIDE DEF bit
<1> QED
  BY <1>2, <1>3

\* A read of the status tells of the gpios whose bits it clears.
LEMMA StatusTold ==
    ASSUME NEW set, NEW off \in Nat, NEW n \in {1, 4}, NEW data \in Seq(Nat), NEW x \in Int, x \in set
    PROVE  x \in Span(off, n) <=>
               x \in DataBits(Put(data, StatusBytes({y - 8 * off : y \in set}, n)), 8 * off, n)
<1> DEFINE shifted == {y - 8 * off : y \in set}
           bytes == StatusBytes(shifted, n)
           d == Put(data, bytes)
           first == 8 * off
<1>0. x - 8 * off \in shifted
  OBVIOUS
<1> HIDE DEF shifted
<1>1. bytes \in Seq(Nat) /\ Len(bytes) = n /\ \A k \in 1 .. n : bytes[k] = Byte(shifted, 8 * (k - 1))
  <2>1. bytes = [k \in 1 .. n |-> Byte(shifted, 8 * (k - 1))]
    BY DEF StatusBytes
  <2>2. \A k \in 1 .. n : Byte(shifted, 8 * (k - 1)) \in Nat
    BY ByteNumber
  <2>3. bytes \in [1 .. n -> Nat] /\ n \in Nat
    BY <2>1, <2>2
  <2> HIDE DEF bytes
  <2>4. bytes \in Seq(Nat) /\ Len(bytes) = n
    BY <2>3
  <2> QED
    BY <2>1, <2>4
<1> HIDE DEF bytes
<1>2. \A k \in 1 .. n : d[k] = Byte(shifted, 8 * (k - 1))
  <2>1. \A k \in 1 .. Len(bytes) : Put(data, bytes)[k] = bytes[k]
    BY <1>1, PutBytes
  <2> QED
    BY <1>1, <2>1
<1> HIDE DEF d
<1>3. x \in DataBits(d, first, n) <=>
          \E k \in 1 .. n : \E j \in 0 .. 7 :
             (d[k] \div 2 ^ j) % 2 = 1 /\ x = first + 8 * (k - 1) + j
  <2> DEFINE B(k) == Bits(d[k], first + 8 * (k - 1))
             P(k, j) == (d[k] \div 2 ^ j) % 2 = 1
  <2>1. DataBits(d, first, n) = UNION {B(k) : k \in 1 .. n}
    BY DEF DataBits
  <2>2. \A k : B(k) = {first + 8 * (k - 1) + j : j \in {i \in 0 .. 7 : P(k, i)}}
    BY DEF Bits
  <2> HIDE DEF B, P
  <2>3. \A k : x \in B(k) <=> \E j \in 0 .. 7 : P(k, j) /\ x = first + 8 * (k - 1) + j
    BY Zenon, <2>2
  <2>4. x \in DataBits(d, first, n) <=> \E k \in 1 .. n : x \in B(k)
    BY Zenon, <2>1
  <2> QED
    BY Zenon, <2>3, <2>4 DEF P
<1>4. Span(off, n) = first .. first + 8 * n - 1
  BY DEF Span
<1>5. ASSUME x \in Span(off, n)
      PROVE  x \in DataBits(d, first, n)
  <2> DEFINE y == x - first
             k == y \div 8 + 1
             j == y % 8
  <2>1. x \in Int /\ first \in Int /\ y \in 0 .. 8 * n - 1
    BY <1>4, <1>5
  <2>2. k \in 1 .. n /\ j \in 0 .. 7 /\ y = 8 * (k - 1) + j
    BY <2>1
  <2> HIDE DEF k, j
  <2>4. x = first + 8 * (k - 1) + j /\ 8 * (k - 1) + j \in shifted
    BY <1>0, <2>1, <2>2
  <2> HIDE DEF first
  <2>5. (d[k] \div 2 ^ j) % 2 = 1
    <3>1. 8 * (k - 1) \in Int
      BY <2>2
    <3>2. (Byte(shifted, 8 * (k - 1)) \div 2 ^ j) % 2 = 1
      BY Zenon, <2>2, <2>4, <3>1, ByteBit
    <3> QED
      BY <1>2, <2>2, <3>2
  <2> QED
    BY Zenon, <1>3, <2>2, <2>4, <2>5
<1>6. ASSUME x \in DataBits(d, first, n)
      PROVE  x \in Span(off, n)
  <2>1. PICK k \in 1 .. n, j \in 0 .. 7 : x = first + 8 * (k - 1) + j
    BY Zenon, <1>3, <1>6
  <2> QED
    BY <1>4, <2>1
<1> QED
  BY <1>5, <1>6 DEF d, bytes, shifted

\* A record of the gpios; what the sets hold does not matter.
StatusRecords(S) == [status : S, falling : S, rising : S, enable : S, high : S, low : S]
GpioRecords(S) ==
    [PORT : S, DDR : S, ext : S, ports : S, initialized : BOOLEAN,
     rising : S, falling : S, enable : S, events : S, s : StatusRecords(S)]

\* What an operation leaves that is no read of the status: the events and the
\* status, and at least the level events.
EventsKept(v, u) ==
    /\ \E R : u \in GpioRecords(R)
    /\ u.events = v.events /\ u.s.status = v.s.status
    /\ v.s.high \subseteq u.s.high /\ v.s.low \subseteq u.s.low

\* The sets that the fields are from do not matter.
LEMMA LargerRecords ==
    ASSUME NEW S, NEW T
    PROVE  GpioRecords(S) \subseteq GpioRecords(S \cup T) /\ StatusRecords(S) \subseteq StatusRecords(S \cup T)
BY DEF GpioRecords, StatusRecords

\* The operations on the data and the modes change the registers of the
\* levels and the directions alone.
LEMMA LevelsChanged ==
    ASSUME NEW S, NEW v \in GpioRecords(S), NEW a, NEW b
    PROVE  /\ EventsKept(v, v)
           /\ EventsKept(v, [v EXCEPT !.PORT = a])
           /\ EventsKept(v, [v EXCEPT !.DDR = a])
           /\ EventsKept(v, [v EXCEPT !.ext = a])
           /\ EventsKept(v, [v EXCEPT !.PORT = a, !.DDR = b])
<1> DEFINE T == S \cup {a, b}
           w1 == [v EXCEPT !.PORT = a]
           w2 == [v EXCEPT !.DDR = a]
           w3 == [v EXCEPT !.ext = a]
           w4 == [v EXCEPT !.PORT = a, !.DDR = b]
<1>1. v \in GpioRecords(T) /\ a \in T /\ b \in T
  BY Zenon, LargerRecords
<1> HIDE DEF T
<1>2. w1 \in GpioRecords(T) /\ w1.events = v.events /\ w1.s = v.s
  BY <1>1 DEF GpioRecords
<1>3. w2 \in GpioRecords(T) /\ w2.events = v.events /\ w2.s = v.s
  BY <1>1 DEF GpioRecords
<1>4. w3 \in GpioRecords(T) /\ w3.events = v.events /\ w3.s = v.s
  BY <1>1 DEF GpioRecords
<1>5. w4 \in GpioRecords(T) /\ w4.events = v.events /\ w4.s = v.s
  BY Zenon, <1>1 DEF GpioRecords
<1> HIDE DEF w1, w2, w3, w4
<1>6. \A u : u \in GpioRecords(T) /\ u.events = v.events /\ u.s = v.s => EventsKept(v, u)
  BY DEF EventsKept
<1>7. EventsKept(v, v) /\ EventsKept(v, w1) /\ EventsKept(v, w2) /\ EventsKept(v, w3) /\ EventsKept(v, w4)
  BY <1>1, <1>2, <1>3, <1>4, <1>5, <1>6
<1> QED
  BY <1>7 DEF w1, w2, w3, w4

\* The operations on the data and the modes, and the reads.
LEMMA DataKeepsEvents ==
    ASSUME NEW S, NEW v \in GpioRecords(S), NEW off, NEW p, NEW data
    PROVE  /\ EventsKept(v, gpio_data_wr(v, off, p, data).g)
           /\ EventsKept(v, gpio_data_rd(v, off, p).g)
           /\ EventsKept(v, gpio_clr_wr(v, off, p).g)
           /\ EventsKept(v, gpio_modes_wr(v, off, p).g)
           /\ EventsKept(v, gpio_modes_rd(v, off, p).g)
           /\ EventsKept(v, gpio_evts_rd(v, off, p).g)
<1>1. \A x, y : Done(x, y).g = x
  BY DEF Done
<1>2. \A x, y, z : Read(x, y, z).g = x
  BY DEF Read
<1>3. \A d : EventsKept(v, gpio_data_wr(v, off, p, d).g)
  <2> TAKE d
  <2> DEFINE wid == data_len(p)
             x == (v.PORT \ Span(off, wid)) \cup DataBits(d, off * 8, wid)
             y == Count(p, 8 * wid)
  <2>1. gpio_data_wr(v, off, p, d) = Done([v EXCEPT !.PORT = x], y)
    BY DEF gpio_data_wr
  <2> HIDE DEF x, y
  <2>2. gpio_data_wr(v, off, p, d).g = [v EXCEPT !.PORT = x]
    BY Zenon, <1>1, <2>1
  <2>3. EventsKept(v, [v EXCEPT !.PORT = x])
    BY Zenon, LevelsChanged
  <2> QED
    BY <2>2, <2>3
<1>4. EventsKept(v, v)
  BY Zenon, LevelsChanged
<1>5. gpio_data_rd(v, off, p).g = v /\ gpio_modes_rd(v, off, p).g = v /\ gpio_evts_rd(v, off, p).g = v
  <2>1. gpio_data_rd(v, off, p).g = v
    BY DEF gpio_data_rd, Read
  <2>2. gpio_modes_rd(v, off, p).g = v
    BY DEF gpio_modes_rd, Read
  <2>3. gpio_evts_rd(v, off, p).g = v
    BY DEF gpio_evts_rd, Read
  <2> QED
    BY <2>1, <2>2, <2>3
<1>6. \E d : gpio_clr_wr(v, off, p) = gpio_data_wr(v, off, p, d)
  BY Zenon DEF gpio_clr_wr
<1>7. \E i, o : gpio_modes_wr(v, off, p).g = gpio_dir_af(v, o, i)
  <2> DEFINE n == Count(p, data_len(p))
             bad == {k \in 1 .. n : Flag(p.data[k], 1) /\ Flag(p.data[k], 2)}
             last == IF bad = {} THEN n ELSE Min(bad) - 1
             outs == {off + k - 1 : k \in {j \in 1 .. last : Flag(p.data[j], 2)}}
             ins == (off .. off + last - 1) \ outs
             y == IF bad = {} THEN n ELSE -EINVAL
  <2>1. gpio_modes_wr(v, off, p) = Done(gpio_dir_af(v, outs, ins), y)
    BY DEF gpio_modes_wr
  <2> HIDE DEF outs, ins, y
  <2>2. gpio_modes_wr(v, off, p).g = gpio_dir_af(v, outs, ins)
    BY <1>1, <2>1
  <2> QED
    BY Zenon, <2>2
<1>8. \A i, o : EventsKept(v, gpio_dir_af(v, o, i))
  <2> TAKE i, o
  <2> DEFINE x == (v.PORT \ (o \cup i)) \cup (gpio_get(v) \cap (o \cup i))
             y == (v.DDR \ i) \cup o
  <2>1. gpio_dir_af(v, o, i) = [v EXCEPT !.PORT = x, !.DDR = y]
    BY DEF gpio_dir_af
  <2> HIDE DEF x, y
  <2>2. EventsKept(v, [v EXCEPT !.PORT = x, !.DDR = y])
    BY Zenon, LevelsChanged
  <2> QED
    BY <2>1, <2>2
<1> QED
  BY <1>3, <1>4, <1>5, <1>6, <1>7, <1>8

\* Writing the events adds to those of the port and replaces those of the
\* machine.
LEMMA EventsWritten ==
    ASSUME NEW S, NEW v \in GpioRecords(S), NEW off, NEW p
    PROVE  EventsKept(v, gpio_evts_wr(v, off, p).g)
<1> DEFINE n == EvtCount(p)
           bad == {x \in off .. off + n - 1 : x > 39}
           tried == off .. (IF bad = {} THEN off + n - 1 ELSE Min(bad))
           flags(set) == [x \in set |-> p.data[x - off + 1]]
           fa == v.s.falling \cup Flagged(flags(tried), GPIO_EVT_FALLING)
           ri == v.s.rising  \cup Flagged(flags(tried), GPIO_EVT_RISING)
           hi == v.s.high    \cup Flagged(flags(tried), GPIO_EVT_HIGH)
           lo == v.s.low     \cup Flagged(flags(tried), GPIO_EVT_LOW)
           en == v.s.enable  \cup Flagged(flags(tried), GPIO_EVT_ENABLE)
           h == [v EXCEPT !.s.falling = fa, !.s.rising = ri, !.s.high = hi, !.s.low = lo, !.s.enable = en]
           fl == flags(tried \ bad)
           y == IF bad = {} THEN n ELSE -EINVAL
           u == gpio_request_events(h, fl)
<1>1. gpio_evts_wr(v, off, p) = Done(u, y)
  BY DEF gpio_evts_wr
<1>2. gpio_evts_wr(v, off, p).g = u
  BY <1>1 DEF Done
<1>3. v.s.high \subseteq hi /\ v.s.low \subseteq lo
  OBVIOUS
<1> HIDE DEF fl, y, fa, ri, hi, lo, en
<1> DEFINE T == S \cup {fa, ri, hi, lo, en}
           s1 == [v.s EXCEPT !.falling = fa, !.rising = ri, !.high = hi, !.low = lo, !.enable = en]
<1>4. v \in GpioRecords(T) /\ {fa, ri, hi, lo, en} \subseteq T
  BY Zenon, LargerRecords
<1> HIDE DEF T
<1>5. s1 \in StatusRecords(T) /\ s1.status = v.s.status /\ s1.high = hi /\ s1.low = lo
  BY Zenon, <1>4 DEF GpioRecords, StatusRecords
<1>6. h = [v EXCEPT !.s = s1]
  BY Zenon, <1>4 DEF GpioRecords, StatusRecords
<1> HIDE DEF h, s1
<1>7. h \in GpioRecords(T) /\ h.s = s1 /\ h.events = v.events
  BY <1>4, <1>5, <1>6 DEF GpioRecords
<1>8. EventsKept(h, u)
  <2> DEFINE level == Flagged(fl, GPIO_EVT_LOW) \cup Flagged(fl, GPIO_EVT_HIGH)
             a == (h.rising \ DOMAIN fl) \cup (Flagged(fl, GPIO_EVT_RISING) \cup level)
             b == (h.falling \ DOMAIN fl) \cup (Flagged(fl, GPIO_EVT_FALLING) \cup level)
             c == (h.enable \ DOMAIN fl) \cup Flagged(fl, GPIO_EVT_ENABLE)
             z == [h EXCEPT !.rising = a, !.falling = b, !.enable = c]
             R == T \cup {a, b, c}
  <2>1. u = z
    BY DEF gpio_request_events
  <2> HIDE DEF a, b, c, u
  <2>2. h \in GpioRecords(R) /\ {a, b, c} \subseteq R
    BY Zenon, <1>7, LargerRecords
  <2> HIDE DEF R
  <2>3. z \in GpioRecords(R) /\ z.events = h.events /\ z.s = h.s
    BY Zenon, <2>2 DEF GpioRecords
  <2> HIDE DEF z
  <2> QED
    BY <2>1, <2>3 DEF EventsKept
<1> HIDE DEF u
<1>9. EventsKept(v, u)
  BY <1>3, <1>5, <1>7, <1>8 DEF EventsKept
<1> QED
  BY <1>2, <1>9

\* What the operations of ServeGpio make of the gpios.
LEMMA ResultKeepsEvents ==
    ASSUME NEW S, g \in GpioRecords(S), NEW ops \in {"data", "clr", "modes", "evts"}, NEW off
    PROVE  EventsKept(g, GpioResult(ops, off).g)
<1> DEFINE r == GpioResult(ops, off)
           d == Req.data
           p == Req
<1>1. \/ r = Done(g, -EPERM) \/ r = gpio_data_rd(g, off, p) \/ r = gpio_data_wr(g, off, p, d)
      \/ r = gpio_clr_wr(g, off, p) \/ r = gpio_modes_rd(g, off, p) \/ r = gpio_modes_wr(g, off, p)
      \/ r = gpio_evts_rd(g, off, p) \/ r = gpio_evts_wr(g, off, p)
  BY DEF GpioResult
<1> HIDE DEF r, d, p
<1>2. Done(g, -EPERM).g = g /\ EventsKept(g, g)
  BY Zenon, LevelsChanged DEF Done
<1>3. /\ EventsKept(g, gpio_data_wr(g, off, p, d).g)
      /\ EventsKept(g, gpio_data_rd(g, off, p).g)
      /\ EventsKept(g, gpio_clr_wr(g, off, p).g)
      /\ EventsKept(g, gpio_modes_wr(g, off, p).g)
      /\ EventsKept(g, gpio_modes_rd(g, off, p).g)
      /\ EventsKept(g, gpio_evts_rd(g, off, p).g)
  BY DataKeepsEvents
<1>4. EventsKept(g, gpio_evts_wr(g, off, p).g)
  BY EventsWritten
<1>5. EventsKept(g, r.g)
  BY <1>1, <1>2, <1>3, <1>4
<1> QED
  BY <1>5 DEF r

\* __handle_level_gpio_events sets the status of gpios with level events.
LEMMA LevelsHandled ==
    ASSUME NEW S, NEW v \in GpioRecords(S), NEW lvl
    PROVE  LET u == handle_level_gpio_events(v, lvl)
           IN  /\ \E R : u \in GpioRecords(R)
               /\ u.events = v.events /\ u.s.high = v.s.high /\ u.s.low = v.s.low
               /\ \A x : x \notin v.s.high \cup v.s.low => (x \in u.s.status <=> x \in v.s.status)
<1> DEFINE a == v.s.status \cup (lvl \cap v.s.high) \cup (v.s.low \ lvl)
           s1 == [v.s EXCEPT !.status = a]
           u == handle_level_gpio_events(v, lvl)
           T == S \cup {a}
<1>1. u = [v EXCEPT !.s.status = a]
  BY DEF handle_level_gpio_events
<1>2. \A x : x \notin v.s.high \cup v.s.low => (x \in a <=> x \in v.s.status)
  OBVIOUS
<1> HIDE DEF a, u
<1>3. v \in GpioRecords(T) /\ a \in T
  BY Zenon, LargerRecords
<1> HIDE DEF T
<1>4. s1 \in StatusRecords(T) /\ s1.status = a /\ s1.high = v.s.high /\ s1.low = v.s.low
  BY <1>3 DEF GpioRecords, StatusRecords
<1>5. u = [v EXCEPT !.s = s1]
  BY <1>1, <1>3 DEF GpioRecords, StatusRecords
<1> HIDE DEF s1
<1>6. u \in GpioRecords(T) /\ u.s = s1 /\ u.events = v.events
  BY <1>3, <1>4, <1>5 DEF GpioRecords
<1>7. /\ \E R : u \in GpioRecords(R)
      /\ u.events = v.events /\ u.s.high = v.s.high /\ u.s.low = v.s.low
      /\ \A x : x \notin v.s.high \cup v.s.low => (x \in u.s.status <=> x \in v.s.status)
  BY <1>2, <1>4, <1>6
<1> QED
  BY <1>7 DEF u

\* An access to the registers of the events is one of one or of four bytes.
LEMMA EventCount == \A p : EvtCount(p) \in {1, 4}
<1>1. MCUIO_NGPIO \in Nat /\ 1 <= MCUIO_NGPIO
  BY GpioAssumption
<1>2. Min({MCUIO_NGPIO, 1}) \in {MCUIO_NGPIO, 1} /\ Min({MCUIO_NGPIO, 1}) <= 1
  BY <1>1 DEF Min
<1> QED
  BY <1>1, <1>2 DEF EvtCount

\* The data of a request.
LEMMA RequestData ==
    ASSUME NEW p \in Requests
    PROVE  p.data \in Seq(Nat) /\ Len(p.data) = 8 /\ EvtCount(p) \in {1, 4}
<1> DEFINE Bytes == 0 .. 255
           n == 8
<1>1. p.data \in [1 .. n -> Bytes]
  BY DEF Requests
<1>2. Bytes \subseteq Nat /\ n \in Nat
  OBVIOUS
<1> HIDE DEF Bytes, n
<1>3. \A d \in [1 .. n -> Bytes] : d \in Seq(Nat) /\ Len(d) = n
  <2> TAKE d \in [1 .. n -> Bytes]
  <2>1. d \in [1 .. n -> Nat]
    BY Zenon, <1>2
  <2> QED
    BY <1>2, <2>1
<1>4. p.data \in Seq(Nat) /\ Len(p.data) = n
  BY Zenon, <1>1, <1>3
<1> QED
  BY Zenon, <1>4, EventCount DEF n

\* The edges in v that the host is not told of are those in o.
Owed(v, o) ==
    LET edge == Gpios \ (v.s.high \cup v.s.low)
    IN  (v.events \cup v.s.status) \cap edge = o \cap edge

EdgeInv == (\E S : g \in GpioRecords(S)) /\ Owed(g, owed)

\* At the start no edge has been seen.
LEMMA InitEdges == Init => EdgeInv
<1> SUFFICES ASSUME Init PROVE EdgeInv
  OBVIOUS
<1>1. g = GpioInit /\ owed = {}
  BY DEF Init
<1>2. GpioInit \in GpioRecords({{}})
  BY DEF GpioInit, GpioRecords, StatusRecords
<1>3. GpioInit.events = {} /\ GpioInit.s.status = {}
  BY DEF GpioInit
<1>4. Owed(g, owed)
  BY <1>1, <1>3 DEF Owed
<1> QED
  BY <1>1, <1>2, <1>4 DEF EdgeInv

\* An operation that keeps the events keeps what is owed.
LEMMA KeptEdges ==
    ASSUME EdgeInv, EventsKept(g, g'), owed' = owed
    PROVE  EdgeInv'
<1>1. /\ \E R : g' \in GpioRecords(R)
      /\ g'.events = g.events /\ g'.s.status = g.s.status
      /\ g.s.high \subseteq g'.s.high /\ g.s.low \subseteq g'.s.low
  BY DEF EventsKept
<1>2. Owed(g, owed)
  BY DEF EdgeInv
<1> DEFINE h == g'
<1> HIDE DEF h
<1>3. Owed(h, owed)
  BY <1>1, <1>2 DEF Owed, h
<1> QED
  BY <1>1, <1>3 DEF EdgeInv, h

\* gpio_sample: the edges go to the events and are owed.
LEMMA TickEdges == EdgeInv /\ Tick => EdgeInv'
<1> SUFFICES ASSUME EdgeInv, Tick PROVE EdgeInv'
  OBVIOUS
<1> DEFINE in == gpio_get(g)
           e == {x \in g.enable \cap g.rising  : x \in in /\ x \notin g.ports}
                   \cup {x \in g.enable \cap g.falling : x \notin in /\ x \in g.ports}
           ev == IF g.initialized THEN g.events \cup e ELSE g.events
           h == [g EXCEPT !.ports = in, !.initialized = TRUE, !.events = ev]
<1>1. PICK S : g \in GpioRecords(S)
  BY DEF EdgeInv
<1>2. g' = gpio_sample(g) /\ owed' = owed \cup Edges(g)
  BY DEF Tick
<1>3. gpio_sample(g) = h
  BY Zenon DEF gpio_sample
<1>4. Edges(g) = IF g.initialized THEN e ELSE {}
  <2> DEFINE g0 == [g EXCEPT !.events = {}]
             f0 == {} \cup e
             h0 == [g0 EXCEPT !.ports = in, !.initialized = TRUE, !.events = f0]
  <2>0. g \in GpioRecords(S \cup {{}}) /\ {} \in S \cup {{}}
    BY Zenon, <1>1, LargerRecords
  <2>1. /\ g0.PORT = g.PORT /\ g0.DDR = g.DDR /\ g0.ext = g.ext /\ g0.enable = g.enable /\ g0.rising = g.rising
        /\ g0.falling = g.falling /\ g0.ports = g.ports /\ g0.initialized = g.initialized /\ g0.events = {}
        /\ g0 \in GpioRecords(S \cup {{}})
    <3> DEFINE T == S \cup {{}}
    <3> HIDE DEF T
    <3>1. g \in GpioRecords(T) /\ {} \in T
      BY <2>0 DEF T
    <3>2. /\ g0.PORT = g.PORT /\ g0.DDR = g.DDR /\ g0.ext = g.ext /\ g0.enable = g.enable /\ g0.rising = g.rising
          /\ g0.falling = g.falling /\ g0.ports = g.ports /\ g0.initialized = g.initialized /\ g0.events = {}
      BY <3>1 DEF GpioRecords
    <3>3. g0 \in GpioRecords(T)
      BY <3>1 DEF GpioRecords
    <3> QED
      BY <3>2, <3>3 DEF T
  <2> HIDE DEF g0
  <2>2. gpio_get(g0) = in
    BY <2>1 DEF gpio_get
  <2>3. g.initialized => gpio_sample(g0) = h0
    <3> HIDE DEF in
    <3> QED
      BY <2>1, <2>2 DEF gpio_sample
  <2>4. f0 = e
    OBVIOUS
  <2> HIDE DEF e, f0, in
  <2>5. h0.events = f0
    BY <2>1 DEF GpioRecords
  <2>6. Edges(g) = IF g.initialized THEN gpio_sample(g0).events ELSE {}
    BY DEF Edges, g0
  <2> QED
    BY Zenon, <2>3, <2>4, <2>5, <2>6
<1> HIDE DEF e, in
<1>5. h \in GpioRecords(S \cup {in, ev}) /\ h.events = ev /\ h.s = g.s
  <2> DEFINE T == S \cup {in, ev}
  <2>1. g \in GpioRecords(T) /\ in \in T /\ ev \in T
    BY Zenon, <1>1, LargerRecords
  <2> HIDE DEF T, ev
  <2>2. h \in GpioRecords(T) /\ h.events = ev /\ h.s = g.s
    BY Zenon, <2>1 DEF GpioRecords
  <2> QED
    BY <2>2 DEF T
<1> HIDE DEF h
<1> DEFINE o == owed \cup Edges(g)
<1>6. Owed(h, o)
  BY <1>4, <1>5 DEF EdgeInv, Owed
<1> HIDE DEF o
<1>7. g' = h /\ owed' = o
  BY <1>2, <1>3 DEF o
<1> QED
  BY <1>5, <1>6, <1>7 DEF EdgeInv

\* __gpio_evt_handle: the events of edges become the status.
LEMMA GpioEvtEdges == EdgeInv /\ GpioEvt => EdgeInv'
<1> SUFFICES ASSUME EdgeInv, GpioEvt PROVE EdgeInv'
  OBVIOUS
<1>1. PICK S : g \in GpioRecords(S)
  BY DEF EdgeInv
<1>2. PICK lvl : g' = gpio_evt_handle(g, lvl) /\ owed' = owed
  BY DEF GpioEvt, hist
<1> DEFINE a == g.s.status \cup (g.events \ (g.s.high \cup g.s.low))
           s1 == [g.s EXCEPT !.status = a]
           v == [g EXCEPT !.s.status = a, !.events = {}]
           T == S \cup {a, {}}
           u == handle_level_gpio_events(v, lvl)
<1>3. gpio_evt_handle(g, lvl) = u
  BY DEF gpio_evt_handle
<1>4. \A x : x \notin g.s.high \cup g.s.low => (x \in a <=> x \in g.s.status \cup g.events)
  OBVIOUS
<1> HIDE DEF a
<1>5. g \in GpioRecords(T) /\ a \in T /\ {} \in T
  BY Zenon, <1>1, LargerRecords
<1> HIDE DEF T
<1>6. s1 \in StatusRecords(T) /\ s1.status = a /\ s1.high = g.s.high /\ s1.low = g.s.low
  BY <1>5 DEF GpioRecords, StatusRecords
<1>7. v = [g EXCEPT !.s = s1, !.events = {}]
  BY <1>5 DEF GpioRecords, StatusRecords
<1> HIDE DEF s1, v
<1>8. v \in GpioRecords(T) /\ v.s = s1 /\ v.events = {}
  BY Zenon, <1>5, <1>6, <1>7 DEF GpioRecords
<1>9. /\ \E R : u \in GpioRecords(R)
      /\ u.events = v.events /\ u.s.high = v.s.high /\ u.s.low = v.s.low
      /\ \A x : x \notin v.s.high \cup v.s.low => (x \in u.s.status <=> x \in v.s.status)
  BY <1>8, LevelsHandled
<1> HIDE DEF u
<1>10. Owed(u, owed)
  BY <1>4, <1>6, <1>8, <1>9 DEF EdgeInv, Owed
<1> QED
  BY <1>2, <1>3, <1>9, <1>10 DEF EdgeInv

\* __gpio_evts_status_rd: what is told to the host is no longer in the status.
LEMMA StatusEdges == Typed /\ EdgeInv /\ ServeGpioStatus => EdgeInv'
<1> SUFFICES ASSUME Typed, EdgeInv, ServeGpioStatus PROVE EdgeInv'
  OBVIOUS
<1>1. PICK S : g \in GpioRecords(S)
  BY DEF EdgeInv
<1> DEFINE off == Off
           p == Req
           n == EvtCount(p)
<1>2. Req \in Requests /\ off \in Nat
  <2>1. Serving("status")
    BY DEF ServeGpioStatus
  <2>2. At(<<"data_ready">>) /\ ~Req.rep /\ Req.f # "none" /\ lookup_range(Ranges(Req.f), Req) > 0
    BY <2>1 DEF Serving
  <2>3. lookup_range(Ranges(Req.f), Req) # 0
    BY <2>2
  <2> QED
    BY <2>2, <2>3, OffsetThere
<1>3. n \in {1, 4} /\ p.data \in Seq(Nat)
  <2>1. p \in Requests
    BY <1>2
  <2> HIDE DEF p
  <2> QED
    BY Zenon, <2>1, RequestData
<1>4. PICK lvl : LET r == gpio_evts_status_rd(g, off, p, lvl)
                 IN  g' = r.g /\ owed' = (owed \ DataBits(r.data, 8 * off, n)) \cup g.events
  BY DEF ServeGpioStatus
<1> HIDE DEF off, p, n
<1> DEFINE a == g.s.status \ Span(off, n)
           s1 == [g.s EXCEPT !.status = a]
           v == [g EXCEPT !.s.status = a]
           T == S \cup {a}
           u == handle_level_gpio_events(v, lvl)
           d == Put(p.data, StatusBytes({x - 8 * off : x \in g.s.status}, n))
           o == (owed \ DataBits(d, 8 * off, n)) \cup g.events
<1>5. g' = u /\ owed' = o
  BY <1>4 DEF gpio_evts_status_rd, n
<1>6. \A x \in Gpios : x \in g.s.status => (x \in Span(off, n) <=> x \in DataBits(d, 8 * off, n))
  <2> TAKE x \in Gpios
  <2> HAVE x \in g.s.status
  <2>1. x \in Int
    BY GpioAssumption DEF Gpios
  <2> DEFINE st == g.s.status
             data == p.data
  <2>2. data \in Seq(Nat) /\ x \in st
    BY <1>3
  <2> HIDE DEF st, data
  <2>3. x \in Span(off, n) <=> x \in DataBits(Put(data, StatusBytes({y - 8 * off : y \in st}, n)), 8 * off, n)
    BY Zenon, <1>2, <1>3, <2>1, <2>2, StatusTold
  <2> QED
    BY Zenon, <2>3 DEF st, data
<1> HIDE DEF d
<1>7. g \in GpioRecords(T) /\ a \in T
  BY Zenon, <1>1, LargerRecords
<1> HIDE DEF T
<1>8. s1 \in StatusRecords(T) /\ s1.status = a /\ s1.high = g.s.high /\ s1.low = g.s.low
  <2> HIDE DEF a
  <2> QED
    BY <1>7 DEF GpioRecords, StatusRecords
<1>9. v = [g EXCEPT !.s = s1]
  <2> HIDE DEF a
  <2> QED
    BY <1>7 DEF GpioRecords, StatusRecords
<1> HIDE DEF s1, v
<1>10. v \in GpioRecords(T) /\ v.s = s1 /\ v.events = g.events
  BY <1>7, <1>8, <1>9 DEF GpioRecords
<1>11. /\ \E R : u \in GpioRecords(R)
       /\ u.events = v.events /\ u.s.high = v.s.high /\ u.s.low = v.s.low
       /\ \A x : x \notin v.s.high \cup v.s.low => (x \in u.s.status <=> x \in v.s.status)
  BY <1>10, LevelsHandled
<1> HIDE DEF u
<1>12. ASSUME NEW x \in Gpios \ (g.s.high \cup g.s.low)
       PROVE  x \in u.events \cup u.s.status <=> x \in o
  <2>1. x \in owed <=> x \in g.events \cup g.s.status
    BY <1>12 DEF EdgeInv, Owed
  <2>2. x \in u.s.status <=> x \in g.s.status /\ x \notin Span(off, n)
    BY <1>8, <1>10, <1>11, <1>12
  <2> QED
    BY <1>6, <1>10, <1>11, <1>12, <2>1, <2>2
<1>13. Owed(u, o)
  BY <1>8, <1>10, <1>11, <1>12 DEF Owed
<1> QED
  BY <1>5, <1>11, <1>13 DEF EdgeInv

\* Every step keeps the balance of edges seen and edges told.
LEMMA NextEdges == WayInv /\ EdgeInv /\ [Next]_vars => EdgeInv'
<1> SUFFICES ASSUME WayInv, EdgeInv, [Next]_vars PROVE EdgeInv'
  OBVIOUS
<1>1. PICK S : g \in GpioRecords(S)
  BY DEF EdgeInv
<1>2. \/ (g' = g \/ \E ddr : g' = [g EXCEPT !.DDR = ddr]) /\ owed' = owed
      \/ ServeGpio \/ ServeGpioSet \/ ServeGpioStatus \/ Tick \/ GpioEvt \/ PinChanges
  BY Zenon DEF Next, Handle, Serve, ServeRo, ServeZero, ServePwm, ServeAdc, ServeIrqTest, ServeNoOp, ServeNoRange,
         ServeNoFunction, ReplyReceived, Irq, FunctionRequest, Timer, I2cIrq, HostAsks, HostAnswers,
         HostReadsStatus, Ask, vars, regs, hist
<1>3. CASE (g' = g \/ \E ddr : g' = [g EXCEPT !.DDR = ddr]) /\ owed' = owed
  <2>1. CASE g' = g
    BY <1>3, <2>1 DEF EdgeInv
  <2>2. CASE \E ddr : g' = [g EXCEPT !.DDR = ddr]
    <3>1. PICK ddr : g' = [g EXCEPT !.DDR = ddr]
      BY Zenon, <2>2
    <3>2. EventsKept(g, [g EXCEPT !.DDR = ddr])
      BY Zenon, <1>1, LevelsChanged
    <3>3. EventsKept(g, g')
      BY <3>1, <3>2
    <3> QED
      BY <1>3, <3>3, KeptEdges
  <2> QED
    BY <1>3, <2>1, <2>2
<1>4. CASE ServeGpio
  <2>1. PICK ops \in {"data", "clr", "modes", "evts"} : g' = GpioResult(ops, Off).g
    BY <1>4 DEF ServeGpio
  <2>2. EventsKept(g, GpioResult(ops, Off).g)
    BY <1>1, ResultKeepsEvents
  <2>3. EventsKept(g, g')
    BY <2>1, <2>2
  <2>4. owed' = owed
    BY <1>4 DEF ServeGpio
  <2> QED
    BY <2>3, <2>4, KeptEdges
<1>5. CASE ServeGpioSet
  <2>1. g' = g \/ g' = gpio_data_wr(g, Off, Req, Req.data).g
    BY <1>5 DEF ServeGpioSet
  <2>2. EventsKept(g, g) /\ EventsKept(g, gpio_data_wr(g, Off, Req, Req.data).g)
    BY Zenon, <1>1, LevelsChanged, DataKeepsEvents
  <2>3. EventsKept(g, g')
    BY <2>1, <2>2
  <2>4. owed' = owed
    BY <1>5 DEF ServeGpioSet
  <2> QED
    BY <2>3, <2>4, KeptEdges
<1>6. CASE PinChanges
  <2>1. PICK x : g' = [g EXCEPT !.ext = IF x \in @ THEN @ \ {x} ELSE @ \cup {x}]
    BY Zenon, <1>6 DEF PinChanges
  <2> DEFINE e == IF x \in g.ext THEN g.ext \ {x} ELSE g.ext \cup {x}
  <2>2. g' = [g EXCEPT !.ext = e]
    BY <2>1
  <2> HIDE DEF e
  <2>3. EventsKept(g, [g EXCEPT !.ext = e])
    BY Zenon, <1>1, LevelsChanged
  <2>4. EventsKept(g, g')
    BY <2>2, <2>3
  <2>5. owed' = owed
    BY <1>6 DEF PinChanges, hist
  <2> QED
    BY <2>4, <2>5, KeptEdges
<1> QED
  BY <1>2, <1>3, <1>4, <1>5, <1>6, TickEdges, GpioEvtEdges, StatusEdges DEF WayInv

\* An edge that gpio_sample has seen on a gpio without level events is in the
\* masks of gpio.c or of the port until a read of the status tells the host of
\* it, and no longer: however many edges, handlers and reads of one byte or of
\* four come in between, none is told twice and none is dropped.
THEOREM EdgesToldOnce == Spec => []EdgesReportedOnce
<1>1. EdgeInv => EdgesReportedOnce
  BY DEF EdgeInv, Owed, EdgesReportedOnce
<1>2. Spec => []EdgeInv
  BY InitEdges, NextEdges, WayAlways, PTL DEF Spec
<1> QED
  BY <1>1, <1>2, PTL

-----------------------------------------------------------------------------
(* The answers                                                             *)

\* The packets in the buffers; what the fields but the flags hold does not
\* matter.
HostPackets(D) == [f : D, off : D, t : D, fill : BOOLEAN, rep : BOOLEAN, err : BOOLEAN, data : D]
BufferInv == \E D : to_host \in [Runtimes -> HostPackets(D)]

\* The sets that the fields are from do not matter.
LEMMA LargerPackets == ASSUME NEW D, NEW E PROVE HostPackets(D) \subseteq HostPackets(D \cup E)
BY DEF HostPackets

\* At the start the buffers hold an empty packet.
LEMMA InitBuffers == Init => BufferInv
<1> SUFFICES ASSUME Init PROVE BufferInv
  OBVIOUS
<1> DEFINE D == {"none", 0, Zeros}
<1>1. NoPacket \in HostPackets(D)
  BY DEF NoPacket, Packet, HostPackets
<1> HIDE DEF D
<1>2. to_host = [r \in Runtimes |-> NoPacket]
  BY DEF Init, Runtimes
<1> QED
  BY <1>1, <1>2 DEF BufferInv

\* One buffer gets another packet.
LEMMA BufferUsed ==
    ASSUME BufferInv, NEW r \in Runtimes, NEW D, NEW a \in HostPackets(D), to_host' = [to_host EXCEPT ![r] = a]
    PROVE  BufferInv' /\ to_host'[r] = a
<1>1. PICK E : to_host \in [Runtimes -> HostPackets(E)]
  BY DEF BufferInv
<1> DEFINE F == D \cup E
<1>2. to_host \in [Runtimes -> HostPackets(F)] /\ a \in HostPackets(F)
  <2>1. HostPackets(D) \subseteq HostPackets(D \cup E) /\ HostPackets(E) \subseteq HostPackets(E \cup D)
    BY Zenon, LargerPackets
  <2>2. D \cup E = E \cup D
    OBVIOUS
  <2> QED
    BY Zenon, <1>1, <2>1, <2>2
<1> HIDE DEF F
<1>3. to_host' \in [Runtimes -> HostPackets(F)] /\ to_host'[r] = a
  BY <1>2
<1> QED
  BY <1>3 DEF BufferInv

\* set_error makes an error of any packet.
LEMMA ErrorPacket ==
    ASSUME NEW D, NEW b \in HostPackets(D), NEW e
    PROVE  (\E E : set_error(b, e) \in HostPackets(E)) /\ set_error(b, e).err = TRUE
<1> DEFINE d == Put(b.data, Dword(e))
           a == [b EXCEPT !.err = TRUE, !.data = d]
           E == D \cup {d}
<1>1. set_error(b, e) = a
  BY DEF set_error
<1> HIDE DEF d
<1>2. b \in HostPackets(E) /\ d \in E
  BY LargerPackets
<1> HIDE DEF E
<1>3. a \in HostPackets(E) /\ a.err = TRUE
  BY Zenon, <1>2 DEF HostPackets
<1> QED
  BY <1>1, <1>3

\* What Answer makes of a request.
Answering(p, stat, d) ==
    LET b == [set_reply(p) EXCEPT !.data = Put(@, d)]
    IN  IF stat < 0 THEN set_error(b, -stat) ELSE b
Header(p) == <<p.f, p.off, p.t, p.fill>>

\* What Answer makes of a request: an error, or the request with the reply flag
\* and the data.
LEMMA AnswerPacket ==
    ASSUME NEW p \in Requests, NEW stat, NEW d
    PROVE  LET a == Answering(p, stat, d)
           IN  /\ \E E : a \in HostPackets(E)
               /\ ~a.err => a.rep /\ Header(a) = Header(p)
               /\ ~(stat < 0) => ~a.err /\ a.data = Put(p.data, d)
<1> DEFINE x == Put(p.data, d)
           b == [set_reply(p) EXCEPT !.data = Put(@, d)]
           a == Answering(p, stat, d)
           D == {p.f, p.off, p.t, x}
           c == [f |-> p.f, off |-> p.off, t |-> p.t, fill |-> p.fill, rep |-> TRUE, err |-> FALSE, data |-> x]
<1>1. p \in [f : Functions \cup {"none"}, off : Nat, t : 0 .. 7, fill : BOOLEAN,
             rep : {FALSE}, err : {FALSE}, data : [1 .. 8 -> 0 .. 255]]
  BY Zenon DEF Requests
<1>2. b = [p EXCEPT !.rep = TRUE, !.data = x]
  BY <1>1 DEF set_reply
<1>3. b = c
  <2> HIDE DEF x, b
  <2> QED
    BY Zenon, <1>1, <1>2
<1>4. p.fill \in BOOLEAN
  BY <1>1
<1>5. a = IF stat < 0 THEN set_error(b, -stat) ELSE b
  BY DEF Answering
<1> HIDE DEF x, b, a
<1>6. b \in HostPackets(D) /\ b.err = FALSE /\ b.rep = TRUE /\ b.data = x /\ Header(b) = Header(p)
  BY <1>3, <1>4 DEF HostPackets, Header
<1> HIDE DEF D
<1>7. CASE stat < 0
  <2>1. (\E E : a \in HostPackets(E)) /\ a.err = TRUE
    BY Zenon, <1>5, <1>6, <1>7, ErrorPacket
  <2> QED
    BY <1>7, <2>1 DEF a
<1>8. CASE ~(stat < 0)
  <2>1. a = b
    BY <1>5, <1>8
  <2>2. (\E E : a \in HostPackets(E)) /\ ~a.err /\ a.rep /\ Header(a) = Header(p) /\ a.data = x
    BY <1>6, <2>1
  <2> QED
    BY <2>2 DEF a, x
<1> QED
  BY <1>7, <1>8

\* The answer goes into the buffer of the function's runtime.
LEMMA AnswerTold ==
    ASSUME BufferInv, Req \in Requests, NEW stat, NEW d, Answer(stat, d)
    PROVE  LET a == to_host'[Runtime(Req.f)]
           IN  /\ BufferInv'
               /\ ~a.err => a.rep /\ Header(a) = Header(Req)
               /\ ~(stat < 0) => ~a.err /\ a.data = Put(Req.data, d)
<1> DEFINE p == Req
           r == Runtime(p.f)
           a == Answering(p, stat, d)
<1>1. to_host' = [to_host EXCEPT ![r] = a]
  BY DEF Answer, Send, Answering
<1>2. p \in Requests /\ r \in Runtimes
  BY RuntimeOf
<1> HIDE DEF r, p
<1>3. /\ \E E : a \in HostPackets(E)
      /\ ~a.err => a.rep /\ Header(a) = Header(p)
      /\ ~(stat < 0) => ~a.err /\ a.data = Put(p.data, d)
  BY <1>2, AnswerPacket
<1> HIDE DEF a
<1>4. BufferInv' /\ to_host'[r] = a
  BY Zenon, <1>1, <1>2, <1>3, BufferUsed
<1> QED
  BY <1>3, <1>4 DEF r, p

\* The action that serves a request, by the range that it is for.
LEMMA WhoServes ==
    ASSUME Typed, At(<<"data_ready">>), ~Req.rep, Req.f # "none", Next, Len(inp') < Len(inp)
    PROVE  LET i == lookup_range(Ranges(Req.f), Req)
           IN  \/ i = 0 /\ ServeNoRange
               \/ i > 0 /\ Ranges(Req.f)[i].ops = "ro" /\ ServeRo
               \/ /\ i > 0 /\ \E stat, d : Answer(stat, d)
                  /\ Ranges(Req.f)[i].ops # "ro" \/ ~HasOp("ro", Req)
<1> DEFINE i == lookup_range(Ranges(Req.f), Req)
           ops == Ranges(Req.f)[i].ops
<1>1. inp \in Seq(Packets) /\ Len(inp) \in Nat /\ Head(q) = <<"data_ready">>
  BY LenProperties DEF Typed, At
<1>2. inp' # inp
  BY <1>1
<1>3. ~HostAsks /\ ~HostAnswers /\ ~HostReadsStatus
  <2>1. \A p : Ask(p) => inp' = Append(inp, p)
    BY DEF Ask
  <2>2. \A p : Len(Append(inp, p)) = Len(inp) + 1
    BY <1>1
  <2>3. \A p : ~Ask(p)
    <3> SUFFICES ASSUME NEW p, Ask(p) PROVE FALSE
      OBVIOUS
    <3>1. Len(inp') = Len(inp) + 1
      BY <2>1, <2>2
    <3> QED
      BY <1>1, <3>1
  <2> QED
    BY <2>3 DEF HostAsks, HostAnswers, HostReadsStatus
<1>4. Serve
  BY Zenon, <1>2, <1>3 DEF Next, Handle, Tick, GpioEvt, Irq, FunctionRequest, Timer, PinChanges, I2cIrq
<1>5. ~ServeNoFunction /\ ~ReplyReceived
  BY DEF ServeNoFunction, ReplyReceived
<1>6. \A o : Serving(o) => i > 0 /\ ops = o
  BY DEF Serving
<1>7. i > 0 => ~ServeNoRange
  BY DEF ServeNoRange
<1>8. CASE ServeNoRange
  BY <1>8 DEF ServeNoRange
<1>9. CASE ServeRo
  BY <1>6, <1>9 DEF ServeRo
<1>10. CASE ServeNoOp
  <2>1. i > 0 /\ ~HasOp(ops, Req) /\ Answer(-EPERM, <<>>)
    BY <1>10 DEF ServeNoOp
  <2> HIDE DEF i
  <2>2. ops # "ro" \/ ~HasOp("ro", Req)
    BY <2>1
  <2> QED
    BY <2>1, <2>2 DEF i
<1>11. ASSUME NEW o, o # "ro", Serving(o), \E stat, d : Answer(stat, d)
       PROVE  /\ i > 0 /\ \E stat, d : Answer(stat, d)
              /\ ops # "ro" \/ ~HasOp("ro", Req)
  BY <1>6, <1>11
<1>12. CASE ServeZero
  <2>1. Serving("rw") /\ \E stat, d : Answer(stat, d)
    BY <1>12 DEF ServeZero
  <2> QED
    BY <1>11, <2>1
<1>13. CASE ServeGpio
  <2>1. \E o \in {"data", "clr", "modes", "evts"} : Serving(o) /\ \E stat, d : Answer(stat, d)
    BY Zenon, <1>13 DEF ServeGpio
  <2> QED
    BY <1>11, <2>1
<1>14. CASE ServeGpioSet
  <2>1. Serving("set") /\ \E stat, d : Answer(stat, d)
    BY Zenon, <1>2, <1>14 DEF ServeGpioSet
  <2> QED
    BY <1>11, <2>1
<1>15. CASE ServeGpioStatus
  <2>1. Serving("status") /\ \E stat, d : Answer(stat, d)
    BY Zenon, <1>15 DEF ServeGpioStatus
  <2> QED
    BY <1>11, <2>1
<1>16. CASE ServePwm
  <2>1. Serving("pwm") /\ \E stat, d : Answer(stat, d)
    BY Zenon, <1>2, <1>16 DEF ServePwm
  <2> QED
    BY <1>11, <2>1
<1>17. CASE ServeAdc
  <2>1. (Serving("adc_gen") \/ Serving("adc")) /\ \E stat, d : Answer(stat, d)
    BY <1>17 DEF ServeAdc
  <2> QED
    BY <1>11, <2>1
<1>18. CASE ServeIrqTest
  <2>1. Serving("irq_test") /\ \E stat, d : Answer(stat, d)
    BY Zenon, <1>18 DEF ServeIrqTest
  <2> QED
    BY <1>11, <2>1
<1> QED
  BY ZenonT(40), <1>4, <1>5, <1>8, <1>9, <1>10, <1>12, <1>13, <1>14, <1>15, <1>16, <1>17, <1>18 DEF Serve

\* An access copies one, two, four or eight bytes.
LEMMA AccessBytes == ASSUME NEW p \in Requests PROVE AccessLen(p) \in {1, 2, 4, 8}
<1>1. p.t \in 0 .. 7
  BY DEF Requests
<1>2. 2 ^ 0 = 1 /\ 2 ^ 1 = 2 /\ 2 ^ 2 = 4 /\ 2 ^ 3 = 8
  OBVIOUS
<1> DEFINE h == p.t \div 2
<1>3. h \in {0, 1, 2, 3}
  BY <1>1
<1>4. data_len(p) = 2 ^ h
  BY DEF data_len
<1> HIDE DEF h
<1>5. data_len(p) \in {1, 2, 4, 8}
  BY Zenon, <1>2, <1>3, <1>4
<1> QED
  BY <1>5 DEF AccessLen

\* A byte of a packet is one of the first n or one of the others.
LEMMA InOrAfter ==
    \A n \in Nat : \A k \in 1 .. 8 : (k <= n /\ k \in 1 .. n) \/ (~(k <= n) /\ k \in n + 1 .. 8)
OBVIOUS

\* What the default read puts in an answer: the constants that were asked
\* for, and the request's own data after them.
LEMMA ConstantsRead ==
    ASSUME NEW p \in Requests, Harvard => p.t # 6
    PROVE  LET d == Put(p.data, default_rd(Flash, Ram, p.off, p))
           IN  \A k \in 1 .. 8 : d[k] = IF k <= AccessLen(p) THEN RoByte(p.off + k - 1) ELSE p.data[k]
<1> DEFINE n == AccessLen(p)
           mem == IF Harvard /\ p.t # 6 THEN Flash ELSE Ram
           bytes == [k \in 1 .. n |-> mem[p.off + k - 1]]
           data == p.data
           e == Put(data, bytes)
           d == Put(data, e)
<1>1. n \in {1, 2, 4, 8}
  BY AccessBytes
<1>2. data \in Seq(Nat) /\ Len(data) = 8
  BY Zenon, RequestData
<1>3. default_rd(Flash, Ram, p.off, p) = e
  BY DEF default_rd
<1>4. p.off \in Nat
  BY DEF Requests
<1>5. \A a \in Nat : mem[a] = RoByte(a) /\ RoByte(a) \in Nat
  <2>1. \A a \in Nat : Flash[a] = RoByte(a) /\ RoByte(a) \in Nat
    BY DEF Flash, RoByte
  <2>2. ~Harvard => \A a \in Nat : Ram[a] = RoByte(a)
    BY DEF Ram
  <2> QED
    BY <2>1, <2>2
<1> HIDE DEF n, mem, data
<1>6. \A k \in 1 .. n : p.off + k - 1 \in Nat
  BY <1>1, <1>4
<1>7. \A k \in 1 .. n : bytes[k] = RoByte(p.off + k - 1) /\ bytes[k] \in Nat
  BY <1>5, <1>6
<1>8. bytes \in Seq(Nat) /\ Len(bytes) = n
  <2>1. n \in Nat /\ bytes \in [1 .. n -> Nat]
    BY <1>1, <1>5, <1>6
  <2> HIDE DEF bytes
  <2> QED
    BY <2>1
<1> HIDE DEF bytes
<1>9. /\ e \in Seq(Nat) /\ \A k \in 1 .. n : e[k] = bytes[k]
      /\ n <= 8 => Len(e) = 8 /\ \A k \in n + 1 .. 8 : e[k] = data[k]
  <2>1. data \in Seq(Nat) /\ bytes \in Seq(Nat)
    BY <1>2, <1>8
  <2>2. Put(data, bytes) \in Seq(Nat)
    BY Zenon, <2>1, PutBytes
  <2>3. \A k \in 1 .. Len(bytes) : Put(data, bytes)[k] = bytes[k]
    BY <2>1, PutBytes
  <2>4. Len(bytes) <= Len(data)
    BY <1>1, <1>2, <1>8
  <2>5. Len(Put(data, bytes)) = Len(data)
    BY <2>1, <2>4, PutBytes
  <2>6. \A k \in Len(bytes) + 1 .. Len(data) : Put(data, bytes)[k] = data[k]
    BY <2>1, <2>4, PutBytes
  <2> QED
    BY <1>2, <1>8, <2>2, <2>3, <2>5, <2>6
<1> HIDE DEF e
<1>10. Len(e) = 8 /\ \A k \in 1 .. 8 : e[k] = IF k <= n THEN bytes[k] ELSE data[k]
  <2>1. n \in Nat /\ n <= 8
    BY <1>1
  <2>2. Len(e) = 8 /\ \A k \in n + 1 .. 8 : e[k] = data[k]
    BY Zenon, <1>9, <2>1
  <2>3. \A k \in 1 .. 8 : (k <= n /\ k \in 1 .. n) \/ (~(k <= n) /\ k \in n + 1 .. 8)
    BY Zenon, <2>1, InOrAfter
  <2> QED
    BY Zenon, <1>9, <2>2, <2>3
<1>11. \A k \in 1 .. 8 : d[k] = e[k]
  <2>1. \A k \in 1 .. Len(e) : Put(data, e)[k] = e[k]
    BY <1>2, <1>9, PutBytes
  <2> QED
    BY <1>10, <2>1
<1>12. \A k \in 1 .. 8 : d[k] = IF k <= n THEN RoByte(p.off + k - 1) ELSE data[k]
  <2> HIDE DEF d
  <2> QED
    BY <1>1, <1>7, <1>10, <1>11
<1> QED
  BY Zenon, <1>3, <1>12 DEF d, e, n, data

\* ServeRo answers the constants.
LEMMA RoAnswered ==
    ASSUME Typed, BufferInv, ServeRo
    PROVE  LET p == Req
               a == to_host'[Runtime(p.f)]
           IN  /\ BufferInv'
               /\ ~a.err /\ a.rep /\ Header(a) = Header(p)
               /\ (Harvard => p.t # 6) =>
                     \A k \in 1 .. 8 : a.data[k] = IF k <= AccessLen(p) THEN RoByte(p.off + k - 1) ELSE p.data[k]
<1> DEFINE p == Req
           a == to_host'[Runtime(p.f)]
           d == default_rd(Flash, Ram, p.off, p)
           n == AccessLen(p)
<1>1. p \in Requests
  BY RequestThere DEF ServeRo, Serving
<1>2. Answer(n, d)
  BY DEF ServeRo
<1>3. n \in {1, 2, 4, 8}
  BY <1>1, AccessBytes
<1> HIDE DEF n, d
<1>4. ~(n < 0)
  BY <1>3
<1>5. BufferInv' /\ ~a.err /\ a.rep /\ Header(a) = Header(p) /\ a.data = Put(p.data, d)
  BY <1>1, <1>2, <1>4, AnswerTold
<1> HIDE DEF a, p
<1>6. (Harvard => p.t # 6) =>
         \A k \in 1 .. 8 : a.data[k] = IF k <= AccessLen(p) THEN RoByte(p.off + k - 1) ELSE p.data[k]
  BY <1>1, <1>5, ConstantsRead DEF d
<1> QED
  BY <1>5, <1>6 DEF a, p

\* ServeNoRange answers an error.
LEMMA NoRangeAnswered ==
    ASSUME Typed, BufferInv, ServeNoRange
    PROVE  BufferInv' /\ to_host'[Runtime(Req.f)].err = TRUE
<1> DEFINE r == Runtime(Req.f)
           a == set_error(to_host[r], EINVAL)
<1>1. to_host' = [to_host EXCEPT ![r] = a] /\ r \in Runtimes
  BY RuntimeOf DEF ServeNoRange, Send
<1> HIDE DEF r
<1>2. PICK D : to_host \in [Runtimes -> HostPackets(D)]
  BY DEF BufferInv
<1>3. (\E E : a \in HostPackets(E)) /\ a.err = TRUE
  BY Zenon, <1>1, <1>2, ErrorPacket
<1> HIDE DEF a
<1>4. BufferInv' /\ to_host'[r] = a
  BY Zenon, <1>1, <1>3, BufferUsed
<1> QED
  BY <1>3, <1>4 DEF r

\* The buffers hold packets.
LEMMA NextBuffers == Typed /\ BufferInv /\ [Next]_vars => BufferInv'
<1> SUFFICES ASSUME Typed, BufferInv, [Next]_vars PROVE BufferInv'
  OBVIOUS
<1>1. \/ to_host' = to_host
      \/ At(<<"data_ready">>) /\ ~Req.rep /\ \E stat, d : Answer(stat, d)
      \/ ServeNoRange
      \/ Irq
  <2>1. CASE Serve
    <3>1. CASE ServeGpio
      BY Zenon, <3>1 DEF ServeGpio, Serving
    <3>2. CASE ServeGpioSet
      BY Zenon, <3>2 DEF ServeGpioSet, Serving
    <3>3. CASE ServeGpioStatus
      BY Zenon, <3>3 DEF ServeGpioStatus, Serving
    <3>4. CASE ServePwm
      BY Zenon, <3>4 DEF ServePwm, Serving
    <3>5. CASE ServeAdc
      BY <3>5 DEF ServeAdc, Serving
    <3>6. CASE ServeIrqTest \/ ServeZero \/ ServeRo \/ ServeNoOp
      BY Zenon, <3>6 DEF ServeIrqTest, ServeZero, ServeRo, ServeNoOp, Serving
    <3>7. CASE ServeNoFunction \/ ReplyReceived
      BY <3>7 DEF ServeNoFunction, ReplyReceived
    <3> QED
      BY <2>1, <3>1, <3>2, <3>3, <3>4, <3>5, <3>6, <3>7 DEF Serve
  <2>2. CASE ~Serve
    BY Zenon, <2>2 DEF Next, Handle, Tick, GpioEvt, FunctionRequest, Timer, PinChanges, I2cIrq, HostAsks, HostAnswers,
                HostReadsStatus, Ask, vars
  <2> QED
    BY <2>1, <2>2
<1>2. CASE to_host' = to_host
  BY <1>2 DEF BufferInv
<1>3. CASE At(<<"data_ready">>) /\ ~Req.rep /\ \E stat, d : Answer(stat, d)
  <2>1. Req \in Requests
    BY <1>3, RequestThere
  <2> QED
    BY <1>3, <2>1, AnswerTold
<1>4. CASE ServeNoRange
  BY <1>4, NoRangeAnswered
<1>5. CASE Irq
  <2>1. CASE to_host' = to_host
    BY <1>2, <2>1
  <2>2. CASE \E f : to_host' = [to_host EXCEPT !["irqc"] = Message(f)]
    <3>1. PICK f : to_host' = [to_host EXCEPT !["irqc"] = Message(f)]
      BY Zenon, <2>2
    <3> DEFINE d == Put(Zeros, Dword(2 ^ f))
               m == Message(f)
    <3>2. m = [f |-> "host", off |-> f, t |-> 5, fill |-> FALSE, rep |-> FALSE, err |-> FALSE, data |-> d]
      BY DEF Message, Packet
    <3> HIDE DEF d, m
    <3>3. m \in HostPackets({"host", f, 5, d})
      BY <3>2 DEF HostPackets
    <3>4. "irqc" \in Runtimes /\ to_host' = [to_host EXCEPT !["irqc"] = m]
      BY <3>1 DEF Runtimes, m
    <3> QED
      BY Zenon, <3>3, <3>4, BufferUsed
  <2> QED
    BY <1>5, <2>1, <2>2 DEF Irq
<1> QED
  BY <1>1, <1>2, <1>3, <1>4, <1>5

\* The index of a register range is 0 or positive, never both.
LEMMA ZeroNotPositive == \A n : ~(n > 0 /\ n = 0)
OBVIOUS

\* Whoever takes a request off the pipe leaves its answer in the buffer.
LEMMA NextMatches == Typed /\ BufferInv /\ Next => AnswerMatches
<1> SUFFICES ASSUME Typed, BufferInv, Next,
                    At(<<"data_ready">>), ~Req.rep, Req.f # "none", Len(inp') < Len(inp)
             PROVE  LET p == Req
                        a == to_host'[Runtime(p.f)]
                        i == lookup_range(Ranges(p.f), p)
                    IN  /\ ~a.err => a.rep /\ Header(a) = Header(p)
                        /\ i > 0 /\ Ranges(p.f)[i].ops = "ro" /\ is_read(p) /\ (Harvard => p.t # 6) =>
                              /\ ~a.err
                              /\ \A k \in 1 .. 8 : a.data[k] = IF k <= AccessLen(p)
                                                               THEN RoByte(p.off + k - 1) ELSE p.data[k]
                        /\ i = 0 => a.err
  BY Zenon DEF AnswerMatches, Header
<1> DEFINE p == Req
           a == to_host'[Runtime(p.f)]
           i == lookup_range(Ranges(p.f), p)
           ro == Ranges(p.f)[i].ops = "ro"
<1>1. \/ i = 0 /\ ServeNoRange
      \/ i > 0 /\ ro /\ ServeRo
      \/ i > 0 /\ (\E stat, d : Answer(stat, d)) /\ (~ro \/ ~HasOp("ro", p))
  BY WhoServes
<1>2. p \in Requests
  BY RequestThere
<1>3. HasOp("ro", p) <=> is_read(p)
  BY DEF HasOp
<1>4. CASE i = 0 /\ ServeNoRange
  <2>1. a.err = TRUE
    BY Zenon, <1>4, NoRangeAnswered
  <2>2. ~(i > 0)
    BY Zenon, <1>4, ZeroNotPositive
  <2> HIDE DEF a, i, p
  <2> QED
    BY Zenon, <2>1, <2>2 DEF a, i, p
<1>5. CASE i > 0 /\ ro /\ ServeRo
  <2>1. /\ ~a.err /\ a.rep /\ Header(a) = Header(p)
        /\ (Harvard => p.t # 6) =>
              \A k \in 1 .. 8 : a.data[k] = IF k <= AccessLen(p) THEN RoByte(p.off + k - 1) ELSE p.data[k]
    BY <1>5, RoAnswered
  <2>2. i # 0
    BY Zenon, <1>5, ZeroNotPositive
  <2> QED
    BY Zenon, <2>1, <2>2
<1>6. CASE i > 0 /\ (\E stat, d : Answer(stat, d)) /\ (~ro \/ ~HasOp("ro", p))
  <2>1. ~a.err => a.rep /\ Header(a) = Header(p)
    BY <1>2, <1>6, AnswerTold
  <2>2. i # 0
    BY Zenon, <1>6, ZeroNotPositive
  <2> QED
    BY Zenon, <1>3, <1>6, <2>1, <2>2
<1> QED
  BY Zenon, <1>1, <1>4, <1>5, <1>6

\* An answer that is no error has the header of the request it answers; a read
\* of a read only register of the function is no error and gives the constants
\* and, after them, the request's own data; a request for no register of the
\* function is answered with an error.  It holds for every sequence of
\* requests, although four functions share one buffer (__exec_request,
\* mcuio_request_received).
THEOREM EveryAnswerMatches == Spec => AnswersMatch
<1>1. Typed /\ BufferInv /\ [Next]_vars => [AnswerMatches]_vars
  BY NextMatches
<1>2. Spec => []Typed
  <2>1. WayInv => Typed
    BY DEF WayInv
  <2> QED
    BY <2>1, WayAlways, PTL
<1>3. Spec => []BufferInv
  BY <1>2, InitBuffers, NextBuffers, PTL DEF Spec
<1> QED
  BY <1>1, <1>2, <1>3, PTL DEF Spec, AnswersMatch
=============================================================================
