----------------------------- MODULE PipeLemmas -----------------------------
(***************************************************************************)
(* Lemmas about Pipe: what the event queue holds after an event was added  *)
(* or taken; that ListInv is kept by what pipe_open and pipe_close do to   *)
(* the lists of the devices; and that the handlers of the events of a pipe *)
(* keep FileInv, which adds the slots and descriptors.                     *)
(***************************************************************************)
EXTENDS Pipe, TLAPS, SequenceTheorems

-----------------------------------------------------------------------------
(* The event queue.                                                        *)

Kinds  == {"in_opened", "out_opened", "in_closed", "out_closed",
           "really_closed", "input_ready", "output_ready"}
Events == (Kinds \X Pids) \cup {<<"tick", 0>>}

\* The events of the life of a pipe, in the order in which they happen.
Rank(e) == CASE e \in {"in_opened", "out_opened"} -> 1
             [] e \in {"in_closed", "out_closed"} -> 2
             [] e = "really_closed" -> 3
             [] OTHER -> 0

Sorted(s) ==
    \A i, j \in 1 .. Len(s) :
        s[i][2] = s[j][2] /\ 0 < Rank(s[i][1]) /\ Rank(s[i][1]) < Rank(s[j][1]) => i < j
Once(s) ==
    \A i, j \in 1 .. Len(s) :
        s[i][2] = s[j][2] /\ Rank(s[i][1]) = 3 /\ Rank(s[j][1]) = 3 => i = j

About(s, k, p) == \E i \in 1 .. Len(s) : s[i][2] = p /\ Rank(s[i][1]) = k

UpTo(s, n) == \A i \in 1 .. Len(s) : s[i][2] <= n

\* The events of the beginning, of the closing and of the end; the others are
\* not about the life of a pipe.
LEMMA Ranks ==
    /\ Rank("in_opened") = 1 /\ Rank("out_opened") = 1
    /\ Rank("in_closed") = 2 /\ Rank("out_closed") = 2
    /\ Rank("really_closed") = 3
    /\ Rank("input_ready") = 0 /\ Rank("output_ready") = 0 /\ Rank("tick") = 0
BY DEF Rank

\* Ranks are numbers.
LEMMA RankType == \A e : Rank(e) \in 0 .. 3
BY DEF Rank

\* The first event has been handled: the others stay, in their order.
LEMMA TailEvents ==
    ASSUME NEW s \in Seq(Events), s # <<>>
    PROVE  /\ Tail(s) \in Seq(Events) /\ Head(s) \in Events /\ Head(s) = s[1]
           /\ \A k, p : About(Tail(s), k, p) => About(s, k, p)
           /\ About(s, Rank(Head(s)[1]), Head(s)[2])
           /\ \A k, p : About(s, k, p) =>
                 About(Tail(s), k, p) \/ (Head(s)[2] = p /\ Rank(Head(s)[1]) = k)
           /\ Sorted(s) => Sorted(Tail(s))
           /\ Once(s) => Once(Tail(s))
           /\ \A n : UpTo(s, n) => UpTo(Tail(s), n)
           /\ Once(s) /\ Rank(Head(s)[1]) = 3 => ~About(Tail(s), 3, Head(s)[2])
           /\ \A k \in Nat : Sorted(s) /\ 0 < k /\ k < Rank(Head(s)[1]) =>
                 ~About(Tail(s), k, Head(s)[2])
<1> DEFINE t == Tail(s)
<1>1. /\ t \in Seq(Events) /\ Len(s) \in Nat /\ Len(s) >= 1 /\ Len(t) = Len(s) - 1
      /\ Head(s) = s[1] /\ s[1] \in Events
      /\ \A i \in 1 .. Len(t) : t[i] = s[i + 1]
  BY HeadTailProperties, ElementOfSeq
<1> HIDE DEF t
<1>2. \A i \in 1 .. Len(t) : i + 1 \in 1 .. Len(s) /\ i \in Nat
  BY <1>1
<1>3. \A i \in 1 .. Len(s) : i = 1 \/ (i - 1 \in 1 .. Len(t) /\ s[i] = t[i - 1])
  BY <1>1
<1>4. \A k, p : About(t, k, p) => About(s, k, p)
  BY <1>1, <1>2 DEF About
<1>5. About(s, Rank(s[1][1]), s[1][2])
  <2>1. 1 \in 1 .. Len(s)
    BY <1>1
  <2> QED
    BY <2>1 DEF About
<1>6. \A k, p : About(s, k, p) => About(t, k, p) \/ (s[1][2] = p /\ Rank(s[1][1]) = k)
  BY <1>3 DEF About
<1>7. Sorted(s) => Sorted(t)
  <2> SUFFICES ASSUME Sorted(s), NEW i \in 1 .. Len(t), NEW j \in 1 .. Len(t),
                      t[i][2] = t[j][2], 0 < Rank(t[i][1]), Rank(t[i][1]) < Rank(t[j][1])
               PROVE  i < j
    BY DEF Sorted
  <2>1. i + 1 \in 1 .. Len(s) /\ j + 1 \in 1 .. Len(s) /\ i \in Nat /\ j \in Nat
    BY <1>2
  <2>2. t[i] = s[i + 1] /\ t[j] = s[j + 1]
    BY <1>1
  <2>3. i + 1 < j + 1
    BY <2>1, <2>2 DEF Sorted
  <2> QED
    BY <2>1, <2>3
<1>8. Once(s) => Once(t)
  <2> SUFFICES ASSUME Once(s), NEW i \in 1 .. Len(t), NEW j \in 1 .. Len(t),
                      t[i][2] = t[j][2], Rank(t[i][1]) = 3, Rank(t[j][1]) = 3
               PROVE  i = j
    BY DEF Once
  <2>1. i + 1 \in 1 .. Len(s) /\ j + 1 \in 1 .. Len(s) /\ i \in Nat /\ j \in Nat
    BY <1>2
  <2>2. t[i] = s[i + 1] /\ t[j] = s[j + 1]
    BY <1>1
  <2>3. i + 1 = j + 1
    BY <2>1, <2>2 DEF Once
  <2> QED
    BY <2>1, <2>3
<1>9. \A n : UpTo(s, n) => UpTo(t, n)
  BY <1>1, <1>2 DEF UpTo
<1>10. ASSUME Once(s), Rank(s[1][1]) = 3 PROVE ~About(t, 3, s[1][2])
  <2> SUFFICES ASSUME NEW i \in 1 .. Len(t), t[i][2] = s[1][2], Rank(t[i][1]) = 3
               PROVE  FALSE
    BY DEF About
  <2>1. i + 1 \in 1 .. Len(s) /\ 1 \in 1 .. Len(s) /\ i \in Nat /\ i >= 1
    BY <1>1, <1>2
  <2>2. t[i] = s[i + 1]
    BY <1>1
  <2>3. i + 1 = 1
    BY <1>10, <2>1, <2>2 DEF Once
  <2> QED
    BY <2>1, <2>3
<1>11. ASSUME NEW k \in Nat, Sorted(s), 0 < k, k < Rank(s[1][1])
       PROVE  ~About(t, k, s[1][2])
  <2> SUFFICES ASSUME NEW i \in 1 .. Len(t), t[i][2] = s[1][2], Rank(t[i][1]) = k
               PROVE  FALSE
    BY DEF About
  <2>1. i + 1 \in 1 .. Len(s) /\ 1 \in 1 .. Len(s) /\ i \in Nat /\ i >= 1
    BY <1>1, <1>2
  <2>2. t[i] = s[i + 1]
    BY <1>1
  <2>3. i + 1 < 1
    BY <1>11, <2>1, <2>2 DEF Sorted
  <2> QED
    BY <2>1, <2>3
<1> QED
  BY <1>1, <1>4, <1>5, <1>6, <1>7, <1>8, <1>9, <1>10, <1>11 DEF t

\* An event is queued: it is one more, and the last one.
LEMMA AppendedEvent ==
    ASSUME NEW s \in Seq(Events), NEW x \in Events
    PROVE  /\ Append(s, x) \in Seq(Events)
           /\ \A k, p : About(Append(s, x), k, p) <=>
                 About(s, k, p) \/ (x[2] = p /\ Rank(x[1]) = k)
           /\ Sorted(s) /\ (\A k \in Nat : 0 < Rank(x[1]) /\ Rank(x[1]) < k => ~About(s, k, x[2]))
                 => Sorted(Append(s, x))
           /\ Once(s) /\ (Rank(x[1]) = 3 => ~About(s, 3, x[2])) => Once(Append(s, x))
           /\ \A n : UpTo(s, n) /\ x[2] <= n => UpTo(Append(s, x), n)
<1> DEFINE t == Append(s, x)
<1>1. /\ t \in Seq(Events) /\ Len(s) \in Nat /\ Len(t) = Len(s) + 1
      /\ \A i \in 1 .. Len(s) : t[i] = s[i]
      /\ t[Len(s) + 1] = x
  BY AppendProperties, LenProperties
<1> HIDE DEF t
<1>2. \A i \in 1 .. Len(t) : i \in Nat /\ ((i = Len(s) + 1 /\ t[i] = x) \/ (i \in 1 .. Len(s) /\ t[i] = s[i] /\ i < Len(s) + 1))
  BY <1>1
<1>3. \A i \in 1 .. Len(s) : i \in 1 .. Len(t)
  BY <1>1
<1>4. Len(s) + 1 \in 1 .. Len(t)
  BY <1>1
<1>5. ASSUME NEW k, NEW p PROVE About(t, k, p) <=> About(s, k, p) \/ (x[2] = p /\ Rank(x[1]) = k)
  BY <1>1, <1>2, <1>3, <1>4 DEF About
<1>6. ASSUME Sorted(s), \A k \in Nat : 0 < Rank(x[1]) /\ Rank(x[1]) < k => ~About(s, k, x[2])
      PROVE  Sorted(t)
  <2> SUFFICES ASSUME NEW i \in 1 .. Len(t), NEW j \in 1 .. Len(t),
                      t[i][2] = t[j][2], 0 < Rank(t[i][1]), Rank(t[i][1]) < Rank(t[j][1])
               PROVE  i < j
    BY DEF Sorted
  <2>0. Rank(t[i][1]) \in Nat /\ Rank(t[j][1]) \in Nat
    BY RankType
  <2>1. CASE i = Len(s) + 1 /\ t[i] = x
    <3>1. i # j
      BY <2>0
    <3>2. j \in 1 .. Len(s) /\ t[j] = s[j]
      BY <1>2, <2>1, <3>1
    <3>3. About(s, Rank(t[j][1]), x[2])
      BY <2>1, <3>2 DEF About
    <3> QED
      BY <1>6, <2>0, <2>1, <3>3
  <2>2. CASE i \in 1 .. Len(s) /\ t[i] = s[i] /\ i < Len(s) + 1
    BY <1>2, <1>6, <2>2 DEF Sorted
  <2> QED
    BY <1>2, <2>1, <2>2
<1>7. ASSUME Once(s), Rank(x[1]) = 3 => ~About(s, 3, x[2]) PROVE Once(t)
  <2> SUFFICES ASSUME NEW i \in 1 .. Len(t), NEW j \in 1 .. Len(t),
                      t[i][2] = t[j][2], Rank(t[i][1]) = 3, Rank(t[j][1]) = 3
               PROVE  i = j
    BY DEF Once
  <2>1. CASE i \in 1 .. Len(s) /\ j \in 1 .. Len(s)
    <3>1. t[i] = s[i] /\ t[j] = s[j]
      BY <1>1, <2>1
    <3> QED
      BY <1>7, <2>1, <3>1 DEF Once
  <2>2. CASE i \in 1 .. Len(s) /\ j = Len(s) + 1
    BY <1>1, <1>7, <2>2 DEF About
  <2>3. CASE j \in 1 .. Len(s) /\ i = Len(s) + 1
    BY <1>1, <1>7, <2>3 DEF About
  <2> QED
    BY <1>2, <2>1, <2>2, <2>3
<1>8. \A n : UpTo(s, n) /\ x[2] <= n => UpTo(t, n)
  BY <1>2 DEF UpTo
<1> QED
  BY <1>1, <1>5, <1>6, <1>7, <1>8 DEF t

\* The lesser of two numbers.
LEMMA MinOfTwo ==
    ASSUME NEW a \in Int, NEW b \in Int
    PROVE  Min({a, b}) \in {a, b} /\ Min({a, b}) <= a /\ Min({a, b}) <= b
<1>1. \E x \in {a, b} : \A y \in {a, b} : x <= y
  <2>1. CASE a <= b
    BY <2>1
  <2>2. CASE b <= a
    BY <2>2
  <2> QED
    BY <2>1, <2>2
<1> DEFINE m == CHOOSE x \in {a, b} : \A y \in {a, b} : x <= y
<1>2. m \in {a, b} /\ \A y \in {a, b} : m <= y
  BY <1>1
<1>3. Min({a, b}) = m
  BY DEF Min
<1> QED
  BY <1>2, <1>3

\* trigger_event queues the event or, when the queue is full, drops it.
LEMMA TriggerOne ==
    ASSUME NEW s \in Seq(Events), NEW x \in Events
    PROVE  Trigger(s, <<x>>) \in {s, Append(s, x)}
<1> DEFINE r == QueueSize - Len(s)
           m == Min({1, r})
<1>1. Len(s) \in Nat /\ QueueSize \in Nat
  BY PipeAssumption, LenProperties
<1>2. m \in Int /\ m <= 1
  <2>1. r \in Int /\ 1 \in Int
    BY <1>1
  <2> HIDE DEF r
  <2>2. m \in {1, r} /\ m <= 1
    BY Zenon, <2>1, MinOfTwo
  <2> QED
    BY <2>1, <2>2
<1> HIDE DEF m
<1>3. SubSeq(<<x>>, 1, m) \in {<<>>, <<x>>}
  <2>1. CASE m < 1
    BY <1>2, <2>1
  <2>2. CASE m = 1
    <3>1. <<x>> \in Seq(Events) /\ Len(<<x>>) = 1
      OBVIOUS
    <3>2. SubSeq(<<x>>, 1, Len(<<x>>)) = <<x>>
      BY Zenon, <3>1, SubSeqFull
    <3> QED
      BY <2>2, <3>1, <3>2
  <2> QED
    BY <1>2, <2>1, <2>2
<1>4. Trigger(s, <<x>>) = s \o SubSeq(<<x>>, 1, m)
  <2>1. Len(<<x>>) = 1
    OBVIOUS
  <2> QED
    BY Zenon, <2>1 DEF Trigger, m, r
<1>5. s \o <<>> = s /\ s \o <<x>> = Append(s, x)
  BY ConcatEmptySeq, AppendIsConcat
<1> QED
  BY Zenon, <1>3, <1>4, <1>5

\* Of two events both fit into the queue, or the first one, or none.
LEMMA TriggerTwo ==
    ASSUME NEW s \in Seq(Events), NEW x \in Events, NEW y \in Events
    PROVE  Trigger(s, <<x, y>>) \in {s, Append(s, x), Append(Append(s, x), y)}
<1> DEFINE r == QueueSize - Len(s)
           m == Min({2, r})
<1>1. Len(s) \in Nat /\ QueueSize \in Nat
  BY PipeAssumption, LenProperties
<1>2. m \in Int /\ m <= 2
  <2>1. r \in Int /\ 2 \in Int
    BY <1>1
  <2> HIDE DEF r
  <2>2. m \in {2, r} /\ m <= 2
    BY Zenon, <2>1, MinOfTwo
  <2> QED
    BY <2>1, <2>2
<1> HIDE DEF m
<1>3. SubSeq(<<x, y>>, 1, m) \in {<<>>, <<x>>, <<x, y>>}
  <2>1. CASE m < 1
    BY <1>2, <2>1
  <2>2. CASE m = 1
    <3>1. <<x, y>> \in Seq(Events) /\ Len(<<x, y>>) = 2 /\ <<x, y>>[1] = x
      OBVIOUS
    <3>2. SubSeq(<<x, y>>, 1, 1) = <<<<x, y>>[1]>> \o SubSeq(<<x, y>>, 1 + 1, 1)
      BY <3>1, SubSeqRecursiveFirst
    <3>3. SubSeq(<<x, y>>, 1 + 1, 1) = <<>>
      BY <3>1, SubSeqEmpty
    <3>4. <<x>> \o <<>> = <<x>>
      OBVIOUS
    <3> QED
      BY Zenon, <2>2, <3>1, <3>2, <3>3, <3>4
  <2>3. CASE m = 2
    <3>1. <<x, y>> \in Seq(Events) /\ Len(<<x, y>>) = 2
      OBVIOUS
    <3>2. SubSeq(<<x, y>>, 1, Len(<<x, y>>)) = <<x, y>>
      BY Zenon, <3>1, SubSeqFull
    <3> QED
      BY <2>3, <3>1, <3>2
  <2> QED
    BY <1>2, <2>1, <2>2, <2>3
<1>4. Trigger(s, <<x, y>>) = s \o SubSeq(<<x, y>>, 1, m)
  <2>1. Len(<<x, y>>) = 2
    OBVIOUS
  <2> QED
    BY Zenon, <2>1 DEF Trigger, m, r
<1>5. s \o <<>> = s /\ s \o <<x>> = Append(s, x)
  BY ConcatEmptySeq, AppendIsConcat
<1>6. s \o <<x, y>> = Append(Append(s, x), y)
  OBVIOUS
<1> QED
  BY Zenon, <1>3, <1>4, <1>5, <1>6

\* Any number of events that are not about the life of a pipe.
LEMMA TriggerReady ==
    ASSUME NEW es \in Seq(Events), \A i \in 1 .. Len(es) : Rank(es[i][1]) = 0,
           NEW n, UpTo(es, n)
    PROVE  LET t == Trigger(<<>>, es)
           IN  /\ t \in Seq(Events) /\ Sorted(t) /\ Once(t) /\ UpTo(t, n)
               /\ \A k \in 1 .. 3 : \A p : ~About(t, k, p)
<1> DEFINE r == QueueSize - Len(<<>>)
           m == Min({Len(es), r})
           t == SubSeq(es, 1, m)
<1>1. Len(es) \in Nat /\ QueueSize \in Nat /\ Len(<<>>) = 0
  BY PipeAssumption, LenProperties
<1>2. m \in Nat /\ m <= Len(es)
  <2> DEFINE l == Len(es)
  <2>1. r \in Int /\ r >= 0 /\ l \in Int /\ l >= 0
    BY <1>1
  <2> HIDE DEF r, l
  <2>2. Min({l, r}) \in {l, r} /\ Min({l, r}) <= l
    BY Zenon, <2>1, MinOfTwo
  <2> QED
    BY <2>1, <2>2 DEF l
<1> HIDE DEF m
<1>3. t \in Seq(Events) /\ Len(t) = m /\ \A i \in 1 .. m : t[i] = es[i]
  BY <1>1, <1>2, SubSeqProperties
<1> HIDE DEF t
<1>4. Trigger(<<>>, es) = t
  <2>1. Trigger(<<>>, es) = <<>> \o t
    BY DEF Trigger, t, m, r
  <2> QED
    BY <1>3, <2>1, ConcatEmptySeq
<1>5. \A i \in 1 .. Len(t) : i \in 1 .. Len(es) /\ t[i] = es[i]
  BY <1>1, <1>2, <1>3
<1>6. \A i \in 1 .. Len(t) : Rank(t[i][1]) = 0
  BY <1>5
<1>7. Sorted(t) /\ Once(t) /\ \A k \in 1 .. 3 : \A p : ~About(t, k, p)
  BY <1>6 DEF Sorted, Once, About
<1>8. UpTo(t, n)
  BY <1>5 DEF UpTo
<1> QED
  BY <1>3, <1>4, <1>7, <1>8

-----------------------------------------------------------------------------
(* The list of a device's pipes.                                           *)

NoRepeat(s) == \A i, j \in 1 .. Len(s) : s[i] = s[j] => i = j

\* list_add of a pipe that is not on the list.
LEMMA Prepended ==
    ASSUME NEW S, NEW s \in Seq(S), NEW p \in S, p \notin Range(s), NoRepeat(s)
    PROVE  /\ <<p>> \o s \in Seq(S)
           /\ Range(<<p>> \o s) = Range(s) \cup {p}
           /\ NoRepeat(<<p>> \o s)
<1> DEFINE t == <<p>> \o s
<1>1. /\ t \in Seq(S) /\ Len(s) \in Nat /\ Len(t) = Len(s) + 1
      /\ t[1] = p /\ \A i \in 2 .. Len(s) + 1 : t[i] = s[i - 1]
      /\ DOMAIN s = 1 .. Len(s) /\ DOMAIN t = 1 .. Len(s) + 1
  <2>1. <<p>> \in Seq(S) /\ Len(<<p>>) = 1 /\ <<p>>[1] = p
    OBVIOUS
  <2>2. t \in Seq(S) /\ Len(t) = 1 + Len(s) /\ Len(s) \in Nat
    BY <2>1, ConcatProperties, LenProperties
  <2>3. \A i \in 1 .. Len(<<p>>) + Len(s) : t[i] = IF i <= Len(<<p>>) THEN <<p>>[i] ELSE s[i - Len(<<p>>)]
    BY <2>1, ConcatProperties
  <2> HIDE DEF t
  <2>4. t[1] = p /\ \A i \in 2 .. Len(s) + 1 : t[i] = s[i - 1]
    BY <2>1, <2>2, <2>3
  <2> QED
    BY <2>2, <2>4, LenProperties
<1> HIDE DEF t
<1>2. \A i \in 2 .. Len(s) + 1 : i - 1 \in 1 .. Len(s) /\ t[i] \in Range(s)
  BY <1>1 DEF Range
<1>3. Range(t) = Range(s) \cup {p}
  <2>1. ASSUME NEW y \in Range(t) PROVE y \in Range(s) \cup {p}
    <3>1. PICK i \in 1 .. Len(s) + 1 : y = t[i]
      BY <1>1, <2>1 DEF Range
    <3> QED
      BY <1>1, <1>2, <3>1
  <2>2. ASSUME NEW y \in Range(s) PROVE y \in Range(t)
    <3>1. PICK i \in 1 .. Len(s) : y = s[i]
      BY <1>1, <2>2 DEF Range
    <3>2. i + 1 \in 2 .. Len(s) + 1 /\ (i + 1) - 1 = i /\ i + 1 \in 1 .. Len(s) + 1
      BY <1>1
    <3>3. t[i + 1] = y
      BY <1>1, <3>1, <3>2
    <3> QED
      BY <1>1, <3>2, <3>3 DEF Range
  <2>3. 1 \in 1 .. Len(s) + 1
    BY <1>1
  <2> QED
    BY Zenon, <1>1, <2>1, <2>2, <2>3 DEF Range
<1>4. NoRepeat(t)
  <2> SUFFICES ASSUME NEW i \in 1 .. Len(s) + 1, NEW j \in 1 .. Len(s) + 1, t[i] = t[j]
               PROVE  i = j
    BY <1>1 DEF NoRepeat
  <2>1. CASE i = 1 \/ j = 1
    BY <1>1, <1>2, <2>1
  <2>2. CASE i # 1 /\ j # 1
    <3>1. i \in 2 .. Len(s) + 1 /\ j \in 2 .. Len(s) + 1
      BY <1>1, <2>2
    <3>2. i - 1 \in 1 .. Len(s) /\ j - 1 \in 1 .. Len(s) /\ s[i - 1] = s[j - 1]
      BY <1>1, <1>2, <3>1
    <3>3. i - 1 = j - 1
      BY <3>2 DEF NoRepeat
    <3> QED
      BY <3>1, <3>3
  <2> QED
    BY <2>1, <2>2
<1> QED
  BY <1>1, <1>3, <1>4 DEF t

\* list_del of a pipe that is on the list.
LEMMA Deleted ==
    ASSUME NEW S, NEW s \in Seq(S), NEW p \in Range(s), NoRepeat(s)
    PROVE  /\ list_del(p, s) \in Seq(S)
           /\ Range(list_del(p, s)) = Range(s) \ {p}
           /\ NoRepeat(list_del(p, s))
<1> DEFINE i == CHOOSE j \in DOMAIN s : s[j] = p
           t == [k \in 1 .. Len(s) - 1 |-> IF k < i THEN s[k] ELSE s[k + 1]]
<1>1. DOMAIN s = 1 .. Len(s) /\ Len(s) \in Nat /\ \A k \in 1 .. Len(s) : s[k] \in S
  BY LenProperties, ElementOfSeq
<1>2. i \in 1 .. Len(s) /\ s[i] = p
  <2>1. \E j \in DOMAIN s : s[j] = p
    BY DEF Range
  <2> QED
    BY <1>1, <2>1
<1> HIDE DEF i
<1>3. Len(s) - 1 \in Nat
  BY <1>1, <1>2
<1>4. \A k \in 1 .. Len(s) - 1 : /\ k \in 1 .. Len(s) /\ k + 1 \in 1 .. Len(s)
                                 /\ t[k] = IF k < i THEN s[k] ELSE s[k + 1]
  BY <1>1
<1>5. t \in Seq(S) /\ Len(t) = Len(s) - 1
  <2>1. \A k \in 1 .. Len(s) - 1 : (IF k < i THEN s[k] ELSE s[k + 1]) \in S
    BY <1>1, <1>4
  <2>2. t \in [1 .. Len(s) - 1 -> S]
    BY <2>1
  <2>3. DOMAIN t = 1 .. Len(s) - 1
    OBVIOUS
  <2> HIDE DEF t
  <2>4. t \in Seq(S)
    BY <1>3, <2>2, SeqDef
  <2>5. Len(t) \in Nat /\ 1 .. Len(t) = 1 .. Len(s) - 1
    BY <2>3, <2>4, LenProperties
  <2> QED
    BY <1>3, <2>4, <2>5
<1>6. list_del(p, s) = t
  BY DEF list_del, i, t
<1>7. DOMAIN t = 1 .. Len(s) - 1
  OBVIOUS
<1> HIDE DEF t
<1>8. Range(t) = Range(s) \ {p}
  <2>1. ASSUME NEW y \in Range(t) PROVE y \in Range(s) \ {p}
    <3>1. PICK k \in 1 .. Len(s) - 1 : y = t[k]
      BY <1>7, <2>1 DEF Range
    <3>2. CASE k < i
      <4>1. y = s[k] /\ k \in 1 .. Len(s) /\ k # i
        BY <1>4, <1>2, <3>1, <3>2
      <4>2. s[k] # s[i]
        BY <1>2, <4>1 DEF NoRepeat
      <4> QED
        BY <1>1, <1>2, <4>1, <4>2 DEF Range
    <3>3. CASE ~(k < i)
      <4>1. y = s[k + 1] /\ k + 1 \in 1 .. Len(s) /\ k + 1 # i
        BY <1>4, <1>2, <3>1, <3>3
      <4>2. s[k + 1] # s[i]
        BY <1>2, <4>1 DEF NoRepeat
      <4> QED
        BY <1>1, <1>2, <4>1, <4>2 DEF Range
    <3> QED
      BY <3>2, <3>3
  <2>2. ASSUME NEW y \in Range(s), y # p PROVE y \in Range(t)
    <3>1. PICK k \in 1 .. Len(s) : y = s[k]
      BY <1>1, <2>2 DEF Range
    <3>2. k # i
      BY <1>2, <2>2, <3>1
    <3>3. CASE k < i
      <4>1. k \in 1 .. Len(s) - 1
        BY <1>1, <1>2, <3>3
      <4>2. t[k] = y
        BY <1>4, <3>1, <3>3, <4>1
      <4> QED
        BY <1>7, <4>1, <4>2 DEF Range
    <3>4. CASE k > i
      <4>1. k - 1 \in 1 .. Len(s) - 1 /\ ~(k - 1 < i) /\ (k - 1) + 1 = k
        BY <1>1, <1>2, <3>4
      <4>2. t[k - 1] = y
        BY <1>4, <3>1, <4>1
      <4> QED
        BY <1>7, <4>1, <4>2 DEF Range
    <3> QED
      BY <1>2, <3>2, <3>3, <3>4
  <2> QED
    BY <2>1, <2>2
<1>9. NoRepeat(t)
  <2> SUFFICES ASSUME NEW j \in 1 .. Len(s) - 1, NEW k \in 1 .. Len(s) - 1, t[j] = t[k]
               PROVE  j = k
    BY <1>5 DEF NoRepeat
  <2> DEFINE j1 == IF j < i THEN j ELSE j + 1
             k1 == IF k < i THEN k ELSE k + 1
  <2>1. j1 \in 1 .. Len(s) /\ k1 \in 1 .. Len(s) /\ t[j] = s[j1] /\ t[k] = s[k1]
    BY <1>4
  <2>2. j1 = k1
    <3> HIDE DEF j1, k1
    <3> QED
      BY Zenon, <2>1 DEF NoRepeat
  <2> QED
    BY <1>1, <1>2, <2>2
<1> QED
  BY <1>5, <1>6, <1>8, <1>9

-----------------------------------------------------------------------------
(* The lists.                                                              *)

PipeRec == [n : {"uart", "file", "fd"}, mode : {"in", "out", "inout"},
            dev : Devs \cup {NULL}]

\* A pipe that a task has open is on its device's list, and no event of its
\* end is queued; the event that frees a pipe is queued once, while the pipe
\* is on the list.
ListInv(s, own) ==
    /\ nalloc \in 0 .. NBufs
    /\ pipe \in [Pids -> PipeRec] /\ pipes \in [Devs -> Seq(Pids)]
    /\ s \in Seq(Events) /\ own \subseteq Pids
    /\ \A p \in Pids : pipe[p].dev \in {NULL, Uart, p}
    /\ \A p \in Pids : p > nalloc => pipe[p].dev = NULL
    /\ \A d \in Devs : /\ Range(pipes[d]) = {p \in Pids : pipe[p].dev = d}
                       /\ NoRepeat(pipes[d])
    /\ \A p \in own : pipe[p].dev # NULL /\ ~About(s, 2, p) /\ ~About(s, 3, p)
    /\ Once(s) /\ \A p \in Pids : About(s, 3, p) => pipe[p].dev # NULL
    /\ UpTo(s, nalloc)

\* At the start there are no pipes.
LEMMA InitLists == Init => ListInv(q, owned)
<1> SUFFICES ASSUME Init PROVE ListInv(q, owned)
  OBVIOUS
<1> USE DEF Init
<1>1. nalloc \in 0 .. NBufs /\ owned \subseteq Pids
  BY PipeAssumption
<1>2. pipe \in [Pids -> PipeRec] /\ \A p \in Pids : pipe[p].dev = NULL
  BY DEF PipeRec
<1>3. <<>> \in Seq(Pids) /\ q \in Seq(Events) /\ Len(<<>>) = 0 /\ Len(q) = 0
  OBVIOUS
<1>4. pipes \in [Devs -> Seq(Pids)] /\ \A d \in Devs : pipes[d] = <<>>
  BY <1>3
<1>5. \A d \in Devs : d # NULL
  BY PipeAssumption DEF Devs, Uart, Pids, NULL
<1>6. Range(<<>>) = {} /\ NoRepeat(<<>>)
  BY <1>3 DEF Range, NoRepeat
<1>7. Once(q) /\ UpTo(q, nalloc) /\ \A k, p : ~About(q, k, p)
  BY <1>3 DEF Once, UpTo, About
<1>8. \A d \in Devs : /\ Range(pipes[d]) = {p \in Pids : pipe[p].dev = d}
                      /\ NoRepeat(pipes[d])
  BY <1>2, <1>4, <1>5, <1>6
<1> QED
  BY <1>1, <1>2, <1>3, <1>4, <1>7, <1>8 DEF ListInv

\* The invariant of the lists when an event has been handled that changes no
\* list.
LEMMA TailLists ==
    ASSUME NEW s, NEW own, ListInv(s, own), s # <<>>
    PROVE  ListInv(Tail(s), own)
<1>1. s \in Seq(Events)
  BY DEF ListInv
<1>2. /\ Tail(s) \in Seq(Events)
      /\ \A k, p : About(Tail(s), k, p) => About(s, k, p)
      /\ Once(s) => Once(Tail(s))
      /\ UpTo(s, nalloc) => UpTo(Tail(s), nalloc)
  BY <1>1, TailEvents
<1> QED
  BY <1>2 DEF ListInv

\* The invariant of the lists when an event is queued: only pipes that no task
\* has open are closed, and only one that is on a list is freed, and once.
LEMMA AppendLists ==
    ASSUME NEW s, NEW own, ListInv(s, own), NEW x \in Events,
           x[2] \in Pids, x[2] <= nalloc,
           Rank(x[1]) \in {2, 3} => x[2] \notin own,
           Rank(x[1]) = 3 => ~About(s, 3, x[2]) /\ pipe[x[2]].dev # NULL
    PROVE  ListInv(Append(s, x), own)
<1>1. s \in Seq(Events)
  BY DEF ListInv
<1>2. /\ Append(s, x) \in Seq(Events)
      /\ \A k, p : About(Append(s, x), k, p) <=>
                 About(s, k, p) \/ (x[2] = p /\ Rank(x[1]) = k)
      /\ Once(s) /\ (Rank(x[1]) = 3 => ~About(s, 3, x[2])) => Once(Append(s, x))
      /\ UpTo(s, nalloc) /\ x[2] <= nalloc => UpTo(Append(s, x), nalloc)
  BY <1>1, AppendedEvent
<1> DEFINE t == Append(s, x)
<1> HIDE DEF t
<1>3. t \in Seq(Events) /\ Once(t) /\ UpTo(t, nalloc)
  BY <1>2 DEF ListInv, t
<1>4. \A p \in own : ~About(t, 2, p) /\ ~About(t, 3, p)
  BY <1>2 DEF ListInv, t
<1>5. \A p \in Pids : About(t, 3, p) => pipe[p].dev # NULL
  BY <1>2 DEF ListInv, t
<1>6. ListInv(t, own)
  BY <1>3, <1>4, <1>5 DEF ListInv
<1> QED
  BY <1>6 DEF t

\* Neither event of pipe_close, the first, or both fit in the queue.
LEMMA ClosingCases ==
    ASSUME NEW s \in Seq(Events), NEW p \in Pids
    PROVE  \E x \in Events :
              /\ x[2] = p /\ Rank(x[1]) = 2
              /\ Trigger(s, CloseEvents(p)) \in
                    {s, Append(s, x), Append(Append(s, x), <<"really_closed", p>>)}
<1> DEFINE x == <<IF In(p) THEN "in_closed" ELSE "out_closed", p>>
<1>1. x \in Events /\ <<"really_closed", p>> \in Events
  BY DEF Events, Kinds
<1>2. x[2] = p /\ Rank(x[1]) = 2
  BY Ranks
<1>3. CloseEvents(p) = <<x, <<"really_closed", p>>>>
  BY DEF CloseEvents
<1> HIDE DEF x
<1> QED
  BY ZenonT(40), <1>1, <1>2, <1>3, TriggerTwo

\* pipe_close: the pipe is no longer open, and the event that frees it is
\* queued, unless the queue is full.
LEMMA ClosingLists ==
    ASSUME NEW s, NEW own, ListInv(s, own), NEW p \in own
    PROVE  ListInv(Trigger(s, CloseEvents(p)), own \ {p})
<1>1. /\ s \in Seq(Events) /\ p \in Pids /\ pipe[p].dev # NULL
      /\ ~About(s, 2, p) /\ ~About(s, 3, p) /\ p \in Int /\ nalloc \in Int
      /\ p > nalloc => pipe[p].dev = NULL
  BY PipeAssumption DEF ListInv, Pids
<1>2. p <= nalloc
  BY <1>1
<1>3. PICK x \in Events :
              /\ x[2] = p /\ Rank(x[1]) = 2
              /\ Trigger(s, CloseEvents(p)) \in
                    {s, Append(s, x), Append(Append(s, x), <<"really_closed", p>>)}
  BY <1>1, ClosingCases
<1> DEFINE own1 == own \ {p}
           y == <<"really_closed", p>>
           t == Append(s, x)
<1>4. p \notin own1
  OBVIOUS
<1>5. ListInv(s, own1)
  BY DEF ListInv
<1> HIDE DEF own1
<1>6. ListInv(t, own1)
  BY <1>1, <1>2, <1>3, <1>4, <1>5, AppendLists
<1>7. y \in Events /\ y[2] = p /\ Rank(y[1]) = 3
  BY <1>1, Ranks DEF Events, Kinds
<1>8. ~About(t, 3, p)
  <2>1. \A k, r : About(t, k, r) <=>
                 About(s, k, r) \/ (x[2] = r /\ Rank(x[1]) = k)
    BY <1>1, AppendedEvent
  <2> QED
    BY <1>1, <1>3, <2>1
<1> HIDE DEF t, y
<1>9. ListInv(Append(t, y), own1)
  BY <1>1, <1>2, <1>4, <1>6, <1>7, <1>8, AppendLists
<1> QED
  BY Zenon, <1>3, <1>5, <1>6, <1>9 DEF own1, t, y

\* idle() queues the events of the descriptors that are ready.
LEMMA ReadyLists ==
    ASSUME NEW own, ListInv(<<>>, own), NEW es \in Seq(Events), UpTo(es, nalloc),
           \A i \in 1 .. Len(es) : Rank(es[i][1]) = 0
    PROVE  ListInv(Trigger(<<>>, es), own)
<1> DEFINE t == Trigger(<<>>, es)
<1>1. t \in Seq(Events) /\ Once(t) /\ UpTo(t, nalloc) /\ \A k \in 1 .. 3 : \A p : ~About(t, k, p)
  BY TriggerReady
<1> HIDE DEF t
<1>2. \A p : ~About(t, 2, p) /\ ~About(t, 3, p)
  BY <1>1
<1>3. ListInv(t, own)
  BY <1>1, <1>2 DEF ListInv
<1> QED
  BY <1>3 DEF t

\* pipe_open takes the next buffer and, if the device is there, puts the pipe
\* at the head of the device's list.
LEMMA AllocatedLists ==
    ASSUME NEW s, NEW own, ListInv(s, own), NEW dev, nalloc < NBufs,
           NEW n \in {"uart", "file", "fd"}, NEW mode \in {"in", "out", "inout"},
           Allocated(n, mode, dev),
           dev = NULL => pipes' = pipes /\ q' = s /\ owned' = own,
           dev # NULL => dev \in {Uart, nalloc + 1} /\ Listed(dev, mode, s, own)
    PROVE  ListInv(q, owned)' 
<1> DEFINE p == nalloc + 1
<1>1. p \in Pids /\ nalloc \in Nat /\ nalloc' = p /\ p > nalloc /\ p \in Nat /\ p <= NBufs
  BY PipeAssumption DEF ListInv, Pids, Allocated
<1>2. /\ s \in Seq(Events) /\ own \subseteq Pids /\ Once(s) /\ UpTo(s, nalloc)
      /\ pipe \in [Pids -> PipeRec] /\ pipes \in [Devs -> Seq(Pids)]
      /\ \A r \in Pids : pipe[r].dev \in {NULL, Uart, r}
      /\ \A r \in Pids : r > nalloc => pipe[r].dev = NULL
      /\ \A r \in own : pipe[r].dev # NULL /\ ~About(s, 2, r) /\ ~About(s, 3, r)
      /\ \A r \in Pids : About(s, 3, r) => pipe[r].dev # NULL
      /\ \A d \in Devs : Range(pipes[d]) = {r \in Pids : pipe[r].dev = d} /\ NoRepeat(pipes[d])
  BY DEF ListInv
<1>3. pipe[p].dev = NULL /\ p \notin own /\ ~About(s, 3, p)
  BY <1>1, <1>2
<1>4. NULL \notin Devs /\ Uart \in Devs /\ p \in Devs /\ dev \in Devs \cup {NULL} /\ Devs \cap {NULL} = {}
  BY <1>1, PipeAssumption DEF Devs, Uart, Pids, NULL
<1>5. /\ pipe' \in [Pids -> PipeRec]
      /\ pipe'[p].dev = dev /\ \A r \in Pids : r # p => pipe'[r] = pipe[r]
  <2>1. pipe' = [pipe EXCEPT ![p] = [n |-> n, mode |-> mode, dev |-> dev]]
    BY DEF Allocated
  <2>2. [n |-> n, mode |-> mode, dev |-> dev] \in PipeRec
    BY <1>4 DEF PipeRec
  <2> QED
    BY <1>1, <1>2, <2>1, <2>2
<1> HIDE DEF p
<1>6. \A r \in Pids : pipe'[r].dev \in {NULL, Uart, r}
  BY <1>2, <1>5 DEF p
<1>7. \A r \in Pids : r > nalloc' => pipe'[r].dev = NULL
  <2> TAKE r \in Pids
  <2>1. r \in Int
    BY DEF Pids
  <2>2. r > nalloc' => r > nalloc /\ r # p
    BY <1>1, <2>1
  <2> QED
    BY <1>2, <1>5, <2>2
<1>8. \A r \in own : pipe'[r].dev # NULL
  BY <1>2, <1>3, <1>5
<1>9. \A r \in Pids : About(s, 3, r) => pipe'[r].dev # NULL
  BY <1>2, <1>3, <1>5
<1>10. UpTo(s, nalloc')
  <2> SUFFICES ASSUME NEW i \in 1 .. Len(s) PROVE s[i][2] <= nalloc'
    BY DEF UpTo
  <2>1. s[i] \in Events /\ s[i][2] <= nalloc
    BY <1>2, ElementOfSeq DEF UpTo
  <2>2. s[i][2] \in Int
    BY <2>1 DEF Events, Pids
  <2> QED
    BY <1>1, <2>1, <2>2
<1>11. CASE dev = NULL
  <2>1. \A d \in Devs : {r \in Pids : pipe'[r].dev = d} = {r \in Pids : pipe[r].dev = d}
    BY <1>3, <1>4, <1>5, <1>11
  <2>2. nalloc' \in 0 .. NBufs
    BY <1>1, PipeAssumption
  <2> QED
    BY <1>2, <1>5, <1>6, <1>7, <1>8, <1>9, <1>10, <1>11, <2>1, <2>2 DEF ListInv
<1>12. CASE dev # NULL
  <2>0. dev \in Devs
    BY <1>4, <1>12
  <2>1. /\ pipes' = [pipes EXCEPT ![dev] = <<p>> \o pipes[dev]]
        /\ owned' = own \cup {p}
        /\ q' = Trigger(s, <<<<IF mode # "out" THEN "in_opened" ELSE "out_opened", p>>>>)
    BY <1>2, <1>12, <2>0 DEF Listed, p
  <2> DEFINE x == <<IF mode # "out" THEN "in_opened" ELSE "out_opened", p>>
  <2>2. x \in Events /\ x[2] = p /\ Rank(x[1]) = 1
    BY <1>1, Ranks DEF Events, Kinds
  <2> HIDE DEF x
  <2>3. q' \in {s, Append(s, x)}
    BY Zenon, <1>2, <2>1, <2>2, TriggerOne DEF x
  <2>4. nalloc' \in 0 .. NBufs
    BY <1>1, PipeAssumption
  <2>5. \A d \in Devs : d # dev => pipes'[d] = pipes[d] /\ {r \in Pids : pipe'[r].dev = d} = {r \in Pids : pipe[r].dev = d}
    BY ZenonT(40), <1>2, <1>3, <1>4, <1>5, <2>1
  <2>6. {r \in Pids : pipe'[r].dev = dev} = {r \in Pids : pipe[r].dev = dev} \cup {p}
    BY <1>1, <1>5
  <2>7. p \notin Range(pipes[dev])
    BY <1>2, <1>3, <2>0, <1>4
  <2>8. <<p>> \o pipes[dev] \in Seq(Pids) /\ Range(<<p>> \o pipes[dev]) = Range(pipes[dev]) \cup {p}
        /\ NoRepeat(<<p>> \o pipes[dev])
    <3> DEFINE l == pipes[dev]
    <3>1. l \in Seq(Pids) /\ NoRepeat(l) /\ p \notin Range(l)
      BY <1>2, <2>0, <2>7
    <3> HIDE DEF l
    <3>2. <<p>> \o l \in Seq(Pids) /\ Range(<<p>> \o l) = Range(l) \cup {p} /\ NoRepeat(<<p>> \o l)
      BY <1>1, <3>1, Prepended
    <3> QED
      BY <3>2 DEF l
  <2>9. pipes' \in [Devs -> Seq(Pids)] /\ pipes'[dev] = <<p>> \o pipes[dev]
    BY <1>2, <2>0, <2>1, <2>8
  <2>10. \A d \in Devs : Range(pipes'[d]) = {r \in Pids : pipe'[r].dev = d} /\ NoRepeat(pipes'[d])
    <3> TAKE d \in Devs
    <3>1. CASE d = dev
      BY Zenon, <1>2, <2>6, <2>8, <2>9, <3>1
    <3>2. CASE d # dev
      BY <1>2, <2>5, <3>2
    <3> QED
      BY <3>1, <3>2
  <2>11. /\ q' \in Seq(Events) /\ Once(q') /\ UpTo(q', nalloc')
         /\ \A r : (About(q', 2, r) <=> About(s, 2, r)) /\ (About(q', 3, r) <=> About(s, 3, r))
    <3>1. CASE q' = s
      BY <1>2, <1>10, <3>1
    <3>2. CASE q' = Append(s, x)
      <4>1. /\ Append(s, x) \in Seq(Events)
            /\ \A k, r : About(Append(s, x), k, r) <=>
                 About(s, k, r) \/ (x[2] = r /\ Rank(x[1]) = k)
            /\ Once(s) /\ (Rank(x[1]) = 3 => ~About(s, 3, x[2])) => Once(Append(s, x))
            /\ \A m : UpTo(s, m) /\ x[2] <= m => UpTo(Append(s, x), m)
        BY <1>2, <2>2, AppendedEvent
      <4>2. UpTo(Append(s, x), nalloc')
        BY <1>1, <1>10, <2>2, <4>1
      <4> QED
        BY <1>2, <2>2, <3>2, <4>1, <4>2
    <3> QED
      BY <2>3, <3>1, <3>2
  <2>12. \A r \in owned' : pipe'[r].dev # NULL /\ ~About(q', 2, r) /\ ~About(q', 3, r)
    <3>1. ~About(s, 2, p)
      <4> SUFFICES ASSUME NEW i \in 1 .. Len(s), s[i][2] = p PROVE FALSE
        BY DEF About
      <4>1. p <= nalloc
        BY <1>2 DEF UpTo
      <4> QED
        BY <1>1, <4>1
    <3> QED
      BY Zenon, <1>2, <1>3, <1>5, <1>8, <1>12, <2>1, <2>11, <3>1
  <2>13. owned' \subseteq Pids
    BY <1>1, <1>2, <2>1
  <2> QED
    BY ZenonT(40), <1>5, <1>6, <1>7, <1>9, <2>4, <2>9, <2>10, <2>11, <2>12, <2>13 DEF ListInv
<1> QED
  BY <1>11, <1>12

\* pipe_open, on each of its paths.
LEMMA OpenLists ==
    ASSUME NEW s, NEW own, ListInv(s, own), NEW flt,
           NEW n \in {"uart", "file", "fd"}, NEW mode \in {"in", "out", "inout"},
           pipe_open(n, mode, s, own, flt)
    PROVE  ListInv(q, owned)'
<1>1. CASE OpenNoBuffer(s, own, flt)
  BY <1>1 DEF OpenNoBuffer, ListInv
<1>2. NULL # Uart /\ NULL # nalloc + 1
  BY DEF NULL, Uart, ListInv
<1>3. CASE n = "uart" /\ OpenUart(mode, s, own, flt)
  BY <1>2, <1>3, AllocatedLists DEF OpenUart
<1>4. CASE n = "uart" /\ OpenUartFails(mode, s, own, flt)
  BY <1>4, AllocatedLists DEF OpenUartFails
<1>5. CASE n # "uart" /\ OpenNoSlot(n, mode, s, own, flt)
  BY <1>5, AllocatedLists DEF OpenNoSlot
<1>6. CASE n # "uart" /\ OpenUnix(n, mode, s, own, flt)
  BY Zenon, <1>2, <1>6, AllocatedLists DEF OpenUnix
<1>7. CASE n = "file" /\ OpenUnixFails(mode, s, own, flt)
  BY <1>7, AllocatedLists DEF OpenUnixFails
<1> QED
  BY <1>1, <1>3, <1>4, <1>5, <1>6, <1>7 DEF pipe_open

\* The handler of the event that frees a pipe finds its device, takes the pipe
\* off the device's list, and closes the device of a file.
LEMMA FreedLists ==
    ASSUME ListInv(q, owned), ReallyClosed
    PROVE  /\ ListInv(q, owned)' /\ faults' = faults
           /\ LET p == Head(q)[2]
              IN  /\ p \in Pids /\ pipe[p].dev # NULL /\ p \notin owned
                  /\ pipe' = [pipe EXCEPT ![p].dev = NULL]
                  /\ pipe[p].dev = p => /\ osfds' = osfds \ {fd[slot[p]]}
                                        /\ fd' = [fd EXCEPT ![slot[p]] = FREE_FD]
                  /\ pipe[p].dev = Uart => osfds' = osfds /\ fd' = fd
                  /\ spipe' = spipe /\ slot' = slot
<1> DEFINE p == Head(q)[2]
           d == pipe[p].dev
           l == pipes[d]
<1>1. /\ q \in Seq(Events) /\ q # <<>> /\ Head(q)[1] = "really_closed" /\ q' = Tail(q)
      /\ nalloc' = nalloc /\ owned' = owned
  BY Zenon DEF ReallyClosed, At, ListInv
<1>2. /\ Head(q) \in Events /\ About(q, 3, p)
      /\ Tail(q) \in Seq(Events)
      /\ \A k, r : About(Tail(q), k, r) => About(q, k, r)
      /\ Once(q) => Once(Tail(q))
      /\ UpTo(q, nalloc) => UpTo(Tail(q), nalloc)
      /\ Once(q) => ~About(Tail(q), 3, p)
  <2>1. Rank(Head(q)[1]) = 3
    BY <1>1, Ranks
  <2> QED
    BY <1>1, <2>1, TailEvents
<1>3. p \in Pids
  BY <1>1, <1>2 DEF Events
<1> HIDE DEF p
<1>4. /\ pipe \in [Pids -> PipeRec] /\ pipes \in [Devs -> Seq(Pids)]
      /\ nalloc \in 0 .. NBufs /\ owned \subseteq Pids
      /\ \A r \in Pids : pipe[r].dev \in {NULL, Uart, r}
      /\ \A r \in Pids : r > nalloc => pipe[r].dev = NULL
      /\ \A r \in owned : pipe[r].dev # NULL /\ ~About(q, 2, r) /\ ~About(q, 3, r)
      /\ \A r \in Pids : About(q, 3, r) => pipe[r].dev # NULL
      /\ \A c \in Devs : Range(pipes[c]) = {r \in Pids : pipe[r].dev = c} /\ NoRepeat(pipes[c])
      /\ Once(q) /\ UpTo(q, nalloc)
  BY DEF ListInv
<1>5. d # NULL /\ p \notin owned /\ d \in {Uart, p} /\ d \in Devs
  BY <1>2, <1>3, <1>4 DEF Devs
<1>6. /\ pipes' = [pipes EXCEPT ![d] = list_del(p, pipes[d])]
      /\ pipe' = [pipe EXCEPT ![p].dev = NULL]
      /\ spipe' = spipe /\ slot' = slot /\ faults' = faults
      /\ d # Uart /\ list_del(p, pipes[d]) = <<>> =>
            osfds' = osfds \ {FdOf(p)} /\ fd' = [fd EXCEPT ![slot[d]] = FREE_FD]
      /\ d = Uart => osfds' = osfds /\ fd' = fd
  BY Zenon, <1>4, <1>5 DEF ReallyClosed, p
<1>7. NULL \notin Devs /\ NULL # p
  BY <1>3, PipeAssumption DEF Devs, Uart, Pids, NULL
<1>8. /\ pipe' \in [Pids -> PipeRec] /\ pipe'[p].dev = NULL
      /\ \A r \in Pids : r # p => pipe'[r] = pipe[r]
  <2> DEFINE w == [pipe[p] EXCEPT !.dev = NULL]
  <2>1. w \in PipeRec /\ w.dev = NULL
    <3>1. pipe[p] \in PipeRec
      BY <1>3, <1>4
    <3> QED
      BY <3>1 DEF PipeRec
  <2>2. pipe' = [pipe EXCEPT ![p] = w]
    BY <1>6
  <2> HIDE DEF w
  <2> QED
    BY <1>3, <1>4, <2>1, <2>2
<1>9. l \in Seq(Pids) /\ NoRepeat(l) /\ p \in Range(l) /\ Range(l) = {r \in Pids : pipe[r].dev = d}
  BY <1>3, <1>4, <1>5
<1> HIDE DEF l
<1>10. /\ list_del(p, l) \in Seq(Pids) /\ Range(list_del(p, l)) = Range(l) \ {p}
       /\ NoRepeat(list_del(p, l))
  BY <1>9, Deleted
<1>11. pipes' \in [Devs -> Seq(Pids)] /\ pipes'[d] = list_del(p, l)
       /\ \A c \in Devs : c # d => pipes'[c] = pipes[c]
  BY <1>4, <1>5, <1>6, <1>10 DEF l
<1> HIDE DEF d
<1>12. \A c \in Devs : Range(pipes'[c]) = {r \in Pids : pipe'[r].dev = c} /\ NoRepeat(pipes'[c])
  <2> TAKE c \in Devs
  <2>1. CASE c = d
    <3>1. {r \in Pids : pipe'[r].dev = d} = {r \in Pids : pipe[r].dev = d} \ {p}
      BY <1>5, <1>7, <1>8
    <3> QED
      BY <1>9, <1>10, <1>11, <2>1, <3>1
  <2>2. CASE c # d
    <3>1. {r \in Pids : pipe'[r].dev = c} = {r \in Pids : pipe[r].dev = c}
      BY <1>5, <1>7, <1>8, <2>2 DEF d
    <3> QED
      BY <1>4, <1>11, <2>2, <3>1
  <2> QED
    BY <2>1, <2>2
<1>13. \A r \in Pids : pipe'[r].dev \in {NULL, Uart, r}
  BY <1>4, <1>8
<1>14. \A r \in Pids : r > nalloc' => pipe'[r].dev = NULL
  BY Zenon, <1>1, <1>4, <1>8
<1>15. \A r \in owned : pipe'[r].dev # NULL
  BY <1>4, <1>5, <1>8
<1>16. \A r \in Pids : About(Tail(q), 3, r) => pipe'[r].dev # NULL
  BY <1>2, <1>4, <1>8
<1>17. ListInv(q, owned)'
  BY <1>1, <1>2, <1>4, <1>8, <1>11, <1>12, <1>13, <1>14, <1>15, <1>16 DEF ListInv
<1>18. ASSUME d = p PROVE list_del(p, pipes[d]) = <<>> /\ d # Uart
  <2>1. d # Uart
    BY <1>3, <1>18 DEF Uart, Pids
  <2>2. Range(l) = {p}
    <3>1. \A r \in Pids : pipe[r].dev \in {NULL, Uart, r}
      BY Zenon, <1>4
    <3>2. Range(l) = {r \in Pids : pipe[r].dev = p} /\ p \in Range(l)
      BY Zenon, <1>9, <1>18
    <3>3. \A r \in Pids : pipe[r].dev = p => r = p
      BY Zenon, <1>7, <1>18, <2>1, <3>1
    <3> QED
      BY Zenon, <1>3, <3>2, <3>3
  <2>3. Range(list_del(p, l)) = {}
    BY <1>10, <2>2
  <2> DEFINE m == list_del(p, l)
  <2>4. m \in Seq(Pids) /\ Range(m) = {}
    BY <1>10, <2>3
  <2> HIDE DEF m
  <2>5. m = <<>>
    <3> SUFFICES ASSUME m # <<>> PROVE FALSE
      OBVIOUS
    <3>1. Len(m) \in Nat \ {0} /\ DOMAIN m = 1 .. Len(m)
      BY <2>4, EmptySeq, LenProperties
    <3>2. 1 \in DOMAIN m
      BY <3>1
    <3> QED
      BY <2>4, <3>2 DEF Range
  <2> QED
    BY <2>1, <2>5 DEF m, l
<1>19. d = p => /\ osfds' = osfds \ {fd[slot[p]]}
                /\ fd' = [fd EXCEPT ![slot[p]] = FREE_FD]
  BY <1>6, <1>18 DEF FdOf, d
<1> QED
  BY <1>3, <1>5, <1>6, <1>17, <1>19 DEF p, d

\* The events of a descriptor that is ready are about pipes of the device's list.
LEMMA ReadyOnList ==
    ASSUME ListInv(q, owned), NEW p \in Pids, pipe[p].dev # NULL
    PROVE  /\ ReadyEvents(p) \in Seq(Events)
           /\ UpTo(ReadyEvents(p), nalloc)
           /\ \A i \in 1 .. Len(ReadyEvents(p)) : Rank(ReadyEvents(p)[i][1]) = 0
<1> DEFINE l == pipes[pipe[p].dev]
           a == [k \in DOMAIN l |-> <<"input_ready", l[k]>>]
           b == [k \in DOMAIN l |-> <<"output_ready", l[k]>>]
           i == IF In(p) THEN a ELSE <<>>
           o == IF Out(p) THEN b ELSE <<>>
<1>1. pipe[p].dev \in Devs /\ nalloc \in Int
  <2>1. pipe[p].dev \in {NULL, Uart, p} /\ nalloc \in 0 .. NBufs
    BY Zenon DEF ListInv
  <2>2. pipe[p].dev \in Devs
    BY Zenon, <2>1 DEF Devs
  <2> QED
    BY <2>1, <2>2, PipeAssumption
<1>2. l \in Seq(Pids) /\ Range(l) = {r \in Pids : pipe[r].dev = pipe[p].dev}
  BY <1>1 DEF ListInv
<1>3. \A k \in 1 .. Len(l) : l[k] \in Pids /\ l[k] <= nalloc
  <2> TAKE k \in 1 .. Len(l)
  <2>1. l[k] \in Pids /\ pipe[l[k]].dev # NULL
    BY <1>2, LenProperties DEF Range
  <2>2. l[k] \in Int
    BY <2>1 DEF Pids
  <2> QED
    BY <1>1, <2>1, <2>2 DEF ListInv
<1> HIDE DEF l
<1>4. Len(l) \in Nat /\ DOMAIN l = 1 .. Len(l)
  BY <1>2, LenProperties
<1> DEFINE Good(s) == /\ s \in Seq(Events)
                      /\ \A k \in 1 .. Len(s) : s[k][2] <= nalloc /\ Rank(s[k][1]) = 0
<1>5. Good(a)
  <2>1. \A k \in 1 .. Len(l) : <<"input_ready", l[k]>> \in Events
    BY <1>3 DEF Events, Kinds
  <2>2. a \in [1 .. Len(l) -> Events] /\ DOMAIN a = 1 .. Len(l)
    BY <1>4, <2>1
  <2>3. \A k \in 1 .. Len(l) : a[k] = <<"input_ready", l[k]>>
    BY <1>4
  <2> HIDE DEF a
  <2>4. a \in Seq(Events)
    BY <1>4, <2>2, SeqDef
  <2>5. 1 .. Len(a) = 1 .. Len(l)
    BY <2>2, <2>4, LenProperties
  <2> QED
    BY <1>3, <2>3, <2>4, <2>5, Ranks
<1>6. Good(b)
  <2>1. \A k \in 1 .. Len(l) : <<"output_ready", l[k]>> \in Events
    BY <1>3 DEF Events, Kinds
  <2>2. b \in [1 .. Len(l) -> Events] /\ DOMAIN b = 1 .. Len(l)
    BY <1>4, <2>1
  <2>3. \A k \in 1 .. Len(l) : b[k] = <<"output_ready", l[k]>>
    BY <1>4
  <2> HIDE DEF b
  <2>4. b \in Seq(Events)
    BY <1>4, <2>2, SeqDef
  <2>5. 1 .. Len(b) = 1 .. Len(l)
    BY <2>2, <2>4, LenProperties
  <2> QED
    BY <1>3, <2>3, <2>4, <2>5, Ranks
<1>7. Good(<<>>)
  BY EmptySeq
<1>8. Good(i) /\ Good(o)
  <2> HIDE DEF Good, a, b
  <2> QED
    BY <1>5, <1>6, <1>7
<1>9. ReadyEvents(p) = i \o o
  BY DEF ReadyEvents, i, o, a, b, l
<1> HIDE DEF i, o
<1>10. Good(i \o o)
  <2>1. i \in Seq(Events) /\ o \in Seq(Events)
    BY <1>8
  <2>2. /\ i \o o \in Seq(Events) /\ Len(i \o o) = Len(i) + Len(o)
        /\ \A k \in 1 .. Len(i) + Len(o) : (i \o o)[k] = IF k <= Len(i) THEN i[k] ELSE o[k - Len(i)]
    BY <2>1, ConcatProperties
  <2>3. Len(i) \in Nat /\ Len(o) \in Nat
    BY <2>1, LenProperties
  <2> DEFINE s == i \o o
  <2> HIDE DEF s
  <2>4. ASSUME NEW k \in 1 .. Len(s) PROVE s[k][2] <= nalloc /\ Rank(s[k][1]) = 0
    <3>1. CASE k <= Len(i)
      <4>1. k \in 1 .. Len(i) /\ s[k] = i[k]
        BY <2>2, <2>3, <2>4, <3>1 DEF s
      <4> QED
        BY <1>8, <4>1
    <3>2. CASE ~(k <= Len(i))
      <4>1. k - Len(i) \in 1 .. Len(o) /\ s[k] = o[k - Len(i)]
        BY <2>2, <2>3, <2>4, <3>2 DEF s
      <4> QED
        BY <1>8, <4>1
    <3> QED
      BY <3>1, <3>2
  <2>5. s \in Seq(Events)
    BY <2>2 DEF s
  <2> QED
    BY <2>4, <2>5 DEF s
<1> QED
  BY <1>9, <1>10 DEF UpTo

-----------------------------------------------------------------------------
(* The descriptors.                                                        *)

\* The slots that are taken and the pipes that have a file correspond to each
\* other, and no two of them have the same descriptor.
SlotInv ==
    /\ fd \in [1 .. NSlots -> Fds \cup {FREE_FD}]
    /\ spipe \in [1 .. NSlots -> Pids \cup {NULL}]
    /\ slot \in [Pids -> 1 .. NSlots \cup {NULL}]
    /\ osfds \subseteq Fds
    /\ \A p \in Pids : pipe[p].n # "fd"
    /\ \A p \in Pids : pipe[p].dev = p =>
          slot[p] \in 1 .. NSlots /\ spipe[slot[p]] = p /\ fd[slot[p]] \in osfds
    /\ \A i \in 1 .. NSlots : fd[i] # FREE_FD =>
          spipe[i] \in Pids /\ pipe[spipe[i]].dev = spipe[i] /\ slot[spipe[i]] = i
    /\ \A i, j \in 1 .. NSlots : fd[i] = fd[j] /\ fd[i] # FREE_FD => i = j

\* idle() selects on descriptors of pipes that are open for reading, and no
\* longer on that of a pipe whose closed event has been handled.
WatchInv(s) ==
    /\ \A f \in rd_fdset : \E p \in Pids : pipe[p].dev = p /\ In(p) /\ fd[slot[p]] = f
    /\ \A p \in Pids : pipe[p].dev = p /\ About(s, 3, p) /\ ~About(s, 2, p) =>
          fd[slot[p]] \notin rd_fdset /\ ~About(s, 1, p)

FileInv(s, own) == ListInv(s, own) /\ Sorted(s) /\ SlotInv /\ WatchInv(s)

\* At the start there are no files.
LEMMA InitFiles == "fd" \notin Names /\ Init => FileInv(q, owned)
<1> SUFFICES ASSUME Init, "fd" \notin Names PROVE FileInv(q, owned)
  OBVIOUS
<1>1. ListInv(q, owned)
  BY InitLists
<1>2. Len(q) = 0
  BY DEF Init
<1>3. Sorted(q) /\ WatchInv(q)
  BY <1>2 DEF Sorted, WatchInv, About, Init
<1>4. \A p \in Pids : p # NULL
  BY DEF Pids, NULL
<1>5. SlotInv
  BY <1>4 DEF SlotInv, Init
<1> QED
  BY <1>1, <1>3, <1>5 DEF FileInv

\* A handler that leaves the pipes and the descriptors alone.
LEMMA TailFiles ==
    ASSUME NEW s, NEW own, FileInv(s, own), s # <<>>, Rank(Head(s)[1]) = 0
    PROVE  FileInv(Tail(s), own)
<1>1. s \in Seq(Events)
  BY DEF FileInv, ListInv
<1>2. /\ \A k, p : About(Tail(s), k, p) => About(s, k, p)
      /\ \A k, p : About(s, k, p) =>
                 About(Tail(s), k, p) \/ (Head(s)[2] = p /\ Rank(Head(s)[1]) = k)
      /\ Sorted(s) => Sorted(Tail(s))
  BY <1>1, TailEvents
<1>3. ListInv(Tail(s), own)
  BY TailLists DEF FileInv
<1>4. WatchInv(Tail(s))
  <2>1. WatchInv(s)
    BY DEF FileInv
  <2>2. \A k \in {1, 2, 3} : \A p : About(s, k, p) <=> About(Tail(s), k, p)
    BY <1>2
  <2> QED
    BY Zenon, <2>1, <2>2 DEF WatchInv
<1> QED
  BY <1>2, <1>3, <1>4 DEF FileInv

\* pipe_close: the events of closing and freeing come after those of opening.
LEMMA ClosingFiles ==
    ASSUME NEW s, NEW own, FileInv(s, own), NEW p \in own
    PROVE  FileInv(Trigger(s, CloseEvents(p)), own \ {p})
<1>1. /\ s \in Seq(Events) /\ p \in Pids /\ Sorted(s) /\ WatchInv(s)
      /\ ~About(s, 2, p) /\ ~About(s, 3, p)
  BY DEF FileInv, ListInv
<1>2. PICK x \in Events :
              /\ x[2] = p /\ Rank(x[1]) = 2
              /\ Trigger(s, CloseEvents(p)) \in
                    {s, Append(s, x), Append(Append(s, x), <<"really_closed", p>>)}
  BY <1>1, ClosingCases
<1> DEFINE y == <<"really_closed", p>>
           t == Append(s, x)
           u == Append(t, y)
<1>3. y \in Events /\ y[2] = p /\ Rank(y[1]) = 3
  BY <1>1, Ranks DEF Events, Kinds
<1> HIDE DEF y
<1>4. /\ t \in Seq(Events)
      /\ \A k, r : About(t, k, r) <=> About(s, k, r) \/ (p = r /\ 2 = k)
      /\ Sorted(t)
  <2>1. /\ Append(s, x) \in Seq(Events)
        /\ \A k, r : About(Append(s, x), k, r) <=>
                 About(s, k, r) \/ (x[2] = r /\ Rank(x[1]) = k)
        /\ Sorted(s) /\ (\A k \in Nat : 0 < Rank(x[1]) /\ Rank(x[1]) < k => ~About(s, k, x[2]))
                 => Sorted(Append(s, x))
    BY <1>1, AppendedEvent
  <2>2. \A k \in Nat : 2 < k => ~About(s, k, p)
    <3> SUFFICES ASSUME NEW k \in Nat, 2 < k, About(s, k, p) PROVE FALSE
      OBVIOUS
    <3>1. PICK i \in 1 .. Len(s) : Rank(s[i][1]) = k
      BY DEF About
    <3>2. k = 3
      BY <3>1, RankType
    <3> QED
      BY <1>1, <3>2
  <2> QED
    BY <1>1, <1>2, <2>1, <2>2
<1> HIDE DEF t
<1>5. /\ \A k, r : About(u, k, r) <=> About(t, k, r) \/ (p = r /\ 3 = k)
      /\ Sorted(u)
  <2>1. /\ \A k, r : About(Append(t, y), k, r) <=>
                 About(t, k, r) \/ (y[2] = r /\ Rank(y[1]) = k)
        /\ Sorted(t) /\ (\A k \in Nat : 0 < Rank(y[1]) /\ Rank(y[1]) < k => ~About(t, k, y[2]))
                 => Sorted(Append(t, y))
    BY <1>3, <1>4, AppendedEvent
  <2>2. \A k \in Nat : 3 < k => ~About(t, k, p)
    <3> SUFFICES ASSUME NEW k \in Nat, 3 < k, About(t, k, p) PROVE FALSE
      OBVIOUS
    <3>1. PICK i \in 1 .. Len(t) : Rank(t[i][1]) = k
      BY DEF About
    <3> QED
      BY <3>1, RankType
  <2> QED
    BY <1>3, <1>4, <2>1, <2>2
<1> HIDE DEF u
<1>6. WatchInv(t)
  BY <1>1, <1>4 DEF WatchInv
<1>7. WatchInv(u)
  BY <1>1, <1>4, <1>5 DEF WatchInv
<1>8. ListInv(Trigger(s, CloseEvents(p)), own \ {p})
  BY ClosingLists DEF FileInv
<1>9. Trigger(s, CloseEvents(p)) \in {s, t, u}
  BY <1>2 DEF t, u, y
<1>10. SlotInv
  BY DEF FileInv
<1> QED
  BY <1>1, <1>4, <1>5, <1>6, <1>7, <1>8, <1>9, <1>10 DEF FileInv

\* Two pipes have neither a slot nor a descriptor in common.
LEMMA OwnDescriptors ==
    ASSUME SlotInv, NEW p \in Pids, NEW r \in Pids, p # r,
           pipe[p].dev = p, pipe[r].dev = r
    PROVE  slot[p] # slot[r] /\ fd[slot[p]] # fd[slot[r]]
<1>1. /\ slot[r] \in 1 .. NSlots /\ spipe[slot[r]] = r /\ fd[slot[r]] \in osfds
      /\ slot[p] \in 1 .. NSlots /\ spipe[slot[p]] = p
  BY DEF SlotInv
<1>2. fd[slot[r]] # FREE_FD
  BY <1>1 DEF SlotInv, FREE_FD, Fds
<1>3. fd[slot[p]] = fd[slot[r]] => slot[p] = slot[r]
  BY <1>1, <1>2 DEF SlotInv
<1> QED
  BY <1>1, <1>3

\* pipe_opened_handle, pipe_closed_handle and do_free_pipe.
LEMMA OpenedFiles == ASSUME FileInv(q, owned), Opened PROVE FileInv(q, owned)'
<1> DEFINE p == Head(q)[2]
           t == Tail(q)
<1>1. /\ q \in Seq(Events) /\ q # <<>> /\ Head(q)[1] \in {"in_opened", "out_opened"}
      /\ q' = t /\ UNCHANGED <<nalloc, pipe, pipes, fd, spipe, slot, osfds, owned>>
      /\ SlotInv /\ WatchInv(q) /\ Sorted(q)
  BY DEF Opened, At, ListInv, FileInv, port
<1>2. Rank(Head(q)[1]) = 1
  BY <1>1, Ranks
<1>3. /\ \A k, r : About(t, k, r) => About(q, k, r)
      /\ \A k, r : About(q, k, r) => About(t, k, r) \/ (p = r /\ 1 = k)
      /\ About(q, 1, p) /\ Sorted(t)
  BY <1>1, <1>2, TailEvents
<1>4. ListInv(t, owned)
  BY <1>1, TailLists DEF FileInv
<1>5. ListInv(q, owned)' /\ SlotInv'
  BY <1>1, <1>4 DEF ListInv, SlotInv
<1>6. p \in Pids
  BY <1>1, TailEvents DEF Events
<1> HIDE DEF p, t
<1>7. pipe[p].dev \in Pids => pipe[p].dev = p
  BY <1>6 DEF FileInv, ListInv, NULL, Uart, Pids
<1>8. rd_fdset' = rd_fdset \/ (pipe[p].dev = p /\ In(p) /\ rd_fdset' = rd_fdset \cup {fd[slot[p]]})
  BY <1>7 DEF Opened, HasFile, FdOf, sel, p
<1>9. \A f \in rd_fdset' : \E r \in Pids : pipe[r].dev = r /\ In(r) /\ fd[slot[r]] = f
  BY <1>1, <1>6, <1>8 DEF WatchInv
<1>10. ASSUME NEW r \in Pids, pipe[r].dev = r, About(t, 3, r), ~About(t, 2, r)
       PROVE  fd[slot[r]] \notin rd_fdset' /\ ~About(t, 1, r)
  <2>1. About(q, 3, r) /\ ~About(q, 2, r)
    BY <1>3, <1>10
  <2>2. fd[slot[r]] \notin rd_fdset /\ ~About(q, 1, r)
    BY <1>1, <1>10, <2>1 DEF WatchInv
  <2>3. r # p
    BY <1>3, <2>2
  <2>4. pipe[p].dev = p => fd[slot[r]] # fd[slot[p]]
    BY <1>1, <1>6, <1>10, <2>3, OwnDescriptors
  <2> QED
    BY <1>3, <1>8, <2>2, <2>4
<1>11. WatchInv(q)'
  BY <1>1, <1>9, <1>10 DEF WatchInv, In
<1> QED
  BY <1>1, <1>3, <1>5, <1>11 DEF FileInv

\* pipe_closed_handle: idle() no longer selects on the pipe's descriptor.
LEMMA ClosedFiles == ASSUME FileInv(q, owned), Closed PROVE FileInv(q, owned)'
<1> DEFINE p == Head(q)[2]
           t == Tail(q)
<1>1. /\ q \in Seq(Events) /\ q # <<>> /\ Head(q)[1] \in {"in_closed", "out_closed"}
      /\ q' = t /\ UNCHANGED <<nalloc, pipe, pipes, fd, spipe, slot, osfds, owned>>
      /\ SlotInv /\ WatchInv(q) /\ Sorted(q)
  BY DEF Closed, At, ListInv, FileInv, port
<1>2. Rank(Head(q)[1]) = 2
  BY <1>1, Ranks
<1>3. /\ \A k, r : About(t, k, r) => About(q, k, r)
      /\ \A k, r : About(q, k, r) => About(t, k, r) \/ (p = r /\ 2 = k)
      /\ Sorted(t)
  BY <1>1, <1>2, TailEvents
<1>4. ListInv(t, owned)
  BY <1>1, TailLists DEF FileInv
<1>5. ListInv(q, owned)' /\ SlotInv'
  BY <1>1, <1>4 DEF ListInv, SlotInv
<1>6. p \in Pids /\ ~About(t, 1, p)
  <2>1. p \in Pids
    BY <1>1, TailEvents DEF Events
  <2>2. \A k \in Nat : Sorted(q) /\ 0 < k /\ k < Rank(Head(q)[1]) => ~About(t, k, p)
    BY <1>1, TailEvents
  <2>3. Sorted(q)
    BY Zenon, <1>1
  <2>4. 1 \in Nat /\ 0 < 1 /\ 1 < Rank(Head(q)[1])
    BY <1>2
  <2> QED
    BY Zenon, <2>1, <2>2, <2>3, <2>4
<1> HIDE DEF p, t
<1>7. /\ rd_fdset' \subseteq rd_fdset
      /\ pipe[p].dev = p /\ In(p) => fd[slot[p]] \notin rd_fdset'
  <2>1. pipe[p].dev \in Pids => pipe[p].dev = p
    BY <1>6 DEF FileInv, ListInv, NULL, Uart, Pids
  <2> QED
    BY <1>6, <2>1 DEF Closed, HasFile, FdOf, sel, p
<1>8. ASSUME NEW r \in Pids, pipe[r].dev = r, About(t, 3, r), ~About(t, 2, r)
       PROVE  fd[slot[r]] \notin rd_fdset' /\ ~About(t, 1, r)
  <2>1. CASE r # p
    BY ZenonT(40), <1>1, <1>3, <1>7, <1>8, <2>1 DEF WatchInv
  <2>2. CASE r = p /\ In(p)
    BY <1>6, <1>7, <1>8, <2>2
  <2>3. CASE r = p /\ ~In(p)
    <3> SUFFICES ASSUME fd[slot[p]] \in rd_fdset PROVE FALSE
      BY <1>6, <1>7, <2>3
    <3>1. PICK c \in Pids : pipe[c].dev = c /\ In(c) /\ fd[slot[c]] = fd[slot[p]]
      BY <1>1 DEF WatchInv
    <3>2. c = p
      BY <1>1, <1>6, <1>8, <2>3, <3>1, OwnDescriptors
    <3> QED
      BY <2>3, <3>1, <3>2
  <2> QED
    BY <2>1, <2>2, <2>3
<1>9. WatchInv(q)'
  <2>1. \A f \in rd_fdset' : \E r \in Pids : pipe[r].dev = r /\ In(r) /\ fd[slot[r]] = f
    BY <1>1, <1>7 DEF WatchInv
  <2> QED
    BY <1>1, <1>8, <2>1 DEF WatchInv, In
<1> QED
  BY <1>1, <1>3, <1>5, <1>9 DEF FileInv

\* do_free_pipe closes the descriptor and gives the slot back; nobody selects on
\* the descriptor any more, because pipe_closed_handle has run before.
LEMMA FreedFiles == ASSUME FileInv(q, owned), ReallyClosed PROVE FileInv(q, owned)'
<1> DEFINE p == Head(q)[2]
           t == Tail(q)
<1>1. /\ q \in Seq(Events) /\ q # <<>> /\ Head(q)[1] = "really_closed"
      /\ q' = t /\ rd_fdset' = rd_fdset
      /\ SlotInv /\ WatchInv(q) /\ Sorted(q) /\ ListInv(q, owned)
  BY Zenon DEF ReallyClosed, At, ListInv, FileInv, sel
<1>2. Rank(Head(q)[1]) = 3
  BY <1>1, Ranks
<1>3. /\ \A k, r : About(t, k, r) => About(q, k, r)
      /\ \A k, r : About(q, k, r) => About(t, k, r) \/ (p = r /\ 3 = k)
      /\ Sorted(t) /\ About(q, 3, p)
  BY <1>1, <1>2, TailEvents
<1>4. \A k \in Nat : Sorted(q) /\ 0 < k /\ k < Rank(Head(q)[1]) => ~About(t, k, p)
  BY <1>1, TailEvents
<1>5. ~About(q, 2, p)
  <2>1. ~About(t, 2, p)
    BY <1>1, <1>2, <1>4
  <2> QED
    BY <1>3, <2>1
<1>6. /\ ListInv(q, owned)' /\ p \in Pids /\ pipe[p].dev # NULL
      /\ pipe' = [pipe EXCEPT ![p].dev = NULL]
      /\ pipe[p].dev = p => /\ osfds' = osfds \ {fd[slot[p]]}
                            /\ fd' = [fd EXCEPT ![slot[p]] = FREE_FD]
      /\ pipe[p].dev = Uart => osfds' = osfds /\ fd' = fd
      /\ spipe' = spipe /\ slot' = slot
  BY <1>1, FreedLists
<1> HIDE DEF p, t
<1>7. /\ pipe \in [Pids -> PipeRec]
      /\ \A r \in Pids : r # p => pipe'[r] = pipe[r]
      /\ pipe'[p].dev = NULL /\ pipe'[p].n = pipe[p].n
      /\ pipe[p].dev \in {p, Uart} /\ p # NULL /\ p # Uart
  <2>1. pipe \in [Pids -> PipeRec] /\ pipe[p].dev \in {p, Uart}
    BY <1>6 DEF FileInv, ListInv
  <2>2. pipe[p] \in PipeRec
    BY <1>6, <2>1
  <2> DEFINE w == [pipe[p] EXCEPT !.dev = NULL]
  <2>3. w.dev = NULL /\ w.n = pipe[p].n
    BY <2>2 DEF PipeRec
  <2>4. pipe' = [pipe EXCEPT ![p] = w]
    BY <1>6
  <2>5. p # NULL /\ p # Uart
    BY <1>6 DEF Pids, NULL, Uart
  <2> HIDE DEF w
  <2> QED
    BY <1>6, <2>1, <2>3, <2>4, <2>5
\* the descriptors of the other pipes
<1>8. ASSUME NEW r \in Pids, pipe'[r].dev = r
      PROVE  /\ r # p /\ pipe[r].dev = r /\ slot[r] \in 1 .. NSlots
             /\ fd'[slot[r]] = fd[slot[r]] /\ fd[slot[r]] \in osfds'
             /\ pipe[p].dev = p => fd[slot[r]] # fd[slot[p]]
  <2>1. r # p /\ pipe[r].dev = r
    BY <1>7, <1>8
  <2>2. slot[r] \in 1 .. NSlots /\ fd[slot[r]] \in osfds
    BY <1>1, <2>1 DEF SlotInv
  <2>3. CASE pipe[p].dev = p
    <3>1. slot[p] # slot[r] /\ fd[slot[p]] # fd[slot[r]]
      BY <1>1, <1>6, <2>1, <2>3, OwnDescriptors
    <3> QED
      BY Zenon, <1>1, <1>6, <2>1, <2>2, <2>3, <3>1 DEF SlotInv
  <2>4. CASE pipe[p].dev = Uart
    BY <1>6, <1>7, <2>1, <2>2, <2>4
  <2> QED
    BY <1>7, <2>1, <2>2, <2>3, <2>4
<1>9. ASSUME NEW i \in 1 .. NSlots, fd'[i] # FREE_FD
      PROVE  /\ fd'[i] = fd[i] /\ spipe[i] \in Pids
             /\ pipe'[spipe[i]].dev = spipe[i] /\ slot[spipe[i]] = i
  <2>1. fd'[i] = fd[i] /\ (pipe[p].dev = p => slot[p] # i)
    <3>1. fd \in [1 .. NSlots -> Fds \cup {FREE_FD}]
      BY <1>1 DEF SlotInv
    <3>2. CASE pipe[p].dev = p
      BY <1>6, <1>9, <3>1, <3>2
    <3>3. CASE pipe[p].dev = Uart
      BY <1>6, <1>7, <3>3
    <3> QED
      BY <1>7, <3>2, <3>3
  <2>2. spipe[i] \in Pids /\ pipe[spipe[i]].dev = spipe[i] /\ slot[spipe[i]] = i
    BY <1>1, <1>9, <2>1 DEF SlotInv
  <2>3. spipe[i] # p
    BY <2>1, <2>2
  <2> QED
    BY <1>7, <2>1, <2>2, <2>3
<1>10. SlotInv'
  <2>1. fd' \in [1 .. NSlots -> Fds \cup {FREE_FD}] /\ osfds' \subseteq Fds
    BY <1>1, <1>6, <1>7 DEF SlotInv
  <2>2. \A r \in Pids : pipe'[r].n # "fd"
    BY <1>1, <1>7 DEF SlotInv
  <2>3. \A r \in Pids : pipe'[r].dev = r =>
          slot'[r] \in 1 .. NSlots /\ spipe'[slot'[r]] = r /\ fd'[slot'[r]] \in osfds'
    BY <1>1, <1>6, <1>8 DEF SlotInv
  <2>4. \A i \in 1 .. NSlots : fd'[i] # FREE_FD =>
          spipe'[i] \in Pids /\ pipe'[spipe'[i]].dev = spipe'[i] /\ slot'[spipe'[i]] = i
    BY <1>6, <1>9
  <2>5. \A i, j \in 1 .. NSlots : fd'[i] = fd'[j] /\ fd'[i] # FREE_FD => i = j
    <3>1. \A i, j \in 1 .. NSlots : fd[i] = fd[j] /\ fd[i] # FREE_FD => i = j
      BY Zenon, <1>1 DEF SlotInv
    <3>2. \A i \in 1 .. NSlots : fd'[i] # FREE_FD => fd'[i] = fd[i]
      BY Zenon, <1>9
    <3> QED
      BY Zenon, <3>1, <3>2
  <2>6. spipe' \in [1 .. NSlots -> Pids \cup {NULL}] /\ slot' \in [Pids -> 1 .. NSlots \cup {NULL}]
    BY <1>1, <1>6 DEF SlotInv
  <2> QED
    BY <2>1, <2>2, <2>3, <2>4, <2>5, <2>6 DEF SlotInv
<1>11. \A f \in rd_fdset : \E r \in Pids : pipe'[r].dev = r /\ pipe'[r].mode \in {"in", "inout"} /\ fd'[slot[r]] = f
  <2> TAKE f \in rd_fdset
  <2>1. PICK r \in Pids : pipe[r].dev = r /\ In(r) /\ fd[slot[r]] = f
    BY <1>1 DEF WatchInv
  <2>2. r # p
    BY <1>1, <1>3, <1>5, <1>6, <2>1 DEF WatchInv
  <2>3. pipe'[r] = pipe[r]
    BY <1>7, <2>2
  <2>4. fd'[slot[r]] = f
    BY <1>8, <2>1, <2>3
  <2> QED
    BY <2>1, <2>3, <2>4 DEF In
<1>12. ASSUME NEW r \in Pids, pipe'[r].dev = r, About(t, 3, r), ~About(t, 2, r)
       PROVE  fd'[slot[r]] \notin rd_fdset /\ ~About(t, 1, r)
  <2>1. r # p /\ pipe[r].dev = r /\ fd'[slot[r]] = fd[slot[r]]
    BY <1>8, <1>12
  <2>2. About(q, 3, r) /\ ~About(q, 2, r)
    BY <1>3, <1>12
  <2>3. fd[slot[r]] \notin rd_fdset /\ ~About(q, 1, r)
    BY <1>1, <2>1, <2>2 DEF WatchInv
  <2> QED
    BY <1>3, <2>1, <2>3
<1>13. WatchInv(q)'
  BY <1>1, <1>6, <1>11, <1>12 DEF WatchInv, In
<1> QED
  BY <1>1, <1>3, <1>6, <1>10, <1>13 DEF FileInv

\* pipe_open.  First, what it does to the pipes and to the queue: p is a pipe
\* that was free, the others and the events about them stay.
NewPipe(p, mode, dev, s) ==
    /\ p \in Pids /\ pipe[p].dev = NULL /\ p # NULL /\ p # Uart
    /\ \A r \in Pids : r # p => pipe'[r] = pipe[r]
    /\ pipe'[p].dev = dev /\ pipe'[p].n # "fd"
    /\ pipe'[p].mode = mode
    /\ Sorted(q') /\ ~About(q', 3, p)
    /\ \A r \in Pids, k \in 1 .. 3 : r # p => (About(q', k, r) <=> About(s, k, r))

\* pipe_open takes the next pipe of the pool, on each path that gets one.
LEMMA AllocatedFiles ==
    ASSUME NEW s, NEW own, FileInv(s, own), NEW dev, nalloc < NBufs,
           NEW n \in {"uart", "file"}, NEW mode \in {"in", "out", "inout"},
           Allocated(n, mode, dev),
           dev = NULL => q' = s,
           dev # NULL => Listed(dev, mode, s, own)
    PROVE  NewPipe(nalloc + 1, mode, dev, s)
<1> DEFINE p == nalloc + 1
<1>1. /\ p \in Pids /\ nalloc \in Nat /\ p > nalloc /\ p # NULL /\ p # Uart
      /\ pipe \in [Pids -> PipeRec] /\ s \in Seq(Events) /\ Sorted(s) /\ UpTo(s, nalloc)
  BY PipeAssumption DEF FileInv, ListInv, Pids, NULL, Uart
<1>2. pipe[p].dev = NULL
  BY <1>1 DEF FileInv, ListInv
<1>3. \A k : ~About(s, k, p)
  <2> SUFFICES ASSUME NEW i \in 1 .. Len(s), s[i][2] = p PROVE FALSE
    BY DEF About
  <2>1. p <= nalloc
    BY Zenon, <1>1 DEF UpTo
  <2>2. nalloc \in Nat
    BY Zenon, <1>1
  <2> QED
    BY <2>1, <2>2
<1>4. pipe' = [pipe EXCEPT ![p] = [n |-> n, mode |-> mode, dev |-> dev]]
  BY DEF Allocated
<1> DEFINE w == [n |-> n, mode |-> mode, dev |-> dev]
<1>5. w.dev = dev /\ w.n # "fd" /\ w.mode = mode
  OBVIOUS
<1> HIDE DEF w, p
<1>6. /\ \A r \in Pids : r # p => pipe'[r] = pipe[r]
      /\ pipe'[p] = w
  BY <1>1, <1>4 DEF w
<1>7. CASE q' = s
  BY Zenon, <1>1, <1>2, <1>3, <1>5, <1>6, <1>7 DEF p, NewPipe
<1>8. CASE dev # NULL
  <2> DEFINE x == <<IF mode # "out" THEN "in_opened" ELSE "out_opened", p>>
  <2>1. q' = Trigger(s, <<x>>)
    BY <1>8 DEF Listed, p
  <2>2. x \in Events /\ x[2] = p /\ Rank(x[1]) = 1
    BY <1>1, Ranks DEF Events, Kinds
  <2> HIDE DEF x
  <2>3. q' \in {s, Append(s, x)}
    BY <1>1, <2>1, <2>2, TriggerOne
  <2>4. /\ \A k, r : About(Append(s, x), k, r) <=>
                 About(s, k, r) \/ (x[2] = r /\ Rank(x[1]) = k)
        /\ Sorted(s) /\ (\A k \in Nat : 0 < Rank(x[1]) /\ Rank(x[1]) < k => ~About(s, k, x[2]))
                 => Sorted(Append(s, x))
    BY <1>1, <2>2, AppendedEvent
  <2>5. Sorted(Append(s, x))
    BY <1>1, <1>3, <2>2, <2>4
  <2>6. CASE q' = Append(s, x)
    <3>1. /\ p \in Pids /\ pipe[p].dev = NULL /\ p # NULL /\ p # Uart
          /\ \A r \in Pids : r # p => pipe'[r] = pipe[r]
          /\ pipe'[p].dev = dev /\ pipe'[p].n # "fd"
          /\ pipe'[p].mode = mode
      BY Zenon, <1>1, <1>2, <1>5, <1>6
    <3>2. Sorted(q')
      BY Zenon, <2>5, <2>6
    <3>3. \A k, r : About(q', k, r) <=> About(s, k, r) \/ (p = r /\ 1 = k)
      BY Zenon, <2>2, <2>4, <2>6
    <3>4. ~About(q', 3, p)
      <4>1. ~(1 = 3)
        OBVIOUS
      <4> QED
        BY Zenon, <1>3, <3>3, <4>1
    <3>5. \A r \in Pids, k \in 1 .. 3 : r # p => (About(q', k, r) <=> About(s, k, r))
      BY Zenon, <3>3
    <3> QED
      BY Zenon, <3>1, <3>2, <3>4, <3>5 DEF p, NewPipe
  <2> QED
    BY <1>7, <2>3, <2>6
<1> QED
  BY <1>7, <1>8
=============================================================================
