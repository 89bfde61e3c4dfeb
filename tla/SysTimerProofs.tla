--------------------------- MODULE SysTimerProofs ---------------------------
(***************************************************************************)
(* A proof about SysTimer, for every number of tasks, of tick buffers and  *)
(* of events, and for every wrap of jiffies: a task is never lost and      *)
(* never scheduled twice.                                                  *)
(***************************************************************************)
EXTENDS SysTimer, TLAPS, SequenceTheorems, FiniteSetTheorems, WellFoundedInduction

-----------------------------------------------------------------------------
(* The delta queue.                                                        *)

Ticks(W) == [when : W, data : Tasks]

\* The tasks of the elements of s from lo on, and that none is there twice.
HeldFrom(s, lo) == {s[k].data : k \in lo .. Len(s)}
OnceFrom(s, lo) == \A i, j \in lo .. Len(s) : s[i].data = s[j].data => i = j

\* The least of some natural numbers is one of them.
LEMMA LeastNatural ==
    ASSUME NEW T, T \subseteq Nat, T # {}
    PROVE  Min(T) \in T
<1>1. \E x \in T : \A y \in T : ~(<<y, x>> \in OpToRel(<, Nat))
  BY Zenon, NatLessThanWellFounded, WFMin
<1>2. PICK x \in T : \A y \in T : ~(<<y, x>> \in OpToRel(<, Nat))
  BY Zenon, <1>1
<1>3. \A y \in T : x <= y
  <2> SUFFICES ASSUME NEW y \in T PROVE x <= y
    OBVIOUS
  <2>1. x \in Nat /\ y \in Nat
    OBVIOUS
  <2>2. <<y, x>> \in Nat \X Nat /\ <<y, x>>[1] = y /\ <<y, x>>[2] = x
    BY <2>1
  <2>3. ~(y < x)
    BY <1>2, <2>2 DEF OpToRel
  <2> QED
    BY <2>1, <2>3
<1>4. \E z \in T : \A y \in T : z <= y
  BY <1>3
<1> QED
  BY Zenon, <1>4 DEF Min

\* list_add_tail inserts one element and keeps the others.
LEMMA Inserted ==
    ASSUME NEW S, NEW s \in Seq(S), NEW x \in S, NEW k \in 1 .. Len(s) + 1,
           OnceFrom(s, 1), x.data \notin HeldFrom(s, 1)
    PROVE  LET t == list_add_tail(x, s, k)
           IN  /\ t \in Seq(S)
               /\ HeldFrom(t, 1) = HeldFrom(s, 1) \cup {x.data}
               /\ OnceFrom(t, 1)
<1> DEFINE t == [i \in 1 .. Len(s) + 1 |-> IF i < k THEN s[i] ELSE IF i = k THEN x ELSE s[i - 1]]
<1>1. Len(s) \in Nat /\ \A i \in 1 .. Len(s) : s[i] \in S
  BY LenProperties, ElementOfSeq
<1>2. ASSUME NEW i \in 1 .. Len(s) + 1
      PROVE  /\ i < k => i \in 1 .. Len(s) /\ t[i] = s[i]
             /\ i = k => t[i] = x
             /\ i > k => i - 1 \in 1 .. Len(s) /\ t[i] = s[i - 1]
             /\ t[i] \in S
  <2>1. i < k => i \in 1 .. Len(s)
    BY <1>1
  <2>2. i > k => i - 1 \in 1 .. Len(s)
    BY <1>1
  <2>3. t[i] = IF i < k THEN s[i] ELSE IF i = k THEN x ELSE s[i - 1]
    OBVIOUS
  <2> QED
    BY <1>1, <2>1, <2>2, <2>3
<1>3. DOMAIN t = 1 .. Len(s) + 1
  OBVIOUS
<1>4. t \in [1 .. Len(s) + 1 -> S]
  BY <1>2
<1>5. list_add_tail(x, s, k) = t
  BY DEF list_add_tail
<1> HIDE DEF t
<1>6. t \in Seq(S) /\ Len(t) = Len(s) + 1
  <2>1. Len(s) + 1 \in Nat
    BY <1>1
  <2>2. t \in Seq(S)
    BY <1>4, <2>1, SeqDef
  <2>3. Len(t) \in Nat /\ 1 .. Len(t) = 1 .. Len(s) + 1
    BY <1>3, <2>2, LenProperties
  <2> QED
    BY <2>1, <2>2, <2>3
<1>7. HeldFrom(t, 1) = HeldFrom(s, 1) \cup {x.data}
  <2>1. ASSUME NEW d \in HeldFrom(t, 1) PROVE d \in HeldFrom(s, 1) \cup {x.data}
    <3>1. PICK i \in 1 .. Len(s) + 1 : d = t[i].data
      BY <1>6, <2>1 DEF HeldFrom
    <3>2. i < k \/ i = k \/ i > k
      BY <1>1
    <3> QED
      BY <1>2, <3>1, <3>2 DEF HeldFrom
  <2>2. ASSUME NEW i \in 1 .. Len(s) PROVE s[i].data \in HeldFrom(t, 1)
    <3>1. CASE i < k
      <4>1. i \in 1 .. Len(s) + 1
        BY <1>1
      <4> QED
        BY <1>2, <1>6, <3>1, <4>1 DEF HeldFrom
    <3>2. CASE i >= k
      <4>1. i + 1 \in 1 .. Len(s) + 1 /\ i + 1 > k /\ (i + 1) - 1 = i
        BY <1>1, <3>2
      <4>2. t[i + 1] = s[i]
        BY <1>2, <4>1
      <4> QED
        BY <1>6, <4>1, <4>2 DEF HeldFrom
    <3> QED
      BY <1>1, <3>1, <3>2
  <2>3. x.data \in HeldFrom(t, 1)
    BY <1>2, <1>6 DEF HeldFrom
  <2> QED
    BY Zenon, <2>1, <2>2, <2>3 DEF HeldFrom
<1>8. OnceFrom(t, 1)
  <2> SUFFICES ASSUME NEW i \in 1 .. Len(s) + 1, NEW j \in 1 .. Len(s) + 1, t[i].data = t[j].data
               PROVE  i = j
    BY <1>6 DEF OnceFrom
  <2>1. \A m \in 1 .. Len(s) : s[m].data # x.data
    BY DEF HeldFrom
  <2>2. i \in Int /\ j \in Int /\ k \in Int
    BY <1>1
  <2>3. ASSUME NEW m \in 1 .. Len(s) + 1, m # k PROVE t[m].data # x.data
    <3>1. m < k \/ m > k
      BY <2>3
    <3> QED
      BY Zenon, <1>2, <2>1, <3>1
  <2>8. CASE i = k \/ j = k
    <3>1. t[k] = x
      BY <1>2
    <3> QED
      BY <2>3, <2>8, <3>1
  <2>4. CASE i < k /\ j < k
    BY <1>2, <2>4 DEF OnceFrom
  <2>5. CASE i > k /\ j > k
    <3>1. i - 1 \in 1 .. Len(s) /\ j - 1 \in 1 .. Len(s) /\ s[i - 1].data = s[j - 1].data
      BY <1>2, <2>5
    <3>2. i - 1 = j - 1
      BY <3>1 DEF OnceFrom
    <3> QED
      BY <2>2, <3>2
  <2>6. CASE i < k /\ j > k
    <3>1. i \in 1 .. Len(s) /\ j - 1 \in 1 .. Len(s) /\ s[i].data = s[j - 1].data
      BY <1>2, <2>6
    <3>2. i = j - 1
      BY <3>1 DEF OnceFrom
    <3> QED
      BY <2>2, <2>6, <3>2
  <2>7. CASE i > k /\ j < k
    <3>1. i - 1 \in 1 .. Len(s) /\ j \in 1 .. Len(s) /\ s[i - 1].data = s[j].data
      BY <1>2, <2>7
    <3>2. i - 1 = j
      BY <3>1 DEF OnceFrom
    <3> QED
      BY <2>2, <2>7, <3>2
  <2> QED
    BY <2>2, <2>8, <2>4, <2>5, <2>6, <2>7
<1> QED
  BY <1>5, <1>6, <1>7, <1>8

\* A change of an element's time keeps the tasks.
LEMMA Retimed ==
    ASSUME NEW V, NEW s \in Seq(Ticks(V)), NEW k \in 1 .. Len(s), NEW x \in Ticks(V), x.data = s[k].data
    PROVE  LET t == [s EXCEPT ![k] = x]
           IN  /\ t \in Seq(Ticks(V)) /\ Len(t) = Len(s)
               /\ HeldFrom(t, 1) = HeldFrom(s, 1)
               /\ OnceFrom(s, 1) => OnceFrom(t, 1)
<1> DEFINE t == [s EXCEPT ![k] = x]
<1>1. t \in Seq(Ticks(V)) /\ Len(t) = Len(s)
      /\ \A j \in 1 .. Len(s) : t[j] = IF j = k THEN x ELSE s[j]
  BY ExceptSeq
<1> HIDE DEF t
<1>2. \A j \in 1 .. Len(s) : t[j].data = s[j].data
  BY <1>1
<1>3. HeldFrom(t, 1) = HeldFrom(s, 1) /\ (OnceFrom(s, 1) => OnceFrom(t, 1))
  BY <1>1, <1>2 DEF HeldFrom, OnceFrom
<1> QED
  BY <1>1, <1>3 DEF t

\* sys_timer_enqueue_tick adds the task and keeps the others.
LEMMA TickInserted ==
    ASSUME NEW W, NEW s \in Seq(Ticks(W)), NEW w, NEW d \in Tasks,
           OnceFrom(s, 1), d \notin HeldFrom(s, 1)
    PROVE  /\ \E V : InsertTick(s, w, d) \in Seq(Ticks(V))
           /\ HeldFrom(InsertTick(s, w, d), 1) = HeldFrom(s, 1) \cup {d}
           /\ OnceFrom(InsertTick(s, w, d), 1)
<1> DEFINE stops == {k \in DOMAIN s : time_before(Residue(w, s, k - 1), s[k].when)}
           k     == IF stops = {} THEN Len(s) + 1 ELSE Min(stops)
           r     == Residue(w, s, k - 1)
           v     == (s[k].when - r) % Wrap
           s1    == IF stops = {} THEN s ELSE [s EXCEPT ![k].when = v]
           x     == [when |-> r, data |-> d]
           V     == (W \cup {v}) \cup {r}
<1>1. DOMAIN s = 1 .. Len(s) /\ Len(s) \in Nat
  BY LenProperties
<1>2. stops \subseteq 1 .. Len(s) /\ stops \subseteq Nat
  BY <1>1
<1>3. InsertTick(s, w, d) = list_add_tail(x, s1, k)
  <2> HIDE DEF stops, x
  <2>1. s1 = IF stops = {} THEN s ELSE [s EXCEPT ![k].when = (s[k].when - r) % Wrap]
    OBVIOUS
  <2> QED
    BY DEF InsertTick, x, stops
<1> HIDE DEF stops
<1>4. stops # {} => k \in 1 .. Len(s)
  <2>1. stops # {} => Min(stops) \in stops
    BY Zenon, <1>2, LeastNatural
  <2> QED
    BY Zenon, <1>2, <2>1
<1>5. k \in 1 .. Len(s) + 1
  BY <1>1, <1>4
<1> HIDE DEF k, r, v
<1>6. Ticks(W) \subseteq Ticks(V) /\ Ticks(W \cup {v}) \subseteq Ticks(V) /\ x \in Ticks(V) /\ x.data = d
  BY DEF Ticks
<1>7. s1 \in Seq(Ticks(V)) /\ Len(s1) = Len(s) /\ HeldFrom(s1, 1) = HeldFrom(s, 1) /\ OnceFrom(s1, 1)
  <2>1. CASE stops = {}
    <3>1. s \in Seq(Ticks(V))
      BY Zenon, <1>6, SeqMonotonic
    <3> QED
      BY <2>1, <3>1
  <2>2. CASE stops # {}
    <3> DEFINE y == [s[k] EXCEPT !.when = v]
               t == [s EXCEPT ![k] = y]
    <3>1. k \in 1 .. Len(s) /\ s \in Seq(Ticks(V)) /\ s[k] \in Ticks(W)
      BY Zenon, <1>4, <1>6, <2>2, SeqMonotonic, ElementOfSeq
    <3>2. y \in Ticks(V) /\ y.data = s[k].data
      BY <3>1 DEF Ticks
    <3>3. s1 = t
      BY <2>2
    <3> HIDE DEF y
    <3>4. /\ t \in Seq(Ticks(V)) /\ Len(t) = Len(s)
          /\ HeldFrom(t, 1) = HeldFrom(s, 1) /\ OnceFrom(t, 1)
      BY <3>1, <3>2, Retimed
    <3> QED
      BY Zenon, <3>3, <3>4
  <2> QED
    BY <2>1, <2>2
<1> HIDE DEF s1, x, V
<1>8. k \in 1 .. Len(s1) + 1
  BY <1>5, <1>7
<1> DEFINE t == list_add_tail(x, s1, k)
<1>9. t \in Seq(Ticks(V)) /\ HeldFrom(t, 1) = HeldFrom(s1, 1) \cup {d} /\ OnceFrom(t, 1)
  BY <1>6, <1>7, <1>8, Inserted
<1> QED
  BY <1>3, <1>7, <1>9

\* The first element is taken off.
LEMMA FirstTick ==
    ASSUME NEW W, NEW s \in Seq(Ticks(W)), s # <<>>
    PROVE  /\ Head(s).data \in Tasks /\ Tail(s) \in Seq(Ticks(W)) /\ 1 \in 1 .. Len(s)
           /\ HeldFrom(s, 1) = HeldFrom(s, 2) \cup {Head(s).data}
           /\ OnceFrom(s, 1) => OnceFrom(s, 2) /\ Head(s).data \notin HeldFrom(s, 2)
           /\ HeldFrom(Tail(s), 1) = HeldFrom(s, 2)
           /\ OnceFrom(s, 2) => OnceFrom(Tail(s), 1)
<1> DEFINE t == Tail(s)
<1>1. /\ t \in Seq(Ticks(W)) /\ Len(s) \in Nat /\ Len(s) >= 1 /\ Len(t) = Len(s) - 1
      /\ Head(s) = s[1] /\ s[1] \in Ticks(W)
      /\ \A i \in 1 .. Len(t) : t[i] = s[i + 1]
  BY HeadTailProperties, ElementOfSeq
<1>2. Head(s).data \in Tasks
  BY <1>1 DEF Ticks
<1> HIDE DEF t
<1>3. 1 .. Len(s) = {1} \cup 2 .. Len(s) /\ 1 \notin 2 .. Len(s)
  BY <1>1
<1>4. HeldFrom(s, 1) = HeldFrom(s, 2) \cup {Head(s).data}
  BY <1>1, <1>3 DEF HeldFrom
<1>5. OnceFrom(s, 1) => OnceFrom(s, 2) /\ Head(s).data \notin HeldFrom(s, 2)
  BY <1>1, <1>3 DEF HeldFrom, OnceFrom
<1>6. \A i \in 1 .. Len(t) : i + 1 \in 2 .. Len(s)
  BY <1>1
<1>7. \A i \in 2 .. Len(s) : i - 1 \in 1 .. Len(t) /\ t[i - 1] = s[i]
  BY <1>1
<1>8. HeldFrom(t, 1) = HeldFrom(s, 2)
  <2>1. ASSUME NEW x, x \in HeldFrom(t, 1) PROVE x \in HeldFrom(s, 2)
    <3>1. PICK i \in 1 .. Len(t) : x = t[i].data
      BY <2>1 DEF HeldFrom
    <3>2. i + 1 \in 2 .. Len(s) /\ x = s[i + 1].data
      BY <1>1, <1>6, <3>1
    <3> QED
      BY <3>2 DEF HeldFrom
  <2>2. ASSUME NEW x, x \in HeldFrom(s, 2) PROVE x \in HeldFrom(t, 1)
    <3>1. PICK i \in 2 .. Len(s) : x = s[i].data
      BY <2>2 DEF HeldFrom
    <3>2. i - 1 \in 1 .. Len(t) /\ x = t[i - 1].data
      BY <1>7, <3>1
    <3> QED
      BY <3>2 DEF HeldFrom
  <2> QED
    BY Zenon, <2>1, <2>2
<1>9. OnceFrom(s, 2) => OnceFrom(t, 1)
  <2> SUFFICES ASSUME OnceFrom(s, 2), NEW i \in 1 .. Len(t), NEW j \in 1 .. Len(t), t[i].data = t[j].data
               PROVE  i = j
    BY DEF OnceFrom
  <2>1. i + 1 \in 2 .. Len(s) /\ j + 1 \in 2 .. Len(s) /\ s[i + 1].data = s[j + 1].data
    BY <1>1, <1>6
  <2>2. i + 1 = j + 1
    BY <2>1 DEF OnceFrom
  <2> QED
    BY <2>2
<1> QED
  BY <1>1, <1>2, <1>4, <1>5, <1>8, <1>9 DEF t

-----------------------------------------------------------------------------
(* The event queue.                                                        *)

QueueEvents == {HwTick, Other} \cup Tasks

\* The tasks whose tick is in an event queue, and: no task is in it twice.
Ticked(s) == {t \in Tasks : \E k \in 1 .. Len(s) : s[k] = t}
TickedOnce(s) == \A i, j \in 1 .. Len(s) : s[i] = s[j] /\ s[i] \in Tasks => i = j

\* The other events are no tasks.
LEMMA OtherEvents == HwTick \notin Tasks /\ Other \notin Tasks
BY SysTimerAssumption DEF HwTick, Other, Tasks

\* An event is triggered: it goes to the end of the queue.
LEMMA EventAppended ==
    ASSUME NEW s \in Seq(QueueEvents), NEW e \in QueueEvents, TickedOnce(s), e \notin Ticked(s)
    PROVE  /\ Append(s, e) \in Seq(QueueEvents) /\ Append(s, e) # <<>>
           /\ s # <<>> => Head(Append(s, e)) = Head(s)
           /\ TickedOnce(Append(s, e))
           /\ Ticked(Append(s, e)) = Ticked(s) \cup ({e} \cap Tasks)
<1> DEFINE u == Append(s, e)
<1>1. /\ u \in Seq(QueueEvents) /\ Len(u) = Len(s) + 1 /\ Len(s) \in Nat
      /\ u[Len(s) + 1] = e /\ \A i \in 1 .. Len(s) : u[i] = s[i]
  BY AppendProperties, LenProperties
<1>2. u # <<>> /\ (s # <<>> => Head(u) = Head(s))
  <2>1. u # <<>>
    BY <1>1, EmptySeq
  <2>2. s # <<>> => Head(u) = Head(s)
    <3> SUFFICES ASSUME s # <<>> PROVE Head(u) = Head(s)
      OBVIOUS
    <3>1. Len(s) >= 1 /\ Head(s) = s[1]
      BY HeadTailProperties, <1>1, EmptySeq
    <3>2. Head(u) = u[1]
      BY <1>1, <2>1, HeadTailProperties
    <3> QED
      BY <1>1, <3>1, <3>2
  <2> QED
    BY <2>1, <2>2
<1> HIDE DEF u
<1>3. 1 .. Len(u) = 1 .. Len(s) \cup {Len(s) + 1}
  BY <1>1
<1>4. Ticked(u) = Ticked(s) \cup ({e} \cap Tasks)
  BY <1>1, <1>3 DEF Ticked
<1>5. TickedOnce(u)
  <2> SUFFICES ASSUME NEW i \in 1 .. Len(u), NEW j \in 1 .. Len(u), u[i] = u[j], u[i] \in Tasks
               PROVE  i = j
    BY DEF TickedOnce
  <2>1. \A k \in 1 .. Len(s) : u[k] \in Tasks => u[k] # e
    BY <1>1 DEF Ticked
  <2>2. CASE i \in 1 .. Len(s) /\ j \in 1 .. Len(s)
    BY <1>1, <2>2 DEF TickedOnce
  <2>3. CASE i = Len(s) + 1 \/ j = Len(s) + 1
    BY <1>1, <1>3, <2>1, <2>3
  <2> QED
    BY <1>3, <2>2, <2>3
<1> QED
  BY <1>1, <1>2, <1>4, <1>5 DEF u

\* The first event has been handled.
LEMMA EventHandled ==
    ASSUME NEW s \in Seq(QueueEvents), s # <<>>, TickedOnce(s)
    PROVE  /\ Head(s) \in QueueEvents /\ Tail(s) \in Seq(QueueEvents)
           /\ TickedOnce(Tail(s))
           /\ Ticked(s) = Ticked(Tail(s)) \cup ({Head(s)} \cap Tasks)
           /\ Head(s) \notin Ticked(Tail(s))
<1> DEFINE u == Tail(s)
<1>1. /\ u \in Seq(QueueEvents) /\ Len(s) \in Nat /\ Len(s) >= 1 /\ Len(u) = Len(s) - 1
      /\ Head(s) = s[1] /\ s[1] \in QueueEvents
      /\ \A i \in 1 .. Len(u) : u[i] = s[i + 1]
  BY HeadTailProperties, ElementOfSeq
<1> HIDE DEF u
<1>2. 1 .. Len(s) = {1} \cup 2 .. Len(s) /\ 1 \notin 2 .. Len(s)
  BY <1>1
<1>3. \A i \in 1 .. Len(u) : i + 1 \in 1 .. Len(s) /\ i + 1 # 1
  BY <1>1
<1>4. \A i \in 2 .. Len(s) : i - 1 \in 1 .. Len(u) /\ u[i - 1] = s[i]
  BY <1>1
<1>5. ASSUME NEW x, x \in Ticked(s) PROVE x \in Ticked(u) \cup ({Head(s)} \cap Tasks)
  BY <1>1, <1>2, <1>4, <1>5 DEF Ticked
<1>6. ASSUME NEW x, x \in Ticked(u) PROVE x \in Ticked(s) /\ x # Head(s)
  <2>1. x \in Tasks /\ \E i \in 1 .. Len(u) : u[i] = x
    BY <1>6 DEF Ticked
  <2>2. PICK i \in 1 .. Len(u) : u[i] = x
    BY <2>1
  <2>3. i + 1 \in 1 .. Len(s) /\ i + 1 # 1 /\ s[i + 1] = x
    BY <1>1, <1>3, <2>2
  <2>4. 1 \in 1 .. Len(s)
    BY <1>2
  <2> QED
    BY <1>1, <2>1, <2>3, <2>4 DEF Ticked, TickedOnce
<1>7. Head(s) \in Tasks => Head(s) \in Ticked(s)
  BY <1>1, <1>2 DEF Ticked
<1>8. TickedOnce(u)
  <2> SUFFICES ASSUME NEW i \in 1 .. Len(u), NEW j \in 1 .. Len(u), u[i] = u[j], u[i] \in Tasks
               PROVE  i = j
    BY DEF TickedOnce
  <2>1. i + 1 \in 1 .. Len(s) /\ j + 1 \in 1 .. Len(s) /\ s[i + 1] = s[j + 1] /\ s[i + 1] \in Tasks
    BY <1>1, <1>3
  <2>2. i + 1 = j + 1
    BY <2>1 DEF TickedOnce
  <2> QED
    BY <2>2
<1> QED
  BY <1>1, <1>5, <1>6, <1>7, <1>8 DEF u

-----------------------------------------------------------------------------
(* The inductive invariant.                                                *)

\* on_hw_timer_tick triggers the first element before it removes it: between
\* the two steps that element does not count.
First == IF pc = "pop" THEN 2 ELSE 1

\* A, B and C share nothing and are together S.
Parts(A, B, C, S) ==
    A \cap B = {} /\ A \cap C = {} /\ B \cap C = {} /\ (A \cup B) \cup C = S

\* The tasks that pts_init has dealt with.
Started == IF pc = "init" THEN 1 .. p - 1 ELSE Tasks

\* Every task started is in one of the three places, and once; the handlers
\* find what they work on.
PlaceInv ==
    /\ pc \in {"init", "loop", "scan", "pop", "rearm"} /\ p \in Tasks
    /\ \E W : scheduled_ticks \in Seq(Ticks(W))
    /\ q \in Seq(QueueEvents)
    /\ OnceFrom(scheduled_ticks, First) /\ TickedOnce(q)
    /\ Parts(HeldFrom(scheduled_ticks, First), Ticked(q), dead, Started)
    /\ pc = "pop" => scheduled_ticks # <<>>
    /\ pc = "rearm" => q # <<>> /\ Head(q) = p
    /\ pc \in {"scan", "pop"} => q # <<>> /\ Head(q) = HwTick

\* Before pts_init no task has a place.
LEMMA InitPlaces == Init => PlaceInv
<1> SUFFICES ASSUME Init PROVE PlaceInv
  OBVIOUS
<1>1. <<>> \in Seq(Ticks({})) /\ <<>> \in Seq(QueueEvents) /\ Len(<<>>) = 0
  OBVIOUS
<1>2. scheduled_ticks = <<>> /\ q = <<>> /\ pc = "init" /\ p = 1 /\ dead = {} /\ 1 \in Tasks
  BY SysTimerAssumption DEF Init, Tasks
<1>3. First = 1 /\ Started = {}
  BY <1>2 DEF First, Started
<1>4. 1 .. 0 = {}
  OBVIOUS
<1>5. HeldFrom(<<>>, 1) = {} /\ Ticked(<<>>) = {} /\ OnceFrom(<<>>, 1) /\ TickedOnce(<<>>)
  BY <1>1, <1>4 DEF HeldFrom, Ticked, OnceFrom, TickedOnce
<1>6. \E W : scheduled_ticks \in Seq(Ticks(W))
  BY <1>1, <1>2
<1>7. Parts({}, {}, {}, {})
  BY DEF Parts
<1> QED
  BY Zenon, <1>1, <1>2, <1>3, <1>5, <1>6, <1>7 DEF PlaceInv

\* An event that is no task changes the queue.
LEMMA QueuePlaces ==
    ASSUME PlaceInv, NEW e \in {HwTick, Other}
    PROVE  /\ Append(q, e) \in Seq(QueueEvents) /\ Append(q, e) # <<>>
           /\ q # <<>> => Head(Append(q, e)) = Head(q)
           /\ TickedOnce(Append(q, e)) /\ Ticked(Append(q, e)) = Ticked(q)
<1>1. q \in Seq(QueueEvents) /\ TickedOnce(q) /\ e \in QueueEvents /\ e \notin Tasks
  BY OtherEvents DEF PlaceInv, QueueEvents
<1>2. e \notin Ticked(q)
  BY <1>1 DEF Ticked
<1>3. /\ Append(q, e) \in Seq(QueueEvents) /\ Append(q, e) # <<>>
      /\ q # <<>> => Head(Append(q, e)) = Head(q)
      /\ TickedOnce(Append(q, e))
      /\ Ticked(Append(q, e)) = Ticked(q) \cup ({e} \cap Tasks)
  BY Zenon, <1>1, <1>2, EventAppended
<1>4. Ticked(q) \cup ({e} \cap Tasks) = Ticked(q)
  BY <1>1
<1> QED
  BY Zenon, <1>3, <1>4

\* An event that is no task has been handled.
LEMMA HandledPlaces ==
    ASSUME PlaceInv, q # <<>>, Head(q) \in {HwTick, Other}
    PROVE  Tail(q) \in Seq(QueueEvents) /\ TickedOnce(Tail(q)) /\ Ticked(Tail(q)) = Ticked(q)
<1>1. q \in Seq(QueueEvents) /\ TickedOnce(q) /\ Head(q) \notin Tasks
  BY OtherEvents DEF PlaceInv
<1>2. /\ Tail(q) \in Seq(QueueEvents) /\ TickedOnce(Tail(q))
      /\ Ticked(q) = Ticked(Tail(q)) \cup ({Head(q)} \cap Tasks)
  BY Zenon, <1>1, EventHandled
<1>3. Ticked(Tail(q)) \cup ({Head(q)} \cap Tasks) = Ticked(Tail(q))
  BY <1>1
<1> QED
  BY Zenon, <1>2, <1>3

\* sys_timer_enqueue_tick, or its failure, gives a task a place.
LEMMA EnqueuedPlaces ==
    ASSUME PlaceInv, NEW d \in Tasks, NEW w, Enqueue(w, d), pc # "pop",
           d \notin HeldFrom(scheduled_ticks, 1)
    PROVE  /\ \E W : scheduled_ticks' \in Seq(Ticks(W))
           /\ OnceFrom(scheduled_ticks', 1)
           /\ \/ HeldFrom(scheduled_ticks', 1) = HeldFrom(scheduled_ticks, 1) \cup {d} /\ dead' = dead
              \/ HeldFrom(scheduled_ticks', 1) = HeldFrom(scheduled_ticks, 1) /\ dead' = dead \cup {d}
<1>1. PICK W : scheduled_ticks \in Seq(Ticks(W))
  BY DEF PlaceInv
<1>2. OnceFrom(scheduled_ticks, 1)
  BY DEF PlaceInv, First
<1>3. CASE EnqueueFails
  <2>1. scheduled_ticks' = scheduled_ticks /\ dead' = dead \cup {d}
    BY <1>3 DEF Enqueue
  <2> QED
    BY <1>1, <1>2, <2>1
<1>4. CASE ~EnqueueFails
  <2> DEFINE v == (jiffies + w) % Wrap
             t == InsertTick(scheduled_ticks, v, d)
  <2>1. scheduled_ticks' = t /\ dead' = dead
    BY <1>4 DEF Enqueue
  <2> HIDE DEF v
  <2>2. (\E V : t \in Seq(Ticks(V))) /\ HeldFrom(t, 1) = HeldFrom(scheduled_ticks, 1) \cup {d} /\ OnceFrom(t, 1)
    BY <1>1, <1>2, TickInserted
  <2> QED
    BY <2>1, <2>2
<1> QED
  BY <1>3, <1>4

\* Where the places and the control stay as they are.
LEMMA SamePlaces ==
    ASSUME PlaceInv, UNCHANGED <<scheduled_ticks, q, pc, p, dead>>
    PROVE  PlaceInv'
<1>1. First' = First /\ Started' = Started
  BY DEF First, Started
<1> QED
  BY <1>1 DEF PlaceInv

\* Facts about the places, in a form that does not mention the control.
LEMMA PlaceFacts ==
    ASSUME PlaceInv
    PROVE  /\ pc \in {"init", "loop", "scan", "pop", "rearm"} /\ p \in Tasks
           /\ \E W : scheduled_ticks \in Seq(Ticks(W))
           /\ q \in Seq(QueueEvents) /\ TickedOnce(q)
           /\ pc # "pop" => /\ OnceFrom(scheduled_ticks, 1)
                            /\ Parts(HeldFrom(scheduled_ticks, 1), Ticked(q), dead, Started)
           /\ pc = "pop" => /\ OnceFrom(scheduled_ticks, 2)
                            /\ Parts(HeldFrom(scheduled_ticks, 2), Ticked(q), dead, Started)
BY DEF PlaceInv, First

\* pts_init
LEMMA PtsInitPlaces == PlaceInv /\ PtsInit => PlaceInv'
<1> SUFFICES ASSUME PlaceInv, PtsInit PROVE PlaceInv'
  OBVIOUS
<1> DEFINE D == HeldFrom(scheduled_ticks, 1)
<1>1. /\ pc = "init" /\ p \in Tasks /\ OnceFrom(scheduled_ticks, 1) /\ TickedOnce(q)
      /\ q \in Seq(QueueEvents) /\ Parts(D, Ticked(q), dead, 1 .. p - 1)
      /\ \E W : scheduled_ticks \in Seq(Ticks(W))
  BY PlaceFacts DEF PtsInit, Started
<1>2. NTasks \in Nat /\ NTasks >= 1 /\ Tasks = 1 .. NTasks
  BY SysTimerAssumption DEF Tasks
<1>3. q' = q /\ Ticked(q') = Ticked(q) /\ TickedOnce(q') /\ q' \in Seq(QueueEvents)
  BY <1>1 DEF PtsInit
<1>4. CASE EnqueueFails
  <2>1. scheduled_ticks' = scheduled_ticks /\ dead' = dead \cup p .. NTasks /\ pc' = "loop" /\ p' = 1
    BY <1>4 DEF PtsInit
  <2>2. First' = 1 /\ Started' = Tasks /\ p' \in Tasks
    BY <1>2, <2>1 DEF First, Started
  <2>3. Parts(D, Ticked(q), dead', Tasks)
    <3>1. p .. NTasks \cap 1 .. p - 1 = {} /\ 1 .. p - 1 \cup p .. NTasks = Tasks
      BY <1>1, <1>2
    <3> HIDE DEF D
    <3> QED
      BY <1>1, <2>1, <3>1 DEF Parts
  <2>4. HeldFrom(scheduled_ticks', 1) = D /\ OnceFrom(scheduled_ticks', 1) /\ \E W : scheduled_ticks' \in Seq(Ticks(W))
    BY <1>1, <2>1
  <2> QED
    BY <1>3, <2>1, <2>2, <2>3, <2>4 DEF PlaceInv
<1>5. CASE ~EnqueueFails
  <2> DEFINE w == (release[p] - now) % Wrap
  <2>1. Enqueue(w, p)
    BY <1>5 DEF PtsInit
  <2> HIDE DEF w
  <2>2. p \notin D /\ p \notin Ticked(q) /\ p \notin dead
    <3>1. p \notin 1 .. p - 1
      BY <1>1, <1>2
    <3> HIDE DEF D
    <3> QED
      BY <1>1, <3>1 DEF Parts
  <2>3. /\ \E W : scheduled_ticks' \in Seq(Ticks(W))
        /\ OnceFrom(scheduled_ticks', 1)
        /\ \/ HeldFrom(scheduled_ticks', 1) = D \cup {p} /\ dead' = dead
           \/ HeldFrom(scheduled_ticks', 1) = D /\ dead' = dead \cup {p}
    BY <1>1, <2>1, <2>2, EnqueuedPlaces
  <2>4. First' = 1 /\ pc' \in {"init", "loop"} /\ p' \in Tasks /\ Started' = (1 .. p - 1) \cup {p}
    <3>1. CASE p = NTasks
      <4>1. pc' = "loop" /\ p' = 1
        BY <1>5, <3>1 DEF PtsInit
      <4> QED
        BY <1>1, <1>2, <3>1, <4>1 DEF First, Started
    <3>2. CASE p # NTasks
      <4>1. pc' = "init" /\ p' = p + 1
        BY <1>1, <1>5, <3>2 DEF PtsInit
      <4>2. p + 1 \in Tasks /\ 1 .. p + 1 - 1 = (1 .. p - 1) \cup {p}
        BY <1>1, <1>2, <3>2
      <4> QED
        BY <4>1, <4>2 DEF First, Started
    <3> QED
      BY <3>1, <3>2
  <2>5. Parts(HeldFrom(scheduled_ticks', 1), Ticked(q), dead', (1 .. p - 1) \cup {p})
    <3> DEFINE E == HeldFrom(scheduled_ticks', 1)
               S == 1 .. p - 1
    <3> HIDE DEF D, E, S
    <3>1. Parts(D, Ticked(q), dead, S)
      BY <1>1 DEF S
    <3>2. (E = D \cup {p} /\ dead' = dead) \/ (E = D /\ dead' = dead \cup {p})
      BY <2>3 DEF E
    <3>3. Parts(E, Ticked(q), dead', S \cup {p})
      BY <2>2, <3>1, <3>2 DEF Parts
    <3> QED
      BY <3>3 DEF E, S
  <2> QED
    BY <1>3, <2>3, <2>4, <2>5 DEF PlaceInv
<1> QED
  BY <1>4, <1>5

\* on_hw_timer_tick triggers sys_timer_tick for the first element ...
LEMMA TickFirePlaces == PlaceInv /\ TickFire => PlaceInv'
<1> SUFFICES ASSUME PlaceInv, TickFire PROVE PlaceInv'
  OBVIOUS
<1> DEFINE d == Head(scheduled_ticks).data
           D == HeldFrom(scheduled_ticks, 1)
           E == HeldFrom(scheduled_ticks, 2)
<1>1. /\ pc = "scan" /\ p \in Tasks /\ OnceFrom(scheduled_ticks, 1) /\ TickedOnce(q)
      /\ q \in Seq(QueueEvents) /\ Parts(D, Ticked(q), dead, Tasks)
      /\ scheduled_ticks # <<>>
  BY PlaceFacts DEF TickFire, Started, Expired
<1>2. pc' = "pop" /\ scheduled_ticks' = scheduled_ticks /\ p' = p
  BY DEF TickFire
<1>3. PICK W : scheduled_ticks \in Seq(Ticks(W))
  BY PlaceFacts
<1>4. d \in Tasks /\ D = E \cup {d} /\ d \notin E /\ OnceFrom(scheduled_ticks, 2)
  BY <1>1, <1>3, FirstTick
<1>5. First' = 2 /\ Started' = Tasks
  BY <1>2 DEF First, Started
<1>6. q # <<>> /\ Head(q) = HwTick
  BY <1>1 DEF PlaceInv
<1> HIDE DEF d, D, E
<1>7. d \notin Ticked(q) /\ d \notin dead /\ d \in QueueEvents
  BY <1>1, <1>4 DEF Parts, QueueEvents
<1>8. CASE Len(q) < QueueSize
  <2>1. q' = Append(q, d) /\ dead' = dead
    BY <1>8 DEF TickFire, d
  <2>2. /\ Append(q, d) \in Seq(QueueEvents) /\ Append(q, d) # <<>>
        /\ q # <<>> => Head(Append(q, d)) = Head(q)
        /\ TickedOnce(Append(q, d))
        /\ Ticked(Append(q, d)) = Ticked(q) \cup ({d} \cap Tasks)
    BY Zenon, <1>1, <1>7, EventAppended
  <2>3. Parts(E, Ticked(q'), dead', Tasks)
    BY <1>1, <1>4, <2>1, <2>2 DEF Parts
  <2> QED
    BY <1>1, <1>2, <1>3, <1>4, <1>5, <1>6, <2>1, <2>2, <2>3 DEF PlaceInv, E
<1>9. CASE ~(Len(q) < QueueSize)
  <2>1. q' = q /\ dead' = dead \cup {d}
    BY <1>9 DEF TickFire, d
  <2>2. Parts(E, Ticked(q'), dead', Tasks)
    BY <1>1, <1>4, <1>7, <2>1 DEF Parts
  <2> QED
    BY <1>1, <1>2, <1>3, <1>4, <1>5, <1>6, <2>1, <2>2 DEF PlaceInv, E
<1> QED
  BY <1>8, <1>9

\* ... and then removes it.
LEMMA TickPopPlaces == PlaceInv /\ TickPop => PlaceInv'
<1> SUFFICES ASSUME PlaceInv, TickPop PROVE PlaceInv'
  OBVIOUS
<1> DEFINE s == Tail(scheduled_ticks)
<1>1. /\ pc = "pop" /\ p \in Tasks /\ OnceFrom(scheduled_ticks, 2) /\ TickedOnce(q)
      /\ q \in Seq(QueueEvents) /\ Parts(HeldFrom(scheduled_ticks, 2), Ticked(q), dead, Tasks)
  BY PlaceFacts DEF TickPop, Started
<1>2. /\ pc' = "scan" /\ q' = q /\ p' = p /\ dead' = dead
      /\ scheduled_ticks' = IF s = <<>> THEN s ELSE [s EXCEPT ![1].when = (@ + jiffies) % Wrap]
  BY DEF TickPop
<1>3. PICK W : scheduled_ticks \in Seq(Ticks(W))
  BY PlaceFacts
<1>4. scheduled_ticks # <<>> /\ q # <<>> /\ Head(q) = HwTick
  BY <1>1 DEF PlaceInv
<1>5. s \in Seq(Ticks(W)) /\ HeldFrom(s, 1) = HeldFrom(scheduled_ticks, 2) /\ OnceFrom(s, 1)
  BY <1>1, <1>3, <1>4, FirstTick
<1>6. First' = 1 /\ Started' = Tasks
  BY <1>2 DEF First, Started
<1> HIDE DEF s
<1>7. /\ \E V : scheduled_ticks' \in Seq(Ticks(V))
      /\ HeldFrom(scheduled_ticks', 1) = HeldFrom(s, 1) /\ OnceFrom(scheduled_ticks', 1)
  <2>1. CASE s = <<>>
    BY <1>2, <1>5, <2>1
  <2>2. CASE s # <<>>
    <3> DEFINE v == (s[1].when + jiffies) % Wrap
               y == [s[1] EXCEPT !.when = v]
               V == W \cup {v}
               t == [s EXCEPT ![1] = y]
    <3>1. Ticks(W) \subseteq Ticks(V)
      BY DEF Ticks
    <3>2. 1 \in 1 .. Len(s) /\ s \in Seq(Ticks(V)) /\ s[1] \in Ticks(W)
      BY Zenon, <1>5, <2>2, <3>1, FirstTick, SeqMonotonic, ElementOfSeq
    <3>3. y \in Ticks(V) /\ y.data = s[1].data
      BY <3>2 DEF Ticks
    <3>4. scheduled_ticks' = t
      BY <1>2, <2>2
    <3> HIDE DEF y, V
    <3>5. t \in Seq(Ticks(V)) /\ HeldFrom(t, 1) = HeldFrom(s, 1) /\ OnceFrom(t, 1)
      BY <1>5, <3>2, <3>3, Retimed
    <3> QED
      BY <3>4, <3>5
  <2> QED
    BY <2>1, <2>2
<1> QED
  BY <1>1, <1>2, <1>4, <1>5, <1>6, <1>7 DEF PlaceInv

\* pts_handle puts its task into the delta queue again.
LEMMA PtsRearmPlaces == PlaceInv /\ PtsRearm => PlaceInv'
<1> SUFFICES ASSUME PlaceInv, PtsRearm PROVE PlaceInv'
  OBVIOUS
<1> DEFINE D == HeldFrom(scheduled_ticks, 1)
           E == HeldFrom(scheduled_ticks', 1)
           w == (release[p] - now) % Wrap
<1>1. /\ pc = "rearm" /\ p \in Tasks /\ TickedOnce(q)
      /\ q \in Seq(QueueEvents) /\ Parts(D, Ticked(q), dead, Tasks)
  BY PlaceFacts DEF PtsRearm, Started
<1>2. pc' = "loop" /\ q' = Tail(q) /\ p' = 1 /\ 1 \in Tasks /\ Enqueue(w, p)
  BY SysTimerAssumption DEF PtsRearm, Tasks
<1>3. q # <<>> /\ Head(q) = p
  BY <1>1 DEF PlaceInv
<1>4. /\ Tail(q) \in Seq(QueueEvents) /\ TickedOnce(Tail(q))
      /\ Ticked(q) = Ticked(Tail(q)) \cup ({Head(q)} \cap Tasks)
      /\ Head(q) \notin Ticked(Tail(q))
  BY Zenon, <1>1, <1>3, EventHandled
<1> HIDE DEF w, D
<1>5. p \notin D
  BY <1>1, <1>3, <1>4 DEF Parts
<1>6. /\ \E W : scheduled_ticks' \in Seq(Ticks(W))
      /\ OnceFrom(scheduled_ticks', 1)
      /\ (E = D \cup {p} /\ dead' = dead) \/ (E = D /\ dead' = dead \cup {p})
  BY <1>1, <1>2, <1>5, EnqueuedPlaces DEF D
<1> HIDE DEF E
<1>7. Parts(E, Ticked(q'), dead', Tasks)
  BY <1>1, <1>2, <1>3, <1>4, <1>6 DEF Parts
<1>8. First' = 1 /\ Started' = Tasks
  BY <1>2 DEF First, Started
<1> QED
  BY <1>2, <1>4, <1>6, <1>7, <1>8 DEF PlaceInv, E

\* The timer interrupt and other users trigger events of their own.
LEMMA TriggerPlaces == PlaceInv /\ (TimerIrq \/ OtherEvent) => PlaceInv'
<1> SUFFICES ASSUME PlaceInv, TimerIrq \/ OtherEvent PROVE PlaceInv'
  OBVIOUS
<1>1. /\ UNCHANGED <<scheduled_ticks, pc, p, dead>>
      /\ q' = q \/ \E e \in {HwTick, Other} : q' = Append(q, e)
  BY DEF TimerIrq, OtherEvent
<1>2. CASE q' = q
  BY <1>1, <1>2, SamePlaces
<1>3. ASSUME NEW e \in {HwTick, Other}, q' = Append(q, e) PROVE PlaceInv'
  <2>1. /\ q' \in Seq(QueueEvents) /\ q' # <<>>
        /\ q # <<>> => Head(q') = Head(q)
        /\ TickedOnce(q') /\ Ticked(q') = Ticked(q)
    BY <1>3, QueuePlaces
  <2>2. First' = First /\ Started' = Started
    BY <1>1 DEF First, Started
  <2> QED
    BY <1>1, <2>1, <2>2 DEF PlaceInv
<1> QED
  BY <1>1, <1>2, <1>3

\* A handler starts, or returns with the places as they are.
LEMMA HandlerPlaces == PlaceInv /\ (OtherHandled \/ TickStart \/ TickEnd \/ PtsHandle) => PlaceInv'
<1> SUFFICES ASSUME PlaceInv, OtherHandled \/ TickStart \/ TickEnd \/ PtsHandle PROVE PlaceInv'
  OBVIOUS
<1>1. UNCHANGED <<scheduled_ticks, dead>>
  BY DEF OtherHandled, TickStart, TickEnd, PtsHandle
<1>2. CASE OtherHandled \/ TickEnd
  <2>1. q # <<>> /\ Head(q) \in {HwTick, Other} /\ q' = Tail(q) /\ pc' = "loop" /\ p' = p /\ pc \in {"loop", "scan"}
    BY <1>2 DEF PlaceInv, OtherHandled, TickEnd
  <2>2. q' \in Seq(QueueEvents) /\ TickedOnce(q') /\ Ticked(q') = Ticked(q)
    BY <2>1, HandledPlaces
  <2>3. First' = First /\ Started' = Started
    BY <2>1 DEF First, Started
  <2> QED
    BY <1>1, <2>1, <2>2, <2>3 DEF PlaceInv
<1>3. CASE TickStart
  <2>1. q # <<>> /\ Head(q) = HwTick /\ q' = q /\ pc' = "scan" /\ p' = p /\ pc = "loop"
    BY <1>3 DEF TickStart
  <2>2. First' = First /\ Started' = Started
    BY <2>1 DEF First, Started
  <2> QED
    BY <1>1, <2>1, <2>2 DEF PlaceInv
<1>4. CASE PtsHandle
  <2>1. q # <<>> /\ Head(q) \in Tasks /\ q' = q /\ pc' = "rearm" /\ p' = Head(q) /\ pc = "loop"
    BY <1>4 DEF PtsHandle
  <2>2. First' = First /\ Started' = Started
    BY <2>1 DEF First, Started
  <2> QED
    BY <1>1, <2>1, <2>2 DEF PlaceInv
<1> QED
  BY <1>2, <1>3, <1>4

\* Every step keeps the tasks in their places.
LEMMA NextPlaces == PlaceInv /\ [Next]_vars => PlaceInv'
<1> SUFFICES ASSUME PlaceInv, [Next]_vars PROVE PlaceInv'
  OBVIOUS
<1>1. CASE PtsInit
  BY <1>1, PtsInitPlaces
<1>2. CASE TickFire
  BY <1>2, TickFirePlaces
<1>3. CASE TickPop
  BY <1>3, TickPopPlaces
<1>4. CASE PtsRearm
  BY <1>4, PtsRearmPlaces
<1>5. CASE TimerIrq \/ OtherEvent
  BY <1>5, TriggerPlaces
<1>6. CASE OtherHandled \/ TickStart \/ TickEnd \/ PtsHandle
  BY <1>6, HandlerPlaces
<1>7. CASE UNCHANGED vars
  BY <1>7, SamePlaces DEF vars
<1> QED
  BY <1>1, <1>2, <1>3, <1>4, <1>5, <1>6, <1>7 DEF Next, Main

\* A set with at most one element has as many as it should.
LEMMA OneOrNone ==
    ASSUME NEW A, \A i, j \in A : i = j
    PROVE  Cardinality(A) = IF A = {} THEN 0 ELSE 1
<1>1. CASE A = {}
  BY <1>1, FS_EmptySet
<1>2. CASE A # {}
  <2>1. PICK i : A = {i}
    BY <1>2
  <2>2. Cardinality({i}) = 1
    BY FS_Singleton
  <2> QED
    BY <1>2, <2>1, <2>2
<1> QED
  BY <1>1, <1>2

\* The invariant in the words of the property.
LEMMA PlacesOnce == PlaceInv => ExactlyOnce
<1> SUFFICES ASSUME PlaceInv, pc # "init", NEW t \in Tasks
             PROVE  Cardinality({k \in Waiting : scheduled_ticks[k].data = t})
                      + Queued(t) + (IF t \in dead THEN 1 ELSE 0) = 1
  BY DEF ExactlyOnce
<1> DEFINE A == {k \in Waiting : scheduled_ticks[k].data = t}
           B == {k \in DOMAIN q : q[k] = t}
<1>1. PICK W : scheduled_ticks \in Seq(Ticks(W))
  BY DEF PlaceInv
<1>2. DOMAIN scheduled_ticks = 1 .. Len(scheduled_ticks) /\ DOMAIN q = 1 .. Len(q)
  BY <1>1, LenProperties DEF PlaceInv
<1>3. Waiting = First .. Len(scheduled_ticks)
  BY <1>2 DEF Waiting, First
<1>4. (\A i, j \in A : i = j) /\ (A = {} <=> t \notin HeldFrom(scheduled_ticks, First))
  BY <1>3 DEF PlaceInv, OnceFrom, HeldFrom
<1>5. (\A i, j \in B : i = j) /\ (B = {} <=> t \notin Ticked(q))
  BY <1>2 DEF PlaceInv, TickedOnce, Ticked
<1>6. Queued(t) = Cardinality(B)
  BY DEF Queued
<1> HIDE DEF A, B
<1>7. Cardinality(A) = (IF A = {} THEN 0 ELSE 1) /\ Cardinality(B) = (IF B = {} THEN 0 ELSE 1)
  BY <1>4, <1>5, OneOrNone
<1>8. \/ A # {} /\ B = {} /\ t \notin dead
      \/ A = {} /\ B # {} /\ t \notin dead
      \/ A = {} /\ B = {} /\ t \in dead
  <2>1. Parts(HeldFrom(scheduled_ticks, First), Ticked(q), dead, Tasks)
    BY DEF PlaceInv, Started
  <2> QED
    BY <1>4, <1>5, <2>1 DEF Parts
<1>9. Cardinality(A) + Cardinality(B) + (IF t \in dead THEN 1 ELSE 0) = 1
  BY <1>7, <1>8
<1> QED
  BY <1>6, <1>9 DEF A

\* Every task that pts_init has started is, at any time, in exactly one place:
\* waiting in scheduled_ticks, on its way as a sys_timer_tick event, or dead
\* for want of a tick buffer or of room in the queue.  So no tick is lost or
\* handled twice, although on_hw_timer_tick queues an element before it takes
\* it off the list and interrupts come in between.
THEOREM TasksInOnePlace == Spec => []ExactlyOnce
<1>1. Spec => []PlaceInv
  BY InitPlaces, NextPlaces, PTL DEF Spec
<1> QED
  BY <1>1, PlacesOnce, PTL
=============================================================================
