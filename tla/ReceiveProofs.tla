--------------------------- MODULE ReceiveProofs ---------------------------
(***************************************************************************)
(* Proofs about what is received, for every number of pipes and every size *)
(* of their buffers and of the event queue.  About CharDev: a buffer is a  *)
(* FIFO queue although a push may interrupt a read, provided that drivers  *)
(* push only what fits, and no pipe with characters is forgotten.  About   *)
(* McuioStream, for every length of the packets: the packets that the      *)
(* mcuio task gives on are those that the host sent, and none stays behind.*)
(***************************************************************************)
EXTENDS McuioStream, TLAPS, SequenceTheorems, FiniteSetTheorems

\* The C macro min, by its cases.
LEMMA MinTwo ==
    ASSUME NEW a \in Int, NEW b \in Int
    PROVE  Min({a, b}) = IF a <= b THEN a ELSE b
<1>1. \E x \in {a, b} : \A y \in {a, b} : x =< y
  OBVIOUS
<1>2. Min({a, b}) \in {a, b} /\ \A y \in {a, b} : Min({a, b}) =< y
  BY <1>1 DEF Min
<1> QED
  BY <1>2

\* The macros of circ_buf.h on indices of the buffer, without masks.
LEMMA CircFacts ==
    ASSUME NEW h \in Slots, NEW t \in Slots
    PROVE  /\ CIRC_CNT(h, t, Size) \in Slots
           /\ CIRC_CNT(h, t, Size) = IF h >= t THEN h - t ELSE h - t + Size
           /\ CIRC_SPACE(h, t, Size) = Size - 1 - CIRC_CNT(h, t, Size)
           /\ CIRC_CNT_TO_END(h, t, Size) = IF h >= t THEN h - t ELSE Size - t
           /\ CIRC_SPACE_TO_END(h, t, Size)
                = IF t > h THEN t - h - 1 ELSE IF t = 0 THEN Size - 1 - h ELSE Size - h
BY CharDevAssumption
DEF Slots, CIRC_CNT, CIRC_SPACE, CIRC_CNT_TO_END, CIRC_SPACE_TO_END

\* The characters up to the end of the buffer are some of those in it, and none
\* only if there is none in it.
LEMMA ToEnd ==
    ASSUME NEW h \in Slots, NEW t \in Slots
    PROVE  LET e == CIRC_CNT_TO_END(h, t, Size)
               c == CIRC_CNT(h, t, Size)
           IN  e \in Nat /\ c \in Nat /\ e <= c /\ (e = 0 => c = 0) /\ t + e <= Size /\ e < Size
<1> DEFINE e == CIRC_CNT_TO_END(h, t, Size)
           c == CIRC_CNT(h, t, Size)
<1>1. Size \in Nat \ {0} /\ h \in 0 .. Size - 1 /\ t \in 0 .. Size - 1
  BY CharDevAssumption DEF Slots
<1>2. /\ e = IF h >= t THEN h - t ELSE Size - t
      /\ c = IF h >= t THEN h - t ELSE h - t + Size
  BY CircFacts
<1> HIDE DEF e, c
<1>3. e \in Nat /\ c \in Nat /\ e <= c /\ (e = 0 => c = 0) /\ t + e <= Size /\ e < Size
  <2>1. CASE h >= t
    BY <1>1, <1>2, <2>1
  <2>2. CASE ~(h >= t)
    BY <1>1, <1>2, <2>2
  <2> QED
    BY <2>1, <2>2
<1> QED
  BY Zenon, <1>3 DEF e, c

\* A step of at most Size around the buffer.
LEMMA Around ==
    ASSUME NEW h \in Slots, NEW k \in 0 .. Size
    PROVE  /\ (h + k) % Size \in Slots
           /\ (h + k) % Size = IF h + k < Size THEN h + k ELSE h + k - Size
BY CharDevAssumption DEF Slots

\* The k-th slot from h on.
LEMMA SlotOf ==
    ASSUME NEW h \in Slots, NEW k \in 1 .. Size
    PROVE  /\ (h + k - 1) % Size \in Slots
           /\ (h + k - 1) % Size = IF h + k - 1 < Size THEN h + k - 1 ELSE h + k - 1 - Size
BY CharDevAssumption DEF Slots

\* Different characters are in different slots.
LEMMA SlotOfInjective ==
    ASSUME NEW h \in Slots, NEW k \in 1 .. Size, NEW j \in 1 .. Size,
           (h + k - 1) % Size = (h + j - 1) % Size
    PROVE  k = j
<1> DEFINE u == (h + k - 1) % Size
           v == (h + j - 1) % Size
<1>1. u = IF h + k - 1 < Size THEN h + k - 1 ELSE h + k - 1 - Size
  BY SlotOf
<1>2. v = IF h + j - 1 < Size THEN h + j - 1 ELSE h + j - 1 - Size
  BY SlotOf
<1>3. u = v
  OBVIOUS
<1> HIDE DEF u, v
<1> QED
  BY <1>1, <1>2, <1>3, CharDevAssumption DEF Slots

\* The slots from the head on continue those from the tail on.
LEMMA HeadSlot ==
    ASSUME NEW h \in Slots, NEW t \in Slots, NEW j \in 1 .. Size,
           CIRC_CNT(h, t, Size) + j <= Size
    PROVE  (h + j - 1) % Size = (t + (CIRC_CNT(h, t, Size) + j) - 1) % Size
<1> DEFINE c == CIRC_CNT(h, t, Size)
           k == c + j
<1>1. c \in Nat /\ c = IF h >= t THEN h - t ELSE h - t + Size
  BY CircFacts DEF Slots
<1>2. k \in 1 .. Size /\ c = k - j
  BY <1>1, CharDevAssumption
<1> HIDE DEF c, k
<1>3. (h + j - 1) % Size = IF h + j - 1 < Size THEN h + j - 1 ELSE h + j - 1 - Size
  BY SlotOf
<1>4. (t + k - 1) % Size = IF t + k - 1 < Size THEN t + k - 1 ELSE t + k - 1 - Size
  BY SlotOf, <1>2
<1> DEFINE u == (h + j - 1) % Size
           v == (t + k - 1) % Size
<1>5. u = v
  <2>1. /\ u = IF h + j - 1 < Size THEN h + j - 1 ELSE h + j - 1 - Size
        /\ v = IF t + k - 1 < Size THEN t + k - 1 ELSE t + k - 1 - Size
    BY <1>3, <1>4
  <2> HIDE DEF u, v
  <2> QED
    BY <1>1, <1>2, <2>1, CharDevAssumption DEF Slots
<1> QED
  BY <1>5 DEF k, c

\* A push and a read move the indices by what they add and remove.
LEMMA CntAfterPush ==
    ASSUME NEW h \in Slots, NEW t \in Slots, NEW n \in Nat,
           n <= CIRC_SPACE(h, t, Size)
    PROVE  /\ (h + n) % Size \in Slots
           /\ CIRC_CNT((h + n) % Size, t, Size) = CIRC_CNT(h, t, Size) + n
<1> DEFINE c == CIRC_CNT(h, t, Size)
           i == (h + n) % Size
<1>1. c \in Slots /\ n <= Size - 1 - c /\ c = IF h >= t THEN h - t ELSE h - t + Size
  BY CircFacts
<1>2. n \in 0 .. Size
  BY <1>1, CharDevAssumption DEF Slots
<1>3. i \in Slots /\ i = IF h + n < Size THEN h + n ELSE h + n - Size
  BY <1>2, Around
<1> HIDE DEF i, c
<1>4. CIRC_CNT(i, t, Size) = IF i >= t THEN i - t ELSE i - t + Size
  BY <1>3, CircFacts
<1>5. CIRC_CNT(i, t, Size) = c + n
  BY <1>1, <1>2, <1>3, <1>4, CharDevAssumption DEF Slots
<1> QED
  BY <1>3, <1>5 DEF i, c

\* A read of n characters, of those that are there, leaves the others where
\* they are: the k-th from the new tail on is the (n + k)-th from the old one.
LEMMA AfterRead ==
    ASSUME NEW h \in Slots, NEW t \in Slots, NEW n \in Nat,
           n <= CIRC_CNT(h, t, Size)
    PROVE  /\ (t + n) % Size \in Slots
           /\ CIRC_CNT(h, (t + n) % Size, Size) = CIRC_CNT(h, t, Size) - n
           /\ \A k \in 1 .. Size :
                 n + k <= Size => (((t + n) % Size) + k - 1) % Size = (t + (n + k) - 1) % Size
<1> DEFINE c == CIRC_CNT(h, t, Size)
           i == (t + n) % Size
<1>1. c \in Slots /\ n <= c /\ c = IF h >= t THEN h - t ELSE h - t + Size
  BY CircFacts
<1>2. n \in 0 .. Size
  BY <1>1, CharDevAssumption DEF Slots
<1>3. i \in Slots /\ i = IF t + n < Size THEN t + n ELSE t + n - Size
  BY <1>2, Around
<1> HIDE DEF i, c
<1>4. CIRC_CNT(h, i, Size) = IF h >= i THEN h - i ELSE h - i + Size
  BY <1>3, CircFacts
<1>5. CIRC_CNT(h, i, Size) = c - n
  BY <1>1, <1>2, <1>3, <1>4, CharDevAssumption DEF Slots
<1>6. ASSUME NEW k \in 1 .. Size, n + k <= Size
      PROVE  (i + k - 1) % Size = (t + (n + k) - 1) % Size
  <2> DEFINE m == n + k
             u == (i + k - 1) % Size
             v == (t + m - 1) % Size
  <2>1. m \in 1 .. Size /\ n = m - k
    BY <1>2, <1>6, CharDevAssumption
  <2> HIDE DEF m
  <2>2. /\ u = IF i + k - 1 < Size THEN i + k - 1 ELSE i + k - 1 - Size
        /\ v = IF t + m - 1 < Size THEN t + m - 1 ELSE t + m - 1 - Size
    BY <1>3, <2>1, SlotOf
  <2>3. u = v
    <3> HIDE DEF u, v
    <3> QED
      BY <1>2, <1>3, <2>1, <2>2, CharDevAssumption DEF Slots
  <2> QED
    BY <2>3 DEF m
<1> QED
  BY <1>3, <1>5, <1>6 DEF i, c

-----------------------------------------------------------------------------
(* A push that fits.                                                       *)

Fits(p, len) == len \in Nat \ {0} /\ len <= CIRC_SPACE(head[p], tail[p], Size)

\* It is copied whole, to the slots that follow the head.
LEMMA PushFits ==
    ASSUME TypeOK, NEW p \in Pipes, NEW len, Fits(p, len)
    PROVE  /\ Copied(p, len) = len
           /\ \A k \in 1 .. len : /\ Place(p, len, k) = (head[p] + k - 1) % Size
                                 /\ Place(p, len, k) \in Slots
<1> DEFINE h == head[p]
           t == tail[p]
           l == FirstPart(p, len)
<1>1. h \in Slots /\ t \in Slots
  BY DEF TypeOK
<1>2. /\ len \in Nat \ {0} /\ len <= Size - 1 - CIRC_CNT(h, t, Size)
      /\ CIRC_SPACE(h, t, Size) = Size - 1 - CIRC_CNT(h, t, Size)
      /\ CIRC_CNT(h, t, Size) = IF h >= t THEN h - t ELSE h - t + Size
      /\ CIRC_SPACE_TO_END(h, t, Size)
           = IF t > h THEN t - h - 1 ELSE IF t = 0 THEN Size - 1 - h ELSE Size - h
  BY <1>1, CircFacts DEF Fits
<1>3. Size \in Nat /\ h \in Int /\ t \in Int
  BY <1>1, CharDevAssumption DEF Slots
<1>4. l = IF len <= CIRC_SPACE_TO_END(h, t, Size) THEN len ELSE CIRC_SPACE_TO_END(h, t, Size)
  BY <1>2, <1>3, MinTwo DEF FirstPart
<1>5. l \in 1 .. len /\ h + l <= Size /\ (l < len => h + l = Size)
  BY <1>1, <1>2, <1>3, <1>4 DEF Slots
<1>6. SecondPart(p, len) = len - l
  <2>1. Min({len - l, CIRC_SPACE(h, t, Size)}) = len - l
    <3> DEFINE a == len - l
               b == CIRC_SPACE(h, t, Size)
    <3>1. a \in Int /\ b \in Int /\ a <= b
      BY <1>1, <1>2, <1>3, <1>5 DEF Slots
    <3> HIDE DEF a, b
    <3>2. Min({a, b}) = a
      BY <3>1, MinTwo
    <3> QED
      BY <3>2 DEF a, b
  <2> QED
    BY <2>1, <1>5 DEF SecondPart
<1>7. Copied(p, len) = len
  BY <1>2, <1>5, <1>6 DEF Copied
<1>8. ASSUME NEW k \in 1 .. len
      PROVE  Place(p, len, k) = (h + k - 1) % Size /\ Place(p, len, k) \in Slots
  <2>1. len < Size
    BY <1>1, <1>2, <1>3 DEF Slots
  <2>2. CASE k <= l
    <3>1. Place(p, len, k) = h + k - 1
      BY <2>2 DEF Place
    <3>2. h + k - 1 \in 0 .. Size - 1
      BY <1>1, <1>3, <1>5, <2>2 DEF Slots
    <3>3. (h + k - 1) % Size = h + k - 1
      BY <3>2, CharDevAssumption
    <3> QED
      BY <3>1, <3>2, <3>3 DEF Slots
  <2>3. CASE k > l
    <3>1. h + l = Size
      BY <1>2, <1>5, <2>3
    <3>2. Size % Size = 0
      BY CharDevAssumption
    <3>3. Place(p, len, k) = k - l - 1
      BY <2>3, <3>1, <3>2, <1>2, <1>5 DEF Place
    <3>4. k - l - 1 = h + k - 1 - Size /\ k - l - 1 \in 0 .. Size - 1
      BY <3>1, <2>1, <1>2, <1>3, <1>5, <2>3
    <3>5. k \in 1 .. Size
      BY <2>1, <1>2, <1>3
    <3>6. (h + k - 1) % Size = h + k - 1 - Size
      BY SlotOf, <1>1, <1>3, <3>4, <3>5
    <3> QED
      BY <3>3, <3>4, <3>6 DEF Slots
  <2> QED
    BY <1>5, <2>2, <2>3
<1> QED
  BY <1>7, <1>8


\* Afterwards these slots hold it, and the others what they held.
LEMMA CopyFits ==
    ASSUME TypeOK, NEW p \in Pipes, NEW b \in Seq(Chars), Fits(p, Len(b))
    PROVE  /\ Copy(p, b) \in [Slots -> Chars]
           /\ \A k \in 1 .. Len(b) : Copy(p, b)[(head[p] + k - 1) % Size] = b[k]
           /\ \A s \in Slots : (\A k \in 1 .. Len(b) : s # (head[p] + k - 1) % Size)
                                  => Copy(p, b)[s] = buf[p][s]
<1> DEFINE n == Len(b)
           f(k) == (head[p] + k - 1) % Size
           here(s) == {k \in 1 .. Copied(p, n) : Place(p, n, k) = s}
<1>0. head[p] \in Slots /\ tail[p] \in Slots
  BY DEF TypeOK
<1>1. n \in Nat \ {0} /\ n < Size
  <2>1. /\ CIRC_CNT(head[p], tail[p], Size) \in Slots
        /\ CIRC_SPACE(head[p], tail[p], Size) = Size - 1 - CIRC_CNT(head[p], tail[p], Size)
    BY <1>0, CircFacts
  <2> QED
    BY <2>1, CharDevAssumption DEF Fits, Slots
<1>2. \A s : here(s) = {k \in 1 .. n : f(k) = s}
  BY PushFits
<1>3. \A k \in 1 .. n : f(k) \in Slots
  BY PushFits
<1>4. \A k, j \in 1 .. n : f(k) = f(j) => k = j
  <2> SUFFICES ASSUME NEW k \in 1 .. n, NEW j \in 1 .. n, f(k) = f(j)
               PROVE  k = j
    OBVIOUS
  <2>1. k \in 1 .. Size /\ j \in 1 .. Size
    BY <1>1, CharDevAssumption
  <2> QED
    BY <1>0, <2>1, SlotOfInjective
<1>5. \A s \in Slots : Copy(p, b)[s] = IF here(s) = {} THEN buf[p][s] ELSE b[Max(here(s))]
  BY DEF Copy
<1> HIDE DEF here
<1>6. ASSUME NEW k \in 1 .. n
      PROVE  Copy(p, b)[f(k)] = b[k]
  <2>1. here(f(k)) = {k}
    <3> HIDE DEF f
    <3> QED
      BY <1>2, <1>4
  <2>2. Max({k}) = k
    <3>1. \E x \in {k} : \A y \in {k} : x >= y
      OBVIOUS
    <3> QED
      BY <3>1 DEF Max
  <2> HIDE DEF f
  <2> QED
    BY Zenon, <1>3, <1>5, <2>1, <2>2
<1>7. ASSUME NEW s \in Slots, \A k \in 1 .. n : s # (head[p] + k - 1) % Size
      PROVE  Copy(p, b)[s] = buf[p][s]
  <2>1. here(s) = {}
    BY <1>2, <1>7
  <2> QED
    BY <1>5, <2>1
<1>8. Copy(p, b) \in [Slots -> Chars]
  <2> SUFFICES \A s \in Slots : Copy(p, b)[s] \in Chars
    BY DEF Copy
  <2> TAKE s \in Slots
  <2>1. CASE \E k \in 1 .. n : s = (head[p] + k - 1) % Size
    BY <2>1, <1>6
  <2>2. CASE \A k \in 1 .. n : s # (head[p] + k - 1) % Size
    BY Zenon, <2>2, <1>7 DEF TypeOK
  <2> QED
    BY <2>1, <2>2
<1> QED
  BY <1>6, <1>7, <1>8

-----------------------------------------------------------------------------
(* The event queue.                                                        *)

\* The queue's type.
QueueOK == q \in Seq(Pipes) /\ Len(q) <= QueueSize

\* What TriggerAll appends to the queue: events of the pipes, as many as
\* there is room for.
LEMMA GotFacts ==
    ASSUME QueueOK, NEW n \in Nat
    PROVE  /\ Got(n) \in Seq(Pipes)
           /\ Len(q \o Got(n)) <= QueueSize
           /\ n = 0 => Got(n) = <<>>
<1> DEFINE m == n * NPipes
           l == Min({Len(Wanted(n)), QueueSize - Len(q)})
<1>1. m \in Nat /\ (n = 0 => m = 0)
  BY CharDevAssumption
<1>2. \A k \in 1 .. m : ((k - 1) % NPipes) + 1 \in Pipes
  BY <1>1, CharDevAssumption DEF Pipes
<1> HIDE DEF m
<1>3. Wanted(n) \in Seq(Pipes) /\ Len(Wanted(n)) = m
  <2>1. Wanted(n) = [k \in 1 .. m |-> ((k - 1) % NPipes) + 1]
    BY DEF Wanted, m
  <2> QED
    BY <1>1, <1>2, <2>1
<1>4. Len(q) \in Nat /\ QueueSize - Len(q) \in Nat /\ QueueSize \in Nat
  BY CharDevAssumption DEF QueueOK
<1>5. l \in 0 .. m /\ l <= QueueSize - Len(q) /\ (m = 0 => l = 0)
  BY <1>1, <1>3, <1>4, MinTwo
<1> HIDE DEF l
<1>6. Got(n) = SubSeq(Wanted(n), 1, l)
  BY DEF Got, l
<1>7. Got(n) \in Seq(Pipes) /\ Len(Got(n)) = l
  BY <1>3, <1>5, <1>6, SubSeqProperties
<1>8. Len(q \o Got(n)) = Len(q) + l
  BY Zenon, <1>7, ConcatProperties DEF QueueOK
<1> QED
  BY <1>1, <1>4, <1>5, <1>7, <1>8, EmptySeq

-----------------------------------------------------------------------------
(* The buffers.                                                            *)

\* What BufferIsFifo says of one pipe.
FifoOf(p) ==
    /\ CNT(p) = Len(fifo[p])
    /\ \A k \in 1 .. Len(fifo[p]) : buf[p][(tail[p] + k - 1) % Size] = fifo[p][k]

\* A read has an event, which stays at the head of the queue whatever is
\* triggered behind it, and has copied the oldest characters of its pipe.
Reading ==
    /\ pc # "loop" => q # <<>>
    /\ pc = "copied" => /\ Len(rbuf) \in 1 .. Len(fifo[Head(q)])
                        /\ \A k \in 1 .. Len(rbuf) : rbuf[k] = fifo[Head(q)][k]

\* The inductive invariant.
FifoInv ==
    /\ TypeOK
    /\ ~overrun
    /\ \A p \in Pipes : FifoOf(p)
    /\ Reading

\* The devices are opened with empty buffers.
LEMMA FifoInvInit == Init => FifoInv
<1> SUFFICES ASSUME Init PROVE FifoInv
  OBVIOUS
<1>1. 0 \in Slots /\ 0 \in Chars
  BY CharDevAssumption DEF Slots, Chars
<1>2. TypeOK
  <2>1. <<>> \in Seq(Pipes) /\ <<>> \in Seq(Chars) /\ Len(<<>>) = 0
    BY EmptySeq
  <2>2. Size > 0 /\ QueueSize >= 0 /\ 0 \in Hwms
    BY CharDevAssumption
  <2> QED
    BY Zenon, <1>1, <2>1, <2>2 DEF Init, TypeOK
<1>3. CIRC_CNT(0, 0, Size) = 0
  BY <1>1, CircFacts
<1> QED
  BY <1>2, <1>3, EmptySeq DEF Init, FifoInv, FifoOf, CNT, Reading

\* The event at the head of the queue stays there.
LEMMA HeadKept ==
    ASSUME QueueOK, NEW n \in Nat, TriggerAll(n)
    PROVE  /\ q' \in Seq(Pipes) /\ Len(q') <= QueueSize
           /\ excused' \subseteq Pipes \/ excused' = excused
           /\ q # <<>> => q' # <<>> /\ Head(q') = Head(q)
           /\ n = 0 => q' = q /\ excused' = excused
<1>1. Got(n) \in Seq(Pipes) /\ Len(q \o Got(n)) <= QueueSize /\ (n = 0 => Got(n) = <<>>)
  BY GotFacts
<1>2. q \in Seq(Pipes)
  BY DEF QueueOK
<1>3. q' = q \o Got(n)
  BY DEF TriggerAll
<1>4. q' \in Seq(Pipes) /\ Len(q') = Len(q) + Len(Got(n))
  BY <1>1, <1>2, <1>3, ConcatProperties
<1>5. ASSUME q # <<>> PROVE q' # <<>> /\ Head(q') = Head(q)
  <2>1. Len(q) \in Nat \ {0} /\ Len(Got(n)) \in Nat
    BY <1>1, <1>2, <1>5, EmptySeq
  <2>2. q'[1] = q[1]
    BY <1>1, <1>2, <1>3, <2>1, ConcatProperties
  <2> QED
    BY <1>2, <1>4, <1>5, <2>1, <2>2
<1>6. n = 0 => q' = q
  BY <1>1, <1>2, <1>3, ConcatEmptySeq
<1> QED
  BY <1>1, <1>3, <1>4, <1>5, <1>6 DEF TriggerAll

\* A push, wherever it interrupts a read: what the read has copied and not
\* removed yet stays the oldest part of its pipe's buffer.
LEMMA FifoInvIrq ==
    ASSUME OnlyIfRoom, FifoInv, IrqHandler
    PROVE  /\ FifoInv'
           /\ \E len \in 1 .. MaxPush :
                 /\ char' = (char + len) % NChars
                 /\ \A p \in Pipes : fifo'[p] =
                       IF p \in Reached
                       THEN fifo[p] \o [k \in 1 .. len |-> (char + k - 1) % NChars]
                       ELSE fifo[p]
<1>1. PICK len \in 1 .. MaxPush :
         /\ \A p \in Pipes : Full(p) \/ len <= CIRC_SPACE(head[p], tail[p], Size)
         /\ Push([k \in 1 .. len |-> (char + k - 1) % NChars])
         /\ char' = (char + len) % NChars
  BY Zenon DEF IrqHandler
<1> DEFINE b == [k \in 1 .. len |-> (char + k - 1) % NChars]
           n == [p \in Pipes |-> IF p \in Reached THEN Copied(p, Len(b)) ELSE 0]
<1>2. b \in Seq(Chars) /\ Len(b) = len /\ len \in Nat \ {0}
  BY CharDevAssumption DEF FifoInv, TypeOK, Chars
<1>3. ASSUME NEW p \in Reached PROVE p \in Pipes /\ Fits(p, len)
  BY <1>1, <1>2, <1>3 DEF Reached, Fits, Pipes
<1>4. \A p \in Pipes : n[p] = IF p \in Reached THEN len ELSE 0
  BY <1>2, <1>3, PushFits DEF FifoInv
<1> HIDE DEF b, n
<1>5. /\ buf' = [p \in Pipes |-> IF p \in Reached THEN Copy(p, b) ELSE buf[p]]
      /\ head' = [p \in Pipes |-> (head[p] + n[p]) % Size]
      /\ fifo' = [p \in Pipes |-> fifo[p] \o SubSeq(b, 1, n[p])]
      /\ overrun' = (overrun \/ \E p \in Reached : \E k \in 1 .. n[p] :
                                    Place(p, Len(b), k) >= Size)
      /\ TriggerAll(Cardinality({p \in Reached : Above(p, n[p])}))
      /\ UNCHANGED <<tail, rx_hwm, pc, rbuf>>
  BY Zenon, <1>1 DEF Push, b, n
<1>6. ASSUME NEW p \in Pipes
      PROVE  /\ head'[p] \in Slots /\ buf'[p] \in [Slots -> Chars]
             /\ fifo'[p] \in Seq(Chars)
             /\ FifoOf(p)'
             /\ fifo'[p] = IF p \in Reached THEN fifo[p] \o b ELSE fifo[p]
             /\ Len(fifo'[p]) >= Len(fifo[p])
             /\ \A k \in 1 .. Len(fifo[p]) : fifo'[p][k] = fifo[p][k]
  <2>1. /\ head[p] \in Slots /\ tail[p] \in Slots /\ buf[p] \in [Slots -> Chars]
        /\ fifo[p] \in Seq(Chars) /\ Len(fifo[p]) \in Nat /\ tail' = tail
    BY <1>5 DEF FifoInv, TypeOK
  <2>2. FifoOf(p)
    BY DEF FifoInv
  <2>3. CASE p \notin Reached
    <3>1. n[p] = 0
      BY <1>4, <2>3
    <3>2. (head[p] + 0) % Size = head[p]
      <4>1. 0 \in 0 .. Size /\ head[p] + 0 = head[p] /\ head[p] < Size
        BY <2>1, CharDevAssumption DEF Slots
      <4> QED
        BY <2>1, <4>1, Around
    <3>3. SubSeq(b, 1, 0) = <<>>
      BY SubSeqEmpty
    <3>4. head'[p] = head[p] /\ buf'[p] = buf[p] /\ fifo'[p] = fifo[p]
      BY <1>5, <2>1, <2>3, <3>1, <3>2, <3>3, ConcatEmptySeq
    <3> QED
      BY <2>1, <2>2, <2>3, <3>4 DEF FifoOf, CNT
  <2>4. CASE p \in Reached
    <3> DEFINE c == CNT(p)
               g == fifo[p]
    <3>1. Fits(p, len) /\ n[p] = len
      BY <1>3, <1>4, <2>4
    <3>2. SubSeq(b, 1, len) = b
      BY <1>2, SubSeqFull
    <3>3. head'[p] = (head[p] + len) % Size /\ buf'[p] = Copy(p, b) /\ fifo'[p] = g \o b
      BY Zenon, <1>5, <2>4, <3>1, <3>2
    <3>4. head'[p] \in Slots /\ CNT(p)' = c + len
      BY <1>2, <2>1, <3>1, <3>3, CntAfterPush DEF CNT, Fits
    <3>5. /\ fifo'[p] \in Seq(Chars) /\ Len(fifo'[p]) = Len(g) + len
          /\ \A k \in 1 .. Len(g) + len : fifo'[p][k] = IF k <= Len(g) THEN g[k] ELSE b[k - Len(g)]
      <4>1. /\ g \o b \in Seq(Chars) /\ Len(g \o b) = Len(g) + Len(b)
            /\ \A k \in 1 .. Len(g) + Len(b) :
                  (g \o b)[k] = IF k <= Len(g) THEN g[k] ELSE b[k - Len(g)]
        BY Zenon, <1>2, <2>1, ConcatProperties
      <4> HIDE DEF g
      <4> QED
        BY <1>2, <3>3, <4>1
    <3>6. /\ Copy(p, b) \in [Slots -> Chars]
          /\ \A k \in 1 .. len : Copy(p, b)[(head[p] + k - 1) % Size] = b[k]
          /\ \A s \in Slots : (\A k \in 1 .. len : s # (head[p] + k - 1) % Size)
                                  => Copy(p, b)[s] = buf[p][s]
      BY <1>2, <3>1, CopyFits DEF FifoInv
    <3>7. c = Len(g) /\ c \in Nat /\ c + len <= Size - 1
      <4>1. /\ CIRC_CNT(head[p], tail[p], Size) \in Slots
            /\ CIRC_SPACE(head[p], tail[p], Size) = Size - 1 - CIRC_CNT(head[p], tail[p], Size)
        BY <2>1, CircFacts
      <4>2. c \in Slots /\ len <= Size - 1 - c /\ c = Len(g)
        BY <2>2, <3>1, <4>1 DEF FifoOf, CNT, Fits
      <4> HIDE DEF c
      <4> QED
        BY <1>2, <4>2, CharDevAssumption DEF Slots
    <3>8. ASSUME NEW k \in 1 .. Len(g) + len
          PROVE  buf'[p][(tail[p] + k - 1) % Size] = fifo'[p][k]
      <4>1. k \in 1 .. Size
        BY <1>2, <3>7, CharDevAssumption
      <4>2. CASE k > c
        <5> DEFINE j == k - c
        <5>1. j \in 1 .. len /\ j \in 1 .. Size /\ c + j = k /\ c + j <= Size
          BY <1>2, <3>7, <4>1, <4>2, CharDevAssumption
        <5> HIDE DEF j
        <5>2. (head[p] + j - 1) % Size = (tail[p] + k - 1) % Size
          BY <2>1, <5>1, HeadSlot DEF CNT
        <5>3. fifo'[p][k] = b[j]
          BY <3>5, <3>7, <4>2, <5>1 DEF j
        <5> QED
          BY Zenon, <3>3, <3>6, <5>1, <5>2, <5>3
      <4>3. CASE k <= c
        <5> DEFINE s == (tail[p] + k - 1) % Size
        <5>1. s \in Slots
          BY <2>1, <4>1, SlotOf
        <5>2. ASSUME NEW j \in 1 .. len PROVE s # (head[p] + j - 1) % Size
          <6> DEFINE m == c + j
          <6>1. m \in 1 .. Size /\ j \in 1 .. Size /\ c + j <= Size
            BY <1>2, <3>7, CharDevAssumption
          <6>2. (head[p] + j - 1) % Size = (tail[p] + m - 1) % Size
            BY <2>1, <6>1, HeadSlot DEF CNT
          <6>3. k # m
            BY <3>7, <4>1, <4>3
          <6> HIDE DEF m
          <6> QED
            BY <2>1, <4>1, <6>1, <6>2, <6>3, SlotOfInjective
        <5>3. buf'[p][s] = buf[p][s]
          BY <3>3, <3>6, <5>1, <5>2
        <5>4. buf[p][s] = g[k] /\ fifo'[p][k] = g[k]
          BY <2>2, <3>5, <3>7, <4>3 DEF FifoOf
        <5> QED
          BY <5>3, <5>4
      <4> QED
        BY <3>7, <4>1, <4>2, <4>3
    <3>9. FifoOf(p)'
      BY <2>1, <3>4, <3>5, <3>7, <3>8 DEF FifoOf
    <3> QED
      BY <1>2, <2>1, <2>4, <3>3, <3>4, <3>5, <3>6, <3>9
  <2> QED
    BY <2>3, <2>4
<1>7. Cardinality({p \in Reached : Above(p, n[p])}) \in Nat
  <2>1. IsFiniteSet(Pipes)
    BY CharDevAssumption, FS_Interval DEF Pipes
  <2>2. {p \in Reached : Above(p, n[p])} \subseteq Pipes
    BY DEF Reached
  <2> QED
    BY <2>1, <2>2, FS_Subset, FS_CardinalityType
<1>8. /\ q' \in Seq(Pipes) /\ Len(q') <= QueueSize /\ excused' \subseteq Pipes
      /\ q # <<>> => q' # <<>> /\ Head(q') = Head(q)
  BY Zenon, <1>5, <1>7, HeadKept DEF FifoInv, TypeOK, QueueOK
<1>9. ~overrun'
  <2>1. ASSUME NEW p \in Reached, NEW k \in 1 .. n[p] PROVE ~(Place(p, Len(b), k) >= Size)
    <3>1. p \in Pipes /\ Fits(p, len) /\ n[p] = len
      BY <1>3, <1>4
    <3>2. Place(p, len, k) \in Slots
      BY <3>1, PushFits DEF FifoInv
    <3> QED
      BY <1>2, <3>2, CharDevAssumption DEF Slots
  <2> QED
    BY Zenon, <1>5, <2>1 DEF FifoInv
<1>10. TypeOK'
  <2>1. char' \in Chars
    BY <1>1, CharDevAssumption DEF Chars, FifoInv, TypeOK
  <2> QED
    BY <1>5, <1>6, <1>8, <1>9, <2>1 DEF FifoInv, TypeOK
<1>11. Reading'
  <2>1. pc' = pc /\ rbuf' = rbuf
    BY <1>5
  <2>2. ASSUME pc = "copied"
        PROVE  /\ Len(rbuf) \in 1 .. Len(fifo'[Head(q')])
               /\ \A k \in 1 .. Len(rbuf) : rbuf[k] = fifo'[Head(q')][k]
    <3>1. q # <<>> /\ Head(q') = Head(q) /\ Head(q) \in Pipes
      BY <2>2, <1>8, HeadTailProperties DEF FifoInv, TypeOK, Reading
    <3>2. /\ Len(rbuf) \in 1 .. Len(fifo[Head(q)])
          /\ \A k \in 1 .. Len(rbuf) : rbuf[k] = fifo[Head(q)][k]
      BY <2>2 DEF FifoInv, Reading
    <3>3. fifo[Head(q)] \in Seq(Chars) /\ fifo'[Head(q)] \in Seq(Chars)
      BY <1>6, <3>1 DEF FifoInv, TypeOK
    <3> QED
      BY <1>6, <3>1, <3>2, <3>3, LenProperties
  <2> QED
    BY <1>8, <2>1, <2>2 DEF FifoInv, Reading
<1> QED
  BY Zenon, <1>1, <1>6, <1>9, <1>10, <1>11 DEF FifoInv, b

\* bathos_dev_read up to its copy, whatever the length of the client's buffer.
LEMMA FifoInvCopy ==
    ASSUME FifoInv, NEW len \in Nat \ {0}, CopyUpTo(len)
    PROVE  /\ FifoInv'
           /\ rbuf' = <<>> => CNT(Head(q)) = 0
           /\ Len(rbuf') <= len
<1> DEFINE p == Head(q)
           m == Min({len, CIRC_CNT_TO_END(head[p], tail[p], Size)})
<1>1. /\ q # <<>> /\ q \in Seq(Pipes) /\ p \in Pipes /\ Tail(q) \in Seq(Pipes)
      /\ Len(Tail(q)) = Len(q) - 1 /\ Len(q) \in Nat
  BY HeadTailProperties, LenProperties DEF CopyUpTo, FifoInv, TypeOK
<1>2. /\ head[p] \in Slots /\ tail[p] \in Slots /\ buf[p] \in [Slots -> Chars]
      /\ fifo[p] \in Seq(Chars) /\ FifoOf(p) /\ pc = "loop"
      /\ UNCHANGED <<head, tail, buf, rx_hwm, char, overrun, fifo, excused>>
  BY <1>1 DEF FifoInv, TypeOK, CopyUpTo, cb
<1>3. rbuf' = [k \in 1 .. m |-> buf[p][tail[p] + k - 1]]
  BY DEF CopyUpTo
<1> HIDE DEF p
<1>4. /\ m \in Nat /\ m <= CNT(p) /\ m < Size /\ tail[p] + m <= Size /\ m <= len
      /\ (m = 0 => CNT(p) = 0)
  <2> DEFINE e == CIRC_CNT_TO_END(head[p], tail[p], Size)
             c == CIRC_CNT(head[p], tail[p], Size)
  <2>2. e \in Nat /\ c \in Nat /\ e <= c /\ (e = 0 => c = 0) /\ tail[p] + e <= Size /\ e < Size
    BY Zenon, <1>2, ToEnd
  <2> HIDE DEF e, c
  <2>3. Min({len, e}) = IF len <= e THEN len ELSE e
    BY <2>2, MinTwo
  <2>4. m = IF len <= e THEN len ELSE e
    BY <2>3 DEF e
  <2>5. CNT(p) = c
    BY DEF CNT, c
  <2> HIDE DEF m
  <2> QED
    BY <1>2, <2>2, <2>4, <2>5, CharDevAssumption DEF Slots
<1> HIDE DEF m
<1>5. ASSUME NEW k \in 1 .. m
      PROVE  /\ buf[p][tail[p] + k - 1] = fifo[p][k]
             /\ buf[p][tail[p] + k - 1] \in Chars
  <2>1. k \in 1 .. Size /\ tail[p] + k - 1 < Size /\ tail[p] + k - 1 \in Slots
    BY <1>2, <1>4, CharDevAssumption DEF Slots
  <2>2. (tail[p] + k - 1) % Size = tail[p] + k - 1
    BY <1>2, <2>1, SlotOf
  <2>3. k \in 1 .. Len(fifo[p])
    BY <1>2, <1>4, LenProperties DEF FifoOf
  <2> QED
    BY <1>2, <2>1, <2>2, <2>3 DEF FifoOf
<1>6. rbuf' \in Seq(Chars) /\ Len(rbuf') = m
  <2>1. rbuf' \in [1 .. m -> Chars]
    BY <1>3, <1>5
  <2>2. rbuf' \in Seq(Chars)
    BY <1>4, <2>1, SeqDef
  <2>3. Len(rbuf') = m
    BY <1>3, <1>4
  <2> QED
    BY <2>2, <2>3
<1>7. rbuf' = <<>> <=> m = 0
  BY <1>3, <1>4, <1>6, EmptySeq
<1>8. \/ m = 0 /\ pc' = "loop" /\ q' = Tail(q)
      \/ m # 0 /\ pc' = "copied" /\ q' = q
  BY Zenon, <1>7 DEF CopyUpTo
<1>9. TypeOK'
  <2>1. q' \in Seq(Pipes) /\ Len(q') <= QueueSize
    <3>1. Len(q) <= QueueSize /\ QueueSize \in Nat
      BY CharDevAssumption DEF FifoInv, TypeOK
    <3>2. q' = Tail(q) \/ q' = q
      BY <1>8
    <3> QED
      BY <1>1, <3>1, <3>2
  <2>2. rbuf' \in Seq(Chars) /\ Len(rbuf') < Size
    BY <1>4, <1>6
  <2> QED
    BY <1>2, <1>8, <2>1, <2>2 DEF FifoInv, TypeOK
<1>10. Reading'
  <2>1. CASE m = 0
    BY <2>1, <1>8 DEF Reading
  <2>2. CASE m # 0
    <3>1. q' = q /\ Head(q') = p /\ fifo' = fifo
      BY <1>2, <1>8, <2>2 DEF p
    <3>2. Len(fifo[p]) \in Nat /\ CNT(p) = Len(fifo[p])
      BY <1>2, LenProperties DEF FifoOf
    <3>3. m \in 1 .. Len(fifo[p])
      BY <1>4, <2>2, <3>2
    <3>4. \A k \in 1 .. m : rbuf'[k] = fifo[p][k]
      BY <1>3, <1>5
    <3> QED
      BY <1>1, <1>6, <3>1, <3>3, <3>4 DEF Reading
  <2> QED
    BY <2>1, <2>2
<1>11. \A r \in Pipes : FifoOf(r)'
  BY <1>2 DEF FifoInv, FifoOf, CNT
<1> QED
  BY <1>2, <1>4, <1>6, <1>7, <1>9, <1>10, <1>11 DEF FifoInv, p

\* bathos_dev_read moves tail past what it has copied.
LEMMA FifoInvTail ==
    ASSUME FifoInv, ReadTail
    PROVE  /\ FifoInv'
           /\ CNT(Head(q))' <= CNT(Head(q))
<1> DEFINE p == Head(q)
           n == Len(rbuf)
           g == fifo[p]
<1>1. /\ pc = "copied" /\ q # <<>> /\ q \in Seq(Pipes) /\ p \in Pipes
      /\ n \in 1 .. Len(g) /\ pc' = "moved"
      /\ UNCHANGED <<head, buf, rx_hwm, q, rbuf, char, overrun, excused>>
  BY HeadTailProperties DEF ReadTail, FifoInv, TypeOK, Reading
<1>2. /\ head \in [Pipes -> Slots] /\ tail \in [Pipes -> Slots]
      /\ fifo \in [Pipes -> Seq(Chars)] /\ \A r \in Pipes : FifoOf(r)
  BY DEF FifoInv, TypeOK
<1>3. /\ tail' = [tail EXCEPT ![p] = (tail[p] + n) % Size]
      /\ fifo' = [fifo EXCEPT ![p] = SubSeq(g, n + 1, Len(g))]
  BY DEF ReadTail
<1> HIDE DEF p
<1>4. g \in Seq(Chars) /\ Len(g) \in Nat /\ CNT(p) = Len(g) /\ head[p] \in Slots /\ tail[p] \in Slots
  BY <1>1, <1>2, LenProperties DEF FifoOf
<1>5. n \in Nat /\ n <= CIRC_CNT(head[p], tail[p], Size)
  BY <1>1, <1>4 DEF CNT
<1> HIDE DEF n
<1>6. /\ (tail[p] + n) % Size \in Slots
      /\ CIRC_CNT(head[p], (tail[p] + n) % Size, Size) = Len(g) - n
      /\ \A k \in 1 .. Size :
            n + k <= Size => (((tail[p] + n) % Size) + k - 1) % Size = (tail[p] + (n + k) - 1) % Size
  BY <1>4, <1>5, AfterRead DEF CNT
<1>7. /\ SubSeq(g, n + 1, Len(g)) \in Seq(Chars)
      /\ Len(SubSeq(g, n + 1, Len(g))) = Len(g) - n
      /\ \A k \in 1 .. Len(g) - n : SubSeq(g, n + 1, Len(g))[k] = g[n + k]
  <2> HIDE DEF g
  <2>1. \A i \in n + 1 .. Len(g) : g[i] \in Chars
    BY <1>4, <1>5, ElementOfSeq
  <2>2. n + 1 \in Int /\ Len(g) \in Int
    BY <1>4, <1>5
  <2>3. /\ SubSeq(g, n + 1, Len(g)) \in Seq(Chars)
        /\ Len(SubSeq(g, n + 1, Len(g))) = IF n + 1 <= Len(g) THEN Len(g) - (n + 1) + 1 ELSE 0
        /\ \A k \in 1 .. Len(g) - (n + 1) + 1 : SubSeq(g, n + 1, Len(g))[k] = g[(n + 1) + k - 1]
    BY <2>1, <2>2, SubSeqProperties
  <2>4. /\ Len(g) - (n + 1) + 1 = Len(g) - n /\ n <= Len(g)
        /\ \A k \in Int : (n + 1) + k - 1 = n + k
    BY <1>1, <1>4, <1>5
  <2> QED
    BY <1>4, <1>5, <2>3, <2>4
<1>8. FifoOf(p)'
  <2>1. /\ head'[p] = head[p] /\ buf'[p] = buf[p] /\ p' = p
        /\ tail'[p] = (tail[p] + n) % Size /\ fifo'[p] = SubSeq(g, n + 1, Len(g))
    BY <1>1, <1>2, <1>3 DEF p
  <2>2. CIRC_CNT(head[p], tail[p], Size) \in Slots
    BY <1>4, CircFacts
  <2>3. Len(g) < Size
    BY <1>4, <2>2, CharDevAssumption DEF CNT, Slots
  <2>4. ASSUME NEW k \in 1 .. Len(g) - n
        PROVE  buf[p][(((tail[p] + n) % Size) + k - 1) % Size] = g[n + k]
    <3>1. k \in 1 .. Size /\ n + k <= Size /\ n + k \in 1 .. Len(g)
      BY <1>1, <1>4, <1>5, <2>3, CharDevAssumption
    <3>2. buf[p][(tail[p] + (n + k) - 1) % Size] = g[n + k]
      BY Zenon, <1>1, <1>2, <3>1 DEF FifoOf
    <3> QED
      BY <1>6, <3>1, <3>2
  <2>5. CIRC_CNT(head'[p], tail'[p], Size) = Len(fifo'[p])
    BY <1>6, <1>7, <2>1
  <2>6. \A k \in 1 .. Len(fifo'[p]) : buf'[p][(tail'[p] + k - 1) % Size] = fifo'[p][k]
    BY <1>7, <2>1, <2>4
  <2> QED
    BY Zenon, <2>1, <2>5, <2>6 DEF FifoOf, CNT
<1>9. ASSUME NEW r \in Pipes, r # p PROVE FifoOf(r)'
  <2>1. head'[r] = head[r] /\ tail'[r] = tail[r] /\ buf'[r] = buf[r] /\ fifo'[r] = fifo[r]
    BY <1>1, <1>2, <1>3, <1>9
  <2> QED
    BY <1>2, <2>1 DEF FifoOf, CNT
<1>10. TypeOK'
  <2>1. tail' \in [Pipes -> Slots] /\ fifo' \in [Pipes -> Seq(Chars)]
    BY Zenon, <1>2, <1>3, <1>6, <1>7
  <2> QED
    BY <1>1, <2>1 DEF FifoInv, TypeOK
<1>11. CNT(p)' <= CNT(p)
  <2>1. head'[p] = head[p] /\ p' = p /\ tail'[p] = (tail[p] + n) % Size
    BY <1>1, <1>2, <1>3 DEF p
  <2> QED
    BY <1>4, <1>5, <1>6, <2>1 DEF CNT
<1>12. p' = p
  BY <1>1 DEF p
<1>13. \A r \in Pipes : FifoOf(r)'
  BY <1>8, <1>9, <1>12 DEF FifoOf, CNT
<1> QED
  BY <1>1, <1>10, <1>11, <1>12, <1>13 DEF FifoInv, Reading, p

\* The rest of a read, and the watermark.
LEMMA FifoInvTrigger ==
    ASSUME FifoInv, ReadTrigger
    PROVE  FifoInv'
<1> DEFINE n == IF CNT(Head(q)) > 0 THEN 1 ELSE 0
<1>1. n \in Nat /\ TriggerAll(n) /\ pc = "moved" /\ pc' = "return" /\ rbuf' = <<>>
      /\ UNCHANGED <<head, tail, buf, rx_hwm, char, overrun, fifo>>
  BY DEF ReadTrigger, cb
<1> HIDE DEF n
<1>2. /\ q # <<>> /\ TypeOK
  BY <1>1 DEF FifoInv, Reading
<1>3. /\ q' \in Seq(Pipes) /\ Len(q') <= QueueSize /\ q' # <<>>
      /\ excused' \subseteq Pipes \/ excused' = excused
  BY <1>1, <1>2, HeadKept DEF TypeOK, QueueOK
<1>4. <<>> \in Seq(Chars) /\ Len(<<>>) = 0 /\ 0 < Size
  BY EmptySeq, CharDevAssumption
<1>5. rbuf' \in Seq(Chars) /\ Len(rbuf') < Size
  BY <1>1, <1>4
<1>6. TypeOK'
  BY <1>1, <1>2, <1>3, <1>5 DEF TypeOK
<1>7. \A r \in Pipes : FifoOf(r)'
  BY <1>1 DEF FifoInv, FifoOf, CNT
<1> QED
  BY <1>1, <1>3, <1>6, <1>7 DEF FifoInv, Reading

\* The handler's return takes its event from the queue.
LEMMA FifoInvReturn ==
    ASSUME FifoInv, ReadReturn
    PROVE  FifoInv'
<1>1. /\ q # <<>> /\ q \in Seq(Pipes) /\ Len(q) <= QueueSize /\ q' = Tail(q) /\ pc' = "loop"
      /\ UNCHANGED <<head, tail, buf, rx_hwm, rbuf, char, overrun, fifo, excused>>
  BY DEF ReadReturn, FifoInv, Reading, TypeOK, cb
<1>2. Tail(q) \in Seq(Pipes) /\ Len(Tail(q)) = Len(q) - 1 /\ Len(q) \in Nat
  BY <1>1, HeadTailProperties, LenProperties
<1>3. q' \in Seq(Pipes) /\ Len(q') <= QueueSize
  BY <1>1, <1>2, CharDevAssumption
<1>4. TypeOK'
  BY <1>1, <1>3 DEF FifoInv, TypeOK
<1>5. \A r \in Pipes : FifoOf(r)'
  BY <1>1 DEF FifoInv, FifoOf, CNT
<1> QED
  BY <1>1, <1>4, <1>5 DEF FifoInv, Reading

\* The watermark is not part of a buffer's contents.
LEMMA FifoInvSetHwm ==
    ASSUME FifoInv, SetHwm
    PROVE  FifoInv'
<1>1. /\ pc = "loop" /\ rx_hwm' \in [Pipes -> Hwms] /\ excused' \subseteq Pipes
      /\ UNCHANGED <<head, tail, buf, q, pc, rbuf, char, overrun, fifo>>
  BY DEF SetHwm, FifoInv, TypeOK, cb
<1>2. \A r \in Pipes : FifoOf(r)'
  BY <1>1 DEF FifoInv, FifoOf, CNT
<1> QED
  BY <1>1, <1>2 DEF FifoInv, TypeOK, Reading

\* Every step keeps the invariant.
LEMMA FifoInvNext ==
    ASSUME OnlyIfRoom, FifoInv, [Next]_vars
    PROVE  FifoInv'
<1>1. CASE UNCHANGED vars
  <2>1. \A r \in Pipes : FifoOf(r)'
    BY <1>1 DEF vars, cb, FifoInv, FifoOf, CNT
  <2> QED
    BY <1>1, <2>1 DEF vars, cb, FifoInv, TypeOK, Reading
<1>2. ASSUME ReadCopy PROVE FifoInv'
  <2>1. PICK len \in 1 .. MaxRead : CopyUpTo(len)
    BY <1>2 DEF ReadCopy
  <2>2. len \in Nat \ {0}
    BY CharDevAssumption
  <2> QED
    BY <2>1, <2>2, FifoInvCopy
<1> QED
  BY <1>1, <1>2, FifoInvIrq, FifoInvTail, FifoInvTrigger, FifoInvReturn, FifoInvSetHwm
  DEF Next, Read

\* The invariant is strong enough.
LEMMA FifoInvImplies == FifoInv => BufferIsFifo
<1> SUFFICES ASSUME FifoInv PROVE BufferIsFifo
  OBVIOUS
<1>1. ASSUME NEW p \in Pipes
      PROVE  /\ CNT(p) = Len(fifo[p])
             /\ \A k \in DOMAIN fifo[p] : buf[p][(tail[p] + k - 1) % Size] = fifo[p][k]
  <2>1. fifo[p] \in Seq(Chars) /\ FifoOf(p)
    BY DEF FifoInv, TypeOK
  <2>2. DOMAIN fifo[p] = 1 .. Len(fifo[p])
    BY <2>1, LenProperties
  <2> QED
    BY <2>1, <2>2 DEF FifoOf
<1>2. ReadsInOrder
  <2> SUFFICES ASSUME pc = "copied"
               PROVE  /\ Len(rbuf) \in 1 .. Len(fifo[Head(q)])
                      /\ rbuf = SubSeq(fifo[Head(q)], 1, Len(rbuf))
    BY DEF ReadsInOrder
  <2> DEFINE g == fifo[Head(q)]
  <2>1. /\ Head(q) \in Pipes /\ rbuf \in Seq(Chars) /\ Len(rbuf) \in 1 .. Len(g)
        /\ \A k \in 1 .. Len(rbuf) : rbuf[k] = g[k]
    BY HeadTailProperties DEF FifoInv, TypeOK, Reading
  <2>2. g \in Seq(Chars)
    BY <2>1 DEF FifoInv, TypeOK
  <2> HIDE DEF g
  <2>3. /\ Len(rbuf) \in Nat /\ Len(g) \in Nat /\ Len(rbuf) <= Len(g) /\ Len(rbuf) > 0
    BY <2>1, <2>2, LenProperties
  <2>4. rbuf = SubSeq(rbuf, 1, Len(rbuf)) /\ SubSeq(rbuf, 1, Len(rbuf)) = SubSeq(g, 1, Len(rbuf))
    BY <2>1, <2>2, <2>3
  <2> QED
    BY <2>1, <2>4 DEF g
<1> QED
  BY <1>1, <1>2 DEF FifoInv, BufferIsFifo

\* When drivers push only what fits, the reader finds in the buffer what the
\* interrupt handlers accepted and nobody has read, in order, and no push
\* writes past its end (_bathos_pipe_push_chars, bathos_dev_read): for every
\* number of pipes, size, watermark and lengths of pushes and reads.
THEOREM ReceiveBufferIsFifo ==
    ASSUME OnlyIfRoom
    PROVE  Spec => []BufferIsFifo
<1>1. FifoInv /\ [Next]_vars => FifoInv'
  BY FifoInvNext
<1> QED
  BY <1>1, FifoInvInit, FifoInvImplies, PTL DEF Spec

-----------------------------------------------------------------------------
(* No pipe is forgotten.                                                   *)

\* The events of a queue to which others have been appended ...
LEMMA ToSetConcat ==
    ASSUME NEW S, NEW s \in Seq(S), NEW t \in Seq(S)
    PROVE  Range(s \o t) = Range(s) \cup Range(t)
<1>1. /\ s \o t \in Seq(S) /\ Len(s \o t) = Len(s) + Len(t)
      /\ \A k \in 1 .. Len(s) + Len(t) : (s \o t)[k] = IF k <= Len(s) THEN s[k] ELSE t[k - Len(s)]
  BY ConcatProperties
<1> DEFINE u == s \o t
<1>2. /\ DOMAIN s = 1 .. Len(s) /\ DOMAIN t = 1 .. Len(t) /\ DOMAIN u = 1 .. Len(s) + Len(t)
      /\ Len(s) \in Nat /\ Len(t) \in Nat
  BY <1>1, LenProperties
<1>3. \A k \in 1 .. Len(s) + Len(t) : u[k] = IF k <= Len(s) THEN s[k] ELSE t[k - Len(s)]
  BY <1>1
<1> HIDE DEF u
<1>4. ASSUME NEW x \in Range(u) PROVE x \in Range(s) \cup Range(t)
  <2>1. PICK k \in 1 .. Len(s) + Len(t) : x = u[k]
    BY <1>2 DEF Range
  <2>2. CASE k <= Len(s)
    BY <1>2, <1>3, <2>1, <2>2 DEF Range
  <2>3. CASE ~(k <= Len(s))
    <3>1. k - Len(s) \in DOMAIN t /\ x = t[k - Len(s)]
      BY <1>2, <1>3, <2>1, <2>3
    <3> QED
      BY <3>1 DEF Range
  <2> QED
    BY <2>2, <2>3
<1>5. ASSUME NEW x \in Range(s) PROVE x \in Range(u)
  <2>1. PICK k \in 1 .. Len(s) : x = s[k]
    BY <1>2 DEF Range
  <2>2. k \in 1 .. Len(s) + Len(t) /\ u[k] = x
    BY <1>2, <1>3, <2>1
  <2> QED
    BY <1>2, <2>2 DEF Range
<1>6. ASSUME NEW x \in Range(t) PROVE x \in Range(u)
  <2>1. PICK k \in 1 .. Len(t) : x = t[k]
    BY <1>2 DEF Range
  <2> DEFINE j == k + Len(s)
  <2>2. j \in 1 .. Len(s) + Len(t) /\ u[j] = x
    <3>1. j \in 1 .. Len(s) + Len(t) /\ ~(j <= Len(s)) /\ j - Len(s) = k
      BY <1>2
    <3> HIDE DEF j
    <3> QED
      BY <1>3, <2>1, <3>1
  <2> HIDE DEF j
  <2> QED
    BY <1>2, <2>2 DEF Range
<1> QED
  BY <1>4, <1>5, <1>6 DEF u

\* ... and of one whose head is taken.
LEMMA ToSetHeadTail ==
    ASSUME NEW S, NEW s \in Seq(S), s # <<>>
    PROVE  Range(s) = {Head(s)} \cup Range(Tail(s))
<1>1. /\ Tail(s) \in Seq(S) /\ Len(Tail(s)) = Len(s) - 1 /\ Len(s) \in Nat \ {0} /\ Head(s) = s[1]
      /\ \A k \in 1 .. Len(Tail(s)) : Tail(s)[k] = s[k + 1]
  BY HeadTailProperties, LenProperties, EmptySeq
<1>2. DOMAIN s = 1 .. Len(s) /\ DOMAIN Tail(s) = 1 .. Len(s) - 1
  BY <1>1, LenProperties
<1>3. ASSUME NEW k \in 1 .. Len(s) PROVE s[k] \in {Head(s)} \cup Range(Tail(s))
  <2>1. CASE k = 1
    BY <1>1, <2>1
  <2>2. CASE k # 1
    <3>1. k - 1 \in DOMAIN Tail(s) /\ Tail(s)[k - 1] = s[k]
      BY <1>1, <1>2, <2>2
    <3> QED
      BY Zenon, <3>1 DEF Range
  <2> QED
    BY <2>1, <2>2
<1>4. ASSUME NEW k \in 1 .. Len(s) - 1 PROVE Tail(s)[k] \in Range(s)
  <2>1. k + 1 \in DOMAIN s /\ Tail(s)[k] = s[k + 1]
    BY <1>1, <1>2
  <2> QED
    BY <2>1 DEF Range
<1>5. Head(s) \in Range(s)
  BY <1>1, <1>2 DEF Range
<1> QED
  BY <1>2, <1>3, <1>4, <1>5 DEF Range

\* The events that are still to be handled when the handler that is running,
\* if it will not look at its pipe again, has returned.
Ahead == IF pc = "return" THEN Tail(q) ELSE q

\* The inductive invariant of NoStall: at the end of a read the event must be
\* another one than the read's own.
StallInv ==
    /\ head \in [Pipes -> Slots] /\ tail \in [Pipes -> Slots]
    /\ rx_hwm \in [Pipes -> Hwms] /\ Len(rbuf) \in Nat
    /\ QueueOK
    /\ pc # "loop" => q # <<>>
    /\ \A p \in Pipes : CNT(p) > rx_hwm[p] => p \in Range(Ahead) \cup excused

\* At the start no pipe holds anything.
LEMMA StallInvInit == Init => StallInv
<1> SUFFICES ASSUME Init PROVE StallInv
  OBVIOUS
<1>1. /\ 0 \in Slots /\ 0 \in Hwms /\ QueueSize \in Nat
      /\ <<>> \in Seq(Pipes) /\ Len(<<>>) = 0
  BY CharDevAssumption, EmptySeq DEF Slots
<1>2. /\ head \in [Pipes -> Slots] /\ tail \in [Pipes -> Slots] /\ rx_hwm \in [Pipes -> Hwms]
      /\ \A p \in Pipes : head[p] = 0 /\ tail[p] = 0 /\ rx_hwm[p] = 0
  BY <1>1 DEF Init
<1>3. CIRC_CNT(0, 0, Size) = 0
  BY <1>1, CircFacts
<1>4. \A p \in Pipes : ~(CNT(p) > rx_hwm[p])
  BY <1>2, <1>3 DEF CNT
<1>5. QueueOK /\ Len(rbuf) \in Nat /\ pc = "loop"
  BY <1>1 DEF Init, QueueOK
<1> QED
  BY <1>2, <1>4, <1>5 DEF StallInv

\* After a trigger every pipe has an event or is excused.
LEMMA TriggerFacts ==
    ASSUME StallInv, NEW n \in Nat, TriggerAll(n), pc' = pc \/ (pc = "moved" /\ pc' = "return")
    PROVE  /\ QueueOK' /\ (q # <<>> => q' # <<>>)
           /\ n = 0 => q' = q /\ excused' = excused
           /\ n # 0 => \A p \in Pipes : p \in Range(Ahead') \cup excused'
<1>1. /\ q \in Seq(Pipes) /\ Got(n) \in Seq(Pipes) /\ q' = q \o Got(n) /\ q' \in Seq(Pipes)
      /\ Len(q') <= QueueSize /\ (q # <<>> => q' # <<>>)
      /\ n = 0 => q' = q /\ excused' = excused
  BY Zenon, GotFacts, HeadKept DEF StallInv, QueueOK, TriggerAll
<1>2. ASSUME n # 0, NEW p \in Pipes
      PROVE  p \in Range(Ahead') \cup excused'
  <2>1. excused' = Pipes \ Range(Got(n))
    BY <1>2 DEF TriggerAll
  <2>2. CASE pc' # "return"
    <3>1. Range(q') = Range(q) \cup Range(Got(n))
      BY <1>1, ToSetConcat
    <3> QED
      BY <2>1, <2>2, <3>1 DEF Ahead
  <2>3. CASE pc' = "return"
    <3>1. q # <<>>
      BY <2>3 DEF StallInv
    <3>2. Tail(q') = Tail(q) \o Got(n) /\ Tail(q) \in Seq(Pipes)
      <4>1. Tail(q) \in Seq(Pipes)
        BY <1>1, <3>1, HeadTailProperties
      <4> DEFINE g == Got(n)
      <4>2. g \in Seq(Pipes)
        BY <1>1
      <4> HIDE DEF g
      <4>3. Tail(q \o g) = Tail(q) \o g
        BY <1>1, <3>1, <4>1, <4>2
      <4> QED
        BY <1>1, <4>1, <4>3 DEF g
    <3>3. Range(Tail(q')) = Range(Tail(q)) \cup Range(Got(n))
      <4>1. Tail(q) \in Seq(Pipes) /\ Got(n) \in Seq(Pipes)
        BY <1>1, <3>2
      <4>2. Range(Tail(q) \o Got(n)) = Range(Tail(q)) \cup Range(Got(n))
        BY ZenonT(40), <4>1, ToSetConcat
      <4> QED
        BY Zenon, <3>2, <4>2
    <3> QED
      BY <2>1, <2>3, <3>3 DEF Ahead
  <2> QED
    BY <2>2, <2>3
<1> QED
  BY <1>1, <1>2 DEF QueueOK

\* A push triggers an event for every pipe if it makes one exceed its
\* watermark; if it makes none exceed it the other pipes have not changed.
LEMMA StallInvIrq ==
    ASSUME StallInv, IrqHandler
    PROVE  StallInv'
<1>1. PICK len \in 1 .. MaxPush : Push([k \in 1 .. len |-> (char + k - 1) % NChars])
  BY Zenon DEF IrqHandler
<1> DEFINE b == [k \in 1 .. len |-> (char + k - 1) % NChars]
           n == [p \in Pipes |-> IF p \in Reached THEN Copied(p, Len(b)) ELSE 0]
           A == {p \in Reached : Above(p, n[p])}
<1>2. Len(b) = len /\ len \in Nat
  BY CharDevAssumption
<1> HIDE DEF b
<1>3. /\ head' = [p \in Pipes |-> (head[p] + n[p]) % Size]
      /\ TriggerAll(Cardinality(A))
      /\ UNCHANGED <<tail, rx_hwm, pc, rbuf>>
  BY Zenon, <1>1 DEF Push, b
<1>4. ASSUME NEW p \in Pipes PROVE n[p] \in Nat /\ head[p] \in Slots /\ tail[p] \in Slots
  <2>1. head[p] \in Slots /\ tail[p] \in Slots
    BY DEF StallInv
  <2> DEFINE s == CIRC_SPACE_TO_END(head[p], tail[p], Size)
             r == CIRC_SPACE(head[p], tail[p], Size)
             c == CIRC_CNT(head[p], tail[p], Size)
  <2>2. s \in Nat
    <3>1. s = IF tail[p] > head[p] THEN tail[p] - head[p] - 1
              ELSE IF tail[p] = 0 THEN Size - 1 - head[p] ELSE Size - head[p]
      BY <2>1, CircFacts
    <3> HIDE DEF s
    <3> QED
      BY <2>1, <3>1, CharDevAssumption DEF Slots
  <2>3. c \in Slots /\ r = Size - 1 - c
    BY <2>1, CircFacts
  <2> HIDE DEF c
  <2>4. r \in Nat
    BY <2>3, CharDevAssumption DEF Slots
  <2> HIDE DEF s, r
  <2> DEFINE f == FirstPart(p, len)
  <2>5. f \in Nat /\ f <= len
    BY <1>2, <2>2, MinTwo DEF FirstPart, s
  <2> HIDE DEF f
  <2>6. len - f \in Nat
    BY <1>2, <2>5
  <2>7. SecondPart(p, len) \in Nat
    BY <2>4, <2>6, MinTwo DEF SecondPart, f, r
  <2>8. Copied(p, len) \in Nat
    BY <2>5, <2>7 DEF Copied, f
  <2> QED
    BY <1>2, <2>1, <2>8
<1>5. A \subseteq Pipes /\ IsFiniteSet(A) /\ Cardinality(A) \in Nat
  <2>1. IsFiniteSet(Pipes)
    BY CharDevAssumption, FS_Interval DEF Pipes
  <2>2. A \subseteq Pipes
    BY DEF Reached
  <2> QED
    BY Zenon, <2>1, <2>2, FS_Subset, FS_CardinalityType
<1>6. \A p \in A : Above(p, n[p])
  OBVIOUS
<1>7. \A p \in Reached \ A : ~Above(p, n[p])
  OBVIOUS
<1>8. \A p \in Pipes \ Reached : n[p] = 0
  OBVIOUS
<1> HIDE DEF n, A
<1>9. Cardinality(A) = 0 => A = {}
  BY <1>5, FS_EmptySet
<1>10. /\ QueueOK' /\ (q # <<>> => q' # <<>>)
       /\ Cardinality(A) = 0 => q' = q /\ excused' = excused
       /\ Cardinality(A) # 0 => \A p \in Pipes : p \in Range(Ahead') \cup excused'
  BY <1>3, <1>5, TriggerFacts
<1>11. head' \in [Pipes -> Slots]
  <2>1. ASSUME NEW p \in Pipes PROVE (head[p] + n[p]) % Size \in Slots
    BY <1>4, CharDevAssumption DEF Slots
  <2> QED
    BY <1>3, <2>1
<1>12. ASSUME NEW p \in Pipes, (CNT(p) > rx_hwm[p])'
       PROVE  p \in (Range(Ahead) \cup excused)'
  <2>1. CASE Cardinality(A) # 0
    BY <1>10, <2>1
  <2>2. CASE Cardinality(A) = 0
    <3>1. A = {} /\ q' = q /\ excused' = excused /\ Ahead' = Ahead
      BY <1>3, <1>9, <1>10, <2>2 DEF Ahead
    <3>2. CIRC_CNT((head[p] + n[p]) % Size, tail[p], Size) > rx_hwm[p]
      BY <1>3, <1>12 DEF CNT
    <3>3. p \notin Reached
      BY <1>7, <3>1, <3>2 DEF Above
    <3>4. n[p] = 0 /\ 0 \in 0 .. Size /\ head[p] \in Slots
      BY <1>4, <1>8, <3>3, CharDevAssumption
    <3>5. (head[p] + n[p]) % Size = head[p]
      <4>1. head[p] + 0 = head[p] /\ head[p] < Size
        BY <3>4, CharDevAssumption DEF Slots
      <4> QED
        BY <3>4, <4>1, Around
    <3>6. CNT(p) > rx_hwm[p]
      BY <3>2, <3>5 DEF CNT
    <3> QED
      BY <3>1, <3>6 DEF StallInv
  <2> QED
    BY <2>1, <2>2
<1> QED
  BY <1>3, <1>10, <1>11, <1>12 DEF StallInv

\* A read that finds nothing gives up its event: its pipe is empty.
LEMMA StallInvCopy ==
    ASSUME StallInv, NEW len \in Nat \ {0}, CopyUpTo(len)
    PROVE  StallInv'
<1> DEFINE p == Head(q)
           e == CIRC_CNT_TO_END(head[p], tail[p], Size)
           m == Min({len, e})
<1>1. /\ q # <<>> /\ q \in Seq(Pipes) /\ p \in Pipes /\ Tail(q) \in Seq(Pipes)
      /\ Len(Tail(q)) = Len(q) - 1 /\ Len(q) \in Nat /\ Len(q) <= QueueSize
  BY HeadTailProperties, LenProperties DEF CopyUpTo, StallInv, QueueOK
<1>2. /\ head[p] \in Slots /\ tail[p] \in Slots /\ rx_hwm[p] \in Nat /\ pc = "loop"
      /\ rbuf' = [k \in 1 .. m |-> buf[p][tail[p] + k - 1]]
      /\ UNCHANGED <<head, tail, rx_hwm, excused>>
  BY Zenon, <1>1, CharDevAssumption DEF StallInv, CopyUpTo, cb
<1> HIDE DEF p
<1>3. m \in Nat /\ (m = 0 => CNT(p) = 0)
  <2> DEFINE c == CIRC_CNT(head[p], tail[p], Size)
  <2>2. e \in Nat /\ (e = 0 => c = 0)
    BY Zenon, <1>2, ToEnd
  <2> HIDE DEF e, c
  <2>3. m = IF len <= e THEN len ELSE e
    BY <2>2, MinTwo
  <2>4. CNT(p) = c
    BY DEF CNT, c
  <2> HIDE DEF m
  <2> QED
    BY <2>2, <2>3, <2>4
<1> HIDE DEF m
<1>4. Len(rbuf') = m /\ (rbuf' = <<>> <=> m = 0)
  BY <1>2, <1>3
<1>5. CASE m = 0
  <2>1. pc' = "loop" /\ q' = Tail(q) /\ Ahead' = Tail(q) /\ Ahead = q
    BY Zenon, <1>2, <1>4, <1>5 DEF CopyUpTo, Ahead
  <2>2. Range(q) = {p} \cup Range(Tail(q))
    BY <1>1, ToSetHeadTail DEF p
  <2>3. ASSUME NEW r \in Pipes, CNT(r)' > rx_hwm'[r] PROVE r \in Range(Ahead') \cup excused'
    <3>1. CNT(r) > rx_hwm[r]
      BY <1>2, <2>3 DEF CNT
    <3>2. r # p
      BY <1>2, <1>3, <1>5, <3>1
    <3>3. r \in Range(q) \cup excused
      BY <2>1, <3>1 DEF StallInv
    <3> QED
      BY <1>2, <2>1, <2>2, <3>2, <3>3
  <2>4. QueueOK'
    BY <1>1, <2>1, CharDevAssumption DEF QueueOK
  <2> QED
    BY <1>2, <1>3, <1>4, <2>1, <2>3, <2>4 DEF StallInv
<1>6. CASE m # 0
  <2>1. pc' = "copied" /\ q' = q /\ Ahead' = q /\ Ahead = q
    BY Zenon, <1>2, <1>4, <1>6 DEF CopyUpTo, Ahead
  <2>2. ASSUME NEW r \in Pipes, CNT(r)' > rx_hwm'[r] PROVE r \in Range(Ahead') \cup excused'
    BY <1>2, <2>1, <2>2 DEF StallInv, CNT
  <2> QED
    BY <1>1, <1>2, <1>3, <1>4, <2>1, <2>2 DEF StallInv, QueueOK
<1> QED
  BY <1>5, <1>6

\* A read that found something keeps its event ...
LEMMA StallInvTail ==
    ASSUME StallInv, ReadTail
    PROVE  StallInv'
<1> DEFINE p == Head(q)
<1>1. /\ q # <<>> /\ q \in Seq(Pipes) /\ p \in Pipes /\ pc = "copied" /\ pc' = "moved"
      /\ tail' = [tail EXCEPT ![p] = (tail[p] + Len(rbuf)) % Size]
      /\ UNCHANGED <<head, rx_hwm, q, rbuf, excused>>
  BY HeadTailProperties DEF ReadTail, StallInv, QueueOK
<1>2. Ahead = q /\ Ahead' = q
  BY <1>1 DEF Ahead
<1>3. p \in Range(q)
  BY <1>1, ToSetHeadTail
<1>4. tail' \in [Pipes -> Slots]
  <2>1. tail[p] \in Nat /\ Len(rbuf) \in Nat /\ tail \in [Pipes -> Slots]
    BY <1>1, CharDevAssumption DEF StallInv, Slots
  <2>2. (tail[p] + Len(rbuf)) % Size \in Slots
    BY <2>1, CharDevAssumption DEF Slots
  <2> QED
    BY <1>1, <2>1, <2>2
<1> HIDE DEF p
<1>5. ASSUME NEW r \in Pipes, CNT(r)' > rx_hwm'[r] PROVE r \in Range(Ahead') \cup excused'
  <2>1. CASE r = p
    BY <1>2, <1>3, <2>1
  <2>2. CASE r # p
    <3>1. tail'[r] = tail[r]
      BY <1>1, <2>2 DEF StallInv
    <3>2. CNT(r) > rx_hwm[r]
      BY <1>1, <1>5, <3>1 DEF CNT
    <3> QED
      BY <1>1, <1>2, <3>2 DEF StallInv
  <2> QED
    BY <2>1, <2>2
<1> QED
  BY <1>1, <1>4, <1>5 DEF StallInv, QueueOK

\* ... until it has triggered another one, if there is more ...
LEMMA StallInvTrigger ==
    ASSUME StallInv, ReadTrigger
    PROVE  StallInv'
<1> DEFINE n == IF CNT(Head(q)) > 0 THEN 1 ELSE 0
<1>1. /\ n \in Nat /\ TriggerAll(n) /\ pc = "moved" /\ pc' = "return" /\ rbuf' = <<>>
      /\ UNCHANGED <<head, tail, rx_hwm>>
  BY DEF ReadTrigger, cb
<1>2. n = 0 => ~(CNT(Head(q)) > 0)
  OBVIOUS
<1> HIDE DEF n
<1>3. /\ q # <<>> /\ q \in Seq(Pipes) /\ Head(q) \in Pipes
      /\ Range(q) = {Head(q)} \cup Range(Tail(q)) /\ Len(rbuf') \in Nat
  BY <1>1, HeadTailProperties, ToSetHeadTail, EmptySeq DEF StallInv, QueueOK
<1>4. /\ QueueOK' /\ q' # <<>>
      /\ n = 0 => q' = q /\ excused' = excused
      /\ n # 0 => \A p \in Pipes : p \in Range(Ahead') \cup excused'
  BY <1>1, <1>3, TriggerFacts
<1>5. ASSUME NEW r \in Pipes, CNT(r)' > rx_hwm'[r] PROVE r \in Range(Ahead') \cup excused'
  <2>1. CASE n # 0
    BY <1>4, <2>1
  <2>2. CASE n = 0
    <3>1. /\ Ahead' = Tail(q) /\ Ahead = q /\ excused' = excused
      BY <1>1, <1>4, <2>2 DEF Ahead
    <3>2. CNT(r) > rx_hwm[r] /\ rx_hwm[r] \in Nat /\ CNT(r) \in Int
      <4>1. head[r] \in Slots /\ tail[r] \in Slots /\ rx_hwm[r] \in Nat
        BY Zenon, CharDevAssumption DEF StallInv
      <4>2. CNT(r) \in Slots
        BY <4>1, CircFacts DEF CNT
      <4> QED
        BY <1>1, <1>5, <4>1, <4>2, CharDevAssumption DEF CNT, Slots
    <3>3. r # Head(q)
      BY <1>2, <2>2, <3>2
    <3>4. r \in Range(q) \cup excused
      BY <3>1, <3>2 DEF StallInv
    <3> QED
      BY <1>3, <3>1, <3>3, <3>4
  <2> QED
    BY <2>1, <2>2
<1> QED
  BY <1>1, <1>3, <1>4, <1>5 DEF StallInv

\* ... which then takes its place.
LEMMA StallInvReturn ==
    ASSUME StallInv, ReadReturn
    PROVE  StallInv'
<1>1. /\ q # <<>> /\ q \in Seq(Pipes) /\ Len(q) <= QueueSize /\ q' = Tail(q)
      /\ pc = "return" /\ pc' = "loop"
      /\ UNCHANGED <<head, tail, rx_hwm, rbuf, excused>>
  BY DEF ReadReturn, StallInv, QueueOK, cb
<1>2. Tail(q) \in Seq(Pipes) /\ Len(Tail(q)) = Len(q) - 1 /\ Len(q) \in Nat
  BY <1>1, HeadTailProperties, LenProperties
<1>3. QueueOK'
  BY <1>1, <1>2, CharDevAssumption DEF QueueOK
<1>4. Ahead' = Ahead
  BY <1>1 DEF Ahead
<1>5. \A r \in Pipes : CNT(r)' > rx_hwm'[r] => r \in Range(Ahead') \cup excused'
  BY <1>1, <1>4 DEF StallInv, CNT
<1> QED
  BY <1>1, <1>3, <1>5 DEF StallInv

\* A watermark below what its pipe holds excuses the pipe.
LEMMA StallInvSetHwm ==
    ASSUME StallInv, SetHwm
    PROVE  StallInv'
<1>1. PICK p \in Pipes, k \in Hwms :
          /\ rx_hwm' = [rx_hwm EXCEPT ![p] = k]
          /\ excused' = IF k < rx_hwm[p] /\ k < CNT(p) THEN excused \cup {p} ELSE excused
  BY Zenon DEF SetHwm
<1>2. pc = "loop" /\ UNCHANGED <<head, tail, q, pc, rbuf>> /\ Ahead' = Ahead
  BY DEF SetHwm, cb, Ahead
<1>3. rx_hwm' \in [Pipes -> Hwms]
  BY <1>1 DEF StallInv
<1>4. ASSUME NEW r \in Pipes, CNT(r)' > rx_hwm'[r] PROVE r \in Range(Ahead') \cup excused'
  <2>1. head[r] \in Slots /\ tail[r] \in Slots /\ rx_hwm[r] \in Nat /\ k \in Nat
    BY Zenon, CharDevAssumption DEF StallInv
  <2>2. CNT(r) \in Slots
    BY <2>1, CircFacts DEF CNT
  <2>3. CNT(r) \in Nat /\ CNT(r) > rx_hwm'[r]
    BY <1>2, <1>4, <2>2, CharDevAssumption DEF Slots, CNT
  <2>4. CNT(r) > rx_hwm[r] => r \in Range(Ahead') \cup excused'
    BY <1>1, <1>2 DEF StallInv
  <2>5. CASE r # p
    <3>1. rx_hwm'[r] = rx_hwm[r]
      BY <1>1, <2>5 DEF StallInv
    <3> QED
      BY <2>3, <2>4, <3>1
  <2>6. CASE r = p
    <3>1. rx_hwm'[r] = k
      BY <1>1, <2>6 DEF StallInv
    <3> QED
      BY <1>1, <2>1, <2>3, <2>4, <2>6, <3>1
  <2> QED
    BY <2>5, <2>6
<1> QED
  BY <1>2, <1>3, <1>4 DEF StallInv, QueueOK

\* Every step keeps the invariant.
LEMMA StallInvNext ==
    ASSUME StallInv, [Next]_vars
    PROVE  StallInv'
<1>1. CASE UNCHANGED vars
  <2>1. \A r \in Pipes : CNT(r)' > rx_hwm'[r] => r \in Range(Ahead') \cup excused'
    BY <1>1 DEF vars, cb, StallInv, CNT, Ahead
  <2> QED
    BY <1>1, <2>1 DEF vars, cb, StallInv, QueueOK
<1>2. ASSUME ReadCopy PROVE StallInv'
  <2>1. PICK len \in 1 .. MaxRead : CopyUpTo(len)
    BY <1>2 DEF ReadCopy
  <2>2. len \in Nat \ {0}
    BY CharDevAssumption
  <2> QED
    BY <2>1, <2>2, StallInvCopy
<1> QED
  BY <1>1, <1>2, StallInvIrq, StallInvTail, StallInvTrigger, StallInvReturn, StallInvSetHwm
  DEF Next, Read

\* A pipe that holds more than its watermark has an event in the queue,
\* however pushes and reads interleave (bathos_dev_push_chars,
\* bathos_dev_read): also when drivers push more than fits.
THEOREM NoPipeForgotten == Spec => []NoStall
<1>1. StallInv /\ [Next]_vars => StallInv'
  BY StallInvNext
<1>2. StallInv => NoStall
  <2> SUFFICES ASSUME StallInv PROVE NoStall
    OBVIOUS
  <2>1. Range(Ahead) \subseteq Range(q)
    <3>1. CASE pc = "return"
      <4>1. q # <<>> /\ q \in Seq(Pipes)
        BY <3>1 DEF StallInv, QueueOK
      <4>2. Range(q) = {Head(q)} \cup Range(Tail(q))
        BY <4>1, ToSetHeadTail
      <4> QED
        BY <3>1, <4>2 DEF Ahead
    <3>2. CASE pc # "return"
      BY <3>2 DEF Ahead
    <3> QED
      BY <3>1, <3>2
  <2> QED
    BY <2>1 DEF StallInv, NoStall
<1> QED
  BY <1>1, <1>2, StallInvInit, PTL DEF Spec
-----------------------------------------------------------------------------
(* Arithmetic modulo the number of characters.                             *)

\* Quotient and remainder ...
LEMMA DivMod ==
    ASSUME NEW a \in Nat, NEW n \in Nat \ {0}
    PROVE  /\ a \div n \in Nat /\ a % n \in 0 .. n - 1
           /\ a = n * (a \div n) + (a % n)
OBVIOUS

\* ... are determined by what they are for.
LEMMA ModUnique ==
    ASSUME NEW a \in Nat, NEW n \in Nat \ {0}, NEW d \in Int, NEW r \in 0 .. n - 1,
           a = n * d + r
    PROVE  a % n = r
<1> DEFINE e == a \div n
           s == a % n
<1>1. e \in Int /\ s \in 0 .. n - 1 /\ a = n * e + s
  <2>1. e \in Nat /\ s \in 0 .. n - 1 /\ a = n * e + s
    BY Zenon, DivMod
  <2> HIDE DEF e, s
  <2> QED
    BY <2>1
<1> HIDE DEF e, s
<1>2. CASE d >= e + 1
  <2>1. n * d >= n * (e + 1)
    BY <1>1, <1>2
  <2> QED
    BY <1>1, <2>1
<1>3. CASE e >= d + 1
  <2>1. n * e >= n * (d + 1)
    BY <1>1, <1>3
  <2> QED
    BY <1>1, <2>1
<1>4. CASE d = e
  BY <1>1, <1>4 DEF s
<1> QED
  BY <1>1, <1>2, <1>3, <1>4

\* Numbers of characters may be reduced at every step ...
LEMMA ModAdd ==
    ASSUME NEW a \in Nat, NEW b \in Nat, NEW n \in Nat \ {0}
    PROVE  ((a % n) + b) % n = (a + b) % n
<1> DEFINE d == a \div n
           r == a % n
           e == (r + b) \div n
           s == (r + b) % n
<1>1. d \in Nat /\ r \in 0 .. n - 1 /\ a = n * d + r
  BY Zenon, DivMod
<1>2. e \in Nat /\ s \in 0 .. n - 1 /\ r + b = n * e + s
  <2>1. r + b \in Nat
    BY <1>1
  <2> QED
    BY Zenon, <2>1, DivMod
<1> HIDE DEF d, e, r
<1>3. a + b = n * (d + e) + s /\ a + b \in Nat /\ d + e \in Int
  <2> HIDE DEF s
  <2>1. n * (d + e) = n * d + n * e
    BY <1>1, <1>2
  <2> QED
    BY <1>1, <1>2, <2>1
<1>4. (a + b) % n = s
  BY Zenon, <1>2, <1>3, ModUnique
<1> QED
  BY <1>4 DEF r

\* ... and tell where packets begin, as a packet's length divides their period.
LEMMA ModMod ==
    ASSUME NEW a \in Nat, NEW n \in Nat \ {0}, NEW p \in Nat \ {0}, n % p = 0
    PROVE  (a % n) % p = a % p
<1> DEFINE d == a \div n
           r == a % n
           j == n \div p
           e == r \div p
           s == r % p
<1>1. d \in Nat /\ r \in 0 .. n - 1 /\ a = n * d + r
  BY Zenon, DivMod
<1>2. j \in Nat /\ n = p * j
  BY DivMod
<1>3. e \in Nat /\ s \in 0 .. p - 1 /\ r = p * e + s
  <2>1. r \in Nat
    BY <1>1
  <2> QED
    BY <2>1, DivMod
<1> HIDE DEF d, e, r, j
<1>4. a = p * (j * d + e) + s /\ j * d + e \in Int
  <2> HIDE DEF s
  <2>1. j * d \in Nat /\ n * d = p * (j * d)
    BY <1>1, <1>2
  <2>2. p * (j * d + e) = p * (j * d) + p * e
    BY <1>3, <2>1
  <2> QED
    BY <1>1, <1>2, <1>3, <2>1, <2>2
<1>5. a % p = s
  BY Zenon, <1>3, <1>4, ModUnique
<1> QED
  BY <1>5 DEF r

-----------------------------------------------------------------------------
(* The inductive invariant.                                                *)

\* What of input_packet counts, and how many of its characters the pipe's
\* buffer still holds: bathos_dev_read has copied them and not moved tail yet.
Current == IF quiet THEN <<>> ELSE packet
Twice   == IF pc = "copied" THEN Len(rbuf) ELSE 0

\* The number, counted from the beginning of the packet, of the oldest
\* character in the buffer.
Oldest == Len(Current) - Twice

\* While nothing is dropped the characters in the packet, those in the buffer
\* and the next one to arrive follow each other.
InStep ==
    /\ expected % PacketLen = 0
    /\ quiet => pc = "loop"
    /\ Twice <= Len(Current)
    /\ \A k \in 1 .. Len(Current) : Current[k] = (expected + k - 1) % NChars
    /\ \A k \in 1 .. Len(fifo[InputPipe]) :
          fifo[InputPipe][k] = (expected + Oldest + k - 1) % NChars
    /\ char = (expected + Oldest + Len(fifo[InputPipe])) % NChars

StreamInv ==
    /\ FifoInv /\ StallInv
    /\ StreamTypeOK
    /\ rx_hwm[InputPipe] = 0
    /\ pc = "loop" => Len(packet) < PacketLen
    /\ clean => InStep

\* At the start nothing has been received.
LEMMA StreamInvInit == StreamInit => StreamInv
<1> SUFFICES ASSUME StreamInit PROVE StreamInv
  OBVIOUS
<1>1. FifoInv /\ StallInv
  BY FifoInvInit, StallInvInit DEF StreamInit
<1>2. /\ InputPipe \in Pipes /\ 0 \in Chars /\ PacketLen \in Nat \ {0}
      /\ NChars \in Nat \ {0} /\ 0 % PacketLen = 0 /\ 0 % NChars = 0
  BY CharDevAssumption, StreamAssumption DEF InputPipe, Pipes, Chars
<1>3. /\ fifo[InputPipe] = <<>> /\ rx_hwm[InputPipe] = 0
      /\ packet = <<>> /\ quiet = FALSE /\ clean = TRUE /\ expected = 0 /\ pc = "loop" /\ char = 0
  BY <1>2 DEF StreamInit, Init
<1>4. <<>> \in Seq(Chars) /\ Len(<<>>) = 0
  BY EmptySeq
<1>5. StreamTypeOK /\ Len(packet) < PacketLen
  <2>1. packet \in Seq(Chars) /\ Len(packet) = 0
    BY <1>3, <1>4
  <2>2. TypeOK
    BY <1>1 DEF FifoInv
  <2>3. Len(packet) <= PacketLen /\ Len(packet) < PacketLen
    BY <1>2, <2>1
  <2>4. quiet \in BOOLEAN /\ clean \in BOOLEAN /\ expected \in Chars
    BY Zenon, <1>2, <1>3
  <2> QED
    BY <2>1, <2>2, <2>3, <2>4 DEF StreamTypeOK
<1>6. InStep
  <2>1. Current = <<>> /\ Twice = 0 /\ Oldest = 0
    BY <1>3, <1>4 DEF Current, Twice, Oldest
  <2> QED
    BY <1>2, <1>3, <1>4, <2>1 DEF InStep
<1> QED
  BY <1>1, <1>3, <1>5, <1>6 DEF StreamInv

\* The types of what the proofs below compute with.
LEMMA StreamFacts ==
    ASSUME StreamInv
    PROVE  /\ InputPipe \in Pipes /\ Pipes = {InputPipe}
           /\ PacketLen \in Nat \ {0} /\ NChars \in Nat \ {0} /\ NChars % PacketLen = 0
           /\ expected \in Nat /\ expected \in Chars /\ char \in Nat /\ char \in Chars
           /\ fifo[InputPipe] \in Seq(Chars) /\ Len(fifo[InputPipe]) \in Nat
           /\ Current \in Seq(Chars) /\ Len(Current) \in Nat /\ Twice \in Nat
           /\ pc = "loop" => Len(Current) < PacketLen
           /\ Len(Current) <= PacketLen
           /\ clean /\ quiet => pc = "loop"
<1>1. /\ InputPipe \in Pipes /\ Pipes = {InputPipe} /\ PacketLen \in Nat \ {0}
      /\ NChars \in Nat \ {0} /\ NChars % PacketLen = 0
  BY CharDevAssumption, StreamAssumption DEF InputPipe, Pipes
<1>2. /\ expected \in Nat /\ expected \in Chars /\ char \in Nat /\ char \in Chars
      /\ packet \in Seq(Chars) /\ Len(packet) <= PacketLen /\ quiet \in BOOLEAN
      /\ rbuf \in Seq(Chars) /\ fifo[InputPipe] \in Seq(Chars)
      /\ pc = "loop" => Len(packet) < PacketLen
      /\ clean /\ quiet => pc = "loop"
  BY <1>1 DEF StreamInv, StreamTypeOK, TypeOK, Chars, InStep
<1>3. <<>> \in Seq(Chars) /\ Len(<<>>) = 0 /\ Len(packet) \in Nat /\ Len(rbuf) \in Nat
      /\ Len(fifo[InputPipe]) \in Nat
  BY <1>2, EmptySeq, LenProperties
<1>4. CASE quiet
  <2>1. Current = <<>>
    BY <1>4 DEF Current
  <2> QED
    BY <1>1, <1>2, <1>3, <2>1 DEF Twice
<1>5. CASE ~quiet
  <2>1. Current = packet
    BY <1>5 DEF Current
  <2> QED
    BY <1>1, <1>2, <1>3, <2>1 DEF Twice
<1> QED
  BY <1>4, <1>5

\* A step that changes neither the packet nor the buffer, nor what is expected.
LEMMA InStepKept ==
    ASSUME StreamInv, clean' = clean,
           UNCHANGED <<fifo, char, packet, quiet, expected>>, Twice' = Twice,
           pc' = "loop" \/ ~quiet
    PROVE  clean' => InStep'
<1> SUFFICES ASSUME clean PROVE InStep'
  OBVIOUS
<1>1. InStep
  BY DEF StreamInv
<1>2. Current' = Current /\ Oldest' = Oldest
  BY DEF Current, Oldest
<1> QED
  BY <1>1, <1>2 DEF InStep

\* The characters that a push adds continue the stream, or are dropped.
LEMMA StreamInvInterrupt ==
    ASSUME OnlyIfRoom, StreamInv, Interrupt
    PROVE  StreamInv'
<1> DEFINE N == NChars
           g == fifo[InputPipe]
<1>1. PICK len \in 1 .. MaxPush :
         /\ char' = (char + len) % NChars
         /\ \A p \in Pipes : fifo'[p] =
               IF p \in Reached
               THEN fifo[p] \o [k \in 1 .. len |-> (char + k - 1) % NChars]
               ELSE fifo[p]
  BY FifoInvIrq DEF StreamInv, Interrupt
<1>2. FifoInv' /\ StallInv'
  BY FifoInvIrq, StallInvIrq DEF StreamInv, Interrupt
<1>3. /\ UNCHANGED <<pc, rbuf, rx_hwm, packet, quiet>>
      /\ clean' = (clean /\ ~Full(InputPipe))
      /\ expected' = IF clean' THEN expected ELSE 0
  BY DEF Interrupt, IrqHandler, Push
<1>4. StreamTypeOK'
  <2>1. 0 \in Chars /\ clean \in BOOLEAN /\ expected \in Chars
    BY CharDevAssumption DEF Chars, StreamInv, StreamTypeOK
  <2>2. TypeOK'
    BY <1>2 DEF FifoInv
  <2> QED
    BY <1>3, <2>1, <2>2 DEF StreamInv, StreamTypeOK
<1>5. ASSUME clean' PROVE InStep'
  <2>1. clean /\ ~Full(InputPipe) /\ expected' = expected /\ InStep
    BY Zenon, <1>3, <1>5 DEF StreamInv
  <2>2. /\ InputPipe \in Pipes /\ N \in Nat \ {0} /\ expected \in Nat /\ char \in Nat
        /\ g \in Seq(Chars) /\ Len(g) \in Nat /\ Len(Current) \in Nat /\ Twice \in Nat
        /\ len \in Nat \ {0}
    BY StreamFacts, CharDevAssumption
  <2>3. InputPipe \in Reached
    BY <2>1, <2>2 DEF Reached, InputPipe
  <2>4. Current' = Current /\ Twice' = Twice /\ Oldest' = Oldest /\ Oldest \in Nat
    BY <1>3, <2>1, <2>2 DEF Current, Twice, Oldest, InStep
  <2> DEFINE b == [k \in 1 .. len |-> (char + k - 1) % N]
             a == expected + Oldest + Len(g)
  <2>5. fifo'[InputPipe] = g \o b
    BY Zenon, <1>1, <2>2, <2>3
  <2>6. b \in Seq(Chars) /\ Len(b) = len
    BY <2>2 DEF Chars
  <2>7. /\ Len(g \o b) = Len(g) + len
        /\ \A k \in 1 .. Len(g) + len : (g \o b)[k] = IF k <= Len(g) THEN g[k] ELSE b[k - Len(g)]
    BY <2>2, <2>6, ConcatProperties
  <2>8. char = a % N /\ a \in Nat
    <3>1. a \in Nat
      <4>1. expected \in Nat /\ Oldest \in Nat /\ Len(g) \in Nat
        BY <2>2, <2>4
      <4> HIDE DEF g
      <4> QED
        BY <4>1
    <3>2. char = a % N
      BY <2>1 DEF InStep
    <3> QED
      BY <3>1, <3>2
  <2> HIDE DEF g
  <2>9. char' = (expected + Oldest + (Len(g) + len)) % N
    <3>1. ((a % N) + len) % N = (a + len) % N
      BY <2>2, <2>8, ModAdd
    <3>2. a + len = expected + Oldest + (Len(g) + len)
      BY <2>2, <2>4
    <3> HIDE DEF a
    <3> QED
      BY <1>1, <2>8, <3>1, <3>2
  <2>10. ASSUME NEW k \in 1 .. Len(g) + len
         PROVE  (g \o b)[k] = (expected + Oldest + k - 1) % N
    <3>1. CASE k <= Len(g)
      <4>1. k \in 1 .. Len(g)
        BY <2>2, <3>1
      <4>2. g[k] = (expected + Oldest + k - 1) % N
        BY <2>1, <4>1 DEF InStep, g
      <4> QED
        BY <2>7, <3>1, <4>2
    <3>2. CASE k > Len(g)
      <4> DEFINE j == k - Len(g)
      <4>1. j \in 1 .. len /\ j - 1 \in Nat /\ ~(k <= Len(g))
        BY <2>2, <3>2
      <4>2. (g \o b)[k] = b[j]
        BY <2>7, <4>1
      <4>3. a + (j - 1) = expected + Oldest + k - 1
        BY <2>2, <2>4
      <4>4. char + j - 1 = (a % N) + (j - 1)
        <5> HIDE DEF a, j
        <5> QED
          BY <2>2, <2>8, <4>1
      <4> HIDE DEF a, j
      <4>5. b[j] = (char + j - 1) % N
        BY <4>1
      <4>6. ((a % N) + (j - 1)) % N = (a + (j - 1)) % N
        BY Zenon, <2>2, <2>8, <4>1, ModAdd
      <4> QED
        BY <4>2, <4>3, <4>4, <4>5, <4>6
    <3> QED
      BY <2>2, <3>1, <3>2
  <2> HIDE DEF b, a, N
  <2>11. /\ Len(fifo'[InputPipe]) = Len(g) + len
         /\ \A k \in 1 .. Len(g) + len : fifo'[InputPipe][k] = (expected + Oldest + k - 1) % N
    BY <2>5, <2>7, <2>10
  <2> QED
    BY <1>3, <2>1, <2>4, <2>9, <2>11 DEF InStep, N, InputPipe
<1> QED
  BY <1>2, <1>3, <1>4, <1>5 DEF StreamInv, InputPipe

\* A pause between two packets begins a new count.
LEMMA StreamInvPause ==
    ASSUME StreamInv, Pause
    PROVE  StreamInv'
<1>1. /\ UNCHANGED vars /\ UNCHANGED packet /\ quiet' = TRUE
      /\ clean' = (Between /\ Idle /\ CNT(InputPipe) = 0)
      /\ expected' = IF clean' THEN char ELSE 0
  BY DEF Pause
<1>2. UNCHANGED <<head, tail, buf, rx_hwm, q, pc, rbuf, char, overrun, fifo, excused>>
  BY <1>1 DEF vars, cb
<1>3. FifoInv' /\ StallInv' /\ TypeOK'
  <2>1. [Next]_vars
    BY <1>1
  <2>2. \A r \in Pipes : FifoOf(r)'
    BY <1>2 DEF StreamInv, FifoInv, FifoOf, CNT
  <2>3. FifoInv'
    BY <1>2, <2>2 DEF StreamInv, FifoInv, TypeOK, Reading
  <2> QED
    BY <2>1, <2>3, StallInvNext DEF StreamInv, FifoInv
<1>4. StreamTypeOK'
  <2>1. 0 \in Chars /\ char \in Chars
    BY CharDevAssumption DEF Chars, StreamInv, StreamTypeOK, TypeOK
  <2>2. clean' \in BOOLEAN /\ quiet' \in BOOLEAN /\ expected' \in Chars
    BY <1>1, <2>1
  <2> QED
    BY <1>1, <1>3, <2>2 DEF StreamInv, StreamTypeOK
<1>5. ASSUME clean' PROVE InStep'
  <2>1. char % PacketLen = 0 /\ pc = "loop" /\ CNT(InputPipe) = 0 /\ expected' = char
    BY Zenon, <1>1, <1>5 DEF Between, Idle
  <2>2. Len(fifo[InputPipe]) = 0
    BY <2>1, StreamFacts DEF StreamInv, FifoInv, FifoOf
  <2>3. Current' = <<>> /\ Len(<<>>) = 0
    BY <1>1, EmptySeq DEF Current
  <2>4. Twice' = 0
    BY <1>2, <2>1 DEF Twice
  <2>5. Oldest' = 0 /\ Len(Current') = 0 /\ Len(fifo'[InputPipe]) = 0
    BY <1>2, <2>2, <2>3, <2>4 DEF Oldest
  <2>6. char \in Nat /\ NChars \in Nat \ {0} /\ char \in Chars
    BY StreamFacts
  <2>7. char % NChars = char
    BY <2>6 DEF Chars
  <2>8. char' = (expected' + 0 + 0) % NChars
    BY <1>2, <2>1, <2>6, <2>7
  <2> QED
    BY <1>2, <2>1, <2>4, <2>5, <2>8 DEF InStep, InputPipe
<1> QED
  BY <1>1, <1>2, <1>3, <1>4, <1>5 DEF StreamInv, InputPipe

\* data_ready_handle continues the packet with what it reads; what it has read
\* is in the packet and in the buffer until bathos_dev_read moves tail.
LEMMA StreamInvDataReady ==
    ASSUME StreamInv, DataReady
    PROVE  StreamInv'
<1> DEFINE P == PacketLen
           g == fifo[InputPipe]
           len == P - Len(Current)
<1>1. /\ CopyUpTo(len) /\ quiet' = FALSE
      /\ IF rbuf' = <<>>
         THEN packet' = <<>> /\ clean' = (clean /\ Current = <<>>)
         ELSE packet' = Current \o rbuf' /\ UNCHANGED clean
      /\ expected' = IF clean' THEN expected ELSE 0
  BY DEF DataReady, Current
<1>2. /\ pc = "loop" /\ q # <<>>
      /\ UNCHANGED <<head, tail, buf, rx_hwm, char, overrun, fifo, excused>>
      /\ IF rbuf' = <<>> THEN pc' = "loop" ELSE pc' = "copied" /\ q' = q
  BY Zenon, <1>1 DEF CopyUpTo, cb
<1>3. /\ InputPipe \in Pipes /\ Pipes = {InputPipe} /\ P \in Nat \ {0} /\ NChars \in Nat \ {0}
      /\ expected \in Nat /\ char \in Nat /\ char \in Chars
      /\ g \in Seq(Chars) /\ Len(g) \in Nat
      /\ Current \in Seq(Chars) /\ Len(Current) \in Nat /\ Len(Current) < P
  BY <1>2, StreamFacts
<1>4. len \in Nat \ {0}
  BY <1>3
<1>5. Head(q) = InputPipe
  BY <1>2, <1>3, HeadTailProperties DEF StreamInv, FifoInv, TypeOK
<1> HIDE DEF len
<1>6. /\ FifoInv' /\ StallInv' /\ Len(rbuf') <= len
      /\ rbuf' = <<>> => CNT(InputPipe) = 0
  BY <1>1, <1>4, <1>5, FifoInvCopy, StallInvCopy DEF StreamInv
<1>7. TypeOK' /\ rbuf' \in Seq(Chars) /\ Len(rbuf') \in Nat
  BY <1>6, LenProperties DEF FifoInv, TypeOK
<1>8. Twice = 0 /\ Oldest = Len(Current)
  BY <1>2, <1>3 DEF Twice, Oldest
<1>9. clean' \in BOOLEAN /\ expected' \in Chars
  <2>1. 0 \in Chars /\ clean \in BOOLEAN /\ expected \in Chars
    BY CharDevAssumption DEF Chars, StreamInv, StreamTypeOK
  <2> QED
    BY Zenon, <1>1, <2>1
<1>10. CASE rbuf' = <<>>
  <2>1. /\ pc' = "loop" /\ packet' = <<>> /\ clean' = (clean /\ Current = <<>>)
        /\ <<>> \in Seq(Chars) /\ Len(<<>>) = 0
    BY <1>1, <1>2, <1>10, EmptySeq
  <2>2. packet' \in Seq(Chars) /\ Len(packet') = 0
    BY <2>1
  <2>3. StreamTypeOK' /\ Len(packet') < PacketLen
    <3>1. Len(packet') <= PacketLen /\ Len(packet') < PacketLen
      BY <1>3, <2>2
    <3>2. quiet' \in BOOLEAN
      BY Zenon, <1>1
    <3> QED
      BY <1>7, <1>9, <2>2, <3>1, <3>2 DEF StreamTypeOK
  <2>4. ASSUME clean' PROVE InStep'
    <3>1. clean /\ Current = <<>> /\ expected' = expected /\ InStep
      BY Zenon, <1>1, <2>1, <2>4 DEF StreamInv
    <3>2. Current' = <<>> /\ Twice' = 0 /\ Len(Current) = 0 /\ Len(Current') = 0
      BY <1>1, <2>1, <3>1 DEF Current, Twice
    <3>3. Oldest' = 0 /\ Oldest = 0
      BY <1>8, <3>2 DEF Oldest
    <3> QED
      BY <1>1, <1>2, <2>1, <3>1, <3>2, <3>3 DEF InStep, InputPipe
  <2> QED
    BY <1>2, <1>6, <2>3, <2>4 DEF StreamInv, InputPipe
<1>11. CASE rbuf' # <<>>
  <2>1. /\ pc' = "copied" /\ q' = q /\ packet' = Current \o rbuf' /\ clean' = clean
    BY <1>1, <1>2, <1>11
  <2>2. /\ packet' \in Seq(Chars) /\ Len(packet') = Len(Current) + Len(rbuf')
        /\ \A k \in 1 .. Len(Current) + Len(rbuf') :
              packet'[k] = IF k <= Len(Current) THEN Current[k] ELSE rbuf'[k - Len(Current)]
    BY <1>3, <1>7, <2>1, ConcatProperties
  <2>3. StreamTypeOK'
    <3>1. Len(packet') <= PacketLen
      BY <1>3, <1>6, <1>7, <2>2 DEF len
    <3> QED
      BY Zenon, <1>1, <1>7, <1>9, <2>2, <3>1 DEF StreamTypeOK
  <2>4. ASSUME clean' PROVE InStep'
    <3>1. clean /\ expected' = expected /\ InStep
      BY <1>1, <2>1, <2>4 DEF StreamInv
    <3>2. Current' = packet' /\ Twice' = Len(rbuf')
      BY <1>1, <2>1 DEF Current, Twice
    <3>3. Len(Current') = Len(Current) + Len(rbuf') /\ Oldest' = Len(Current)
          /\ Twice' <= Len(Current')
      BY <1>3, <1>7, <2>2, <3>2 DEF Oldest
    <3>4. Oldest' = Oldest
      BY <1>8, <3>3
    <3>5. /\ Len(rbuf') \in 1 .. Len(g) /\ \A k \in 1 .. Len(rbuf') : rbuf'[k] = g[k]
      BY <1>2, <1>5, <1>6, <2>1 DEF FifoInv, Reading
    <3>6. ASSUME NEW k \in 1 .. Len(Current) + Len(rbuf')
          PROVE  packet'[k] = (expected + k - 1) % NChars
      <4>1. CASE k <= Len(Current)
        <5>1. k \in 1 .. Len(Current)
          BY <1>3, <4>1
        <5>2. Current[k] = (expected + k - 1) % NChars
          BY <3>1, <5>1 DEF InStep
        <5> QED
          BY <2>2, <4>1, <5>2
      <4>2. CASE k > Len(Current)
        <5> DEFINE j == k - Len(Current)
        <5>1. j \in 1 .. Len(rbuf') /\ j \in 1 .. Len(g) /\ ~(k <= Len(Current))
          BY <1>3, <1>7, <3>5, <4>2
        <5>2. packet'[k] = rbuf'[j] /\ rbuf'[j] = g[j]
          BY <2>2, <3>5, <5>1
        <5>3. g[j] = (expected + Len(Current) + j - 1) % NChars
          BY <1>8, <3>1, <5>1 DEF InStep
        <5>4. expected + Len(Current) + j - 1 = expected + k - 1
          BY <1>3
        <5> HIDE DEF j, g
        <5> QED
          BY <5>2, <5>3, <5>4
      <4> QED
        BY <1>3, <4>1, <4>2
    <3>7. \A k \in 1 .. Len(Current') : Current'[k] = (expected' + k - 1) % NChars
      BY <3>1, <3>2, <3>3, <3>6
    <3>8. /\ \A k \in 1 .. Len(fifo'[InputPipe]) :
                fifo'[InputPipe][k] = (expected' + Oldest' + k - 1) % NChars
          /\ char' = (expected' + Oldest' + Len(fifo'[InputPipe])) % NChars
          /\ expected' % PacketLen = 0
      BY <1>2, <3>1, <3>4 DEF InStep
    <3> QED
      BY <1>1, <3>3, <3>7, <3>8 DEF InStep, InputPipe
  <2> QED
    BY <1>2, <1>6, <2>1, <2>3, <2>4 DEF StreamInv, InputPipe
<1> QED
  BY <1>10, <1>11

\* bathos_dev_read moves tail: what was read is in the packet only.
LEMMA StreamInvTail ==
    ASSUME StreamInv, ReadTail, UNCHANGED <<packet, quiet, clean, expected>>
    PROVE  StreamInv'
<1> DEFINE g == fifo[InputPipe]
           n == Len(rbuf)
<1>1. FifoInv' /\ StallInv' /\ TypeOK'
  BY FifoInvTail, StallInvTail DEF StreamInv, FifoInv
<1>2. /\ pc = "copied" /\ pc' = "moved" /\ rx_hwm' = rx_hwm /\ char' = char /\ rbuf' = rbuf
      /\ fifo' = [fifo EXCEPT ![Head(q)] = SubSeq(fifo[Head(q)], n + 1, Len(fifo[Head(q)]))]
  BY DEF ReadTail
<1>3. /\ InputPipe \in Pipes /\ Pipes = {InputPipe} /\ NChars \in Nat \ {0} /\ expected \in Nat
      /\ g \in Seq(Chars) /\ Len(g) \in Nat /\ Len(Current) \in Nat /\ Twice \in Nat
  BY StreamFacts
<1>4. Head(q) = InputPipe
  BY ZenonT(40), <1>2, <1>3, HeadTailProperties DEF StreamInv, FifoInv, TypeOK, Reading
<1>5. n \in 1 .. Len(g)
  BY <1>2, <1>4 DEF StreamInv, FifoInv, Reading
<1>6. fifo'[InputPipe] = SubSeq(g, n + 1, Len(g))
  BY Zenon, <1>2, <1>3, <1>4 DEF StreamInv, FifoInv, TypeOK
<1> HIDE DEF g, n
<1>7. /\ Len(fifo'[InputPipe]) = Len(g) - n
      /\ \A k \in 1 .. Len(g) - n : fifo'[InputPipe][k] = g[n + k]
  <2> DEFINE s == SubSeq(g, n + 1, Len(g))
  <2>1. /\ Len(s) = Len(g) - n /\ \A k \in 1 .. Len(g) - n : s[k] = g[n + k]
    BY <1>3, <1>5
  <2> HIDE DEF s
  <2> QED
    BY Zenon, <1>6, <2>1 DEF s
<1>8. ASSUME clean' PROVE InStep'
  <2>1. InStep /\ clean
    BY <1>8 DEF StreamInv
  <2>2. ~quiet /\ Current' = Current
    BY <1>2, <2>1 DEF InStep, Current
  <2>3. Twice = n /\ Twice' = 0
    BY <1>2 DEF Twice, n
  <2>4. Oldest = Len(Current) - n /\ Oldest' = Len(Current) /\ n <= Len(Current)
    BY <1>3, <2>1, <2>2, <2>3 DEF Oldest, InStep
  <2>5. char = (expected + Oldest + Len(g)) % NChars
    BY <2>1 DEF InStep, g
  <2>6. expected + Oldest + Len(g) = expected + Len(Current) + (Len(g) - n)
    BY <1>3, <1>5, <2>4
  <2>7. ASSUME NEW k \in 1 .. Len(g) - n
        PROVE  g[n + k] = (expected + Len(Current) + k - 1) % NChars
    <3>1. n + k \in 1 .. Len(g)
      BY <1>3, <1>5
    <3>2. g[n + k] = (expected + Oldest + (n + k) - 1) % NChars
      BY <2>1, <3>1 DEF InStep, g
    <3>3. expected + Oldest + (n + k) - 1 = expected + Len(Current) + k - 1
      BY <1>3, <1>5, <2>4
    <3> QED
      BY <3>2, <3>3
  <2>8. /\ char' = (expected + Len(Current) + Len(fifo'[InputPipe])) % NChars
        /\ \A k \in 1 .. Len(fifo'[InputPipe]) :
              fifo'[InputPipe][k] = (expected + Len(Current) + k - 1) % NChars
    BY Zenon, <1>2, <1>7, <2>5, <2>6, <2>7
  <2>9. /\ expected % PacketLen = 0 /\ 0 <= Len(Current)
        /\ \A k \in 1 .. Len(Current) : Current[k] = (expected + k - 1) % NChars
    BY <1>3, <2>1 DEF InStep
  <2> QED
    BY <2>2, <2>3, <2>4, <2>8, <2>9 DEF InStep, InputPipe
<1> QED
  BY <1>1, <1>2, <1>8 DEF StreamInv, StreamTypeOK, InputPipe

\* bathos_dev_read triggers the event again.
LEMMA StreamInvTrigger ==
    ASSUME StreamInv, ReadTrigger, UNCHANGED <<packet, quiet, clean, expected>>
    PROVE  StreamInv'
<1>1. FifoInv' /\ StallInv' /\ TypeOK'
  BY FifoInvTrigger, StallInvTrigger DEF StreamInv, FifoInv
<1>2. /\ pc = "moved" /\ pc' = "return" /\ UNCHANGED <<rx_hwm, char, fifo>>
  BY DEF ReadTrigger
<1>3. Twice' = Twice
  BY <1>2 DEF Twice
<1>4. clean' => InStep'
  <2>1. clean' => ~quiet
    BY <1>2, StreamFacts
  <2> QED
    BY <1>2, <1>3, <2>1, InStepKept
<1> QED
  BY <1>1, <1>2, <1>4 DEF StreamInv, StreamTypeOK, InputPipe

\* data_ready_handle gives a complete packet on.
LEMMA StreamInvReceived ==
    ASSUME StreamInv, Received
    PROVE  StreamInv'
<1> DEFINE P == PacketLen
           N == NChars
           g == fifo[InputPipe]
<1>1. FifoInv' /\ StallInv' /\ TypeOK'
  BY FifoInvReturn, StallInvReturn DEF StreamInv, FifoInv, Received
<1>2. /\ pc = "return" /\ pc' = "loop" /\ UNCHANGED <<rx_hwm, char, fifo, rbuf, quiet, clean>>
  BY DEF Received, ReadReturn
<1>3. /\ InputPipe \in Pipes /\ P \in Nat \ {0} /\ N \in Nat \ {0} /\ N % P = 0
      /\ expected \in Nat /\ expected \in Chars
      /\ g \in Seq(Chars) /\ Len(g) \in Nat
  BY StreamFacts
<1>4. Twice = 0 /\ Twice' = 0
  BY <1>2 DEF Twice
<1>5. packet \in Seq(Chars) /\ Len(packet) <= P /\ quiet \in BOOLEAN /\ clean \in BOOLEAN
      /\ Len(packet) \in Nat
  BY LenProperties DEF StreamInv, StreamTypeOK
<1>6. CASE ~Given
  <2>1. UNCHANGED <<packet, expected>> /\ Len(packet) # P
    BY <1>2, <1>6 DEF Received, Given
  <2>2. Len(packet) < P
    BY <1>3, <1>5, <2>1
  <2>3. clean' => InStep'
    BY <1>2, <1>4, <2>1, InStepKept
  <2>4. StreamTypeOK'
    BY <1>1, <1>2, <1>3, <1>5, <2>1 DEF StreamTypeOK
  <2> QED
    BY <1>1, <1>2, <2>1, <2>2, <2>3, <2>4 DEF StreamInv, InputPipe
<1>7. CASE Given
  <2>1. /\ packet' = <<>> /\ Len(packet) = P
        /\ expected' = IF clean THEN (expected + P) % N ELSE 0
    BY <1>7 DEF Received, Given
  <2>2. <<>> \in Seq(Chars) /\ Len(<<>>) = 0
    BY EmptySeq
  <2>3. packet' \in Seq(Chars) /\ Len(packet') = 0
    BY <2>1, <2>2
  <2>4. Len(packet') <= P /\ Len(packet') < P
    BY <1>3, <2>3
  <2> DEFINE e == (expected + P) % N
  <2>5. e \in Chars /\ 0 \in Chars /\ e \in Nat
    BY <1>3 DEF Chars
  <2>6. StreamTypeOK'
    <3>1. expected' \in Chars
      BY <1>5, <2>1, <2>5
    <3> QED
      BY <1>1, <1>2, <1>5, <2>3, <2>4, <3>1 DEF StreamTypeOK
  <2>7. ASSUME clean' PROVE InStep'
    <3>1. clean /\ InStep /\ ~quiet /\ expected' = e
      BY <1>2, <2>1, <2>7 DEF StreamInv, InStep
    <3>2. Current = packet /\ Current' = <<>>
      BY <1>2, <2>1, <3>1 DEF Current
    <3>3. Oldest = P /\ Oldest' = 0 /\ Len(Current') = 0
      BY <1>3, <1>4, <2>1, <2>2, <3>2 DEF Oldest
    <3>4. expected % P = 0 /\ char = (expected + P + Len(g)) % N
      BY <3>1, <3>3 DEF InStep
    <3> DEFINE a == expected + P
    <3>5. a \in Nat
      BY <1>3
    <3>6. e % P = 0
      <4>1. e % P = a % P
        BY Zenon, <1>3, <3>5, ModMod
      <4>2. ((expected % P) + P) % P = a % P
        BY Zenon, <1>3, ModAdd
      <4>3. (0 + P) % P = 0
        <5>1. 0 + P = P * 1 + 0 /\ 0 \in 0 .. P - 1 /\ 0 + P \in Nat
          BY <1>3
        <5> QED
          BY <1>3, <5>1, ModUnique
      <4> QED
        BY <3>4, <4>1, <4>2, <4>3
    <3>7. char = (e + 0 + Len(g)) % N
      <4>1. ((a % N) + Len(g)) % N = (a + Len(g)) % N
        BY Zenon, <1>3, <3>5, ModAdd
      <4>2. e + 0 + Len(g) = e + Len(g)
        <5> HIDE DEF e, g
        <5> QED
          BY <1>3, <2>5
      <4> QED
        BY <3>4, <4>1, <4>2
    <3>8. ASSUME NEW k \in 1 .. Len(g)
          PROVE  g[k] = (e + 0 + k - 1) % N
      <4>1. g[k] = (expected + P + k - 1) % N
        BY <3>1, <3>3 DEF InStep
      <4>2. k - 1 \in Nat /\ expected + P + k - 1 = a + (k - 1)
        BY <1>3
      <4>3. ((a % N) + (k - 1)) % N = (a + (k - 1)) % N
        BY ZenonT(40), <1>3, <3>5, <4>2, ModAdd
      <4>4. e + 0 + k - 1 = e + (k - 1)
        <5> HIDE DEF e
        <5> QED
          BY <2>5, <4>2
      <4> QED
        BY <4>1, <4>2, <4>3, <4>4
    <3> HIDE DEF e, a
    <3>9. /\ expected' % PacketLen = 0 /\ Twice' <= Len(Current')
          /\ \A k \in 1 .. Len(Current') : Current'[k] = (expected' + k - 1) % NChars
      BY <1>4, <3>1, <3>3, <3>6
    <3>10. /\ \A k \in 1 .. Len(fifo'[InputPipe]) :
                fifo'[InputPipe][k] = (expected' + Oldest' + k - 1) % NChars
           /\ char' = (expected' + Oldest' + Len(fifo'[InputPipe])) % NChars
      BY <1>2, <3>1, <3>3, <3>7, <3>8
    <3> QED
      BY <1>2, <3>1, <3>9, <3>10 DEF InStep, InputPipe
  <2> QED
    BY <1>1, <1>2, <2>4, <2>6, <2>7 DEF StreamInv, InputPipe
<1> QED
  BY <1>6, <1>7

\* Every step keeps the invariant.
LEMMA StreamInvNext ==
    ASSUME OnlyIfRoom, StreamInv, [StreamNext]_streamvars
    PROVE  StreamInv'
<1>1. CASE UNCHANGED streamvars
  <2>1. UNCHANGED vars /\ UNCHANGED <<packet, quiet, clean, expected>>
    BY <1>1 DEF streamvars
  <2>2. UNCHANGED <<rx_hwm, pc, rbuf, char, fifo>> /\ [Next]_vars
    BY <2>1 DEF vars
  <2>3. FifoInv' /\ StallInv' /\ TypeOK'
    BY <2>2, FifoInvNext, StallInvNext DEF StreamInv, FifoInv
  <2>4. Twice' = Twice /\ Current' = Current /\ Oldest' = Oldest
    BY <2>1, <2>2 DEF Twice, Current, Oldest
  <2>5. clean' => InStep'
    BY <2>1, <2>2, <2>4 DEF StreamInv, InStep, InputPipe
  <2> QED
    BY <2>1, <2>2, <2>3, <2>5 DEF StreamInv, StreamTypeOK, InputPipe
<1> QED
  BY <1>1, StreamInvInterrupt, StreamInvPause, StreamInvDataReady, StreamInvTail,
     StreamInvTrigger, StreamInvReceived
  DEF StreamNext, Handler, DevRead

\* The invariant.
LEMMA StreamInvariant ==
    ASSUME OnlyIfRoom
    PROVE  StreamSpec => []StreamInv
<1>1. StreamInv /\ [StreamNext]_streamvars => StreamInv'
  BY StreamInvNext
<1> QED
  BY <1>1, StreamInvInit, PTL DEF StreamSpec

-----------------------------------------------------------------------------
(* What the invariant is for.                                              *)

\* The buffer that data_ready_handle reads, in lengths that depend on what it
\* has read before, is a FIFO queue as well.
THEOREM StreamBufferIsFifo ==
    ASSUME OnlyIfRoom
    PROVE  StreamSpec => []BufferIsFifo
<1>1. StreamInv => BufferIsFifo
  BY FifoInvImplies DEF StreamInv
<1> QED
  BY <1>1, StreamInvariant, PTL

\* Between two losses data_ready_handle gives on exactly the packets that the
\* host sent, in order: for every length of packets, size of the buffer and
\* interleaving of the uart's interrupt with the handler.
THEOREM WholePacketsGiven ==
    ASSUME OnlyIfRoom
    PROVE  StreamSpec => PacketsWhole
<1> DEFINE A == Given /\ pc' = "loop" /\ clean =>
                  packet = [k \in 1 .. PacketLen |-> (expected + k - 1) % NChars]
<1>1. StreamInv => A
  <2> SUFFICES ASSUME StreamInv, Given, clean
               PROVE  packet = [k \in 1 .. PacketLen |-> (expected + k - 1) % NChars]
    OBVIOUS
  <2>1. InStep /\ pc = "return" /\ Len(packet) = PacketLen
    BY DEF StreamInv, Given
  <2>2. Current = packet /\ packet \in Seq(Chars)
    BY <2>1 DEF InStep, Current, StreamInv, StreamTypeOK
  <2>3. \A k \in 1 .. PacketLen : packet[k] = (expected + k - 1) % NChars
    BY <2>1, <2>2 DEF InStep
  <2>4. PacketLen \in Nat /\ packet \in [1 .. PacketLen -> Chars]
    BY <2>1, <2>2, LenProperties, StreamAssumption
  <2> QED
    BY <2>3, <2>4
<1>2. StreamInv /\ [StreamNext]_streamvars => [A]_streamvars
  BY <1>1
<1> QED
  BY <1>2, StreamInvariant, PTL DEF StreamSpec, PacketsWhole

\* When the mcuio task has nothing to do it has given on all of them.
THEOREM NoPacketLeft ==
    ASSUME OnlyIfRoom
    PROVE  StreamSpec => []AllGivenOn
<1>1. StreamInv => AllGivenOn
  <2> SUFFICES ASSUME StreamInv, Idle, Between, clean, InputPipe \notin excused
               PROVE  CNT(InputPipe) = 0 /\ (packet = <<>> \/ quiet) /\ expected = char
    BY DEF AllGivenOn
  <2> DEFINE P == PacketLen
             N == NChars
             l == Len(Current)
  <2>1. /\ InputPipe \in Pipes /\ P \in Nat \ {0} /\ N \in Nat \ {0} /\ N % P = 0
        /\ expected \in Nat /\ expected \in Chars /\ Len(fifo[InputPipe]) \in Nat
        /\ Current \in Seq(Chars) /\ l \in Nat /\ l < P
    BY StreamFacts DEF Idle
  <2>2. InStep /\ pc = "loop" /\ q = <<>>
    BY DEF StreamInv, Idle
  <2>3. CNT(InputPipe) = 0 /\ Len(fifo[InputPipe]) = 0
    <3>1. CNT(InputPipe) = Len(fifo[InputPipe]) /\ rx_hwm[InputPipe] = 0
      BY <2>1 DEF StreamInv, FifoInv, FifoOf
    <3>2. Range(Ahead) = {}
      BY <2>2 DEF Ahead, Range
    <3>3. ~(CNT(InputPipe) > rx_hwm[InputPipe])
      BY <2>1, <3>2 DEF StreamInv, StallInv
    <3> QED
      BY <2>1, <3>1, <3>3
  <2>4. Oldest = l
    BY <2>1, <2>2 DEF Oldest, Twice
  <2>5. char = (expected + l + 0) % N /\ char % P = 0 /\ expected % P = 0
    BY <2>2, <2>3, <2>4 DEF InStep, Between
  <2> DEFINE a == expected + l
  <2> HIDE DEF l
  <2>6. a \in Nat /\ expected + l + 0 = a
    BY <2>1
  <2>7. a % P = 0
    <3>1. (a % N) % P = a % P
      BY Zenon, <2>1, <2>6, ModMod
    <3>2. char = a % N
      BY <2>5, <2>6
    <3> QED
      BY <2>5, <3>1, <3>2
  <2>8. ((expected % P) + l) % P = a % P
    BY Zenon, <2>1, ModAdd
  <2>9. (0 + l) % P = l
    BY <2>1
  <2>10. l = 0
    BY <2>5, <2>7, <2>8, <2>9
  <2>11. char = expected
    <3>1. char = expected % N
      BY <2>1, <2>5, <2>10
    <3>2. expected % N = expected
      BY <2>1 DEF Chars
    <3> QED
      BY <3>1, <3>2
  <2>12. packet = <<>> \/ quiet
    BY <2>1, <2>10, EmptySeq DEF Current, l
  <2> QED
    BY <2>3, <2>11, <2>12
<1> QED
  BY <1>1, StreamInvariant, PTL
=============================================================================
