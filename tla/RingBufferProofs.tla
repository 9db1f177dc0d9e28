-------------------------- MODULE RingBufferProofs --------------------------
(***************************************************************************)
(* Proofs about av/ring_buffer.h for every capacity and every item type.   *)
(***************************************************************************)
EXTENDS RingBuffer, TLAPS

-----------------------------------------------------------------------------
(* Arithmetic on the circle of slots *)

(* The mask (i + 1) & (Capacity - 1) is the successor on the circle. *)
LEMMA NextSlotIs ==
  ASSUME NEW i \in Slots
  PROVE  NextSlot(i) = IF i = Capacity - 1 THEN 0 ELSE i + 1
BY CapacityAssumption, SMT DEF NextSlot, Slots

(* One subtraction is enough for an index below twice the capacity. *)
LEMMA ModOnce ==
  ASSUME NEW x \in Nat, x < 2 * Capacity
  PROVE  x % Capacity = IF x < Capacity THEN x ELSE x - Capacity
BY CapacityAssumption, SMT

(* The number of slots from a forward to b. *)
Dist(a, b) == IF a <= b THEN b - a ELSE b + Capacity - a

-----------------------------------------------------------------------------
(* Type correctness: the indices stay inside buffer_ and a slot only ever  *)
(* holds an item.                                                          *)
THEOREM TypeCorrect == Spec => []TypeOK
<1>1. Init => TypeOK
  BY CapacityAssumption DEF Init, TypeOK, Slots
<1>2. TypeOK /\ [Next]_vars => TypeOK'
  <2> SUFFICES ASSUME TypeOK, [Next]_vars PROVE TypeOK'
    OBVIOUS
  <2> USE DEF TypeOK
  <2>1. NextSlot(head) \in Slots /\ NextSlot(tail) \in Slots
    BY CapacityAssumption, NextSlotIs DEF Slots
  <2>2. CASE Producer
    BY <2>1, <2>2 DEF Producer, PushBegin, PushFull, PushWrite, PushPublish,
                      consumerVars, vars
  <2>3. CASE Consumer
    BY <2>1, <2>3 DEF Consumer, PopBegin, PopEmpty, PopTake, PopPublish, Peek,
                      PeekDone, ClearBegin, ClearPublish, producerVars, vars
  <2>4. CASE UNCHANGED vars
    BY <2>4 DEF vars
  <2>5. QED
    BY <2>2, <2>3, <2>4 DEF Next
<1>3. QED
  BY <1>1, <1>2, PTL DEF Spec

-----------------------------------------------------------------------------
(* The inductive invariant.  A push that passed the full test still has a  *)
(* free slot to write, because only the producer can use it up; a pop or   *)
(* peek that passed the empty test still has an item to read, because only *)
(* the consumer can remove it; the head_ that clear() loaded lies between  *)
(* tail_ and the present head_.                                            *)
RoomToWrite == prod \in {"write", "publish"} => NextSlot(head) /= tail
ItemToRead == cons \in {"take", "publish", "peeked"} => tail /= head
Written == prod = "publish" => buffer[head] = item
Held == cons \in {"publish", "peeked"} => taken = <<buffer[tail]>>
LimitBehindHead == cons = "clear" => Dist(tail, limit) <= Dist(tail, head)

IInv == /\ TypeOK
        /\ RoomToWrite /\ ItemToRead
        /\ Written /\ Held
        /\ LimitBehindHead

LEMMA InitIInv == Init => IInv
BY CapacityAssumption
   DEF Init, IInv, TypeOK, Slots, RoomToWrite, ItemToRead, Written, Held,
       LimitBehindHead

(* Appending behind a head that leaves room keeps the loaded head_ behind. *)
LEMMA HeadAdvances ==
  ASSUME NEW h \in Slots, NEW t \in Slots, NEW l \in Slots,
         NextSlot(h) /= t, Dist(t, l) <= Dist(t, h)
  PROVE  /\ Dist(t, l) <= Dist(t, NextSlot(h))
         /\ NextSlot(h) /= l
         /\ NextSlot(h) \in Slots
BY CapacityAssumption, NextSlotIs, SMT DEF Dist, Slots

(* Removing one item leaves room for the push in progress. *)
LEMMA TailAdvances ==
  ASSUME NEW h \in Slots, NEW t \in Slots, t /= h, NextSlot(h) /= t
  PROVE  NextSlot(h) /= NextSlot(t) /\ NextSlot(t) \in Slots
BY CapacityAssumption, NextSlotIs, SMT DEF Slots

LEMMA ProducerKeepsIInv == IInv /\ Producer => IInv'
<1> SUFFICES ASSUME IInv, Producer PROVE IInv'
  OBVIOUS
<1> USE DEF IInv, RoomToWrite, ItemToRead, Written, Held, LimitBehindHead
<1>1. ASSUME NEW x \in Items, PushBegin(x) PROVE IInv'
  BY <1>1 DEF PushBegin, consumerVars, TypeOK, Dist, NextSlot
<1>2. CASE PushFull
  BY <1>2 DEF PushFull, vars, TypeOK, Dist, NextSlot
<1>3. CASE PushWrite
  <2>1. cons \in {"take", "publish", "peeked"} => buffer'[tail] = buffer[tail]
    BY <1>3 DEF PushWrite, TypeOK, consumerVars
  <2>2. TypeOK' /\ Written'
    BY <1>3 DEF PushWrite, TypeOK, consumerVars
  <2>3. QED
    BY <1>3, <2>1, <2>2 DEF PushWrite, TypeOK, consumerVars, Dist, NextSlot
<1>4. CASE PushPublish
  <2>1. NextSlot(head) /= tail /\ head' = NextSlot(head)
    BY <1>4 DEF PushPublish
  <2>2. TypeOK'
    BY <1>4, NextSlotIs, CapacityAssumption
    DEF PushPublish, TypeOK, consumerVars, Slots
  <2>3. LimitBehindHead'
    BY <1>4, <2>1, HeadAdvances DEF PushPublish, TypeOK, consumerVars, Dist
  <2>4. RoomToWrite' /\ ItemToRead' /\ Written' /\ Held'
    BY <1>4, <2>1 DEF PushPublish, TypeOK, consumerVars
  <2>5. QED
    BY <2>2, <2>3, <2>4
<1>5. QED
  BY <1>1, <1>2, <1>3, <1>4 DEF Producer

LEMMA ConsumerKeepsIInv == IInv /\ Consumer => IInv'
<1> SUFFICES ASSUME IInv, Consumer PROVE IInv'
  OBVIOUS
<1> USE DEF IInv, RoomToWrite, ItemToRead, Written, Held, LimitBehindHead
<1>1. CASE PopBegin
  BY <1>1 DEF PopBegin, producerVars, TypeOK, Dist, NextSlot
<1>2. CASE PopEmpty
  BY <1>2 DEF PopEmpty, vars, TypeOK, Dist, NextSlot
<1>3. CASE PopTake
  BY <1>3 DEF PopTake, producerVars, TypeOK, Dist, NextSlot
<1>4. CASE PopPublish
  <2>1. head' = head /\ tail' = NextSlot(tail) /\ prod' = prod /\ cons' = "idle"
    BY <1>4 DEF PopPublish, producerVars
  <2>2. TypeOK'
    BY <1>4, CapacityAssumption, NextSlotIs
    DEF PopPublish, producerVars, TypeOK, Slots
  <2>3. RoomToWrite'
    <3>1. tail /= head
      BY <1>4 DEF PopPublish
    <3>2. prod \in {"write", "publish"} => NextSlot(head) /= NextSlot(tail)
      BY <3>1, TailAdvances DEF TypeOK
    <3>3. QED
      BY <2>1, <3>2 DEF NextSlot
  <2>4. Written'
    BY <1>4 DEF PopPublish, producerVars
  <2>5. QED
    BY <2>1, <2>2, <2>3, <2>4 DEF TypeOK
<1>5. CASE Peek
  BY <1>5 DEF Peek, producerVars, TypeOK, Dist, NextSlot
<1>6. CASE PeekDone
  BY <1>6 DEF PeekDone, producerVars, TypeOK, Dist, NextSlot
<1>7. CASE ClearBegin
  <2>1. head' = head /\ tail' = tail /\ limit' = head
    BY <1>7 DEF ClearBegin, producerVars
  <2>2. Dist(tail, limit)' = Dist(tail, head)'
    BY <2>1 DEF Dist
  <2>3. LimitBehindHead'
    BY <2>1, <2>2, CapacityAssumption DEF TypeOK, Dist, Slots
  <2>4. QED
    BY <1>7, <2>3 DEF ClearBegin, producerVars, TypeOK, NextSlot
<1>8. CASE ClearPublish
  <2>1. RoomToWrite'
    <3>1. prod' \in {"write", "publish"} => NextSlot(head) /= limit
      BY <1>8, HeadAdvances DEF ClearPublish, producerVars, TypeOK
    <3>2. QED
      BY <1>8, <3>1 DEF ClearPublish, producerVars, NextSlot
  <2>2. QED
    BY <1>8, <2>1 DEF ClearPublish, producerVars, TypeOK
<1>9. QED
  BY <1>1, <1>2, <1>3, <1>4, <1>5, <1>6, <1>7, <1>8 DEF Consumer

THEOREM Invariance == Spec => []IInv
<1>1. Init => IInv
  BY InitIInv
<1>2. IInv /\ [Next]_vars => IInv'
  <2> SUFFICES ASSUME IInv, [Next]_vars PROVE IInv'
    OBVIOUS
  <2>1. CASE Producer
    BY <2>1, ProducerKeepsIInv
  <2>2. CASE Consumer
    BY <2>2, ConsumerKeepsIInv
  <2>3. CASE UNCHANGED vars
    BY <2>3 DEF vars, IInv, TypeOK, RoomToWrite, ItemToRead, Written, Held,
                LimitBehindHead, Dist, NextSlot
  <2>4. QED
    BY <2>1, <2>2, <2>3 DEF Next
<1>3. QED
  BY <1>1, <1>2, PTL DEF Spec

-----------------------------------------------------------------------------
(* The two threads never touch the same slot at the same time: push()      *)
(* writes only where pop() and the pointer of peek() cannot be reading.    *)
THEOREM NoRace == Spec => []NoSlotRace
<1>1. IInv => NoSlotRace
  BY DEF IInv, ItemToRead, NoSlotRace
<1>2. QED
  BY <1>1, Invariance, PTL

(* The item behind the pointer of peek() is the same item until the        *)
(* consumer moves on.                                                      *)
THEOREM PeekIsStable == Spec => []PeekStable
<1>1. IInv => PeekStable
  BY DEF IInv, Held, PeekStable
<1>2. QED
  BY <1>1, Invariance, PTL

-----------------------------------------------------------------------------
(* Refinement: the k-th item of the queue is in the k-th slot after tail_. *)

SlotOf(t, k) == IF t + k - 1 < Capacity THEN t + k - 1 ELSE t + k - 1 - Capacity

ContentsFacts ==
  /\ Size = Dist(tail, head)
  /\ Size \in 0 .. Capacity - 1
  /\ Contents = [k \in 1 .. Dist(tail, head) |-> buffer[SlotOf(tail, k)]]
  /\ Contents \in Seq(Items)
  /\ Len(Contents) = Dist(tail, head)

LEMMA ContentsIs == TypeOK => ContentsFacts
<1> SUFFICES ASSUME TypeOK PROVE ContentsFacts
  OBVIOUS
<1> USE CapacityAssumption DEF TypeOK, Slots
<1>1. Size = Dist(tail, head) /\ Size \in 0 .. Capacity - 1
  <2>1. head + Capacity - tail \in Nat /\ head + Capacity - tail < 2 * Capacity
    OBVIOUS
  <2>2. QED
    BY <2>1, ModOnce DEF Size, Dist
<1>2. \A k \in 1 .. Size : (tail + k - 1) % Capacity = SlotOf(tail, k)
  <2> SUFFICES ASSUME NEW k \in 1 .. Size
               PROVE  (tail + k - 1) % Capacity = SlotOf(tail, k)
    OBVIOUS
  <2> DEFINE x == tail + k - 1
  <2>1. x \in Nat /\ x < 2 * Capacity
    BY <1>1
  <2>2. x % Capacity = IF x < Capacity THEN x ELSE x - Capacity
    <3> HIDE DEF x
    <3>1. QED BY <2>1, ModOnce
  <2>3. QED
    BY <2>2 DEF SlotOf
<1>3. \A k \in 1 .. Size : SlotOf(tail, k) \in Slots
  BY <1>1 DEF SlotOf
<1>4. Contents = [k \in 1 .. Dist(tail, head) |-> buffer[SlotOf(tail, k)]]
  BY <1>1, <1>2 DEF Contents
<1>5. Contents \in Seq(Items) /\ Len(Contents) = Dist(tail, head)
  BY <1>1, <1>3, <1>4
<1>6. QED
  BY <1>1, <1>4, <1>5 DEF ContentsFacts

LEMMA PublishPuts == IInv /\ IInv' /\ PushPublish => Fifo!Put
<1> SUFFICES ASSUME IInv, IInv', PushPublish PROVE Fifo!Put
  OBVIOUS
<1>1. ContentsFacts /\ ContentsFacts'
  BY ContentsIs, PTL DEF IInv
<1>2. /\ tail' = tail /\ head' = NextSlot(head) /\ NextSlot(head) /= tail
      /\ buffer' = buffer /\ item' = item /\ result' = result
      /\ buffer[head] = item
  BY DEF PushPublish, consumerVars, IInv, RoomToWrite, Written
<1>3. head \in Slots /\ tail \in Slots
  BY DEF IInv, TypeOK
<1> DEFINE n == Dist(tail, head)
<1>4. /\ Dist(tail, NextSlot(head)) = n + 1
      /\ n + 1 < Capacity /\ n \in Nat
      /\ SlotOf(tail, n + 1) = head
  BY <1>2, <1>3, CapacityAssumption, NextSlotIs DEF Dist, SlotOf, Slots
<1>5. /\ Contents = [k \in 1 .. n |-> buffer[SlotOf(tail, k)]]
      /\ Contents' = [k \in 1 .. n + 1 |-> buffer[SlotOf(tail, k)]]
      /\ Len(Contents) = n
      /\ Contents \in Seq(Items)
  BY <1>1, <1>2, <1>4 DEF ContentsFacts, Dist, SlotOf
<1>6. Contents' = Append(Contents, item)
  <2> HIDE DEF n
  <2>1. Append(Contents, item)
          = [k \in 1 .. n + 1 |-> IF k = n + 1 THEN item ELSE Contents[k]]
    BY <1>4, <1>5
  <2>2. \A k \in 1 .. n + 1 : buffer[SlotOf(tail, k)]
                                = IF k = n + 1 THEN item ELSE Contents[k]
    BY <1>2, <1>4, <1>5
  <2>3. QED
    BY <1>5, <2>1, <2>2
<1>7. QED
  BY <1>2, <1>4, <1>5, <1>6, CapacityAssumption DEF Fifo!Put

LEMMA PublishGets == IInv /\ IInv' /\ PopPublish => Fifo!Get
<1> SUFFICES ASSUME IInv, IInv', PopPublish PROVE Fifo!Get
  OBVIOUS
<1>1. ContentsFacts /\ ContentsFacts'
  BY ContentsIs, PTL DEF IInv
<1>2. /\ head' = head /\ tail' = NextSlot(tail) /\ tail /= head
      /\ buffer' = buffer /\ item' = item /\ result' = <<buffer[tail]>>
  BY DEF PopPublish, producerVars, IInv, ItemToRead, Held
<1>3. head \in Slots /\ tail \in Slots
  BY DEF IInv, TypeOK
<1> DEFINE n == Dist(tail, head)
<1>4. /\ Dist(NextSlot(tail), head) = n - 1
      /\ n \in 1 .. Capacity - 1
      /\ SlotOf(tail, 1) = tail
      /\ \A k \in 1 .. n - 1 : SlotOf(NextSlot(tail), k) = SlotOf(tail, k + 1)
  BY <1>2, <1>3, CapacityAssumption, NextSlotIs DEF Dist, SlotOf, Slots
<1>5. /\ Contents = [k \in 1 .. n |-> buffer[SlotOf(tail, k)]]
      /\ Contents' = [k \in 1 .. n - 1 |-> buffer[SlotOf(NextSlot(tail), k)]]
      /\ Len(Contents) = n
      /\ Contents \in Seq(Items)
  BY <1>1, <1>2, <1>4 DEF ContentsFacts, Dist, SlotOf
<1> HIDE DEF n
<1>6. Contents' = Tail(Contents)
  BY <1>4, <1>5
<1>7. Head(Contents) = buffer[tail] /\ Contents /= <<>>
  BY <1>4, <1>5
<1>8. QED
  BY <1>2, <1>6, <1>7 DEF Fifo!Get

LEMMA ClearDrops ==
  IInv /\ IInv' /\ ClearPublish =>
    (\E n \in 1 .. Len(Contents) : Fifo!Drop(n)) \/ UNCHANGED Fifo!vars
<1> SUFFICES ASSUME IInv, IInv', ClearPublish
             PROVE  \/ \E n \in 1 .. Len(Contents) : Fifo!Drop(n)
                    \/ UNCHANGED Fifo!vars
  OBVIOUS
<1>1. ContentsFacts /\ ContentsFacts'
  BY ContentsIs, PTL DEF IInv
<1>2. /\ head' = head /\ tail' = limit /\ buffer' = buffer
      /\ item' = item /\ result' = result
      /\ Dist(tail, limit) <= Dist(tail, head)
  BY DEF ClearPublish, producerVars, IInv, LimitBehindHead
<1>3. head \in Slots /\ tail \in Slots /\ limit \in Slots
  BY DEF IInv, TypeOK
<1> DEFINE n == Dist(tail, head)
           d == Dist(tail, limit)
<1>4. /\ n \in 0 .. Capacity - 1 /\ d \in 0 .. n
      /\ Dist(limit, head) = n - d
      /\ \A k \in 1 .. n - d : SlotOf(limit, k) = SlotOf(tail, k + d)
  BY <1>2, <1>3, CapacityAssumption DEF Dist, SlotOf, Slots
<1>5. /\ Contents = [k \in 1 .. n |-> buffer[SlotOf(tail, k)]]
      /\ Contents' = [k \in 1 .. n - d |-> buffer[SlotOf(limit, k)]]
      /\ Len(Contents) = n
      /\ Contents \in Seq(Items)
  BY <1>1, <1>2, <1>4 DEF ContentsFacts, Dist, SlotOf
<1> HIDE DEF n, d
<1>6. Contents' = SubSeq(Contents, d + 1, Len(Contents))
  <2>1. SubSeq(Contents, d + 1, n) = [k \in 1 .. n - d |-> Contents[k + d]]
    BY <1>4, <1>5
  <2>2. \A k \in 1 .. n - d : Contents[k + d] = buffer[SlotOf(limit, k)]
    BY <1>4, <1>5
  <2>3. QED
    BY <1>5, <2>1, <2>2
<1>7. CASE d = 0
  <2>1. Contents' = Contents
    BY <1>4, <1>5, <1>7
  <2>2. QED
    BY <1>2, <2>1 DEF Fifo!vars
<1>8. CASE d /= 0
  <2>1. d \in 1 .. Len(Contents)
    BY <1>4, <1>5, <1>8
  <2>2. QED
    BY <1>2, <1>6, <2>1 DEF Fifo!Drop
<1>9. QED
  BY <1>7, <1>8

(* The slot a push writes is outside the queue until head_ is stored. *)
LEMMA WriteIsHidden == IInv /\ IInv' /\ PushWrite => UNCHANGED Fifo!vars
<1> SUFFICES ASSUME IInv, IInv', PushWrite PROVE UNCHANGED Fifo!vars
  OBVIOUS
<1>1. ContentsFacts /\ ContentsFacts'
  BY ContentsIs, PTL DEF IInv
<1>2. /\ head' = head /\ tail' = tail /\ item' = item /\ result' = result
      /\ buffer' = [buffer EXCEPT ![head] = item]
  BY DEF PushWrite, consumerVars
<1>3. head \in Slots /\ tail \in Slots /\ buffer \in [Slots -> Items]
  BY DEF IInv, TypeOK
<1>4. \A k \in 1 .. Dist(tail, head) :
        SlotOf(tail, k) \in Slots /\ SlotOf(tail, k) /= head
  BY <1>3, CapacityAssumption DEF Dist, SlotOf, Slots
<1>5. \A k \in 1 .. Dist(tail, head) :
        buffer'[SlotOf(tail, k)] = buffer[SlotOf(tail, k)]
  BY <1>2, <1>3, <1>4
<1>6. Contents' = Contents
  BY <1>1, <1>2, <1>5 DEF ContentsFacts, Dist, SlotOf
<1>7. QED
  BY <1>2, <1>6 DEF Fifo!vars

(* The ring buffer is a bounded FIFO queue: every behaviour of the two     *)
(* threads maps to a behaviour of BoundedFifo.                             *)
THEOREM Refinement == Spec => ImplementsFifo
<1>1. Init => Fifo!Init
  <2> SUFFICES ASSUME Init PROVE Fifo!Init
    OBVIOUS
  <2>1. Contents = <<>>
    BY InitIInv, ContentsIs DEF IInv, ContentsFacts, Init, Dist
  <2>2. QED
    BY <2>1 DEF Init, Fifo!Init
<1>2. IInv /\ IInv' /\ [Next]_vars => [Fifo!Next]_(Fifo!vars)
  <2> SUFFICES ASSUME IInv, IInv', [Next]_vars PROVE [Fifo!Next]_(Fifo!vars)
    OBVIOUS
  <2> USE DEF Fifo!Next
  <2>1. ASSUME NEW x \in Items, PushBegin(x) PROVE Fifo!Offer(x)
    BY <2>1 DEF PushBegin, consumerVars, Fifo!Offer, Contents, Size
  <2>2. CASE PushWrite
    BY <2>2, WriteIsHidden
  <2>3. CASE PushPublish
    BY <2>3, PublishPuts
  <2>4. CASE PopPublish
    BY <2>4, PublishGets
  <2>5. CASE ClearPublish
    BY <2>5, ClearDrops
  <2>6. CASE PopBegin \/ PopTake \/ Peek \/ PeekDone \/ ClearBegin
    BY <2>6 DEF PopBegin, PopTake, Peek, PeekDone, ClearBegin, producerVars,
                Fifo!vars, Contents, Size
  <2>7. CASE PushFull \/ PopEmpty \/ UNCHANGED vars
    BY <2>7 DEF PushFull, PopEmpty, vars, Fifo!vars, Contents, Size
  <2>8. QED
    BY <2>1, <2>2, <2>3, <2>4, <2>5, <2>6, <2>7 DEF Next, Producer, Consumer
<1>3. QED
  BY <1>1, <1>2, Invariance, PTL DEF Spec, ImplementsFifo, Fifo!Spec
=============================================================================
