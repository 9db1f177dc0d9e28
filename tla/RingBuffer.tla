----------------------------- MODULE RingBuffer -----------------------------
(***************************************************************************)
(* av/ring_buffer.h: the lock-free single-producer single-consumer ring    *)
(* buffer between a decoder thread and playback.                           *)
(*                                                                         *)
(* push() and pop() are three accesses to shared memory each: the load of  *)
(* the other side's index, the access to the slot, the store of the own    *)
(* index.  Every access is a step of its own, so that the two threads      *)
(* interleave wherever the memory orders (acquire load, release store) let *)
(* them.  The own index is loaded relaxed, but only its owner stores it.   *)
(* peek() and clear() belong to the consumer, which owns tail_.            *)
(***************************************************************************)
EXTENDS Naturals, Sequences

CONSTANTS Capacity,   \* template parameter: number of slots
          Items       \* the frames

ASSUME CapacityAssumption == Capacity \in Nat \ {0}

VARIABLES
  buffer,   \* [slot -> item]; a slot holds a default T before its first use
  head,     \* head_: next slot to write, stored by the producer only
  tail,     \* tail_: next slot to read, stored by the consumer only
  prod,     \* where the producer is: idle, write (slot), publish (head_)
  item,     \* the argument of the push in progress
  cons,     \* where the consumer is: idle, take, publish, peeked, clear
  taken,    \* the item the consumer popped or peeks at, as <<item>>
  limit,    \* the head_ that clear() loaded
  result    \* what the last pop that found an item returned, as <<item>>

vars == <<buffer, head, tail, prod, item, cons, taken, limit, result>>
producerVars == <<head, prod, item>>
consumerVars == <<tail, cons, taken, limit, result>>

Slots == 0 .. Capacity - 1
NextSlot(i) == (i + 1) % Capacity

(* The default-constructed elements are any value of T: the properties     *)
(* say that none of them is ever read.                                     *)
Init ==
  /\ buffer \in [Slots -> Items]
  /\ head = 0 /\ tail = 0
  /\ prod = "idle" /\ item \in Items
  /\ cons = "idle" /\ taken = <<>> /\ limit = 0 /\ result = <<>>

-----------------------------------------------------------------------------
(* push(const T&) and push(T&&) *)

PushUnchecked(x) ==  \* mutant: no test for a full buffer
  /\ prod = "idle"
  /\ prod' = "write" /\ item' = x
  /\ UNCHANGED <<buffer, head, consumerVars>>

PushBegin(x) ==      \* loads head_ and tail_
  /\ prod = "idle"
  /\ NextSlot(head) /= tail
  /\ prod' = "write" /\ item' = x
  /\ UNCHANGED <<buffer, head, consumerVars>>

PushFull ==          \* returns false
  /\ prod = "idle"
  /\ NextSlot(head) = tail
  /\ UNCHANGED vars

PushWrite ==
  /\ prod = "write"
  /\ buffer' = [buffer EXCEPT ![head] = item]
  /\ prod' = "publish"
  /\ UNCHANGED <<head, item, consumerVars>>

PushPublish ==
  /\ prod = "publish"
  /\ head' = NextSlot(head)
  /\ prod' = "idle"
  /\ UNCHANGED <<buffer, item, consumerVars>>

-----------------------------------------------------------------------------
(* pop(), peek() and clear() *)

PopBegin ==
  /\ cons = "idle"
  /\ tail /= head
  /\ cons' = "take"
  /\ UNCHANGED <<buffer, producerVars, tail, taken, limit, result>>

PopEmpty ==          \* returns nullopt
  /\ cons = "idle"
  /\ tail = head
  /\ UNCHANGED vars

PopTake ==
  /\ cons = "take"
  /\ taken' = <<buffer[tail]>>
  /\ cons' = "publish"
  /\ UNCHANGED <<buffer, producerVars, tail, limit, result>>

PopPublish ==
  /\ cons = "publish"
  /\ tail' = NextSlot(tail)
  /\ result' = taken /\ taken' = <<>>
  /\ cons' = "idle"
  /\ UNCHANGED <<buffer, producerVars, limit>>

PeekUnchecked ==     \* mutant: no test for an empty buffer
  /\ cons = "idle"
  /\ taken' = <<buffer[tail]>>
  /\ cons' = "peeked"
  /\ UNCHANGED <<buffer, producerVars, tail, limit, result>>

Peek ==              \* the pointer to buffer_[tail], seen to hold an item
  /\ cons = "idle"
  /\ tail /= head
  /\ taken' = <<buffer[tail]>>
  /\ cons' = "peeked"
  /\ UNCHANGED <<buffer, producerVars, tail, limit, result>>

PeekDone ==          \* the caller has read through the pointer
  /\ cons = "peeked"
  /\ taken' = <<>>
  /\ cons' = "idle"
  /\ UNCHANGED <<buffer, producerVars, tail, limit, result>>

ClearBegin ==        \* loads head_
  /\ cons = "idle"
  /\ limit' = head
  /\ cons' = "clear"
  /\ UNCHANGED <<buffer, producerVars, tail, taken, result>>

ClearBothIndices ==  \* mutant: clear() also moves the producer's index
  /\ cons = "clear"
  /\ head' = 0 /\ tail' = 0
  /\ cons' = "idle"
  /\ UNCHANGED <<buffer, prod, item, taken, limit, result>>

ClearPublish ==
  /\ cons = "clear"
  /\ tail' = limit
  /\ cons' = "idle"
  /\ UNCHANGED <<buffer, producerVars, taken, limit, result>>

-----------------------------------------------------------------------------
Producer == (\E x \in Items : PushBegin(x)) \/ PushFull \/ PushWrite \/ PushPublish
Consumer == \/ PopBegin \/ PopEmpty \/ PopTake \/ PopPublish
            \/ Peek \/ PeekDone \/ ClearBegin \/ ClearPublish

Next == Producer \/ Consumer

Spec == Init /\ [][Next]_vars

-----------------------------------------------------------------------------
TypeOK ==
  /\ buffer \in [Slots -> Items]
  /\ head \in Slots /\ tail \in Slots
  /\ prod \in {"idle", "write", "publish"}
  /\ item \in Items
  /\ cons \in {"idle", "take", "publish", "peeked", "clear"}
  /\ taken \in {<<>>} \cup {<<v>> : v \in Items}
  /\ limit \in Slots
  /\ result \in {<<>>} \cup {<<v>> : v \in Items}

(* size(): the number of elements when neither thread is between its load  *)
(* and its store.                                                          *)
Size == (head + Capacity - tail) % Capacity

(* What the buffer holds, oldest first. *)
Contents == [k \in 1 .. Size |-> buffer[(tail + k - 1) % Capacity]]

(* The producer never writes the slot that the consumer is reading, through *)
(* pop() or through the pointer peek() returned: the index comparisons are *)
(* the only mutual exclusion buffer_ has.                                  *)
NoSlotRace ==
  ~ (prod = "write" /\ cons \in {"take", "peeked"} /\ head = tail)

(* A pointer obtained from peek() keeps pointing at the same item until    *)
(* the consumer itself moves on, whatever the producer pushes meanwhile.   *)
PeekStable == cons = "peeked" => taken = <<buffer[tail]>>

(* The ring buffer implements the bounded FIFO queue: an item enters at    *)
(* the store of head_, leaves at the store of tail_, in order, never more  *)
(* than Capacity - 1 at a time (capacity()), and no item is made up.       *)
Fifo == INSTANCE BoundedFifo
          WITH Bound <- Capacity - 1, queue <- Contents,
               offered <- item, delivered <- result
ImplementsFifo == Fifo!Spec
=============================================================================
