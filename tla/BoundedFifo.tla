---------------------------- MODULE BoundedFifo ----------------------------
(***************************************************************************)
(* What av/ring_buffer.h promises its two threads: a bounded first-in      *)
(* first-out queue.  A push offers an item and then appends it, unless the *)
(* queue is full; a pop hands out the oldest item; clear() drops a prefix  *)
(* of the queue (whatever arrives while it runs may stay).                 *)
(***************************************************************************)
EXTENDS Naturals, Sequences

CONSTANTS Bound,   \* the most items the queue holds: Capacity - 1
          Items    \* the frames that are passed

VARIABLES queue,      \* the items in the queue, oldest first
          offered,    \* the argument of the last push that found room
          delivered   \* what the last pop that found an item returned

vars == <<queue, offered, delivered>>

Init == queue = <<>> /\ offered \in Items /\ delivered = <<>>

Offer(x) ==
  /\ offered' = x
  /\ UNCHANGED <<queue, delivered>>

Put ==
  /\ Len(queue) < Bound
  /\ queue' = Append(queue, offered)
  /\ UNCHANGED <<offered, delivered>>

Get ==
  /\ queue /= <<>>
  /\ delivered' = <<Head(queue)>>
  /\ queue' = Tail(queue)
  /\ UNCHANGED offered

Drop(n) ==
  /\ queue' = SubSeq(queue, n + 1, Len(queue))
  /\ UNCHANGED <<offered, delivered>>

Next == \/ \E x \in Items : Offer(x)
        \/ Put
        \/ Get
        \/ \E n \in 1 .. Len(queue) : Drop(n)

Spec == Init /\ [][Next]_vars
============================================================================
