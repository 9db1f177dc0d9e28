---- MODULE AlpDatagrams ----
(* What the reassembly of segmented datagrams promises its client, whatever   *)
(* happens to the segments on the way: a datagram is handed over at most      *)
(* once, only after the sender started it, whole, and in the order of its     *)
(* sub-stream.  Datagrams may be missing.  A datagram is its number, counted  *)
(* from 1 in its sub-stream.                                                  *)
EXTENDS Naturals, Sequences

CONSTANT Streams

VARIABLES
    started,    \* [Streams -> Nat]: datagrams the sender has begun
    handed      \* [Streams -> Seq(Nat)]: datagrams handed over, in order

datagramVars == <<started, handed>>

LastHanded(s) == IF handed[s] = <<>> THEN 0 ELSE handed[s][Len(handed[s])]

Init ==
    /\ started = [s \in Streams |-> 0]
    /\ handed = [s \in Streams |-> <<>>]

Start(s) ==
    /\ started' = [started EXCEPT ![s] = @ + 1]
    /\ UNCHANGED handed

Deliver(s) ==
    \E d \in (LastHanded(s) + 1) .. started[s] :
        /\ handed' = [handed EXCEPT ![s] = Append(@, d)]
        /\ UNCHANGED started

(* A one-segment datagram is begun and handed over in the same step. *)
StartAndDeliver(s) ==
    /\ started' = [started EXCEPT ![s] = @ + 1]
    /\ handed' = [handed EXCEPT ![s] = Append(@, started[s] + 1)]

Next == \E s \in Streams : Start(s) \/ Deliver(s) \/ StartAndDeliver(s)

Spec == Init /\ [][Next]_datagramVars
====
