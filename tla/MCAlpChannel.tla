---- MODULE MCAlpChannel ----
(* The demultiplexer behind a broadcast channel that loses and damages        *)
(* segments but does not repeat or reorder them.  Each sub-stream has a       *)
(* sender that cuts one datagram after the other into segments; a payload     *)
(* remembers the piece of which datagram it is, and the CRC of a buffer holds *)
(* exactly when the buffer is one whole datagram, undamaged.                  *)
EXTENDS AlpReassembly

CONSTANTS
    Senders,        \* the sub-streams in use
    MaxStarted,     \* datagrams each sender may begin (bound)
    MaxSegments,    \* segments of a datagram of each sender (bound)
    Lengths         \* payload lengths in bytes of each sender

ASSUME ChannelAssumption ==
    /\ Senders \subseteq SubStreams
    /\ MaxStarted \in [Senders -> Nat]
    /\ MaxSegments \in [Senders -> Nat \ {0}]
    /\ Lengths \in [Senders -> SUBSET Nat]
    /\ Cardinality(SequenceNumbers) \in Nat \ {0}
    /\ SequenceNumbers = 0 .. (Cardinality(SequenceNumbers) - 1)

VARIABLES
    sending,    \* [Senders -> the datagram under way and its next segment]
    given       \* [Senders -> Seq(Nat)]: what the client received, 0 = a mix

channelVars == <<contexts, delivered, sending, given>>

(* Segment k of datagram d of s, as it was sent or damaged. *)
Piece(s, d, k, final, n, intact) ==
    [stream |-> s, datagram |-> d, index |-> k, final |-> final, len |-> n,
     intact |-> intact]

MCPayloads ==
    UNION {{Piece(s, d, k, f, n, intact) :
              d \in 1 .. MaxStarted[s], k \in 0 .. (MaxSegments[s] - 1),
              f \in BOOLEAN, n \in Lengths[s], intact \in BOOLEAN} : s \in Senders}

ASSUME PiecesAssumption == MCPayloads \subseteq Payloads

(* A buffer is one whole datagram. *)
Whole(buffer) ==
    /\ buffer # <<>>
    /\ \A i \in DOMAIN buffer :
         /\ buffer[i].intact
         /\ buffer[i].stream = buffer[1].stream
         /\ buffer[i].datagram = buffer[1].datagram
         /\ buffer[i].index = i - 1
         /\ buffer[i].final <=> i = Len(buffer)

(* The log of what the client received.  A buffer shorter than a CRC is       *)
(* delivered without being verified, so it is no part of the promise.         *)
Record ==
    given' =
        IF delivered' = Nothing \/ ~delivered'.checked
        THEN given
        ELSE LET first == delivered'.buffer[1]
                 d == IF Whole(delivered'.buffer) THEN first.datagram ELSE 0
             IN  [given EXCEPT ![first.stream] = Append(@, d)]

Sequence(k) == k % Cardinality(SequenceNumbers)

Header(s, k, final, payload) ==
    [sub_stream_id |-> s, sequence |-> Sequence(k), last |-> final, payload |-> payload]

(* The next segment of s leaves: lost, intact or with a damaged payload. *)
SendSegment(s) ==
    LET d == IF sending[s].next = 0 THEN sending[s].datagram + 1 ELSE sending[s].datagram
        k == sending[s].next
    IN  \E final \in BOOLEAN, n \in Lengths[s] :
          /\ d <= MaxStarted[s]
          /\ k + 1 = MaxSegments[s] => final
          /\ sending' = [sending EXCEPT ![s] = [datagram |-> d,
                                                next |-> IF final THEN 0 ELSE k + 1]]
          /\ \/ delivered' = Nothing /\ UNCHANGED contexts
             \/ \E plp \in Plps, intact \in BOOLEAN :
                  Segment(plp, Header(s, k, final, Piece(s, d, k, final, n, intact)))
          /\ Record

(* A datagram small enough travels in a packet of its own. *)
SendWhole(s) ==
    \E plp \in Plps, n \in Lengths[s], intact \in BOOLEAN :
        /\ sending[s].next = 0
        /\ sending[s].datagram < MaxStarted[s]
        /\ sending' = [sending EXCEPT ![s].datagram = @ + 1]
        /\ CompletePacket(plp, Piece(s, sending[s].datagram + 1, 0, TRUE, n, intact))
        /\ Record

Interrupt == (Flush \/ Reset) /\ UNCHANGED <<sending, given>>

ChannelInit ==
    /\ Init
    /\ sending = [s \in Senders |-> [datagram |-> 0, next |-> 0]]
    /\ given = [s \in Senders |-> <<>>]

ChannelNext ==
    \/ \E s \in Senders : SendSegment(s) \/ SendWhole(s)
    \/ Interrupt

ChannelSpec == ChannelInit /\ [][ChannelNext]_channelVars

----------------------------------------------------------------------------

Datagrams == INSTANCE AlpDatagrams WITH
    Streams <- Senders,
    started <- [s \in Senders |-> sending[s].datagram],
    handed <- given

(* One piece left its sender before another one did. *)
Precedes(p, q) ==
    \/ p.datagram < q.datagram
    \/ p.datagram = q.datagram /\ p.index < q.index

(* What a context in use has gathered is a run of numbers from 0 on, none of  *)
(* them skipped or repeated, on segments of its own sub-stream in the order   *)
(* they were sent, also when it was abandoned, restarted or taken over from   *)
(* another sub-stream before; and no more bytes than a datagram may have.     *)
(* Datagrams can still be spliced where the same numbers follow on a loss.    *)
SegmentsInStep ==
    \A i \in Slots : contexts[i].active =>
        LET gathered == contexts[i].buffer IN
        /\ gathered # <<>> /\ contexts[i].size <= MaxDatagram
        /\ \A k \in DOMAIN gathered :
             /\ gathered[k].stream = contexts[i].sub_stream_id
             /\ Sequence(gathered[k].index) = k - 1
        /\ \A j, k \in DOMAIN gathered : j < k => Precedes(gathered[j], gathered[k])

(* No datagram is handed over before the sender began it, and the one under   *)
(* way has not been handed over yet.                                          *)
HandedBehind ==
    \A s \in Senders :
        /\ Datagrams!LastHanded(s) <= sending[s].datagram
        /\ sending[s].next # 0 => Datagrams!LastHanded(s) < sending[s].datagram

(* Whatever segments are lost or damaged, every datagram that passed the CRC  *)
(* check of complete_reassembly is a whole one, and each sub-stream's come in *)
(* order and at most once.                                                    *)
ImplementsDatagrams == Datagrams!Spec
====
