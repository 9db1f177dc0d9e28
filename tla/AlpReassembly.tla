---- MODULE AlpReassembly ----
(* Reassembly of segmented ALP packets (lib/framing/alp_demux.cc).  A payload *)
(* is a record whose field len is its number of bytes; what the CRC-32 says   *)
(* of a buffer of payloads is the constant CrcValid.  The statistics counters *)
(* are left out: nothing reads them inside the component.                     *)
EXTENDS Naturals, Sequences, FiniteSets

CONSTANTS
    SubStreams,        \* sub_stream_id values, 0 among them
    NumContexts,       \* MAX_REASSEMBLY_CONTEXTS
    SequenceNumbers,   \* values of the 5-bit segment_sequence field
    Plps,
    Payloads,
    MaxDatagram,       \* config_.max_datagram_size
    CrcBytes,          \* 4
    CheckCrc,          \* config_.check_crc
    CrcValid(_)        \* verify_crc on a buffer of payloads

ASSUME DemuxAssumption ==
    /\ 0 \in SubStreams
    /\ NumContexts \in Nat
    /\ MaxDatagram \in Nat
    /\ CrcBytes \in Nat
    /\ CheckCrc \in BOOLEAN
    /\ SequenceNumbers \subseteq Nat

ASSUME PayloadAssumption == \A p \in Payloads : p.len \in Nat

VARIABLES
    contexts,     \* reassembly_
    delivered     \* what the last operation gave to ip_callback_, or Nothing

vars == <<contexts, delivered>>

Slots == 1 .. NumContexts

Nothing == [plp |-> "none"]

(* The fields of ReassemblyContext; size is buffer.size(), which the field    *)
(* total_received repeats.                                                    *)
ContextType ==
    [active : BOOLEAN, sub_stream_id : SubStreams, expected : Nat,
     buffer : Seq(Payloads), size : Nat]

Segments ==
    [sub_stream_id : SubStreams, sequence : SequenceNumbers,
     last : BOOLEAN, payload : Payloads]

Context(active, s, expected, buffer, size) ==
    [active |-> active, sub_stream_id |-> s, expected |-> expected,
     buffer |-> buffer, size |-> size]

Fresh(s) == Context(TRUE, s, 0, <<>>, 0)

Released(ctx) == Context(FALSE, ctx.sub_stream_id, 0, <<>>, 0)

Init ==
    /\ contexts = [i \in Slots |-> Released(Fresh(0))]
    /\ delivered = Nothing

----------------------------------------------------------------------------
(* Choice of a context.                                                     *)

Holding(s) == {i \in Slots : contexts[i].active /\ contexts[i].sub_stream_id = s}
Free == {i \in Slots : ~contexts[i].active}

(* find_reassembly_context for a continuation; get_reassembly_context, which  *)
(* falls back on a free context, for a first segment.                         *)
Candidates(seg) ==
    IF Holding(seg.sub_stream_id) = {} /\ seg.sequence = 0
    THEN Free
    ELSE Holding(seg.sub_stream_id)

Chosen(seg) ==
    CHOOSE i \in Candidates(seg) : \A j \in Candidates(seg) : i <= j

(* A first segment restarts the context it gets, discarding what it held. *)
Opened(seg) ==
    IF seg.sequence = 0 THEN Fresh(seg.sub_stream_id) ELSE contexts[Chosen(seg)]

(* Broken: any continuation of the sub-stream is taken. *)
FitsInAnyOrder(seg) == Opened(seg).size + seg.payload.len <= MaxDatagram

Fits(seg) ==
    /\ seg.sequence = Opened(seg).expected
    /\ Opened(seg).size + seg.payload.len <= MaxDatagram

Extended(seg) ==
    LET ctx == Opened(seg)
    IN  Context(ctx.active, ctx.sub_stream_id, ctx.expected + 1,
                Append(ctx.buffer, seg.payload), ctx.size + seg.payload.len)

----------------------------------------------------------------------------
(* Handing a datagram to the client.                                        *)

Checked(size) == CheckCrc /\ size >= CrcBytes

(* Broken: the result of verify_crc is not looked at. *)
AcceptedUnverified(buffer, size) == size > 0

Accepted(buffer, size) == Checked(size) => CrcValid(buffer)

Datagram(plp, buffer, size) ==
    [plp |-> plp, buffer |-> buffer, checked |-> Checked(size)]

(* complete_reassembly delivers unless the CRC was all the buffer held. *)
Handed(plp, buffer, size) ==
    IF Checked(size) /\ size = CrcBytes
    THEN Nothing
    ELSE Datagram(plp, buffer, size)

----------------------------------------------------------------------------
(* handle_ipv4_packet.                                                      *)

(* A packet without segmentation is delivered as it is. *)
CompletePacket(plp, payload) ==
    /\ delivered' = IF payload.len > 0 /\ Accepted(<<payload>>, payload.len)
                    THEN Datagram(plp, <<payload>>, payload.len)
                    ELSE Nothing
    /\ UNCHANGED contexts

(* No context for a continuation, or none free for a first segment. *)
Refuse(seg) ==
    /\ Candidates(seg) = {}
    /\ delivered' = Nothing
    /\ UNCHANGED contexts

(* Out of sequence, or too long: what was gathered is thrown away. *)
Abandon(seg) ==
    /\ Candidates(seg) # {}
    /\ ~Fits(seg)
    /\ contexts' = [contexts EXCEPT ![Chosen(seg)] = Released(Opened(seg))]
    /\ delivered' = Nothing

Extend(seg) ==
    /\ Candidates(seg) # {}
    /\ Fits(seg)
    /\ ~seg.last
    /\ contexts' = [contexts EXCEPT ![Chosen(seg)] = Extended(seg)]
    /\ delivered' = Nothing

(* complete_reassembly returns at once on an empty buffer: the context stays. *)
CompleteEmpty(seg) ==
    /\ Candidates(seg) # {}
    /\ Fits(seg)
    /\ seg.last
    /\ Extended(seg).size = 0
    /\ contexts' = [contexts EXCEPT ![Chosen(seg)] = Extended(seg)]
    /\ delivered' = Nothing

Complete(plp, seg) ==
    /\ Candidates(seg) # {}
    /\ Fits(seg)
    /\ seg.last
    /\ Extended(seg).size > 0
    /\ contexts' = [contexts EXCEPT ![Chosen(seg)] = Released(Extended(seg))]
    /\ delivered' = IF Accepted(Extended(seg).buffer, Extended(seg).size)
                    THEN Handed(plp, Extended(seg).buffer, Extended(seg).size)
                    ELSE Nothing

Segment(plp, seg) ==
    \/ Refuse(seg)
    \/ Abandon(seg)
    \/ Extend(seg)
    \/ CompleteEmpty(seg)
    \/ Complete(plp, seg)

----------------------------------------------------------------------------

(* flush() releases a context only when its buffer holds something, and       *)
(* leaves expected_sequence behind.                                           *)
Flush ==
    /\ contexts' = [i \in Slots |->
                      IF contexts[i].active /\ contexts[i].size > 0
                      THEN Context(FALSE, contexts[i].sub_stream_id,
                                   contexts[i].expected, <<>>, 0)
                      ELSE contexts[i]]
    /\ delivered' = Nothing

Reset ==
    /\ contexts' = [i \in Slots |-> Released(contexts[i])]
    /\ delivered' = Nothing

Next ==
    \/ \E plp \in Plps, payload \in Payloads : CompletePacket(plp, payload)
    \/ \E plp \in Plps, seg \in Segments : Segment(plp, seg)
    \/ Flush
    \/ Reset

Spec == Init /\ [][Next]_vars

----------------------------------------------------------------------------

(* The contexts have the fields of ReassemblyContext and a datagram goes to   *)
(* the client on a PLP.                                                       *)
TypeOK ==
    /\ contexts \in [Slots -> ContextType]
    /\ delivered \in {Nothing}
         \cup [plp : Plps, buffer : Seq(Payloads), checked : BOOLEAN]

(* A sub-stream never has two contexts: find_reassembly_context would then    *)
(* extend one and leave the other to rot ("Reassembly contexts (one per       *)
(* sub-stream)", alp_demux.h:183).                                            *)
OneContextPerSubStream ==
    \A i, j \in Slots :
        (/\ contexts[i].active
         /\ contexts[j].active
         /\ contexts[i].sub_stream_id = contexts[j].sub_stream_id) => i = j
====
