---- MODULE AlpFraming ----
(* How AlpDemux::process cuts its byte stream into ALP packets                *)
(* (lib/framing/alp_demux.cc).  A byte knows the packet it belongs to, its    *)
(* place in it, and that packet's header size and total size; only the first  *)
(* byte of a packet parses as the header it is, any other byte as anything.   *)
(* One pass of the while loop of process() is one step.                       *)
EXTENDS Naturals, Sequences

CONSTANTS
    Shapes,       \* [header, total]: header_bytes and header_bytes + length, no less
    MinHeader,    \* MIN_HEADER_BYTES
    MaxPackets    \* packets put on the wire (bound)

VARIABLES
    wire,      \* bytes the FEC decoder has yet to hand over
    launched,  \* packets put on the wire
    buffer,    \* input_buffer_
    offset,    \* offset in the loop of process(), 0 outside it
    parsing,   \* process() is running
    packets,   \* numbers of the packets handled, 0 for one that was never sent
    aligned    \* history: no cut-off header was skipped, no bytes were discarded

vars == <<wire, launched, buffer, offset, parsing, packets, aligned>>

PacketBytes(n, s) == [k \in 1 .. s.total |-> [packet |-> n, at |-> k, shape |-> s]]

Init ==
    /\ wire = <<>>
    /\ launched = 0
    /\ buffer = <<>>
    /\ offset = 0
    /\ parsing = FALSE
    /\ packets = <<>>
    /\ aligned = TRUE

(* The transmitter puts a packet on the wire. *)
Launch ==
    \E s \in Shapes :
        /\ launched < MaxPackets
        /\ launched' = launched + 1
        /\ wire' = wire \o PacketBytes(launched + 1, s)
        /\ UNCHANGED <<buffer, offset, parsing, packets, aligned>>

(* process() is called with the next bytes, as many as there happen to be. *)
Process ==
    \E n \in 1 .. Len(wire) :
        /\ ~parsing
        /\ parsing' = TRUE
        /\ buffer' = buffer \o SubSeq(wire, 1, n)
        /\ wire' = SubSeq(wire, n + 1, Len(wire))
        /\ UNCHANGED <<launched, offset, packets, aligned>>

Left == Len(buffer) - offset

(* The shape parse_header finds at the offset, if it finds one: the packet's  *)
(* own at its first byte, if the whole header is there; anywhere else, any.   *)
Found ==
    LET b == buffer[offset + 1]
    IN  {s \in Shapes : s.header <= Left /\ (b.at = 1 => s = b.shape)}

(* parse_header can fail: on a first byte only when the header is cut off. *)
MayFail ==
    LET b == buffer[offset + 1]
    IN  b.at = 1 => b.shape.header > Left

(* The end of process(): the bytes dealt with go. *)
Return ==
    /\ buffer' = SubSeq(buffer, offset + 1, Len(buffer))
    /\ offset' = 0
    /\ parsing' = FALSE
    /\ UNCHANGED <<wire, launched, packets, aligned>>

(* Less than a minimal header is left. *)
AwaitHeader ==
    /\ parsing
    /\ Left < MinHeader
    /\ Return

(* parse_header returns false: skip one byte. *)
SkipByte ==
    /\ parsing
    /\ Left >= MinHeader
    /\ MayFail
    /\ offset' = offset + 1
    /\ aligned' = (aligned /\ buffer[offset + 1].at # 1)
    /\ UNCHANGED <<wire, launched, buffer, parsing, packets>>

(* The header is there, the payload is not. *)
AwaitPayload ==
    /\ parsing
    /\ Left >= MinHeader
    /\ \E s \in Found : s.total > Left
    /\ Return

(* Broken: the packet is taken without waiting for its payload. *)
TakePacketUnchecked ==
    \E s \in Found :
        /\ parsing
        /\ Left >= MinHeader
        /\ packets' = Append(packets, IF buffer[offset + 1].at = 1
                                      THEN buffer[offset + 1].packet
                                      ELSE 0)
        /\ offset' = offset + s.total
        /\ UNCHANGED <<wire, launched, buffer, parsing, aligned>>

(* A complete packet: process_packet, then on to the next. *)
TakePacket ==
    \E s \in Found :
        /\ parsing
        /\ Left >= MinHeader
        /\ s.total <= Left
        /\ packets' = Append(packets, IF buffer[offset + 1].at = 1
                                      THEN buffer[offset + 1].packet
                                      ELSE 0)
        /\ offset' = offset + s.total
        /\ UNCHANGED <<wire, launched, buffer, parsing, aligned>>

(* flush() and reset() empty the input buffer, between calls of process(). *)
Discard ==
    /\ ~parsing
    /\ buffer' = <<>>
    /\ aligned' = (aligned /\ buffer = <<>>)
    /\ UNCHANGED <<wire, launched, offset, parsing, packets>>

Stream == Launch \/ Process \/ AwaitHeader \/ SkipByte \/ AwaitPayload \/ TakePacket

Next == Stream \/ Discard

Spec == Init /\ [][Next]_vars

----------------------------------------------------------------------------

(* However the stream is cut into calls of process(), the packets handled are *)
(* the packets sent, in order: none lost, none made up ("Input buffer for     *)
(* partial packets", alp_demux.h:186).                                        *)
EveryPacketInOrder ==
    /\ \A i \in DOMAIN packets : packets[i] = i
    /\ (wire = <<>> /\ ~parsing) => (buffer = <<>> <=> Len(packets) = launched)

(* Where process() cuts a payload, or leaves less than two bytes, costs       *)
(* nothing: only a header of three or five bytes cut off by the end of a call *)
(* (and flush() or reset() in mid-packet) puts the parser out of step.        *)
AlignedPacketsInOrder == aligned => EveryPacketInOrder
====
