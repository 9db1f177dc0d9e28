------------------------------ MODULE MCNetwork ------------------------------
(* What follows the FEC decoder: ALP reassembly behind a lossy channel, the   *)
(* cutting of the byte stream into packets, the demultiplexer block around    *)
(* them, the services found in ROUTE signalling and the selector that puts a  *)
(* service's segments together.  Between two of them there are only queues of *)
(* bytes; a behaviour is one of them alone, the unit that the initial state   *)
(* chooses.                                                                   *)
EXTENDS MCAlpChannel, ServiceDiscovery, Integers

CONSTANTS
  Shapes, MinHeader, MaxFramed,                                   \* AlpFraming
  BlockPlps, Types, BlockSizes, BlockSpaces, MaxParsed,           \* AlpBlock
  Sessions, Services, Objects, MaxSegment, SegmentSizes, SegmentSpaces, MaxPassed,
  MaxSelections,                                                  \* ServiceSelector
  LctPackets, ServiceIds, NoTables, MaxSignalling                 \* RouteSignalling

ASSUME FramingAssumption ==
  Shapes \subseteq [header : Nat, total : Nat \ {0}] /\ MinHeader \in Nat \ {0}

ASSUME BlockAssumption ==
  BlockPlps \subseteq Int /\ BlockSizes \subseteq Nat \ {0} /\ BlockSpaces \subseteq Nat

ASSUME SegmentAssumption == MaxSegment \in Nat /\ SegmentSizes \subseteq Nat \ {0}

ASSUME RouteAssumption ==
  /\ 0 \in ServiceIds
  /\ \A p \in LctPackets :
       /\ {p.cc, p.words, p.len} \subseteq Nat /\ p.o \in 0..3
       /\ p.session.low \in ServiceIds

VARIABLES
  unit,
  wire, launched, buffer, offset, parsing, packets, aligned,       \* AlpFraming
  plpId, queued, working, ports, stream, counts,                   \* AlpBlock
  service, locked, tsi, toi, segment, work, passed, emitted, lost, \* ServiceSelector
  raced, selections,
  lastSlt, mpdCache, stats, extent, latest                         \* RouteSignalling

framingVars == <<wire, launched, buffer, offset, parsing, packets, aligned>>
blockVars == <<plpId, queued, working, ports, stream, counts>>
selectorVars ==
  <<service, locked, tsi, toi, segment, work, passed, emitted, lost, raced, selections>>

routeVars == <<lastSlt, mpdCache, stats, extent, latest>>

(* Three sub-streams for two contexts.  The first sends a second datagram,    *)
(* and with two sequence numbers its third segment carries the first again.   *)
(* Segments may be empty, hold a CRC alone, or be too long together.          *)
MCMaxStarted == [s \in Senders |-> IF s = 0 THEN 2 ELSE 1]
MCMaxSegments == [s \in Senders |-> 3 - s]
MCLengths == [s \in Senders |-> CASE s = 0 -> {0, 2} [] s = 1 -> {1, 2} [] s = 2 -> {1}]

(* Two entries for three services: tables that fit, that change a service,    *)
(* that overfill the catalog, that name a service twice or with id 0, and     *)
(* whose elements lack an attribute.                                          *)
Element(id, details) == [id |-> id, details |-> details]

MCTables ==
  { <<Element(1, "a")>>,
    <<Element(2, "b"), Element(3, "a"), Element(1, "a")>>,
    <<Element(0, "a"), Element(3, "b"), Element(3, "a")>>,
    <<Element(Absent, "a"), Element(2, Absent), Element(Absent, "b")>> }

(* Packets of the three header sizes. *)
MCShapes ==
  {[header |-> 2, total |-> 2], [header |-> 3, total |-> 4], [header |-> 5, total |-> 6]}

Framing == INSTANCE AlpFraming WITH MaxPackets <- MaxFramed

(* Packets that fit the output, that fit an empty output, and that never do. *)
Block == INSTANCE AlpBlock WITH
  Plps <- BlockPlps, Sizes <- BlockSizes, Spaces <- BlockSpaces, MaxPackets <- MaxParsed,
  pending <- queued

(* Two sessions and TSI 0; a second payload may be too large for the segment. *)
Selector == INSTANCE ServiceSelector WITH
  Sizes <- SegmentSizes, Spaces <- SegmentSpaces, MaxPackets <- MaxPassed,
  buffer <- segment, packets <- passed

Route == INSTANCE RouteSignalling WITH
  Packets <- LctPackets, None <- NoTables, slt <- lastSlt

(* Headers of every form, long enough and too short; and tables of every kind *)
(* for two services, one of them of two sessions.                             *)
Lct(version, cc, s, o, h, words, lls, session, object, len, body) ==
  [version |-> version, cc |-> cc, s |-> s, o |-> o, h |-> h, words |-> words, lls |-> lls,
   session |-> session, object |-> object, len |-> len, body |-> body]

MCLctPackets ==
  LET plain == [high |-> 0, low |-> 1]
      other == [high |-> 1, low |-> 1]
      second == [high |-> 0, low |-> 2]
      text(root, url) == [root |-> root, url |-> url]
  IN  { Lct(1, cc, s, o, h, 2, FALSE, plain, "other", len, text("none", "a")) :
          cc \in {0, 1}, s \in BOOLEAN, o \in 0..3, h \in BOOLEAN,
          len \in {2, 8, 12, 23, 24} }
      \union { Lct(2, 0, TRUE, 1, FALSE, 3, FALSE, plain, "mpd", 24, text("mpd", "a")) }
      \union { Lct(1, 0, s, 1, FALSE, 3, lls, session, object, 24, text(root, url)) :
                 s \in BOOLEAN, lls \in BOOLEAN, session \in {plain, other, second},
                 object \in {"slt", "stsid", "mpd", "other"}, root \in {"slt", "mpd"},
                 url \in {"a", "b"} }

-----------------------------------------------------------------------------
Units == {"channel", "framing", "block", "discovery", "selector", "route"}

NetworkInit ==
  /\ unit \in Units
  /\ ChannelInit /\ Framing!Init /\ DiscoveryInit
  /\ Block!Init /\ (unit # "block" => plpId = 0)
  /\ Selector!Init /\ (unit # "selector" => service = 0)
  /\ Route!SignallingInit

NetworkNext ==
  \/ /\ unit = "channel" /\ ChannelNext
     /\ UNCHANGED <<unit, framingVars, blockVars, discoveryVars, selectorVars, routeVars>>
  \/ /\ unit = "framing" /\ Framing!Next
     /\ UNCHANGED <<unit, channelVars, blockVars, discoveryVars, selectorVars, routeVars>>
  \/ /\ unit = "block" /\ Block!Next
     /\ UNCHANGED <<unit, channelVars, framingVars, discoveryVars, selectorVars, routeVars>>
  \/ /\ unit = "discovery" /\ DiscoveryNext
     /\ UNCHANGED <<unit, channelVars, framingVars, blockVars, selectorVars, routeVars>>
  \/ /\ unit = "selector" /\ Selector!Next
     /\ UNCHANGED <<unit, channelVars, framingVars, blockVars, discoveryVars, routeVars>>
  \/ /\ unit = "route" /\ Route!SignallingNext
     /\ UNCHANGED <<unit, channelVars, framingVars, blockVars, discoveryVars, selectorVars>>

allVars ==
  <<unit, channelVars, framingVars, blockVars, discoveryVars, selectorVars, routeVars>>

NetworkSpec == NetworkInit /\ [][NetworkNext]_allVars

(* The byte stream alone, without flush() and reset(). *)
StreamNext ==
  /\ Framing!Stream
  /\ UNCHANGED <<unit, channelVars, blockVars, discoveryVars, selectorVars, routeVars>>

StreamSpec == NetworkInit /\ unit = "framing" /\ [][StreamNext]_allVars

(* lib/framing/alp_demux.h:186 keeps "partial packets": however the stream is  *)
(* cut, every packet is found, in order.                                       *)
EveryPacketInOrder == Framing!EveryPacketInOrder

(* process() finds the packets in order as long as no header was cut off.      *)
AlignedPacketsInOrder == Framing!AlignedPacketsInOrder

(* blocks/atsc3_alp_demux_impl.cc: the output is the packets that were found,  *)
(* whole and in order, whatever room each call has.                            *)
StreamIsThePackets == Block!StreamIsThePackets

(* blocks/atsc3_service_selector_impl.cc: what is put out as one segment is    *)
(* made of packets of one transport object, in the order they came.            *)
SegmentsOfOneObject == Selector!SegmentsOfOneObject

(* lib/framing/route_parser.cc: a header is read inside its packet. *)
FieldsInsideHeader == Route!FieldsInsideHeader

(* get_mpd() gives the MPD that came last for the service. *)
LatestMpd == Route!LatestMpd
=============================================================================
