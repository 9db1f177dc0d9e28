---------------------------- MODULE RouteSignalling ----------------------------
(* lib/framing/route_parser.cc: LCT packets of signalling, what their header  *)
(* says of them and the table each holds.  What a service list table does to  *)
(* the catalog is in ServiceDiscovery.  The sizes of the header's fields are  *)
(* those of the code, which differ from those of RFC 5651.                    *)
EXTENDS Naturals, Sequences

CONSTANTS
  Packets,      \* what may arrive: version, cc, s, o, h, words, lls, session,
                \* object, len and body
  ServiceIds,   \* values of 16 bits
  None,         \* no MPD
  MaxSignalling \* bound of the packets that are counted

VARIABLES
  slt,          \* current_slt_, None before the first
  mpdCache,     \* mpd_cache_
  stats,
  extent,       \* of the last header: the bytes read, the header and the packet
  latest        \* the last MPD of a service since reset()

signallingVars == <<slt, mpdCache, stats, extent, latest>>

NoStats == [parsed |-> 0, errors |-> 0, slt |-> 0, stsid |-> 0, mpd |-> 0, xml |-> 0]

-----------------------------------------------------------------------------
(* parse_lct_header() *)
CciSize(p) == IF p.cc > 0 THEN 4 ELSE 0
TsiSize(p) == IF ~ p.s THEN 0 ELSE IF p.h THEN 2 ELSE 4
ToiSize(p) == IF p.h THEN <<0, 2, 4, 6>>[p.o + 1] ELSE <<0, 4, 8, 12>>[p.o + 1]

ShortestHeader(p) == 4 + CciSize(p) + TsiSize(p) + ToiSize(p)

HeaderIsValid(p) == p.version = 1 /\ p.len >= ShortestHeader(p)

(* The fields are read one after the other; of a long TOI only 32 bits. *)
ToiOffset(p) == 4 + CciSize(p) + TsiSize(p)
BytesRead(p) == ToiOffset(p) + (IF ToiSize(p) > 4 THEN 4 ELSE ToiSize(p))

HeaderBytes(p) ==
  LET offset == ToiOffset(p) + ToiSize(p)
  IN  IF p.words * 4 < offset THEN offset ELSE p.words * 4

(* A field that is absent is 0; no TOI of 16 bits is a well-known one. *)
Toi(p) == IF p.o = 0 \/ (p.o = 1 /\ p.h) THEN "other" ELSE p.object
ServiceId(p) == IF p.s THEN p.session.low ELSE 0

-----------------------------------------------------------------------------
PayloadLength(p) == p.len - HeaderBytes(p)

Kind(p) ==
  IF Toi(p) = "slt" \/ p.lls THEN "slt"
  ELSE IF Toi(p) \in {"stsid", "mpd"} THEN Toi(p) ELSE "other"

Counted(counters) == [c \in DOMAIN stats |-> IF c \in counters THEN stats[c] + 1 ELSE stats[c]]

Arrives(p) ==
  /\ stats.parsed + stats.errors < MaxSignalling
  /\ p.len >= 4

(* process_lct_packet() up to the choice of a parser *)
BadHeader ==
  \E p \in Packets :
    /\ Arrives(p)
    /\ ~ HeaderIsValid(p)
    /\ stats' = Counted({"errors"})
    /\ UNCHANGED <<slt, mpdCache, extent, latest>>

Header(p) ==
  /\ Arrives(p)
  /\ HeaderIsValid(p)
  /\ extent' = [read |-> BytesRead(p), header |-> HeaderBytes(p), len |-> p.len]

(* No payload, none that is known or one of less than 10 bytes: it is counted *)
(* as a packet and as nothing else.                                           *)
HasTable(p) ==
  HeaderBytes(p) < p.len /\ Kind(p) # "other" /\ PayloadLength(p) >= 10

NoTable ==
  \E p \in Packets :
    /\ Header(p)
    /\ ~ HasTable(p)
    /\ stats' = Counted({"parsed"})
    /\ UNCHANGED <<slt, mpdCache, latest>>

(* find_tag() does not find the root of a table that is XML. *)
NoRoot ==
  \E p \in Packets :
    /\ Header(p)
    /\ HasTable(p) /\ Kind(p) \in {"slt", "mpd"} /\ p.body.root # Kind(p)
    /\ stats' = Counted({"parsed", "xml"})
    /\ UNCHANGED <<slt, mpdCache, latest>>

(* parse_slt() *)
ParseSlt ==
  \E p \in Packets :
    /\ Header(p)
    /\ HasTable(p) /\ Kind(p) = "slt" /\ p.body.root = "slt"
    /\ slt' = p.body
    /\ stats' = Counted({"parsed", "slt"})
    /\ UNCHANGED <<mpdCache, latest>>

(* parse_stsid() *)
ParseStsid ==
  \E p \in Packets :
    /\ Header(p)
    /\ HasTable(p) /\ Kind(p) = "stsid"
    /\ stats' = Counted({"parsed", "stsid"})
    /\ UNCHANGED <<slt, mpdCache, latest>>

(* Mutant: an MPD is put behind the one it replaces. *)
CachedBehind(service, mpd) == Append(mpdCache, [service |-> service, mpd |-> mpd])

(* parse_mpd(): the entry of the service, or a new one at the end *)
Cached(service, mpd) ==
  LET entry == [service |-> service, mpd |-> mpd]
      same == {i \in 1..Len(mpdCache) : mpdCache[i].service = service}
  IN  IF same = {} THEN Append(mpdCache, entry)
      ELSE [mpdCache EXCEPT ![CHOOSE i \in same : \A j \in same : i <= j] = entry]

ParseMpd ==
  \E p \in Packets :
    /\ Header(p)
    /\ HasTable(p) /\ Kind(p) = "mpd" /\ p.body.root = "mpd"
    /\ mpdCache' = Cached(ServiceId(p), p.body.url)
    /\ latest' = [latest EXCEPT ![ServiceId(p)] = p.body.url]
    /\ stats' = Counted({"parsed", "mpd"})
    /\ UNCHANGED slt

(* reset() *)
ResetParser ==
  /\ slt' = None
  /\ mpdCache' = <<>>
  /\ stats' = NoStats
  /\ latest' = [service \in ServiceIds |-> None]
  /\ UNCHANGED extent

SignallingInit ==
  /\ slt = None /\ mpdCache = <<>> /\ stats = NoStats
  /\ extent = [read |-> 0, header |-> 0, len |-> 0]
  /\ latest = [service \in ServiceIds |-> None]

SignallingNext ==
  BadHeader \/ NoTable \/ NoRoot \/ ParseSlt \/ ParseStsid \/ ParseMpd \/ ResetParser

-----------------------------------------------------------------------------
(* get_mpd(): the first entry of the service *)
GetMpd(service) ==
  LET same == {i \in 1..Len(mpdCache) : mpdCache[i].service = service}
  IN  IF same = {} THEN None
      ELSE mpdCache[CHOOSE i \in same : \A j \in same : i <= j].mpd

(* Whatever the flags of a header say, its fields are read inside the packet  *)
(* and inside the bytes that are passed over before the payload.              *)
FieldsInsideHeader == extent.read <= extent.len /\ extent.read <= extent.header

(* A caller gets the MPD that came last for a service, and none from before a *)
(* reset().                                                                   *)
LatestMpd == \A service \in ServiceIds : GetMpd(service) = latest[service]
=============================================================================
