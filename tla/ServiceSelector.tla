----------------------------- MODULE ServiceSelector -----------------------------
(* blocks/atsc3_service_selector_impl.cc: the packets of the video session    *)
(* are put together to segments, which go out when the next object begins.    *)
(* No session is ever found for the audio, nor for a service selected by its  *)
(* id: audio_tsi_ stays 0, which matches nothing.  set_service_id() takes a   *)
(* mutex that general_work() does not.                                        *)
EXTENDS Integers, Sequences

CONSTANTS
  Sessions,       \* TSIs on the air; a packet may have 0, which is "none", too
  Services,       \* ids; 0 is "the first found"
  Objects,        \* TOIs
  MaxSegment,     \* MAX_SEGMENT_SIZE
  Sizes, Spaces,  \* of payloads, of the output
  MaxPackets, MaxSelections   \* bounds

VARIABLES
  service, locked,   \* service_id_, service_locked_
  tsi,               \* video_tsi_
  toi,               \* current_video_toi_
  buffer,            \* video_reassembly_: the payloads in it, its size()
  work,              \* the packet that general_work() has let through
  packets,           \* history: how many there were
  emitted, lost,     \* history: the segment put out last, what it lacks at its end
  raced,             \* history: the setter came between
  selections

selection == <<service, locked, tsi>>
vars == <<selection, toi, buffer, work, packets, emitted, lost, raced, selections>>

Idle == <<>>
Unlocked == ~ locked /\ service = 0 /\ tsi = 0

Receive == work = Idle /\ packets < MaxPackets /\ packets' = packets + 1

(* No IPv4 or UDP, or a session that is not the one. *)
Filter ==
  /\ Receive
  /\ \E t \in Sessions : ~ Unlocked /\ (t # tsi \/ tsi = 0)
  /\ UNCHANGED <<selection, toi, buffer, work, emitted, lost, raced, selections>>

Pass(t) ==
  \E o \in Objects, n \in Sizes : work' = <<[tsi |-> t, toi |-> o, size |-> n]>>

(* The first session heard is the video; session 0 locks, too, on nothing. *)
Lock ==
  /\ Receive /\ Unlocked
  /\ \E t \in Sessions : tsi' = t /\ Pass(t)
  /\ locked' = TRUE
  /\ UNCHANGED <<service, toi, buffer, emitted, lost, raced, selections>>

Match ==
  /\ Receive /\ tsi # 0 /\ Pass(tsi)
  /\ UNCHANGED <<selection, toi, buffer, emitted, lost, raced, selections>>

(* The LCT header is too short, or nothing follows it. *)
NoPayload ==
  /\ work # Idle /\ work' = Idle
  /\ UNCHANGED <<selection, toi, buffer, packets, emitted, lost, raced, selections>>

Nothing == [parts |-> <<>>, bytes |-> 0]
With(b, p) == [parts |-> Append(b.parts, p), bytes |-> b.bytes + p.size]

Begins(p) == p.toi # toi /\ buffer # Nothing
Uncleared(p) == buffer      \* mutant: the buffer goes on after it was put out
Kept(p) == IF Begins(p) THEN Nothing ELSE buffer

(* A new object puts out what there is, as much as there is room for: the     *)
(* rest is lost, and so is a payload that would make a segment too large.     *)
Collect ==
  \E p \in {work[i] : i \in DOMAIN work}, space \in Spaces :
    /\ work' = Idle
    /\ emitted' = IF Begins(p) THEN buffer ELSE emitted
    /\ lost' = IF Begins(p) /\ buffer.bytes > space THEN buffer.bytes - space ELSE 0
    /\ toi' = p.toi
    /\ buffer' = IF Kept(p).bytes + p.size <= MaxSegment THEN With(Kept(p), p) ELSE Kept(p)
    /\ UNCHANGED <<selection, packets, raced, selections>>

(* handle_service_select() between two calls of general_work(), or a call of  *)
(* the user interface at any time. *)
SetServiceId ==
  /\ selections < MaxSelections /\ selections' = selections + 1
  /\ service' \in Services /\ locked' = FALSE /\ tsi' = 0 /\ buffer' = Nothing
  /\ raced' = (raced \/ work # Idle)
  /\ UNCHANGED <<toi, work, packets, emitted, lost>>

Init ==
  /\ service \in Services /\ locked = FALSE /\ tsi = 0 /\ toi = 0
  /\ buffer = Nothing /\ work = Idle /\ packets = 0
  /\ emitted = Nothing /\ lost = 0 /\ raced = FALSE /\ selections = 0

Next == Filter \/ Lock \/ Match \/ NoPayload \/ Collect \/ SetServiceId

(* What the decoder is given at once are payloads of one object of one        *)
(* session, no larger than a segment may be, and nothing of the service left  *)
(* behind at a selection, unless the selection fell inside general_work().    *)
SegmentsOfOneObject ==
  /\ emitted.bytes <= MaxSegment
  /\ ~ raced =>
       \A i, j \in DOMAIN emitted.parts :
         /\ emitted.parts[i].tsi = emitted.parts[j].tsi
         /\ emitted.parts[i].toi = emitted.parts[j].toi
===============================================================================
