---------------------------- MODULE ReceptionProofs ----------------------------
(***************************************************************************)
(* Proofs about the reassembly of datagrams, for every number of contexts, *)
(* sub-streams and segments and whatever the CRC says of a buffer, and     *)
(* about the service catalog and the discovery that fills it, for every    *)
(* capacity, every set of services and all service list tables.            *)
(***************************************************************************)
EXTENDS MCAlpChannel, ServiceDiscovery, SequenceTheorems, CountingLemmas, TLAPS

-----------------------------------------------------------------------------
(* Reassembly *)
(* The context the demultiplexer picks is one of the candidates. *)
LEMMA ChosenIsCandidate ==
  ASSUME NEW seg, Candidates(seg) # {}
  PROVE  Chosen(seg) \in Candidates(seg) /\ Chosen(seg) \in Slots
<1>1. Candidates(seg) \subseteq Slots
  BY DEF Candidates, Holding, Free
<1>2. Candidates(seg) \subseteq Nat
  BY <1>1 DEF Slots
<1>3. \E i \in Candidates(seg) : \A j \in Candidates(seg) : i <= j
  BY <1>2, Least
<1>4. QED
  BY <1>1, <1>3 DEF Chosen

----------------------------------------------------------------------------

(* What a context in use looks like between two segments. *)
InStep(ctx) ==
    /\ ctx.expected = Len(ctx.buffer)
    /\ ctx.expected > 0
    /\ ctx.size <= MaxDatagram

InStepAll == \A i \in Slots : contexts[i].active => InStep(contexts[i])

(* The invariant is inductive as it stands. *)
ContextInv == TypeOK /\ OneContextPerSubStream /\ InStepAll

(* No context but the chosen one works for the segment's sub-stream. *)
LEMMA OthersWorkElsewhere ==
  ASSUME ContextInv, NEW seg \in Segments, Candidates(seg) # {},
         NEW j \in Slots, j # Chosen(seg), contexts[j].active
  PROVE  contexts[j].sub_stream_id # seg.sub_stream_id
<1> DEFINE s == seg.sub_stream_id
<1>1. Chosen(seg) \in Candidates(seg) /\ Chosen(seg) \in Slots
  BY ChosenIsCandidate
<1>2. CASE Holding(s) = {}
  BY <1>2 DEF Holding
<1>3. CASE Holding(s) # {}
  <2>1. Chosen(seg) \in Holding(s)
    BY <1>1, <1>3 DEF Candidates
  <2>2. contexts[Chosen(seg)].active /\ contexts[Chosen(seg)].sub_stream_id = s
    BY <2>1 DEF Holding
  <2>3. QED
    BY <1>1, <2>2 DEF ContextInv, OneContextPerSubStream
<1>4. QED
  BY <1>2, <1>3

(* The context a segment opens belongs to its sub-stream. *)
LEMMA OpenedIsTyped ==
  ASSUME ContextInv, NEW seg \in Segments, Candidates(seg) # {}
  PROVE  /\ Opened(seg) \in ContextType
         /\ Opened(seg).active
         /\ Opened(seg).sub_stream_id = seg.sub_stream_id
         /\ Opened(seg).expected = Len(Opened(seg).buffer)
         /\ Opened(seg).size <= MaxDatagram
<1>1. Chosen(seg) \in Candidates(seg) /\ Chosen(seg) \in Slots
  BY ChosenIsCandidate
<1>2. seg.sub_stream_id \in SubStreams /\ seg.sequence \in SequenceNumbers
  BY DEF Segments
<1>3. CASE seg.sequence = 0
  <2>1. Opened(seg) = Fresh(seg.sub_stream_id)
    BY <1>3 DEF Opened
  <2>2. <<>> \in Seq(Payloads) /\ Len(<<>>) = 0
    OBVIOUS
  <2>3. QED
    BY <1>2, <2>1, <2>2, DemuxAssumption DEF Fresh, Context, ContextType
<1>4. CASE seg.sequence # 0
  <2>1. Opened(seg) = contexts[Chosen(seg)]
    BY <1>4 DEF Opened
  <2>2. Chosen(seg) \in Holding(seg.sub_stream_id)
    BY <1>1, <1>4 DEF Candidates
  <2>3. /\ contexts[Chosen(seg)] \in ContextType
        /\ contexts[Chosen(seg)].active
        /\ contexts[Chosen(seg)].sub_stream_id = seg.sub_stream_id
    BY <1>1, <2>2 DEF Holding, ContextInv, TypeOK
  <2>4. contexts[Chosen(seg)].expected = Len(contexts[Chosen(seg)].buffer)
        /\ contexts[Chosen(seg)].size <= MaxDatagram
    BY <1>1, <2>3 DEF ContextInv, InStepAll, InStep
  <2>5. QED
    BY <2>1, <2>3, <2>4
<1>5. QED
  BY <1>3, <1>4

(* Replacing the chosen context by one that is idle, or in step and of the    *)
(* same sub-stream, keeps the invariant.                                      *)
LEMMA ReplacingKeeps ==
  ASSUME ContextInv, NEW seg \in Segments, Candidates(seg) # {},
         NEW ctx \in ContextType,
         ctx.active => ctx.sub_stream_id = seg.sub_stream_id /\ InStep(ctx),
         contexts' = [contexts EXCEPT ![Chosen(seg)] = ctx]
  PROVE  /\ contexts' \in [Slots -> ContextType]
         /\ OneContextPerSubStream'
         /\ InStepAll'
<1> DEFINE c == Chosen(seg)
<1>1. c \in Slots
  BY ChosenIsCandidate
<1>2. contexts \in [Slots -> ContextType]
  BY DEF ContextInv, TypeOK
<1>3. contexts'[c] = ctx /\ \A j \in Slots : j # c => contexts'[j] = contexts[j]
  BY <1>1, <1>2
<1>4. contexts' \in [Slots -> ContextType]
  BY <1>1, <1>2
<1>5. OneContextPerSubStream'
  <2>1. SUFFICES ASSUME NEW i \in Slots, NEW j \in Slots,
                        contexts'[i].active, contexts'[j].active,
                        contexts'[i].sub_stream_id = contexts'[j].sub_stream_id
                 PROVE  i = j
    BY DEF OneContextPerSubStream
  <2>2. CASE i # c /\ j # c
    BY <2>1, <2>2, <1>3 DEF ContextInv, OneContextPerSubStream
  <2>3. CASE i = c /\ j # c
    BY <2>1, <2>3, <1>3, OthersWorkElsewhere
  <2>4. CASE i # c /\ j = c
    BY <2>1, <2>4, <1>3, OthersWorkElsewhere
  <2>5. QED
    BY <2>2, <2>3, <2>4
<1>6. InStepAll'
  <2>1. SUFFICES ASSUME NEW i \in Slots, contexts'[i].active
                 PROVE  InStep(contexts'[i])
    BY DEF InStepAll, InStep
  <2>2. CASE i = c
    BY <2>1, <2>2, <1>3
  <2>3. CASE i # c
    BY <2>1, <2>3, <1>3 DEF ContextInv, InStepAll, InStep
  <2>4. QED
    BY <2>2, <2>3
<1>7. QED
  BY <1>4, <1>5, <1>6

(* A fitting segment leaves its context in step. *)
LEMMA ExtendedIsInStep ==
  ASSUME ContextInv, NEW seg \in Segments, Candidates(seg) # {}, Fits(seg)
  PROVE  /\ Extended(seg) \in ContextType
         /\ Extended(seg).active
         /\ Extended(seg).sub_stream_id = seg.sub_stream_id
         /\ InStep(Extended(seg))
<1> DEFINE o == Opened(seg)
<1>1. /\ o \in ContextType
      /\ o.active
      /\ o.sub_stream_id = seg.sub_stream_id
      /\ o.expected = Len(o.buffer)
  BY OpenedIsTyped
<1>2. seg.payload \in Payloads /\ seg.payload.len \in Nat
  BY PayloadAssumption DEF Segments
<1>3. /\ o.buffer \in Seq(Payloads) /\ o.expected \in Nat /\ o.size \in Nat
  BY <1>1 DEF ContextType
<1>4. /\ Append(o.buffer, seg.payload) \in Seq(Payloads)
      /\ Len(Append(o.buffer, seg.payload)) = Len(o.buffer) + 1
  BY <1>2, <1>3
<1>5. o.size + seg.payload.len <= MaxDatagram
  BY DEF Fits
<1> HIDE DEF o
<1>6. Extended(seg) = [active |-> o.active, sub_stream_id |-> o.sub_stream_id,
                       expected |-> o.expected + 1,
                       buffer |-> Append(o.buffer, seg.payload),
                       size |-> o.size + seg.payload.len]
  BY DEF Extended, Context, o
<1>7. Extended(seg) \in ContextType
  BY <1>1, <1>2, <1>3, <1>4, <1>6 DEF ContextType
<1>8. InStep(Extended(seg))
  BY <1>1, <1>3, <1>4, <1>5, <1>6 DEF InStep
<1>9. QED
  BY <1>1, <1>6, <1>7, <1>8

(* A released context is typed and idle. *)
LEMMA ReleasedIsTyped ==
  ASSUME NEW ctx \in ContextType
  PROVE  Released(ctx) \in ContextType /\ ~Released(ctx).active
BY DEF Released, Context, ContextType

----------------------------------------------------------------------------

LEMMA InitIsInv == Init => ContextInv
<1> SUFFICES ASSUME Init PROVE ContextInv
  OBVIOUS
<1>1. Fresh(0) \in ContextType
  BY DemuxAssumption DEF Fresh, Context, ContextType
<1>2. Released(Fresh(0)) \in ContextType /\ ~Released(Fresh(0)).active
  BY <1>1, ReleasedIsTyped
<1>3. /\ contexts \in [Slots -> ContextType]
      /\ \A i \in Slots : ~contexts[i].active
  BY <1>2 DEF Init
<1>4. QED
  BY <1>3 DEF ContextInv, TypeOK, OneContextPerSubStream, InStepAll, Init

(* What a step that only releases contexts does to the invariant. *)
LEMMA ReleasingKeeps ==
  ASSUME ContextInv, contexts' \in [Slots -> ContextType],
         \A i \in Slots : contexts'[i].active => contexts'[i] = contexts[i]
  PROVE  OneContextPerSubStream' /\ InStepAll'
<1>1. OneContextPerSubStream'
  BY DEF ContextInv, OneContextPerSubStream
<1>2. InStepAll'
  BY DEF ContextInv, InStepAll
<1>3. QED
  BY <1>1, <1>2

(* Both kinds of datagram are typed. *)
LEMMA DatagramIsTyped ==
  ASSUME NEW plp \in Plps, NEW buffer \in Seq(Payloads), NEW size \in Nat
  PROVE  Datagram(plp, buffer, size)
           \in [plp : Plps, buffer : Seq(Payloads), checked : BOOLEAN]
<1>1. Checked(size) \in BOOLEAN
  BY DemuxAssumption DEF Checked
<1>2. QED
  BY <1>1 DEF Datagram

LEMMA SegmentKeeps ==
  ASSUME ContextInv, NEW plp \in Plps, NEW seg \in Segments, Segment(plp, seg)
  PROVE  ContextInv'
<1>1. CASE Refuse(seg)
  BY <1>1 DEF Refuse, ContextInv, TypeOK, OneContextPerSubStream, InStepAll
<1>2. CASE Abandon(seg)
  <2>1. Candidates(seg) # {} /\ Opened(seg) \in ContextType
    BY <1>2, OpenedIsTyped DEF Abandon
  <2>2. Released(Opened(seg)) \in ContextType /\ ~Released(Opened(seg)).active
    BY <2>1, ReleasedIsTyped
  <2>3. contexts' = [contexts EXCEPT ![Chosen(seg)] = Released(Opened(seg))]
        /\ delivered' = Nothing
    BY <1>2 DEF Abandon
  <2>4. /\ contexts' \in [Slots -> ContextType]
        /\ OneContextPerSubStream' /\ InStepAll'
    BY <2>1, <2>2, <2>3, ReplacingKeeps
  <2>5. QED
    BY <2>3, <2>4 DEF ContextInv, TypeOK
<1>3. CASE Extend(seg) \/ CompleteEmpty(seg)
  <2>1. /\ Candidates(seg) # {} /\ Fits(seg)
        /\ contexts' = [contexts EXCEPT ![Chosen(seg)] = Extended(seg)]
        /\ delivered' = Nothing
    BY <1>3 DEF Extend, CompleteEmpty
  <2>2. /\ contexts' \in [Slots -> ContextType]
        /\ OneContextPerSubStream' /\ InStepAll'
    BY <2>1, ExtendedIsInStep, ReplacingKeeps
  <2>3. QED
    BY <2>1, <2>2 DEF ContextInv, TypeOK
<1>4. CASE Complete(plp, seg)
  <2> DEFINE e == Extended(seg)
  <2>1. /\ Candidates(seg) # {} /\ Fits(seg)
        /\ contexts' = [contexts EXCEPT ![Chosen(seg)] = Released(e)]
        /\ delivered' \in {Nothing, Datagram(plp, e.buffer, e.size)}
    BY <1>4 DEF Complete, Handed
  <2>2. e \in ContextType
    BY <2>1, ExtendedIsInStep
  <2>3. Released(e) \in ContextType /\ ~Released(e).active
    BY <2>2, ReleasedIsTyped
  <2>4. /\ contexts' \in [Slots -> ContextType]
        /\ OneContextPerSubStream' /\ InStepAll'
    BY <2>1, <2>3, ReplacingKeeps
  <2>5. e.buffer \in Seq(Payloads) /\ e.size \in Nat
    BY <2>2 DEF ContextType
  <2>6. Datagram(plp, e.buffer, e.size)
          \in [plp : Plps, buffer : Seq(Payloads), checked : BOOLEAN]
    BY <2>5, DatagramIsTyped
  <2>7. QED
    BY <2>1, <2>4, <2>6 DEF ContextInv, TypeOK
<1>5. QED
  BY <1>1, <1>2, <1>3, <1>4 DEF Segment

LEMMA StepKeeps == ContextInv /\ [Next]_vars => ContextInv'
<1> SUFFICES ASSUME ContextInv, [Next]_vars PROVE ContextInv'
  OBVIOUS
<1>1. ASSUME NEW plp \in Plps, NEW payload \in Payloads, CompletePacket(plp, payload)
      PROVE  ContextInv'
  <2>1. <<payload>> \in Seq(Payloads) /\ payload.len \in Nat
    BY PayloadAssumption
  <2>2. Datagram(plp, <<payload>>, payload.len)
          \in [plp : Plps, buffer : Seq(Payloads), checked : BOOLEAN]
    BY <2>1, DatagramIsTyped
  <2>3. contexts' = contexts
        /\ delivered' \in {Nothing, Datagram(plp, <<payload>>, payload.len)}
    BY <1>1 DEF CompletePacket
  <2>4. QED
    BY <2>2, <2>3 DEF ContextInv, TypeOK, OneContextPerSubStream, InStepAll
<1>2. ASSUME NEW plp \in Plps, NEW seg \in Segments, Segment(plp, seg)
      PROVE  ContextInv'
  BY <1>2, SegmentKeeps
<1>3. CASE Flush
  <2>1. \A i \in Slots : contexts[i] \in ContextType
    BY DEF ContextInv, TypeOK
  <2>2. \A i \in Slots :
          Context(FALSE, contexts[i].sub_stream_id, contexts[i].expected, <<>>, 0)
            \in ContextType
    BY <2>1 DEF Context, ContextType
  <2>3. \A i \in Slots :
          ~Context(FALSE, contexts[i].sub_stream_id, contexts[i].expected, <<>>, 0).active
    BY DEF Context
  <2>4. contexts' \in [Slots -> ContextType]
    BY <1>3, <2>1, <2>2 DEF Flush
  <2>5. \A i \in Slots : contexts'[i].active => contexts'[i] = contexts[i]
    BY <1>3, <2>3 DEF Flush
  <2>6. QED
    BY <1>3, <2>4, <2>5, ReleasingKeeps DEF Flush, ContextInv, TypeOK
<1>4. CASE Reset
  <2>1. \A i \in Slots : Released(contexts[i]) \in ContextType
                         /\ ~Released(contexts[i]).active
    BY ReleasedIsTyped DEF ContextInv, TypeOK
  <2>2. /\ contexts' \in [Slots -> ContextType]
        /\ \A i \in Slots : contexts'[i].active => contexts'[i] = contexts[i]
    BY <1>4, <2>1 DEF Reset
  <2>3. QED
    BY <1>4, <2>2, ReleasingKeeps DEF Reset, ContextInv, TypeOK
<1>5. CASE UNCHANGED vars
  BY <1>5 DEF vars, ContextInv, TypeOK, OneContextPerSubStream, InStepAll
<1>6. QED
  BY <1>1, <1>2, <1>3, <1>4, <1>5 DEF Next

LEMMA Invariance == Spec => []ContextInv
<1>1. QED
  BY InitIsInv, StepKeeps, PTL DEF Spec

(* The contexts and what the client receives keep the types of alp_demux.h,   *)
(* whatever packets arrive and however flush() and reset() fall between them. *)
THEOREM TypeCorrect == Spec => []TypeOK
<1>1. ContextInv => TypeOK
  BY DEF ContextInv
<1>2. QED
  BY <1>1, Invariance, PTL

(* Whatever segments arrive, in whatever order, no sub-stream ever has two    *)
(* contexts ("one per sub-stream", alp_demux.h:183): what                     *)
(* find_reassembly_context returns is the only candidate.                     *)
THEOREM OneContext == Spec => []OneContextPerSubStream
<1>1. ContextInv => OneContextPerSubStream
  BY DEF ContextInv
<1>2. QED
  BY <1>1, Invariance, PTL

----------------------------------------------------------------------------
(* The demultiplexer behind the channel implements AlpDatagrams.            *)

LEMMA AppendedIsLast ==
  ASSUME NEW S, NEW seq \in Seq(S), NEW x \in S
  PROVE  Append(seq, x) # <<>> /\ Append(seq, x)[Len(Append(seq, x))] = x
OBVIOUS

(* What is assumed of the CRC: a buffer that passes is a whole datagram.      *)
CrcFindsDamage == \A buffer \in Seq(Payloads) : CrcValid(buffer) => Whole(buffer)

ChannelTypeOK ==
    /\ sending \in [Senders -> [datagram : Nat, next : Nat]]
    /\ \A s \in Senders : sending[s].next < MaxSegments[s]
    /\ given \in [Senders -> Seq(Nat)]

CInv == ContextInv /\ ChannelTypeOK /\ HandedBehind

(* The client has been given a datagram that passed the CRC. *)
HandedChecked == delivered' # Nothing /\ delivered'.checked

(* A payload on the air is the piece that was sent, damaged or not. *)
OnAir(s, d, k, final, n, payload) ==
    \E intact \in BOOLEAN : payload = Piece(s, d, k, final, n, intact)

LEMMA OnAirIsTyped ==
  ASSUME NEW s \in Senders, NEW d \in 1 .. MaxStarted[s],
         NEW k \in 0 .. (MaxSegments[s] - 1),
         NEW final \in BOOLEAN, NEW n \in Lengths[s], NEW payload,
         OnAir(s, d, k, final, n, payload)
  PROVE  payload \in Payloads /\ Header(s, k, final, payload) \in Segments
<1>1. payload \in MCPayloads
  BY DEF OnAir, MCPayloads
<1>2. payload \in Payloads
  BY <1>1, PiecesAssumption
<1>3. Sequence(k) \in SequenceNumbers
  <2> DEFINE m == Cardinality(SequenceNumbers)
  <2>1. m \in Nat \ {0} /\ k \in Nat /\ SequenceNumbers = 0 .. (m - 1)
    BY ChannelAssumption
  <2> HIDE DEF m
  <2>2. k % m \in 0 .. (m - 1)
    BY <2>1
  <2>3. QED
    BY <2>1, <2>2 DEF Sequence, m
<1>4. QED
  BY <1>2, <1>3, ChannelAssumption DEF Header, Segments

(* A whole datagram is what its last piece says it is. *)
LEMMA LastPieceTells ==
  ASSUME NEW buffer \in Seq(Payloads), buffer # <<>>, Whole(buffer),
         NEW s, NEW d, NEW k, NEW final, NEW n,
         OnAir(s, d, k, final, n, buffer[Len(buffer)])
  PROVE  buffer[1].stream = s /\ buffer[1].datagram = d
<1>1. Len(buffer) \in DOMAIN buffer
  BY DEF Whole
<1>2. /\ buffer[Len(buffer)].stream = buffer[1].stream
      /\ buffer[Len(buffer)].datagram = buffer[1].datagram
  BY <1>1 DEF Whole
<1>3. QED
  BY <1>2 DEF OnAir, Piece

(* A segment that makes the client receive a checked datagram was the last    *)
(* one of it, and stands at its end.                                          *)
LEMMA HandedBySegment ==
  ASSUME CrcFindsDamage, ContextInv, NEW plp \in Plps, NEW seg \in Segments,
         Segment(plp, seg), HandedChecked
  PROVE  /\ seg.last
         /\ delivered'.buffer \in Seq(Payloads)
         /\ delivered'.buffer # <<>>
         /\ delivered'.buffer[Len(delivered'.buffer)] = seg.payload
         /\ Whole(delivered'.buffer)
<1> DEFINE e == Extended(seg)
<1>1. Complete(plp, seg)
  BY DEF Segment, Refuse, Abandon, Extend, CompleteEmpty, HandedChecked
<1>2. /\ Candidates(seg) # {} /\ Fits(seg) /\ seg.last
      /\ Accepted(e.buffer, e.size)
      /\ delivered' = Datagram(plp, e.buffer, e.size)
  BY <1>1 DEF Complete, Handed, HandedChecked
<1>3. e \in ContextType /\ Opened(seg) \in ContextType
  BY <1>2, ExtendedIsInStep, OpenedIsTyped
<1>4. /\ Opened(seg).buffer \in Seq(Payloads) /\ seg.payload \in Payloads
      /\ e.buffer = Append(Opened(seg).buffer, seg.payload)
  BY <1>3 DEF ContextType, Segments, Extended, Context
<1>5. delivered'.buffer = e.buffer /\ delivered'.checked = Checked(e.size)
  BY <1>2 DEF Datagram
<1>6. e.buffer \in Seq(Payloads) /\ Whole(e.buffer)
  BY <1>2, <1>3, <1>5 DEF Accepted, HandedChecked, CrcFindsDamage, ContextType
<1> HIDE DEF e
<1>7. e.buffer # <<>> /\ e.buffer[Len(e.buffer)] = seg.payload
  BY <1>4, AppendedIsLast
<1>8. QED
  BY <1>2, <1>5, <1>6, <1>7

(* The same of a packet without segmentation. *)
LEMMA HandedByPacket ==
  ASSUME CrcFindsDamage, NEW plp \in Plps, NEW payload \in Payloads,
         CompletePacket(plp, payload), HandedChecked
  PROVE  delivered'.buffer = <<payload>> /\ Whole(<<payload>>)
<1>1. /\ delivered' = Datagram(plp, <<payload>>, payload.len)
      /\ Accepted(<<payload>>, payload.len)
  BY DEF CompletePacket, HandedChecked
<1>2. <<payload>> \in Seq(Payloads)
  OBVIOUS
<1>3. QED
  BY <1>1, <1>2 DEF Datagram, Accepted, HandedChecked, CrcFindsDamage

(* The log after a step of s, on its datagram d. *)
Logged(s, d) ==
    \/ given' = given
    \/ given' = [given EXCEPT ![s] = Append(@, d)]

LEMMA SegmentIsLogged ==
  ASSUME CrcFindsDamage, CInv,
         NEW s \in Senders, NEW d \in 1 .. MaxStarted[s],
         NEW k \in 0 .. (MaxSegments[s] - 1),
         NEW final \in BOOLEAN, NEW n \in Lengths[s], NEW payload, NEW plp \in Plps,
         OnAir(s, d, k, final, n, payload),
         Segment(plp, Header(s, k, final, payload)), Record
  PROVE  \/ given' = given
         \/ final /\ given' = [given EXCEPT ![s] = Append(@, d)]
<1> DEFINE seg == Header(s, k, final, payload)
<1>1. seg \in Segments /\ seg.last = final /\ seg.payload = payload
  BY OnAirIsTyped DEF Header
<1>2. CASE HandedChecked
  <2>1. /\ seg.last
        /\ delivered'.buffer \in Seq(Payloads)
        /\ delivered'.buffer # <<>>
        /\ delivered'.buffer[Len(delivered'.buffer)] = seg.payload
        /\ Whole(delivered'.buffer)
    BY <1>1, <1>2, HandedBySegment DEF CInv
  <2> DEFINE last == delivered'.buffer[Len(delivered'.buffer)]
  <2>2. OnAir(s, d, k, final, n, last)
    BY <1>1, <2>1
  <2> HIDE DEF last
  <2>3. delivered'.buffer[1].stream = s /\ delivered'.buffer[1].datagram = d
    BY <2>1, <2>2, LastPieceTells DEF last
  <2>4. given' = [given EXCEPT ![s] = Append(@, d)]
    BY <1>2, <2>1, <2>3 DEF Record, HandedChecked
  <2>5. QED
    BY <1>1, <2>1, <2>4
<1>3. CASE ~HandedChecked
  <2>1. given' = given
    BY <1>3 DEF Record, HandedChecked
  <2>2. QED
    BY <2>1
<1>4. QED
  BY <1>2, <1>3

LEMMA PacketIsLogged ==
  ASSUME CrcFindsDamage, CInv, NEW plp \in Plps,
         NEW s \in Senders, NEW d \in 1 .. MaxStarted[s], NEW n \in Lengths[s], NEW payload,
         OnAir(s, d, 0, TRUE, n, payload), CompletePacket(plp, payload), Record
  PROVE  Logged(s, d)
<1>1. 0 \in 0 .. (MaxSegments[s] - 1)
  BY ChannelAssumption
<1>2. payload \in Payloads
  BY <1>1, OnAirIsTyped
<1>3. CASE HandedChecked
  <2>1. delivered'.buffer = <<payload>> /\ Whole(<<payload>>)
    BY <1>2, <1>3, HandedByPacket
  <2>2. /\ <<payload>> \in Seq(Payloads) /\ <<payload>> # <<>>
        /\ <<payload>>[Len(<<payload>>)] = payload
    BY <1>2
  <2>3. payload.stream = s /\ payload.datagram = d
    BY <1>1, <2>1, <2>2, LastPieceTells
  <2>4. <<payload>>[1] = payload
    OBVIOUS
  <2>5. given' = [given EXCEPT ![s] = Append(@, d)]
    BY <1>3, <2>1, <2>3, <2>4 DEF Record, HandedChecked
  <2>6. QED
    BY <2>5 DEF Logged
<1>4. CASE ~HandedChecked
  BY <1>4 DEF Record, HandedChecked, Logged
<1>5. QED
  BY <1>3, <1>4

----------------------------------------------------------------------------

(* What a sender's step amounts to: it goes on with its datagram or begins    *)
(* the next, and the client may receive it with its last segment.             *)
Sent(s, d, next) ==
    /\ sending' = [sending EXCEPT ![s] = [datagram |-> d, next |-> next]]
    /\ \/ sending[s].next = 0 /\ d = sending[s].datagram + 1
       \/ sending[s].next # 0 /\ d = sending[s].datagram
    /\ \/ given' = given
       \/ next = 0 /\ given' = [given EXCEPT ![s] = Append(@, d)]

LEMMA SegmentIsSent ==
  ASSUME CrcFindsDamage, CInv, NEW s \in Senders, SendSegment(s)
  PROVE  ContextInv' /\ \E d \in Nat, next \in 0 .. (MaxSegments[s] - 1) : Sent(s, d, next)
<1> DEFINE d == IF sending[s].next = 0 THEN sending[s].datagram + 1
                ELSE sending[s].datagram
           k == sending[s].next
<1>1. /\ sending[s] \in [datagram : Nat, next : Nat] /\ sending[s].next < MaxSegments[s]
      /\ MaxStarted[s] \in Nat /\ MaxSegments[s] \in Nat \ {0}
  BY ChannelAssumption DEF CInv, ChannelTypeOK
<1>a. sending[s].next # 0 => sending[s].datagram # 0
  <2>1. Datagrams!LastHanded(s) \in Nat
    BY DEF CInv, ChannelTypeOK, Datagrams!LastHanded
  <2>2. QED
    BY <1>1, <2>1 DEF CInv, HandedBehind
<1>2. PICK final \in BOOLEAN, n \in Lengths[s] :
        /\ d <= MaxStarted[s]
        /\ k + 1 = MaxSegments[s] => final
        /\ sending' = [sending EXCEPT ![s] = [datagram |-> d,
                                              next |-> IF final THEN 0 ELSE k + 1]]
        /\ \/ delivered' = Nothing /\ UNCHANGED contexts
           \/ \E plp \in Plps, intact \in BOOLEAN :
                Segment(plp, Header(s, k, final, Piece(s, d, k, final, n, intact)))
        /\ Record
  BY DEF SendSegment
<1>3. d \in 1 .. MaxStarted[s] /\ d \in Nat /\ k \in 0 .. (MaxSegments[s] - 1)
  BY <1>1, <1>a, <1>2
<1>4. \/ sending[s].next = 0 /\ d = sending[s].datagram + 1
      \/ sending[s].next # 0 /\ d = sending[s].datagram
  OBVIOUS
<1> DEFINE next == IF final THEN 0 ELSE k + 1
<1>5. next \in 0 .. (MaxSegments[s] - 1) /\ (final => next = 0)
  BY <1>1, <1>2
<1> HIDE DEF d, k, next
<1>6. CASE delivered' = Nothing /\ UNCHANGED contexts
  <2>1. given' = given
    BY <1>2, <1>6 DEF Record
  <2>2. ContextInv'
    BY <1>6 DEF CInv, ContextInv, TypeOK, OneContextPerSubStream, InStepAll
  <2>3. Sent(s, d, next)
    BY <1>2, <1>4, <2>1 DEF Sent, next
  <2>4. QED
    BY <1>3, <1>5, <2>2, <2>3
<1>7. ASSUME NEW plp \in Plps, NEW payload, OnAir(s, d, k, final, n, payload),
             Segment(plp, Header(s, k, final, payload))
      PROVE  ContextInv' /\ Sent(s, d, next)
  <2>1. ContextInv'
    BY <1>3, <1>7, OnAirIsTyped, SegmentKeeps DEF CInv
  <2>2. \/ given' = given
        \/ final /\ given' = [given EXCEPT ![s] = Append(@, d)]
    BY <1>2, <1>3, <1>7, SegmentIsLogged
  <2>3. Sent(s, d, next)
    BY <1>2, <1>4, <1>5, <2>2 DEF Sent, next
  <2>4. QED
    BY <2>1, <2>3
<1>8. QED
  BY <1>2, <1>3, <1>5, <1>6, <1>7 DEF OnAir

LEMMA PacketIsSent ==
  ASSUME CrcFindsDamage, CInv, NEW s \in Senders, SendWhole(s)
  PROVE  ContextInv' /\ \E d \in Nat, next \in 0 .. (MaxSegments[s] - 1) : Sent(s, d, next)
<1> DEFINE d == sending[s].datagram + 1
<1>1. /\ sending \in [Senders -> [datagram : Nat, next : Nat]]
      /\ MaxStarted[s] \in Nat /\ MaxSegments[s] \in Nat \ {0}
  BY ChannelAssumption DEF CInv, ChannelTypeOK
<1>2. PICK plp \in Plps, n \in Lengths[s], intact \in BOOLEAN :
        /\ sending[s].next = 0
        /\ sending[s].datagram < MaxStarted[s]
        /\ sending' = [sending EXCEPT ![s].datagram = @ + 1]
        /\ CompletePacket(plp, Piece(s, d, 0, TRUE, n, intact))
        /\ Record
  BY DEF SendWhole
<1>3. d \in 1 .. MaxStarted[s] /\ d \in Nat /\ 0 \in 0 .. (MaxSegments[s] - 1)
  BY <1>1, <1>2
<1>4. sending' = [sending EXCEPT ![s] = [datagram |-> d, next |-> 0]]
  <2>1. [sending[s] EXCEPT !.datagram = @ + 1] = [datagram |-> d, next |-> 0]
    BY <1>1, <1>2
  <2>2. QED
    BY <1>2, <2>1
<1>5. d = sending[s].datagram + 1
  OBVIOUS
<1> HIDE DEF d
<1> DEFINE payload == Piece(s, d, 0, TRUE, n, intact)
<1>6. CompletePacket(plp, payload)
  BY <1>2
<1>7. OnAir(s, d, 0, TRUE, n, payload)
  BY DEF OnAir
<1> HIDE DEF payload
<1>8. ContextInv'
  <2>1. payload \in Payloads
    BY <1>3, <1>7, OnAirIsTyped
  <2>2. QED
    BY <1>6, <2>1, StepKeeps DEF Next, CInv
<1>9. Logged(s, d)
  BY <1>2, <1>3, <1>6, <1>7, PacketIsLogged
<1>10. Sent(s, d, 0)
  BY <1>2, <1>4, <1>5, <1>9 DEF Sent, Logged
<1>11. QED
  BY <1>3, <1>8, <1>10

(* A sender's step keeps what it has begun ahead of what the client has, and  *)
(* is a step of the promise.                                                  *)
LEMMA SentKeeps ==
  ASSUME CInv, NEW s \in Senders,
         NEW d \in Nat, NEW next \in 0 .. (MaxSegments[s] - 1), Sent(s, d, next)
  PROVE  ChannelTypeOK' /\ HandedBehind'
<1>1. /\ sending \in [Senders -> [datagram : Nat, next : Nat]]
      /\ given \in [Senders -> Seq(Nat)]
      /\ \A t \in Senders : sending[t].next < MaxSegments[t]
  BY DEF CInv, ChannelTypeOK
<1>a. next \in Nat /\ next < MaxSegments[s]
  BY ChannelAssumption
<1>2. /\ sending'[s] = [datagram |-> d, next |-> next]
      /\ \A t \in Senders : t # s => sending'[t] = sending[t]
      /\ sending' \in [Senders -> [datagram : Nat, next : Nat]]
      /\ \A t \in Senders : sending'[t].next < MaxSegments[t]
  BY <1>1, <1>a DEF Sent
<1>3. d \in Nat
  OBVIOUS
<1>4. CASE given' = given
  <2>1. Datagrams!LastHanded(s) <= sending[s].datagram
    BY DEF CInv, HandedBehind
  <2>2. sending[s].next # 0 => Datagrams!LastHanded(s) < sending[s].datagram
    BY DEF CInv, HandedBehind
  <2>3. Datagrams!LastHanded(s) \in Nat
    BY <1>1 DEF Datagrams!LastHanded
  <2>4. Datagrams!LastHanded(s) < d /\ Datagrams!LastHanded(s) <= d
    BY <1>1, <2>1, <2>2, <2>3 DEF Sent
  <2>5. \A t \in Senders : Datagrams!LastHanded(t)' = Datagrams!LastHanded(t)
    BY <1>4 DEF Datagrams!LastHanded
  <2>6. HandedBehind'
    BY <1>2, <2>4, <2>5 DEF CInv, HandedBehind
  <2>7. QED
    BY <1>1, <1>2, <1>4, <2>6 DEF ChannelTypeOK
<1>5. CASE next = 0 /\ given' = [given EXCEPT ![s] = Append(@, d)]
  <2>1. /\ given' \in [Senders -> Seq(Nat)]
        /\ given'[s] = Append(given[s], d)
        /\ \A t \in Senders : t # s => given'[t] = given[t]
    BY <1>1, <1>3, <1>5
  <2>2. Append(given[s], d) # <<>> /\ Append(given[s], d)[Len(Append(given[s], d))] = d
    BY <1>1, <1>3, AppendedIsLast
  <2>3. Datagrams!LastHanded(s)' = d
    BY <2>1, <2>2 DEF Datagrams!LastHanded
  <2>4. \A t \in Senders : t # s => Datagrams!LastHanded(t)' = Datagrams!LastHanded(t)
    BY <2>1 DEF Datagrams!LastHanded
  <2>5. HandedBehind'
    BY <1>2, <1>3, <1>5, <2>3, <2>4 DEF CInv, HandedBehind
  <2>6. QED
    BY <1>2, <2>1, <2>5 DEF ChannelTypeOK
<1>6. QED
  BY <1>4, <1>5 DEF Sent

LEMMA SentRefines ==
  ASSUME CInv, NEW s \in Senders,
         NEW d \in Nat, NEW next \in 0 .. (MaxSegments[s] - 1), Sent(s, d, next)
  PROVE  [Datagrams!Next]_(Datagrams!datagramVars)
<1> DEFINE begun == [t \in Senders |-> sending[t].datagram]
<1>1. sending \in [Senders -> [datagram : Nat, next : Nat]]
  BY DEF CInv, ChannelTypeOK
<1>2. begun' = [begun EXCEPT ![s] = d]
  BY <1>1 DEF Sent
<1>3. CASE sending[s].next = 0 /\ d = sending[s].datagram + 1
  <2>1. begun' = [begun EXCEPT ![s] = @ + 1] /\ d = begun[s] + 1
    BY <1>2, <1>3
  <2>2. \/ given' = given
        \/ given' = [given EXCEPT ![s] = Append(@, begun[s] + 1)]
    BY <2>1 DEF Sent
  <2>3. Datagrams!Start(s) \/ Datagrams!StartAndDeliver(s)
    BY <2>1, <2>2 DEF Datagrams!Start, Datagrams!StartAndDeliver
  <2>4. QED
    BY <2>3 DEF Datagrams!Next
<1>4. CASE sending[s].next # 0 /\ d = sending[s].datagram
  <2>1. begun' = begun /\ d = begun[s]
    BY <1>2, <1>4
  <2>2. CASE given' = given
    BY <2>1, <2>2 DEF Datagrams!datagramVars
  <2>3. CASE given' = [given EXCEPT ![s] = Append(@, d)]
    <3>1. Datagrams!LastHanded(s) < d
      BY <1>4 DEF CInv, HandedBehind
    <3>2. Datagrams!LastHanded(s) \in Nat /\ d \in Nat
      BY ChannelAssumption DEF CInv, ChannelTypeOK, Datagrams!LastHanded
    <3>3. d \in (Datagrams!LastHanded(s) + 1) .. begun[s]
      BY <2>1, <3>1, <3>2
    <3>4. Datagrams!Deliver(s)
      BY <2>1, <2>3, <3>3 DEF Datagrams!Deliver
    <3>5. QED
      BY <3>4 DEF Datagrams!Next
  <2>4. QED
    BY <2>2, <2>3 DEF Sent
<1>5. QED
  BY <1>3, <1>4 DEF Sent

LEMMA ChannelInitIsInv == ChannelInit => CInv /\ Datagrams!Init
<1> SUFFICES ASSUME ChannelInit PROVE CInv /\ Datagrams!Init
  OBVIOUS
<1>1. ContextInv
  BY InitIsInv DEF ChannelInit
<1>2. ChannelTypeOK
  BY ChannelAssumption DEF ChannelInit, ChannelTypeOK
<1>3. HandedBehind
  BY DEF ChannelInit, HandedBehind, Datagrams!LastHanded
<1>4. QED
  BY <1>1, <1>2, <1>3 DEF CInv, ChannelInit, Datagrams!Init

LEMMA ChannelStep ==
  ASSUME CrcFindsDamage, CInv, [ChannelNext]_channelVars
  PROVE  CInv' /\ [Datagrams!Next]_(Datagrams!datagramVars)
<1>1. CASE \E s \in Senders : SendSegment(s) \/ SendWhole(s)
  <2>1. PICK s \in Senders : SendSegment(s) \/ SendWhole(s)
    BY <1>1
  <2>2. ContextInv' /\ \E d \in Nat, next \in 0 .. (MaxSegments[s] - 1) : Sent(s, d, next)
    BY <2>1, SegmentIsSent, PacketIsSent
  <2>3. QED
    BY <2>2, SentKeeps, SentRefines DEF CInv
<1>2. CASE Interrupt
  <2>1. ContextInv'
    BY <1>2, StepKeeps DEF Interrupt, Next, CInv
  <2>2. UNCHANGED <<sending, given>>
    BY <1>2 DEF Interrupt
  <2>3. QED
    BY <2>1, <2>2
    DEF CInv, ChannelTypeOK, HandedBehind, Datagrams!LastHanded, Datagrams!datagramVars
<1>3. CASE UNCHANGED channelVars
  <2>1. ContextInv'
    BY <1>3, StepKeeps DEF channelVars, vars, CInv
  <2>2. QED
    BY <1>3, <2>1
    DEF channelVars, CInv, ChannelTypeOK, HandedBehind, Datagrams!LastHanded,
        Datagrams!datagramVars
<1>4. QED
  BY <1>1, <1>2, <1>3 DEF ChannelNext

(* However many segments the channel loses or damages, however few contexts   *)
(* there are, and wherever the sequence numbers wrap, what passes the CRC     *)
(* check of complete_reassembly (alp_demux.cc:416) reaches the client whole,  *)
(* in the order of its sub-stream and at most once.                           *)
THEOREM DatagramsImplemented ==
  ASSUME CrcFindsDamage
  PROVE  ChannelSpec => ImplementsDatagrams
<1>1. CInv /\ [ChannelNext]_channelVars => CInv' /\ [Datagrams!Next]_(Datagrams!datagramVars)
  BY ChannelStep
<1>2. QED
  BY ChannelInitIsInv, <1>1, PTL DEF ChannelSpec, ImplementsDatagrams, Datagrams!Spec

----------------------------------------------------------------------------
(* What the contexts gather.                                                *)

(* A piece that left before the next segment of its sub-stream.             *)
Left(p) ==
    /\ p.stream \in Senders /\ p.datagram \in Nat /\ p.index \in Nat
    /\ \/ p.datagram < sending[p.stream].datagram
       \/ /\ p.datagram = sending[p.stream].datagram
          /\ sending[p.stream].next = 0 \/ p.index < sending[p.stream].next

(* A buffer is a run of the pieces of one sub-stream.                       *)
Run(gathered, s) ==
    /\ \A k \in DOMAIN gathered :
         /\ Left(gathered[k]) /\ gathered[k].stream = s
         /\ Sequence(gathered[k].index) = k - 1
    /\ \A j, k \in DOMAIN gathered : j < k => Precedes(gathered[j], gathered[k])

(* A context in use has gathered one.  The invariant that makes it so is that *)
(* of the contexts, with the senders being ahead of all that was gathered.    *)
Gathered == \A i \in Slots :
    contexts[i].active => Run(contexts[i].buffer, contexts[i].sub_stream_id)

SendersTypeOK ==
    /\ sending \in [Senders -> [datagram : Nat, next : Nat]]
    /\ \A s \in Senders :
         /\ sending[s].next < MaxSegments[s]
         /\ sending[s].next # 0 => sending[s].datagram > 0

RunInv == ContextInv /\ SendersTypeOK /\ Gathered

(* A sender goes on: to the next segment, or to the next datagram.          *)
GoesOn(s, d, k) ==
    /\ \/ k = 0 /\ sending[s].next = 0 /\ d = sending[s].datagram + 1
       \/ k # 0 /\ k = sending[s].next /\ d = sending[s].datagram
    /\ \E next \in {0, k + 1} :
         /\ sending' = [sending EXCEPT ![s] = [datagram |-> d, next |-> next]]
         /\ next < MaxSegments[s]

LEMMA GoingOnKeepsTypes ==
  ASSUME SendersTypeOK, NEW s \in Senders, NEW d \in Nat, NEW k \in Nat, GoesOn(s, d, k)
  PROVE  SendersTypeOK'
<1>1. PICK next \in {0, k + 1} :
        /\ sending' = [sending EXCEPT ![s] = [datagram |-> d, next |-> next]]
        /\ next < MaxSegments[s]
  BY DEF GoesOn
<1>2. d > 0
  BY DEF GoesOn, SendersTypeOK
<1>3. QED
  BY <1>1, <1>2 DEF SendersTypeOK

(* What had left has left.                                                  *)
LEMMA LeftBefore ==
  ASSUME SendersTypeOK, NEW s \in Senders, NEW d \in Nat, NEW k \in Nat, GoesOn(s, d, k),
         NEW p, Left(p)
  PROVE  /\ Left(p)'
         /\ p.stream = s =>
              p.datagram < d \/ (p.datagram = d /\ p.index < k)
<1>1. PICK next \in {0, k + 1} :
        /\ sending' = [sending EXCEPT ![s] = [datagram |-> d, next |-> next]]
        /\ next < MaxSegments[s]
  BY DEF GoesOn
<1>2. /\ sending'[s] = [datagram |-> d, next |-> next]
      /\ \A t \in Senders : t # s => sending'[t] = sending[t]
  BY <1>1 DEF SendersTypeOK
<1>3. CASE p.stream = s
  <2>1. p.datagram < d \/ (p.datagram = d /\ p.index < k)
    <3>1. sending[s].datagram \in Nat /\ sending[s].next \in Nat
      BY DEF SendersTypeOK
    <3>2. /\ p.datagram \in Nat /\ p.index \in Nat
          /\ \/ p.datagram < sending[s].datagram
             \/ /\ p.datagram = sending[s].datagram
                /\ sending[s].next = 0 \/ p.index < sending[s].next
      BY <1>3 DEF Left
    <3>3. \/ k = 0 /\ d = sending[s].datagram + 1
          \/ k # 0 /\ k = sending[s].next /\ d = sending[s].datagram
      BY DEF GoesOn
    <3>4. QED
      BY <3>1, <3>2, <3>3
  <2>2. QED
    BY <1>2, <1>3, <2>1 DEF Left
<1>4. CASE p.stream # s
  BY <1>2, <1>4 DEF Left
<1>5. QED
  BY <1>3, <1>4

(* The piece that leaves has left.                                          *)
LEMMA LeftNow ==
  ASSUME SendersTypeOK, NEW s \in Senders, NEW d \in Nat, NEW k \in Nat, GoesOn(s, d, k),
         NEW p, p.stream = s, p.datagram = d, p.index = k
  PROVE  Left(p)'
<1>1. PICK next \in {0, k + 1} :
        sending' = [sending EXCEPT ![s] = [datagram |-> d, next |-> next]]
  BY DEF GoesOn
<1>2. sending'[s] = [datagram |-> d, next |-> next]
  BY <1>1 DEF SendersTypeOK
<1>3. QED
  BY <1>2 DEF Left

(* A run goes on with the piece that leaves, if its number is the next.      *)
LEMMA RunGoesOn ==
  ASSUME SendersTypeOK, NEW s \in Senders, NEW d \in Nat, NEW k \in Nat, GoesOn(s, d, k),
         NEW gathered \in Seq(Payloads), Run(gathered, s), NEW p \in Payloads,
         p.stream = s, p.datagram = d, p.index = k, Sequence(k) = Len(gathered)
  PROVE  Run(Append(gathered, p), s)'
<1> DEFINE longer == Append(gathered, p)
<1>1. /\ DOMAIN longer = 1 .. (Len(gathered) + 1)
      /\ DOMAIN gathered = 1 .. Len(gathered) /\ Len(gathered) \in Nat
      /\ \A i \in 1 .. Len(gathered) : longer[i] = gathered[i]
      /\ longer[Len(gathered) + 1] = p
  OBVIOUS
<1> HIDE DEF longer
<1>2. \A i \in 1 .. Len(gathered) :
        /\ Left(gathered[i])' /\ gathered[i].stream = s
        /\ Sequence(gathered[i].index) = i - 1
        /\ Precedes(gathered[i], p)
  BY <1>1, LeftBefore DEF Run, Precedes
<1>3. Left(p)'
  BY LeftNow
<1>4. \A i \in DOMAIN longer :
        /\ Left(longer[i])' /\ longer[i].stream = s
        /\ Sequence(longer[i].index) = i - 1
  <2>1. SUFFICES ASSUME NEW i \in DOMAIN longer
                 PROVE  /\ Left(longer[i])' /\ longer[i].stream = s
                        /\ Sequence(longer[i].index) = i - 1
    OBVIOUS
  <2>2. CASE i \in 1 .. Len(gathered)
    BY <1>1, <1>2, <2>2
  <2>3. CASE i = Len(gathered) + 1
    BY <1>1, <1>3, <2>3
  <2>4. QED
    BY <1>1, <2>1, <2>2, <2>3
<1>5. \A j, i \in DOMAIN longer : j < i => Precedes(longer[j], longer[i])
  <2>1. SUFFICES ASSUME NEW j \in DOMAIN longer, NEW i \in DOMAIN longer, j < i
                 PROVE  Precedes(longer[j], longer[i])
    OBVIOUS
  <2>2. j \in 1 .. Len(gathered) /\ longer[j] = gathered[j]
    BY <1>1, <2>1
  <2>3. CASE i \in 1 .. Len(gathered)
    BY <1>1, <2>1, <2>2, <2>3 DEF Run
  <2>4. CASE i = Len(gathered) + 1
    BY <1>1, <1>2, <2>2, <2>4
  <2>5. QED
    BY <1>1, <2>1, <2>3, <2>4
<1>6. QED
  BY <1>4, <1>5 DEF Run, longer

(* Of the contexts in use after a segment one may have got it, in its place. *)
LEMMA OneIsExtended ==
  ASSUME ContextInv, NEW plp \in Plps, NEW seg \in Segments, Segment(plp, seg),
         NEW i \in Slots, contexts'[i].active
  PROVE  \/ contexts'[i] = contexts[i]
         \/ /\ Candidates(seg) # {} /\ Fits(seg)
            /\ contexts'[i] = Extended(seg)
<1>1. CASE Refuse(seg)
  BY <1>1 DEF Refuse
<1>2. CASE Candidates(seg) # {}
  <2>1. contexts \in [Slots -> ContextType] /\ Chosen(seg) \in Slots
    BY <1>2, ChosenIsCandidate DEF ContextInv, TypeOK
  <2>2. CASE i # Chosen(seg)
    BY <1>2, <2>1, <2>2 DEF Segment, Refuse, Abandon, Extend, CompleteEmpty, Complete
  <2>3. CASE i = Chosen(seg)
    <3>1. ~ Abandon(seg)
      BY <2>1, <2>3, <1>2, OpenedIsTyped, ReleasedIsTyped DEF Abandon
    <3>2. ~ Complete(plp, seg)
      BY <2>1, <2>3, <1>2, ExtendedIsInStep, ReleasedIsTyped DEF Complete
    <3>3. QED
      BY <1>2, <2>1, <2>3, <3>1, <3>2 DEF Segment, Refuse, Extend, CompleteEmpty
  <2>4. QED
    BY <2>2, <2>3
<1>3. QED
  BY <1>1, <1>2 DEF Segment, Abandon, Extend, CompleteEmpty, Complete

(* The context a segment is added to holds a run of its sub-stream so far.   *)
LEMMA OpenedIsRun ==
  ASSUME ContextInv, Gathered, NEW seg \in Segments, Candidates(seg) # {}
  PROVE  Run(Opened(seg).buffer, seg.sub_stream_id)
<1>1. CASE seg.sequence = 0
  BY <1>1 DEF Opened, Fresh, Context, Run
<1>2. CASE seg.sequence # 0
  <2>1. Chosen(seg) \in Slots /\ Opened(seg) = contexts[Chosen(seg)]
    BY <1>2, ChosenIsCandidate DEF Opened
  <2>2. Opened(seg).active /\ Opened(seg).sub_stream_id = seg.sub_stream_id
    BY OpenedIsTyped
  <2>3. QED
    BY <2>1, <2>2 DEF Gathered
<1>3. QED
  BY <1>1, <1>2

(* A run stays one while the senders go on.                                 *)
LEMMA RunStays ==
  ASSUME SendersTypeOK, NEW s \in Senders, NEW d \in Nat, NEW k \in Nat, GoesOn(s, d, k),
         NEW gathered, NEW t, Run(gathered, t)
  PROVE  Run(gathered, t)'
BY LeftBefore DEF Run

LEMMA SegmentKeepsRuns ==
  ASSUME RunInv, NEW plp \in Plps,
         NEW s \in Senders, NEW d \in 1 .. MaxStarted[s],
         NEW k \in 0 .. (MaxSegments[s] - 1), GoesOn(s, d, k),
         NEW final \in BOOLEAN, NEW n \in Lengths[s], NEW intact \in BOOLEAN,
         Segment(plp, Header(s, k, final, Piece(s, d, k, final, n, intact)))
  PROVE  Gathered'
<1> DEFINE piece == Piece(s, d, k, final, n, intact)
           seg == Header(s, k, final, piece)
<1>1. piece \in Payloads /\ seg \in Segments
  BY OnAirIsTyped DEF OnAir
<1>2. d \in Nat /\ k \in Nat
  BY ChannelAssumption
<1>3. /\ seg.sub_stream_id = s /\ seg.sequence = Sequence(k) /\ seg.payload = piece
      /\ piece.stream = s /\ piece.datagram = d /\ piece.index = k
  BY DEF Header, Piece
<1>4. Segment(plp, seg)
  OBVIOUS
<1> HIDE DEF piece, seg
<1> SUFFICES ASSUME NEW i \in Slots, contexts'[i].active
             PROVE  Run(contexts[i].buffer, contexts[i].sub_stream_id)'
  BY DEF Gathered
<1>5. CASE contexts'[i] = contexts[i]
  <2>1. PICK gathered, t : gathered = contexts'[i].buffer /\ t = contexts'[i].sub_stream_id
    OBVIOUS
  <2>2. Run(gathered, t)
    BY <1>5, <2>1 DEF RunInv, Gathered
  <2>3. Run(gathered, t)'
    BY <1>2, <2>2, RunStays DEF RunInv
  <2>4. QED
    BY <2>1, <2>3
<1>6. CASE /\ Candidates(seg) # {} /\ Fits(seg)
           /\ contexts'[i] = Extended(seg)
  <2>1. /\ Opened(seg) \in ContextType /\ Opened(seg).sub_stream_id = s
        /\ Opened(seg).expected = Len(Opened(seg).buffer)
    BY <1>1, <1>3, <1>6, OpenedIsTyped DEF RunInv
  <2>2. Run(Opened(seg).buffer, s)
    BY <1>1, <1>3, <1>6, OpenedIsRun DEF RunInv
  <2>3. Sequence(k) = Len(Opened(seg).buffer)
    BY <1>3, <1>6, <2>1 DEF Fits
  <2>4. PICK gathered \in Seq(Payloads) : gathered = Opened(seg).buffer
    BY <2>1 DEF ContextType
  <2>5. Run(Append(gathered, piece), s)'
    BY <1>1, <1>2, <1>3, <2>2, <2>3, <2>4, RunGoesOn DEF RunInv
  <2>6. /\ contexts'[i].buffer = Append(gathered, piece)
        /\ contexts'[i].sub_stream_id = s
    BY <1>3, <1>6, <2>1, <2>4 DEF Extended, Context
  <2>7. QED
    BY <2>5, <2>6
<1>7. QED
  BY <1>1, <1>4, <1>5, <1>6, OneIsExtended DEF RunInv

(* The channel's steps, one by one. *)
LEMMA SendSegmentKeepsRuns ==
  ASSUME RunInv, NEW s \in Senders, SendSegment(s)
  PROVE  RunInv'
<1> DEFINE k == sending[s].next
           d == IF k = 0 THEN sending[s].datagram + 1 ELSE sending[s].datagram
<1>1. PICK final \in BOOLEAN, n \in Lengths[s] :
        /\ d <= MaxStarted[s]
        /\ k + 1 = MaxSegments[s] => final
        /\ sending' = [sending EXCEPT ![s] = [datagram |-> d,
                                              next |-> IF final THEN 0 ELSE k + 1]]
        /\ \/ UNCHANGED contexts /\ delivered' = Nothing
           \/ \E plp \in Plps, intact \in BOOLEAN :
                Segment(plp, Header(s, k, final, Piece(s, d, k, final, n, intact)))
  BY DEF SendSegment
<1>2. /\ sending[s] \in [datagram : Nat, next : Nat] /\ k < MaxSegments[s]
      /\ k # 0 => sending[s].datagram > 0
      /\ MaxStarted[s] \in Nat /\ MaxSegments[s] \in Nat \ {0}
  BY ChannelAssumption DEF RunInv, SendersTypeOK
<1>3. d \in 1 .. MaxStarted[s] /\ k \in 0 .. (MaxSegments[s] - 1) /\ d \in Nat /\ k \in Nat
  BY <1>1, <1>2
<1>4. /\ \/ k = 0 /\ sending[s].next = 0 /\ d = sending[s].datagram + 1
         \/ k # 0 /\ k = sending[s].next /\ d = sending[s].datagram
  OBVIOUS
<1> HIDE DEF k, d
<1>5. GoesOn(s, d, k)
  <2>1. (IF final THEN 0 ELSE k + 1) < MaxSegments[s]
    BY <1>1, <1>2, <1>3
  <2>2. (IF final THEN 0 ELSE k + 1) \in {0, k + 1}
    OBVIOUS
  <2>3. QED
    BY <1>1, <1>4, <2>1, <2>2 DEF GoesOn
<1>6. SendersTypeOK'
  BY <1>3, <1>5, GoingOnKeepsTypes DEF RunInv
<1>7. CASE UNCHANGED contexts /\ delivered' = Nothing
  <2>1. ContextInv'
    BY <1>7 DEF RunInv, ContextInv, TypeOK, OneContextPerSubStream, InStepAll, InStep
  <2>2. ASSUME NEW i \in Slots, contexts'[i].active
        PROVE  Run(contexts[i].buffer, contexts[i].sub_stream_id)'
    <3>1. PICK gathered, t : gathered = contexts'[i].buffer /\ t = contexts'[i].sub_stream_id
      OBVIOUS
    <3>2. Run(gathered, t)
      BY <1>7, <2>2, <3>1 DEF RunInv, Gathered
    <3>3. QED
      BY <1>3, <1>5, <3>1, <3>2, RunStays DEF RunInv
  <2>3. QED
    BY <1>6, <2>1, <2>2 DEF RunInv, Gathered
<1>8. ASSUME NEW plp \in Plps, NEW intact \in BOOLEAN,
             Segment(plp, Header(s, k, final, Piece(s, d, k, final, n, intact)))
      PROVE  RunInv'
  <2>1. Gathered'
    BY <1>3, <1>5, <1>8, SegmentKeepsRuns
  <2>2. Header(s, k, final, Piece(s, d, k, final, n, intact)) \in Segments
    BY <1>3, OnAirIsTyped DEF OnAir
  <2>3. ContextInv'
    BY <1>8, <2>2, SegmentKeeps DEF RunInv
  <2>4. QED
    BY <1>6, <2>1, <2>3 DEF RunInv
<1>9. QED
  BY <1>1, <1>7, <1>8

LEMMA SendWholeKeepsRuns ==
  ASSUME RunInv, NEW s \in Senders, SendWhole(s)
  PROVE  RunInv'
<1> DEFINE d == sending[s].datagram + 1
<1>1. PICK plp \in Plps, n \in Lengths[s], intact \in BOOLEAN :
        /\ sending[s].next = 0 /\ sending[s].datagram < MaxStarted[s]
        /\ sending' = [sending EXCEPT ![s].datagram = @ + 1]
        /\ CompletePacket(plp, Piece(s, d, 0, TRUE, n, intact))
  BY DEF SendWhole
<1>2. /\ sending[s] \in [datagram : Nat, next : Nat]
      /\ MaxStarted[s] \in Nat /\ MaxSegments[s] \in Nat \ {0}
  BY ChannelAssumption DEF RunInv, SendersTypeOK
<1>3. d \in 1 .. MaxStarted[s] /\ 0 \in 0 .. (MaxSegments[s] - 1) /\ d \in Nat
  BY <1>1, <1>2
<1>4. GoesOn(s, d, 0)
  <2>1. [sending[s] EXCEPT !.datagram = @ + 1] = [datagram |-> d, next |-> 0]
    BY <1>1, <1>2
  <2>2. sending' = [sending EXCEPT ![s] = [datagram |-> d, next |-> 0]]
    BY <1>1, <2>1
  <2>3. 0 < MaxSegments[s] /\ 0 \in {0, 0 + 1}
    BY <1>2
  <2>4. QED
    BY <1>1, <2>2, <2>3 DEF GoesOn
<1> HIDE DEF d
<1>5. SendersTypeOK'
  BY <1>3, <1>4, GoingOnKeepsTypes DEF RunInv
<1>6. ContextInv'
  <2>1. Piece(s, d, 0, TRUE, n, intact) \in Payloads
    BY <1>3, OnAirIsTyped DEF OnAir
  <2>2. QED
    BY <1>1, <2>1, StepKeeps DEF Next, RunInv
<1>7. contexts' = contexts
  BY <1>1 DEF CompletePacket
<1>8. ASSUME NEW i \in Slots, contexts'[i].active
      PROVE  Run(contexts[i].buffer, contexts[i].sub_stream_id)'
  <2>1. PICK gathered, t : gathered = contexts'[i].buffer /\ t = contexts'[i].sub_stream_id
    OBVIOUS
  <2>2. Run(gathered, t)
    BY <1>7, <1>8, <2>1 DEF RunInv, Gathered
  <2>3. QED
    BY <1>3, <1>4, <2>1, <2>2, RunStays DEF RunInv
<1>9. QED
  BY <1>5, <1>6, <1>8 DEF RunInv, Gathered

(* flush() and reset() only release contexts. *)
LEMMA InterruptKeepsRuns ==
  ASSUME RunInv, Interrupt \/ UNCHANGED channelVars
  PROVE  RunInv'
<1>1. UNCHANGED sending
  BY DEF Interrupt, channelVars
<1>2. ContextInv'
  BY StepKeeps DEF RunInv, Interrupt, Next, channelVars, vars
<1>3. \A i \in Slots : contexts'[i].active => contexts'[i] = contexts[i]
  BY DEF Interrupt, Flush, Reset, Released, Context, channelVars
<1>4. SendersTypeOK'
  BY <1>1 DEF RunInv, SendersTypeOK
<1>5. Gathered'
  BY <1>1, <1>3 DEF RunInv, Gathered, Run, Left
<1>6. QED
  BY <1>2, <1>4, <1>5 DEF RunInv

(* Whatever was lost, damaged, flushed, abandoned or restarted before: a      *)
(* context in use holds segments of its own sub-stream, in the order they     *)
(* were sent and with the numbers 0, 1, 2, ..., and never more bytes than     *)
(* max_datagram_size (the checks of alp_demux.cc:324 and :332).               *)
THEOREM InSequence == ChannelSpec => []SegmentsInStep
<1>1. ChannelInit => RunInv
  <2> SUFFICES ASSUME ChannelInit PROVE RunInv
    OBVIOUS
  <2>1. ContextInv
    BY InitIsInv DEF ChannelInit
  <2>2. SendersTypeOK
    BY ChannelAssumption DEF ChannelInit, SendersTypeOK
  <2>3. \A i \in Slots : ~ contexts[i].active
    BY DEF ChannelInit, Init, Released, Context
  <2>4. QED
    BY <2>1, <2>2, <2>3 DEF RunInv, Gathered
<1>2. RunInv /\ [ChannelNext]_channelVars => RunInv'
  BY SendSegmentKeepsRuns, SendWholeKeepsRuns, InterruptKeepsRuns DEF ChannelNext
<1>3. RunInv => SegmentsInStep
  <2> SUFFICES ASSUME RunInv, NEW i \in Slots, contexts[i].active
               PROVE  /\ contexts[i].buffer # <<>> /\ contexts[i].size <= MaxDatagram
                      /\ Run(contexts[i].buffer, contexts[i].sub_stream_id)
    BY DEF SegmentsInStep, Run
  <2>1. InStep(contexts[i]) /\ contexts[i].buffer \in Seq(Payloads)
    BY DEF RunInv, ContextInv, InStepAll, TypeOK, ContextType
  <2>2. QED
    BY <2>1 DEF InStep, RunInv, Gathered
<1>4. QED
  BY <1>1, <1>2, <1>3, PTL DEF ChannelSpec

-----------------------------------------------------------------------------
(* Services *)
(* CatalogTypeOK and Compact are inductive together. *)
CatalogInv == CatalogTypeOK /\ Compact

(* First finds the least element of a non-empty set of slots. *)
LEMMA FirstOf ==
  ASSUME NEW S \in SUBSET Nat, S # {}
  PROVE  First(S) \in S /\ \A j \in S : First(S) <= j
BY Least DEF First

(* A new service goes right behind the last one. *)
LEMMA NewSlot ==
  ASSUME CatalogInv, NEW id \in Ids, EntriesOf(id) = {}, EntriesFor(id) # {}
  PROVE  First(EntriesFor(id)) = count + 1 /\ count + 1 \in Entries
<1>1. EntriesFor(id) = (count + 1) .. MaxServices
  BY CatalogAssumption DEF CatalogInv, CatalogTypeOK, Compact, EntriesFor, Entries
<1>2. First(EntriesFor(id)) \in EntriesFor(id)
      /\ \A j \in EntriesFor(id) : First(EntriesFor(id)) <= j
  <2>1. EntriesFor(id) \in SUBSET Nat
    BY <1>1, CatalogAssumption DEF CatalogInv, CatalogTypeOK
  <2>2. QED
    BY <2>1, FirstOf
<1>3. count + 1 \in EntriesFor(id)
  BY <1>1, CatalogAssumption DEF CatalogInv, CatalogTypeOK
<1>4. First(EntriesFor(id)) = count + 1
  <2> DEFINE k == First(EntriesFor(id))
  <2>1. k \in (count + 1) .. MaxServices /\ k <= count + 1
    BY <1>1, <1>2, <1>3
  <2> HIDE DEF k
  <2>2. k = count + 1
    BY <2>1, CatalogAssumption DEF CatalogInv, CatalogTypeOK
  <2>3. QED
    BY <2>2 DEF k
<1>5. QED
  BY <1>1, <1>3, <1>4, CatalogAssumption DEF CatalogInv, CatalogTypeOK, Entries

(* A known service keeps its entry. *)
LEMMA KnownSlot ==
  ASSUME CatalogInv, NEW id \in Ids, NEW S, S \subseteq EntriesOf(id), S # {}
  PROVE  /\ First(S) \in S
         /\ First(S) \in 1 .. count
         /\ services[First(S)].id = id
<1>1. S \in SUBSET Nat
  BY DEF EntriesOf, Used, Entries
<1>2. First(S) \in S
  BY <1>1, FirstOf
<1>3. QED
  BY <1>2 DEF CatalogInv, Compact, EntriesOf

LEMMA InitIInv == CatalogInit => CatalogInv
<1> SUFFICES ASSUME CatalogInit PROVE CatalogInv
  OBVIOUS
<1>1. CatalogTypeOK
  BY CatalogAssumption DEF CatalogInit, CatalogTypeOK
<1>2. Used = {}
  BY DEF CatalogInit, Used, Empty
<1>3. QED
  BY <1>1, <1>2 DEF CatalogInit, CatalogInv, Compact

LEMMA UpdateKeepsIInv ==
  ASSUME CatalogInv, NEW s \in Service, UpdateService(s)
  PROVE  CatalogInv'
<1> DEFINE k == First(EntriesFor(s.id))
<1> s.id \in Ids /\ s.id # 0 /\ EntriesFor(s.id) # {}
  BY DEF Service, UpdateService, Accepts
<1>1. CASE EntriesOf(s.id) = {}
  <2>1. k = count + 1 /\ k \in Entries
    BY <1>1, NewSlot
  <2> HIDE DEF k
  <2>2. /\ services' = [services EXCEPT ![k] = s]
        /\ count' = count + 1
    BY <1>1 DEF UpdateService, k
  <2>3. CatalogTypeOK'
    BY <2>1, <2>2, CatalogAssumption DEF CatalogInv, CatalogTypeOK, Entries
  <2>4. Used' = Used \cup {k}
    BY <2>1, <2>2 DEF CatalogInv, CatalogTypeOK, Used
  <2>5. Used' = 1 .. count'
    BY <2>1, <2>2, <2>4 DEF CatalogInv, CatalogTypeOK, Compact
  <2>6. \A i \in Used : services'[i] = services[i] /\ services[i].id # s.id
    BY <1>1, <2>1, <2>2 DEF CatalogInv, CatalogTypeOK, Compact, Used, EntriesOf
  <2>7. services'[k] = s
    BY <2>1, <2>2 DEF CatalogInv, CatalogTypeOK
  <2>8. QED
    BY <2>3, <2>4, <2>5, <2>6, <2>7 DEF CatalogInv, Compact
<1>2. CASE EntriesOf(s.id) # {}
  <2>1. k \in 1 .. count /\ services[k].id = s.id
    BY <1>2, KnownSlot DEF EntriesFor
  <2> HIDE DEF k
  <2>2. services' = [services EXCEPT ![k] = s] /\ count' = count
    BY <1>2 DEF UpdateService, k
  <2>3. k \in Entries
    BY <2>1, CatalogAssumption DEF CatalogInv, CatalogTypeOK, Entries
  <2>4. CatalogTypeOK'
    BY <2>2, <2>3 DEF CatalogInv, CatalogTypeOK
  <2>5. \A i \in Entries : services'[i].id = services[i].id
    BY <2>1, <2>2, <2>3 DEF CatalogInv, CatalogTypeOK
  <2>6. Used' = Used
    BY <2>5 DEF Used
  <2>7. QED
    BY <2>2, <2>4, <2>5, <2>6 DEF CatalogInv, Compact, Used
<1>3. QED
  BY <1>1, <1>2

LEMMA RemoveKeepsIInv ==
  ASSUME CatalogInv, NEW id \in Ids, RemoveService(id)
  PROVE  CatalogInv'
<1> DEFINE k == First(EntriesOf(id) \cap 1 .. count)
<1>1. k \in 1 .. count /\ services[k].id = id
  BY KnownSlot DEF RemoveService
<1> HIDE DEF k
<1>2. /\ services' = [services EXCEPT ![k] = services[count], ![count] = Empty]
      /\ count' = count - 1
  BY DEF RemoveService, k
<1>3. k \in Entries /\ count \in Entries
  BY <1>1, CatalogAssumption DEF CatalogInv, CatalogTypeOK, Entries
<1>4. CatalogTypeOK'
  BY <1>1, <1>2, <1>3, CatalogAssumption DEF CatalogInv, CatalogTypeOK
<1>5. services'[count].id = 0
  BY <1>2, <1>3 DEF CatalogInv, CatalogTypeOK, Empty
<1>6. \A i \in Entries \ {count} :
        services'[i] = IF i = k THEN services[count] ELSE services[i]
  BY <1>2, <1>3 DEF CatalogInv, CatalogTypeOK
<1>7. \A i \in Entries : services[i].id # 0 <=> i \in 1 .. count
  BY DEF CatalogInv, Compact, Used
<1>8. Used' = Used \ {count}
  <2>1. \A i \in Entries \ {count} : services'[i].id # 0 <=> services[i].id # 0
    BY <1>1, <1>3, <1>6, <1>7
  <2>2. QED
    BY <1>3, <1>5, <2>1 DEF Used
<1>9. Used' = 1 .. count'
  BY <1>1, <1>2, <1>8 DEF CatalogInv, CatalogTypeOK, Compact
<1>10. \A i, j \in Used' : services'[i].id = services'[j].id => i = j
  BY <1>3, <1>6, <1>8 DEF CatalogInv, Compact, Used
<1>11. QED
  BY <1>4, <1>9, <1>10 DEF CatalogInv, Compact

(* Every operation keeps the catalog compact. *)
LEMMA NextKeepsIInv == CatalogInv /\ [CatalogNext]_catalogVars => CatalogInv'
<1> SUFFICES ASSUME CatalogInv, [CatalogNext]_catalogVars PROVE CatalogInv'
  OBVIOUS
<1>1. CASE \E s \in Service : UpdateService(s)
  BY <1>1, UpdateKeepsIInv
<1>2. CASE \E id \in Ids : RemoveService(id)
  BY <1>2, RemoveKeepsIInv
<1>3. CASE Clear
  <2>1. CatalogTypeOK'
    BY <1>3, CatalogAssumption DEF Clear, CatalogTypeOK
  <2>2. Used' = {}
    BY <1>3 DEF Clear, Used, Empty
  <2>3. QED
    BY <1>3, <2>1, <2>2 DEF Clear, CatalogInv, Compact
<1>4. CASE UNCHANGED catalogVars
  BY <1>4 DEF catalogVars, CatalogInv, CatalogTypeOK, Compact, Used
<1>5. QED
  BY <1>1, <1>2, <1>3, <1>4 DEF CatalogNext, RefuseService

(* The services are the first num_services_ entries of the array and no id  *)
(* is there twice, after every sequence of the operations of                *)
(* service_catalog.cc and for every MAX_SERVICES.                           *)
THEOREM CatalogCompact == CatalogSpec => [](CatalogTypeOK /\ Compact)
<1>1. CatalogInv => CatalogTypeOK /\ Compact
  BY DEF CatalogInv
<1>2. QED
  BY InitIInv, NextKeepsIInv, <1>1, PTL DEF CatalogSpec

-----------------------------------------------------------------------------
(* The discovery: the parser's thread, the application's reset(), and the     *)
(* guide behind its queue of messages.                                        *)

Listings == {ListingOf(s, n) : s \in [Entries -> Service \cup {Empty}], n \in Nat}

DiscoveryTypes ==
  /\ services \in [Entries -> Service \cup {Empty}]
  /\ count \in Nat /\ number \in Nat
  /\ slt \in Seq(Service) /\ pending \in Seq(Service)
  /\ pc \in {"idle", "find", "test", "copy", "count", "notify"}
  /\ pc = "idle" <=> pending = <<>>
  /\ pc \in {"test", "copy"} => slot \in Entries
  /\ isNew \in BOOLEAN /\ removed \in BOOLEAN
  /\ clearing \in {"no", "entries", "number"}
  /\ overlap \in {"no", "yes", "mends"}
  /\ inbox \in Seq(Listings)

(* A reset() that no table has met so far finds the parser idle all along.    *)
ResetAlone ==
  /\ clearing = "no" => overlap # "mends"
  /\ clearing # "no" /\ overlap # "yes" => pc = "idle" /\ slt = <<>>
  /\ clearing = "number" /\ overlap # "yes" => services = [i \in Entries |-> Empty]

(* The parser alone at work. *)
Undisturbed == clearing = "no" /\ overlap = "no"

(* Compact, for a number of services that may not be counted yet. *)
CompactTo(n) ==
  /\ n \in 0 .. MaxServices
  /\ Used = 1 .. n
  /\ \A i, j \in Used : services[i].id = services[j].id => i = j

(* How many services of the table have been entered. *)
Done ==
  IF pc \in {"count", "notify"} THEN Len(slt) - Len(pending) + 1
  ELSE Len(slt) - Len(pending)

Entered(k) ==
  \/ slt[k].id = 0
  \/ \E j \in k + 1 .. Done : slt[j].id = slt[k].id
  \/ \E i \in Used : services[i] = slt[k]
  \/ count = MaxServices

LastSent == IF inbox = <<>> THEN guide ELSE inbox[Len(inbox)]

SlotFits ==
  /\ Head(pending).id # 0
  /\ EntriesFor(Head(pending).id) # {}
  /\ slot = First(EntriesFor(Head(pending).id))
  /\ pc = "copy" => isNew = (slot \notin Used)

CatalogInTurn ==
  /\ pc # "count" => CompactTo(count)
  /\ pc = "count" => CompactTo(count + 1) /\ number = count

TableInTurn ==
  /\ pc # "idle" => ~ removed
  /\ Len(pending) <= Len(slt)
  /\ \A k \in 1 .. Len(pending) : pending[k] = slt[Len(slt) - Len(pending) + k]
  /\ ~ removed => \A k \in 1 .. Done : Entered(k)

InTurn ==
  /\ CatalogInTurn
  /\ TableInTurn
  /\ pc \in {"test", "copy"} => SlotFits
  /\ pc \notin {"count", "notify"} => LastSent = Listing \/ count = 0

(* What holds between any two steps of the two threads. *)
DInv == DiscoveryTypes /\ ResetAlone /\ (Undisturbed => InTurn)

-----------------------------------------------------------------------------

LEMMA CompactMeansIInv ==
  ASSUME DiscoveryTypes, CompactTo(count)
  PROVE  CatalogInv
BY DEF DiscoveryTypes, CompactTo, CatalogInv, CatalogTypeOK, Compact

LEMMA IInvMeansCompact == CatalogInv => CompactTo(count)
BY DEF CompactTo, CatalogInv, CatalogTypeOK, Compact

(* What is said of the catalog does not change while the catalog does not. *)
LEMMA SameCatalog ==
  ASSUME UNCHANGED catalogVars
  PROVE  /\ Used' = Used
         /\ Listing' = Listing
         /\ \A id : EntriesFor(id)' = EntriesFor(id)
         /\ \A n : CompactTo(n)' <=> CompactTo(n)
BY DEF catalogVars, Used, Listing, EntriesFor, EntriesOf, CompactTo

LEMMA SameEntered ==
  ASSUME UNCHANGED <<catalogVars, slt>>, Done' = Done, NEW k
  PROVE  Entered(k)' <=> Entered(k)
BY SameCatalog DEF catalogVars, Entered

LEMMA SameSlot ==
  ASSUME UNCHANGED <<catalogVars, pending, slot, isNew, pc>>
  PROVE  SlotFits' <=> SlotFits
BY SameCatalog DEF SlotFits

(* The queue loses its first message only when the guide shows it. *)
LEMMA TakenIsShown ==
  ASSUME DiscoveryTypes, HandleCatalog
  PROVE  LastSent' = LastSent /\ inbox' \in Seq(Listings)
<1>1. /\ inbox \in Seq(Listings) /\ inbox # <<>>
      /\ inbox' = Tail(inbox) /\ guide' = Head(inbox)
  BY DEF DiscoveryTypes, HandleCatalog
<1>2. inbox' \in Seq(Listings) /\ Len(inbox') = Len(inbox) - 1
      /\ \A k \in 1 .. Len(inbox') : inbox'[k] = inbox[k + 1]
  BY <1>1
<1>3. inbox' = <<>> <=> Len(inbox') = 0
  BY <1>2, EmptySeq
<1>4. CASE Len(inbox) = 1
  BY <1>1, <1>2, <1>3, <1>4 DEF LastSent
<1>5. CASE Len(inbox) # 1
  <2>1. Len(inbox') \in 1 .. Len(inbox')
    BY <1>1, <1>2, <1>3, <1>5
  <2>2. inbox'[Len(inbox')] = inbox[Len(inbox)]
    BY <1>1, <1>2, <2>1
  <2>3. QED
    BY <1>1, <1>2, <1>3, <1>5, <2>2 DEF LastSent
<1>6. QED
  BY <1>2, <1>4, <1>5

LEMMA SentIsLast ==
  ASSUME DiscoveryTypes, NEW message \in Listings, inbox' = Append(inbox, message)
  PROVE  LastSent' = message /\ inbox' \in Seq(Listings)
BY DEF DiscoveryTypes, LastSent

LEMMA ListingIsTyped ==
  ASSUME DiscoveryTypes
  PROVE  Listing \in Listings
BY DEF DiscoveryTypes, Listing, Listings

LEMMA DiscoveryInitIsInv == DiscoveryInit => DInv
<1> SUFFICES ASSUME DiscoveryInit PROVE DInv
  OBVIOUS
<1>1. CatalogInv
  BY InitIInv DEF DiscoveryInit
<1>2. CompactTo(count)
  BY <1>1, IInvMeansCompact
<1>3. DiscoveryTypes
  <2>1. isNew \in BOOLEAN /\ removed \in BOOLEAN
    BY Zenon DEF DiscoveryInit
  <2>2. services \in [Entries -> Service \cup {Empty}] /\ count \in Nat
    BY <1>1, CatalogAssumption DEF CatalogInv, CatalogTypeOK
  <2>3. <<>> \in Seq(Service) /\ <<>> \in Seq(Listings)
    BY EmptySeq
  <2>4. QED
    BY <2>1, <2>2, <2>3 DEF DiscoveryInit, DiscoveryTypes
<1>4. InTurn
  BY <1>2 DEF DiscoveryInit, CatalogInit, InTurn, CatalogInTurn, TableInTurn, Done
<1>5. QED
  BY <1>3, <1>4 DEF DInv, ResetAlone, DiscoveryInit

LEMMA ParseKeeps ==
  ASSUME DInv, ParseSlt
  PROVE  DInv'
<1>1. PICK table \in Tables :
        /\ pc = "idle"
        /\ slt' = Parsed(table) /\ pending' = Parsed(table)
        /\ pc' = IF pending' = <<>> THEN "idle" ELSE "find"
        /\ overlap' = IF clearing = "no" THEN overlap ELSE "yes"
        /\ removed' = FALSE
        /\ UNCHANGED <<catalogVars, slot, isNew, number, clearing, inbox, guide>>
  BY DEF ParseSlt
<1>2. Parsed(table) \in Seq(Service)
  BY TablesAssumption
<1>3. DiscoveryTypes'
  BY <1>1, <1>2 DEF DInv, DiscoveryTypes, catalogVars
<1>4. ResetAlone'
  BY <1>1 DEF DInv, DiscoveryTypes, ResetAlone, catalogVars
<1>5. ASSUME Undisturbed' PROVE InTurn'
  <2>1. InTurn
    BY <1>1, <1>5 DEF DInv, Undisturbed
  <2>2. CompactTo(count)'
    BY <1>1, <2>1, SameCatalog DEF InTurn, CatalogInTurn, catalogVars
  <2>3. LastSent' = LastSent /\ Listing' = Listing /\ count' = count
    BY <1>1, SameCatalog DEF LastSent, catalogVars
  <2>4. Done' = 0
    BY <1>1, <1>2 DEF Done
  <2>5. TableInTurn'
    BY <1>1, <1>2, <2>4 DEF TableInTurn
  <2>6. QED
    BY <1>1, <2>1, <2>2, <2>3, <2>5 DEF InTurn, CatalogInTurn
<1>6. QED
  BY <1>3, <1>4, <1>5 DEF DInv

(* The service at the head of what is pending is the next of the table. *)
LEMMA HeadIsNext ==
  ASSUME DiscoveryTypes, pc # "idle"
  PROVE  /\ Head(pending) \in Service /\ Head(pending) = pending[1]
         /\ Len(pending) \in Nat /\ Len(pending) >= 1 /\ Len(slt) \in Nat
         /\ Tail(pending) \in Seq(Service)
         /\ Len(Tail(pending)) = Len(pending) - 1
         /\ \A k \in 1 .. Len(pending) - 1 : Tail(pending)[k] = pending[k + 1]
         /\ AfterThis = "idle" <=> Tail(pending) = <<>>
         /\ AfterThis \in {"idle", "find"}
<1>1. pending \in Seq(Service) /\ pending # <<>> /\ slt \in Seq(Service)
  BY DEF DiscoveryTypes
<1>2. Tail(pending) = <<>> <=> Len(pending) = 1
  <2>1. Tail(pending) \in Seq(Service) /\ Len(Tail(pending)) = Len(pending) - 1
    BY <1>1
  <2>2. Tail(pending) = <<>> <=> Len(Tail(pending)) = 0
    BY <2>1, EmptySeq
  <2>3. Len(pending) \in Nat
    BY <1>1
  <2>4. QED
    BY <2>1, <2>2, <2>3
<1>3. QED
  BY <1>1, <1>2 DEF AfterThis

LEMMA FindKeeps ==
  ASSUME DInv, FindSlot
  PROVE  DInv'
<1>1. DiscoveryTypes /\ ResetAlone /\ (Undisturbed => InTurn)
  BY DEF DInv
<1>2. EntriesFor(Head(pending).id) # {} /\ Head(pending).id # 0
  BY DEF FindSlot, Accepts
<1>3. slot' = First(EntriesFor(Head(pending).id)) /\ slot' \in Entries
  <2>1. EntriesFor(Head(pending).id) \in SUBSET Nat
        /\ EntriesFor(Head(pending).id) \subseteq Entries
    BY DEF EntriesFor, EntriesOf, Used, Entries
  <2>2. QED
    BY <1>2, <2>1, FirstOf DEF FindSlot
<1>4. DiscoveryTypes'
  BY <1>1, <1>3 DEF DiscoveryTypes, FindSlot, catalogVars
<1>5. ResetAlone'
  BY <1>1 DEF ResetAlone, FindSlot, catalogVars
<1>6. ASSUME Undisturbed' PROVE InTurn'
  <2>1. InTurn /\ pc = "find" /\ pc' = "test"
    BY <1>1, <1>6 DEF FindSlot, Undisturbed
  <2>2. UNCHANGED <<catalogVars, slt, pending, inbox, guide, removed>>
    BY DEF FindSlot
  <2>3. CompactTo(count)'
    BY <2>1, <2>2, SameCatalog DEF InTurn, CatalogInTurn, catalogVars
  <2>4. Done' = Done
    BY <2>1, <2>2 DEF Done
  <2>5. TableInTurn'
    BY <2>1, <2>2, <2>4, SameEntered DEF InTurn, TableInTurn
  <2>6. SlotFits'
    BY <1>2, <1>3, <2>1, <2>2, SameCatalog DEF SlotFits
  <2>7. LastSent' = LastSent /\ Listing' = Listing /\ count' = count
    BY <2>2, SameCatalog DEF LastSent, catalogVars
  <2>8. QED
    BY <2>1, <2>3, <2>5, <2>6, <2>7 DEF InTurn, CatalogInTurn
<1>7. QED
  BY <1>4, <1>5, <1>6 DEF DInv

LEMMA PassOverKeeps ==
  ASSUME DInv, PassOver
  PROVE  DInv'
<1>1. DiscoveryTypes /\ ResetAlone /\ (Undisturbed => InTurn)
  BY DEF DInv
<1>2. /\ pc = "find" /\ pending' = Tail(pending) /\ pc' = AfterThis
      /\ UNCHANGED <<catalogVars, slt, slot, isNew, number,
                     clearing, inbox, guide, overlap, removed>>
  BY DEF PassOver
<1>3. DiscoveryTypes'
  BY <1>1, <1>2, HeadIsNext DEF DiscoveryTypes, catalogVars
<1>4. ResetAlone'
  BY <1>1, <1>2 DEF ResetAlone, catalogVars
<1>5. ASSUME Undisturbed' PROVE InTurn'
  <2> DEFINE h == Head(pending)
  <2> PICK d : d = Done
    OBVIOUS
  <2>1. InTurn /\ Undisturbed
    BY <1>1, <1>2, <1>5 DEF Undisturbed
  <2>2. CompactTo(count)' /\ CompactTo(count)
    BY <1>2, <2>1, SameCatalog DEF InTurn, CatalogInTurn, catalogVars
  <2>3. Done' = d + 1 /\ d = Len(slt) - Len(pending) /\ d \in Nat
    BY <1>1, <1>2, <2>1, HeadIsNext DEF Done, InTurn, TableInTurn
  <2>4. h = slt[d + 1]
    BY <1>1, <1>2, <2>1, <2>3, HeadIsNext DEF InTurn, TableInTurn
  <2>5. Entered(d + 1)'
    <3>1. CASE h.id = 0
      BY <1>2, <2>4, <3>1 DEF Entered
    <3>2. CASE h.id # 0
      <4>1. EntriesFor(h.id) = {}
        BY <3>2 DEF PassOver, Accepts
      <4>2. Used = Entries
        BY <4>1 DEF EntriesFor, Used
      <4>3. count = MaxServices
        <5>1. 1 .. count = 1 .. MaxServices /\ count \in 0 .. MaxServices
          BY <2>2, <4>2 DEF CompactTo, Entries
        <5>2. MaxServices = 0 \/ MaxServices \in 1 .. count
          BY <5>1, CatalogAssumption
        <5>3. QED
          BY <5>1, <5>2, CatalogAssumption
      <4>4. QED
        BY <1>2, <4>3 DEF Entered, catalogVars
    <3>3. QED
      BY <3>1, <3>2
  <2>6. ~ removed /\ \A k \in 1 .. d : Entered(k)'
    <3>1. ~ removed /\ \A k \in 1 .. d : Entered(k)
      BY <1>2, <2>1 DEF InTurn, TableInTurn
    <3>2. \A k \in 1 .. d : \A j \in k + 1 .. d : j \in k + 1 .. Done'
      BY <2>3
    <3>3. QED
      BY <1>2, <3>1, <3>2, SameCatalog DEF Entered, catalogVars
  <2>7. \A k \in 1 .. Done' : Entered(k)'
    BY <2>3, <2>5, <2>6
  <2>8. TableInTurn'
    <3>1. Len(pending') = Len(pending) - 1 /\ Len(pending') <= Len(slt)
      BY <1>1, <1>2, <2>1, HeadIsNext DEF InTurn, TableInTurn
    <3>2. \A k \in 1 .. Len(pending') : pending'[k] = slt[Len(slt) - Len(pending') + k]
      <4>1. \A k \in 1 .. Len(pending) : pending[k] = slt[Len(slt) - Len(pending) + k]
        BY <2>1 DEF InTurn, TableInTurn
      <4>2. TAKE k \in 1 .. Len(pending')
      <4>3. k + 1 \in 1 .. Len(pending) /\ pending'[k] = pending[k + 1]
        BY <1>1, <1>2, <3>1, HeadIsNext
      <4>4. Len(slt) - Len(pending) + (k + 1) = Len(slt) - Len(pending') + k
        BY <1>1, <1>2, <3>1, HeadIsNext
      <4>5. QED
        BY <4>1, <4>3, <4>4
    <3>3. QED
      BY <1>2, <2>6, <2>7, <3>1, <3>2 DEF TableInTurn
  <2>9. LastSent' = LastSent /\ Listing' = Listing /\ count' = count
    BY <1>2, SameCatalog DEF LastSent, catalogVars
  <2>10. pc' \in {"idle", "find"}
    BY <1>1, <1>2, HeadIsNext
  <2>11. QED
    BY <1>2, <2>1, <2>2, <2>8, <2>9, <2>10 DEF InTurn, CatalogInTurn
<1>6. QED
  BY <1>3, <1>4, <1>5 DEF DInv

LEMMA TestKeeps ==
  ASSUME DInv, TestSlot
  PROVE  DInv'
<1>1. DiscoveryTypes /\ ResetAlone /\ (Undisturbed => InTurn)
  BY DEF DInv
<1>2. /\ pc = "test" /\ pc' = "copy" /\ isNew' = (slot \notin Used)
      /\ UNCHANGED <<catalogVars, slt, pending, slot, number,
                     clearing, inbox, guide, overlap, removed>>
  BY DEF TestSlot
<1>3. DiscoveryTypes'
  <2>1. isNew' \in BOOLEAN
    BY <1>2
  <2>2. QED
    BY <1>1, <1>2, <2>1 DEF DiscoveryTypes, catalogVars
<1>4. ResetAlone'
  BY <1>1, <1>2 DEF ResetAlone, catalogVars
<1>5. ASSUME Undisturbed' PROVE InTurn'
  <2>1. InTurn
    BY <1>1, <1>2, <1>5 DEF Undisturbed
  <2>2. CompactTo(count)'
    BY <1>2, <2>1, SameCatalog DEF InTurn, CatalogInTurn, catalogVars
  <2>3. Done' = Done
    BY <1>2 DEF Done
  <2>4. TableInTurn'
    BY <1>2, <2>1, <2>3, SameEntered DEF InTurn, TableInTurn
  <2>5. SlotFits'
    <3>1. SlotFits
      BY <1>2, <2>1 DEF InTurn
    <3>2. isNew' = (slot' \notin Used')
      BY <1>2, SameCatalog
    <3>3. QED
      BY <1>2, <3>1, <3>2, SameCatalog DEF SlotFits
  <2>6. LastSent' = LastSent /\ Listing' = Listing /\ count' = count
    BY <1>2, SameCatalog DEF LastSent, catalogVars
  <2>7. QED
    BY <1>2, <2>1, <2>2, <2>4, <2>5, <2>6 DEF InTurn, CatalogInTurn
<1>6. QED
  BY <1>3, <1>4, <1>5 DEF DInv

(* The entry a service is copied to: its own, or the one behind the last.     *)
LEMMA CopyFits ==
  ASSUME DiscoveryTypes, InTurn, CopyService
  PROVE  /\ CatalogInv
         /\ Head(pending) \in Service /\ Head(pending).id # 0
         /\ slot \in Entries
         /\ isNew = (slot \notin Used)
         /\ slot \notin Used => slot = count + 1 /\ EntriesOf(Head(pending).id) = {}
         /\ slot \in Used => services[slot].id = Head(pending).id
<1> DEFINE h == Head(pending)
<1>1. pc = "copy"
  BY DEF CopyService
<1>2. CatalogInv
  BY <1>1, CompactMeansIInv DEF InTurn, CatalogInTurn
<1>3. h \in Service /\ h.id # 0 /\ h.id \in Ids
      /\ EntriesFor(h.id) # {} /\ slot = First(EntriesFor(h.id))
      /\ isNew = (slot \notin Used)
  BY <1>1, HeadIsNext DEF InTurn, SlotFits, Service
<1>4. slot \in Entries
  BY <1>1 DEF DiscoveryTypes
<1>5. CASE EntriesOf(h.id) = {}
  <2>1. slot = count + 1
    BY <1>2, <1>3, <1>5, NewSlot
  <2>2. slot \notin Used
    BY <1>2, <2>1 DEF CatalogInv, Compact, CatalogTypeOK
  <2>3. QED
    BY <1>2, <1>3, <1>4, <1>5, <2>1, <2>2
<1>6. CASE EntriesOf(h.id) # {}
  <2>1. slot \in EntriesOf(h.id)
    BY <1>2, <1>3, <1>6, KnownSlot DEF EntriesFor
  <2>2. slot \in Used /\ services[slot].id = h.id
    BY <2>1 DEF EntriesOf
  <2>3. QED
    BY <1>2, <1>3, <1>4, <2>2
<1>7. QED
  BY <1>5, <1>6

(* The copied service extends the run of used entries by one or not at all.   *)
LEMMA CopiedCompact ==
  ASSUME DiscoveryTypes, InTurn, CopyService
  PROVE  /\ Used \subseteq Used' /\ slot \in Used'
         /\ IF slot \notin Used THEN CompactTo(count + 1)' ELSE CompactTo(count)'
<1> DEFINE h == Head(pending)
<1>1. /\ CatalogInv
      /\ h \in Service /\ h.id # 0
      /\ slot \in Entries
      /\ slot \notin Used => slot = count + 1 /\ EntriesOf(h.id) = {}
      /\ slot \in Used => services[slot].id = h.id
  BY CopyFits
<1> HIDE DEF h
<1>2. services' = [services EXCEPT ![slot] = h] /\ count' = count
  BY DEF CopyService, h
<1>3. /\ services'[slot] = h
      /\ \A i \in Entries : i # slot => services'[i] = services[i]
  BY <1>1, <1>2 DEF DiscoveryTypes
<1>4. Used' = Used \cup {slot}
  BY <1>1, <1>3 DEF Used
<1>5. CASE slot \notin Used
  <2>1. Used' = 1 .. (count + 1) /\ count + 1 \in 0 .. MaxServices
    BY <1>1, <1>4, <1>5, CatalogAssumption DEF CatalogInv, Compact, CatalogTypeOK, Entries
  <2>2. \A i \in Used : services'[i] = services[i] /\ services[i].id # h.id
    BY <1>1, <1>3, <1>5 DEF EntriesOf, Used
  <2>3. \A i, j \in Used' : services'[i].id = services'[j].id => i = j
    BY <1>1, <1>3, <1>4, <2>2 DEF CatalogInv, Compact
  <2>4. CompactTo(count + 1)'
    BY <1>2, <2>1, <2>3 DEF CompactTo
  <2>5. QED
    BY <1>4, <1>5, <2>4
<1>6. CASE slot \in Used
  <2>1. \A i \in Entries : services'[i].id = services[i].id
    BY <1>1, <1>3, <1>6
  <2>2. Used' = Used
    BY <1>4, <1>6
  <2>3. CompactTo(count)
    BY <1>1, IInvMeansCompact
  <2>4. CompactTo(count)'
    BY <1>2, <2>1, <2>2, <2>3 DEF CompactTo, Used
  <2>5. QED
    BY <1>4, <1>6, <2>4
<1>7. QED
  BY <1>5, <1>6

LEMMA CopyKeeps ==
  ASSUME DInv, CopyService
  PROVE  DInv'
<1>1. DiscoveryTypes /\ ResetAlone /\ (Undisturbed => InTurn)
  BY DEF DInv
<1> DEFINE h == Head(pending)
<1>2. /\ pc = "copy" /\ pc' = IF isNew THEN "count" ELSE "notify"
      /\ services' = [services EXCEPT ![slot] = h] /\ number' = count
      /\ UNCHANGED <<count, slt, pending, slot, isNew, clearing, inbox, guide, overlap, removed>>
  BY DEF CopyService
<1>3. slot \in Entries /\ h \in Service
  BY <1>1, <1>2, HeadIsNext DEF DiscoveryTypes
<1>4. DiscoveryTypes'
  <2>1. services' \in [Entries -> Service \cup {Empty}]
    BY <1>1, <1>2, <1>3 DEF DiscoveryTypes
  <2>2. QED
    BY <1>1, <1>2, <2>1 DEF DiscoveryTypes
<1>5. ResetAlone'
  BY <1>1, <1>2 DEF ResetAlone
<1>6. ASSUME Undisturbed' PROVE InTurn'
  <2>1. InTurn
    BY <1>1, <1>2, <1>6 DEF Undisturbed
  <2>2. /\ isNew = (slot \notin Used)
        /\ slot \notin Used => slot = count + 1
        /\ slot \in Used => services[slot].id = h.id
    BY <1>1, <2>1, CopyFits
  <2>3. /\ Used \subseteq Used' /\ slot \in Used'
        /\ IF slot \notin Used THEN CompactTo(count + 1)' ELSE CompactTo(count)'
    BY <1>1, <2>1, CopiedCompact
  <2>4. CatalogInTurn'
    BY <1>2, <2>2, <2>3 DEF CatalogInTurn
  <2> PICK d : d = Done
    OBVIOUS
  <2>5. d = Len(slt) - Len(pending) /\ Done' = d + 1 /\ d \in Nat
    BY <1>1, <1>2, <2>1, HeadIsNext DEF Done, InTurn, TableInTurn
  <2>6. h = slt[d + 1]
    <3>1. h = pending[1] /\ Len(pending) >= 1 /\ Len(pending) \in Nat
      BY <1>1, <1>2, HeadIsNext
    <3>2. \A k \in 1 .. Len(pending) : pending[k] = slt[Len(slt) - Len(pending) + k]
      BY <2>1 DEF InTurn, TableInTurn
    <3>3. pending[1] = slt[Len(slt) - Len(pending) + 1]
      BY <3>1, <3>2
    <3>4. QED
      BY <2>5, <3>1, <3>3
  <2>7. services'[slot] = h /\ \A i \in Entries : i # slot => services'[i] = services[i]
    BY <1>1, <1>2, <1>3 DEF DiscoveryTypes
  <2>8. Entered(d + 1)'
    BY <1>2, <2>3, <2>6, <2>7 DEF Entered
  <2>9. ASSUME NEW k \in 1 .. d PROVE Entered(k)'
    <3>1. Entered(k)
      BY <1>2, <2>1, <2>9 DEF InTurn, TableInTurn
    <3>2. CASE slt[k].id = 0
      BY <1>2, <3>2 DEF Entered
    <3>3. CASE \E j \in k + 1 .. d : slt[j].id = slt[k].id
      BY <1>2, <2>5, <3>3 DEF Entered
    <3>4. CASE \E i \in Used : services[i] = slt[k]
      <4>1. PICK i \in Used : services[i] = slt[k]
        BY <3>4
      <4>2. CASE i = slot
        <5>1. slt[d + 1].id = slt[k].id
          BY <2>2, <2>6, <4>1, <4>2
        <5>2. d + 1 \in k + 1 .. Done'
          BY <2>5, <2>9
        <5>3. QED
          BY <1>2, <5>1, <5>2 DEF Entered
      <4>3. CASE i # slot
        <5>1. i \in Used' /\ services'[i] = slt[k]
          BY <2>3, <2>7, <4>1, <4>3 DEF Used
        <5>2. QED
          BY <1>2, <5>1 DEF Entered
      <4>4. QED
        BY <4>2, <4>3
    <3>5. CASE count = MaxServices
      BY <1>2, <3>5 DEF Entered
    <3>6. QED
      BY <3>1, <3>2, <3>3, <3>4, <3>5 DEF Entered
  <2>10. \A k \in 1 .. Done' : Entered(k)'
    BY <2>5, <2>8, <2>9
  <2>11. TableInTurn'
    BY <1>2, <2>1, <2>10 DEF InTurn, TableInTurn
  <2>12. pc' \in {"count", "notify"}
    BY <1>2
  <2>13. QED
    BY <2>4, <2>11, <2>12 DEF InTurn
<1>7. QED
  BY <1>4, <1>5, <1>6 DEF DInv

LEMMA CountKeeps ==
  ASSUME DInv, CountService
  PROVE  DInv'
<1>1. DiscoveryTypes /\ ResetAlone /\ (Undisturbed => InTurn)
  BY DEF DInv
<1>2. /\ pc = "count" /\ pc' = "notify" /\ count' = number + 1
      /\ UNCHANGED <<services, slt, pending, slot, isNew, number,
                     clearing, inbox, guide, overlap, removed>>
  BY DEF CountService
<1>3. DiscoveryTypes'
  BY <1>1, <1>2 DEF DiscoveryTypes
<1>4. ResetAlone'
  BY <1>1, <1>2 DEF ResetAlone
<1>5. ASSUME Undisturbed' PROVE InTurn'
  <2>1. InTurn
    BY <1>1, <1>2, <1>5 DEF Undisturbed
  <2>2. CompactTo(count + 1) /\ number = count
    BY <1>2, <2>1 DEF InTurn, CatalogInTurn
  <2>3. Used' = Used
    BY <1>2 DEF Used
  <2>4. CompactTo(count)'
    BY <1>2, <2>2, <2>3 DEF CompactTo
  <2>5. Done' = Done /\ count # MaxServices
    BY <1>1, <1>2, <2>2, CatalogAssumption DEF Done, CompactTo, DiscoveryTypes
  <2>6. \A k : Entered(k) => Entered(k)'
    BY <1>2, <2>3, <2>5 DEF Entered
  <2>7. TableInTurn'
    BY <1>2, <2>1, <2>5, <2>6 DEF InTurn, TableInTurn
  <2>8. QED
    BY <1>2, <2>4, <2>7 DEF InTurn, CatalogInTurn
<1>6. QED
  BY <1>3, <1>4, <1>5 DEF DInv

LEMMA NotifyKeeps ==
  ASSUME DInv, Notify
  PROVE  DInv'
<1>1. DiscoveryTypes /\ ResetAlone /\ (Undisturbed => InTurn)
  BY DEF DInv
<1>2. /\ pc = "notify" /\ pc' = AfterThis
      /\ inbox' = Append(inbox, Listing) /\ pending' = Tail(pending)
      /\ slot' = 0 /\ isNew' = FALSE /\ number' = 0
      /\ UNCHANGED <<catalogVars, slt, clearing, guide, overlap, removed>>
  BY DEF Notify
<1>3. LastSent' = Listing /\ inbox' \in Seq(Listings)
  BY <1>1, <1>2, ListingIsTyped, SentIsLast
<1>4. pc' \in {"idle", "find"} /\ (pc' = "idle" <=> pending' = <<>>)
      /\ pending' \in Seq(Service)
  BY <1>1, <1>2, HeadIsNext
<1>5. DiscoveryTypes'
  <2>1. isNew' \in BOOLEAN
    BY <1>2, Zenon
  <2>2. QED
    BY <1>1, <1>2, <1>3, <1>4, <2>1 DEF DiscoveryTypes, catalogVars
<1>6. ResetAlone'
  BY <1>1, <1>2 DEF ResetAlone, catalogVars
<1>7. ASSUME Undisturbed' PROVE InTurn'
  <2>1. InTurn
    BY <1>1, <1>2, <1>7 DEF Undisturbed
  <2>2. CompactTo(count)'
    BY <1>2, <2>1, SameCatalog DEF InTurn, CatalogInTurn, catalogVars
  <2>3. Len(pending') = Len(pending) - 1 /\ Len(pending) \in Nat /\ Len(slt) \in Nat
    BY <1>1, <1>2, HeadIsNext
  <2>4. Done' = Done
    BY <1>2, <1>4, <2>3 DEF Done
  <2>5. \A k \in 1 .. Len(pending') : pending'[k] = slt[Len(slt) - Len(pending') + k]
    <3>1. \A k \in 1 .. Len(pending) : pending[k] = slt[Len(slt) - Len(pending) + k]
      BY <2>1 DEF InTurn, TableInTurn
    <3>2. TAKE k \in 1 .. Len(pending')
    <3>3. k + 1 \in 1 .. Len(pending) /\ pending'[k] = pending[k + 1]
      BY <1>1, <1>2, <2>3, HeadIsNext
    <3>4. Len(slt) - Len(pending) + (k + 1) = Len(slt) - Len(pending') + k
      BY <2>3
    <3>5. QED
      BY <3>1, <3>3, <3>4
  <2>6. TableInTurn'
    <3>1. ~ removed' /\ Len(pending') <= Len(slt')
      BY <1>2, <2>1, <2>3 DEF InTurn, TableInTurn
    <3>2. \A k \in 1 .. Done : Entered(k)
      BY <1>2, <2>1 DEF InTurn, TableInTurn
    <3>3. \A k \in 1 .. Done' : Entered(k)'
      BY <1>2, <2>4, <3>2, SameEntered
    <3>4. QED
      BY <1>2, <2>5, <3>1, <3>3 DEF TableInTurn
  <2>7. Listing' = Listing
    BY <1>2, SameCatalog
  <2>8. QED
    BY <1>3, <1>4, <2>2, <2>6, <2>7 DEF InTurn, CatalogInTurn
<1>8. QED
  BY <1>5, <1>6, <1>7 DEF DInv

LEMMA RemoveAndNotifyKeeps ==
  ASSUME DInv, RemoveAndNotify
  PROVE  DInv'
<1>1. DiscoveryTypes /\ ResetAlone /\ (Undisturbed => InTurn)
  BY DEF DInv
<1>2. PICK id \in Ids :
        /\ pc = "idle" /\ clearing = "no" /\ count <= MaxServices
        /\ RemoveService(id)
        /\ inbox' = Append(inbox, Listing')
        /\ removed' = TRUE
        /\ UNCHANGED <<slt, pc, pending, slot, isNew, number, clearing, guide, overlap>>
  BY DEF RemoveAndNotify
<1>3. services' \in [Entries -> Service \cup {Empty}] /\ count' \in Nat
  <2> DEFINE k == First(EntriesOf(id) \cap 1 .. count)
  <2>1. EntriesOf(id) \cap 1 .. count # {}
        /\ services' = [services EXCEPT ![k] = services[count], ![count] = Empty]
        /\ count' = count - 1
    BY <1>2 DEF RemoveService
  <2>2. count \in Nat \ {0} /\ count \in Entries
    BY <1>1, <1>2, <2>1, CatalogAssumption DEF DiscoveryTypes, Entries
  <2>3. EntriesOf(id) \cap 1 .. count \in SUBSET Nat
        /\ EntriesOf(id) \cap 1 .. count \subseteq Entries
    BY DEF EntriesOf, Used, Entries
  <2>4. k \in Entries
    BY <2>1, <2>3, FirstOf
  <2> HIDE DEF k
  <2>5. services \in [Entries -> Service \cup {Empty}]
    BY <1>1 DEF DiscoveryTypes
  <2>6. services[count] \in Service \cup {Empty}
    BY <2>2, <2>5
  <2>7. QED
    BY <2>1, <2>2, <2>4, <2>5, <2>6
<1>4. Listing' \in Listings
  BY <1>3 DEF Listing, Listings
<1>5. LastSent' = Listing' /\ inbox' \in Seq(Listings)
  <2> PICK message : message = Listing'
    OBVIOUS
  <2>1. LastSent' = message /\ inbox' \in Seq(Listings)
    BY <1>1, <1>2, <1>4, SentIsLast
  <2>2. QED
    BY <2>1
<1>6. DiscoveryTypes'
  <2>1. removed' \in BOOLEAN
    BY <1>2, Zenon
  <2>2. QED
    BY <1>1, <1>2, <1>3, <1>5, <2>1 DEF DiscoveryTypes
<1>7. ResetAlone'
  BY <1>1, <1>2 DEF ResetAlone
<1>8. ASSUME Undisturbed' PROVE InTurn'
  <2>1. InTurn
    BY <1>1, <1>2, <1>8 DEF Undisturbed
  <2>2. CatalogInv
    BY <1>1, <1>2, <2>1, CompactMeansIInv DEF InTurn, CatalogInTurn
  <2>3. CompactTo(count)'
    <3>1. CatalogInv'
      BY <1>2, <2>2, RemoveKeepsIInv
    <3>2. QED
      BY <3>1 DEF CompactTo, CatalogInv, CatalogTypeOK, Compact
  <2>4. TableInTurn'
    BY <1>2, <2>1 DEF InTurn, TableInTurn
  <2>5. QED
    BY <1>2, <1>5, <2>3, <2>4 DEF InTurn, CatalogInTurn
<1>9. QED
  BY <1>6, <1>7, <1>8 DEF DInv

(* A reset() takes the claims of InTurn away, and gives them back when it has *)
(* met no table: then everything is empty. *)
LEMMA ResetParserKeeps ==
  ASSUME DInv, ResetParser
  PROVE  DInv'
<1>1. DiscoveryTypes'
  <2>1. <<>> \in Seq(Service)
    BY EmptySeq
  <2>2. overlap' \in {"no", "yes", "mends"}
    BY DEF ResetParser, DInv, DiscoveryTypes
  <2>3. QED
    BY <2>1, <2>2 DEF DInv, DiscoveryTypes, ResetParser, catalogVars
<1>2. ResetAlone'
  BY DEF DInv, DiscoveryTypes, ResetAlone, ResetParser
<1>3. ~ Undisturbed'
  BY DEF ResetParser, Undisturbed
<1>4. QED
  BY <1>1, <1>2, <1>3 DEF DInv

LEMMA ClearEntriesKeeps ==
  ASSUME DInv, ClearEntries
  PROVE  DInv'
<1>1. services' = [i \in Entries |-> Empty]
  BY DEF ClearEntries
<1>2. DiscoveryTypes'
  BY <1>1 DEF DInv, DiscoveryTypes, ClearEntries, tableVars
<1>3. ResetAlone'
  BY <1>1 DEF DInv, DiscoveryTypes, ResetAlone, ClearEntries, tableVars
<1>4. ~ Undisturbed'
  BY DEF ClearEntries, Undisturbed
<1>5. QED
  BY <1>2, <1>3, <1>4 DEF DInv

LEMMA ClearNumberKeeps ==
  ASSUME DInv, ClearNumber
  PROVE  DInv'
<1>1. DiscoveryTypes /\ ResetAlone
  BY DEF DInv
<1>2. /\ clearing = "number" /\ clearing' = "no" /\ count' = 0
      /\ overlap' = CASE pc # "idle" -> "yes"
                      [] pc = "idle" /\ overlap = "mends" -> "no"
                      [] OTHER -> overlap
      /\ UNCHANGED <<services, tableVars, inbox, guide, removed>>
  BY DEF ClearNumber
<1>3. DiscoveryTypes'
  <2>1. overlap' \in {"no", "yes", "mends"}
    BY <1>1, <1>2 DEF DiscoveryTypes
  <2>2. QED
    BY <1>1, <1>2, <2>1 DEF DiscoveryTypes, tableVars
<1>4. ResetAlone'
  BY <1>1, <1>2 DEF ResetAlone, DiscoveryTypes
<1>5. ASSUME Undisturbed' PROVE InTurn'
  <2>1. pc = "idle" /\ overlap # "yes"
    BY <1>1, <1>2, <1>5 DEF Undisturbed, DiscoveryTypes
  <2>2. slt = <<>> /\ pending = <<>> /\ services = [i \in Entries |-> Empty]
    BY <1>1, <1>2, <2>1 DEF ResetAlone, DiscoveryTypes
  <2>3. Used' = {}
    BY <1>2, <2>2 DEF Used, Empty
  <2>4. CompactTo(count)'
    BY <1>2, <2>3, CatalogAssumption DEF CompactTo
  <2>5. TableInTurn'
    <3>1. Len(slt') = 0 /\ Len(pending') = 0 /\ pc' = "idle"
      BY <1>2, <2>1, <2>2 DEF tableVars
    <3>2. Done' = 0
      BY <3>1 DEF Done
    <3>3. QED
      BY <3>1, <3>2 DEF TableInTurn
  <2>6. QED
    BY <1>2, <2>1, <2>4, <2>5 DEF InTurn, CatalogInTurn, tableVars
<1>6. QED
  BY <1>3, <1>4, <1>5 DEF DInv

LEMMA HandleKeeps ==
  ASSUME DInv, HandleCatalog
  PROVE  DInv'
<1>1. UNCHANGED <<catalogVars, tableVars, clearing, overlap, removed>>
  BY DEF HandleCatalog
<1>2. LastSent' = LastSent /\ inbox' \in Seq(Listings)
  BY TakenIsShown DEF DInv
<1>3. DiscoveryTypes'
  BY <1>1, <1>2 DEF DInv, DiscoveryTypes, catalogVars, tableVars
<1>4. ResetAlone'
  BY <1>1 DEF DInv, ResetAlone, catalogVars, tableVars
<1>5. ASSUME Undisturbed' PROVE InTurn'
  <2>1. InTurn
    BY <1>1, <1>5 DEF DInv, Undisturbed
  <2>2. Done' = Done
    BY <1>1 DEF Done, tableVars
  <2>3. TableInTurn'
    BY <1>1, <2>1, <2>2, SameEntered DEF InTurn, TableInTurn, tableVars
  <2>4. CatalogInTurn'
    BY <1>1, <2>1, SameCatalog DEF InTurn, CatalogInTurn, catalogVars, tableVars
  <2>5. pc \in {"test", "copy"} => SlotFits'
    BY <1>1, <2>1, SameSlot DEF InTurn, tableVars
  <2>6. Listing' = Listing /\ count' = count /\ pc' = pc
    BY <1>1, SameCatalog DEF catalogVars, tableVars
  <2>7. QED
    BY <1>2, <2>1, <2>3, <2>4, <2>5, <2>6 DEF InTurn
<1>6. QED
  BY <1>3, <1>4, <1>5 DEF DInv

LEMMA StutterKeeps ==
  ASSUME DInv, UNCHANGED discoveryVars
  PROVE  DInv'
<1>1. Undisturbed' => Undisturbed
  BY DEF discoveryVars, Undisturbed
<1>2. InTurn => InTurn'
  <2>1. Done' = Done
    BY DEF Done, discoveryVars, tableVars
  <2>2. TableInTurn => TableInTurn'
    BY <2>1, SameEntered DEF TableInTurn, discoveryVars, tableVars
  <2>3. CatalogInTurn => CatalogInTurn'
    BY SameCatalog DEF CatalogInTurn, discoveryVars, catalogVars, tableVars
  <2>4. SlotFits => SlotFits'
    BY SameSlot DEF discoveryVars, tableVars
  <2>5. Listing' = Listing /\ LastSent' = LastSent
    BY SameCatalog DEF discoveryVars, LastSent
  <2>6. QED
    BY <2>2, <2>3, <2>4, <2>5 DEF InTurn, discoveryVars, tableVars, catalogVars
<1>3. DiscoveryTypes' /\ ResetAlone'
  BY DEF DInv, DiscoveryTypes, ResetAlone, discoveryVars, catalogVars, tableVars
<1>4. QED
  BY <1>1, <1>2, <1>3 DEF DInv

LEMMA DiscoveryStepKeeps == DInv /\ [DiscoveryNext]_discoveryVars => DInv'
BY ParseKeeps, FindKeeps, PassOverKeeps, TestKeeps, CopyKeeps, CountKeeps, NotifyKeeps,
   RemoveAndNotifyKeeps, ResetParserKeeps, ClearEntriesKeeps, ClearNumberKeeps,
   HandleKeeps, StutterKeeps
DEF DiscoveryNext, UpdateStep, ResetStep

LEMMA DiscoveryInvariance == DiscoverySpec => []DInv
BY DiscoveryInitIsInv, DiscoveryStepKeeps, PTL DEF DiscoverySpec

(* Between two tables the catalog is compact again, for every capacity and    *)
(* all tables, unless a reset() on the application's thread fell into         *)
(* update_service() and none has come all by itself since.                    *)
THEOREM DiscoveryCompact == DiscoverySpec => []CompactWhenQuiet
<1>1. DInv => CompactWhenQuiet
  BY DEF DInv, CompactWhenQuiet, Quiet, Undisturbed, InTurn, CatalogInTurn, CompactTo, Compact
<1>2. QED
  BY <1>1, DiscoveryInvariance, PTL

(* parse_slt has entered every service of the last table, as the table has    *)
(* it last, or the catalog is full.                                           *)
THEOREM WholeTableListed == DiscoverySpec => []TableListed
<1>1. DInv => TableListed
  <2>1. SUFFICES ASSUME DInv, Quiet, ~ removed, NEW k \in DOMAIN slt
                 PROVE  \/ slt[k].id = 0
                        \/ \E j \in k + 1 .. Len(slt) : slt[j].id = slt[k].id
                        \/ \E i \in Used : services[i] = slt[k]
                        \/ count = MaxServices
    BY DEF TableListed
  <2>2. DiscoveryTypes /\ InTurn /\ pc = "idle"
    BY <2>1 DEF DInv, Undisturbed, Quiet
  <2>3. Done = Len(slt) /\ k \in 1 .. Len(slt)
    BY <2>2 DEF Done, DiscoveryTypes
  <2>4. Entered(k)
    BY <2>1, <2>2, <2>3 DEF InTurn, TableInTurn
  <2>5. QED
    BY <2>3, <2>4 DEF Entered
<1>2. QED
  BY <1>1, DiscoveryInvariance, PTL

(* When the messages have been taken, the guide shows what the catalog holds, *)
(* or reset() has emptied the catalog, of which it is not told.               *)
THEOREM GuideShowsCatalog == DiscoverySpec => []GuideInStep
<1>1. DInv => GuideInStep
  BY DEF DInv, GuideInStep, Quiet, Undisturbed, InTurn, LastSent
<1>2. QED
  BY <1>1, DiscoveryInvariance, PTL

(* No table takes a service out of the catalog: only remove_service and       *)
(* reset() do.                                                                *)
THEOREM NoServiceLost == DiscoverySpec => ServicesKept
<1>1. ASSUME DInv, [DiscoveryNext]_discoveryVars, NEW id \in Ids,
             EntriesOf(id) # {}, EntriesOf(id)' = {}, overlap = "no"
      PROVE  RemoveAndNotify \/ ResetStep
  <2>1. CASE CopyService
    <3>1. DiscoveryTypes /\ InTurn
      BY <1>1, <2>1 DEF DInv, ResetAlone, Undisturbed, CopyService
    <3>2. slot \in Entries /\ (slot \in Used => services[slot].id = Head(pending).id)
      BY <2>1, <3>1, CopyFits
    <3>3. \A i \in Used : services'[i].id = services[i].id
      BY <2>1, <3>1, <3>2 DEF CopyService, DiscoveryTypes, Used
    <3>4. \A i \in EntriesOf(id) : i \in EntriesOf(id)'
      BY <3>3 DEF EntriesOf, Used
    <3>5. QED
      BY <1>1, <3>4
  <2>2. CASE services' = services
    BY <1>1, <2>2 DEF EntriesOf, Used
  <2>3. QED
    BY <1>1, <2>1, <2>2
    DEF DiscoveryNext, ParseSlt, UpdateStep, FindSlot, PassOver, TestSlot, CountService,
        Notify, HandleCatalog, discoveryVars, catalogVars
<1>2. DInv /\ [DiscoveryNext]_discoveryVars =>
        [\A id \in Ids : EntriesOf(id) # {} /\ EntriesOf(id)' = {}
           => RemoveAndNotify \/ ResetStep \/ overlap # "no"]_discoveryVars
  BY <1>1
<1>3. QED
  BY <1>2, DiscoveryInvariance, PTL DEF DiscoverySpec, ServicesKept

(* The operations on the catalog with the number of services in effect. *)
LEMMA AtomicReads ==
  /\ Atomic!Entries = Entries /\ Atomic!Empty = Empty /\ Atomic!Service = Service
  /\ \A id : Atomic!EntriesOf(id) = EntriesOf(id) /\ Atomic!EntriesFor(id) = EntriesFor(id)
  /\ \A S : Atomic!First(S) = First(S)
BY DEF Atomic!Entries, Atomic!Empty, Atomic!Service, Atomic!EntriesOf, Atomic!EntriesFor,
       Atomic!Used, Atomic!First, Entries, Empty, Service, EntriesOf, EntriesFor, Used, First

(* Filling the entry is the update: the count follows with nothing between. *)
LEMMA CopyIsUpdate ==
  ASSUME DInv, CopyService, overlap = "no"
  PROVE  Atomic!CatalogNext
<1>1. DiscoveryTypes /\ InTurn /\ pc = "copy" /\ clearing = "no"
  BY DEF DInv, ResetAlone, Undisturbed, CopyService
<1>2. SlotFits
  BY <1>1 DEF InTurn
<1>3. pending # <<>> /\ pending \in Seq(Service) /\ count \in Nat
  BY <1>1 DEF DiscoveryTypes
<1>4. Head(pending) \in Service
  BY <1>3, HeadTailProperties
<1>5. /\ services' = [services EXCEPT ![slot] = Head(pending)]
      /\ number' = count /\ count' = count /\ clearing' = "no"
      /\ pc' = IF isNew THEN "count" ELSE "notify"
  BY <1>1 DEF CopyService
<1>6. isNew <=> EntriesOf(Head(pending).id) = {}
  <2>1. isNew = (slot \notin Used) /\ slot = First(EntriesFor(Head(pending).id))
    BY <1>1, <1>2 DEF SlotFits
  <2>2. slot \in EntriesFor(Head(pending).id)
    <3>1. EntriesFor(Head(pending).id) \subseteq Entries
      BY DEF EntriesFor, EntriesOf, Used
    <3>2. Entries \subseteq Nat /\ EntriesFor(Head(pending).id) # {}
      BY <1>2 DEF SlotFits, Entries
    <3> QED BY <2>1, <3>1, <3>2, FirstOf
  <2> QED BY <2>1, <2>2 DEF EntriesFor, EntriesOf
<1>7. CountInEffect = count
  BY <1>1 DEF CountInEffect
<1>8. CountInEffect' = IF isNew THEN count + 1 ELSE count
  BY <1>5 DEF CountInEffect
<1>9. Atomic!UpdateService(Head(pending))
  BY <1>2, <1>5, <1>6, <1>7, <1>8, AtomicReads
  DEF SlotFits, Atomic!UpdateService, Atomic!Accepts
<1> QED BY <1>4, <1>9, AtomicReads DEF Atomic!CatalogNext

(* lib/framing/service_catalog.cc: what the parser's thread does to the     *)
(* catalog step by step, and what reset() does, are operations of a catalog *)
(* that does each in one step, while they do not meet.                      *)
THEOREM CatalogImplemented == DiscoverySpec => StepsAreOperations
<1>1. ASSUME DInv, [DiscoveryNext]_discoveryVars, overlap = "no", overlap' = "no"
      PROVE  [Atomic!CatalogNext]_<<services, CountInEffect>>
  <2>1. DiscoveryTypes /\ ResetAlone /\ (pc # "idle" => clearing = "no")
    BY <1>1 DEF DInv, ResetAlone
  <2>2. clearing = "no" => InTurn
    BY <1>1 DEF DInv, Undisturbed
  <2>3. CASE CopyService
    BY <1>1, <2>3, CopyIsUpdate
  <2>4. CASE CountService
    <3>1. /\ pc = "count" /\ clearing = "no" /\ clearing' = "no" /\ pc' = "notify"
          /\ count' = number + 1 /\ services' = services
      BY <2>1, <2>4 DEF CountService
    <3> QED BY <3>1 DEF CountInEffect
  <2>5. CASE ParseSlt
    <3>1. /\ clearing = "no" /\ clearing' = "no" /\ pc = "idle" /\ pc' # "count"
          /\ services' = services /\ count' = count
      BY <1>1, <2>5 DEF ParseSlt, catalogVars
    <3> QED BY <3>1 DEF CountInEffect
  <2>6. CASE FindSlot \/ PassOver \/ TestSlot \/ Notify
    <3>1. /\ pc # "count" /\ pc' # "count" /\ clearing' = clearing
          /\ services' = services /\ count' = count
      BY <2>6 DEF FindSlot, PassOver, TestSlot, Notify, AfterThis, catalogVars
    <3> QED BY <3>1 DEF CountInEffect
  <2>7. CASE RemoveAndNotify
    <3>1. PICK id \in Ids : RemoveService(id)
      BY <2>7 DEF RemoveAndNotify
    <3>2. /\ pc = "idle" /\ pc' = pc /\ clearing = "no" /\ clearing' = clearing
      BY <2>7 DEF RemoveAndNotify
    <3>3. CountInEffect = count /\ CountInEffect' = count'
      BY <3>2 DEF CountInEffect
    <3>4. Atomic!RemoveService(id)
      BY <3>1, <3>3, AtomicReads DEF RemoveService, Atomic!RemoveService
    <3> QED BY <3>4 DEF Atomic!CatalogNext
  <2>8. CASE ResetParser
    <3>1. /\ pc' = pc /\ clearing = "no" /\ clearing' = "entries"
          /\ services' = services /\ count' = count /\ number' = number
      BY <2>8 DEF ResetParser, catalogVars
    <3> QED BY <3>1 DEF CountInEffect
  <2>9. CASE ClearEntries
    <3>1. services' = [i \in Entries |-> Empty] /\ clearing' = "number"
      BY <2>9 DEF ClearEntries
    <3>2. CountInEffect' = 0
      BY <3>1 DEF CountInEffect
    <3> QED BY <3>1, <3>2, AtomicReads DEF Atomic!Clear, Atomic!CatalogNext
  <2>10. CASE ClearNumber
    <3>1. /\ clearing = "number" /\ clearing' = "no" /\ services' = services /\ count' = 0
          /\ pc' = pc /\ pc = "idle"
      BY <1>1, <2>1, <2>10 DEF ClearNumber, tableVars
    <3> QED BY <3>1 DEF CountInEffect
  <2>11. CASE HandleCatalog \/ UNCHANGED discoveryVars
    BY <2>11 DEF HandleCatalog, discoveryVars, catalogVars, tableVars, CountInEffect
  <2> QED BY <1>1, <2>3, <2>4, <2>5, <2>6, <2>7, <2>8, <2>9, <2>10, <2>11
          DEF DiscoveryNext, UpdateStep, ResetStep
<1>2. DInv /\ [DiscoveryNext]_discoveryVars =>
        [overlap = "no" /\ overlap' = "no" =>
           [Atomic!CatalogNext]_<<services, CountInEffect>>]_discoveryVars
  BY <1>1
<1>3. QED
  BY <1>2, DiscoveryInvariance, PTL DEF DiscoverySpec, StepsAreOperations
================================================================================
