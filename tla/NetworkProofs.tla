---------------------------- MODULE NetworkProofs ----------------------------
(***************************************************************************)
(* Proofs about what follows the FEC decoder: the cutting of bytes into    *)
(* packets, the stream that carries them on, and the segments that the     *)
(* service selector puts together, for every size of packet, payload,      *)
(* input and output.                                                       *)
(***************************************************************************)
EXTENDS MCNetwork, CountingLemmas, TLAPS

-----------------------------------------------------------------------------
(* Each part of the program is a unit by itself: a step of the composition *)
(* is a step of the unit or leaves its variables alone.                    *)

LEMMA BlockUnit == [NetworkNext]_allVars => [Block!Next]_blockVars
BY DEF NetworkNext, allVars

LEMMA SelectorUnit == [NetworkNext]_allVars => [Selector!Next]_selectorVars
BY DEF NetworkNext, allVars

LEMMA FramingUnit == [NetworkNext]_allVars => [Framing!Next]_framingVars
BY DEF NetworkNext, allVars

-----------------------------------------------------------------------------
(* The stream of the demultiplexer block: what was written and what waits  *)
(* is what was published.                                                  *)

BlockPackets == [type : Types, size : Nat \ {0}, number : Nat]

BlockInv ==
  /\ queued \in Seq(BlockPackets) /\ stream \in Seq(BlockPackets)
  /\ ports \in Seq(BlockPackets)
  /\ working \in [at : {"idle", "before", "process", "after"}, space : Nat, plp : Int]
  /\ plpId \in Int
  /\ stream \o queued = ports
  /\ working.at = "idle" /\ queued # <<>> => working.space < Head(queued).size

(* Moving the head of the queue behind the stream changes nothing of the two. *)
LEMMA HeadMovesOver ==
  ASSUME NEW s \in Seq(BlockPackets), NEW q \in Seq(BlockPackets), q # <<>>
  PROVE  /\ Append(s, Head(q)) \in Seq(BlockPackets) /\ Tail(q) \in Seq(BlockPackets) /\ Head(q) \in BlockPackets
         /\ Append(s, Head(q)) \o Tail(q) = s \o q
<1>1. /\ Append(s, Head(q)) \in Seq(BlockPackets) /\ Tail(q) \in Seq(BlockPackets) /\ Head(q) \in BlockPackets
      /\ Len(Append(s, Head(q))) = Len(s) + 1 /\ Len(Tail(q)) = Len(q) - 1 /\ Len(q) \in Nat \ {0}
  OBVIOUS
<1> DEFINE left == Append(s, Head(q)) \o Tail(q)
           right == s \o q
<1>2. left \in Seq(BlockPackets) /\ right \in Seq(BlockPackets) /\ Len(left) = Len(right)
  BY <1>1
<1>3. ASSUME NEW i \in 1 .. Len(right) PROVE left[i] = right[i]
  <2>1. CASE i <= Len(s)
    BY <1>1, <2>1
  <2>2. CASE i = Len(s) + 1
    BY <1>1, <2>2
  <2>3. CASE i > Len(s) + 1
    <3>1. left[i] = Tail(q)[i - (Len(s) + 1)]
      BY <1>1, <2>3
    <3>2. right[i] = q[i - Len(s)]
      BY <2>3
    <3>3. i - (Len(s) + 1) \in 1 .. Len(q) - 1
      BY <1>1, <2>3
    <3>4. QED
      BY <3>1, <3>2, <3>3
  <2>4. QED
    BY <2>1, <2>2, <2>3
<1>4. left = right
  <2> HIDE DEF left, right
  <2>1. QED
    BY <1>2, <1>3
<1>5. QED
  BY <1>1, <1>4

(* A packet at the end of the queue is at the end of the whole. *)
LEMMA AppendedAtTheEnd ==
  ASSUME NEW s \in Seq(BlockPackets), NEW q \in Seq(BlockPackets), NEW x \in BlockPackets
  PROVE  s \o Append(q, x) = Append(s \o q, x)
<1> DEFINE left == s \o Append(q, x)
           right == Append(s \o q, x)
<1>1. left \in Seq(BlockPackets) /\ right \in Seq(BlockPackets) /\ Len(left) = Len(right)
  OBVIOUS
<1>2. ASSUME NEW i \in 1 .. Len(right) PROVE left[i] = right[i]
  OBVIOUS
<1>3. QED
  <2> HIDE DEF left, right
  <2>1. left = right
    BY <1>1, <1>2
  <2>2. QED
    BY <2>1 DEF left, right

LEMMA InitBlockInv == NetworkInit => BlockInv
<1> SUFFICES ASSUME NetworkInit PROVE BlockInv
  OBVIOUS
<1>1. Block!Init
  BY DEF NetworkInit
<1>2. QED
  BY <1>1, BlockAssumption DEF Block!Init, BlockInv, Block!All

LEMMA BlockStep ==
  ASSUME BlockInv, [Block!Next]_blockVars
  PROVE  BlockInv'
<1> USE BlockAssumption DEF BlockInv
<1>1. CASE Block!Write
  <2>1. /\ queued # <<>> /\ Head(queued).size <= working.space
        /\ stream' = Append(stream, Head(queued)) /\ queued' = Tail(queued)
        /\ working' = [working EXCEPT !.space = @ - Head(queued).size]
        /\ working.at \in {"before", "after"} /\ UNCHANGED <<plpId, ports>>
    BY <1>1 DEF Block!Write, Block!Fits
  <2>2. /\ stream' \in Seq(BlockPackets) /\ queued' \in Seq(BlockPackets)
        /\ Head(queued) \in BlockPackets
        /\ stream' \o queued' = stream \o queued
    <3>1. stream \in Seq(BlockPackets) /\ queued \in Seq(BlockPackets)
      OBVIOUS
    <3>2. queued # <<>>
      BY <2>1
    <3>3. /\ Append(stream, Head(queued)) \in Seq(BlockPackets)
          /\ Tail(queued) \in Seq(BlockPackets) /\ Head(queued) \in BlockPackets
          /\ Append(stream, Head(queued)) \o Tail(queued) = stream \o queued
      BY <3>1, <3>2, HeadMovesOver
    <3>4. QED
      BY <2>1, <3>3
  <2>3. /\ working' \in [at : {"idle", "before", "process", "after"}, space : Nat, plp : Int]
        /\ working'.at # "idle"
    <3>1. Head(queued).size \in Nat
      BY <2>2 DEF BlockPackets
    <3>2. working.space - Head(queued).size \in Nat
      BY <2>1, <3>1
    <3>3. QED
      BY <2>1, <3>2
  <2>4. QED
    BY <2>1, <2>2, <2>3
<1>2. CASE Block!Begin
  <2>1. PICK n \in BlockSpaces : working' = [at |-> "before", space |-> n, plp |-> 0]
    BY <1>2 DEF Block!Begin
  <2>2. working' \in [at : {"idle", "before", "process", "after"}, space : Nat, plp : Int]
    BY <2>1
  <2>3. working'.at # "idle" /\ UNCHANGED <<plpId, queued, ports, stream>>
    BY <1>2, <2>1 DEF Block!Begin
  <2>4. QED
    BY <2>2, <2>3
<1>3. CASE Block!Process
  <2>1. (IF plpId = Block!All THEN 0 ELSE plpId) \in Int
    OBVIOUS
  <2>2. QED
    BY <1>3, <2>1 DEF Block!Process
<1>4. CASE Block!Callback
  <2>1. PICK t \in Types, n \in BlockSizes :
          LET packet == [type |-> t, size |-> n, number |-> Len(ports) + 1]
          IN  /\ working.at = "process"
              /\ ports' = Append(ports, packet) /\ queued' = Append(queued, packet)
              /\ UNCHANGED <<plpId, working, stream>>
    BY <1>4 DEF Block!Callback
  <2> DEFINE packet == [type |-> t, size |-> n, number |-> Len(ports) + 1]
  <2>2. packet \in BlockPackets
    BY DEF BlockPackets
  <2>3. /\ working.at = "process"
        /\ ports' = Append(ports, packet) /\ queued' = Append(queued, packet)
        /\ UNCHANGED <<plpId, working, stream>>
    BY <2>1
  <2> HIDE DEF packet
  <2>4. stream' \o queued' = ports'
    <3>1. stream \in Seq(BlockPackets) /\ queued \in Seq(BlockPackets)
      OBVIOUS
    <3>2. stream \o Append(queued, packet) = Append(stream \o queued, packet)
      BY <2>2, <3>1, AppendedAtTheEnd
    <3>3. QED
      BY <2>3, <3>2
  <2>5. QED
    BY <2>2, <2>3, <2>4
<1>5. CASE Block!Filtered
  BY <1>5 DEF Block!Filtered, Block!vars
<1>6. CASE Block!Processed
  BY <1>6 DEF Block!Processed
<1>7. CASE Block!Return
  <2>1. /\ working' = [working EXCEPT !.at = "idle"] /\ ~ Block!Fits
        /\ UNCHANGED <<plpId, queued, ports, stream>>
    BY <1>7 DEF Block!Return
  <2>2. ASSUME queued # <<>> PROVE working.space < Head(queued).size
    <3>1. queued \in Seq(BlockPackets) /\ working.space \in Nat
      OBVIOUS
    <3>2. Head(queued) \in BlockPackets
      BY <2>2, <3>1
    <3>3. Head(queued).size \in Nat \ {0}
      BY <3>2 DEF BlockPackets
    <3>4. QED
      BY <2>1, <2>2, <3>1, <3>3 DEF Block!Fits
  <2>3. QED
    BY <2>1, <2>2
<1>8. CASE Block!SetPlpId
  BY <1>8 DEF Block!SetPlpId, Block!All
<1>9. CASE UNCHANGED blockVars
  BY <1>9 DEF blockVars
<1>10. QED
  BY <1>1, <1>2, <1>3, <1>4, <1>5, <1>6, <1>7, <1>8, <1>9 DEF Block!Next

(* The stream carries the packets that the message ports carry, whole and  *)
(* in order, and what waits had no room (alp_demux_impl::general_work, for *)
(* every size of packet and of output).                                    *)
THEOREM StreamCarriesThePackets == NetworkSpec => []StreamIsThePackets
<1>1. NetworkInit => BlockInv
  BY InitBlockInv
<1>2. BlockInv /\ [NetworkNext]_allVars => BlockInv'
  BY BlockUnit, BlockStep
<1>3. BlockInv => StreamIsThePackets
  BY DEF BlockInv, StreamIsThePackets, Block!StreamIsThePackets
<1>4. QED
  BY <1>1, <1>2, <1>3, PTL DEF NetworkSpec

-----------------------------------------------------------------------------
(* The service selector: while no selection fell inside general_work(),    *)
(* the payloads collected are of the session selected and of one object,   *)
(* and a selection leaves nothing of the last service behind.              *)

Collected(b) ==
  /\ b.parts \in Seq([tsi : Sessions, toi : Objects, size : SegmentSizes])
  /\ b.bytes \in Nat /\ b.bytes <= MaxSegment

OneObject(b) ==
  \A i, j \in DOMAIN b.parts :
    b.parts[i].tsi = b.parts[j].tsi /\ b.parts[i].toi = b.parts[j].toi

SelectorTypes ==
  /\ locked \in BOOLEAN
  /\ tsi \in Sessions \cup {0} /\ (~ locked => tsi = 0)
  /\ work = <<>> \/
       \E p \in [tsi : Sessions, toi : Objects, size : SegmentSizes] : work = <<p>>
  /\ Collected(segment) /\ Collected(emitted)

SelectorOrder ==
  ~ raced =>
    /\ ~ locked => work = <<>> /\ segment = Selector!Nothing
    /\ work # <<>> => work[1].tsi = tsi
    /\ \A i \in DOMAIN segment.parts :
         segment.parts[i].tsi = tsi /\ segment.parts[i].toi = toi
    /\ OneObject(emitted)

SelectorInv == SelectorTypes /\ SelectorOrder

LEMMA NothingCollected ==
  /\ Collected(Selector!Nothing) /\ OneObject(Selector!Nothing)
  /\ \A i \in DOMAIN Selector!Nothing.parts : FALSE
BY SegmentAssumption DEF Collected, OneObject, Selector!Nothing

LEMMA InitSelectorInv == NetworkInit => SelectorInv
<1> SUFFICES ASSUME NetworkInit PROVE SelectorInv
  OBVIOUS
<1>1. Selector!Init
  BY DEF NetworkInit
<1>2. /\ locked = FALSE /\ tsi = 0 /\ segment = Selector!Nothing /\ work = <<>>
      /\ emitted = Selector!Nothing
  BY <1>1 DEF Selector!Init, Selector!Idle
<1>3. locked \in BOOLEAN
  BY <1>2
<1>4. QED
  BY <1>2, <1>3, NothingCollected DEF SelectorInv, SelectorTypes, SelectorOrder

(* The packet that general_work() lets through is of the session selected. *)
LEMMA PassedOn ==
  ASSUME SelectorInv, NEW t \in Sessions, tsi' = t, Selector!Pass(t), work = <<>>,
         locked' = TRUE, tsi' = tsi \/ ~ locked,
         UNCHANGED <<toi, segment, emitted, raced>>
  PROVE  SelectorInv'
<1> USE DEF SelectorInv, SelectorTypes
<1>1. PICK o \in Objects, n \in SegmentSizes : work' = <<[tsi |-> t, toi |-> o, size |-> n]>>
  BY DEF Selector!Pass
<1>2. /\ [tsi |-> t, toi |-> o, size |-> n] \in [tsi : Sessions, toi : Objects, size : SegmentSizes]
      /\ work'[1].tsi = tsi'
  BY <1>1
<1>3. locked' \in BOOLEAN
  OBVIOUS
<1>4. SelectorTypes'
  BY <1>1, <1>2, <1>3 DEF Collected
<1>5. SelectorOrder'
  <2>1. CASE locked
    BY <1>2, <2>1 DEF SelectorOrder, OneObject
  <2>2. CASE ~ locked
    BY <1>2, <2>2, NothingCollected DEF SelectorOrder, OneObject
  <2>3. QED
    BY <2>1, <2>2
<1>6. QED
  BY <1>4, <1>5

LEMMA CollectKeeps ==
  ASSUME SelectorInv, Selector!Collect
  PROVE  SelectorInv'
<1> USE DEF SelectorInv
<1>1. PICK p \in {work[i] : i \in DOMAIN work} :
        /\ work' = <<>>
        /\ emitted' = IF Selector!Begins(p) THEN segment ELSE emitted
        /\ toi' = p.toi
        /\ segment' = IF Selector!Kept(p).bytes + p.size <= MaxSegment
                        THEN Selector!With(Selector!Kept(p), p) ELSE Selector!Kept(p)
        /\ UNCHANGED <<service, locked, tsi, raced>>
  BY DEF Selector!Collect, Selector!Idle, Selector!selection
<1>2. /\ work # <<>> /\ p = work[1]
      /\ p \in [tsi : Sessions, toi : Objects, size : SegmentSizes]
  BY DEF SelectorTypes
<1>3. p.size \in Nat
  BY <1>2, SegmentAssumption
<1>4. Collected(Selector!Kept(p))
  BY NothingCollected DEF Selector!Kept, SelectorTypes
<1>5. Collected(segment')
  <2>1. CASE segment' = Selector!Kept(p)
    BY <1>4, <2>1
  <2>2. CASE /\ segment' = Selector!With(Selector!Kept(p), p)
             /\ Selector!Kept(p).bytes + p.size <= MaxSegment
    <3>1. /\ segment'.parts = Append(Selector!Kept(p).parts, p)
          /\ segment'.bytes = Selector!Kept(p).bytes + p.size
      BY <2>2 DEF Selector!With
    <3>2. segment'.parts \in Seq([tsi : Sessions, toi : Objects, size : SegmentSizes])
      BY <1>2, <1>4, <3>1 DEF Collected
    <3>3. segment'.bytes \in Nat
      BY <1>3, <1>4, <3>1 DEF Collected
    <3>4. QED
      BY <2>2, <3>1, <3>2, <3>3 DEF Collected
  <2>3. QED
    BY <1>1, <2>1, <2>2
<1>6. Collected(emitted')
  BY <1>1 DEF SelectorTypes
<1>7. ASSUME ~ raced
      PROVE  /\ locked
             /\ \A i \in DOMAIN segment'.parts :
                  segment'.parts[i].tsi = tsi' /\ segment'.parts[i].toi = toi'
             /\ OneObject(emitted')
  <2>1. locked /\ p.tsi = tsi
    BY <1>2, <1>7 DEF SelectorOrder, SelectorTypes
  <2>2. \A i \in DOMAIN Selector!Kept(p).parts :
          Selector!Kept(p).parts[i].tsi = tsi /\ Selector!Kept(p).parts[i].toi = p.toi
    <3>1. CASE Selector!Begins(p) \/ segment = Selector!Nothing
      BY <3>1, NothingCollected DEF Selector!Kept
    <3>2. CASE p.toi = toi /\ ~ Selector!Begins(p)
      BY <3>2, <1>7 DEF Selector!Kept, SelectorOrder
    <3>3. QED
      BY <3>1, <3>2 DEF Selector!Begins
  <2>3. \A i \in DOMAIN segment'.parts :
          segment'.parts[i].tsi = tsi' /\ segment'.parts[i].toi = toi'
    <3>1. CASE segment' = Selector!Kept(p)
      BY <1>1, <2>2, <3>1
    <3>2. CASE segment' = Selector!With(Selector!Kept(p), p)
      <4>1. segment'.parts = Append(Selector!Kept(p).parts, p)
        BY <3>2 DEF Selector!With
      <4>2. QED
        BY <1>1, <1>4, <2>1, <2>2, <4>1 DEF Collected
    <3>3. QED
      BY <1>1, <3>1, <3>2
  <2>4. OneObject(emitted')
    BY <1>1, <1>7 DEF SelectorOrder, OneObject
  <2>5. QED
    BY <2>1, <2>3, <2>4
<1>8. SelectorTypes'
  BY <1>1, <1>5, <1>6 DEF SelectorTypes
<1>9. SelectorOrder'
  BY <1>1, <1>7 DEF SelectorOrder
<1>10. QED
  BY <1>8, <1>9

LEMMA SelectorStep ==
  ASSUME SelectorInv, [Selector!Next]_selectorVars
  PROVE  SelectorInv'
<1> USE DEF SelectorInv
<1>1. CASE Selector!Filter \/ Selector!NoPayload
  <2>1. /\ UNCHANGED <<locked, tsi, toi, segment, emitted, raced>>
        /\ work' = work \/ work' = <<>>
    BY <1>1 DEF Selector!Filter, Selector!Receive, Selector!NoPayload, Selector!Idle,
                Selector!selection
  <2>2. QED
    BY <2>1 DEF SelectorTypes, SelectorOrder, OneObject, Collected
<1>2. CASE Selector!Lock
  <2>1. PICK t \in Sessions : tsi' = t /\ Selector!Pass(t)
    BY <1>2 DEF Selector!Lock
  <2>2. /\ work = <<>> /\ ~ locked /\ locked' = TRUE
        /\ UNCHANGED <<toi, segment, emitted, raced>>
    BY <1>2 DEF Selector!Lock, Selector!Receive, Selector!Idle, Selector!Unlocked
  <2>3. QED
    BY <2>1, <2>2, PassedOn
<1>3. CASE Selector!Match
  <2>1. /\ work = <<>> /\ tsi # 0 /\ Selector!Pass(tsi)
        /\ UNCHANGED <<locked, tsi, toi, segment, emitted, raced>>
    BY <1>3 DEF Selector!Match, Selector!Receive, Selector!Idle, Selector!selection
  <2>2. locked' = TRUE /\ tsi \in Sessions
    BY <2>1 DEF SelectorTypes
  <2>3. QED
    BY <2>1, <2>2, PassedOn
<1>4. CASE Selector!Collect
  BY <1>4, CollectKeeps
<1>5. CASE Selector!SetServiceId
  <2>1. /\ locked' = FALSE /\ tsi' = 0 /\ segment' = Selector!Nothing
        /\ raced' = (raced \/ work # <<>>) /\ UNCHANGED <<toi, work, emitted>>
    BY <1>5 DEF Selector!SetServiceId, Selector!Idle
  <2>2. locked' \in BOOLEAN
    BY <2>1
  <2>3. SelectorTypes'
    BY <2>1, <2>2, NothingCollected DEF SelectorTypes, Collected
  <2>4. SelectorOrder'
    BY <2>1, NothingCollected DEF SelectorOrder, OneObject
  <2>5. QED
    BY <2>3, <2>4
<1>6. CASE UNCHANGED selectorVars
  BY <1>6 DEF selectorVars, SelectorTypes, SelectorOrder, OneObject, Collected
<1>7. QED
  BY <1>1, <1>2, <1>3, <1>4, <1>5, <1>6 DEF Selector!Next

(* What is put out at once are payloads of one object of one session, and   *)
(* no more than a segment may have, whatever is selected between two calls  *)
(* (service_selector_impl::general_work, set_service_id).                   *)
THEOREM SegmentsAreOneObject == NetworkSpec => []SegmentsOfOneObject
<1>1. NetworkInit => SelectorInv
  BY InitSelectorInv
<1>2. SelectorInv /\ [NetworkNext]_allVars => SelectorInv'
  BY SelectorUnit, SelectorStep
<1>3. SelectorInv => SegmentsOfOneObject
  BY DEF SelectorInv, SelectorTypes, SelectorOrder, Collected, OneObject,
         SegmentsOfOneObject, Selector!SegmentsOfOneObject
<1>4. QED
  BY <1>1, <1>2, <1>3, PTL DEF NetworkSpec

-----------------------------------------------------------------------------
(* The bytes ahead of the parser: those left in the buffer, then those     *)
(* still on the wire.  They are in line, from one packet to another, when  *)
(* the first begins the one packet, and every packet that is there ends    *)
(* where the next begins, or where the bytes end with the other.           *)

StreamBytes == [packet : Nat, at : Nat \ {0}, shape : Shapes]

Size == Framing!Left + Len(wire)

Ahead ==
  [i \in 1 .. Size |->
     IF i <= Framing!Left THEN buffer[offset + i] ELSE wire[i - Framing!Left]]

InLine(f, n, first, last) ==
  /\ n = 0 => first = last + 1
  /\ n > 0 => f[1].at = 1 /\ f[1].packet = first
  /\ \A i \in 1 .. n :
       /\ f[i] \in StreamBytes
       /\ f[i].at <= f[i].shape.total /\ f[i].packet <= last
       /\ \A end \in Nat : end = i + f[i].shape.total - f[i].at =>
            /\ end <= n
            /\ end = n => f[i].packet = last
            /\ end < n => f[end + 1].at = 1 /\ f[end + 1].packet = f[i].packet + 1

LEMMA TotalIsPositive ==
  ASSUME NEW s \in Shapes
  PROVE  s.total \in Nat \ {0}
BY FramingAssumption

(* Past the first packet, the bytes are in line from the next. *)
LEMMA NextInLine ==
  ASSUME NEW f, NEW n \in Nat \ {0}, NEW first \in Nat, NEW last \in Nat,
         InLine(f, n, first, last),
         NEW total \in Nat \ {0}, total = f[1].shape.total,
         NEW g, \A i \in 1 .. n - total : g[i] = f[i + total]
  PROVE  total <= n /\ InLine(g, n - total, first + 1, last)
<1> DEFINE m == n - total
<1>1. /\ f[1] \in StreamBytes /\ f[1].at = 1 /\ f[1].packet = first
      /\ total <= n
      /\ total = n => first = last
      /\ total < n => f[total + 1].at = 1 /\ f[total + 1].packet = first + 1
  <2>1. 1 \in 1 .. n /\ f[1].at = 1 /\ f[1].packet = first
    BY DEF InLine
  <2>2. total = 1 + f[1].shape.total - f[1].at
    BY <2>1
  <2>3. QED
    BY <2>1, <2>2 DEF InLine
<1>2. m \in Nat
  BY <1>1
<1>3. ASSUME NEW i \in 1 .. m
      PROVE  /\ g[i] \in StreamBytes
             /\ g[i].at <= g[i].shape.total /\ g[i].packet <= last
             /\ \A end \in Nat : end = i + g[i].shape.total - g[i].at =>
                  /\ end <= m
                  /\ end = m => g[i].packet = last
                  /\ end < m => g[end + 1].at = 1 /\ g[end + 1].packet = g[i].packet + 1
  <2>1. i + total \in 1 .. n /\ g[i] = f[i + total]
    BY <1>2
  <2>2. /\ g[i] \in StreamBytes /\ g[i].at <= g[i].shape.total /\ g[i].packet <= last
    BY <2>1 DEF InLine
  <2>3. ASSUME NEW end \in Nat, end = i + g[i].shape.total - g[i].at
        PROVE  /\ end <= m
               /\ end = m => g[i].packet = last
               /\ end < m => g[end + 1].at = 1 /\ g[end + 1].packet = g[i].packet + 1
    <3>1. g[i].shape.total \in Nat /\ g[i].at \in Nat
      BY <2>2, TotalIsPositive DEF StreamBytes
    <3>2. end + total = (i + total) + f[i + total].shape.total - f[i + total].at
      BY <2>1, <2>3, <3>1
    <3>3. /\ end + total <= n
          /\ end + total = n => g[i].packet = last
          /\ end + total < n => f[end + total + 1].at = 1
                              /\ f[end + total + 1].packet = g[i].packet + 1
      BY <2>1, <3>2 DEF InLine
    <3>4. end < m => end + 1 \in 1 .. m /\ g[end + 1] = f[end + total + 1]
      <4>1. ASSUME end < m PROVE end + 1 \in 1 .. m /\ g[end + 1] = f[(end + 1) + total]
        BY <1>2, <4>1
      <4>2. (end + 1) + total = end + total + 1
        OBVIOUS
      <4>3. QED
        BY <4>1, <4>2
    <3>5. QED
      BY <3>3, <3>4
  <2>4. QED
    BY <2>2, <2>3
<1>4. m = 0 => first + 1 = last + 1
  BY <1>1
<1>5. m > 0 => g[1].at = 1 /\ g[1].packet = first + 1
  BY <1>1, <1>2
<1> HIDE DEF m
<1>6. InLine(g, m, first + 1, last)
  BY <1>3, <1>4, <1>5 DEF InLine
<1>7. QED
  BY <1>1, <1>6 DEF m

(* Behind the last packet, the bytes of the next keep them in line. *)
LEMMA LongerInLine ==
  ASSUME NEW f, NEW n \in Nat, NEW first \in Nat, NEW last \in Nat,
         InLine(f, n, first, last), NEW s \in Shapes,
         NEW g, \A i \in 1 .. n : g[i] = f[i],
         \A i \in n + 1 .. n + s.total : g[i] = [packet |-> last + 1, at |-> i - n, shape |-> s]
  PROVE  InLine(g, n + s.total, first, last + 1)
<1> DEFINE m == n + s.total
<1>1. s.total \in Nat \ {0} /\ m \in Nat \ {0}
  BY TotalIsPositive
<1>2. n + 1 \in n + 1 .. m /\ g[n + 1] = [packet |-> last + 1, at |-> 1, shape |-> s]
  BY <1>1
<1>3. g[1].at = 1 /\ g[1].packet = first
  <2>1. CASE n = 0
    BY <1>2, <2>1 DEF InLine
  <2>2. CASE n > 0
    BY <2>2 DEF InLine
  <2>3. QED
    BY <2>1, <2>2
<1>4. ASSUME NEW i \in 1 .. m
      PROVE  /\ g[i] \in StreamBytes
             /\ g[i].at <= g[i].shape.total /\ g[i].packet <= last + 1
             /\ \A end \in Nat : end = i + g[i].shape.total - g[i].at =>
                  /\ end <= m
                  /\ end = m => g[i].packet = last + 1
                  /\ end < m => g[end + 1].at = 1 /\ g[end + 1].packet = g[i].packet + 1
  <2>1. CASE i <= n
    <3>1. /\ g[i] = f[i] /\ g[i] \in StreamBytes
          /\ g[i].at <= g[i].shape.total /\ g[i].packet <= last
      BY <2>1 DEF InLine
    <3>2. g[i].packet \in Nat /\ g[i].shape.total \in Nat /\ g[i].at \in Nat
      BY <3>1, TotalIsPositive DEF StreamBytes
    <3>3. ASSUME NEW end \in Nat, end = i + g[i].shape.total - g[i].at
          PROVE  /\ end < m
                 /\ g[end + 1].at = 1 /\ g[end + 1].packet = g[i].packet + 1
      <4>1. /\ end <= n
            /\ end = n => g[i].packet = last
            /\ end < n => f[end + 1].at = 1 /\ f[end + 1].packet = g[i].packet + 1
        BY <2>1, <3>1, <3>3 DEF InLine
      <4>2. CASE end = n
        BY <1>1, <1>2, <4>1, <4>2
      <4>3. CASE end < n
        BY <1>1, <4>1, <4>3
      <4>4. QED
        BY <4>1, <4>2, <4>3
    <3>4. QED
      BY <1>1, <3>1, <3>2, <3>3
  <2>2. CASE i > n
    <3>1. g[i] = [packet |-> last + 1, at |-> i - n, shape |-> s]
      BY <1>1, <2>2
    <3>2. i - n \in Nat \ {0} /\ i - n <= s.total
      BY <1>1, <2>2
    <3>3. QED
      BY <1>1, <2>2, <3>1, <3>2 DEF StreamBytes
  <2>3. QED
    BY <2>1, <2>2
<1> HIDE DEF m
<1>5. InLine(g, m, first, last + 1)
  BY <1>1, <1>3, <1>4 DEF InLine
<1>6. QED
  BY <1>5 DEF m

FramingTypes ==
  /\ wire \in Seq(StreamBytes) /\ buffer \in Seq(StreamBytes)
  /\ offset \in 0 .. Len(buffer) /\ (~ parsing => offset = 0)
  /\ launched \in Nat /\ packets \in Seq(Nat)

FramingOrder ==
  /\ \A i \in DOMAIN packets : packets[i] = i
  /\ InLine(Ahead, Size, Len(packets) + 1, launched)

FramingInv == FramingTypes /\ (aligned => FramingOrder)

LEMMA SizeIsNat ==
  ASSUME FramingTypes
  PROVE  /\ Framing!Left \in Nat /\ Size \in Nat
         /\ \A i \in 1 .. Size : Ahead[i] = IF i <= Framing!Left THEN buffer[offset + i]
                                           ELSE wire[i - Framing!Left]
BY DEF FramingTypes, Framing!Left, Size, Ahead

LEMMA InitFramingInv == NetworkInit => FramingInv
<1> SUFFICES ASSUME NetworkInit PROVE FramingInv
  OBVIOUS
<1>1. /\ wire = <<>> /\ launched = 0 /\ buffer = <<>> /\ offset = 0 /\ packets = <<>>
  BY DEF NetworkInit, Framing!Init
<1>2. FramingTypes
  BY <1>1 DEF FramingTypes
<1>3. Size = 0
  BY <1>1 DEF Size, Framing!Left
<1>4. FramingOrder
  BY <1>1, <1>3 DEF FramingOrder, InLine
<1>5. QED
  BY <1>2, <1>4 DEF FramingInv

(* Bytes that only go from the wire to the buffer, or are dealt with and    *)
(* dropped from it, leave what is ahead as it is.                           *)
LEMMA SameAhead ==
  ASSUME FramingInv, FramingTypes', UNCHANGED <<launched, packets>>, aligned' => aligned,
         Size' = Size, \A i \in 1 .. Size : Ahead'[i] = Ahead[i]
  PROVE  FramingInv'
<1>1. Ahead' = Ahead
  BY DEF Ahead
<1>2. FramingOrder => FramingOrder'
  BY <1>1 DEF FramingOrder, InLine
<1>3. QED
  BY <1>2 DEF FramingInv

LEMMA LaunchKeeps ==
  ASSUME FramingInv, Framing!Launch
  PROVE  FramingInv'
<1> USE DEF FramingInv
<1>1. PICK s \in Shapes :
        /\ launched' = launched + 1
        /\ wire' = wire \o Framing!PacketBytes(launched + 1, s)
        /\ UNCHANGED <<buffer, offset, parsing, packets, aligned>>
  BY DEF Framing!Launch
<1> DEFINE more == Framing!PacketBytes(launched + 1, s)
<1>2. s.total \in Nat \ {0} /\ launched \in Nat
  BY TotalIsPositive DEF FramingTypes
<1>3. /\ more \in Seq(StreamBytes) /\ Len(more) = s.total
      /\ \A k \in 1 .. s.total : more[k] = [packet |-> launched + 1, at |-> k, shape |-> s]
  <2>1. \A k \in 1 .. s.total :
          [packet |-> launched + 1, at |-> k, shape |-> s] \in StreamBytes
    BY <1>2 DEF StreamBytes
  <2>2. QED
    BY <1>2, <2>1 DEF Framing!PacketBytes
<1> HIDE DEF more
<1>4. wire' \in Seq(StreamBytes) /\ Len(wire') = Len(wire) + s.total
  BY <1>1, <1>2, <1>3 DEF FramingTypes, more
<1>5. FramingTypes'
  BY <1>1, <1>2, <1>4 DEF FramingTypes
<1>6. Size' = Size + s.total /\ Framing!Left' = Framing!Left
  <2>1. Framing!Left' = Framing!Left
    BY <1>1 DEF Framing!Left
  <2>2. Framing!Left \in Nat /\ Len(wire) \in Nat
    BY SizeIsNat DEF FramingTypes
  <2>3. Size = Framing!Left + Len(wire) /\ Size' = Framing!Left' + Len(wire')
    BY DEF Size
  <2>4. QED
    BY <1>2, <1>4, <2>1, <2>2, <2>3
<1>7. \A i \in 1 .. Size : Ahead'[i] = Ahead[i]
  <2> SUFFICES ASSUME NEW i \in 1 .. Size PROVE Ahead'[i] = Ahead[i]
    OBVIOUS
  <2>1. i \in 1 .. Size'
    BY <1>2, <1>6, SizeIsNat
  <2>2. CASE i <= Framing!Left
    BY <1>1, <1>6, <2>1, <2>2 DEF Ahead
  <2>3. CASE i > Framing!Left
    <3>1. i - Framing!Left \in 1 .. Len(wire)
      BY <2>3, SizeIsNat DEF Size
    <3>2. wire'[i - Framing!Left] = wire[i - Framing!Left]
      BY <1>1, <1>3, <3>1 DEF FramingTypes, more
    <3>3. QED
      BY <1>6, <2>1, <2>3, <3>2, SizeIsNat DEF Ahead
  <2>4. QED
    BY <2>2, <2>3, SizeIsNat
<1>8. \A i \in Size + 1 .. Size + s.total :
        Ahead'[i] = [packet |-> launched + 1, at |-> i - Size, shape |-> s]
  <2> SUFFICES ASSUME NEW i \in Size + 1 .. Size + s.total
               PROVE  Ahead'[i] = [packet |-> launched + 1, at |-> i - Size, shape |-> s]
    OBVIOUS
  <2>1. /\ i \in 1 .. Size' /\ i > Framing!Left /\ i - Size \in 1 .. s.total
        /\ i - Framing!Left = Len(wire) + (i - Size)
    <3>1. Size = Framing!Left + Len(wire) /\ Len(wire) \in Nat /\ Framing!Left \in Nat
      BY SizeIsNat DEF Size, FramingTypes
    <3>2. QED
      BY <1>2, <1>6, <3>1
  <2>2. wire'[Len(wire) + (i - Size)] = more[i - Size]
    <3>1. wire \in Seq(StreamBytes) /\ wire' = wire \o more
      BY <1>1 DEF FramingTypes, more
    <3>2. more \in Seq(StreamBytes) /\ i - Size \in 1 .. Len(more)
      BY <1>3, <2>1
    <3>3. \A u, v \in Seq(StreamBytes) :
            \A k \in 1 .. Len(v) : (u \o v)[Len(u) + k] = v[k]
      OBVIOUS
    <3> QED
      BY <3>1, <3>2, <3>3
  <2>3. Ahead'[i] = wire'[i - Framing!Left]
    BY <1>6, <2>1, SizeIsNat DEF Ahead
  <2>4. QED
    BY <1>3, <2>1, <2>2, <2>3
<1>9. ASSUME aligned PROVE FramingOrder'
  <2>1. Len(packets) + 1 \in Nat /\ InLine(Ahead, Size, Len(packets) + 1, launched)
    BY <1>9 DEF FramingOrder, FramingTypes
  <2>2. InLine(Ahead', Size + s.total, Len(packets) + 1, launched + 1)
    BY <1>2, <1>7, <1>8, <2>1, SizeIsNat, LongerInLine
  <2>3. InLine(Ahead', Size', Len(packets') + 1, launched')
    BY <1>1, <1>6, <2>2
  <2>4. QED
    BY <1>1, <1>9, <2>3 DEF FramingOrder
<1>10. QED
  BY <1>1, <1>5, <1>9

LEMMA ProcessKeeps ==
  ASSUME FramingInv, Framing!Process
  PROVE  FramingInv'
<1> USE DEF FramingInv
<1>1. PICK n \in 1 .. Len(wire) :
        /\ ~ parsing /\ parsing' = TRUE
        /\ buffer' = buffer \o SubSeq(wire, 1, n)
        /\ wire' = SubSeq(wire, n + 1, Len(wire))
        /\ UNCHANGED <<launched, offset, packets, aligned>>
  BY DEF Framing!Process
<1>2. offset = 0 /\ wire \in Seq(StreamBytes) /\ buffer \in Seq(StreamBytes)
  BY <1>1 DEF FramingTypes
<1>3. /\ buffer' \in Seq(StreamBytes) /\ Len(buffer') = Len(buffer) + n
      /\ wire' \in Seq(StreamBytes) /\ Len(wire') = Len(wire) - n
  BY <1>1, <1>2
<1>4. FramingTypes'
  BY <1>1, <1>2, <1>3 DEF FramingTypes
<1>5. Framing!Left = Len(buffer) /\ Framing!Left' = Len(buffer) + n
  BY <1>1, <1>2, <1>3 DEF Framing!Left
<1>6. Size' = Size
  <2>1. Size = Len(buffer) + Len(wire) /\ Size' = Len(buffer) + n + Len(wire')
    BY <1>5 DEF Size
  <2>2. Len(buffer) \in Nat /\ Len(wire) \in Nat
    BY <1>2
  <2>3. QED
    BY <1>3, <2>1, <2>2
<1>7. ASSUME NEW i \in 1 .. Size PROVE Ahead'[i] = Ahead[i]
  <2>1. i \in 1 .. Len(buffer) + Len(wire) /\ i \in 1 .. Size'
    BY <1>5, <1>6 DEF Size
  <2>2. Ahead[i] = IF i <= Len(buffer) THEN buffer[i] ELSE wire[i - Len(buffer)]
    BY <1>2, <1>5, <2>1 DEF Ahead
  <2>3. Ahead'[i] = IF i <= Len(buffer) + n THEN buffer'[i] ELSE wire'[i - (Len(buffer) + n)]
    BY <1>1, <1>2, <1>5, <2>1 DEF Ahead
  <2>4. CASE i <= Len(buffer)
    BY <1>1, <1>2, <2>1, <2>2, <2>3, <2>4
  <2>5. CASE i > Len(buffer) /\ i <= Len(buffer) + n
    <3>1. i - Len(buffer) \in 1 .. n
      BY <1>2, <2>1, <2>5
    <3>2. buffer'[i] = SubSeq(wire, 1, n)[i - Len(buffer)]
      BY <1>1, <1>2, <2>1, <2>5
    <3>3. SubSeq(wire, 1, n)[i - Len(buffer)] = wire[i - Len(buffer)]
      BY <1>2, <3>1
    <3>4. QED
      BY <1>2, <2>1, <2>2, <2>3, <2>5, <3>2, <3>3
  <2>6. CASE i > Len(buffer) + n
    <3>1. i - (Len(buffer) + n) \in 1 .. Len(wire) - n
      BY <1>2, <2>1, <2>6
    <3>2. wire'[i - (Len(buffer) + n)] = wire[(i - (Len(buffer) + n)) + n]
      BY <1>1, <1>2, <3>1
    <3>3. (i - (Len(buffer) + n)) + n = i - Len(buffer) /\ i > Len(buffer)
      BY <1>2, <2>1, <2>6
    <3>4. QED
      BY <1>2, <2>1, <2>2, <2>3, <2>6, <3>2, <3>3
  <2>7. QED
    BY <1>2, <2>1, <2>4, <2>5, <2>6
<1>8. QED
  BY <1>1, <1>4, <1>6, <1>7, SameAhead

LEMMA ReturnKeeps ==
  ASSUME FramingInv, Framing!Return
  PROVE  FramingInv'
<1> USE DEF FramingInv
<1>1. /\ buffer' = SubSeq(buffer, offset + 1, Len(buffer))
      /\ offset' = 0 /\ parsing' = FALSE
      /\ UNCHANGED <<wire, launched, packets, aligned>>
  BY DEF Framing!Return
<1>2. offset \in 0 .. Len(buffer) /\ buffer \in Seq(StreamBytes)
  BY DEF FramingTypes
<1>3. /\ buffer' \in Seq(StreamBytes) /\ Len(buffer') = Len(buffer) - offset
      /\ \A i \in 1 .. Len(buffer) - offset : buffer'[i] = buffer[offset + i]
  BY <1>1, <1>2
<1>4. FramingTypes'
  BY <1>1, <1>2, <1>3 DEF FramingTypes
<1>5. Framing!Left' = Framing!Left /\ Size' = Size
  BY <1>1, <1>2, <1>3 DEF Framing!Left, Size
<1>6. ASSUME NEW i \in 1 .. Size PROVE Ahead'[i] = Ahead[i]
  <2>1. CASE i <= Framing!Left
    <3>1. i \in 1 .. Len(buffer) - offset
      BY <2>1 DEF Framing!Left
    <3>2. buffer'[offset' + i] = buffer[offset + i]
      BY <1>1, <1>3, <3>1
    <3>3. QED
      BY <1>1, <1>5, <2>1, <3>2 DEF Ahead
  <2>2. CASE ~ (i <= Framing!Left)
    BY <1>1, <1>5, <2>2 DEF Ahead
  <2>3. QED
    BY <2>1, <2>2
<1>7. QED
  BY <1>1, <1>4, <1>5, <1>6, SameAhead

(* In line, the parser is at the first byte of a packet. *)
LEMMA AtAFirstByte ==
  ASSUME FramingInv, aligned, Framing!Left \in Nat \ {0}
  PROVE  /\ Ahead[1] = buffer[offset + 1]
         /\ buffer[offset + 1].at = 1 /\ buffer[offset + 1].packet = Len(packets) + 1
         /\ buffer[offset + 1] \in StreamBytes /\ Size \in Nat \ {0}
<1>1. Size \in Nat \ {0} /\ 1 \in 1 .. Size /\ 1 <= Framing!Left
  BY SizeIsNat DEF Size, FramingInv, FramingTypes
<1>2. Ahead[1] = buffer[offset + 1]
  BY <1>1 DEF Ahead
<1>3. InLine(Ahead, Size, Len(packets) + 1, launched)
  BY DEF FramingInv, FramingOrder
<1>4. QED
  BY <1>1, <1>2, <1>3 DEF InLine

LEMMA TakeKeeps ==
  ASSUME FramingInv, Framing!TakePacket
  PROVE  FramingInv'
<1> USE DEF FramingInv
<1>1. PICK s \in Framing!Found :
        /\ parsing /\ Framing!Left >= MinHeader /\ s.total <= Framing!Left
        /\ packets' = Append(packets, IF buffer[offset + 1].at = 1
                                      THEN buffer[offset + 1].packet ELSE 0)
        /\ offset' = offset + s.total
        /\ UNCHANGED <<wire, launched, buffer, parsing, aligned>>
  BY DEF Framing!TakePacket
<1>2. s \in Shapes /\ s.total \in Nat \ {0} /\ (buffer[offset + 1].at = 1 => s = buffer[offset + 1].shape)
  BY TotalIsPositive DEF Framing!Found
<1>3. /\ offset \in 0 .. Len(buffer) /\ buffer \in Seq(StreamBytes) /\ wire \in Seq(StreamBytes)
      /\ packets \in Seq(Nat) /\ launched \in Nat
  BY DEF FramingTypes
<1>4. Framing!Left \in Nat \ {0} /\ Framing!Left = Len(buffer) - offset
  BY <1>1, <1>3, FramingAssumption DEF Framing!Left
<1>5. buffer[offset + 1] \in StreamBytes
  BY <1>3, <1>4
<1>6. packets' \in Seq(Nat) /\ Len(packets') = Len(packets) + 1
  BY <1>1, <1>3, <1>5 DEF StreamBytes
<1>7. offset' \in 0 .. Len(buffer)
  BY <1>1, <1>2, <1>3, <1>4
<1>8. FramingTypes'
  BY <1>1, <1>3, <1>6, <1>7 DEF FramingTypes
<1>9. ASSUME aligned PROVE FramingOrder'
  <2>1. /\ Ahead[1] = buffer[offset + 1] /\ buffer[offset + 1].at = 1
        /\ buffer[offset + 1].packet = Len(packets) + 1 /\ Size \in Nat \ {0}
    BY <1>4, <1>9, AtAFirstByte
  <2>2. s.total = Ahead[1].shape.total
    BY <1>2, <2>1
  <2>3. Framing!Left' = Framing!Left - s.total /\ Size' = Size - s.total
    BY <1>1, <1>2, <1>3, <1>4 DEF Framing!Left, Size
  <2>4. ASSUME NEW i \in 1 .. Size - s.total PROVE Ahead'[i] = Ahead[i + s.total]
    <3>1. i \in 1 .. Size' /\ i + s.total \in 1 .. Size
      BY <1>2, <2>1, <2>3
    <3>2. i <= Framing!Left' <=> i + s.total <= Framing!Left
      BY <1>2, <1>4, <2>3
    <3>3. offset' + i = offset + (i + s.total)
      BY <1>1, <1>2, <1>3
    <3>4. i - Framing!Left' = (i + s.total) - Framing!Left
      BY <1>2, <1>4, <2>3
    <3>5. Ahead'[i] = IF i <= Framing!Left' THEN buffer'[offset' + i] ELSE wire'[i - Framing!Left']
      BY <3>1 DEF Ahead
    <3>6. Ahead[i + s.total] = IF i + s.total <= Framing!Left THEN buffer[offset + (i + s.total)]
                               ELSE wire[(i + s.total) - Framing!Left]
      BY <3>1 DEF Ahead
    <3>7. QED
      BY <1>1, <3>2, <3>3, <3>4, <3>5, <3>6
  <2>5. InLine(Ahead, Size, Len(packets) + 1, launched)
    BY <1>9 DEF FramingOrder
  <2>6. Len(packets) + 1 \in Nat
    BY <1>3
  <2>7. InLine(Ahead', Size - s.total, Len(packets) + 1 + 1, launched)
    BY <1>2, <1>3, <2>1, <2>2, <2>4, <2>5, <2>6, NextInLine
  <2>8. InLine(Ahead', Size', Len(packets') + 1, launched')
    BY <1>1, <1>6, <2>3, <2>7
  <2>9. \A i \in DOMAIN packets' : packets'[i] = i
    BY <1>1, <1>3, <1>9, <2>1 DEF FramingOrder
  <2>10. QED
    BY <2>8, <2>9 DEF FramingOrder
<1>10. QED
  BY <1>1, <1>8, <1>9

LEMMA SkipKeeps ==
  ASSUME FramingInv, Framing!SkipByte
  PROVE  FramingInv'
<1> USE DEF FramingInv
<1>1. /\ parsing /\ Framing!Left >= MinHeader /\ offset' = offset + 1
      /\ aligned' = (aligned /\ buffer[offset + 1].at # 1)
      /\ UNCHANGED <<wire, launched, buffer, parsing, packets>>
  BY DEF Framing!SkipByte
<1>2. offset \in 0 .. Len(buffer) /\ Framing!Left \in Nat \ {0}
  BY <1>1, FramingAssumption DEF FramingTypes, Framing!Left
<1>3. FramingTypes'
  BY <1>1, <1>2 DEF FramingTypes, Framing!Left
<1>4. ~ aligned'
  BY <1>1, <1>2, AtAFirstByte
<1>5. QED
  BY <1>3, <1>4

LEMMA FramingStep ==
  ASSUME FramingInv, [Framing!Next]_framingVars
  PROVE  FramingInv'
<1>1. CASE Framing!Launch \/ Framing!Process \/ Framing!SkipByte \/ Framing!TakePacket
  BY <1>1, LaunchKeeps, ProcessKeeps, SkipKeeps, TakeKeeps
<1>2. CASE Framing!AwaitHeader \/ Framing!AwaitPayload
  BY <1>2, ReturnKeeps DEF Framing!AwaitHeader, Framing!AwaitPayload
<1>3. CASE Framing!Discard
  <2>1. /\ ~ parsing /\ buffer' = <<>> /\ aligned' = (aligned /\ buffer = <<>>)
        /\ UNCHANGED <<wire, launched, offset, parsing, packets>>
    BY <1>3 DEF Framing!Discard
  <2>2. FramingTypes'
    BY <2>1 DEF FramingInv, FramingTypes
  <2>3. CASE aligned'
    <3>1. buffer' = buffer /\ aligned
      BY <2>1, <2>3
    <3>2. Size' = Size /\ \A i \in 1 .. Size : Ahead'[i] = Ahead[i]
      BY <2>1, <3>1 DEF Size, Ahead, Framing!Left
    <3>3. QED
      BY <2>1, <2>2, <3>1, <3>2, SameAhead
  <2>4. CASE ~ aligned'
    BY <2>2, <2>4 DEF FramingInv
  <2>5. QED
    BY <2>3, <2>4
<1>4. CASE UNCHANGED framingVars
  BY <1>4 DEF framingVars, FramingInv, FramingTypes, FramingOrder, Size, Ahead, Framing!Left
<1>5. QED
  BY <1>1, <1>2, <1>3, <1>4 DEF Framing!Next, Framing!Stream

(* However the stream is cut into calls of process(), no packet is lost or  *)
(* made up as long as no header was cut off and nothing was flushed         *)
(* (AlpDemux::process, for all sizes of headers, packets and calls).        *)
THEOREM AlignedStreamInOrder == NetworkSpec => []AlignedPacketsInOrder
<1>1. NetworkInit => FramingInv
  BY InitFramingInv
<1>2. FramingInv /\ [NetworkNext]_allVars => FramingInv'
  BY FramingUnit, FramingStep
<1>3. FramingInv => AlignedPacketsInOrder
  <2> SUFFICES ASSUME FramingInv, aligned PROVE Framing!EveryPacketInOrder
    BY DEF AlignedPacketsInOrder, Framing!AlignedPacketsInOrder
  <2>1. FramingTypes /\ FramingOrder
    BY DEF FramingInv
  <2>2. ASSUME wire = <<>>, ~ parsing PROVE buffer = <<>> <=> Len(packets) = launched
    <3>1. Framing!Left = Len(buffer) /\ Size = Len(buffer) /\ Len(buffer) \in Nat
      BY <2>1, <2>2 DEF FramingTypes, Framing!Left, Size
    <3>2. CASE buffer = <<>>
      <4>1. Len(packets) + 1 = launched + 1
        BY <2>1, <3>1, <3>2 DEF FramingOrder, InLine
      <4>2. QED
        BY <2>1, <3>2, <4>1 DEF FramingTypes
    <3>3. CASE buffer # <<>>
      <4>1. Framing!Left \in Nat \ {0}
        BY <2>1, <3>1, <3>3 DEF FramingTypes
      <4>2. Ahead[1].packet = Len(packets) + 1 /\ 1 \in 1 .. Size
        BY <4>1, <3>1, AtAFirstByte
      <4>3. Ahead[1].packet <= launched
        BY <2>1, <4>2 DEF FramingOrder, InLine
      <4>4. QED
        BY <2>1, <3>3, <4>2, <4>3 DEF FramingTypes
    <3>4. QED
      BY <3>2, <3>3
  <2>3. QED
    BY <2>1, <2>2 DEF FramingOrder, Framing!EveryPacketInOrder
<1>4. QED
  BY <1>1, <1>2, <1>3, PTL DEF NetworkSpec

-----------------------------------------------------------------------------
(* ROUTE signalling: where the fields of a header are, and the MPD of a     *)
(* service.                                                                 *)

LEMMA RouteUnit == [NetworkNext]_allVars => [Route!SignallingNext]_routeVars
BY DEF NetworkNext, allVars

(* Whatever the flags, the fields of a header that is long enough end before *)
(* the packet and before the payload.                                        *)
LEMMA FieldsAreInside ==
  ASSUME NEW p \in LctPackets, Route!HeaderIsValid(p)
  PROVE  Route!BytesRead(p) <= p.len /\ Route!BytesRead(p) <= Route!HeaderBytes(p)
<1> DEFINE cci == Route!CciSize(p)
           ts == Route!TsiSize(p)
           size == Route!ToiSize(p)
<1>1. cci \in Nat /\ ts \in Nat /\ size \in Nat /\ p.words \in Nat /\ p.len \in Nat
  <2>1. p.o + 1 \in 1 .. 4 /\ p.words \in Nat /\ p.len \in Nat
    BY RouteAssumption
  <2>2. size \in Nat
    BY <2>1 DEF Route!ToiSize
  <2>3. QED
    BY <2>1, <2>2 DEF Route!CciSize, Route!TsiSize
<1>2. /\ Route!BytesRead(p) = (4 + cci + ts) + (IF size > 4 THEN 4 ELSE size)
      /\ 4 + cci + ts + size <= p.len
      /\ Route!HeaderBytes(p) = IF p.words * 4 < (4 + cci + ts) + size
                               THEN (4 + cci + ts) + size ELSE p.words * 4
  <2>1. Route!ShortestHeader(p) <= p.len
    BY RouteAssumption, <1>1 DEF Route!HeaderIsValid, Route!ShortestHeader
  <2>2. QED
    BY <2>1 DEF Route!BytesRead, Route!HeaderBytes, Route!ToiOffset, Route!ShortestHeader
<1>3. QED
  <2> HIDE DEF cci, ts, size
  <2>1. p.words * 4 \in Nat
    BY <1>1
  <2>2. QED
    BY <1>1, <1>2, <2>1

LEMMA HeaderStep ==
  ASSUME FieldsInsideHeader, [Route!SignallingNext]_routeVars
  PROVE  FieldsInsideHeader'
<1> USE DEF FieldsInsideHeader, Route!FieldsInsideHeader
<1>1. CASE \E p \in LctPackets : Route!Header(p)
  <2>1. PICK p \in LctPackets : Route!Header(p)
    BY <1>1
  <2>2. /\ Route!HeaderIsValid(p)
        /\ extent' = [read |-> Route!BytesRead(p), header |-> Route!HeaderBytes(p),
                      len |-> p.len]
    BY <2>1 DEF Route!Header
  <2>3. Route!BytesRead(p) <= p.len /\ Route!BytesRead(p) <= Route!HeaderBytes(p)
    BY <2>2, FieldsAreInside
  <2>4. QED
    BY <2>2, <2>3
<1>2. CASE UNCHANGED extent
  BY <1>2
<1>3. \/ \E p \in LctPackets : Route!Header(p)
      \/ UNCHANGED extent
  BY DEF Route!SignallingNext, routeVars, Route!BadHeader, Route!NoTable, Route!NoRoot,
         Route!ParseSlt, Route!ParseStsid, Route!ParseMpd, Route!ResetParser
<1>4. QED
  BY <1>1, <1>2, <1>3

(* No header of signalling is read beyond its packet or into what the parser *)
(* takes for the payload (RouteParser::parse_lct_header, for every           *)
(* combination of flags, every length and every header length word).         *)
THEOREM HeadersAreReadInside == NetworkSpec => []FieldsInsideHeader
<1>1. NetworkInit => FieldsInsideHeader
  BY DEF NetworkInit, Route!SignallingInit, FieldsInsideHeader, Route!FieldsInsideHeader
<1>2. FieldsInsideHeader /\ [NetworkNext]_allVars => FieldsInsideHeader'
  BY RouteUnit, HeaderStep
<1>3. QED
  BY <1>1, <1>2, PTL DEF NetworkSpec

(* What the cache gives is typed, so that the last entry can be compared. *)
Mpds == {p.body.url : p \in LctPackets} \union {NoTables}
CacheEntries == [service : ServiceIds, mpd : Mpds]

CacheInv ==
  /\ mpdCache \in Seq(CacheEntries)
  /\ latest \in [ServiceIds -> Mpds]
  /\ LatestMpd

Same(cache, id) == {i \in 1 .. Len(cache) : cache[i].service = id}
FirstIn(cache, id) == CHOOSE i \in Same(cache, id) : \A j \in Same(cache, id) : i <= j

(* get_mpd() by its first entry *)
LEMMA GetMpdIs ==
  ASSUME NEW id \in ServiceIds
  PROVE  Route!GetMpd(id) =
           IF Same(mpdCache, id) = {} THEN NoTables ELSE mpdCache[FirstIn(mpdCache, id)].mpd
BY DEF Route!GetMpd, Same, FirstIn

LEMMA GetMpdIsPrimed ==
  ASSUME NEW id \in ServiceIds
  PROVE  Route!GetMpd(id)' =
           IF Same(mpdCache', id) = {} THEN NoTables
           ELSE mpdCache'[FirstIn(mpdCache', id)].mpd
BY DEF Route!GetMpd, Same, FirstIn

(* Of entries of a service there is a first. *)
LEMMA FirstIsOne ==
  ASSUME NEW cache \in Seq(CacheEntries), NEW id, Same(cache, id) # {}
  PROVE  FirstIn(cache, id) \in Same(cache, id)
<1>1. Same(cache, id) \subseteq Nat
  BY DEF Same
<1>2. PICK i \in Same(cache, id) : \A j \in Same(cache, id) : i <= j
  BY <1>1, Least
<1>3. QED
  BY <1>2 DEF FirstIn

(* An entry put at the end is the first of its service when there was none. *)
LEMMA EntryAtTheEnd ==
  ASSUME NEW cache \in Seq(CacheEntries), NEW e \in CacheEntries, NEW id \in ServiceIds,
         Same(cache, e.service) = {}
  PROVE  /\ Append(cache, e) \in Seq(CacheEntries)
         /\ id # e.service => Same(Append(cache, e), id) = Same(cache, id)
         /\ id = e.service => Same(Append(cache, e), id) = {Len(cache) + 1}
         /\ \A i \in 1 .. Len(cache) : Append(cache, e)[i] = cache[i]
         /\ Append(cache, e)[Len(cache) + 1] = e
<1>1. /\ Append(cache, e) \in Seq(CacheEntries) /\ Len(Append(cache, e)) = Len(cache) + 1
      /\ \A i \in 1 .. Len(cache) : Append(cache, e)[i] = cache[i]
      /\ Append(cache, e)[Len(cache) + 1] = e
  OBVIOUS
<1> DEFINE new == Append(cache, e)
<1>2. 1 .. Len(new) = (1 .. Len(cache)) \union {Len(cache) + 1} /\ Len(cache) \in Nat
  BY <1>1
<1>3. \A i \in 1 .. Len(cache) : cache[i].service # e.service
  BY DEF Same
<1> HIDE DEF new
<1>4. new = Append(cache, e)
  BY DEF new
<1>5. id # e.service => Same(new, id) = Same(cache, id)
  BY <1>1, <1>2, <1>4 DEF Same
<1>6. id = e.service => Same(new, id) = {Len(cache) + 1}
  BY <1>1, <1>2, <1>3, <1>4 DEF Same
<1>7. QED
  BY <1>1, <1>4, <1>5, <1>6

LEMMA CacheStep ==
  ASSUME CacheInv, [Route!SignallingNext]_routeVars
  PROVE  CacheInv'
<1>1. mpdCache \in Seq(CacheEntries) /\ latest \in [ServiceIds -> Mpds]
  BY DEF CacheInv
<1>2. \A id \in ServiceIds : Route!GetMpd(id) = latest[id]
  BY DEF CacheInv, LatestMpd, Route!LatestMpd
<1>3. CASE Route!ParseMpd
  <2>1. PICK p \in LctPackets :
          /\ mpdCache' = Route!Cached(Route!ServiceId(p), p.body.url)
          /\ latest' = [latest EXCEPT ![Route!ServiceId(p)] = p.body.url]
    BY <1>3 DEF Route!ParseMpd
  <2> DEFINE sid == Route!ServiceId(p)
             entry == [service |-> sid, mpd |-> p.body.url]
  <2>2. sid \in ServiceIds /\ p.body.url \in Mpds
    BY RouteAssumption DEF Route!ServiceId, Mpds
  <2>3. entry \in CacheEntries /\ entry.service = sid /\ entry.mpd = p.body.url
    BY <2>2 DEF CacheEntries
  <2>4. mpdCache' = IF Same(mpdCache, sid) = {} THEN Append(mpdCache, entry)
                    ELSE [mpdCache EXCEPT ![FirstIn(mpdCache, sid)] = entry]
    BY <2>1 DEF Route!Cached, Same, FirstIn
  <2> HIDE DEF sid, entry
  <2>5. latest' \in [ServiceIds -> Mpds]
        /\ \A id \in ServiceIds : latest'[id] = IF id = sid THEN entry.mpd ELSE latest[id]
    <3>1. latest' = [latest EXCEPT ![sid] = entry.mpd]
      BY <2>1, <2>3 DEF sid
    <3>2. entry.mpd \in Mpds
      BY <2>2, <2>3
    <3>3. QED
      BY <1>1, <2>2, <3>1, <3>2
  <2>6. CASE Same(mpdCache, sid) = {}
    <3>1. mpdCache' = Append(mpdCache, entry)
      BY <2>4, <2>6
    <3>2. ASSUME NEW id \in ServiceIds PROVE Route!GetMpd(id)' = latest'[id]
      <4>1. /\ id # sid => Same(mpdCache', id) = Same(mpdCache, id)
            /\ id = sid => Same(mpdCache', id) = {Len(mpdCache) + 1}
            /\ \A i \in 1 .. Len(mpdCache) : mpdCache'[i] = mpdCache[i]
            /\ mpdCache'[Len(mpdCache) + 1] = entry
        BY <1>1, <2>3, <2>6, <3>1, EntryAtTheEnd
      <4>2. CASE id = sid
        <5>1. FirstIn(mpdCache', id) = Len(mpdCache) + 1
          BY <1>1, <4>1, <4>2 DEF FirstIn
        <5>2. Route!GetMpd(id)' = entry.mpd
          BY <4>1, <4>2, <5>1, GetMpdIsPrimed
        <5>3. QED
          BY <2>5, <4>2, <5>2
      <4>3. CASE id # sid
        <5>1. FirstIn(mpdCache', id) = FirstIn(mpdCache, id)
          BY <4>1, <4>3 DEF FirstIn
        <5>2. Route!GetMpd(id)' = Route!GetMpd(id)
          <6>1. CASE Same(mpdCache, id) = {}
            BY <4>1, <4>3, <6>1, GetMpdIs, GetMpdIsPrimed
          <6>2. CASE Same(mpdCache, id) # {}
            <7>1. FirstIn(mpdCache, id) \in 1 .. Len(mpdCache)
              BY <1>1, <6>2, FirstIsOne DEF Same
            <7>2. QED
              BY <4>1, <4>3, <5>1, <6>2, <7>1, GetMpdIs, GetMpdIsPrimed
          <6>3. QED
            BY <6>1, <6>2
        <5>3. QED
          BY <1>2, <2>5, <4>3, <5>2
      <4>4. QED
        BY <4>2, <4>3
    <3>3. mpdCache' \in Seq(CacheEntries)
      BY <1>1, <2>3, <3>1
    <3>4. QED
      BY <2>5, <3>2, <3>3 DEF CacheInv, LatestMpd, Route!LatestMpd
  <2>7. CASE Same(mpdCache, sid) # {}
    <3> DEFINE f == FirstIn(mpdCache, sid)
    <3>1. mpdCache' = [mpdCache EXCEPT ![f] = entry]
      BY <2>4, <2>7
    <3>2. f \in Same(mpdCache, entry.service)
      BY <1>1, <2>3, <2>7, FirstIsOne
    <3>3. f \in 1 .. Len(mpdCache) /\ f = FirstIn(mpdCache, sid) /\ mpdCache[f].service = sid
      BY <2>3, <3>2 DEF Same
    <3> HIDE DEF f
    <3>4. ASSUME NEW id \in ServiceIds PROVE Route!GetMpd(id)' = latest'[id]
      <4>1. /\ Same(mpdCache', id) = Same(mpdCache, id)
            /\ \A i \in 1 .. Len(mpdCache) :
                 mpdCache'[i] = IF i = f THEN entry ELSE mpdCache[i]
        <5>1. /\ mpdCache' \in Seq(CacheEntries) /\ Len(mpdCache') = Len(mpdCache)
              /\ \A i \in 1 .. Len(mpdCache) :
                   mpdCache'[i] = IF i = f THEN entry ELSE mpdCache[i]
          <6>1. f \in 1 .. Len(mpdCache) /\ entry \in CacheEntries
            BY <2>3, <3>3
          <6>2. QED
            BY <1>1, <3>1, <6>1
        <5>2. PICK new : new = mpdCache'
          OBVIOUS
        <5>3. Same(new, id) = Same(mpdCache, id)
          <6>1. /\ new \in Seq(CacheEntries) /\ Len(new) = Len(mpdCache)
                /\ \A i \in 1 .. Len(mpdCache) :
                     new[i] = IF i = f THEN entry ELSE mpdCache[i]
            BY <5>1, <5>2
          <6>2. f \in 1 .. Len(mpdCache) /\ mpdCache[f].service = entry.service
            BY <2>3, <3>3
          <6>3. QED
            BY <6>1, <6>2 DEF Same
        <5>4. QED
          BY <5>1, <5>2, <5>3
      <4>2. FirstIn(mpdCache', id) = FirstIn(mpdCache, id)
        BY <4>1 DEF FirstIn
      <4>3. CASE id = sid
        <5>1. Route!GetMpd(id)' = mpdCache'[f].mpd
          BY <2>7, <3>3, <4>1, <4>2, <4>3, GetMpdIsPrimed
        <5>2. QED
          BY <2>5, <3>3, <4>1, <4>3, <5>1
      <4>4. CASE id # sid
        <5>1. Route!GetMpd(id)' = Route!GetMpd(id)
          <6>1. CASE Same(mpdCache, id) = {}
            BY <4>1, <6>1, GetMpdIs, GetMpdIsPrimed
          <6>2. CASE Same(mpdCache, id) # {}
            <7>1. /\ FirstIn(mpdCache, id) \in 1 .. Len(mpdCache)
                  /\ mpdCache[FirstIn(mpdCache, id)].service = id
              BY <1>1, <6>2, FirstIsOne DEF Same
            <7>2. FirstIn(mpdCache, id) # f
              BY <3>3, <4>4, <7>1
            <7>3. QED
              BY <4>1, <4>2, <6>2, <7>1, <7>2, GetMpdIs, GetMpdIsPrimed
          <6>3. QED
            BY <6>1, <6>2
        <5>2. QED
          BY <1>2, <2>5, <4>4, <5>1
      <4>5. QED
        BY <4>3, <4>4
    <3>5. mpdCache' \in Seq(CacheEntries)
      BY <1>1, <2>3, <3>1, <3>3
    <3>6. QED
      BY <2>5, <3>4, <3>5 DEF CacheInv, LatestMpd, Route!LatestMpd
  <2>8. QED
    BY <2>6, <2>7
<1>4. CASE Route!ResetParser
  <2>1. mpdCache' = <<>> /\ latest' = [id \in ServiceIds |-> NoTables]
    BY <1>4 DEF Route!ResetParser
  <2>2. \A id : Same(mpdCache', id) = {}
    BY <2>1 DEF Same
  <2>3. ASSUME NEW id \in ServiceIds PROVE Route!GetMpd(id)' = latest'[id]
    BY <2>1, <2>2, GetMpdIsPrimed
  <2>4. mpdCache' \in Seq(CacheEntries) /\ latest' \in [ServiceIds -> Mpds]
    BY <2>1 DEF Mpds
  <2>5. QED
    BY <2>3, <2>4 DEF CacheInv, LatestMpd, Route!LatestMpd
<1>5. CASE UNCHANGED <<mpdCache, latest>>
  <2>1. mpdCache' = mpdCache /\ latest' = latest
    BY <1>5
  <2>2. ASSUME NEW id \in ServiceIds PROVE Route!GetMpd(id)' = latest'[id]
    <3>1. Route!GetMpd(id)' = Route!GetMpd(id)
      BY <2>1, GetMpdIs, GetMpdIsPrimed
    <3>2. QED
      BY <1>2, <2>1, <3>1
  <2>3. QED
    BY <1>1, <2>1, <2>2 DEF CacheInv, LatestMpd, Route!LatestMpd
<1>6. Route!ParseMpd \/ Route!ResetParser \/ UNCHANGED <<mpdCache, latest>>
  BY DEF Route!SignallingNext, routeVars, Route!BadHeader, Route!NoTable, Route!NoRoot,
         Route!ParseSlt, Route!ParseStsid
<1>7. QED
  BY <1>3, <1>4, <1>5, <1>6

(* A caller gets the MPD that came last for a service and none from before a *)
(* reset (RouteParser::parse_mpd, get_mpd and reset, for all services and    *)
(* all tables).                                                              *)
THEOREM LatestMpdIsGiven == NetworkSpec => []LatestMpd
<1>1. NetworkInit => CacheInv
  <2> SUFFICES ASSUME NetworkInit PROVE CacheInv
    OBVIOUS
  <2>1. mpdCache = <<>> /\ latest = [id \in ServiceIds |-> NoTables]
    BY DEF NetworkInit, Route!SignallingInit
  <2>2. \A id : Same(mpdCache, id) = {}
    BY <2>1 DEF Same
  <2>3. \A id \in ServiceIds : Route!GetMpd(id) = latest[id]
    BY <2>1, <2>2, GetMpdIs
  <2>4. mpdCache \in Seq(CacheEntries) /\ latest \in [ServiceIds -> Mpds]
    BY <2>1 DEF Mpds
  <2>5. QED
    BY <2>3, <2>4 DEF CacheInv, LatestMpd, Route!LatestMpd
<1>2. CacheInv /\ [NetworkNext]_allVars => CacheInv'
  BY RouteUnit, CacheStep
<1>3. CacheInv => LatestMpd
  BY DEF CacheInv
<1>4. QED
  BY <1>1, <1>2, <1>3, PTL DEF NetworkSpec
=============================================================================
