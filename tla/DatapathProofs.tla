---------------------------- MODULE DatapathProofs ----------------------------
(* Proofs about the units on the way of samples, cells and bits, for every   *)
(* value of their parameters.                                                *)
EXTENDS MCDatapath, CountingLemmas, FiniteSetTheorems, SequenceTheorems, TLAPS

-----------------------------------------------------------------------------
(* lib/ofdm/time_deinterleaver.cc: process_cell never leaves a delay line,   *)
(* for every number of cells in a block, every set of depths and modes and   *)
(* every order of blocks, resets and reconfigurations.                       *)

(* Each row has its line, of the length its delay asks for, and a position.  *)
LinesFit(c, ls, ps) ==
  /\ c \in Configs
  /\ DOMAIN ls = Rows(c)
  /\ \A r \in Rows(c) : DOMAIN ls[r] = 0 .. Delay(c, r) - 1
  /\ ps \in [Rows(c) -> Nat]

IInv ==
  /\ LinesFit(config, lines, pos)
  /\ reused \in BOOLEAN
  /\ PositionsInside

(* A delay is a whole number of cells. *)
LEMMA DelayIsNat ==
  ASSUME NEW c \in Configs, NEW r \in Rows(c)
  PROVE  /\ Delay(c, r) \in Nat
         /\ Delay(c, r) # 0 => Delay(c, r) >= 1
<1>1. c.depth \in Nat /\ r \in Nat /\ r <= c.depth
  <2>1. c.depth \in Nat
    BY DeinterleaverAssumption DEF Configs
  <2>2. r \in 0 .. c.depth
    BY Zenon DEF Rows
  <2> QED BY <2>1, <2>2
<1>2. c.depth - r \in Nat /\ CellsPerBlock \in Nat
  BY <1>1, DeinterleaverAssumption
<1>3. \A a, b \in Nat : a * b \in Nat
  OBVIOUS
<1> QED BY <1>2, <1>3 DEF Delay

(* A line as long as its delay has that many cells. *)
LEMMA CellsOfDelay ==
  ASSUME NEW c \in Configs, NEW r \in Rows(c)
  PROVE  Cardinality(0 .. Delay(c, r) - 1) \in Nat
<1>1. Delay(c, r) \in Nat
  BY DelayIsNat
<1>2. Cardinality(0 .. Delay(c, r) - 1) = Delay(c, r)
  BY <1>1, FS_Interval
<1> QED BY <1>1, <1>2

LEMMA LengthIsNat ==
  ASSUME LinesFit(config, lines, pos), NEW r \in Rows(config)
  PROVE  Length(r) \in Nat
BY CellsOfDelay DEF LinesFit, Length

(* The cells of a row in one block can be counted. *)
LEMMA InRowIsNat ==
  ASSUME NEW c, NEW r
  PROVE  InRow(c, r) \in Nat
<1>1. IsFiniteSet(Places)
  BY FS_Interval, DeinterleaverAssumption DEF Places
<1>2. IsFiniteSet({i \in Places : RowOf(c, i) = r})
  BY <1>1, FS_Subset
<1> QED BY <1>2, FS_CardinalityType DEF InRow

(* Wherever a row stands, one or more cells on it stands inside its line,    *)
(* and if it stood inside it stays there.                                    *)
LEMMA PosStaysInside ==
  ASSUME NEW r, NEW k \in Nat,
         Length(r) \in Nat, Length(r) > 0, pos[r] \in Nat
  PROVE  /\ PosAfter(r, k) \in Nat
         /\ k > 0 \/ pos[r] < Length(r) => PosAfter(r, k) < Length(r)
<1>1. \A a \in Nat : a % Length(r) \in Nat /\ a % Length(r) < Length(r)
  OBVIOUS
<1>2. CASE k = 0
  BY <1>2 DEF PosAfter
<1>3. CASE k > 0 /\ pos[r] < Length(r)
  <2>1. PosAfter(r, k) = (pos[r] + k) % Length(r)
    BY <1>3 DEF PosAfter
  <2> QED BY <2>1, <1>1
<1>4. CASE k > 0 /\ ~ (pos[r] < Length(r))
  <2>1. PosAfter(r, k) = (k - 1) % Length(r)
    BY <1>4 DEF PosAfter
  <2>2. k - 1 \in Nat
    BY <1>4
  <2> QED BY <2>1, <2>2, <1>1
<1> QED BY <1>2, <1>3, <1>4

(* init_delay_lines leaves lines and positions that fit, whatever was there. *)
LEMMA InitFits ==
  ASSUME NEW c \in Configs, NEW ls, NEW ps, InitDelayLines(c, ls, ps),
         \A r \in DOMAIN ps : ps[r] \in Nat
  PROVE  LinesFit(config, lines, pos)'
<1>1. config' = c /\ DOMAIN lines' = Rows(c)
  BY DEF InitDelayLines
<1>2. \A r \in Rows(c) : DOMAIN lines'[r] = 0 .. Delay(c, r) - 1
  BY DEF InitDelayLines, Resized
<1>3. pos' \in [Rows(c) -> Nat]
  BY DEF InitDelayLines
<1> QED BY <1>1, <1>2, <1>3 DEF LinesFit

-----------------------------------------------------------------------------

LEMMA InitIInv == Init => IInv
<1> SUFFICES ASSUME Init PROVE IInv
  OBVIOUS
<1>1. PICK c \in Configs : /\ config = c
                           /\ lines = [r \in Rows(c) |-> Resized(NoLine, Delay(c, r))]
                           /\ pos = [r \in Rows(c) |-> 0]
                           /\ reused = FALSE
  BY DEF Init
<1>2. LinesFit(config, lines, pos)
  BY <1>1 DEF LinesFit, Resized
<1>3. ~ Astray
  BY <1>1, <1>2, LengthIsNat DEF Astray, LinesFit
<1> QED BY <1>1, <1>2, <1>3 DEF IInv, PositionsInside

(* A block leaves every line as long as it was, and every position that was  *)
(* inside still inside.                                                      *)
LEMMA ProcessKeepsLines ==
  ASSUME IInv, NEW block, Process(block)
  PROVE  LinesFit(config, lines, pos)' /\ (~ Astray => ~ Astray')
<1>1. config' = config /\ DOMAIN lines' = Rows(config)
  BY DEF Process, IInv, LinesFit
<1>2. \A r \in Rows(config) : DOMAIN lines'[r] = DOMAIN lines[r]
  BY DEF Process, IInv, LinesFit
<1>3. \A r \in Rows(config) : Length(r)' = Length(r) /\ Length(r) \in Nat
  BY <1>2, LengthIsNat DEF Length, IInv
<1>4. ASSUME NEW r \in Rows(config)
      PROVE  /\ pos'[r] \in Nat
             /\ Length(r) > 0 /\ pos[r] < Length(r) => pos'[r] < Length(r)
  <2>1. pos[r] \in Nat /\ r \in DOMAIN pos
    BY DEF IInv, LinesFit
  <2>2. pos'[r] = IF Length(r) = 0 THEN pos[r] ELSE PosAfter(r, InRow(config, r))
    BY <2>1 DEF Process
  <2>3. InRow(config, r) \in Nat
    BY InRowIsNat
  <2>4. CASE Length(r) = 0
    BY <2>1, <2>2, <2>4
  <2>5. CASE Length(r) > 0
    <3>1. /\ PosAfter(r, InRow(config, r)) \in Nat
          /\ pos[r] < Length(r) => PosAfter(r, InRow(config, r)) < Length(r)
      BY <1>3, <2>1, <2>3, <2>5, PosStaysInside
    <3> HIDE DEF PosAfter, Length
    <3> QED BY <2>2, <2>5, <3>1
  <2> QED BY <2>4, <2>5, <1>3
<1>5. pos' \in [Rows(config) -> Nat]
  <2>1. pos' = [r \in Rows(config) |-> pos'[r]]
    BY DEF Process, IInv, LinesFit
  <2> QED BY <2>1, <1>4
<1>6. LinesFit(config, lines, pos)'
  BY <1>1, <1>2, <1>5 DEF LinesFit, IInv
<1>7. ASSUME ~ Astray PROVE ~ Astray'
  <2>1. \A r \in Rows(config) : Length(r) > 0 => pos[r] < Length(r)
    <3>1. \A r \in Rows(config) : pos[r] \in Nat
      BY DEF IInv, LinesFit
    <3> QED BY <1>7, <1>3, <3>1 DEF Astray, IInv, LinesFit
  <2>2. \A r \in Rows(config) : Length(r)' > 0 => pos'[r] < Length(r)'
    BY <2>1, <1>3, <1>4
  <2>3. \A r \in Rows(config) : pos'[r] \in Nat
    BY <1>4
  <2> QED BY <2>2, <2>3, <1>1, <1>3 DEF Astray
<1> QED BY <1>6, <1>7

LEMMA NextIInv == IInv /\ [Next]_vars => IInv'
<1> SUFFICES ASSUME IInv, [Next]_vars PROVE IInv'
  OBVIOUS
<1>1. CASE BlockReceived
  <2>1. Process([i \in Places |-> OnAir(i)]) /\ reused' = reused
    BY <1>1 DEF BlockReceived
  <2>2. LinesFit(config, lines, pos)' /\ (~ Astray => ~ Astray')
    BY <2>1, ProcessKeepsLines
  <2> QED BY <2>1, <2>2 DEF IInv, PositionsInside
<1>2. CASE BlockLost \/ SenderChanges \/ UNCHANGED vars
  <2>1. UNCHANGED <<config, lines, pos, reused>>
    BY <1>2 DEF BlockLost, SenderChanges, vars, lineVars
  <2> QED BY <2>1 DEF IInv, LinesFit, PositionsInside, Astray, Length
<1>3. CASE SetConfig
  <2>1. PICK c \in Configs :
           InitDelayLines(c, lines, pos) /\ reused' = ~ Straight(c)
    BY <1>3 DEF SetConfig
  <2>2. LinesFit(config, lines, pos)'
    BY <2>1, InitFits DEF IInv, LinesFit
  <2>3. ASSUME ~ reused' PROVE ~ Astray'
    <3>1. DOMAIN lines' = {}
      BY <2>1, <2>3 DEF InitDelayLines, Rows
    <3> QED BY <3>1 DEF Astray
  <2>4. reused' \in BOOLEAN
    BY <2>1, Zenon DEF Straight
  <2> QED BY <2>2, <2>3, <2>4 DEF IInv, PositionsInside
<1>4. CASE Reconfigure
  <2>1. PICK c \in Configs : InitDelayLines(c, NoRows, NoPos) /\ reused' = FALSE
    BY <1>4 DEF Reconfigure
  <2>2. LinesFit(config, lines, pos)'
    BY <2>1, InitFits DEF NoPos
  <2>3. \A r \in Rows(c) : pos'[r] = 0
    BY <2>1 DEF InitDelayLines, NoPos
  <2>4. \A r \in Rows(config)' : Length(r)' \in Nat
    BY <2>2, CellsOfDelay DEF LinesFit, Length
  <2>5. ~ Astray'
    BY <2>1, <2>3, <2>4 DEF Astray, InitDelayLines
  <2> QED BY <2>1, <2>2, <2>5 DEF IInv, PositionsInside
<1>5. CASE Reset
  <2>1. /\ config' = config /\ reused' = FALSE
        /\ lines' = [r \in DOMAIN lines |-> [k \in DOMAIN lines[r] |-> Fill]]
        /\ pos' = [r \in DOMAIN pos |-> 0]
    BY <1>5 DEF Reset
  <2>2. LinesFit(config, lines, pos)'
    BY <2>1 DEF IInv, LinesFit
  <2>3. \A r \in Rows(config)' : Length(r)' \in Nat /\ pos'[r] = 0
    <3>1. \A r \in Rows(config)' : Length(r)' \in Nat
      BY <2>2, CellsOfDelay DEF LinesFit, Length
    <3>2. \A r \in Rows(config)' : pos'[r] = 0
      BY <2>1 DEF IInv, LinesFit
    <3> QED BY <3>1, <3>2
  <2>4. ~ Astray'
    BY <2>2, <2>3 DEF Astray, LinesFit
  <2> QED BY <2>1, <2>2, <2>4 DEF IInv, PositionsInside
<1> QED BY <1>1, <1>2, <1>3, <1>4, <1>5 DEF Next

(* No cell is ever read or written outside a delay line, unless set_config() *)
(* has kept positions that no reset() has put back since.                    *)
THEOREM InsideLines == Spec => []PositionsInside
<1>1. IInv => PositionsInside
  BY DEF IInv
<1> QED BY InitIInv, NextIInv, <1>1, PTL DEF Spec

-----------------------------------------------------------------------------
(* Division, for lib/ofdm/pilot_extractor.cc.                                *)
LEMMA Quotient ==
  ASSUME NEW b \in Nat \ {0}, NEW s \in Nat
  PROVE  s \div b \in Nat /\ (s \div b) * b <= s /\ s < (s \div b) * b + b
<1>1. s \div b \in Nat /\ s % b \in 0 .. (b - 1)
  OBVIOUS
<1>2. s % b = s - b * (s \div b)
  BY Z3
<1>3. b * (s \div b) = (s \div b) * b /\ b * (s \div b) \in Nat
  BY <1>1
<1>4. QED
  BY <1>1, <1>2, <1>3

LEMMA Fits ==
  ASSUME NEW b \in Nat \ {0}, NEW s \in Nat, NEW k \in Nat, k * b <= s
  PROVE  k <= s \div b
<1> DEFINE q == s \div b
<1>1. q \in Nat /\ s < q * b + b
  BY Quotient
<1> HIDE DEF q
<1>2. k * b \in Nat /\ q * b \in Nat /\ (q + 1) * b = q * b + b
  BY <1>1
<1>3. k >= q + 1 => k * b >= (q + 1) * b
  BY <1>1
<1>4. k <= q \/ k >= q + 1
  BY <1>1
<1>5. k <= q
  BY <1>1, <1>2, <1>3, <1>4
<1>6. QED
  BY <1>5 DEF q

LEMMA Multiples ==
  ASSUME NEW b \in Nat \ {0}, NEW d \in Nat
  PROVE  d % b = 0 <=> \E i \in Nat : d = i * b
<1>1. ASSUME d % b = 0
      PROVE  \E i \in Nat : d = i * b
  <2>1. d % b = d - b * (d \div b)
    BY Z3
  <2>2. d \div b \in Nat /\ b * (d \div b) = (d \div b) * b
    BY Quotient
  <2>3. d = (d \div b) * b
    BY <1>1, <2>1, <2>2
  <2>4. QED
    BY <2>2, <2>3
<1>2. ASSUME NEW i \in Nat, d = i * b
      PROVE  d % b = 0
  <2>1. d \div b \in Nat /\ (d \div b) * b <= d /\ d < (d \div b) * b + b
    BY Quotient
  <2>2. i <= d \div b
    BY <1>2, Fits
  <2>3. d % b = d - b * (d \div b)
    BY Z3
  <2> DEFINE q == d \div b
  <2>4. q \in Nat /\ q * b = b * q /\ i * b <= q * b
    BY <2>1, <2>2
  <2> HIDE DEF q
  <2>5. d % b = d - q * b /\ q * b <= d /\ d <= q * b
    BY <1>2, <2>1, <2>3, <2>4 DEF q
  <2>6. QED
    BY <2>4, <2>5
<1>3. QED
  BY <1>1, <1>2

-----------------------------------------------------------------------------
(* lib/ofdm/pilot_extractor.cc: the carriers of a configuration are carriers *)
(* of its FFT, and the distances of its pattern are not zero.                *)
LayoutIsFit(c) ==
  /\ c.scale \in Nat /\ BaseFft * c.scale \in Nat
  /\ c.first \in Nat /\ c.last \in Nat
  /\ c.first <= c.last /\ c.last < BaseFft * c.scale
  /\ c.pattern.dx \in Nat \ {0} /\ c.pattern.dy \in Nat \ {0}

Subcarriers == BaseFft * layout.scale
LayoutFits == LayoutIsFit(layout)

Extracted(symbol) ==
  PilotPlaces!ExtractScattered(symbol) \union PilotPlaces!ContinualPositions
    \union PilotPlaces!EdgePilots

PilotInv ==
  /\ LayoutFits
  /\ pilots.at # {} => pilots.symbol \in Nat /\ pilots.at = Extracted(pilots.symbol)

LEMMA ConfiguredFits ==
  ASSUME NEW pattern \in Patterns, NEW scale \in DOMAIN Active, NEW request \in Requests,
         NEW c, c = PilotPlaces!Configured(pattern, scale, request)
  PROVE  LayoutIsFit(c)
<1> DEFINE count == IF request.count = 0 THEN Active[scale] ELSE request.count
           all == BaseFft * scale
           first == IF request.first = 0 THEN (all - count) \div 2 ELSE request.first
<1>1. /\ BaseFft \in Nat /\ scale \in Nat \ {0} /\ count \in Nat \ {0} /\ request.first \in Nat
      /\ request.first + count <= all
      /\ pattern.dx \in Nat \ {0} /\ pattern.dy \in Nat \ {0}
  BY PilotsAssumption DEF PilotsAssumption, CarriersFit
<1>2. /\ c.pattern = pattern /\ c.scale = scale
      /\ c.first = first /\ c.last = first + count - 1
  BY DEF PilotPlaces!Configured
<1>3. all \in Nat
  BY <1>1
<1> HIDE DEF count, all
<1>4. first \in Nat /\ first + count <= all
  <2>1. CASE request.first = 0
    <3>1. all - count \in Nat /\ (all - count) \div 2 \in Nat
          /\ (all - count) \div 2 <= all - count
      BY <1>1, <1>3, <2>1
    <3>2. QED
      BY <1>1, <1>3, <2>1, <3>1
  <2>2. CASE request.first # 0
    BY <1>1, <1>3, <2>2
  <2>3. QED
    BY <2>1, <2>2
<1> HIDE DEF first
<1>5. QED
  BY <1>1, <1>2, <1>3, <1>4 DEF LayoutIsFit, all

LEMMA PatternType ==
  ASSUME LayoutFits, NEW symbol \in Nat
  PROVE  PilotPlaces!Period \in Nat \ {0} /\ PilotPlaces!Offset(symbol) \in Nat
<1>1. \A a, b \in Nat \ {0} : a * b \in Nat \ {0}
  OBVIOUS
<1>2. \A a, b \in Nat : a * b \in Nat
  OBVIOUS
<1>3. symbol % layout.pattern.dy \in Nat
  BY DEF LayoutFits, LayoutIsFit, Subcarriers
<1>4. QED
  BY <1>1, <1>2, <1>3 DEF LayoutFits, LayoutIsFit, PilotPlaces!Period, PilotPlaces!Offset

(* extract_scattered() steps through the places that is_scattered_pilot()    *)
(* tells by their distance from the first.                                   *)
LEMMA ScatteredAgree ==
  ASSUME LayoutFits, NEW symbol \in Nat
  PROVE  /\ PilotPlaces!ExtractScattered(symbol) \subseteq 0 .. (Subcarriers - 1)
         /\ \A k \in 0 .. (Subcarriers - 1) :
              k \in PilotPlaces!ExtractScattered(symbol)
                <=> PilotPlaces!IsScatteredPilot(k, symbol)
<1> DEFINE P == PilotPlaces!Period
           o == PilotPlaces!Offset(symbol)
           first == layout.first
           final == layout.last
<1>1. /\ P \in Nat \ {0} /\ o \in Nat /\ first \in Nat /\ final \in Nat
      /\ first <= final /\ final < Subcarriers /\ Subcarriers \in Nat
  BY PatternType DEF LayoutFits, LayoutIsFit, Subcarriers
<1>2. PilotPlaces!ExtractScattered(symbol)
        = {k \in {first + o + i * P : i \in 0 .. (final \div P)} : k <= final}
  BY DEF PilotPlaces!ExtractScattered, PilotPlaces!Within
<1>3. \A k : PilotPlaces!IsScatteredPilot(k, symbol)
        <=> /\ first <= k /\ k <= final /\ k - first >= o /\ (k - first - o) % P = 0
  BY DEF PilotPlaces!IsScatteredPilot
<1> HIDE DEF P, o, first, final
<1>4. ASSUME NEW i \in Nat, first + o + i * P <= final
      PROVE  /\ first + o + i * P \in 0 .. (Subcarriers - 1)
             /\ PilotPlaces!IsScatteredPilot(first + o + i * P, symbol)
  <2>1. i * P \in Nat
    BY <1>1
  <2> DEFINE d == i * P
  <2>2. d % P = 0
    BY <1>1, <2>1, Multiples
  <2>3. d \in Nat
    BY <2>1
  <2> HIDE DEF d
  <2>4. (first + o + d) - first - o = d
    BY <1>1, <2>3
  <2>5. /\ first <= first + o + d /\ (first + o + d) - first >= o
        /\ first + o + d \in Nat
    BY <1>1, <2>3
  <2>6. first + o + d <= final
    BY <1>4 DEF d
  <2>7. first + o + d \in 0 .. (Subcarriers - 1)
    BY <1>1, <2>3, <2>6
  <2>8. PilotPlaces!IsScatteredPilot(first + o + d, symbol)
    BY <1>3, <2>2, <2>4, <2>5, <2>6
  <2>9. QED
    BY <2>7, <2>8 DEF d
<1>5. ASSUME NEW k \in Nat, PilotPlaces!IsScatteredPilot(k, symbol)
      PROVE  \E i \in 0 .. (final \div P) : k = first + o + i * P /\ k <= final
  <2> DEFINE d == k - first - o
  <2>1. first <= k /\ k <= final /\ d \in Nat /\ d % P = 0 /\ d <= final
        /\ k = first + o + d
    BY <1>1, <1>3, <1>5
  <2> HIDE DEF d
  <2>2. PICK i \in Nat : d = i * P
    BY <1>1, <2>1, Multiples
  <2>3. i <= final \div P /\ final \div P \in Nat
    BY <1>1, <2>1, <2>2, Fits, Quotient
  <2>4. QED
    BY <2>1, <2>2, <2>3
<1>6. final \div P \in Nat
  BY <1>1, Quotient
<1>7. \A i \in 0 .. (final \div P) : i \in Nat
  BY <1>6
<1>8. QED
  BY <1>2, <1>4, <1>5, <1>7

LEMMA ContinualInside ==
  ASSUME LayoutFits
  PROVE  PilotPlaces!ContinualPositions \subseteq 0 .. (Subcarriers - 1)
<1> DEFINE s == layout.scale
           first == layout.first
           between(p, j) == p[1] * s + (((p[2] * s - p[1] * s) * j) \div s)
<1>1. \A a, b \in Nat : a * b \in Nat
  OBVIOUS
<1>2. s \in Nat /\ first \in Nat /\ Continual \subseteq Nat
  BY PilotsAssumption DEF LayoutFits, LayoutIsFit, PilotsAssumption
<1>3. \A c \in Continual : first + c * s \in Nat
  BY <1>1, <1>2
<1>4. ASSUME NEW p \in PilotPlaces!Neighbours, NEW j \in 1 .. (s - 1)
      PROVE  first + between(p, j) \in Nat
  <2>1. p[1] \in Nat /\ p[2] \in Nat /\ p[1] <= p[2]
    <3>1. p \in Continual \X Continual /\ p[1] < p[2]
      BY DEF PilotPlaces!Neighbours
    <3>2. p[1] \in Continual /\ p[2] \in Continual
      BY <3>1
    <3>3. p[1] \in Nat /\ p[2] \in Nat
      BY <1>2, <3>2, Zenon
    <3>4. QED
      BY <3>1, <3>3
  <2>2. p[1] * s \in Nat /\ p[2] * s \in Nat /\ p[1] * s <= p[2] * s
    BY <1>2, <2>1
  <2>3. p[2] * s - p[1] * s \in Nat /\ j \in Nat /\ s \in Nat \ {0}
    BY <1>2, <2>2
  <2>4. (p[2] * s - p[1] * s) * j \in Nat
    BY <1>1, <2>3
  <2>5. ((p[2] * s - p[1] * s) * j) \div s \in Nat
    BY <2>3, <2>4, Quotient
  <2>6. QED
    BY <1>2, <2>2, <2>5
<1>5. \A k \in PilotPlaces!ContinualPositions : k \in Nat /\ k <= layout.last
  BY <1>3, <1>4 DEF PilotPlaces!ContinualPositions, PilotPlaces!Within
<1>6. QED
  BY <1>5 DEF LayoutFits, LayoutIsFit, Subcarriers

LEMMA ExtractedAgree ==
  ASSUME LayoutFits, NEW symbol \in Nat
  PROVE  Extracted(symbol)
           = {k \in 0 .. (BaseFft * layout.scale - 1) : PilotPlaces!IsPilot(k, symbol)}
<1>1. PilotPlaces!EdgePilots \subseteq 0 .. (Subcarriers - 1)
  BY DEF LayoutFits, LayoutIsFit, Subcarriers, PilotPlaces!EdgePilots
<1>2. QED
  BY <1>1, ScatteredAgree, ContinualInside
  DEF Extracted, PilotPlaces!IsPilot, Subcarriers

LEMMA PilotStep ==
  ASSUME PilotInv, PilotPlaces!Next
  PROVE  PilotInv'
<1>1. CASE PilotPlaces!Extract
  <2>1. PICK symbol \in 0 .. MaxIndex :
          pilots' = [symbol |-> symbol, at |-> Extracted(symbol)]
    BY <1>1 DEF PilotPlaces!Extract, Extracted
  <2>2. layout' = layout
    BY <1>1 DEF PilotPlaces!Extract
  <2>3. LayoutFits'
    BY <2>2 DEF PilotInv, LayoutFits, LayoutIsFit, Subcarriers
  <2>4. Extracted(pilots.symbol)' = Extracted(symbol)
    BY <2>1, <2>2 DEF Extracted, PilotPlaces!ExtractScattered,
      PilotPlaces!ContinualPositions, PilotPlaces!EdgePilots, PilotPlaces!Within,
      PilotPlaces!Offset, PilotPlaces!Period
  <2>5. symbol \in Nat
    OBVIOUS
  <2>6. QED
    BY <2>1, <2>3, <2>4, <2>5 DEF PilotInv
<1>2. CASE PilotPlaces!SetConfig
  <2>1. PICK pattern \in Patterns, scale \in DOMAIN Active, request \in Requests :
          layout' = PilotPlaces!Configured(pattern, scale, request)
    BY <1>2 DEF PilotPlaces!SetConfig
  <2>2. pilots'.at = {}
    BY <1>2 DEF PilotPlaces!SetConfig
  <2>3. LayoutFits'
    <3>1. PICK c : c = layout'
      OBVIOUS
    <3>2. LayoutIsFit(c)
      BY <2>1, <3>1, ConfiguredFits
    <3>3. QED
      BY <3>1, <3>2 DEF LayoutFits, LayoutIsFit
  <2>4. QED
    BY <2>2, <2>3 DEF PilotInv
<1>3. QED
  BY <1>1, <1>2 DEF PilotPlaces!Next

(* lib/ofdm/pilot_extractor.cc: extract() and is_pilot() name the same       *)
(* subcarriers, all of the FFT, for every pattern, size, number of carriers  *)
(* and symbol.                                                               *)
THEOREM PilotsAreAgreedOn == DatapathSpec => []PilotsAgree
<1> DEFINE next == [DatapathNext]_datapathVars
<1>1. DatapathInit => PilotInv
  BY ConfiguredFits DEF DatapathInit, LayoutFits, PilotPlaces!Init, PilotInv
<1>2. PilotInv /\ next => PilotInv'
  <2> SUFFICES ASSUME PilotInv, next PROVE PilotInv'
    OBVIOUS
  <2>1. CASE PilotPlaces!Next
    BY <2>1, PilotStep
  <2>2. CASE UNCHANGED pilotVars
    <3>1. layout' = layout /\ pilots' = pilots
      BY <2>2 DEF pilotVars
    <3> USE DEF PilotPlaces!Within
    <3>2. \A i : PilotPlaces!ExtractScattered(i)' = PilotPlaces!ExtractScattered(i)
      BY <3>1 DEF PilotPlaces!ExtractScattered, PilotPlaces!Offset, PilotPlaces!Period
    <3>3. PilotPlaces!ContinualPositions' = PilotPlaces!ContinualPositions
      BY <3>1 DEF PilotPlaces!ContinualPositions
    <3>4. \A i : Extracted(i)' = Extracted(i)
      BY <3>1, <3>2, <3>3 DEF Extracted, PilotPlaces!EdgePilots
    <3>5. LayoutFits'
      BY <3>1 DEF PilotInv, LayoutFits
    <3> QED
      BY <3>1, <3>4, <3>5 DEF PilotInv
  <2>3. QED
    BY <2>1, <2>2 DEF DatapathNext, datapathVars
<1>3. PilotInv => PilotsAgree
  BY ExtractedAgree DEF PilotInv, PilotsAgree, PilotPlaces!PilotsAgree
<1>4. QED
  BY <1>1, <1>2, <1>3, PTL DEF DatapathSpec

-----------------------------------------------------------------------------
(* lib/ofdm/cp_removal.cc: samples are collected one by one, symbols fed one *)
(* after the other.                                                          *)

(* The samples of a symbol are taken one after the other.                    *)
FedBy(f, r, from, n) ==
  f = [i \in 0 .. n |-> IF i = 0 THEN r ELSE Ofdm!Collect(f[i - 1], from + i)]

LEMMA FedExists ==
  ASSUME NEW r, NEW from, NEW n \in Nat
  PROVE  \E f : FedBy(f, r, from, n)
<1> DEFINE S == {m \in Nat : \E f : FedBy(f, r, from, m)}
<1>1. 0 \in S
  <2> DEFINE f == [i \in 0 .. 0 |-> r]
  <2>1. f = [i \in 0 .. 0 |-> IF i = 0 THEN r ELSE Ofdm!Collect(f[i - 1], from + i)]
    OBVIOUS
  <2>2. FedBy(f, r, from, 0)
    BY <2>1 DEF FedBy
  <2>3. QED
    BY <2>2
<1>2. ASSUME NEW m \in 1 .. n, m - 1 \in S
      PROVE  m \in S
  <2>1. PICK g : FedBy(g, r, from, m - 1)
    BY <1>2
  <2> DEFINE f == [i \in 0 .. m |->
                     IF i = m THEN Ofdm!Collect(g[m - 1], from + m) ELSE g[i]]
  <2>2. \A i \in 0 .. m - 1 : f[i] = g[i]
    OBVIOUS
  <2>3. ASSUME NEW i \in 0 .. m
        PROVE  f[i] = IF i = 0 THEN r ELSE Ofdm!Collect(f[i - 1], from + i)
    <3>1. CASE i = 0
      BY <2>1, <2>2, <3>1 DEF FedBy
    <3>2. CASE i \in 1 .. m - 1
      <4>1. f[i] = g[i] /\ f[i - 1] = g[i - 1]
        BY <2>2, <3>2
      <4>2. g[i] = Ofdm!Collect(g[i - 1], from + i)
        BY <2>1, <3>2 DEF FedBy
      <4>3. QED
        BY <3>2, <4>1, <4>2
    <3>3. CASE i = m
      <4>1. f[m - 1] = g[m - 1] /\ f[m] = Ofdm!Collect(g[m - 1], from + m)
        BY <2>2
      <4>2. QED
        BY <3>3, <4>1
    <3>4. QED
      BY <3>1, <3>2, <3>3
  <2>4. FedBy(f, r, from, m)
    <3> HIDE DEF f
    <3>1. f = [i \in 0 .. m |-> f[i]]
      BY DEF f
    <3>2. QED
      BY <2>3, <3>1 DEF FedBy
  <2>5. m \in Nat
    OBVIOUS
  <2>6. QED
    BY <2>4, <2>5
<1> HIDE DEF S
<1>3. n \in S
  BY <1>1, <1>2, Everywhere
<1>4. QED
  BY <1>3 DEF S

LEMMA Feeding ==
  ASSUME Fft + cp \in Nat, NEW r, NEW from
  PROVE  /\ Ofdm!Feed(r, from)[0] = r
         /\ \A i \in 1 .. (Fft + cp) :
              Ofdm!Feed(r, from)[i] = Ofdm!Collect(Ofdm!Feed(r, from)[i - 1], from + i)
<1> DEFINE f == Ofdm!Feed(r, from)
<1>1. \E g : FedBy(g, r, from, Fft + cp)
  BY FedExists
<1>2. f = CHOOSE g : FedBy(g, r, from, Fft + cp)
  BY DEF Ofdm!Feed, FedBy
<1>3. FedBy(f, r, from, Fft + cp)
  BY <1>1, <1>2
<1> HIDE DEF f
<1>4. f[0] = r /\ \A i \in 1 .. (Fft + cp) : f[i] = Ofdm!Collect(f[i - 1], from + i)
  BY <1>3 DEF FedBy
<1>5. QED
  BY <1>4 DEF f

(* What is collected keeps the length of the prefix.                         *)
Shaped(r, length) == r = [cp |-> length, buffer |-> r.buffer, window |-> r.window]

LEMMA CollectShape ==
  ASSUME NEW length, NEW r, Shaped(r, length), NEW sample
  PROVE  Shaped(Ofdm!Collect(r, sample), length)
<1>1. r.cp = length
  BY DEF Shaped
<1>2. QED
  BY <1>1 DEF Shaped, Ofdm!Collect

LEMMA SymbolShape ==
  ASSUME Fft + cp \in Nat, NEW length, NEW r, Shaped(r, length), NEW from
  PROVE  Shaped(Ofdm!Symbol(r, from), length)
<1> DEFINE start == [r EXCEPT !.window = <<>>]
           f == Ofdm!Feed(start, from)
           S == {i \in 0 .. (Fft + cp) : Shaped(f[i], length)}
<1>1. Shaped(start, length)
  BY DEF Shaped
<1>2. f[0] = start /\ \A i \in 1 .. (Fft + cp) : f[i] = Ofdm!Collect(f[i - 1], from + i)
  BY Feeding
<1> HIDE DEF f, start
<1>3. 0 \in S
  BY <1>1, <1>2
<1>4. \A i \in 1 .. (Fft + cp) : i - 1 \in S => i \in S
  BY <1>2, CollectShape
<1> HIDE DEF S
<1>5. Fft + cp \in S
  BY <1>3, <1>4, Everywhere
<1>6. QED
  BY <1>5 DEF S, f, start, Ofdm!Symbol

(* A symbol that begins with an empty buffer ends with one, and its window   *)
(* is the part after the prefix.                                             *)
Taken(from, n) == [i \in 1 .. n |-> from + i]

LEMMA OneMoreTaken ==
  ASSUME NEW from \in Int, NEW i \in Nat \ {0}
  PROVE  Append(Taken(from, i - 1), from + i) = Taken(from, i)
<1> DEFINE s == Taken(from, i - 1)
<1>1. s \in Seq(Int) /\ Len(s) = i - 1 /\ \A j \in 1 .. i - 1 : s[j] = from + j
  BY DEF Taken
<1>2. Taken(from, i) \in Seq(Int) /\ Len(Taken(from, i)) = i
      /\ \A j \in 1 .. i : Taken(from, i)[j] = from + j
  BY DEF Taken
<1> HIDE DEF s
<1>3. /\ Append(s, from + i) \in Seq(Int) /\ Len(Append(s, from + i)) = i
      /\ \A j \in 1 .. i : Append(s, from + i)[j] = from + j
  BY <1>1
<1>4. Append(s, from + i) = Taken(from, i)
  BY <1>2, <1>3, SeqEqual
<1>5. QED
  BY <1>4 DEF s

LEMMA WindowOfTaken ==
  ASSUME NEW from \in Int, Fft \in Nat \ {0}, cp \in Nat
  PROVE  SubSeq(Taken(from, Fft + cp), cp + 1, cp + Fft) = Ofdm!Useful(from)
<1> DEFINE s == Taken(from, Fft + cp)
           w == SubSeq(s, cp + 1, cp + Fft)
           u == Ofdm!Useful(from)
<1>1. \A i \in cp + 1 .. cp + Fft : s[i] = from + i /\ s[i] \in Int
  BY DEF Taken
<1>2. u \in Seq(Int) /\ Len(u) = Fft /\ \A i \in 1 .. Fft : u[i] = from + cp + i
  BY DEF Ofdm!Useful
<1> HIDE DEF s, u
<1>3. /\ w \in Seq(Int)
      /\ Len(w) = IF cp + 1 <= cp + Fft THEN cp + Fft - (cp + 1) + 1 ELSE 0
      /\ \A i \in 1 .. cp + Fft - (cp + 1) + 1 : w[i] = s[cp + 1 + i - 1]
  BY <1>1, SubSeqProperties
<1> HIDE DEF w
<1>4. Len(w) = Fft
  BY <1>3
<1>5. ASSUME NEW i \in 1 .. Fft
      PROVE  w[i] = u[i]
  <2>1. i \in 1 .. cp + Fft - (cp + 1) + 1 /\ cp + 1 + i - 1 = cp + i
        /\ cp + i \in cp + 1 .. cp + Fft
    OBVIOUS
  <2>2. w[i] = from + (cp + i)
    BY <1>1, <1>3, <2>1
  <2>3. QED
    BY <1>2, <2>2
<1>6. w = u
  BY <1>2, <1>3, <1>4, <1>5, SeqEqual
<1>7. QED
  BY <1>6 DEF s, u, w

LEMMA WholeSymbol ==
  ASSUME Fft \in Nat \ {0}, cp \in Nat, NEW from \in Int,
         NEW r, Shaped(r, cp), r.buffer = <<>>
  PROVE  Ofdm!Symbol(r, from)
           = [cp |-> cp, buffer |-> <<>>, window |-> Ofdm!Useful(from)]
<1> DEFINE N == Fft + cp
           start == [r EXCEPT !.window = <<>>]
           f == Ofdm!Feed(start, from)
           Part(i) == [cp |-> cp, buffer |-> Taken(from, i), window |-> <<>>]
           S == {i \in 0 .. N - 1 : f[i] = Part(i)}
<1>1. f[0] = start /\ \A i \in 1 .. N : f[i] = Ofdm!Collect(f[i - 1], from + i)
  BY Feeding
<1>2. start = Part(0)
  <2>1. Taken(from, 0) = <<>>
    BY DEF Taken
  <2>2. QED
    BY <2>1 DEF Shaped
<1>3. N \in Nat \ {0}
  OBVIOUS
<1> HIDE DEF f, start
<1>4. ASSUME NEW i \in 1 .. N, f[i - 1] = Part(i - 1)
      PROVE  f[i] = IF i = N THEN [cp |-> cp, buffer |-> <<>>, window |-> Ofdm!Useful(from)]
                             ELSE Part(i)
  <2>1. f[i] = Ofdm!Collect(Part(i - 1), from + i)
    <3> HIDE DEF Part
    <3>1. f[i] = Ofdm!Collect(f[i - 1], from + i)
      BY <1>1
    <3>2. QED
      BY <1>4, <3>1
  <2>2. Append(Taken(from, i - 1), from + i) = Taken(from, i)
    <3>1. i \in Nat \ {0}
      OBVIOUS
    <3>2. QED
      BY <3>1, OneMoreTaken
  <2>3. Len(Taken(from, i)) = i
    BY DEF Taken
  <2>4. CASE i = N
    <3>1. i >= cp + Fft /\ SubSeq(Taken(from, i), cp + 1, cp + Fft) = Ofdm!Useful(from)
      BY <2>4, WindowOfTaken
    <3>2. QED
      BY <2>1, <2>2, <2>3, <2>4, <3>1 DEF Ofdm!Collect
  <2>5. CASE i # N
    <3>1. ~ (i >= cp + Fft)
      BY <2>5
    <3>2. QED
      BY <2>1, <2>2, <2>3, <2>5, <3>1 DEF Ofdm!Collect
  <2>6. QED
    BY <2>4, <2>5
<1>5. 0 \in S
  BY <1>1, <1>2, <1>3
<1>6. ASSUME NEW i \in 1 .. N - 1, i - 1 \in S
      PROVE  i \in S
  BY <1>4, <1>6
<1> HIDE DEF Part
<1>7. N - 1 \in S
  <2> HIDE DEF S
  <2>1. N - 1 \in Nat
    BY <1>3
  <2>2. 0 .. N - 1 \subseteq S
    BY <2>1, <1>5, <1>6, Everywhere
  <2>3. QED
    BY <2>1, <2>2
<1>8. f[N - 1] = Part(N - 1)
  BY <1>7
<1>9. f[N] = [cp |-> cp, buffer |-> <<>>, window |-> Ofdm!Useful(from)]
  BY <1>3, <1>4, <1>8
<1>10. QED
  BY <1>9 DEF f, start, Ofdm!Symbol

(* The symbols of one call                                                   *)
AfterBy(f, n) ==
  f = [k \in 0 .. n |-> IF k = 0 THEN removal ELSE Ofdm!Symbol(f[k - 1], Ofdm!From(k))]

LEMMA AfterExists ==
  ASSUME NEW n \in Nat
  PROVE  \E f : AfterBy(f, n)
<1> DEFINE S == {m \in Nat : \E f : AfterBy(f, m)}
<1>1. 0 \in S
  <2> DEFINE f == [k \in 0 .. 0 |-> removal]
  <2>1. f = [k \in 0 .. 0 |-> IF k = 0 THEN removal
                                       ELSE Ofdm!Symbol(f[k - 1], Ofdm!From(k))]
    OBVIOUS
  <2>2. AfterBy(f, 0)
    BY <2>1 DEF AfterBy
  <2>3. QED
    BY <2>2
<1>2. ASSUME NEW m \in 1 .. n, m - 1 \in S
      PROVE  m \in S
  <2>1. PICK g : AfterBy(g, m - 1)
    BY <1>2
  <2> DEFINE f == [k \in 0 .. m |->
                     IF k = m THEN Ofdm!Symbol(g[m - 1], Ofdm!From(m)) ELSE g[k]]
  <2>2. \A k \in 0 .. m - 1 : f[k] = g[k]
    OBVIOUS
  <2>3. ASSUME NEW k \in 0 .. m
        PROVE  f[k] = IF k = 0 THEN removal ELSE Ofdm!Symbol(f[k - 1], Ofdm!From(k))
    <3>1. CASE k = 0
      BY <2>1, <2>2, <3>1 DEF AfterBy
    <3>2. CASE k \in 1 .. m - 1
      <4>1. f[k] = g[k] /\ f[k - 1] = g[k - 1]
        BY <2>2, <3>2
      <4>2. g[k] = Ofdm!Symbol(g[k - 1], Ofdm!From(k))
        BY <2>1, <3>2 DEF AfterBy
      <4>3. QED
        BY <3>2, <4>1, <4>2
    <3>3. CASE k = m
      <4>1. f[m - 1] = g[m - 1] /\ f[m] = Ofdm!Symbol(g[m - 1], Ofdm!From(m))
        BY <2>2
      <4>2. QED
        BY <3>3, <4>1
    <3>4. QED
      BY <3>1, <3>2, <3>3
  <2>4. AfterBy(f, m)
    <3> HIDE DEF f
    <3>1. f = [k \in 0 .. m |-> f[k]]
      BY DEF f
    <3>2. QED
      BY <2>3, <3>1 DEF AfterBy
  <2>5. m \in Nat
    OBVIOUS
  <2>6. QED
    BY <2>4, <2>5
<1> HIDE DEF S
<1>3. n \in S
  BY <1>1, <1>2, Everywhere
<1>4. QED
  BY <1>3 DEF S

LEMMA AfterSymbols ==
  ASSUME NEW n \in Nat
  PROVE  /\ Ofdm!After(n)[0] = removal
         /\ \A k \in 1 .. n :
              Ofdm!After(n)[k] = Ofdm!Symbol(Ofdm!After(n)[k - 1], Ofdm!From(k))
<1> DEFINE f == Ofdm!After(n)
<1>1. \E g : AfterBy(g, n)
  BY AfterExists
<1>2. f = CHOOSE g : AfterBy(g, n)
  BY DEF Ofdm!After, AfterBy
<1>3. AfterBy(f, n)
  BY <1>1, <1>2
<1> HIDE DEF f
<1>4. f[0] = removal /\ \A k \in 1 .. n : f[k] = Ofdm!Symbol(f[k - 1], Ofdm!From(k))
  BY <1>3 DEF AfterBy
<1>5. QED
  BY <1>4 DEF f

(* A CpRemoval for the prefix that the block has holds no samples between    *)
(* two symbols; one for another prefix keeps its own.                        *)
OfdmInv ==
  /\ cp \in Nat /\ consumed \in Nat
  /\ Shaped(removal, removal.cp)
  /\ removal.cp = cp => removal.buffer = <<>>
  /\ Ofdm!SymbolsComeWhole

LEMMA PlacesType ==
  ASSUME OfdmInv
  PROVE  \A k \in Nat : Ofdm!From(k) \in Int
<1>1. Fft + cp \in Int /\ consumed \in Int
  BY OfdmAssumption DEF OfdmInv, OfdmAssumption
<1>2. \A a, b \in Int : a * b \in Int
  OBVIOUS
<1>3. ASSUME NEW k \in Nat PROVE (k - 1) * (Fft + cp) \in Int
  BY <1>1, <1>2
<1>4. QED
  BY <1>1, <1>3 DEF Ofdm!From

LEMMA AfterWhole ==
  ASSUME OfdmInv, NEW n \in Nat, NEW k \in 0 .. n
  PROVE  /\ Shaped(Ofdm!After(n)[k], removal.cp)
         /\ removal.cp = cp =>
              /\ Ofdm!After(n)[k].buffer = <<>>
              /\ k # 0 => Ofdm!After(n)[k].window = Ofdm!Useful(Ofdm!From(k))
<1> DEFINE f == Ofdm!After(n)
           Good(i) == /\ Shaped(f[i], removal.cp)
                      /\ removal.cp = cp =>
                           /\ f[i].buffer = <<>>
                           /\ i # 0 => f[i].window = Ofdm!Useful(Ofdm!From(i))
           S == {i \in 0 .. n : Good(i)}
<1>1. f[0] = removal /\ \A i \in 1 .. n : f[i] = Ofdm!Symbol(f[i - 1], Ofdm!From(i))
  BY AfterSymbols
<1>2. Fft \in Nat \ {0} /\ cp \in Nat /\ Fft + cp \in Nat
  BY OfdmAssumption DEF OfdmInv, OfdmAssumption
<1> HIDE DEF f
<1>3. 0 \in S
  BY <1>1 DEF OfdmInv
<1>4. ASSUME NEW i \in 1 .. n, i - 1 \in S
      PROVE  i \in S
  <2>1. f[i] = Ofdm!Symbol(f[i - 1], Ofdm!From(i)) /\ Ofdm!From(i) \in Int
    BY <1>1, PlacesType
  <2>2. Shaped(f[i], removal.cp)
    BY <1>2, <1>4, <2>1, SymbolShape
  <2>3. ASSUME removal.cp = cp
        PROVE  f[i].buffer = <<>> /\ f[i].window = Ofdm!Useful(Ofdm!From(i))
    <3>1. Shaped(f[i - 1], cp) /\ f[i - 1].buffer = <<>>
      BY <1>4, <2>3
    <3>2. f[i] = [cp |-> cp, buffer |-> <<>>, window |-> Ofdm!Useful(Ofdm!From(i))]
      BY <1>2, <2>1, <3>1, WholeSymbol
    <3>3. QED
      BY <3>2
  <2>4. QED
    BY <2>2, <2>3
<1> HIDE DEF S
<1>5. k \in S
  BY <1>3, <1>4, Everywhere
<1>6. QED
  BY <1>5 DEF S, f

LEMMA OfdmStep ==
  ASSUME OfdmInv, Ofdm!Next
  PROVE  OfdmInv'
<1>1. CASE Ofdm!Work
  <2>1. PICK n \in 1 .. MaxSymbols :
          LET after == Ofdm!After(n)
              ready == Ofdm!Cardinality({k \in 1 .. n : after[k].window # <<>>})
          IN  /\ removal' = after[n]
              /\ consumed' = consumed + Fft * ready
              /\ symbols' = [k \in 1 .. ready |->
                               [from |-> Ofdm!From(k), symbol |-> after[k].window]]
    BY <1>1 DEF Ofdm!Work
  <2> DEFINE after == Ofdm!After(n)
             complete == {k \in 1 .. n : after[k].window # <<>>}
             ready == Cardinality(complete)
  <2>2. cp' = cp /\ n \in Nat
    BY <1>1 DEF Ofdm!Work
  <2>3. Ofdm!Cardinality(complete) = ready
    BY DEF Ofdm!Cardinality, Cardinality
  <2> HIDE DEF after
  <2>4. /\ removal' = after[n] /\ consumed' = consumed + Fft * ready
        /\ symbols' = [k \in 1 .. ready |->
                         [from |-> Ofdm!From(k), symbol |-> after[k].window]]
    BY <2>1, <2>3 DEF after
  <2>5. ready \in 0 .. n
    <3>1. IsFiniteSet(1 .. n) /\ Cardinality(1 .. n) = n
      BY <2>2, FS_Interval
    <3>2. complete \in SUBSET (1 .. n)
      OBVIOUS
    <3> HIDE DEF complete
    <3>3. IsFiniteSet(complete) /\ ready <= n
      BY <3>1, <3>2, FS_Subset
    <3>4. ready \in Nat
      BY <3>3, FS_CardinalityType
    <3>5. QED
      BY <2>2, <3>3, <3>4
  <2> HIDE DEF ready, complete
  <2>6. \A k \in 0 .. n :
          /\ Shaped(after[k], removal.cp)
          /\ removal.cp = cp => /\ after[k].buffer = <<>>
                                /\ k # 0 => after[k].window = Ofdm!Useful(Ofdm!From(k))
    BY <2>2, AfterWhole DEF after
  <2>7. consumed' \in Nat
    <3>1. Fft * ready \in Nat
      BY <2>5, OfdmAssumption DEF OfdmAssumption
    <3>2. QED
      BY <2>4, <3>1 DEF OfdmInv
  <2>8. Shaped(removal', removal'.cp) /\ removal'.cp = removal.cp
    <3>1. Shaped(removal', removal.cp)
      BY <2>2, <2>4, <2>6
    <3>2. removal'.cp = removal.cp
      BY <3>1 DEF Shaped
    <3>3. QED
      BY <3>1, <3>2
  <2>9. removal'.cp = cp' => removal'.buffer = <<>>
    BY <2>2, <2>4, <2>6, <2>8
  <2>10. ASSUME removal'.cp = cp', NEW k \in 1 .. Len(symbols')
         PROVE  symbols'[k].symbol = Ofdm!Useful(symbols'[k].from)
    <3>1. k \in 1 .. ready /\ k \in 0 .. n /\ k # 0
      BY <2>2, <2>4, <2>5
    <3>2. symbols'[k].symbol = after[k].window /\ symbols'[k].from = Ofdm!From(k)
      BY <2>4, <3>1
    <3>3. QED
      BY <2>2, <2>6, <2>8, <2>10, <3>1, <3>2
  <2>11. Ofdm!SymbolsComeWhole'
    BY <2>2, <2>10 DEF Ofdm!SymbolsComeWhole, Ofdm!Useful
  <2>12. QED
    BY <2>2, <2>7, <2>8, <2>9, <2>11 DEF OfdmInv
<1>2. CASE Ofdm!SetCpLength
  <2>1. PICK length \in PrefixLengths :
          /\ cp' = length /\ removal' = Ofdm!NewRemoval(length)
          /\ symbols' = <<>> /\ consumed' = consumed
    BY <1>2 DEF Ofdm!SetCpLength
  <2>2. cp' \in Nat
    BY <2>1, OfdmAssumption DEF OfdmAssumption
  <2>3. Shaped(removal', removal'.cp) /\ removal'.buffer = <<>>
    BY <2>1 DEF Shaped, Ofdm!NewRemoval
  <2>4. QED
    BY <2>1, <2>2, <2>3 DEF OfdmInv, Ofdm!SymbolsComeWhole
<1>3. CASE Ofdm!Reset
  BY <1>3 DEF Ofdm!Reset, OfdmInv, Ofdm!SymbolsComeWhole, Shaped
<1>4. QED
  BY <1>1, <1>2, <1>3 DEF Ofdm!Next

(* lib/ofdm/cp_removal.cc, blocks/atsc3_ofdm_demod_impl.cc: every symbol     *)
(* handed on is the useful part of the samples fed for it, for every FFT     *)
(* size, length of the prefix and number of symbols in a call.               *)
THEOREM SymbolsAreWhole == DatapathSpec => []SymbolsComeWhole
<1> DEFINE next == [DatapathNext]_datapathVars
<1>1. DatapathInit => OfdmInv
  <2> SUFFICES ASSUME Ofdm!Init PROVE OfdmInv
    BY DEF DatapathInit
  <2>1. cp \in Nat /\ consumed = 0 /\ symbols = <<>>
    BY OfdmAssumption DEF Ofdm!Init, OfdmAssumption
  <2>2. Shaped(removal, removal.cp) /\ removal.buffer = <<>>
    BY DEF Ofdm!Init, Ofdm!NewRemoval, Shaped
  <2>3. QED
    BY <2>1, <2>2 DEF OfdmInv, Ofdm!SymbolsComeWhole
<1>2. OfdmInv /\ next => OfdmInv'
  <2> SUFFICES ASSUME OfdmInv, next PROVE OfdmInv'
    OBVIOUS
  <2>1. CASE Ofdm!Next
    BY <2>1, OfdmStep
  <2>2. CASE UNCHANGED ofdmVars
    BY <2>2 DEF ofdmVars, OfdmInv, Shaped, Ofdm!SymbolsComeWhole, Ofdm!Useful
  <2>3. QED
    BY <2>1, <2>2 DEF DatapathNext, datapathVars
<1>3. OfdmInv => SymbolsComeWhole
  BY DEF OfdmInv, SymbolsComeWhole
<1>4. QED
  BY <1>1, <1>2, <1>3, PTL DEF DatapathSpec

-----------------------------------------------------------------------------
(* Fractions, as lib/channel/channel_estimator.cc and equalizer.cc are       *)
(* modelled with them: their order, and the average of two.                  *)
IsFraction(a) == a[1] \in Int /\ a[2] \in Nat \ {0}

LEMMA Multiplied ==
  ASSUME NEW a \in Int, NEW b \in Int, a <= b, NEW c \in Nat
  PROVE  c * a <= c * b
<1>1. b - a \in Nat
  OBVIOUS
<1>2. c * (b - a) \in Nat
  BY <1>1
<1>3. c * (b - a) = c * b - c * a
  OBVIOUS
<1>4. c * a \in Int /\ c * b \in Int
  OBVIOUS
<1> QED BY <1>2, <1>3, <1>4

LEMMA Divided ==
  ASSUME NEW a \in Int, NEW b \in Int, NEW c \in Nat \ {0}, c * a <= c * b
  PROVE  a <= b
<1> SUFFICES ASSUME b + 1 <= a PROVE FALSE
  OBVIOUS
<1>1. c * (b + 1) <= c * a
  BY Multiplied
<1>2. c * (b + 1) = c * b + c
  OBVIOUS
<1>3. c * a \in Int /\ c * b \in Int
  OBVIOUS
<1> QED BY <1>1, <1>2, <1>3

LEMMA InARow ==
  ASSUME NEW a, NEW b, NEW c, IsFraction(a), IsFraction(b), IsFraction(c),
         Band!AtMost(a, b), Band!AtMost(b, c)
  PROVE  Band!AtMost(a, c)
<1>1. ASSUME NEW a1 \in Int, NEW b1 \in Int, NEW c1 \in Int,
             NEW a2 \in Nat \ {0}, NEW b2 \in Nat \ {0}, NEW c2 \in Nat \ {0},
             a1 * b2 <= b1 * a2, b1 * c2 <= c1 * b2
      PROVE  a1 * c2 <= c1 * a2
  <2>1. \A x, y \in Int : x * y \in Int
    OBVIOUS
  <2>2. c2 * (a1 * b2) <= c2 * (b1 * a2)
    BY <1>1, <2>1, Multiplied
  <2>3. a2 * (b1 * c2) <= a2 * (c1 * b2)
    BY <1>1, <2>1, Multiplied
  <2>4. c2 * (b1 * a2) = a2 * (b1 * c2)
    OBVIOUS
  <2>5. b2 * (a1 * c2) = c2 * (a1 * b2)
    OBVIOUS
  <2>6. b2 * (c1 * a2) = a2 * (c1 * b2)
    OBVIOUS
  <2> DEFINE p == c2 * (a1 * b2)
             q == a2 * (b1 * c2)
             r == a2 * (c1 * b2)
  <2>7. p \in Int /\ q \in Int /\ r \in Int
    BY <2>1
  <2>8. p <= q /\ q <= r
    BY <2>2, <2>3, <2>4
  <2> HIDE DEF p, q, r
  <2>9. p <= r
    BY <2>7, <2>8
  <2>10. b2 * (a1 * c2) <= b2 * (c1 * a2)
    BY <2>5, <2>6, <2>9 DEF p, r
  <2>11. a1 * c2 \in Int /\ c1 * a2 \in Int
    BY <2>1
  <2> QED BY <2>10, <2>11, Divided
<1>2. \A a1, b1, c1 \in Int, a2, b2, c2 \in Nat \ {0} :
        a1 * b2 <= b1 * a2 /\ b1 * c2 <= c1 * b2 => a1 * c2 <= c1 * a2
  BY <1>1
<1> QED BY <1>2 DEF IsFraction, Band!AtMost

LEMMA OneIsAtMost ==
  ASSUME NEW a, NEW b, IsFraction(a), IsFraction(b)
  PROVE  Band!AtMost(a, a) /\ (Band!AtMost(a, b) \/ Band!AtMost(b, a))
<1>1. a[1] * b[2] \in Int /\ b[1] * a[2] \in Int /\ a[1] * a[2] \in Int
  BY DEF IsFraction
<1> QED BY <1>1 DEF Band!AtMost

(* A weighted sum of two values below a third, or above it. *)
LEMMA Weighted ==
  ASSUME NEW A \in Nat, NEW r \in Nat,
         NEW n1 \in Int, NEW o1 \in Int, NEW m1 \in Int,
         NEW n2 \in Nat \ {0}, NEW o2 \in Nat \ {0}, NEW m2 \in Nat \ {0}
  PROVE  /\ n1 * m2 <= m1 * n2 /\ o1 * m2 <= m1 * o2 =>
              (A * n1 * o2 + r * o1 * n2) * m2 <= m1 * ((A + r) * n2 * o2)
         /\ m1 * n2 <= n1 * m2 /\ m1 * o2 <= o1 * m2 =>
              m1 * ((A + r) * n2 * o2) <= (A * n1 * o2 + r * o1 * n2) * m2
<1> DEFINE P == A * o2
           Q == r * n2
           w == n1 * m2
           x == m1 * n2
           y == o1 * m2
           z == m1 * o2
<1>1. P \in Nat /\ Q \in Nat /\ w \in Int /\ x \in Int /\ y \in Int /\ z \in Int
  OBVIOUS
<1>2. (A * n1 * o2 + r * o1 * n2) * m2 = P * w + Q * y
  <2>1. (A * n1 * o2) * m2 = P * w
    OBVIOUS
  <2>2. (r * o1 * n2) * m2 = Q * y
    OBVIOUS
  <2>3. \A u, v \in Int : (u + v) * m2 = u * m2 + v * m2
    OBVIOUS
  <2>4. A * n1 * o2 \in Int /\ r * o1 * n2 \in Int
    OBVIOUS
  <2> QED BY <2>1, <2>2, <2>3, <2>4
<1>3. m1 * ((A + r) * n2 * o2) = P * x + Q * z
  <2>1. (A + r) * n2 * o2 = A * n2 * o2 + r * n2 * o2
    OBVIOUS
  <2>2. m1 * (A * n2 * o2) = P * x
    OBVIOUS
  <2>3. m1 * (r * n2 * o2) = Q * z
    OBVIOUS
  <2>4. \A u, v \in Int : m1 * (u + v) = m1 * u + m1 * v
    OBVIOUS
  <2>5. A * n2 * o2 \in Int /\ r * n2 * o2 \in Int
    OBVIOUS
  <2> QED BY <2>1, <2>2, <2>3, <2>4, <2>5
<1> HIDE DEF P, Q, w, x, y, z
<1>4. w <= x /\ y <= z => P * w <= P * x /\ Q * y <= Q * z
  BY <1>1, Multiplied
<1>5. x <= w /\ z <= y => P * x <= P * w /\ Q * z <= Q * y
  BY <1>1, Multiplied
<1>6. P * w \in Int /\ P * x \in Int /\ Q * y \in Int /\ Q * z \in Int
  BY <1>1
<1>7. w <= x /\ y <= z => P * w + Q * y <= P * x + Q * z
  BY <1>4, <1>6
<1>8. x <= w /\ z <= y => P * x + Q * z <= P * w + Q * y
  BY <1>5, <1>6
<1> QED BY <1>2, <1>3, <1>7, <1>8 DEF w, x, y, z

(* apply_averaging(), estimate_residual_phase(): an average is a value, and  *)
(* lies between what bounds the new value and the old one.                   *)
LEMMA BlendType ==
  ASSUME NEW new, NEW old, IsFraction(new), IsFraction(old)
  PROVE  IsFraction(Band!Blend(new, old))
<1>1. Alpha[1] \in Nat /\ Alpha[2] \in Nat \ {0} /\ Alpha[2] - Alpha[1] \in Nat
  BY BandAssumption DEF BandAssumption
<1>2. \A a, b, c, d, e, f \in Int : a * b * c + d * e * f \in Int
  OBVIOUS
<1>3. \A a, b \in Nat \ {0} : a * b \in Nat \ {0}
  OBVIOUS
<1>4. Alpha[2] * new[2] \in Nat \ {0}
  BY <1>1, <1>3 DEF IsFraction
<1>5. (Alpha[2] * new[2]) * old[2] \in Nat \ {0}
  BY <1>3, <1>4 DEF IsFraction
<1>6. Alpha[1] * new[1] * old[2] + (Alpha[2] - Alpha[1]) * old[1] * new[2] \in Int
  BY <1>1, <1>2 DEF IsFraction
<1> QED BY <1>5, <1>6 DEF IsFraction, Band!Blend

LEMMA BlendBetween ==
  ASSUME NEW new, NEW old, NEW m, IsFraction(new), IsFraction(old), IsFraction(m)
  PROVE  /\ Band!AtMost(new, m) /\ Band!AtMost(old, m) => Band!AtMost(Band!Blend(new, old), m)
         /\ Band!AtMost(m, new) /\ Band!AtMost(m, old) => Band!AtMost(m, Band!Blend(new, old))
<1> DEFINE A == Alpha[1]
           r == Alpha[2] - Alpha[1]
<1>1. A \in Nat /\ r \in Nat /\ Alpha[2] = A + r
  BY BandAssumption DEF BandAssumption
<1>2. /\ new[1] \in Int /\ old[1] \in Int /\ m[1] \in Int
      /\ new[2] \in Nat \ {0} /\ old[2] \in Nat \ {0} /\ m[2] \in Nat \ {0}
  BY DEF IsFraction
<1>3. Band!Blend(new, old) = <<A * new[1] * old[2] + r * old[1] * new[2], (A + r) * new[2] * old[2]>>
  BY <1>1 DEF Band!Blend
<1> HIDE DEF A, r
<1>4. /\ new[1] * m[2] <= m[1] * new[2] /\ old[1] * m[2] <= m[1] * old[2] =>
           (A * new[1] * old[2] + r * old[1] * new[2]) * m[2]
             <= m[1] * ((A + r) * new[2] * old[2])
      /\ m[1] * new[2] <= new[1] * m[2] /\ m[1] * old[2] <= old[1] * m[2] =>
           m[1] * ((A + r) * new[2] * old[2])
             <= (A * new[1] * old[2] + r * old[1] * new[2]) * m[2]
  BY <1>1, <1>2, Weighted
<1> DEFINE num == A * new[1] * old[2] + r * old[1] * new[2]
           den == (A + r) * new[2] * old[2]
           b == Band!Blend(new, old)
<1>5. b[1] = num /\ b[2] = den
  BY <1>3
<1>6. /\ Band!AtMost(new, m) /\ Band!AtMost(old, m) => num * m[2] <= m[1] * den
      /\ Band!AtMost(m, new) /\ Band!AtMost(m, old) => m[1] * den <= num * m[2]
  BY <1>4, Zenon DEF Band!AtMost
<1> HIDE DEF num, den, b
<1>7. /\ num * m[2] <= m[1] * den => Band!AtMost(b, m)
      /\ m[1] * den <= num * m[2] => Band!AtMost(m, b)
  BY <1>5, Zenon DEF Band!AtMost
<1> QED BY <1>6, <1>7 DEF b

(* One of the new value and the old lower bound is below the average, and    *)
(* one of the new value and the old upper bound is above it.                 *)
LEMMA BlendBounds ==
  ASSUME NEW new, NEW old, NEW low, NEW high,
         IsFraction(new), IsFraction(old), IsFraction(low), IsFraction(high),
         Band!AtMost(low, old), Band!AtMost(old, high)
  PROVE  /\ \/ Band!AtMost(low, Band!Blend(new, old))
            \/ Band!AtMost(new, Band!Blend(new, old))
         /\ \/ Band!AtMost(Band!Blend(new, old), high)
            \/ Band!AtMost(Band!Blend(new, old), new)
<1>1. CASE Band!AtMost(low, new) /\ Band!AtMost(new, high)
  BY <1>1, BlendBetween
<1>2. ASSUME Band!AtMost(new, low)
      PROVE  Band!AtMost(new, Band!Blend(new, old))
  BY <1>2, OneIsAtMost, InARow, BlendBetween
<1>3. ASSUME Band!AtMost(high, new)
      PROVE  Band!AtMost(Band!Blend(new, old), new)
  BY <1>3, OneIsAtMost, InARow, BlendBetween
<1>4. Band!AtMost(low, new) \/ Band!AtMost(new, low)
  BY OneIsAtMost
<1>5. Band!AtMost(high, new) \/ Band!AtMost(new, high)
  BY OneIsAtMost
<1>6. Band!AtMost(low, new) => Band!AtMost(low, Band!Blend(new, old))
  BY BlendBetween
<1>7. Band!AtMost(new, high) => Band!AtMost(Band!Blend(new, old), high)
  BY BlendBetween
<1> QED BY <1>2, <1>3, <1>4, <1>5, <1>6, <1>7

-----------------------------------------------------------------------------
(* interpolate_linear(): every active carrier has a value, that of the pilot *)
(* where there is one; between two pilots it lies on the line through them.  *)
LEMMA FirstIs ==
  ASSUME NEW S, S \subseteq Nat, S # {}
  PROVE  Band!First(S) \in S /\ \A q \in S : Band!First(S) <= q
<1>1. \E p \in S : \A q \in S : p <= q
  BY Least
<1> QED BY <1>1, Zenon DEF Band!First

LEMMA LatestIs ==
  ASSUME NEW n \in Nat, NEW S, S \subseteq 0 .. n, S # {}
  PROVE  Band!Latest(S) \in S /\ \A q \in S : q <= Band!Latest(S)
<1> DEFINE T == {n - p : p \in S}
<1>1. T \subseteq Nat /\ T # {}
  <2>1. \A p \in S : n - p \in Nat
    OBVIOUS
  <2>2. PICK p \in S : TRUE
    OBVIOUS
  <2>3. n - p \in T
    BY <2>2
  <2> QED BY <2>1, <2>3
<1>2. PICK i \in T : \A j \in T : i <= j
  <2> HIDE DEF T
  <2> QED BY <1>1, Least
<1>3. PICK p \in S : i = n - p
  BY <1>2
<1>4. \A q \in S : n - p <= n - q
  BY <1>2, <1>3
<1>5. \A q \in S : q <= p
  <2> TAKE q \in S
  <2>1. q \in Int /\ p \in Int /\ n - p <= n - q
    BY <1>4
  <2> QED BY <2>1
<1>6. \E x \in S : \A q \in S : q <= x
  BY <1>5
<1> QED BY <1>6, Zenon DEF Band!Latest

(* c lies on a line. *)
OnALine(c, n) == \E a, b \in Int : \A j \in 0 .. n : c[j] = a + j * b

LEMMA LineType ==
  ASSUME NEW h, NEW left \in Nat, NEW right \in Nat, left < right, NEW steps \in Int,
         h[left] \in Int, h[right] \in Int
  PROVE  IsFraction(Band!Line(h, left, right, steps))
<1>1. right - left \in Nat \ {0}
  OBVIOUS
<1>2. \A a, b, c, d \in Int : a * b + c * d \in Int
  OBVIOUS
<1>3. h[right] - h[left] \in Int
  OBVIOUS
<1>4. h[left] * (right - left) + steps * (h[right] - h[left]) \in Int
  BY <1>1, <1>2, <1>3
<1> QED BY <1>1, <1>4 DEF IsFraction, Band!Line

(* What is on a line is what interpolation makes of it. *)
OnLine(y, x, a, b) == y = a + x * b

LineMeets(h, left, right, k, y) ==
  Band!Line(h, left, right, k - left) = <<y * (right - left), right - left>>

LEMMA LineOfLine ==
  ASSUME NEW h, NEW left \in Nat, NEW right \in Nat, NEW k \in Nat,
         NEW a \in Int, NEW b \in Int, NEW y, OnLine(y, k, a, b),
         OnLine(h[left], left, a, b), OnLine(h[right], right, a, b)
  PROVE  LineMeets(h, left, right, k, y)
<1> USE DEF OnLine, LineMeets
<1> DEFINE d == right - left
           u == left * b
           w == k * b
<1>1. h[right] - h[left] = d * b
  <2>1. right * b = left * b + d * b
    OBVIOUS
  <2>2. left * b \in Int /\ right * b \in Int /\ d * b \in Int
    OBVIOUS
  <2> HIDE DEF d
  <2> QED BY <2>1, <2>2
<1>2. (k - left) * (d * b) = w * d - u * d
  OBVIOUS
<1>3. h[left] * d = a * d + u * d
  OBVIOUS
<1>4. (a + w) * d = a * d + w * d
  OBVIOUS
<1>5. a * d \in Int /\ u * d \in Int /\ w * d \in Int
  OBVIOUS
<1>6. Band!Line(h, left, right, k - left) = <<h[left] * d + (k - left) * (h[right] - h[left]), d>>
  BY DEF Band!Line
<1> HIDE DEF d, u, w
<1>7. h[left] * d + (k - left) * (h[right] - h[left]) = (a + w) * d
  BY <1>1, <1>2, <1>3, <1>4, <1>5
<1> QED BY <1>6, <1>7 DEF w, d

(* A value that is c at a carrier. *)
Is(f, c) == IsFraction(f) /\ f[1] = c * f[2]

LEMMA Interpolated ==
  ASSUME NEW n \in Nat, Band!ActiveCarriers = 0 .. n,
         NEW h, DOMAIN h \subseteq 0 .. n, DOMAIN h # {}, \A p \in DOMAIN h : h[p] \in Int,
         NEW k \in 0 .. n
  PROVE  /\ IsFraction(Band!Interpolate(h)[k])
         /\ k \in DOMAIN h => Is(Band!Interpolate(h)[k], h[k])
         /\ \A c : /\ OnALine(c, n) /\ c[k] \in Int /\ \A p \in DOMAIN h : h[p] = c[p]
                   /\ \E p \in DOMAIN h : p <= k
                   /\ \E q \in DOMAIN h : k <= q
                   => Is(Band!Interpolate(h)[k], c[k])
<1> DEFINE places == DOMAIN h
           first == Band!First(places)
           next(p) == Band!First({q \in places : q > p})
           before == {p \in places : p <= k}
           left == Band!Latest(before)
           final == Band!Latest(places)
           f == Band!Interpolate(h)[k]
           one == Band!Cardinality(places) = 1
<1>1. f = IF one THEN <<h[first], 1>>
          ELSE IF k < first THEN Band!Line(h, first, next(first), (k - first) % SizeT)
          ELSE IF left = final THEN <<h[left], 1>>
          ELSE Band!Line(h, left, next(left), k - left)
  BY DEF Band!Interpolate
<1>2. SizeT \in Nat \ {0}
  BY BandAssumption DEF BandAssumption
<1>3. first \in places /\ (\A q \in places : first <= q) /\ final \in places
      /\ \A q \in places : q <= final
  <2>1. places \subseteq Nat
    OBVIOUS
  <2> QED BY <2>1, FirstIs, LatestIs
<1>4. ASSUME NEW p \in places, \E q \in places : q > p
      PROVE  next(p) \in places /\ p < next(p)
  <2> DEFINE after == {q \in places : q > p}
  <2>1. after \subseteq Nat /\ after # {}
    BY <1>4
  <2>2. Band!First(after) \in after
    <3> HIDE DEF after
    <3> QED BY <2>1, FirstIs
  <2>3. p \in Int /\ Band!First(after) \in Int /\ Band!First(after) > p
    BY <2>2
  <2> QED BY <2>2, <2>3
<1>5. one <=> \E x : places = {x}
  <2>1. IsFiniteSet(places)
    <3>1. IsFiniteSet(0 .. n)
      BY FS_Interval
    <3> QED BY <3>1, FS_Subset
  <2>2. Band!Cardinality(places) = Cardinality(places)
    BY DEF Band!Cardinality, Cardinality
  <2> QED BY <2>1, <2>2, FS_Singleton
<1>6. ASSUME ~ (k < first)
      PROVE  left \in before /\ \A q \in before : q <= left
  <2>1. first \in before
    BY <1>3, <1>6
  <2>2. before \subseteq 0 .. n /\ before # {}
    BY <2>1
  <2> HIDE DEF before
  <2> QED BY <2>2, LatestIs
<1>7. \A p \in places : p \in Nat /\ p \in 0 .. n /\ h[p] \in Int
  OBVIOUS
<1> HIDE DEF one, first, next, left, final, f
<1>8. CASE one
  <2>1. places = {first}
    <3> HIDE DEF places
    <3>1. PICK x : places = {x}
      BY <1>5, <1>8
    <3> QED BY <1>3, <3>1
  <2>2. f = <<h[first], 1>> /\ h[first] \in Int
    BY <1>1, <1>3, <1>7, <1>8
  <2>3. Is(f, h[first])
    BY <2>2 DEF Is, IsFraction
  <2>4. \A p, q \in places : p <= k /\ k <= q => k = first
    BY <1>7, <2>1
  <2> QED BY <2>1, <2>3, <2>4 DEF Is, f
<1>9. CASE ~ one /\ k < first
  <2>1. \E q \in places : q > first
    <3>1. PICK q \in places : q # first
      <4> HIDE DEF places
      <4>1. places # {first}
        BY <1>5, <1>9
      <4> QED BY <1>3, <4>1
    <3> QED BY <1>3, <1>7, <3>1
  <2>2. next(first) \in places /\ first < next(first)
    BY <1>3, <1>4, <2>1
  <2>3. (k - first) % SizeT \in Int
    <3>1. k - first \in Int
      BY <1>3, <1>7
    <3> QED BY <1>2, <3>1
  <2>4. IsFraction(Band!Line(h, first, next(first), (k - first) % SizeT))
    BY <1>3, <1>7, <2>2, <2>3, LineType
  <2>5. k \notin places /\ ~ \E p \in places : p <= k
    BY <1>3, <1>7, <1>9
  <2> QED BY <1>1, <1>9, <2>4, <2>5 DEF f
<1>10. CASE ~ one /\ ~ (k < first) /\ left = final
  <2>1. f = <<h[left], 1>> /\ h[left] \in Int
    BY <1>1, <1>3, <1>7, <1>10
  <2>2. Is(f, h[left])
    BY <2>1 DEF Is, IsFraction
  <2>3. \A q \in places : k <= q => k = left
    <3> TAKE q \in places
    <3>1. left <= k /\ q <= left
      BY <1>3, <1>6, <1>10
    <3> QED BY <1>3, <1>7, <1>10, <3>1
  <2>4. k \in places => k = left
    BY <1>7, <2>3
  <2>5. left \in places
    BY <1>3, <1>10
  <2> QED BY <2>2, <2>3, <2>4, <2>5 DEF Is, f
<1>11. CASE ~ one /\ ~ (k < first) /\ left # final
  <2>1. left \in places /\ left <= k /\ \A q \in places : q <= k => q <= left
    BY <1>6, <1>11
  <2>2. final > left
    BY <1>3, <1>7, <1>11, <2>1
  <2> DEFINE right == next(left)
  <2>3. right \in places /\ left < right
    BY <1>3, <1>4, <2>1, <2>2
  <2> HIDE DEF right
  <2>4. f = Band!Line(h, left, right, k - left)
    BY <1>1, <1>11 DEF right
  <2>5. left \in Nat /\ right \in Nat /\ h[left] \in Int /\ h[right] \in Int /\ k - left \in Int
        /\ left \in 0 .. n /\ right \in 0 .. n /\ k \in Nat
    BY <1>7, <2>1, <2>3
  <2>6. IsFraction(f)
    BY <2>3, <2>4, <2>5, LineType
  <2>7. ASSUME k \in places
        PROVE  Is(f, h[k])
    <3>1. k = left
      BY <1>7, <2>1, <2>7
    <3>2. f = <<h[left] * (right - left) + 0 * (h[right] - h[left]), right - left>>
      BY <2>4, <2>5, <3>1 DEF Band!Line
    <3>3. 0 * (h[right] - h[left]) = 0 /\ h[left] * (right - left) \in Int
      BY <2>5
    <3>4. f[1] = h[left] * (right - left) /\ f[2] = right - left
      BY <3>2, <3>3
    <3> QED BY <2>6, <3>1, <3>4 DEF Is
  <2>8. ASSUME NEW c, OnALine(c, n), c[k] \in Int, \A p \in places : h[p] = c[p]
        PROVE  Is(f, c[k])
    <3>1. PICK a \in Int, b \in Int : \A j \in 0 .. n : c[j] = a + j * b
      BY <2>8 DEF OnALine
    <3>2. h[left] = a + left * b /\ h[right] = a + right * b /\ c[k] = a + k * b
      BY <2>1, <2>3, <2>5, <2>8, <3>1
    <3>3. f = <<c[k] * (right - left), right - left>>
      <4>1. OnLine(h[left], left, a, b) /\ OnLine(h[right], right, a, b) /\ OnLine(c[k], k, a, b)
        BY <3>2 DEF OnLine
      <4>2. LineMeets(h, left, right, k, c[k])
        BY <2>5, <4>1, LineOfLine
      <4> QED BY <2>4, <4>2, Zenon DEF LineMeets
    <3>4. f[1] = c[k] * (right - left) /\ f[2] = right - left
      BY <3>2, <3>3
    <3> QED BY <2>6, <3>4 DEF Is
  <2> QED BY <2>6, <2>7, <2>8 DEF f
<1> QED BY <1>8, <1>9, <1>10, <1>11

-----------------------------------------------------------------------------
(* The carriers of the band lie in its FFT, and so do its pilots.            *)
BandIsFit(c) ==
  /\ c.scale \in DOMAIN BandActive
  /\ c.first \in Nat /\ c.last \in Nat
  /\ c.first <= c.last /\ c.last < BandFft * c.scale
  /\ c.pattern.dx \in Nat \ {0} /\ c.pattern.dy \in Nat \ {0}

LEMMA BandConfiguredFits ==
  ASSUME NEW pattern \in BandPatterns, NEW scale \in DOMAIN BandActive,
         NEW request \in BandRequests, NEW c, c = Band!Configured(pattern, scale, request)
  PROVE  BandIsFit(c)
<1> DEFINE count == IF request.count = 0 THEN BandActive[scale] ELSE request.count
           all == BandFft * scale
           first == IF request.first = 0 THEN (all - count) \div 2 ELSE request.first
<1>1. /\ BandFft \in Nat /\ scale \in Nat \ {0} /\ count \in Nat \ {0} /\ request.first \in Nat
      /\ request.first + count <= all
      /\ pattern.dx \in Nat \ {0} /\ pattern.dy \in Nat \ {0}
  BY BandAssumption DEF BandAssumption, BandFits
<1>2. /\ c.pattern = pattern /\ c.scale = scale
      /\ c.first = first /\ c.last = first + count - 1
  BY DEF Band!Configured
<1>3. all \in Nat
  BY <1>1
<1> HIDE DEF count, all
<1>4. first \in Nat /\ first + count <= all
  <2>1. CASE request.first = 0
    <3>1. all - count \in Nat /\ (all - count) \div 2 \in Nat
          /\ (all - count) \div 2 <= all - count
      BY <1>1, <1>3, <2>1
    <3> QED BY <1>1, <1>3, <2>1, <3>1
  <2>2. CASE request.first # 0
    BY <1>1, <1>3, <2>2
  <2> QED BY <2>1, <2>2
<1> HIDE DEF first
<1> QED BY <1>1, <1>2, <1>3, <1>4 DEF BandIsFit, all

LEMMA BandPilotsInside ==
  ASSUME BandIsFit(band), symbolIndex \in Nat, NEW at \in Band!Given
  PROVE  at \subseteq band.first .. band.last
<1> DEFINE s == band.scale
           first == band.first
           o == Band!Offset(symbolIndex)
           between(p, j) == p[1] * s + (((p[2] * s - p[1] * s) * j) \div s)
<1>1. \A a, b \in Nat : a * b \in Nat
  OBVIOUS
<1>2. s \in Nat \ {0} /\ first \in Nat /\ BandContinual \subseteq Nat
  BY BandAssumption DEF BandAssumption, BandIsFit
<1>3. Band!ExtractScattered(symbolIndex) \subseteq band.first .. band.last
  <2>1. symbolIndex % band.pattern.dy \in Nat
    BY DEF BandIsFit
  <2>2. o \in Nat /\ Band!Period \in Nat
    BY <1>1, <2>1 DEF BandIsFit, Band!Period, Band!Offset
  <2> HIDE DEF o
  <2>3. \A i \in 0 .. (band.last \div Band!Period) : i * Band!Period \in Nat
    <3> TAKE i \in 0 .. (band.last \div Band!Period)
    <3>1. i \in Nat
      OBVIOUS
    <3> QED BY <1>1, <2>2, <3>1
  <2>4. Band!ExtractScattered(symbolIndex)
          = {k \in {first + o + i * Band!Period : i \in 0 .. (band.last \div Band!Period)} :
               k <= band.last}
    BY DEF Band!ExtractScattered, Band!Within, o
  <2>5. \A d \in Nat : first + o + d \in Nat /\ first + o + d >= first
    BY <1>2, <2>2
  <2>6. \A i \in 0 .. (band.last \div Band!Period) :
          first + o + i * Band!Period \in Nat /\ first + o + i * Band!Period >= first
    BY <2>3, <2>5
  <2>7. \A k \in Band!ExtractScattered(symbolIndex) :
          k \in Nat /\ k >= first /\ k <= band.last
    BY <2>4, <2>6
  <2> QED BY <2>7 DEF BandIsFit
<1>4. Band!ContinualPositions \subseteq band.first .. band.last
  <2>1. \A c \in BandContinual : first + c * s \in Nat /\ first + c * s >= first
    <3> TAKE c \in BandContinual
    <3>1. c * s \in Nat
      BY <1>1, <1>2
    <3> QED BY <1>2, <3>1
  <2>2. ASSUME NEW p \in Band!Neighbours, NEW j \in 1 .. (s - 1)
        PROVE  first + between(p, j) \in Nat /\ first + between(p, j) >= first
    <3>1. p[1] \in Nat /\ p[2] \in Nat /\ p[1] <= p[2]
      <4>1. p \in BandContinual \X BandContinual /\ p[1] < p[2]
        BY DEF Band!Neighbours
      <4>2. p[1] \in BandContinual /\ p[2] \in BandContinual
        BY <4>1
      <4>3. p[1] \in Nat /\ p[2] \in Nat
        BY <1>2, <4>2, Zenon
      <4> QED BY <4>1, <4>3
    <3>2. p[1] * s \in Nat /\ p[2] * s \in Nat /\ p[1] * s <= p[2] * s
      BY <1>2, <3>1
    <3>3. p[2] * s - p[1] * s \in Nat /\ j \in Nat
      BY <1>2, <3>2
    <3>4. (p[2] * s - p[1] * s) * j \in Nat
      BY <1>1, <3>3
    <3>5. ((p[2] * s - p[1] * s) * j) \div s \in Nat
      BY <1>2, <3>4, Quotient
    <3> QED BY <1>2, <3>2, <3>5
  <2>3. \A k \in Band!ContinualPositions : k \in Nat /\ k >= first /\ k <= band.last
    BY <2>1, <2>2 DEF Band!ContinualPositions, Band!Within
  <2> QED BY <2>3 DEF BandIsFit
<1>5. Band!EdgePilots \subseteq band.first .. band.last
  BY DEF BandIsFit, Band!EdgePilots
<1> QED BY <1>3, <1>4, <1>5 DEF Band!Given

(* The least-squares estimate of a pilot is the channel there.               *)
LEMMA LeastSquaresIs ==
  ASSUME NEW ch, NEW k, Sent[k] \in {1, -1}, ch[k] \in Int
  PROVE  Band!LeastSquares(ch, k) = ch[k]
<1>1. Band!LeastSquares(ch, k)
        = IF Sent[k] = 0 THEN 0 ELSE ((ch[k] * Sent[k]) * Sent[k]) \div (Sent[k] * Sent[k])
  BY DEF Band!LeastSquares, Band!SafeDivide
<1>2. CASE Sent[k] = 1
  BY <1>1, <1>2
<1>3. CASE Sent[k] = -1
  <2>1. (ch[k] * (-1)) * (-1) = ch[k] /\ (-1) * (-1) = 1 /\ -1 # 0
    OBVIOUS
  <2>2. Band!LeastSquares(ch, k) = ch[k] \div 1
    BY <1>1, <1>3, <2>1
  <2> QED BY <2>2
<1> QED BY <1>2, <1>3

StraightChannel(ch) ==
  \A j \in band.first .. (band.last - 2) : ch[j + 2] - ch[j + 1] = ch[j + 1] - ch[j]

LEMMA StraightIsALine ==
  ASSUME BandIsFit(band), NEW ch, StraightChannel(ch),
         \A j \in band.first .. band.last : ch[j] \in Int,
         NEW n, n = band.last - band.first,
         NEW c, \A j \in 0 .. n : c[j] = ch[band.first + j]
  PROVE  OnALine(c, n)
<1> DEFINE a == c[0]
           b == IF n = 0 THEN 0 ELSE c[1] - c[0]
           S == {j \in 0 .. n : OnLine(c[j], j, a, b) /\ (j # 0 => c[j] - c[j - 1] = b)}
           first == band.first
<1>1. n \in Nat /\ first \in Nat /\ band.last = first + n
  BY DEF BandIsFit
<1>2. \A j \in 0 .. n : c[j] \in Int
  <2> TAKE j \in 0 .. n
  <2>1. first + j \in band.first .. band.last
    BY <1>1
  <2> QED BY <2>1
<1>3. a \in Int /\ b \in Int
  BY <1>1, <1>2
<1>4. 0 \in S
  <2>1. OnLine(a, 0, a, b)
    BY <1>3 DEF OnLine
  <2> QED BY <1>1, <2>1
<1>5. ASSUME NEW i \in 1 .. n, i - 1 \in S
      PROVE  i \in S
  <2>1. c[i] - c[i - 1] = b
    <3>1. CASE i = 1
      BY <1>1, <3>1
    <3>2. CASE i # 1
      <4>1. /\ i - 2 \in 0 .. n /\ i - 1 \in 0 .. n /\ i \in 0 .. n
            /\ first + (i - 2) \in band.first .. (band.last - 2)
            /\ (first + (i - 2)) + 1 = first + (i - 1) /\ (first + (i - 2)) + 2 = first + i
            /\ (i - 1) - 1 = i - 2 /\ i - 1 # 0
        BY <1>1, <3>2
      <4>2. ch[first + i] - ch[first + (i - 1)] = ch[first + (i - 1)] - ch[first + (i - 2)]
        BY <4>1 DEF StraightChannel
      <4>3. c[i] = ch[first + i] /\ c[i - 1] = ch[first + (i - 1)]
            /\ c[i - 2] = ch[first + (i - 2)]
        BY <4>1
      <4>4. c[i - 1] - c[i - 2] = b
        BY <1>5, <4>1
      <4> QED BY <4>2, <4>3, <4>4
    <3> QED BY <3>1, <3>2
  <2>2. OnLine(c[i - 1], i - 1, a, b) /\ c[i] \in Int /\ c[i - 1] \in Int /\ i \in 0 .. n
        /\ i \in Int
    BY <1>1, <1>2, <1>5
  <2> HIDE DEF a, b
  <2>3. c[i - 1] = a + (i - 1) * b
    BY <2>2 DEF OnLine
  <2>4. (i - 1) * b = i * b - b /\ i * b \in Int
    BY <1>3, <2>2
  <2>5. OnLine(c[i], i, a, b)
    BY <1>3, <2>1, <2>2, <2>3, <2>4 DEF OnLine
  <2> QED BY <2>1, <2>2, <2>5
<1> HIDE DEF S, a, b
<1>6. 0 .. n \subseteq S
  BY <1>1, <1>4, <1>5, Everywhere
<1>7. \A j \in 0 .. n : c[j] = a + j * b
  BY <1>6 DEF S, OnLine
<1> QED BY <1>3, <1>7 DEF OnALine

(* estimate(): the channel itself at a pilot, and between two pilots of a    *)
(* straight channel.                                                         *)
LEMMA RawKnown ==
  ASSUME BandIsFit(band), NEW at, at \subseteq band.first .. band.last, at # {},
         NEW ch \in Channels, NEW k \in Band!ActiveCarriers
  PROVE  /\ IsFraction(Band!Raw(at, ch)[k])
         /\ \/ band.first + k \in at
            \/ /\ StraightChannel(ch)
               /\ \E p \in at : p <= band.first + k
               /\ \E p \in at : band.first + k <= p
            => Is(Band!Raw(at, ch)[k], ch[band.first + k])
<1> DEFINE first == band.first
           n == band.last - first
           h == [p \in {Band!Place(j) : j \in at} |->
                   Band!LeastSquares(ch, CHOOSE j \in at : Band!Place(j) = p)]
           c == [j \in 0 .. n |-> ch[first + j]]
           places == {Band!Place(j) : j \in at}
           f == Band!Raw(at, ch)[k]
<1>1. n \in Nat /\ first \in Nat /\ band.last = first + n /\ Band!ActiveCarriers = 0 .. n
  BY DEF BandIsFit, Band!ActiveCarriers
<1>2. \A j \in first .. band.last : ch[j] \in Int /\ Sent[j] \in {1, -1}
  <2>1. BandFft * band.scale \in Nat /\ band.scale \in DOMAIN BandActive
    BY BandAssumption DEF BandAssumption, BandIsFit
  <2>2. \A j \in first .. band.last : j \in 0 .. (BandFft * band.scale - 1)
    BY <1>1, <2>1 DEF BandIsFit
  <2> QED BY <2>1, <2>2, BandAssumption DEF BandAssumption
<1>3. ASSUME NEW j \in at
      PROVE  j - first \in places /\ j - first \in 0 .. n /\ h[j - first] = ch[j]
  <2>1. j - first \in places
    BY DEF Band!Place
  <2>2. \A i \in at : Band!Place(i) = j - first => i = j
    BY <1>1 DEF Band!Place
  <2>3. (CHOOSE i \in at : Band!Place(i) = j - first) = j
    BY <2>2 DEF Band!Place
  <2>4. Band!LeastSquares(ch, j) = ch[j]
    BY <1>2, LeastSquaresIs
  <2>5. h[j - first] = ch[j]
    <3> DEFINE place == j - first
    <3>1. place \in {Band!Place(i) : i \in at}
      BY <2>1
    <3> HIDE DEF place
    <3>2. h[place] = Band!LeastSquares(ch, CHOOSE i \in at : Band!Place(i) = place)
      BY <3>1
    <3> QED BY <2>3, <2>4, <3>2 DEF place
  <2>6. j - first \in 0 .. n
    BY <1>1
  <2> QED BY <2>1, <2>5, <2>6
<1>4. \A p \in places : p \in 0 .. n /\ h[p] = c[p] /\ h[p] \in Int
  <2> TAKE p \in places
  <2>1. PICK j \in at : p = j - first
    BY DEF Band!Place
  <2>2. first + p = j
    BY <1>1, <2>1
  <2> QED BY <1>2, <1>3, <2>1, <2>2
<1>5. f = Band!Interpolate(h)[k]
  BY DEF Band!Raw
<1>6. DOMAIN h = places /\ places # {}
  BY <1>3
<1>7. c[k] = ch[first + k] /\ c[k] \in Int
  <2>1. first + k \in first .. band.last
    BY <1>1
  <2> QED BY <1>1, <1>2, <2>1
<1> HIDE DEF h, f
<1>8. /\ IsFraction(f)
      /\ k \in places => Is(f, h[k])
      /\ \A d : /\ OnALine(d, n) /\ d[k] \in Int /\ \A p \in places : h[p] = d[p]
                /\ \E p \in places : p <= k
                /\ \E q \in places : k <= q
                => Is(f, d[k])
  <2> HIDE DEF places, n
  <2>1. places \subseteq 0 .. n /\ \A p \in places : h[p] \in Int
    BY <1>4
  <2>2. k \in 0 .. n
    BY <1>1
  <2> QED BY <1>1, <1>5, <1>6, <2>1, <2>2, Interpolated
<1>9. first + k \in at => k \in places
  <2>1. k \in Int /\ (first + k) - first = k
    BY <1>1
  <2> QED BY <1>3, <2>1
<1>10. ASSUME StraightChannel(ch), NEW p \in at, p <= first + k, NEW q \in at, first + k <= q
       PROVE  Is(f, ch[first + k])
  <2>1. OnALine(c, n)
    <3> HIDE DEF c, n
    <3>1. \A j \in 0 .. n : c[j] = ch[first + j]
      BY DEF c
    <3>2. n = band.last - band.first
      BY DEF n
    <3> QED BY <1>2, <1>10, <3>1, <3>2, StraightIsALine
  <2>2. p - first \in places /\ q - first \in places
        /\ p - first <= k /\ k <= q - first
    <3>1. k \in Int /\ p \in Int /\ q \in Int /\ first \in Int
      BY <1>1
    <3>2. p - first \in places /\ q - first \in places
      BY <1>3
    <3> HIDE DEF first
    <3>3. p - first <= k /\ k <= q - first
      BY <1>10, <3>1 DEF first
    <3> QED BY <3>2, <3>3
  <2> HIDE DEF c, n, places
  <2> QED BY <1>4, <1>7, <1>8, <2>1, <2>2
<1>11. first + k \in at => Is(f, ch[first + k])
  BY <1>4, <1>7, <1>8, <1>9
<1> QED BY <1>8, <1>10, <1>11 DEF f

(* equalize_zf(), equalize_mmse(): where the estimate is the channel, what   *)
(* comes out is what was sent, or a part of it.                              *)
IsRecovered(x, s) ==
  IF options.mmse THEN /\ Band!AtMost(<<0, 1>>, <<s * x[1], x[2]>>)
                       /\ Band!AtMost(<<s * x[1], x[2]>>, <<1, 1>>)
  ELSE x[1] = s * x[2]

LEMMA SampleRecovered ==
  ASSUME NEW c \in Int, NEW s \in {1, -1}, NEW h, Is(h, c),
         NEW y, y = c * s
  PROVE  \/ IsRecovered(Band!EqualizeSample(y, h), s)
         \/ c = 0 /\ Band!EqualizeSample(y, h)[1] = 0
<1> DEFINE d == h[2]
           power == (c * d) * (c * d)
           added == IF options.mmse THEN Noise * d * d ELSE 0
           energy == power + added
           x == Band!EqualizeSample(y, h)
<1>1. d \in Nat \ {0} /\ h[1] = c * d
  BY DEF Is, IsFraction
<1>2. x = IF energy = 0 THEN <<0, 1>> ELSE <<y * h[1] * h[2], energy>>
  BY <1>1 DEF Band!EqualizeSample
<1>3. c * d \in Int /\ power \in Int /\ power >= 0
  <2>1. c * d \in Int
    BY <1>1
  <2>2. \A e \in Int : e * e \in Int /\ e * e >= 0
    OBVIOUS
  <2> QED BY <2>1, <2>2
<1>4. added \in Nat
  <2>1. Noise \in Nat
    BY BandAssumption DEF BandAssumption
  <2>2. \A a, b \in Nat : a * b \in Nat
    OBVIOUS
  <2>3. Noise * d * d \in Nat
    BY <1>1, <2>1, <2>2
  <2> QED BY <2>3
<1>5. y * h[1] * h[2] = s * power
  <2>1. CASE s = 1
    BY <1>1, <2>1
  <2>2. CASE s = -1
    <3>1. y = -c
      BY <2>2
    <3>2. (-c) * (c * d) * d = -power
      BY <1>1
    <3>3. s * power = -power
      BY <1>3, <2>2
    <3> QED BY <1>1, <3>1, <3>2, <3>3
  <2> QED BY <2>1, <2>2
<1>6. c = 0 => power = 0
  BY <1>1
<1>7. c # 0 => power # 0
  <2>1. \A e \in Int : e # 0 => e * e # 0
    OBVIOUS
  <2>2. c # 0 => c * d # 0
    BY <1>1
  <2> QED BY <1>3, <2>1, <2>2
<1> HIDE DEF power, added, x
<1>8. CASE c = 0
  <2>1. power = 0 /\ s * 0 = 0
    BY <1>6, <1>8
  <2>2. x[1] = 0
    BY <1>2, <1>5, <2>1
  <2> QED BY <1>8, <2>2 DEF x
<1>9. CASE c # 0
  <2>1. energy # 0 /\ energy \in Int
    BY <1>3, <1>4, <1>7, <1>9
  <2>2. x = <<s * power, energy>>
    BY <1>2, <1>5, <2>1
  <2>3. s * (s * power) = power
    BY <1>3
  <2>4. CASE options.mmse
    <3>1. <<s * x[1], x[2]>> = <<power, energy>>
      BY <2>2, <2>3
    <3>2. Band!AtMost(<<0, 1>>, <<power, energy>>)
      BY <1>3, <2>1 DEF Band!AtMost
    <3>3. Band!AtMost(<<power, energy>>, <<1, 1>>)
      BY <1>3, <1>4 DEF Band!AtMost
    <3>4. IsRecovered(x, s)
      BY <2>4, <3>1, <3>2, <3>3 DEF IsRecovered
    <3> QED BY <3>4 DEF x
  <2>5. CASE ~ options.mmse
    <3>1. energy = power
      BY <1>3, <2>5 DEF added
    <3>2. IsRecovered(x, s)
      BY <2>2, <2>5, <3>1 DEF IsRecovered
    <3> QED BY <3>2 DEF x
  <2> QED BY <2>4, <2>5
<1> QED BY <1>8, <1>9

-----------------------------------------------------------------------------
(* lib/channel/channel_estimator.cc, equalizer.cc: what is kept from symbol  *)
(* to symbol are averages of what came since the last reset.                 *)
Between(v, measured) ==
  \A k \in Band!ActiveCarriers :
    /\ IsFraction(v[k])
    /\ \E low, high \in measured : Band!AtMost(low[k], v[k]) /\ Band!AtMost(v[k], high[k])

PhaseBetween(phase, measured) ==
  \E low, high \in measured : Band!AtMost(<<low, 1>>, phase) /\ Band!AtMost(phase, <<high, 1>>)

BandInv ==
  /\ BandIsFit(band) /\ symbolIndex \in Nat
  /\ \A e \in since.estimates, k \in Band!ActiveCarriers : IsFraction(e[k])
  /\ since.phases \subseteq Int
  /\ average # Band!None => Between(average, since.estimates)
  /\ estimate # Band!None /\ since # Band!Nothing => Between(estimate, since.estimates)
  /\ IsFraction(residual) /\ PhaseBetween(residual, since.phases \union {0})
  /\ Band!SentIsRecovered

LEMMA InitBandInv == Band!EqualizerInit => BandInv
<1> SUFFICES ASSUME Band!EqualizerInit PROVE BandInv
  OBVIOUS
<1>1. BandIsFit(band)
  BY BandConfiguredFits DEF Band!EqualizerInit
<1>2. since.estimates = {} /\ since.phases = {} /\ residual = <<0, 1>> /\ symbolIndex = 0
  BY DEF Band!EqualizerInit, Band!Nothing, Band!NoPhase
<1>3. IsFraction(residual) /\ PhaseBetween(residual, {} \union {0})
  BY <1>2 DEF IsFraction, PhaseBetween, Band!AtMost
<1>4. average = Band!None /\ estimate = Band!None /\ Band!SentIsRecovered
  BY DEF Band!EqualizerInit, Band!SentIsRecovered
<1> QED BY <1>1, <1>2, <1>3, <1>4 DEF BandInv

(* apply_averaging(): the average goes on lying between measured values.     *)
LEMMA AveragedBetween ==
  ASSUME average # Band!None => Between(average, since.estimates),
         NEW raw, \A k \in Band!ActiveCarriers : IsFraction(raw[k]),
         \A e \in since.estimates, k \in Band!ActiveCarriers : IsFraction(e[k])
  PROVE  Between(Band!Averaged(raw), since.estimates \union {raw})
<1> DEFINE measured == since.estimates \union {raw}
<1>1. CASE ~ options.averaging \/ average = Band!None
  <2>1. Band!Averaged(raw) = raw
    BY <1>1 DEF Band!Averaged
  <2>2. raw \in measured
    OBVIOUS
  <2>3. \A k \in Band!ActiveCarriers : Band!AtMost(raw[k], raw[k])
    BY OneIsAtMost
  <2> QED BY <2>1, <2>2, <2>3 DEF Between
<1>2. CASE options.averaging /\ average # Band!None
  <2>1. Band!Averaged(raw) = [k \in Band!ActiveCarriers |-> Band!Blend(raw[k], average[k])]
    BY <1>2 DEF Band!Averaged
  <2>2. ASSUME NEW k \in Band!ActiveCarriers
        PROVE  /\ IsFraction(Band!Blend(raw[k], average[k]))
               /\ \E low, high \in measured :
                    /\ Band!AtMost(low[k], Band!Blend(raw[k], average[k]))
                    /\ Band!AtMost(Band!Blend(raw[k], average[k]), high[k])
    <3>1. IsFraction(raw[k]) /\ IsFraction(average[k])
      BY <1>2 DEF Between
    <3>2. PICK low \in since.estimates, high \in since.estimates :
            Band!AtMost(low[k], average[k]) /\ Band!AtMost(average[k], high[k])
      BY <1>2 DEF Between
    <3>3. IsFraction(low[k]) /\ IsFraction(high[k])
      BY <3>2
    <3> DEFINE b == Band!Blend(raw[k], average[k])
    <3> HIDE DEF b
    <3>4. /\ Band!AtMost(low[k], b) \/ Band!AtMost(raw[k], b)
          /\ Band!AtMost(b, high[k]) \/ Band!AtMost(b, raw[k])
      BY <3>1, <3>2, <3>3, BlendBounds DEF b
    <3>5. IsFraction(b)
      BY <3>1, BlendType DEF b
    <3>6. low \in measured /\ high \in measured /\ raw \in measured
      BY <3>2
    <3> QED BY <3>4, <3>5, <3>6 DEF b
  <2> HIDE DEF measured
  <2>3. Between(Band!Averaged(raw), measured)
    BY <2>1, <2>2 DEF Between
  <2> QED BY <2>3 DEF measured
<1> QED BY <1>1, <1>2

(* estimate_residual_phase(): and so does the phase.                         *)
LEMMA TrackedBetween ==
  ASSUME IsFraction(residual), PhaseBetween(residual, since.phases \union {0}),
         since.phases \subseteq Int, NEW phase \in Int, NEW r, r = phase \/ r = 0
  PROVE  /\ IsFraction(Band!Blend(<<r, 1>>, residual))
         /\ PhaseBetween(Band!Blend(<<r, 1>>, residual), (since.phases \union {phase}) \union {0})
<1> DEFINE measured == (since.phases \union {phase}) \union {0}
           b == Band!Blend(<<r, 1>>, residual)
<1>1. \A x \in Int : IsFraction(<<x, 1>>)
  BY DEF IsFraction
<1>2. PICK low \in since.phases \union {0}, high \in since.phases \union {0} :
        Band!AtMost(<<low, 1>>, residual) /\ Band!AtMost(residual, <<high, 1>>)
  BY DEF PhaseBetween
<1>3. IsFraction(<<r, 1>>) /\ IsFraction(<<low, 1>>) /\ IsFraction(<<high, 1>>)
  BY <1>1, <1>2
<1>4. low \in measured /\ high \in measured /\ r \in measured
  BY <1>2
<1> HIDE DEF b
<1>5. /\ Band!AtMost(<<low, 1>>, b) \/ Band!AtMost(<<r, 1>>, b)
      /\ Band!AtMost(b, <<high, 1>>) \/ Band!AtMost(b, <<r, 1>>)
  BY <1>2, <1>3, BlendBounds DEF b
<1>6. IsFraction(b)
  BY <1>3, BlendType DEF b
<1> HIDE DEF measured
<1>7. PhaseBetween(b, measured)
  BY <1>4, <1>5 DEF PhaseBetween
<1> QED BY <1>6, <1>7 DEF b, measured

(* More measurements bound no less. *)
LEMMA MoreMeasured ==
  ASSUME NEW phase, NEW few, NEW many, few \subseteq many, PhaseBetween(phase, few)
  PROVE  PhaseBetween(phase, many)
BY DEF PhaseBetween

(* The pilots and the channel tell what came through at a carrier.           *)
Determined(at, ch, k) ==
  \/ band.first + k \in at
  \/ /\ StraightChannel(ch)
     /\ \E p \in at : p <= band.first + k
     /\ \E p \in at : band.first + k <= p

(* Equalize(): a caller of the library gets back what was sent.              *)
LEMMA EqualizedRecovers ==
  ASSUME BandIsFit(band), NEW at, at \subseteq band.first .. band.last, at # {},
         NEW ch \in Channels, caller = "library",
         NEW out, out = Band!Equalize(ch, Band!Raw(at, ch)),
         NEW k \in Band!ActiveCarriers, Determined(at, ch, k)
  PROVE  \/ IsRecovered(out[k], Sent[band.first + k])
         \/ ch[band.first + k] = 0 /\ out[k][1] = 0
<1> DEFINE j == band.first + k
           h == Band!Raw(at, ch)[k]
<1>1. j \in band.first .. band.last
  BY DEF Band!ActiveCarriers, BandIsFit
<1>2. ch[j] \in Int /\ Sent[j] \in {1, -1}
  <2>1. BandFft * band.scale \in Nat /\ band.scale \in DOMAIN BandActive
    BY BandAssumption DEF BandAssumption, BandIsFit
  <2>2. j \in 0 .. (BandFft * band.scale - 1)
    BY <1>1, <2>1 DEF BandIsFit
  <2> QED BY <2>1, <2>2, BandAssumption DEF BandAssumption
<1>3. Is(h, ch[j])
  BY RawKnown DEF Determined
<1>4. out[k] = Band!EqualizeSample(ch[j] * Sent[j], h)
  BY DEF Band!Equalize, Band!Received
<1> HIDE DEF j, h
<1>5. \/ IsRecovered(Band!EqualizeSample(ch[j] * Sent[j], h), Sent[j])
      \/ ch[j] = 0 /\ Band!EqualizeSample(ch[j] * Sent[j], h)[1] = 0
  BY <1>2, <1>3, SampleRecovered
<1> QED BY <1>4, <1>5 DEF j

LEMMA SymbolBandInv ==
  ASSUME BandInv, Band!Symbol
  PROVE  BandInv'
<1>0. /\ BandIsFit(band) /\ symbolIndex \in Nat
      /\ \A e \in since.estimates, k \in Band!ActiveCarriers : IsFraction(e[k])
      /\ since.phases \subseteq Int
      /\ average # Band!None => Between(average, since.estimates)
      /\ IsFraction(residual) /\ PhaseBetween(residual, since.phases \union {0})
  BY DEF BandInv
<1>1. PICK at \in Band!Given, ch \in Channels, phase \in Phases :
        /\ Band!Estimate(at, ch)
        /\ Band!Track(at, ch, phase)
        /\ equalized' = IF at = {} THEN Band!None ELSE Band!Equalize(ch, estimate')
        /\ since' = IF at = {} THEN since
                    ELSE [estimates |-> since.estimates \union {Band!Raw(at, ch)},
                          phases |-> since.phases \union {phase}]
        /\ symbolIndex' = symbolIndex + 1
        /\ UNCHANGED <<band, caller, options>>
  BY DEF Band!Symbol
<1>2. phase \in Int
  BY BandAssumption DEF BandAssumption
<1>3. at \subseteq band.first .. band.last
  BY <1>0, BandPilotsInside
<1>4. BandIsFit(band)' /\ symbolIndex' \in Nat /\ band' = band
      /\ Band!ActiveCarriers' = Band!ActiveCarriers
  BY <1>0, <1>1 DEF BandIsFit, Band!ActiveCarriers
<1>5. CASE at = {}
  <2>1. /\ estimate' = Band!None /\ equalized' = Band!None
        /\ UNCHANGED <<average, residual, since>>
    BY <1>1, <1>5 DEF Band!Estimate, Band!Track
  <2>2. average' # Band!None => Between(average, since.estimates)'
    BY <1>0, <1>4, <2>1 DEF Between
  <2>3. Band!SentIsRecovered'
    BY <2>1 DEF Band!SentIsRecovered, Band!None
  <2> QED BY <1>0, <1>4, <2>1, <2>2, <2>3 DEF BandInv, PhaseBetween, Band!None
<1>6. CASE at # {}
  <2> DEFINE raw == Band!Raw(at, ch)
             measured == since.estimates \union {raw}
  <2>1. /\ references' = [symbol |-> symbolIndex, at |-> at] /\ channel' = ch
        /\ estimate' = Band!Averaged(raw)
        /\ average' = IF options.averaging THEN estimate' ELSE average
        /\ equalized' = Band!Equalize(ch, estimate')
        /\ since'.estimates = measured /\ since'.phases = since.phases \union {phase}
    BY <1>1, <1>6 DEF Band!Estimate
  <2>2. \A k \in Band!ActiveCarriers : IsFraction(raw[k])
    BY <1>0, <1>3, <1>6, RawKnown
  <2> HIDE DEF raw
  <2>3. Between(estimate', measured)
    BY <1>0, <2>1, <2>2, AveragedBetween
  <2>4. average # Band!None => Between(average, measured)
    BY <1>0 DEF Between
  <2>5. Between(estimate, since.estimates)'
    <3> HIDE DEF measured
    <3> QED BY <1>4, <2>1, <2>3 DEF Between
  <2>6. average' # Band!None => Between(average, since.estimates)'
    <3> HIDE DEF measured
    <3>1. average' # Band!None => Between(average', measured)
      BY <2>1, <2>3, <2>4
    <3> QED BY <1>4, <2>1, <3>1 DEF Between, Band!None
  <2>7. \A e \in since'.estimates, k \in Band!ActiveCarriers' : IsFraction(e[k])
    BY <1>0, <1>4, <2>1, <2>2
  <2>8. since'.phases \subseteq Int
    BY <1>0, <1>2, <2>1
  <2>9. IsFraction(residual') /\ PhaseBetween(residual', (since.phases \union {phase}) \union {0})
    <3>1. \/ residual' = residual
          \/ residual' = Band!Blend(<<Band!Residual(at, ch, estimate', phase), 1>>, residual)
      BY <1>1 DEF Band!Track
    <3>2. CASE residual' = residual
      BY <1>0, <3>2, MoreMeasured
    <3>3. CASE residual' = Band!Blend(<<Band!Residual(at, ch, estimate', phase), 1>>, residual)
      <4> DEFINE r == Band!Residual(at, ch, estimate', phase)
      <4>1. r = phase \/ r = 0
        BY DEF Band!Residual
      <4> HIDE DEF r
      <4>2. /\ IsFraction(Band!Blend(<<r, 1>>, residual))
            /\ PhaseBetween(Band!Blend(<<r, 1>>, residual),
                            (since.phases \union {phase}) \union {0})
        BY <1>0, <1>2, <4>1, TrackedBetween
      <4> QED BY <3>3, <4>2 DEF r
    <3> QED BY <3>1, <3>2, <3>3
  <2>10. Band!SentIsRecovered'
    <3> SUFFICES ASSUME caller' = "library", ~ options'.averaging, NEW k \in Band!ActiveCarriers',
                        Band!PilotPlace(k)' \/ (Band!Straight' /\ Band!BetweenPilots(k)')
                 PROVE  Band!Recovered(k)' \/ (channel'[band'.first + k] = 0 /\ equalized'[k][1] = 0)
      BY DEF Band!SentIsRecovered
    <3>1. estimate' = raw
      BY <1>1, <2>1 DEF Band!Averaged
    <3>2. equalized' = Band!Equalize(ch, raw)
      BY <2>1, <3>1
    <3>3. Determined(at, ch, k)
      <4>1. Band!PilotPlace(k)' => band.first + k \in at
        BY <1>4, <2>1 DEF Band!PilotPlace
      <4>2. Band!Straight' => StraightChannel(ch)
        BY <1>4, <2>1 DEF Band!Straight, StraightChannel
      <4>3. Band!BetweenPilots(k)' => /\ \E p \in at : p <= band.first + k
                                      /\ \E p \in at : band.first + k <= p
        BY <1>4, <2>1 DEF Band!BetweenPilots, Band!AfterAPilot
      <4> QED BY <4>1, <4>2, <4>3 DEF Determined
    <3>4. \/ IsRecovered(equalized'[k], Sent[band.first + k])
          \/ ch[band.first + k] = 0 /\ equalized'[k][1] = 0
      <4>1. caller = "library" /\ k \in Band!ActiveCarriers
        BY <1>1, <1>4
      <4>2. PICK out : out = equalized'
        OBVIOUS
      <4>3. \/ IsRecovered(out[k], Sent[band.first + k])
            \/ ch[band.first + k] = 0 /\ out[k][1] = 0
        <5>1. out = Band!Equalize(ch, Band!Raw(at, ch))
          BY <3>2, <4>2, Zenon DEF raw
        <5> QED BY <1>0, <1>3, <1>6, <3>3, <4>1, <5>1, EqualizedRecovers
      <4> QED BY <4>2, <4>3
    <3>5. IsRecovered(equalized'[k], Sent[band.first + k]) => Band!Recovered(k)'
      BY <1>1, <1>4 DEF IsRecovered, Band!Recovered, Band!AtMost
    <3> QED BY <1>4, <2>1, <3>4, <3>5
  <2>11. PhaseBetween(residual, since.phases \union {0})'
    BY <2>1, <2>9 DEF PhaseBetween
  <2>12. IsFraction(residual)'
    BY <2>9 DEF IsFraction
  <2>13. \A e \in since.estimates', k \in Band!ActiveCarriers' : IsFraction(e[k])'
    BY <2>7 DEF IsFraction
  <2> QED BY <1>4, <2>5, <2>6, <2>8, <2>10, <2>11, <2>12, <2>13 DEF BandInv
<1> QED BY <1>5, <1>6

LEMMA BandStep ==
  ASSUME BandInv, Band!EqualizerNext
  PROVE  BandInv'
<1>1. CASE Band!Symbol
  BY <1>1, SymbolBandInv
<1>2. CASE Band!Reset
  <2>1. /\ average' = Band!None /\ residual' = <<0, 1>> /\ since' = Band!Nothing
        /\ symbolIndex' = 0
        /\ UNCHANGED <<band, references, caller, options, channel, estimate, equalized>>
    BY <1>2 DEF Band!Reset, Band!Forget, Band!NoPhase
  <2>2. Band!SentIsRecovered'
    BY <2>1 DEF BandInv, Band!SentIsRecovered, Band!Recovered, Band!PilotPlace, Band!Straight,
                Band!BetweenPilots, Band!AfterAPilot, Band!ActiveCarriers, Band!AtMost, Band!None
  <2>3. IsFraction(residual') /\ PhaseBetween(residual', {} \union {0})
    BY <2>1 DEF IsFraction, PhaseBetween, Band!AtMost
  <2> QED BY <2>1, <2>2, <2>3 DEF BandInv, BandIsFit, Band!Nothing, Band!None,
                                  PhaseBetween, IsFraction
<1>3. CASE Band!Reconfigure
  <2>1. /\ average' = Band!None /\ residual' = <<0, 1>> /\ since' = Band!Nothing
        /\ estimate' = Band!None /\ equalized' = Band!None /\ symbolIndex' = symbolIndex
    BY <1>3 DEF Band!Reconfigure, Band!Forget, Band!NoPhase
  <2>2. BandIsFit(band)'
    <3>1. PICK pattern \in BandPatterns, request \in BandRequests :
            band' = Band!Configured(pattern, band.scale, request)
      BY <1>3 DEF Band!Reconfigure
    <3>2. PICK c : c = band'
      OBVIOUS
    <3>3. band.scale \in DOMAIN BandActive
      BY DEF BandInv, BandIsFit
    <3>4. BandIsFit(c)
      BY <3>1, <3>2, <3>3, BandConfiguredFits
    <3> QED BY <3>2, <3>4 DEF BandIsFit
  <2>3. Band!SentIsRecovered'
    BY <2>1 DEF Band!SentIsRecovered, Band!None
  <2>4. IsFraction(residual') /\ PhaseBetween(residual', {} \union {0})
    BY <2>1 DEF IsFraction, PhaseBetween, Band!AtMost
  <2> QED BY <2>1, <2>2, <2>3, <2>4 DEF BandInv, Band!Nothing, Band!None,
                                        PhaseBetween, IsFraction
<1> QED BY <1>1, <1>2, <1>3 DEF Band!EqualizerNext

LEMMA BandInvHolds == DatapathSpec => []BandInv
<1> DEFINE next == [DatapathNext]_datapathVars
<1>1. DatapathInit => BandInv
  BY InitBandInv DEF DatapathInit
<1>2. BandInv /\ next => BandInv'
  <2> SUFFICES ASSUME BandInv, next PROVE BandInv'
    OBVIOUS
  <2>1. CASE Band!EqualizerNext
    BY <2>1, BandStep
  <2>2. CASE UNCHANGED bandVars
    BY <2>2 DEF bandVars, BandInv, BandIsFit, Between, PhaseBetween, IsFraction, Band!ActiveCarriers,
                Band!SentIsRecovered, Band!Recovered, Band!PilotPlace, Band!Straight,
                Band!BetweenPilots, Band!AfterAPilot, Band!AtMost, Band!None, Band!Nothing
  <2> QED BY <2>1, <2>2 DEF DatapathNext, datapathVars
<1> QED BY <1>1, <1>2, PTL DEF DatapathSpec

(* lib/channel/equalizer.cc: whatever the channels, the pattern and the      *)
(* noise, a caller that gives the active carriers gets back what was sent on *)
(* every pilot, and between two pilots of a straight channel.                *)
THEOREM SentComesBack == DatapathSpec => []SentIsRecovered
<1>1. BandInv => SentIsRecovered
  BY DEF BandInv, SentIsRecovered
<1> QED BY <1>1, BandInvHolds, PTL

(* lib/channel/channel_estimator.cc, equalizer.cc: whatever the weight of a  *)
(* new value, an estimate and a residual phase lie between values measured   *)
(* since the last reset or configuration.                                    *)
THEOREM OnlyFromSince == DatapathSpec => []NothingFromBefore
<1>1. BandInv => NothingFromBefore
  BY DEF BandInv, NothingFromBefore, Band!NothingFromBefore, Between, PhaseBetween
<1> QED BY <1>1, BandInvHolds, PTL
-----------------------------------------------------------------------------
(* lib/fec/ldpc_matrix.cc: a row of a generated matrix has the connections   *)
(* it should have, by a count of the columns that its two rules want.        *)

(* The first w members of a set of numbers are w, or all there are. *)
LEMMA FirstOnes ==
  ASSUME NEW S \in SUBSET Nat, IsFiniteSet(S), NEW w \in Nat, NEW n \in Nat,
         n <= w, n <= Cardinality(S)
  PROVE  n <= Cardinality({c \in S : Cardinality({d \in S : d < c}) < w})
<1> DEFINE T == {c \in S : Cardinality({d \in S : d < c}) < w}
<1>1. CASE T = S
  BY <1>1
<1>2. CASE T # S
  <2>1. PICK c \in S \ T : \A d \in S \ T : c <= d
    <3>1. S \ T \subseteq Nat /\ S \ T # {}
      BY <1>2
    <3> HIDE DEF T
    <3> QED BY <3>1, Least
  <2> DEFINE U == {d \in S : d < c}
  <2>2. U \subseteq T
    <3>1. \A d \in S \ T : d \in Nat /\ c \in Nat /\ c <= d
      BY <2>1
    <3>2. \A d \in U : d \in S /\ d \in Nat /\ c \in Nat /\ d < c
      BY <2>1
    <3> HIDE DEF T, U
    <3> QED BY <3>1, <3>2
  <2>3. ~ Cardinality(U) < w
    BY <2>1
  <2>4. IsFiniteSet(T)
    <3>1. T \in SUBSET S
      OBVIOUS
    <3> HIDE DEF T
    <3> QED BY <3>1, FS_Subset
  <2>5. IsFiniteSet(U) /\ Cardinality(U) <= Cardinality(T)
    <3> HIDE DEF T, U
    <3> QED BY <2>2, <2>4, FS_Subset
  <2>6. Cardinality(U) \in Nat /\ Cardinality(T) \in Nat
    <3> HIDE DEF T, U
    <3> QED BY <2>4, <2>5, FS_CardinalityType
  <2> HIDE DEF T, U
  <2>7. n <= Cardinality(T)
    BY <2>3, <2>5, <2>6
  <2> QED BY <2>7 DEF T
<1> QED BY <1>1, <1>2

(* Of three columns in a row, the first rule wants one. *)
LEMMA WantedOfRow ==
  ASSUME NEW rate \in Rates, NEW r \in Nat
  PROVE  LET wanted == {c \in 0 .. InfoBlocks(CodeSpec(rate)) - 1 : Wanted(r, rate, c)}
         IN  IsFiniteSet(wanted) /\ 8 + 4 * rate <= Cardinality(wanted)
<1> DEFINE wanted == {c \in 0 .. InfoBlocks(CodeSpec(rate)) - 1 : Wanted(r, rate, c)}
           n == 8 + 4 * rate
<1>1. rate \in Nat /\ n \in Nat /\ InfoBlocks(CodeSpec(rate)) = 3 * n
  BY DEF Rates, InfoBlocks, CodeSpec
<1>2. PICK a \in 0 .. 2 : (r + rate + a) % 3 = 0
  <2>1. \E a \in 0 .. 2 : (r + rate + a) % 3 = 0
    BY <1>1
  <2> QED BY <2>1
<1> DEFINE f == [k \in 1 .. n |-> 3 * (k - 1) + a]
<1>3. ASSUME NEW k \in 1 .. n
      PROVE  f[k] \in wanted
  <2>1. /\ f[k] \in Int /\ 0 <= f[k] /\ f[k] <= 3 * n - 1
        /\ f[k] = 3 * (k - 1) + a
    BY <1>1, <1>2
  <2>2. (r + (3 * (k - 1) + a) + rate) % 3 = 0
    BY <1>1, <1>2
  <2> HIDE DEF f, n
  <2> QED BY <1>1, <2>1, <2>2 DEF Wanted
<1>4. f \in Injection(1 .. n, wanted)
  <2>1. \A k, m \in 1 .. n : f[k] = f[m] => k = m
    BY <1>1, <1>2
  <2>2. f \in [1 .. n -> wanted]
    <3> HIDE DEF wanted
    <3> QED BY <1>3
  <2> HIDE DEF f, wanted, n
  <2> QED BY <2>1, <2>2 DEF Injection, IsInjective
<1>5. IsFiniteSet(wanted)
  <2>1. wanted \in SUBSET (0 .. 3 * n - 1) /\ 3 * n - 1 \in Int
    BY <1>1
  <2> HIDE DEF wanted, n
  <2>2. IsFiniteSet(0 .. 3 * n - 1)
    BY <2>1, FS_Interval
  <2> QED BY <2>1, <2>2, FS_Subset
<1>6. Cardinality(1 .. n) = n
  <2> HIDE DEF n
  <2> QED BY <1>1, FS_Interval
<1>7. Cardinality(1 .. n) <= Cardinality(wanted)
  <2> HIDE DEF wanted, f, n
  <2> QED BY <1>4, <1>5, FS_Injection
<1> HIDE DEF wanted
<1> QED BY <1>5, <1>6, <1>7 DEF wanted

(* The weights of the tables are small enough for that. *)
LEMMA WeightsOfRates ==
  ASSUME NEW rate \in Rates
  PROVE  LET spec == CodeSpec(rate)
         IN  /\ spec.weight \in Nat /\ spec.weight - 1 \in Nat /\ spec.weight \div 2 \in Nat
             /\ spec.weight \div 2 <= spec.weight - 1
             /\ spec.weight \div 2 <= 8 + 4 * rate
<1>1. rate \in {0, 1, 2, 3, 4, 5, 6, 7, 8, 9, 10, 11}
  BY DEF Rates
<1>2. /\ RowWeights[1] = 6 /\ RowWeights[2] = 6 /\ RowWeights[3] = 7 /\ RowWeights[4] = 7
      /\ RowWeights[5] = 8 /\ RowWeights[6] = 8 /\ RowWeights[7] = 9 /\ RowWeights[8] = 10
      /\ RowWeights[9] = 11 /\ RowWeights[10] = 13 /\ RowWeights[11] = 16
      /\ RowWeights[12] = 22
  BY DEF RowWeights
<1>3. CodeSpec(rate).weight = RowWeights[rate + 1]
  BY DEF CodeSpec
<1> QED BY <1>1, <1>2, <1>3

(* The two tables agree on the sizes of the codes. *)
LEMMA SizesOfRates ==
  ASSUME NEW rate \in Rates, NEW short \in BOOLEAN
  PROVE  /\ CodeSpec(rate).cols * ExpansionFactor(short) = CodewordLength(short)
         /\ CodeSpec(rate).rows * ExpansionFactor(short)
              = CodewordLength(short) - InfoBits(rate, short)
<1>1. rate \in {0, 1, 2, 3, 4, 5, 6, 7, 8, 9, 10, 11}
  BY DEF Rates
<1>2. CodeSpec(rate).cols = 180 /\ CodeSpec(rate).rows = 156 - 12 * rate
  BY DEF CodeSpec
<1>3. InfoBits(rate, short) = (IF short THEN 1 ELSE 4) * (2160 + 1080 * rate)
  BY <1>1 DEF InfoBits, LdpcParams
<1>4. CASE short
  BY <1>1, <1>2, <1>3, <1>4 DEF ExpansionFactor, CodewordLength
<1>5. CASE ~ short
  BY <1>1, <1>2, <1>3, <1>5 DEF ExpansionFactor, CodewordLength
<1> QED BY <1>4, <1>5

(* The matrix in use is the one that was asked for. *)
MatrixInv ==
  base # {} =>
    /\ code.rate \in Rates /\ code.short \in BOOLEAN
    /\ base = BaseMatrix(CodeSpec(code.rate), ExpansionFactor(code.short), code.rate)

LEMMA MatrixInvHolds == DatapathSpec => []MatrixInv
<1>1. DatapathInit => MatrixInv
  BY DEF DatapathInit, MatrixInit, MatrixInv
<1>2. MatrixInv /\ [DatapathNext]_datapathVars => MatrixInv'
  <2> SUFFICES ASSUME MatrixInv, [DatapathNext]_datapathVars PROVE MatrixInv'
    OBVIOUS
  <2>1. CASE LoadParityMatrix
    BY <2>1 DEF LoadParityMatrix, MatrixInv
  <2>2. CASE UNCHANGED matrixVars
    BY <2>2 DEF matrixVars, MatrixInv
  <2> QED BY <2>1, <2>2 DEF DatapathNext, datapathVars, fecVars
<1> QED BY <1>1, <1>2, PTL DEF DatapathSpec

(* lib/fec/ldpc_matrix.cc, ldpc_decoder.cc: whatever rate and length is      *)
(* loaded, generating the matrix ends, its size is the code's, no check is   *)
(* empty and every row has at least half the connections asked for.          *)
THEOREM MatricesAreValid == DatapathSpec => []GeneratedIsValid
<1>1. MatrixInv => GeneratedIsValid
  <2> SUFFICES ASSUME MatrixInv, base # {} PROVE GeneratedIsValid
    BY DEF GeneratedIsValid
  <2> DEFINE spec == CodeSpec(code.rate)
             q == ExpansionFactor(code.short)
  <2>1. /\ code.rate \in Rates /\ code.short \in BOOLEAN
        /\ base = BaseMatrix(spec, q, code.rate)
    BY DEF MatrixInv
  <2>2. Valid(spec, base, code.rate, code.short)
    <3>1. ASSUME NEW r \in 0 .. spec.rows - 1
          PROVE  \E b \in base : b[1] = r
      <4>1. <<r, InfoBlocks(spec) + r, 0>> \in Staircase(spec, q, r)
        BY DEF Staircase
      <4>2. <<r, InfoBlocks(spec) + r, 0>> \in base
        <5> HIDE DEF spec, q
        <5> QED BY <2>1, <4>1 DEF BaseMatrix, RowBlocks
      <4> QED BY <4>2
    <3> QED BY <2>1, <3>1, SizesOfRates DEF Valid
  <2>3. ASSUME NEW r \in 0 .. spec.rows - 1
        PROVE  LET s == Systematic(spec, q, code.rate, r)
               IN  ConnectivityEnds(spec, r, s) /\ Cardinality(s) >= spec.weight \div 2
    <3> DEFINE s == Systematic(spec, q, code.rate, r)
               wanted == {c \in 0 .. InfoBlocks(spec) - 1 : Wanted(r, code.rate, c)}
               taken == {c \in wanted : Cardinality({d \in wanted : d < c}) < spec.weight - 1}
               g == [c \in taken |-> <<r, c, (r * 17 + c * 13 + code.rate * 7) % q>>]
    <3>1. r \in Nat
      OBVIOUS
    <3>2. IsFiniteSet(wanted) /\ 8 + 4 * code.rate <= Cardinality(wanted)
      BY <2>1, <3>1, WantedOfRow
    <3>3. wanted \in SUBSET Nat
      OBVIOUS
    <3>4. /\ spec.weight - 1 \in Nat /\ spec.weight \div 2 \in Nat
          /\ spec.weight \div 2 <= spec.weight - 1
          /\ spec.weight \div 2 <= 8 + 4 * code.rate
      BY <2>1, WeightsOfRates
    <3>5. spec.weight \div 2 <= Cardinality(taken)
      <4>1. Cardinality(wanted) \in Nat /\ code.rate \in Nat
        <5> HIDE DEF wanted
        <5> QED BY <2>1, <3>2, FS_CardinalityType DEF Rates
      <4>2. spec.weight \div 2 <= Cardinality(wanted)
        <5> HIDE DEF wanted, spec
        <5> QED BY <3>2, <3>4, <4>1
      <4> HIDE DEF wanted, spec
      <4> QED BY <3>2, <3>3, <3>4, <4>2, FirstOnes
    <3>6. IsFiniteSet(taken) /\ Cardinality(taken) \in Nat
      <4>1. taken \in SUBSET wanted
        OBVIOUS
      <4> HIDE DEF taken, wanted
      <4> QED BY <3>2, <4>1, FS_Subset, FS_CardinalityType
    <3>7. s = {g[c] : c \in taken}
      BY DEF Systematic
    <3>8. Cardinality(s) = Cardinality(taken)
      <4>1. g \in Bijection(taken, s)
        <5>1. \A c, d \in taken : g[c] = g[d] => c = d
          BY DEF g
        <5>2. g \in [taken -> s]
          <6> HIDE DEF taken, s
          <6> QED BY <3>7
        <5>3. \A e \in s : \E c \in taken : g[c] = e
          <6> HIDE DEF taken, s, g
          <6> QED BY <3>7
        <5> HIDE DEF taken, s, g
        <5> QED BY <5>1, <5>2, <5>3 DEF Bijection, Injection, Surjection, IsInjective
      <4> HIDE DEF taken, s, g
      <4> QED BY <3>6, <4>1, FS_Bijection DEF ExistsBijection
    <3>9. Missing(spec, s) = {}
      <4> HIDE DEF taken, s, spec
      <4> QED BY <3>4, <3>5, <3>6, <3>8 DEF Missing
    <3>10. ConnectivityEnds(spec, r, s)
      <4> HIDE DEF s, spec
      <4> QED BY <3>9 DEF ConnectivityEnds
    <3> HIDE DEF taken, s, spec
    <3>11. Cardinality(s) >= spec.weight \div 2
      BY <3>4, <3>5, <3>6, <3>8
    <3> QED BY <3>10, <3>11 DEF s
  <2> HIDE DEF spec, q
  <2> QED BY <2>2, <2>3 DEF GeneratedIsValid, spec, q
<1> QED BY <1>1, MatrixInvHolds, PTL
-----------------------------------------------------------------------------
(* lib/fec/ldpc_decoder.cc: min-sum decoding of a codeword with one bit in   *)
(* doubt, with every matrix of the generator's form.                         *)

(* A value seen from what was sent: positive when it says the right bit. *)
Sided(x, c) == IF c \in broadcast THEN - x ELSE x

(* What a bit in doubt is received with. *)
Weakest == IF fixed THEN 1 ELSE Unit

(* All bits are decided rightly; all are but one, and the others strongly. *)
Settled(f) == \A c \in Cols : 1 <= Sided(f[c], c)

Doubted(f, d) ==
  /\ Sided(f[d], d) = - Weakest
  /\ \A c \in Cols \ {d} : 2 * Weakest <= Sided(f[c], c)

(* Leaving out one of a set changes whether it is odd. *)
LEMMA OddRemoved ==
  ASSUME NEW S, IsFiniteSet(S), NEW x
  PROVE  /\ IsFiniteSet(S \ {x})
         /\ x \in S => (Odd(S \ {x}) <=> ~ Odd(S))
         /\ x \notin S => (Odd(S \ {x}) <=> Odd(S))
<1>1. IsFiniteSet(S \ {x}) /\ Cardinality(S) \in Nat /\ Cardinality(S \ {x}) \in Nat
  BY FS_RemoveElement, FS_CardinalityType
<1>2. x \in S => Cardinality(S) = Cardinality(S \ {x}) + 1
  BY <1>1, FS_RemoveElement
<1>3. x \notin S => S \ {x} = S
  OBVIOUS
<1>4. ASSUME NEW k \in Nat PROVE (k + 1) % 2 = 1 <=> ~ (k % 2 = 1)
  OBVIOUS
<1> QED BY <1>1, <1>2, <1>3, <1>4 DEF Odd

(* The limits of saturation are beyond the values that matter. *)
LEMMA BoundedIs ==
  ASSUME fixed \in BOOLEAN, NEW x \in Int
  PROVE  /\ Bounded(x) \in Int /\ Bounded(- x) = - Bounded(x)
         /\ 0 <= x => 0 <= Bounded(x) /\ Bounded(x) <= x
         /\ \A k \in Nat : k <= x /\ k <= 2 * Weakest => k <= Bounded(x)
<1>1. Unit \in Nat /\ 2 <= Unit
  BY LdpcAssumption DEF LdpcAssumption
<1>2. CASE fixed
  BY <1>2 DEF Bounded, Clip, Weakest
<1>3. CASE ~ fixed
  BY <1>1, <1>3 DEF Bounded, Clip, Weakest
<1> QED BY <1>2, <1>3

LEMMA SidedBounded ==
  ASSUME fixed \in BOOLEAN, NEW x \in Int, NEW c
  PROVE  Sided(Bounded(x), c) = Bounded(Sided(x, c))
BY BoundedIs DEF Sided

LEMMA ScaledIs ==
  ASSUME fixed \in BOOLEAN, NEW m \in Nat
  PROVE  /\ Scaled(m) \in Nat
         /\ 2 * Weakest <= m => Weakest + 1 <= Scaled(m)
         /\ m <= Weakest => Scaled(m) <= Weakest
<1>1. Unit \in Nat /\ 2 <= Unit
  BY LdpcAssumption DEF LdpcAssumption
<1>2. CASE fixed
  BY <1>2 DEF Scaled, Weakest
<1>3. CASE ~ fixed
  BY <1>1, <1>3 DEF Scaled, Weakest
<1> QED BY <1>2, <1>3

LEMMA WeakestIs ==
  ASSUME fixed \in BOOLEAN
  PROVE  /\ Weakest \in Nat \ {0} /\ Largest \in Nat /\ 2 * Weakest <= Largest
         /\ Bounded(- Weakest) = - Weakest
<1>1. Unit \in Nat /\ 2 <= Unit
  BY LdpcAssumption DEF LdpcAssumption
<1>2. CASE fixed
  BY <1>2 DEF Largest, Weakest, Bounded, Clip
<1>3. CASE ~ fixed
  BY <1>1, <1>3 DEF Largest, Weakest, Bounded, Clip
<1> QED BY <1>2, <1>3

(* The message along an edge: the least of the other edges, scaled, with a   *)
(* sign that counts theirs.                                                  *)
OthersLeast(v, S, m) ==
  /\ m \in Nat /\ m <= Largest /\ \A d \in S : m <= Abs(v[d])
  /\ m = Largest \/ \E d \in S : m = Abs(v[d])

LEMMA MessageWhere ==
  ASSUME fixed \in BOOLEAN, NEW v, NEW c, \A d \in DOMAIN v : v[d] \in Int /\ v[d] # 0
  PROVE  \E m : /\ OthersLeast(v, DOMAIN v \ {c}, m)
                /\ Message(v, c) = IF Odd({d \in DOMAIN v \ {c} : v[d] < 0})
                                   THEN Bounded(- Scaled(m)) ELSE Bounded(Scaled(m))
<1> DEFINE S == DOMAIN v \ {c}
           mags == {Abs(v[d]) : d \in S} \cup {Largest}
           m == CHOOSE k \in mags : \A j \in mags : k <= j
<1>1. mags \subseteq Nat /\ mags # {}
  BY WeakestIs DEF Abs
<1>2. m \in mags /\ \A j \in mags : m <= j
  <2> HIDE DEF mags
  <2>1. \E k \in mags : \A j \in mags : k <= j
    BY <1>1, Least
  <2> QED BY <2>1
<1>3. OthersLeast(v, S, m)
  <2> HIDE DEF m
  <2> QED BY <1>1, <1>2 DEF OthersLeast
<1>4. \A d \in DOMAIN v : (Sign(v[d]) < 0 <=> v[d] < 0) /\ Sign(v[d]) # 0
  <2>1. ASSUME NEW x \in Int, x # 0
        PROVE  (Sign(x) < 0 <=> x < 0) /\ Sign(x) # 0
    <3>1. CASE x < 0
      <4>1. Sign(x) = -1
        BY <3>1 DEF Sign
      <4> QED BY <3>1, <4>1
    <3>2. CASE ~ (x < 0)
      <4>1. Sign(x) = 1
        BY <2>1, <3>2 DEF Sign
      <4> QED BY <3>2, <4>1
    <3> QED BY <3>1, <3>2
  <2> QED BY <2>1
<1>5. {d \in S : Sign(v[d]) < 0} = {d \in S : v[d] < 0}
  BY <1>4
<1>6. Message(v, c) = IF Odd({d \in S : v[d] < 0})
                      THEN Bounded(- Scaled(m)) ELSE Bounded(Scaled(m))
  <2>1. ~ \E d \in DOMAIN v : Sign(v[d]) = 0
    BY <1>4
  <2> QED BY <1>5, <2>1 DEF Message, Odd
<1> QED BY <1>3, <1>6

LEMMA MessageInt ==
  ASSUME fixed \in BOOLEAN, NEW v, NEW c, \A d \in DOMAIN v : v[d] \in Int
  PROVE  Message(v, c) \in Int
<1> DEFINE mags == {Abs(v[d]) : d \in DOMAIN v \ {c}} \cup {Largest}
           m == CHOOSE k \in mags : \A j \in mags : k <= j
<1>1. mags \subseteq Nat /\ mags # {}
  BY WeakestIs DEF Abs
<1>2. m \in Nat
  <2> HIDE DEF mags
  <2>1. \E k \in mags : \A j \in mags : k <= j
    BY <1>1, Least
  <2> QED BY <1>1, <2>1
<1> HIDE DEF m
<1>3. Bounded(Scaled(m)) \in Int /\ Bounded(- Scaled(m)) \in Int
  <2>1. Scaled(m) \in Int /\ - Scaled(m) \in Int
    BY <1>2, ScaledIs
  <2> QED BY <2>1, BoundedIs
<1>4. Message(v, c) \in {0, Bounded(Scaled(m)), Bounded(- Scaled(m))}
  BY DEF Message, m
<1> QED BY <1>3, <1>4

(* When the others are right, the message is. *)
LEMMA MessageRight ==
  ASSUME fixed \in BOOLEAN, NEW v, IsFiniteSet(DOMAIN v), ~ Odd(DOMAIN v \cap broadcast),
         \A d \in DOMAIN v : v[d] \in Int /\ v[d] # 0,
         NEW c \in DOMAIN v, \A d \in DOMAIN v \ {c} : 1 <= Sided(v[d], d)
  PROVE  \E m : OthersLeast(v, DOMAIN v \ {c}, m)
                  /\ Sided(Message(v, c), c) = Bounded(Scaled(m))
<1> DEFINE S == DOMAIN v \ {c}
           negative == {d \in S : v[d] < 0}
           ones == DOMAIN v \cap broadcast
<1>1. PICK m : /\ OthersLeast(v, S, m)
               /\ Message(v, c) = IF Odd(negative) THEN Bounded(- Scaled(m))
                                                   ELSE Bounded(Scaled(m))
  BY MessageWhere
<1>2. negative = ones \ {c}
  BY DEF Sided
<1>3. Odd(negative) <=> c \in broadcast
  <2>1. IsFiniteSet(ones)
    BY FS_Intersection
  <2>2. c \in ones <=> c \in broadcast
    OBVIOUS
  <2> HIDE DEF ones, negative
  <2> QED BY <1>2, <2>1, <2>2, OddRemoved DEF ones
<1>4. /\ Scaled(m) \in Int /\ Bounded(Scaled(m)) \in Int
      /\ Bounded(- Scaled(m)) = - Bounded(Scaled(m))
  <2>1. m \in Nat
    BY <1>1 DEF OthersLeast
  <2>2. Scaled(m) \in Int
    BY <2>1, ScaledIs
  <2> QED BY <2>2, BoundedIs
<1> HIDE DEF negative
<1> QED BY <1>1, <1>3, <1>4 DEF Sided

(* When one of the others is wrong, so is the message, but it is no larger.  *)
LEMMA MessageWrong ==
  ASSUME fixed \in BOOLEAN, NEW v, IsFiniteSet(DOMAIN v), ~ Odd(DOMAIN v \cap broadcast),
         \A d \in DOMAIN v : v[d] \in Int /\ v[d] # 0,
         NEW c \in DOMAIN v, NEW w \in DOMAIN v \ {c}, Sided(v[w], w) <= -1,
         \A d \in DOMAIN v \ {c, w} : 1 <= Sided(v[d], d)
  PROVE  \E m : OthersLeast(v, DOMAIN v \ {c}, m)
                  /\ Sided(Message(v, c), c) = - Bounded(Scaled(m))
<1> DEFINE S == DOMAIN v \ {c}
           negative == {d \in S : v[d] < 0}
           ones == DOMAIN v \cap broadcast
<1>1. PICK m : /\ OthersLeast(v, S, m)
               /\ Message(v, c) = IF Odd(negative) THEN Bounded(- Scaled(m))
                                                   ELSE Bounded(Scaled(m))
  BY MessageWhere
<1>2. /\ negative \ {w} = (ones \ {c}) \ {w}
      /\ w \in negative <=> w \notin ones \ {c}
  BY DEF Sided
<1>3. Odd(negative) <=> c \notin broadcast
  <2>1. IsFiniteSet(ones)
    BY FS_Intersection
  <2>2. IsFiniteSet(negative)
    <3>1. negative \in SUBSET DOMAIN v
      OBVIOUS
    <3> HIDE DEF negative
    <3> QED BY <3>1, FS_Subset
  <2>3. c \in ones <=> c \in broadcast
    OBVIOUS
  <2> HIDE DEF ones, negative
  <2>4. ~ Odd(ones)
    BY DEF ones
  <2>5. IsFiniteSet(ones \ {c}) /\ (Odd(ones \ {c}) <=> c \in broadcast)
    BY <2>1, <2>3, <2>4, OddRemoved
  <2>6. Odd(negative \ {w}) <=> (IF w \in negative THEN ~ Odd(negative) ELSE Odd(negative))
    BY <2>2, OddRemoved
  <2>7. Odd((ones \ {c}) \ {w})
          <=> (IF w \in ones \ {c} THEN ~ Odd(ones \ {c}) ELSE Odd(ones \ {c}))
    BY <2>5, OddRemoved
  <2>8. CASE w \in negative
    BY <1>2, <2>5, <2>6, <2>7, <2>8
  <2>9. CASE w \notin negative
    BY <1>2, <2>5, <2>6, <2>7, <2>9
  <2> QED BY <2>8, <2>9
<1>4. /\ Scaled(m) \in Int /\ Bounded(Scaled(m)) \in Int
      /\ Bounded(- Scaled(m)) = - Bounded(Scaled(m))
  <2>1. m \in Nat
    BY <1>1 DEF OthersLeast
  <2>2. Scaled(m) \in Int
    BY <2>1, ScaledIs
  <2> QED BY <2>2, BoundedIs
<1> HIDE DEF negative
<1> QED BY <1>1, <1>3, <1>4 DEF Sided

(* One row of the first iteration. *)
RowUpdated(f, g, N, v) ==
  /\ f \in [Cols -> Int] /\ DOMAIN v = N /\ N \subseteq Cols
  /\ \A c \in N : v[c] = f[c] \/ v[c] = Bounded(f[c])
  /\ g = [c \in Cols |-> IF c \in N THEN Bounded(f[c] + Message(v, c)) ELSE f[c]]

(* What the row's subtraction leaves says the same as what it started from. *)
LEMMA SameSide ==
  ASSUME fixed \in BOOLEAN, NEW f, NEW g, NEW N, NEW v, RowUpdated(f, g, N, v), NEW c \in N
  PROVE  /\ v[c] \in Int
         /\ \A k \in Nat : k <= 2 * Weakest /\ k <= Sided(f[c], c) => k <= Sided(v[c], c)
         /\ Sided(f[c], c) = - Weakest => Sided(v[c], c) = - Weakest
<1>1. f[c] \in Int /\ (v[c] = f[c] \/ v[c] = Bounded(f[c]))
  BY DEF RowUpdated
<1>2. CASE v[c] = f[c]
  BY <1>1, <1>2
<1>3. CASE v[c] = Bounded(f[c])
  <2>1. Sided(v[c], c) = Bounded(Sided(f[c], c)) /\ Sided(f[c], c) \in Int
    BY <1>1, <1>3, SidedBounded DEF Sided
  <2>2. v[c] \in Int
    BY <1>1, <1>3, BoundedIs
  <2> QED BY <2>1, <2>2, BoundedIs, WeakestIs
<1> QED BY <1>1, <1>2, <1>3

(* A sum of what a bit has and what the row says, seen from what was sent. *)
LEMMA SidedSum ==
  ASSUME fixed \in BOOLEAN, NEW f, NEW g, NEW N, NEW v, RowUpdated(f, g, N, v), NEW c \in N,
         NEW x \in Int, Sided(Message(v, c), c) = x, Message(v, c) \in Int
  PROVE  Sided(g[c], c) = Bounded(Sided(f[c], c) + x)
<1>1. f[c] \in Int /\ g[c] = Bounded(f[c] + Message(v, c))
  BY DEF RowUpdated
<1>2. f[c] + Message(v, c) \in Int
  BY <1>1
<1>3. Sided(g[c], c) = Bounded(Sided(f[c] + Message(v, c), c))
  BY <1>1, <1>2, SidedBounded
<1>4. Sided(f[c] + Message(v, c), c) = Sided(f[c], c) + x
  BY <1>1 DEF Sided
<1> QED BY <1>3, <1>4

(* Each row whose bits are all right keeps them right; the row of the bit in *)
(* doubt settles it, since two thirds of what the others have outweigh it;   *)
(* what this row takes from the others leaves them right.                    *)
LEMMA RowKeepsSettled ==
  ASSUME fixed \in BOOLEAN, NEW f, NEW g, NEW N, NEW v, RowUpdated(f, g, N, v),
         IsFiniteSet(N), ~ Odd(N \cap broadcast), NEW k \in Nat, 1 <= k, k <= 2 * Weakest,
         \A c \in N : k <= Sided(f[c], c)
  PROVE  \A c \in N : k <= Sided(g[c], c)
<1> SUFFICES ASSUME NEW c \in N PROVE k <= Sided(g[c], c)
  OBVIOUS
<1>1. DOMAIN v = N /\ f[c] \in Int
  BY DEF RowUpdated
<1>2. \A d \in N : v[d] \in Int /\ 1 <= Sided(v[d], d)
  <2> SUFFICES ASSUME NEW d \in N PROVE v[d] \in Int /\ 1 <= Sided(v[d], d)
    OBVIOUS
  <2>1. v[d] \in Int /\ k <= Sided(v[d], d)
    BY SameSide
  <2> QED BY <2>1 DEF Sided
<1>3. \A d \in N : v[d] # 0
  BY <1>2 DEF Sided
<1>4. PICK m : /\ OthersLeast(v, N \ {c}, m)
               /\ Sided(Message(v, c), c) = Bounded(Scaled(m))
  BY <1>1, <1>2, <1>3, MessageRight
<1>5. Bounded(Scaled(m)) \in Int /\ 0 <= Bounded(Scaled(m))
  <2>1. m \in Nat
    BY <1>4 DEF OthersLeast
  <2> QED BY <2>1, ScaledIs, BoundedIs
<1>6. Message(v, c) \in Int
  BY <1>1, <1>2, <1>3, MessageInt
<1>7. Sided(g[c], c) = Bounded(Sided(f[c], c) + Bounded(Scaled(m)))
  BY <1>4, <1>5, <1>6, SidedSum
<1>8. k <= Sided(f[c], c) + Bounded(Scaled(m)) /\ Sided(f[c], c) + Bounded(Scaled(m)) \in Int
  BY <1>1, <1>5 DEF Sided
<1> QED BY <1>7, <1>8, BoundedIs

LEMMA RowSettles ==
  ASSUME fixed \in BOOLEAN, NEW f, NEW g, NEW N, NEW v, RowUpdated(f, g, N, v),
         IsFiniteSet(N), ~ Odd(N \cap broadcast), NEW d \in N, Doubted(f, d)
  PROVE  \A c \in N : 1 <= Sided(g[c], c)
<1> SUFFICES ASSUME NEW c \in N PROVE 1 <= Sided(g[c], c)
  OBVIOUS
<1>1. DOMAIN v = N /\ f[c] \in Int /\ N \subseteq Cols
  BY DEF RowUpdated
<1>2. Weakest \in Nat \ {0} /\ 2 * Weakest <= Largest /\ Largest \in Nat
  BY WeakestIs
<1>3. /\ v[d] \in Int /\ Sided(v[d], d) = - Weakest
      /\ \A e \in N \ {d} : v[e] \in Int /\ 2 * Weakest <= Sided(v[e], e)
  BY <1>1, <1>2, SameSide DEF Doubted
<1>4. \A e \in N : v[e] \in Int /\ v[e] # 0
  BY <1>2, <1>3 DEF Sided
<1>5. \A e \in N \ {d} : 1 <= Sided(v[e], e) /\ 2 * Weakest <= Abs(v[e])
  BY <1>2, <1>3 DEF Sided, Abs
<1>6. Abs(v[d]) = Weakest /\ Sided(v[d], d) <= -1
  BY <1>2, <1>3 DEF Sided, Abs
<1>7. Message(v, c) \in Int
  BY <1>1, <1>4, MessageInt
<1>8. CASE c = d
  <2>1. PICK m : /\ OthersLeast(v, N \ {c}, m)
                 /\ Sided(Message(v, c), c) = Bounded(Scaled(m))
    BY <1>1, <1>4, <1>5, <1>8, MessageRight
  <2>2. m \in Nat /\ 2 * Weakest <= m
    BY <1>2, <1>5, <1>8, <2>1 DEF OthersLeast
  <2>3. Scaled(m) \in Nat /\ Weakest + 1 <= Scaled(m)
    BY <2>2, ScaledIs
  <2>4. Bounded(Scaled(m)) \in Int /\ Weakest + 1 <= Bounded(Scaled(m))
    BY <1>2, <2>3, BoundedIs
  <2>5. Sided(g[c], c) = Bounded(Sided(f[c], c) + Bounded(Scaled(m)))
    BY <1>7, <2>1, <2>4, SidedSum
  <2>6. 1 <= - Weakest + Bounded(Scaled(m)) /\ - Weakest + Bounded(Scaled(m)) \in Int
    BY <1>2, <2>4
  <2>7. Sided(f[c], c) = - Weakest
    BY <1>8 DEF Doubted
  <2> QED BY <1>2, <2>5, <2>6, <2>7, BoundedIs
<1>9. CASE c # d
  <2>1. PICK m : /\ OthersLeast(v, N \ {c}, m)
                 /\ Sided(Message(v, c), c) = - Bounded(Scaled(m))
    BY <1>1, <1>4, <1>5, <1>6, <1>9, MessageWrong
  <2>2. m \in Nat /\ m <= Weakest
    BY <1>6, <1>9, <2>1 DEF OthersLeast
  <2>3. Scaled(m) \in Nat /\ Scaled(m) <= Weakest
    BY <2>2, ScaledIs
  <2>4. Bounded(Scaled(m)) \in Int /\ Bounded(Scaled(m)) <= Weakest
    BY <1>2, <2>3, BoundedIs
  <2>5. Sided(g[c], c) = Bounded(Sided(f[c], c) + (- Bounded(Scaled(m))))
    <3>1. - Bounded(Scaled(m)) \in Int
      BY <2>4
    <3> QED BY <1>7, <2>1, <3>1, SidedSum
  <2>6. 2 * Weakest <= Sided(f[c], c) /\ Sided(f[c], c) \in Int
    BY <1>1, <1>9 DEF Doubted, Sided
  <2>7. 1 <= Sided(f[c], c) + (- Bounded(Scaled(m)))
        /\ Sided(f[c], c) + (- Bounded(Scaled(m))) \in Int
    BY <1>2, <2>4, <2>6
  <2> QED BY <1>2, <2>5, <2>7, BoundedIs
<1> QED BY <1>8, <1>9

LEMMA RowStep ==
  ASSUME fixed \in BOOLEAN, NEW f, NEW g, NEW N, NEW v, RowUpdated(f, g, N, v),
         IsFiniteSet(N), ~ Odd(N \cap broadcast)
  PROVE  /\ g \in [Cols -> Int]
         /\ Settled(f) => Settled(g)
         /\ \A d \in Cols : Doubted(f, d) =>
              IF d \in N THEN Settled(g) ELSE Doubted(g, d)
<1>1. /\ f \in [Cols -> Int] /\ N \subseteq Cols /\ DOMAIN v = N
      /\ \A c \in Cols \ N : g[c] = f[c]
  BY DEF RowUpdated
<1>2. Weakest \in Nat \ {0}
  BY WeakestIs
<1>3. Settled(f) => Settled(g)
  <2> SUFFICES ASSUME Settled(f) PROVE Settled(g)
    OBVIOUS
  <2>1. \A c \in N : 1 <= Sided(g[c], c)
    <3>1. \A c \in N : 1 <= Sided(f[c], c)
      BY <1>1 DEF Settled
    <3>2. 1 \in Nat /\ 1 <= 1 /\ 1 <= 2 * Weakest
      BY <1>2
    <3> QED BY <3>1, <3>2, RowKeepsSettled
  <2> QED BY <1>1, <2>1 DEF Settled
<1>4. ASSUME NEW d \in Cols, Doubted(f, d)
      PROVE  IF d \in N THEN Settled(g) ELSE Doubted(g, d)
  <2>1. CASE d \in N
    <3>1. \A c \in N : 1 <= Sided(g[c], c)
      BY <1>4, <2>1, RowSettles
    <3>2. \A c \in Cols \ N : 1 <= Sided(g[c], c)
      BY <1>1, <1>2, <1>4, <2>1 DEF Doubted, Sided
    <3> QED BY <2>1, <3>1, <3>2 DEF Settled
  <2>2. CASE d \notin N
    <3>1. \A c \in N : 2 * Weakest <= Sided(g[c], c)
      <4>1. \A c \in N : 2 * Weakest <= Sided(f[c], c)
        BY <1>1, <1>4, <2>2 DEF Doubted
      <4>2. 2 * Weakest \in Nat /\ 1 <= 2 * Weakest /\ 2 * Weakest <= 2 * Weakest
        BY <1>2
      <4> QED BY <4>1, <4>2, RowKeepsSettled
    <3>2. \A c \in Cols \ N : Sided(g[c], c) = Sided(f[c], c)
      BY <1>1
    <3> QED BY <1>1, <1>4, <2>2, <3>1, <3>2 DEF Doubted
  <2> QED BY <2>1, <2>2
<1>5. g \in [Cols -> Int]
  <2>1. ASSUME NEW c \in N PROVE Bounded(f[c] + Message(v, c)) \in Int
    <3>1. f[c] \in Int
      BY <1>1
    <3>2. Message(v, c) \in Int
      BY <1>1, <2>1, MessageInt, SameSide
    <3>3. f[c] + Message(v, c) \in Int
      BY <3>1, <3>2
    <3> QED BY <3>3, BoundedIs
  <2> QED BY <1>1, <2>1 DEF RowUpdated
<1> QED BY <1>3, <1>4, <1>5

-----------------------------------------------------------------------------
(* A bit whose check has been computed in this iteration.  Until then the    *)
(* one in doubt is as it was received, and the others are strong.            *)
Passed(d) == \E r \in CheckRows : r < row /\ d \in Neighbours(r)

OneDoubt ==
  Cardinality(doubt) <= 1 /\ \A d \in doubt : \E r \in CheckRows : d \in Neighbours(r)

FirstIteration ==
  /\ iter = 0 /\ app \in [Cols -> Int]
  /\ \A r \in CheckRows, c \in Cols : <<r, c>> \in H /\ row <= r => cn[<<r, c>>] = 0
  /\ (\A d \in doubt : Passed(d)) => Settled(app)
  /\ \A d \in doubt : Passed(d) \/ Doubted(app, d)

LdpcTypes ==
  /\ fixed \in BOOLEAN /\ limit \in Nat \ {0} /\ broadcast \in Codewords
  /\ doubt \in SUBSET Cols /\ strength \in Nat /\ 2 <= strength /\ row \in Int

LdpcInv ==
  /\ LdpcTypes
  /\ OneDoubt /\ 0 <= row => FirstIteration
  /\ OneDoubtIsSettled

(* The rows and the bits of the matrix are numbered. *)
LEMMA MatrixShape ==
  /\ \E n \in Nat : CheckRows = 0 .. n - 1
  /\ IsFiniteSet(Cols)
  /\ \A r : Neighbours(r) \in SUBSET Cols /\ IsFiniteSet(Neighbours(r))
<1> DEFINE n == SmallSpec.rows * SmallQ
           b == SmallSpec.cols * SmallQ
<1>1. SmallSpec.rows \in Nat /\ SmallSpec.cols \in Nat /\ SmallQ \in Nat
  BY LdpcAssumption DEF LdpcAssumption
<1>2. n \in Nat /\ b \in Nat
  BY <1>1
<1>3. CheckRows = 0 .. n - 1 /\ Cols = 0 .. b - 1
  BY DEF CheckRows, Cols
<1> HIDE DEF n, b
<1>4. IsFiniteSet(Cols)
  BY <1>2, <1>3, FS_Interval
<1>5. \A r : Neighbours(r) \in SUBSET Cols
  BY DEF Neighbours
<1> QED BY <1>2, <1>3, <1>4, <1>5, FS_Subset

(* A codeword satisfies every check. *)
LEMMA ChecksHold ==
  ASSUME broadcast \in Codewords
  PROVE  /\ broadcast \in SUBSET Cols /\ Unsatisfied(broadcast) = {}
         /\ \A r \in CheckRows : ~ Odd(Neighbours(r) \cap broadcast)
BY DEF Codewords, Unsatisfied, Odd

(* Among at most one there are no two. *)
LEMMA OneOnly ==
  ASSUME doubt \in SUBSET Cols, Cardinality(doubt) <= 1
  PROVE  \A c, d \in doubt : c = d
<1>1. IsFiniteSet(doubt) /\ Cardinality(doubt) \in Nat
  BY MatrixShape, FS_Subset, FS_CardinalityType
<1>2. CASE Cardinality(doubt) = 0
  BY <1>1, <1>2, FS_EmptySet
<1>3. CASE Cardinality(doubt) = 1
  BY <1>1, <1>3, FS_Singleton
<1> QED BY <1>1, <1>2, <1>3

LEMMA InitLdpc == LdpcInit => LdpcInv
<1> SUFFICES ASSUME LdpcInit PROVE LdpcInv
  OBVIOUS
<1>1. fixed \in BOOLEAN /\ limit \in Nat \ {0} /\ strength \in Nat /\ 2 <= strength
  BY LdpcAssumption DEF LdpcInit, LdpcAssumption
<1>2. broadcast \in Codewords /\ doubt \in SUBSET Cols /\ row = -1
  BY DEF LdpcInit, Doubts
<1> QED BY <1>1, <1>2 DEF LdpcInv, LdpcTypes, OneDoubtIsSettled

(* What the channel gives. *)
LEMMA LoadLdpc ==
  ASSUME LdpcInv, Load
  PROVE  LdpcInv'
<1>1. /\ LdpcTypes /\ row' = 0 /\ iter' = 0 /\ app' = ChannelLlrs /\ cn' = NoMessages
      /\ UNCHANGED <<fixed, limit, broadcast, doubt, strength>>
  BY DEF LdpcInv, Load, inputVars
<1>2. Weakest \in Nat \ {0}
  BY <1>1, WeakestIs DEF LdpcTypes
<1> DEFINE u == IF fixed THEN 1 ELSE Unit
<1>3. strength * u \in Nat /\ 2 * u <= strength * u /\ u = Weakest
  <2>1. ASSUME NEW k \in Nat, NEW s \in Nat, 2 <= s PROVE s * k \in Nat /\ 2 * k <= s * k
    BY <2>1
  <2>2. u = Weakest
    BY DEF Weakest
  <2> HIDE DEF u
  <2> QED BY <1>1, <1>2, <2>1, <2>2 DEF LdpcTypes
<1>4. ASSUME NEW c \in Cols
      PROVE  /\ app'[c] \in Int
             /\ c \in doubt => Sided(app'[c], c) = - Weakest
             /\ c \notin doubt => 2 * Weakest <= Sided(app'[c], c)
  <2> DEFINE mag == (IF c \in doubt THEN 1 ELSE strength) * u
  <2>1. app'[c] = IF (c \in broadcast) # (c \in doubt) THEN - mag ELSE mag
    BY <1>1 DEF ChannelLlrs
  <2>2. mag = IF c \in doubt THEN Weakest ELSE strength * u
    BY <1>2, <1>3
  <2>3. strength * u \in Nat /\ 2 * Weakest <= strength * u
    BY <1>3
  <2> HIDE DEF mag, u
  <2>4. CASE c \in doubt
    <3>1. mag = Weakest
      BY <2>2, <2>4
    <3>2. app'[c] = IF c \in broadcast THEN mag ELSE - mag
      BY <2>1, <2>4
    <3> QED BY <1>2, <2>4, <3>1, <3>2 DEF Sided
  <2>5. CASE c \notin doubt
    <3>1. mag \in Nat /\ 2 * Weakest <= mag
      BY <2>2, <2>3, <2>5
    <3>2. app'[c] = IF c \in broadcast THEN - mag ELSE mag
      BY <2>1, <2>5
    <3> QED BY <1>2, <2>5, <3>1, <3>2 DEF Sided
  <2> QED BY <2>4, <2>5
<1>5. app' \in [Cols -> Int]
  <2>1. PICK f : f = app'
    OBVIOUS
  <2>2. f = [c \in Cols |-> f[c]]
    BY <1>1, <2>1 DEF ChannelLlrs
  <2>3. \A c \in Cols : f[c] \in Int
    BY <1>4, <2>1
  <2>4. f \in [Cols -> Int]
    BY <2>2, <2>3
  <2> QED BY <2>1, <2>4
<1>6. ASSUME OneDoubt PROVE FirstIteration'
  <2>1. \A d \in doubt : ~ Passed(d)'
    BY <1>1, MatrixShape DEF Passed
  <2>2. ASSUME NEW d \in doubt PROVE Doubted(app', d)
    <3>1. \A c \in Cols \ {d} : c \notin doubt
      BY <1>1, <1>6, OneOnly DEF OneDoubt, LdpcTypes
    <3> QED BY <1>1, <1>4, <2>2, <3>1 DEF Doubted, LdpcTypes
  <2>3. doubt = {} => Settled(app')
    BY <1>2, <1>4 DEF Settled, Sided
  <2>4. \A r \in CheckRows, c \in Cols : <<r, c>> \in H => cn'[<<r, c>>] = 0
    BY <1>1 DEF NoMessages
  <2>5. (\A d \in doubt' : Passed(d)') => Settled(app)'
    BY <1>1, <2>1, <2>3 DEF Settled, Sided
  <2>6. \A d \in doubt' : Passed(d)' \/ Doubted(app, d)'
    BY <1>1, <2>2 DEF Doubted, Sided, Weakest
  <2>7. Cols' = Cols /\ H' = H /\ CheckRows' = CheckRows
    BY DEF Cols, H, CheckRows
  <2> QED BY <1>1, <1>5, <2>4, <2>5, <2>6 DEF FirstIteration
<1>7. LdpcTypes' /\ (OneDoubt' <=> OneDoubt)
  BY <1>1 DEF LdpcTypes, OneDoubt
<1>8. OneDoubtIsSettled'
  BY <1>1 DEF OneDoubtIsSettled
<1> QED BY <1>6, <1>7, <1>8 DEF LdpcInv

(* One check node. *)
LEMMA UpdateLdpc ==
  ASSUME LdpcInv, MinSumIteration \/ MinSumIterationFxp
  PROVE  LdpcInv'
<1> DEFINE N == Neighbours(row)
           float == [c \in N |-> app[c] - cn[<<row, c>>]]
           fxp == [c \in N |-> Bounded(app[c] - cn[<<row, c>>])]
<1>1. PICK v : /\ v = float \/ v = fxp
               /\ UpdateRow(v)
  BY DEF MinSumIteration, MinSumIterationFxp
<1>2. /\ row \in CheckRows /\ row' = row + 1 /\ iter' = iter
      /\ UNCHANGED <<fixed, limit, broadcast, doubt, strength>>
      /\ app' = [c \in Cols |-> IF c \in N
                                THEN Bounded(app[c] - cn[<<row, c>>] + Message(v, c)) ELSE app[c]]
      /\ cn' = [e \in H |-> IF e[1] = row THEN [c \in N |-> Message(v, c)][e[2]] ELSE cn[e]]
  BY <1>1 DEF UpdateRow, inputVars
<1>3. LdpcTypes /\ LdpcTypes' /\ (OneDoubt' <=> OneDoubt)
  BY <1>2 DEF LdpcInv, LdpcTypes, OneDoubt
<1>4. PICK n \in Nat : CheckRows = 0 .. n - 1
  BY MatrixShape
<1>5. 0 <= row /\ row \in Int /\ row' # -2 /\ row + 1 \in Int
  BY <1>2, <1>4
<1>6. ASSUME OneDoubt PROVE FirstIteration'
  <2>1. FirstIteration
    BY <1>5, <1>6 DEF LdpcInv
  <2>2. N \in SUBSET Cols /\ IsFiniteSet(N) /\ ~ Odd(N \cap broadcast)
    BY <1>2, <1>3, MatrixShape, ChecksHold DEF LdpcTypes
  <2>3. \A c \in N : cn[<<row, c>>] = 0 /\ app[c] \in Int
    BY <1>2, <1>5, <2>1, <2>2 DEF FirstIteration, Neighbours
  <2>4. \A c \in N : app[c] - cn[<<row, c>>] = app[c]
    BY <2>3
  <2>5. DOMAIN v = N /\ \A c \in N : v[c] = app[c] \/ v[c] = Bounded(app[c])
    BY <1>1, <2>4
  <2>6. PICK g : g = app'
    OBVIOUS
  <2>7. g = [c \in Cols |-> IF c \in N THEN Bounded(app[c] + Message(v, c)) ELSE app[c]]
    BY <1>2, <2>4, <2>6
  <2>8. RowUpdated(app, g, N, v)
    BY <2>1, <2>2, <2>5, <2>7 DEF RowUpdated, FirstIteration
  <2> HIDE DEF N, float, fxp
  <2>9. /\ g \in [Cols -> Int]
        /\ Settled(app) => Settled(g)
        /\ \A d \in Cols : Doubted(app, d) => IF d \in N THEN Settled(g) ELSE Doubted(g, d)
    BY <1>3, <2>2, <2>8, RowStep DEF LdpcTypes
  <2>10. \A d \in doubt : d \in Cols
    BY <1>3 DEF LdpcTypes
  <2>11. \A d : Passed(d)' <=> Passed(d) \/ d \in N
    <3>1. \A r \in CheckRows : r < row + 1 <=> r < row \/ r = row
      BY <1>4, <1>5
    <3> QED BY <1>2, <3>1 DEF Passed, N, Neighbours, Cols, H, CheckRows
  <2>12. Settled(app)' <=> Settled(g)
    BY <1>2, <2>6 DEF Settled, Sided
  <2>13. \A d \in doubt : Doubted(app, d)' <=> Doubted(g, d)
    BY <1>2, <2>6 DEF Doubted, Sided, Weakest
  <2>14. (\A d \in doubt : Passed(d)') => Settled(g)
    <3> SUFFICES ASSUME \A d \in doubt : Passed(d)' PROVE Settled(g)
      OBVIOUS
    <3>1. CASE \A d \in doubt : Passed(d)
      BY <2>1, <2>9, <3>1 DEF FirstIteration
    <3>2. CASE \E d \in doubt : ~ Passed(d)
      <4>1. PICK d \in doubt : ~ Passed(d)
        BY <3>2
      <4>2. Doubted(app, d) /\ d \in N /\ d \in Cols
        BY <2>1, <2>10, <2>11, <4>1 DEF FirstIteration
      <4> QED BY <2>9, <4>2
    <3> QED BY <3>1, <3>2
  <2>15. ASSUME NEW d \in doubt PROVE Passed(d)' \/ Doubted(g, d)
    BY <2>1, <2>9, <2>10, <2>11, <2>15 DEF FirstIteration
  <2>16. \A r \in CheckRows, c \in Cols :
            <<r, c>> \in H /\ row + 1 <= r => cn'[<<r, c>>] = 0
    <3> SUFFICES ASSUME NEW r \in CheckRows, NEW c \in Cols, <<r, c>> \in H, row + 1 <= r
                 PROVE  cn'[<<r, c>>] = 0
      OBVIOUS
    <3>1. r # row /\ row <= r
      BY <1>4, <1>5
    <3>2. cn'[<<r, c>>] = cn[<<r, c>>]
      BY <1>2, <3>1
    <3> QED BY <2>1, <3>1, <3>2 DEF FirstIteration
  <2>17. iter' = 0 /\ app' \in [Cols -> Int]
    BY <1>2, <2>1, <2>6, <2>9 DEF FirstIteration
  <2>18. (\A d \in doubt' : Passed(d)') => Settled(app)'
    BY <1>2, <2>12, <2>14
  <2>19. \A d \in doubt' : Passed(d)' \/ Doubted(app, d)'
    BY <1>2, <2>13, <2>15
  <2> QED BY <1>2, <2>16, <2>17, <2>18, <2>19 DEF FirstIteration
<1>7. OneDoubtIsSettled'
  BY <1>5 DEF OneDoubtIsSettled
<1> QED BY <1>3, <1>6, <1>7 DEF LdpcInv

(* After the last row every bit is decided rightly, so the decoder stops.    *)
LEMMA AllDecided ==
  ASSUME LdpcInv, OneDoubt, row \notin CheckRows, 0 < row
  PROVE  iter = 0 /\ Decided = broadcast /\ Unsatisfied(Decided) = {}
<1>1. LdpcTypes /\ FirstIteration
  BY DEF LdpcInv, LdpcTypes
<1>2. PICK n \in Nat : CheckRows = 0 .. n - 1
  BY MatrixShape
<1>3. \A r \in CheckRows : r < row
  BY <1>1, <1>2 DEF LdpcTypes
<1>4. \A d \in doubt : Passed(d)
  BY <1>3 DEF OneDoubt, Passed
<1>5. Settled(app) /\ iter = 0 /\ app \in [Cols -> Int]
  BY <1>1, <1>4 DEF FirstIteration
<1>6. broadcast \in SUBSET Cols /\ Unsatisfied(broadcast) = {}
  BY <1>1, ChecksHold DEF LdpcTypes
<1>7. \A c \in Cols : app[c] < 0 <=> c \in broadcast
  BY <1>5 DEF Settled, Sided
<1>8. Decided = broadcast
  BY <1>6, <1>7 DEF Decided
<1> QED BY <1>5, <1>6, <1>8

LEMMA FinishLdpc ==
  ASSUME LdpcInv, NextIteration \/ Converge \/ Exhaust
  PROVE  LdpcInv'
<1>1. LdpcTypes /\ LdpcTypes' /\ (OneDoubt' <=> OneDoubt)
      /\ UNCHANGED <<fixed, limit, broadcast, doubt, strength>>
  BY DEF LdpcInv, LdpcTypes, OneDoubt, NextIteration, Converge, Exhaust, inputVars
<1>2. CASE ~ OneDoubt
  <2>1. OneDoubtIsSettled'
    BY <1>1, <1>2 DEF OneDoubtIsSettled, OneDoubt
  <2> QED BY <1>1, <1>2, <2>1 DEF LdpcInv
<1>3. CASE OneDoubt /\ NextIteration
  BY <1>3, AllDecided DEF NextIteration
<1>4. CASE OneDoubt /\ Converge
  <2>1. /\ row \notin CheckRows /\ 0 < row /\ row' = -2 /\ outcome' = Outcome(Decided, iter)
    BY <1>1, <1>4 DEF Converge, LdpcTypes
  <2>2. outcome' = Outcome(broadcast, 0) /\ Unsatisfied(broadcast) = {}
    BY <1>4, <2>1, AllDecided
  <2>3. /\ outcome'.converged /\ outcome'.bits = broadcast \cap Info
        /\ outcome'.iterations = 1
    <3>1. PICK out : out = outcome'
      OBVIOUS
    <3>2. out = [iterations |-> 0 + 1, converged |-> TRUE, bits |-> broadcast \cap Info]
      BY <2>2, <3>1 DEF Outcome
    <3>3. out.converged /\ out.bits = broadcast \cap Info /\ out.iterations = 1
      BY <3>2
    <3> QED BY <3>1, <3>3
  <2>4. OneDoubtIsSettled'
    BY <1>1, <2>3 DEF OneDoubtIsSettled, Info
  <2> QED BY <1>1, <2>1, <2>4 DEF LdpcInv
<1>5. CASE OneDoubt /\ Exhaust
  <2>1. FirstIteration /\ iter = limit
    BY <1>5 DEF Exhaust, LdpcInv
  <2> QED BY <1>1, <2>1 DEF FirstIteration, LdpcTypes
<1> QED BY <1>2, <1>3, <1>4, <1>5

LEMMA LdpcInvHolds == DatapathSpec => []LdpcInv
<1>1. DatapathInit => LdpcInv
  BY InitLdpc DEF DatapathInit
<1>2. LdpcInv /\ [DatapathNext]_datapathVars => LdpcInv'
  <2> SUFFICES ASSUME LdpcInv, [DatapathNext]_datapathVars PROVE LdpcInv'
    OBVIOUS
  <2>1. CASE LdpcNext
    BY <2>1, LoadLdpc, UpdateLdpc, FinishLdpc DEF LdpcNext
  <2>2. CASE UNCHANGED ldpcVars
    BY <2>2 DEF ldpcVars, inputVars, LdpcInv, LdpcTypes, OneDoubt, FirstIteration, Passed,
                Settled, Doubted, Sided, Weakest, OneDoubtIsSettled
  <2> QED BY <2>1, <2>2 DEF DatapathNext, datapathVars, fecVars
<1> QED BY <1>1, <1>2, PTL DEF DatapathSpec

(* lib/fec/ldpc_decoder.cc: with every matrix of the generator's form, on    *)
(* the float and on the fixed-point path, a codeword that is received with   *)
(* one bit weak and wrong is decoded in one iteration.                       *)
THEOREM OneDoubtIsNoMatter == DatapathSpec => []OneDoubtIsSettled
<1>1. LdpcInv => OneDoubtIsSettled
  BY DEF LdpcInv
<1> QED BY <1>1, LdpcInvHolds, PTL
=============================================================================
