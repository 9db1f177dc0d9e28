------------------------- MODULE DeinterleaverProofs -------------------------
(* Proofs about the de-interleavers, for every value of their parameters:    *)
(* the time de-interleaver undoes what the transmitter did.                  *)
EXTENDS DatapathProofs

-----------------------------------------------------------------------------
(* Division: a place is its row and its number in the row, and no other.     *)
LEMMA DivisionIsUnique ==
  ASSUME NEW b \in Nat \ {0}, NEW a \in Nat, NEW r \in 0 .. b - 1
  PROVE  /\ a * b + r \in Nat
         /\ (a * b + r) \div b = a
         /\ (a * b + r) % b = r
<1> DEFINE p == a * b
           s == p + r
           q == s \div b
           w == q * b
<1>1. p \in Nat /\ s \in Nat
  <2>1. p \in Nat
    OBVIOUS
  <2> HIDE DEF p
  <2> QED BY <2>1
<1>2. q \in Nat /\ w <= s /\ s < w + b
  <2> HIDE DEF s
  <2> QED BY <1>1, Quotient
<1>3. a <= q
  <2>1. p <= s
    BY <1>1
  <2> HIDE DEF s
  <2> QED BY <1>1, <2>1, Fits
<1>4. s % b = s - b * q
  <2> HIDE DEF s
  <2> QED BY <1>1, Z3 DEF q
<1>5. b * q = w /\ w \in Nat /\ (a + 1) * b = p + b
  <2> HIDE DEF q
  <2> QED BY <1>2
<1>6. q >= a + 1 => w >= (a + 1) * b
  <2> HIDE DEF q
  <2> QED BY <1>2
<1> HIDE DEF q, w, p
<1>7. q < a + 1
  BY <1>1, <1>2, <1>5, <1>6
<1>8. q = a
  BY <1>2, <1>3, <1>7
<1>9. w = p
  BY <1>8 DEF w, p
<1>10. s % b = r
  BY <1>1, <1>4, <1>5, <1>9
<1> QED BY <1>1, <1>8, <1>10 DEF p, q

LEMMA DivisionParts ==
  ASSUME NEW b \in Nat \ {0}, NEW s \in Nat
  PROVE  /\ s \div b \in Nat /\ s % b \in 0 .. b - 1
         /\ s = (s \div b) * b + (s % b)
<1>1. s \div b \in Nat /\ s % b \in 0 .. (b - 1)
  OBVIOUS
<1>2. s % b = s - b * (s \div b)
  BY Z3
<1>3. b * (s \div b) = (s \div b) * b /\ b * (s \div b) \in Nat
  BY <1>1
<1> DEFINE u == s \div b
           v == b * u
           w == s % b
<1>4. u \in Nat /\ w \in 0 .. b - 1 /\ w = s - v /\ u * b = v /\ v \in Nat
  BY <1>1, <1>2, <1>3
<1> HIDE DEF v, w
<1>5. s = v + w
  BY <1>4
<1> QED BY <1>4, <1>5 DEF w

-----------------------------------------------------------------------------
(* lib/ofdm/time_deinterleaver.cc.  What every row takes of a block.         *)
CellsOfRow(c) == CellsPerBlock \div NumRows(c)

LEMMA RowsOfBlock ==
  ASSUME NEW c \in Configs, EvenRows(c)
  PROVE  /\ NumRows(c) \in Nat \ {0}
         /\ CellsOfRow(c) \in Nat \ {0}
         /\ CellsOfRow(c) * NumRows(c) = CellsPerBlock
<1>1. NumRows(c) \in Nat \ {0}
  <2>1. c.depth \in Nat
    BY DeinterleaverAssumption DEF Configs
  <2> QED BY <2>1 DEF NumRows
<1> DEFINE N == NumRows(c)
           m == CellsOfRow(c)
           rest == CellsPerBlock % N
<1>2. CellsPerBlock \in Nat \ {0} /\ rest = 0
  BY DeinterleaverAssumption DEF EvenRows
<1> HIDE DEF N
<1>3. m \in Nat /\ CellsPerBlock = m * N + rest
  BY <1>1, <1>2, DivisionParts DEF N, CellsOfRow
<1>4. m * N = CellsPerBlock
  <2>1. m * N \in Nat
    BY <1>1, <1>3 DEF N
  <2> DEFINE w == m * N
  <2>2. w \in Nat /\ CellsPerBlock = w + rest
    BY <2>1, <1>3
  <2> HIDE DEF w, rest
  <2>3. w = CellsPerBlock
    BY <2>2, <1>2
  <2> QED BY <2>3 DEF w
<1>5. m # 0
  <2>1. 0 * N = 0
    BY <1>1 DEF N
  <2> QED BY <1>2, <1>4, <2>1
<1> QED BY <1>1, <1>3, <1>4, <1>5 DEF N

(* A place belongs to a row and has a number below CellsOfRow in it, and     *)
(* each such pair is a place.                                                *)
LEMMA PlaceOfRow ==
  ASSUME NEW c \in Configs, EvenRows(c)
  PROVE  /\ \A i \in Places :
              /\ RowOf(c, i) \in 0 .. NumRows(c) - 1
              /\ i \div NumRows(c) \in 0 .. CellsOfRow(c) - 1
              /\ i = (i \div NumRows(c)) * NumRows(c) + RowOf(c, i)
         /\ \A r \in 0 .. NumRows(c) - 1, q \in 0 .. CellsOfRow(c) - 1 :
              /\ q * NumRows(c) + r \in Places
              /\ RowOf(c, q * NumRows(c) + r) = r
              /\ (q * NumRows(c) + r) \div NumRows(c) = q
<1> DEFINE N == NumRows(c)
           m == CellsOfRow(c)
<1>1. N \in Nat \ {0} /\ m \in Nat \ {0} /\ m * N = CellsPerBlock /\ CellsPerBlock \in Nat
  BY RowsOfBlock, DeinterleaverAssumption
<1> HIDE DEF N, m
<1>2. ASSUME NEW i \in Places
      PROVE  /\ i % N \in 0 .. N - 1 /\ i \div N \in 0 .. m - 1
             /\ i = (i \div N) * N + (i % N)
  <2>1. i \in Nat /\ i < m * N
    BY <1>1 DEF Places
  <2> DEFINE q == i \div N
             w == q * N
  <2>2. q \in Nat /\ i % N \in 0 .. N - 1 /\ i = w + (i % N)
    BY <1>1, <2>1, DivisionParts
  <2> HIDE DEF q
  <2>3. w \in Nat
    BY <1>1, <2>2
  <2>4. q >= m => w >= m * N
    BY <1>1, <2>2
  <2>5. w <= i
    <3> HIDE DEF w
    <3>1. i % N >= 0 /\ i % N \in Int
      BY <1>1, <2>2
    <3> QED BY <2>1, <2>2, <2>3, <3>1
  <2>6. ~ (q >= m)
    <3> HIDE DEF w
    <3> QED BY <1>1, <2>1, <2>3, <2>4, <2>5
  <2>7. q \in 0 .. m - 1
    BY <1>1, <2>2, <2>6
  <2> QED BY <2>2, <2>7 DEF q
<1>3. ASSUME NEW r \in 0 .. N - 1, NEW q \in 0 .. m - 1
      PROVE  /\ q * N + r \in Places /\ (q * N + r) % N = r /\ (q * N + r) \div N = q
  <2>1. q * N + r \in Nat /\ (q * N + r) % N = r /\ (q * N + r) \div N = q
    BY <1>1, DivisionIsUnique
  <2>2. q * N + r < m * N
    <3>1. q + 1 <= m /\ q \in Nat
      BY <1>1
    <3>2. (q + 1) * N <= m * N
      BY <1>1, <3>1
    <3>3. (q + 1) * N = q * N + N /\ q * N \in Nat
      BY <1>1, <3>1
    <3> DEFINE w == q * N
               z == m * N
    <3>4. w + N <= z /\ w \in Nat /\ z \in Nat
      BY <3>2, <3>3, <1>1
    <3> HIDE DEF w, z
    <3>5. w + r < z
      BY <1>1, <3>4
    <3> QED BY <3>5 DEF w, z
  <2> DEFINE i == q * N + r
  <2>3. i \in Nat /\ i < CellsPerBlock
    BY <1>1, <2>1, <2>2
  <2> HIDE DEF i
  <2>4. i \in Places
    BY <1>1, <2>3 DEF Places
  <2> QED BY <2>1, <2>4 DEF i
<1> QED BY <1>2, <1>3 DEF N, m, RowOf

(* So every row takes as many cells of a block as the next.                  *)
LEMMA InRowIsEven ==
  ASSUME NEW c \in Configs, EvenRows(c), NEW r \in 0 .. NumRows(c) - 1
  PROVE  InRow(c, r) = CellsOfRow(c)
<1> DEFINE N == NumRows(c)
           m == CellsOfRow(c)
           S == 0 .. m - 1
           T == {i \in Places : RowOf(c, i) = r}
           f == [q \in S |-> q * N + r]
<1>1. m \in Nat \ {0}
  BY RowsOfBlock
<1>2. \A q \in S : f[q] \in T /\ f[q] \div N = q
  <2> HIDE DEF N, m
  <2> QED BY PlaceOfRow DEF N, m
<1>3. \A i \in T : i \div N \in S /\ f[i \div N] = i
  <2>1. \A i \in T : i \div N \in S /\ i = (i \div N) * N + r
    BY PlaceOfRow
  <2> QED BY <2>1
<1> HIDE DEF S, T, N
<1>4. f \in [S -> T]
  BY <1>2
<1>5. IsInjective(f)
  BY <1>2 DEF IsInjective
<1>6. \A i \in T : \E q \in S : f[q] = i
  BY <1>3
<1>7. ExistsBijection(S, T)
  BY <1>4, <1>5, <1>6 DEF ExistsBijection, Bijection, Injection, Surjection
<1>8. IsFiniteSet(S) /\ Cardinality(S) = m
  <2> HIDE DEF m
  <2> QED BY <1>1, FS_Interval DEF S
<1>9. Cardinality(T) = m
  BY <1>7, <1>8, FS_Bijection
<1> QED BY <1>9 DEF T, InRow

-----------------------------------------------------------------------------
(* A line of l cells is a ring: the place x cells on from its start, and how *)
(* many cells ago place k was written when the row now stands at p.          *)
Turned(l, x) == IF x < l THEN x ELSE x - l

AgeAt(l, p, k) == IF k < p THEN p - k ELSE p - k + l

LEMMA AgesGrow ==
  ASSUME NEW l \in Nat, NEW m \in Nat \ {0}, m <= l,
         NEW p \in 0 .. l - 1, NEW k \in 0 .. l - 1
  PROVE  /\ AgeAt(l, p, k) \in 1 .. l
         /\ \A q \in 0 .. m - 1 :
              Turned(l, p + q) = k => AgeAt(l, Turned(l, p + m), k) = m - q
         /\ \/ \E q \in 0 .. m - 1 : Turned(l, p + q) = k
            \/ /\ AgeAt(l, Turned(l, p + m), k) = AgeAt(l, p, k) + m
               /\ AgeAt(l, p, k) + m <= l
<1>1. AgeAt(l, p, k) \in 1 .. l
  BY DEF AgeAt
<1>2. ASSUME NEW q \in 0 .. m - 1, Turned(l, p + q) = k
      PROVE  AgeAt(l, Turned(l, p + m), k) = m - q
  BY <1>2 DEF AgeAt, Turned
<1> DEFINE j == AgeAt(l, p, k)
<1>3. CASE j > l - m
  <2>1. l - j \in 0 .. m - 1
    BY <1>1, <1>3
  <2>2. Turned(l, p + (l - j)) = k
    BY DEF Turned, AgeAt
  <2> QED BY <1>1, <1>2, <2>1, <2>2
<1>4. CASE j <= l - m
  <2>1. AgeAt(l, Turned(l, p + m), k) = j + m
    BY <1>4 DEF AgeAt, Turned
  <2> QED BY <1>1, <1>2, <1>4, <2>1
<1> QED BY <1>1, <1>3, <1>4

(* Where a row that stands inside its line meets the q-th cell of a block.   *)
LEMMA MeetsTurned ==
  ASSUME NEW r, NEW q \in Nat,
         Length(r) \in Nat, pos[r] \in 0 .. Length(r) - 1, q <= Length(r)
  PROVE  PosAfter(r, q) = Turned(Length(r), pos[r] + q)
<1> DEFINE l == Length(r)
           x == pos[r] + q
<1>1. l \in Nat \ {0} /\ x \in Nat /\ x < l + l /\ pos[r] < l
  OBVIOUS
<1>2. q = 0 => PosAfter(r, q) = pos[r]
  BY DEF PosAfter
<1>3. q # 0 => PosAfter(r, q) = x % l
  BY <1>1 DEF PosAfter
<1> HIDE DEF l
<1>4. x < l => x % l = x
  BY <1>1
<1>5. x >= l => x % l = x - l
  <2> SUFFICES ASSUME x >= l PROVE x % l = x - l
    OBVIOUS
  <2>1. x - l \in 0 .. l - 1
    BY <1>1
  <2>2. (1 * l + (x - l)) % l = x - l
    BY <1>1, <2>1, DivisionIsUnique
  <2>3. 1 * l + (x - l) = x
    BY <1>1
  <2> QED BY <2>2, <2>3
<1>6. pos[r] \in Nat
  OBVIOUS
<1> QED BY <1>1, <1>2, <1>3, <1>4, <1>5, <1>6 DEF Turned, l

-----------------------------------------------------------------------------
(* The k-th cell sent in a row since the sender took its config.             *)
SentCell(r, k) ==
  LET from == k - r * CellsPerBlock
      n == CellsOfRow(config)
  IN  IF from < 0 THEN Blank
      ELSE <<sender.first + from \div n, (from % n) * NumRows(config) + r>>

RowCellsSent == (sent - sender.first) * CellsOfRow(config)

(* What a place of a line holds while the two are in tune: the cell that was *)
(* sent as long ago as the place was written, except where it was not        *)
(* written since the last disturbance or not written at all since a reset.   *)
PlaceHolds(r, k) ==
  LET age == AgeAt(Length(r), pos[r], k)
      m == CellsOfRow(config)
  IN  \/ lines[r][k] = SentCell(r, RowCellsSent - age)
      \/ mixed > 0 /\ age > (Drained(config) - mixed) * m
      \/ mixed = 0 /\ lines[r][k] = Fill /\ age > blocks * m

Undisturbed == InTune /\ EvenRows(config) /\ ~ Straight(config) /\ ~ Astray

LinesHold ==
  Undisturbed => \A r \in Rows(config) : \A k \in DOMAIN lines[r] : PlaceHolds(r, k)

SenderFits ==
  /\ sender.config \in Configs
  /\ sent \in Nat /\ sender.first \in 0 .. sent
  /\ blocks \in Nat /\ mixed \in Nat

TimeInv == IInv /\ SenderFits /\ LinesHold

LEMMA RowFacts ==
  ASSUME IInv, ~ Straight(config), EvenRows(config), NEW r \in Rows(config)
  PROVE  /\ config \in Configs /\ config.depth \in Nat
         /\ NumRows(config) = config.depth + 1
         /\ r \in 0 .. NumRows(config) - 1
         /\ Length(r) \in Nat /\ DOMAIN lines[r] = 0 .. Length(r) - 1
         /\ Length(r) = Delay(config, r)
         /\ r = config.depth => Length(r) = 0
         /\ r # config.depth => CellsOfRow(config) <= Length(r)
         /\ Length(r) + r * CellsPerBlock = Total(config) * CellsOfRow(config)
<1> DEFINE d == config.depth
           C == CellsPerBlock
           m == CellsOfRow(config)
           N == NumRows(config)
<1>1. config \in Configs /\ d \in Nat /\ N = d + 1 /\ Rows(config) = 0 .. d
  BY DeinterleaverAssumption DEF IInv, LinesFit, Configs, NumRows, Rows
<1>2. r \in Nat /\ r <= d /\ d - r \in Nat
  BY <1>1
<1>3. Delay(config, r) \in Nat /\ DOMAIN lines[r] = 0 .. Delay(config, r) - 1
  BY DelayIsNat, <1>1 DEF IInv, LinesFit
<1>4. Length(r) = Delay(config, r)
  BY <1>3, FS_Interval DEF Length
<1>5. C \in Nat \ {0} /\ m \in Nat \ {0} /\ m * N = C
  BY <1>1, RowsOfBlock, DeinterleaverAssumption
<1>6. Delay(config, r) = (d - r) * C
  BY DEF Delay
<1>7. r = d => Delay(config, r) = 0
  BY <1>1, <1>2, <1>5, <1>6
<1>8. m <= C
  <2>1. m * (d + 1) = m * d + m /\ m * d \in Nat
    BY <1>1, <1>5
  <2> DEFINE w == m * d
  <2>2. C = w + m /\ w \in Nat
    BY <2>1, <1>1, <1>5
  <2> HIDE DEF w, m, C
  <2> QED BY <2>2, <1>5
<1>9. r # d => m <= Delay(config, r)
  <2> SUFFICES ASSUME r # d PROVE m <= Delay(config, r)
    OBVIOUS
  <2>1. d - r >= 1
    BY <1>1, <1>2
  <2>2. \A a, b \in Nat : a >= 1 => a * b >= b
    OBVIOUS
  <2>3. Delay(config, r) >= C
    BY <1>2, <1>5, <1>6, <2>1, <2>2
  <2> HIDE DEF m, C
  <2> QED BY <1>3, <1>5, <1>8, <2>3
<1>10. Delay(config, r) + r * C = Total(config) * m
  <2>1. Total(config) = d * N
    BY DEF Total
  <2>2. (d - r) * C + r * C = d * C
    BY <1>1, <1>2, <1>5
  <2>3. d * (m * N) = (d * N) * m
    BY <1>1, <1>5
  <2> QED BY <1>5, <1>6, <2>1, <2>2, <2>3
<1> QED BY <1>1, <1>2, <1>3, <1>4, <1>7, <1>9, <1>10

(* What the transmitter sends now, row by row.                               *)
LEMMA OnAirInRow ==
  ASSUME InTune, EvenRows(config), ~ Straight(config), config \in Configs,
         NEW i \in Places
  PROVE  OnAir(i) = SentCell(RowOf(config, i), RowCellsSent + i \div NumRows(config))
<1>1. RowOf(config, i) \in 0 .. NumRows(config) - 1
  BY PlaceOfRow
<1>2. InRow(config, RowOf(config, i)) = CellsOfRow(config)
  BY <1>1, InRowIsEven
<1> QED BY <1>2 DEF OnAir, SentCell, RowCellsSent, InTune

(* A row inside its line while a block comes.                                *)
LEMMA RowStandsInside ==
  ASSUME IInv, Undisturbed, NEW r \in Rows(config), NEW k \in DOMAIN lines[r]
  PROVE  /\ k \in 0 .. Length(r) - 1 /\ Length(r) \in Nat
         /\ pos[r] \in 0 .. Length(r) - 1
         /\ CellsOfRow(config) \in Nat \ {0} /\ CellsOfRow(config) <= Length(r)
<1>1. Length(r) \in Nat /\ DOMAIN lines[r] = 0 .. Length(r) - 1
      /\ (r = config.depth => Length(r) = 0)
      /\ (r # config.depth => CellsOfRow(config) <= Length(r))
      /\ config \in Configs
  BY RowFacts DEF Undisturbed
<1>2. Length(r) > 0 /\ k \in 0 .. Length(r) - 1
  BY <1>1
<1>3. pos[r] \in Nat /\ r \in DOMAIN lines
  BY DEF IInv, LinesFit
<1>4. pos[r] < Length(r)
  BY <1>1, <1>2, <1>3 DEF Astray, Undisturbed
<1>5. CellsOfRow(config) \in Nat \ {0}
  BY <1>1, RowsOfBlock DEF Undisturbed
<1> HIDE DEF Length
<1> QED BY <1>1, <1>2, <1>3, <1>4, <1>5

(* Numbers that grow by a block's worth with every block.                    *)
LEMMA OneBlockMore ==
  ASSUME NEW a \in Int, NEW m \in Nat
  PROVE  (a + 1) * m = a * m + m /\ a * m \in Int
OBVIOUS

(* One block keeps what the lines hold.                                      *)
LEMMA BlockKeepsLines ==
  ASSUME TimeInv, BlockReceived, Undisturbed, Undisturbed',
         NEW r \in Rows(config), NEW k \in DOMAIN lines[r]
  PROVE  PlaceHolds(r, k)'
<1> DEFINE m == CellsOfRow(config)
           l == Length(r)
           p == pos[r]
           N == NumRows(config)
           age == AgeAt(l, p, k)
           here == {i \in Places : RowOf(config, i) = r /\ Meets(i) = k}
           block == [i \in Places |-> OnAir(i)]
<1>1. /\ k \in 0 .. l - 1 /\ l \in Nat /\ p \in 0 .. l - 1
      /\ m \in Nat \ {0} /\ m <= l
  BY RowStandsInside DEF TimeInv
<1>2. /\ config \in Configs /\ N = config.depth + 1 /\ r \in 0 .. N - 1
      /\ l + r * CellsPerBlock = Total(config) * m /\ config.depth \in Nat
  BY RowFacts DEF TimeInv, Undisturbed
<1>3. /\ config' = config /\ sender' = sender /\ sent' = sent + 1 /\ blocks' = blocks + 1
      /\ mixed' = IF mixed > 0 THEN mixed - 1 ELSE mixed
  BY DEF BlockReceived, Process, Undisturbed
<1>4. lines'[r] = [x \in DOMAIN lines[r] |->
                     LET at == {i \in Places : RowOf(config, i) = r /\ Meets(i) = x}
                     IN  IF at = {} THEN lines[r][x] ELSE block[CHOOSE i \in at : TRUE]]
      /\ r \in DOMAIN lines
  <2>1. DOMAIN lines = Rows(config)
    BY DEF TimeInv, IInv, LinesFit
  <2> QED BY <2>1 DEF BlockReceived, Process
<1>5. lines'[r][k] = IF here = {} THEN lines[r][k] ELSE block[CHOOSE i \in here : TRUE]
  BY <1>4
<1>6. pos'[r] = Turned(l, p + m)
  <2>1. r \in DOMAIN pos
    BY DEF TimeInv, IInv, LinesFit
  <2>2. pos'[r] = PosAfter(r, InRow(config, r))
    BY <1>1, <2>1 DEF BlockReceived, Process
  <2>3. InRow(config, r) = m
    BY <1>2, InRowIsEven DEF Undisturbed
  <2> QED BY <1>1, <2>2, <2>3, MeetsTurned
<1>7. l' = l
  BY <1>4 DEF Length
<1>8. \A i \in here : /\ i \in Places /\ i \div N \in 0 .. m - 1
                      /\ Turned(l, p + i \div N) = k
  <2> SUFFICES ASSUME NEW i \in here
               PROVE  /\ i \in Places /\ i \div N \in 0 .. m - 1
                      /\ Turned(l, p + i \div N) = k
    OBVIOUS
  <2>1. i \in Places /\ RowOf(config, i) = r /\ PosAfter(r, i \div N) = k
    BY DEF Meets
  <2>2. i \div N \in 0 .. m - 1
    BY <1>2, <2>1, PlaceOfRow DEF Undisturbed
  <2> DEFINE q == i \div N
  <2>3. q \in Nat /\ q <= l
    <3> HIDE DEF q, m, l
    <3> QED BY <1>1, <2>2 DEF q
  <2>4. PosAfter(r, q) = Turned(l, p + q)
    <3> HIDE DEF q
    <3> QED BY <1>1, <2>3, MeetsTurned
  <2> QED BY <2>1, <2>2, <2>4
<1>9. \A q \in 0 .. m - 1 : Turned(l, p + q) = k => here # {}
  <2> SUFFICES ASSUME NEW q \in 0 .. m - 1, Turned(l, p + q) = k
               PROVE  q * N + r \in here
    OBVIOUS
  <2>1. q * N + r \in Places /\ RowOf(config, q * N + r) = r /\ (q * N + r) \div N = q
    BY <1>2, PlaceOfRow DEF Undisturbed
  <2>2. q \in Nat /\ q <= l
    <3> HIDE DEF m, l
    <3> QED BY <1>1
  <2>3. PosAfter(r, q) = k
    BY <1>1, <2>2, MeetsTurned
  <2> QED BY <2>1, <2>3 DEF Meets
<1> DEFINE sum == RowCellsSent
<1>10. sum \in Int /\ sum' = sum + m
  <2>1. sent - sender.first \in Int /\ (sent + 1) - sender.first = (sent - sender.first) + 1
    BY DEF TimeInv, SenderFits
  <2>2. sum' = ((sent - sender.first) + 1) * m
    BY <1>3, <2>1 DEF RowCellsSent, CellsOfRow, NumRows, Straight
  <2>3. m \in Nat
    BY <1>1
  <2> DEFINE a == sent - sender.first
  <2>4. a \in Int /\ sum = a * m /\ sum' = (a + 1) * m
    BY <2>1, <2>2 DEF RowCellsSent
  <2> HIDE DEF a, sum, m
  <2> QED BY <2>3, <2>4, OneBlockMore
<1>11. \A x : SentCell(r, x)' = SentCell(r, x)
  BY <1>3 DEF SentCell, CellsOfRow, NumRows, Straight
<1>12. age \in 1 .. l
  <2> HIDE DEF m, l, p
  <2> QED BY <1>1, AgesGrow
<1> DEFINE new == AgeAt(l, Turned(l, p + m), k)
<1>13. AgeAt(l, p, k)' = new
  BY <1>6, <1>7 DEF AgeAt
<1>14. CellsOfRow(config)' = m /\ Drained(config)' = Drained(config)
  BY <1>3 DEF CellsOfRow, NumRows, Straight, Drained, Total
<1>15. CASE here # {}
  <2> DEFINE i == CHOOSE x \in here : TRUE
             q == i \div N
  <2>1. i \in here
    BY <1>15
  <2> HIDE DEF i, here
  <2>2. i \in Places /\ q \in 0 .. m - 1 /\ Turned(l, p + q) = k
    BY <1>8, <2>1
  <2>3. new = m - q
    <3> HIDE DEF q, l, p, m
    <3>1. \A x \in 0 .. m - 1 : Turned(l, p + x) = k => new = m - x
      BY <1>1, AgesGrow
    <3> QED BY <2>2, <3>1
  <2>4. RowOf(config, i) = r
    BY <2>1 DEF here
  <2>5. lines'[r][k] = SentCell(r, sum + q)
    <3>1. lines'[r][k] = OnAir(i)
      BY <1>5, <1>15, <2>2 DEF i
    <3> QED BY <1>2, <2>2, <2>4, <3>1, OnAirInRow DEF Undisturbed
  <2>6. sum + q = sum' - new
    <3> HIDE DEF q, m, sum, new
    <3> QED BY <1>1, <1>10, <2>2, <2>3
  <2>7. lines'[r][k] = SentCell(r, sum' - new)
    BY <2>5, <2>6
  <2> QED BY <1>11, <1>13, <2>7 DEF PlaceHolds
<1>16. CASE here = {}
  <2>1. lines'[r][k] = lines[r][k]
    BY <1>5, <1>16
  <2>2. new = age + m /\ age + m <= l
    <3>1. ~ \E q \in 0 .. m - 1 : Turned(l, p + q) = k
      BY <1>9, <1>16
    <3> HIDE DEF l, p, m, here
    <3> QED BY <1>1, <3>1, AgesGrow
  <2> DEFINE g == (Drained(config) - mixed) * m
             b == blocks * m
  <2>3. \/ lines[r][k] = SentCell(r, sum - age)
        \/ mixed > 0 /\ age > g
        \/ mixed = 0 /\ lines[r][k] = Fill /\ age > b
    BY DEF TimeInv, LinesHold, PlaceHolds
  <2>4. CASE lines[r][k] = SentCell(r, sum - age)
    <3>1. sum - age = sum' - new
      <4> HIDE DEF age, m, sum, new, l
      <4> QED BY <1>1, <1>10, <1>12, <2>2
    <3>2. lines'[r][k] = SentCell(r, sum' - new)
      BY <2>1, <2>4, <3>1
    <3> QED BY <1>11, <1>13, <3>2 DEF PlaceHolds
  <2>5. CASE mixed > 0 /\ age > g
    <3>1. Drained(config) \in Int /\ mixed \in Nat /\ Total(config) \in Nat
      <4>1. config.depth * NumRows(config) \in Nat
        BY <1>2
      <4> QED BY <4>1 DEF TimeInv, SenderFits, Drained, Total
    <3> DEFINE a == Drained(config) - mixed
               g1 == (Drained(config) - (mixed - 1)) * m
    <3>2. a \in Int /\ g = a * m /\ g1 = (a + 1) * m
      <4>1. Drained(config) - (mixed - 1) = a + 1
        BY <3>1
      <4> QED BY <3>1, <4>1
    <3>3. g1 = g + m /\ g \in Int
      <4> HIDE DEF g, g1, a, m
      <4> QED BY <1>1, <3>2, OneBlockMore
    <3>4. new > g1
      <4> HIDE DEF g, g1, age, new, m, l
      <4> QED BY <1>1, <1>12, <2>2, <2>5, <3>3
    <3>5. mixed' = mixed - 1
      BY <1>3, <2>5
    <3>6. CASE mixed = 1
      <4>1. g1 = Drained(config) * m
        <5>1. Drained(config) - (mixed - 1) = Drained(config)
          BY <3>1, <3>6
        <5> QED BY <5>1
      <4> DEFINE t0 == Total(config) * m
                 x == r * CellsPerBlock
      <4>2. Drained(config) * m = t0 + m /\ t0 \in Int
        <5>1. Drained(config) = Total(config) + 1
          BY DEF Drained
        <5> HIDE DEF m
        <5> QED BY <1>1, <3>1, <5>1, OneBlockMore
      <4>3. x \in Nat
        BY <1>2, DeinterleaverAssumption
      <4>4. l + x = t0
        BY <1>2
      <4> HIDE DEF g1, new, m, l, x, t0, age
      <4>5. new > t0 + m /\ new <= l /\ new \in Int
        BY <1>1, <1>12, <2>2, <3>4, <4>1, <4>2
      <4> QED BY <1>1, <4>2, <4>3, <4>4, <4>5
    <3>7. CASE mixed # 1
      <4>1. mixed' > 0
        BY <2>5, <3>1, <3>5, <3>7
      <4>2. (Drained(config)' - mixed') * m = g1
        BY <1>14, <3>5
      <4> QED BY <1>13, <1>14, <3>4, <4>1, <4>2 DEF PlaceHolds
    <3> QED BY <3>6, <3>7
  <2>6. CASE mixed = 0 /\ lines[r][k] = Fill /\ age > b
    <3>1. blocks' * m = b + m /\ b \in Int
      <4>1. blocks \in Int /\ blocks' = blocks + 1
        BY <1>3 DEF TimeInv, SenderFits
      <4> HIDE DEF m
      <4> QED BY <1>1, <4>1, OneBlockMore
    <3> DEFINE b1 == blocks' * m
    <3>2. new > b1
      <4> HIDE DEF b, b1, age, new, m, l
      <4>1. b1 = b + m
        BY <3>1 DEF b1
      <4> QED BY <1>1, <1>12, <2>2, <2>6, <3>1, <4>1
    <3>3. mixed' = 0
      BY <1>3, <2>6
    <3> QED BY <1>13, <1>14, <2>1, <2>6, <3>2, <3>3 DEF PlaceHolds
  <2> QED BY <2>3, <2>4, <2>5, <2>6
<1> QED BY <1>15, <1>16

(* Right after a disturbance nothing is asked of the lines, and empty lines  *)
(* hold what empty lines should.                                             *)
LEMMA DisturbedHolds ==
  IInv /\ SenderFits /\ (InTune => mixed = Drained(config)) => LinesHold
<1> SUFFICES ASSUME IInv, SenderFits, Undisturbed, mixed = Drained(config),
                    NEW r \in Rows(config), NEW k \in DOMAIN lines[r]
             PROVE  PlaceHolds(r, k)
  BY DEF LinesHold, Undisturbed
<1> DEFINE age == AgeAt(Length(r), pos[r], k)
           m == CellsOfRow(config)
<1>1. age \in 1 .. Length(r) /\ m \in Nat \ {0}
  <2> DEFINE l == Length(r)
             p == pos[r]
  <2>1. k \in 0 .. l - 1 /\ l \in Nat /\ p \in 0 .. l - 1 /\ m \in Nat \ {0} /\ m <= l
    BY RowStandsInside
  <2> HIDE DEF l, p, m
  <2>2. AgeAt(l, p, k) \in 1 .. l
    BY <2>1, AgesGrow
  <2> QED BY <2>1, <2>2 DEF l, p
<1>2. mixed > 0 /\ Drained(config) - mixed = 0
  <2>1. config.depth \in Nat /\ NumRows(config) \in Nat
    BY RowFacts DEF Undisturbed
  <2>2. config.depth * NumRows(config) \in Nat
    BY <2>1
  <2> QED BY <2>2 DEF Drained, Total
<1>3. (Drained(config) - mixed) * m = 0
  <2>1. 0 * m = 0
    BY <1>1
  <2> QED BY <1>2, <2>1
<1> HIDE DEF age
<1>4. age > (Drained(config) - mixed) * m
  BY <1>1, <1>3
<1> QED BY <1>2, <1>4 DEF PlaceHolds, age

LEMMA EmptyHolds ==
  /\ IInv /\ mixed = 0 /\ blocks = 0
  /\ \A r \in Rows(config) : \A k \in DOMAIN lines[r] : lines[r][k] = Fill
  => LinesHold
<1> SUFFICES ASSUME IInv, mixed = 0, blocks = 0, Undisturbed,
                    NEW r \in Rows(config), NEW k \in DOMAIN lines[r], lines[r][k] = Fill
             PROVE  PlaceHolds(r, k)
  BY DEF LinesHold
<1> DEFINE age == AgeAt(Length(r), pos[r], k)
           m == CellsOfRow(config)
<1>1. age \in 1 .. Length(r) /\ m \in Nat \ {0}
  <2> DEFINE l == Length(r)
             p == pos[r]
  <2>1. k \in 0 .. l - 1 /\ l \in Nat /\ p \in 0 .. l - 1 /\ m \in Nat \ {0} /\ m <= l
    BY RowStandsInside
  <2> HIDE DEF l, p, m
  <2>2. AgeAt(l, p, k) \in 1 .. l
    BY <2>1, AgesGrow
  <2> QED BY <2>1, <2>2 DEF l, p
<1>2. 0 * m = 0
  BY <1>1
<1> HIDE DEF age
<1>3. age > blocks * m
  BY <1>1, <1>2
<1> QED BY <1>3 DEF PlaceHolds, age

LEMMA InitTimeInv == Init => TimeInv
<1> SUFFICES ASSUME Init PROVE TimeInv
  OBVIOUS
<1>1. IInv
  BY InitIInv
<1>2. PICK c \in Configs :
        /\ config = c /\ lines = [r \in Rows(c) |-> Resized(NoLine, Delay(c, r))]
        /\ blocks = 0 /\ sender = [config |-> c, first |-> 0] /\ sent = 0 /\ mixed = 0
  BY DEF Init
<1>3. SenderFits
  BY <1>2 DEF SenderFits
<1>4. \A r \in Rows(config) : \A k \in DOMAIN lines[r] : lines[r][k] = Fill
  BY <1>2 DEF Resized, NoLine
<1>5. LinesHold
  BY <1>1, <1>2, <1>4, EmptyHolds
<1> QED BY <1>1, <1>3, <1>5 DEF TimeInv

LEMMA DrainedIsNat ==
  ASSUME NEW c \in Configs
  PROVE  Drained(c) \in Nat
<1>1. c.depth \in Nat
  BY DeinterleaverAssumption DEF Configs
<1>2. NumRows(c) \in Nat
  BY <1>1 DEF NumRows
<1>3. c.depth * NumRows(c) \in Nat
  BY <1>1, <1>2
<1> QED BY <1>3 DEF Drained, Total

LEMMA NextTimeInv == TimeInv /\ [Next]_vars => TimeInv'
<1> SUFFICES ASSUME TimeInv, [Next]_vars PROVE TimeInv'
  OBVIOUS
<1>1. IInv'
  BY NextIInv DEF TimeInv
<1>2. (IInv /\ SenderFits /\ (InTune => mixed = Drained(config)) => LinesHold)'
  BY DisturbedHolds, PTL
<1>3. (/\ IInv /\ mixed = 0 /\ blocks = 0
       /\ \A r \in Rows(config) : \A k \in DOMAIN lines[r] : lines[r][k] = Fill
       => LinesHold)'
  BY EmptyHolds, PTL
<1>4. \A c \in Configs : Drained(c) \in Nat
  BY DrainedIsNat
<1>5. config \in Configs /\ SenderFits
  BY DEF TimeInv, IInv, LinesFit
<1>6. CASE BlockReceived
  <2>1. /\ config' = config /\ sender' = sender /\ sent' = sent + 1 /\ blocks' = blocks + 1
        /\ mixed' = CASE ~ InTune \/ Astray -> Drained(sender.config)
                      [] InTune /\ ~ Astray /\ mixed > 0 -> mixed - 1
                      [] OTHER -> mixed
    BY <1>6 DEF BlockReceived, Process
  <2>2. Drained(sender.config) \in Nat
    BY <1>4, <1>5 DEF SenderFits
  <2>3. SenderFits'
    <3>1. mixed' \in Nat
      BY <1>5, <2>1, <2>2 DEF SenderFits
    <3> QED BY <1>5, <2>1, <3>1 DEF SenderFits
  <2>4. CASE InTune /\ ~ Astray
    <3>1. Undisturbed' => Undisturbed
      BY <2>1, <2>4 DEF Undisturbed, EvenRows, Straight, NumRows
    <3>2. DOMAIN lines' = Rows(config) /\ \A r \in Rows(config) : DOMAIN lines'[r] = DOMAIN lines[r]
      BY <1>6 DEF BlockReceived, Process, TimeInv, IInv, LinesFit
    <3>3. Rows(config') = Rows(config)
      BY <2>1
    <3>4. LinesHold'
      BY <1>6, <3>1, <3>2, <3>3, BlockKeepsLines DEF LinesHold
    <3> QED BY <1>1, <2>3, <3>4 DEF TimeInv
  <2>5. CASE ~ (InTune /\ ~ Astray)
    <3>1. InTune' => mixed' = Drained(config)'
      <4>1. mixed' = Drained(sender.config)
        BY <2>1, <2>5
      <4>2. InTune' => config' = sender.config
        BY <2>1 DEF InTune
      <4>3. config' = sender.config => Drained(config)' = Drained(sender.config)
        BY <2>1
      <4> QED BY <4>1, <4>2, <4>3
    <3> QED BY <1>1, <1>2, <2>3, <3>1 DEF TimeInv
  <2> QED BY <2>4, <2>5
<1>7. CASE BlockLost
  <2>1. config' = config /\ sender' = sender /\ sent' = sent + 1 /\ blocks' = blocks
        /\ mixed' = Drained(config)
    BY <1>7 DEF BlockLost, lineVars
  <2>2. SenderFits' /\ mixed' = Drained(config)'
    BY <1>4, <1>5, <2>1 DEF SenderFits
  <2> QED BY <1>1, <1>2, <2>2 DEF TimeInv
<1>8. CASE SenderChanges
  <2>1. PICK c \in Configs : /\ sender' = [config |-> c, first |-> sent]
                             /\ mixed' = Drained(c) /\ config' = config /\ blocks' = blocks
                             /\ sent' = sent
    BY <1>8 DEF SenderChanges, lineVars
  <2>2. SenderFits' /\ (InTune' => mixed' = Drained(config)')
    BY <1>4, <1>5, <2>1 DEF SenderFits, InTune
  <2> QED BY <1>1, <1>2, <2>2 DEF TimeInv
<1>9. CASE SetConfig
  <2>1. PICK c \in Configs : /\ config' = c /\ mixed' = Drained(c)
                             /\ blocks' = (IF Straight(c) THEN blocks ELSE 0)
                             /\ sender' = sender /\ sent' = sent
    BY <1>9 DEF SetConfig, InitDelayLines
  <2>2. SenderFits' /\ mixed' = Drained(config)'
    BY <1>4, <1>5, <2>1 DEF SenderFits
  <2> QED BY <1>1, <1>2, <2>2 DEF TimeInv
<1>10. CASE Reconfigure \/ Reset
  <2>1. blocks' = 0 /\ mixed' = 0 /\ sender' = sender /\ sent' = sent
    BY <1>10 DEF Reconfigure, Reset
  <2>2. SenderFits'
    BY <1>5, <2>1 DEF SenderFits
  <2>3. \A r \in Rows(config)' : \A k \in DOMAIN lines'[r] : lines'[r][k] = Fill
    <3>1. CASE Reconfigure
      <4>1. PICK c \in Configs : InitDelayLines(c, NoRows, NoPos)
        BY <3>1 DEF Reconfigure
      <4>2. config' = c
            /\ lines' = [r \in Rows(c) |-> Resized(LineOf(NoRows, r), Delay(c, r))]
        BY <4>1 DEF InitDelayLines
      <4>3. \A r : LineOf(NoRows, r) = NoLine
        BY DEF LineOf, NoRows
      <4> QED BY <4>2, <4>3 DEF Resized, NoLine
    <3>2. CASE Reset
      <4>1. config' = config /\ DOMAIN lines = Rows(config)
            /\ lines' = [r \in DOMAIN lines |-> [k \in DOMAIN lines[r] |-> Fill]]
        BY <3>2 DEF Reset, TimeInv, IInv, LinesFit
      <4> QED BY <4>1
    <3> QED BY <1>10, <3>1, <3>2
  <2> QED BY <1>1, <1>3, <2>1, <2>2, <2>3 DEF TimeInv
<1>11. CASE UNCHANGED vars
  BY <1>1, <1>11 DEF TimeInv, SenderFits, LinesHold, Undisturbed, InTune, Astray, Length,
                     PlaceHolds, SentCell, RowCellsSent, AgeAt, vars, lineVars
<1> QED BY <1>6, <1>7, <1>8, <1>9, <1>10, <1>11 DEF Next

-----------------------------------------------------------------------------
(* What comes out.  The cell of row r that is q cells on in the block Total  *)
(* blocks ago, or the Blank sent before the first block.                     *)
LEMMA SentTotalAgo ==
  ASSUME SenderFits, config \in Configs, EvenRows(config), Total(config) \in Nat,
         NEW r \in 0 .. NumRows(config) - 1, NEW q \in 0 .. CellsOfRow(config) - 1,
         NEW x \in Int,
         x = RowCellsSent + q - Total(config) * CellsOfRow(config) + r * CellsPerBlock
  PROVE  IF sent - Total(config) >= sender.first
         THEN SentCell(r, x) = <<sent - Total(config), q * NumRows(config) + r>>
         ELSE SentCell(r, x) = Blank
<1> DEFINE m == CellsOfRow(config)
           T == Total(config)
           a == sent - sender.first
           from == x - r * CellsPerBlock
           g == a - T
<1>1. m \in Nat \ {0} /\ T \in Nat /\ a \in Nat /\ g \in Int /\ q \in 0 .. m - 1
  BY RowsOfBlock DEF SenderFits
<1>2. from = g * m + q
  <2>1. g * m = a * m - T * m /\ a * m \in Int /\ T * m \in Int
    <3> HIDE DEF a, T, m
    <3> QED BY <1>1
  <2>2. RowCellsSent = a * m
    BY DEF RowCellsSent
  <2>3. r * CellsPerBlock \in Int
    BY RowsOfBlock, DeinterleaverAssumption
  <2> DEFINE am == a * m
             tm == T * m
             gm == g * m
             y == r * CellsPerBlock
  <2>4. gm = am - tm /\ am \in Int /\ tm \in Int /\ y \in Int /\ x = am + q - tm + y
    BY <2>1, <2>2, <2>3
  <2>5. q \in Int
    BY <1>1
  <2> HIDE DEF am, tm, gm, y
  <2>6. x - y = gm + q
    BY <2>4, <2>5
  <2> QED BY <2>6 DEF gm, y
<1>3. CASE g >= 0
  <2>1. g \in Nat
    BY <1>1, <1>3
  <2>2. from \in Nat /\ from \div m = g /\ from % m = q
    <3> HIDE DEF from, g, m
    <3> QED BY <1>1, <1>2, <2>1, DivisionIsUnique
  <2>3. sender.first + g = sent - T /\ sent - T >= sender.first
    BY <1>1, <1>3 DEF SenderFits
  <2> QED BY <2>2, <2>3 DEF SentCell
<1>4. CASE g < 0
  <2>1. from < 0
    <3>1. g * m <= 0 - m
      <4>1. g + 1 <= 0 /\ (g + 1) * m = g * m + m
        <5> HIDE DEF g, m
        <5> QED BY <1>1, <1>4
      <4>2. (g + 1) * m <= 0
        <5> DEFINE h == g + 1
        <5>1. h \in Int /\ h <= 0
          BY <1>1, <4>1
        <5> HIDE DEF h, m
        <5>2. h * m <= 0
          BY <1>1, <5>1
        <5> QED BY <5>2 DEF h
      <4> DEFINE gm == g * m
      <4>3. gm \in Int /\ gm + m <= 0
        BY <1>1, <4>1, <4>2
      <4> HIDE DEF gm, m
      <4>4. gm <= 0 - m
        BY <1>1, <4>3
      <4> QED BY <4>4 DEF gm
    <3> DEFINE gm == g * m
    <3>2. gm \in Int /\ gm <= 0 - m /\ from = gm + q
      BY <1>1, <1>2, <3>1
    <3> HIDE DEF gm, m, from
    <3> QED BY <1>1, <3>2
  <2>2. ~ (sent - T >= sender.first)
    BY <1>1, <1>4 DEF SenderFits
  <2> QED BY <2>1, <2>2 DEF SentCell
<1> QED BY <1>1, <1>3, <1>4

(* A block that comes out owes nothing to a disturbance.                     *)
LEMMA BlockComesOut ==
  ASSUME TimeInv, BlockReceived, InTune, mixed' = 0, EvenRows(config), NEW i \in Places
  PROVE  \/ output'[i] = <<sent - Total(config), i>>
         \/ ~ Filled /\ output'[i] \in {Fill, Blank}
<1> DEFINE N == NumRows(config)
           m == CellsOfRow(config)
           T == Total(config)
           r == RowOf(config, i)
           q == i \div N
           C == CellsPerBlock
<1>1. config \in Configs /\ config.depth \in Nat /\ sender.config = config
  BY DeinterleaverAssumption DEF TimeInv, IInv, LinesFit, Configs, InTune
<1>2. /\ r \in 0 .. N - 1 /\ q \in 0 .. m - 1 /\ i = q * N + r
      /\ N \in Nat \ {0} /\ m \in Nat \ {0} /\ m * N = C /\ C \in Nat
  BY <1>1, PlaceOfRow, RowsOfBlock, DeinterleaverAssumption
<1>3. SenderFits /\ IInv
  BY DEF TimeInv
<1>4. T \in Nat
  <2>1. config.depth * N \in Nat
    BY <1>1, <1>2
  <2> QED BY <2>1 DEF Total
<1>5. RowCellsSent \in Int /\ RowCellsSent + q - T * m + r * C \in Int
  <2>1. sent - sender.first \in Int
    BY <1>3 DEF SenderFits
  <2>2. \A a, b \in Int : a * b \in Int
    OBVIOUS
  <2>3. RowCellsSent \in Int /\ T * m \in Int /\ r * C \in Int
    <3> HIDE DEF m, T, r, C
    <3> QED BY <1>2, <1>4, <2>1, <2>2 DEF m, RowCellsSent
  <2> HIDE DEF m, T, r, C, q
  <2> QED BY <1>2, <2>3
<1>6. output'[i] = IF Passes(i) THEN OnAir(i) ELSE Delayed(i)
  BY DEF BlockReceived, Process
<1> DEFINE late == <<sent - T, i>>
           due == RowCellsSent + q - T * m + r * C
<1>7. SentCell(r, due) = IF sent - T >= sender.first THEN late ELSE Blank
  <2> HIDE DEF due, q, r
  <2>1. due \in Int
        /\ due = RowCellsSent + q - Total(config) * CellsOfRow(config) + r * CellsPerBlock
    BY <1>5 DEF due
  <2>2. IF sent - T >= sender.first
        THEN SentCell(r, due) = <<sent - T, q * N + r>> ELSE SentCell(r, due) = Blank
    BY <1>1, <1>2, <1>3, <1>4, <2>1, SentTotalAgo
  <2> QED BY <1>2, <2>2
<1>8. CASE output'[i] = SentCell(r, due)
  BY <1>7, <1>8 DEF Filled
<1>9. CASE Straight(config)
  <2>1. N = 1 /\ T = 0 /\ Rows(config) = {}
    BY <1>9 DEF NumRows, Total, Rows
  <2>2. Passes(i)
    BY <2>1 DEF Passes, TimeInv, IInv, LinesFit
  <2>3. r = 0 /\ q = i /\ m = C
    BY <1>2, <2>1
  <2>4. InRow(config, r) = m
    BY <1>1, <1>2, InRowIsEven
  <2> DEFINE a == sent - sender.first
             k == a * m + q
  <2>5. a \in Nat /\ k \in Nat /\ k \div m = a /\ k % m = q
    <3>1. a \in Nat
      BY <1>3 DEF SenderFits
    <3> HIDE DEF a, m, q
    <3> QED BY <1>2, <3>1, DivisionIsUnique
  <2>6. OnAir(i) = <<sender.first + k \div m, (k % m) * N + r>>
    <3>1. OnAir(i) = IF k < 0 THEN Blank ELSE <<sender.first + k \div m, (k % m) * N + r>>
      BY <1>1, <1>9, <2>4 DEF OnAir
    <3> HIDE DEF k
    <3> QED BY <2>5, <3>1
  <2>7. sender.first + a = sent - T /\ q * N + r = i
    BY <1>2, <1>3, <2>1 DEF SenderFits
  <2>8. output'[i] = late
    BY <1>6, <2>2, <2>5, <2>6, <2>7
  <2> QED BY <2>8
<1>10. CASE ~ Straight(config)
  <2>1. ~ Astray /\ mixed \in {0, 1}
    <3>1. Drained(sender.config) \in Nat \ {0}
      BY <1>1, <1>4 DEF Drained
    <3> QED BY <1>3, <3>1 DEF BlockReceived, SenderFits
  <2>2. Undisturbed
    BY <1>10, <2>1 DEF Undisturbed
  <2>3. r \in Rows(config) /\ r \in DOMAIN lines
    BY <1>1, <1>2, <1>10 DEF Rows, NumRows, TimeInv, IInv, LinesFit
  <2> DEFINE l == Length(r)
             p == pos[r]
  <2>4. /\ l \in Nat /\ DOMAIN lines[r] = 0 .. l - 1
        /\ (r = config.depth => l = 0) /\ (r # config.depth => m <= l)
        /\ l + r * C = T * m
    BY <1>10, <2>3, RowFacts DEF TimeInv
  <2>5. CASE l = 0
    <3>1. Passes(i)
      BY <2>5 DEF Passes
    <3>2. OnAir(i) = SentCell(r, RowCellsSent + q)
      BY <1>1, <1>10, OnAirInRow
    <3>3. due = RowCellsSent + q
      <4> DEFINE tm == T * m
                 rc == r * C
      <4>1. tm = rc /\ tm \in Int /\ rc \in Int
        <5>1. \A a, b \in Int : a * b \in Int
          OBVIOUS
        <5>2. tm \in Int /\ rc \in Int
          <6> HIDE DEF T, m, r, C
          <6> QED BY <1>2, <1>4, <5>1
        <5> HIDE DEF tm, rc
        <5> QED BY <2>4, <2>5, <5>2 DEF tm, rc
      <4> HIDE DEF tm, rc, q, m
      <4>2. RowCellsSent + q - tm + rc = RowCellsSent + q
        BY <1>2, <1>5, <4>1
      <4> QED BY <4>2 DEF tm, rc
    <3> QED BY <1>6, <1>8, <3>1, <3>2, <3>3
  <2>6. CASE l # 0
    <3>1. p \in 0 .. l - 1 /\ m <= l
      <4>1. 0 \in DOMAIN lines[r]
        BY <2>4, <2>6
      <4> QED BY <2>2, <2>3, <4>1, RowStandsInside DEF TimeInv
    <3> DEFINE k == Turned(l, p + q)
    <3>2. k \in 0 .. l - 1 /\ AgeAt(l, p, k) = l - q /\ q \in Nat /\ q <= l
      <4> HIDE DEF l, p, q, m
      <4> QED BY <1>2, <2>4, <3>1 DEF Turned, AgeAt
    <3>3. Meets(i) = k
      <4> HIDE DEF q
      <4>1. PosAfter(r, q) = Turned(Length(r), pos[r] + q)
        BY <2>4, <3>1, <3>2, MeetsTurned
      <4> QED BY <4>1 DEF Meets, q
    <3>4. ~ Passes(i)
      BY <2>3, <2>6 DEF Passes
    <3>5. output'[i] = lines[r][k]
      BY <1>6, <2>4, <3>2, <3>3, <3>4 DEF Delayed
    <3>6. PlaceHolds(r, k)
      BY <2>2, <2>3, <2>4, <3>2 DEF TimeInv, LinesHold
    <3> DEFINE age == AgeAt(l, p, k)
    <3>7. \/ lines[r][k] = SentCell(r, RowCellsSent - age)
          \/ mixed > 0 /\ age > (Drained(config) - mixed) * m
          \/ mixed = 0 /\ lines[r][k] = Fill /\ age > blocks * m
      BY <3>6 DEF PlaceHolds
    <3> DEFINE tm == T * m
               rc == r * C
    <3>8. tm \in Int /\ rc \in Nat /\ l + rc = tm
      <4>1. \A a, b \in Nat : a * b \in Nat
        OBVIOUS
      <4>2. tm \in Int /\ rc \in Nat
        <5> HIDE DEF T, m, r, C
        <5> QED BY <1>2, <1>4, <4>1
      <4> QED BY <2>4, <4>2
    <3>9. CASE lines[r][k] = SentCell(r, RowCellsSent - age)
      <4>1. due = RowCellsSent - age
        <5> HIDE DEF l, q, age, tm, rc, m
        <5>1. RowCellsSent + q - tm + rc = RowCellsSent - age
          BY <1>5, <2>4, <3>2, <3>8 DEF age
        <5> QED BY <5>1 DEF tm, rc
      <4> QED BY <1>8, <3>5, <3>9, <4>1
    <3>10. CASE mixed > 0 /\ age > (Drained(config) - mixed) * m
      <4>1. Drained(config) - mixed = T
        BY <1>4, <2>1, <3>10 DEF Drained
      <4>2. age > tm
        BY <3>10, <4>1
      <4>3. age = l - q /\ q \in Nat /\ l \in Nat
        <5> HIDE DEF tm, rc, q, m, k
        <5> QED BY <2>4, <3>2
      <4>4. FALSE
        <5> HIDE DEF age, l, tm, rc, q, m, k, p
        <5> QED BY <3>8, <4>2, <4>3
      <4> QED BY <4>4
    <3>11. CASE mixed = 0 /\ lines[r][k] = Fill /\ age > blocks * m
      <4>1. blocks \in Nat
        BY <1>3 DEF SenderFits
      <4>2. blocks < T
        <5>1. blocks >= T => blocks * m >= tm
          <6> HIDE DEF m, T
          <6> QED BY <1>2, <1>4, <4>1
        <5> DEFINE bm == blocks * m
        <5>2. bm \in Int
          <6> HIDE DEF m
          <6> QED BY <1>2, <4>1
        <5>3. age > bm
          BY <3>11
        <5>4. ~ (bm >= tm)
          <6> HIDE DEF l, tm, rc, q, m, bm
          <6> QED BY <1>2, <2>4, <3>2, <3>8, <5>2, <5>3
        <5>5. ~ (blocks >= T)
          BY <5>1, <5>4
        <5> HIDE DEF T
        <5> QED BY <1>4, <4>1, <5>5
      <4>3. ~ Filled
        <5> HIDE DEF T
        <5> QED BY <1>4, <4>1, <4>2 DEF Filled, T
      <4> QED BY <3>5, <3>11, <4>3
    <3> QED BY <3>7, <3>9, <3>10, <3>11
  <2> QED BY <2>5, <2>6
<1> QED BY <1>9, <1>10

(* "The de-interleaver has the inverse delay pattern of the interleaver":    *)
(* for every depth and mode, every number of cells that every row takes the  *)
(* same share of, and every order of blocks, lost blocks, changed senders,   *)
(* set_config(), reset() and reconfigure().                                  *)
THEOREM InterleaverIsUndone == DatapathSpec => InverseOfInterleaver
<1> DEFINE Right ==
      BlockReceived /\ InTune /\ mixed' = 0 /\ EvenRows(config) =>
        \A i \in Places :
          \/ output'[i] = <<sent - Total(config), i>>
          \/ ~ Filled /\ output'[i] \in {Fill, Blank}
<1>1. DatapathInit => TimeInv
  BY InitTimeInv DEF DatapathInit
<1>2. [DatapathNext]_datapathVars => [Next]_vars
  BY DEF DatapathNext, datapathVars
<1>3. TimeInv /\ [DatapathNext]_datapathVars => TimeInv'
  BY <1>2, NextTimeInv
<1>4. TimeInv /\ [DatapathNext]_datapathVars => [Right]_vars
  BY BlockComesOut
<1> QED BY <1>1, <1>3, <1>4, PTL DEF DatapathSpec, InverseOfInterleaver

-----------------------------------------------------------------------------
(* lib/ofdm/cell_deinterleaver.cc, freq_deinterleaver.cc: powers of two      *)
PowerBy(f, n) == f = [i \in 0 .. n |-> IF i = 0 THEN 1 ELSE 2 * f[i - 1]]

LEMMA PowerExists ==
  ASSUME NEW n \in Nat
  PROVE  \E f : PowerBy(f, n)
<1> DEFINE step == [i \in 1 .. n |-> [v \in Nat |-> 2 * v]]
<1>1. step \in [1 .. n -> [Nat -> Nat]]
  OBVIOUS
<1>2. \A i \in 1 .. n, v \in Nat : step[i][v] = 2 * v
  OBVIOUS
<1> HIDE DEF step
<1>3. PICK f \in [0 .. n -> Nat] : f[0] = 1 /\ \A i \in 1 .. n : f[i] = step[i][f[i - 1]]
  <2> DEFINE D == Nat
             start == 1
  <2>1. start \in D /\ step \in [1 .. n -> [D -> D]]
    BY <1>1
  <2> HIDE DEF D, start
  <2>2. \E f \in [0 .. n -> D] : f[0] = start /\ \A i \in 1 .. n : f[i] = step[i][f[i - 1]]
    BY <2>1, IterationExists
  <2> QED BY <2>2 DEF D, start
<1>4. ASSUME NEW i \in 0 .. n PROVE f[i] = IF i = 0 THEN 1 ELSE 2 * f[i - 1]
  <2>1. i # 0 => f[i - 1] \in Nat /\ i \in 1 .. n
    OBVIOUS
  <2> QED BY <1>2, <1>3, <2>1
<1>5. PowerBy(f, n)
  BY <1>4 DEF PowerBy
<1> QED BY <1>5

LEMMA PowerChosen ==
  ASSUME NEW n \in Nat
  PROVE  \E f : PowerBy(f, n) /\ Tables!Power(n) = f[n]
<1> DEFINE f == CHOOSE g : PowerBy(g, n)
<1>1. PowerBy(f, n)
  BY PowerExists
<1>2. Tables!Power(n) = f[n]
  BY DEF Tables!Power, PowerBy
<1> HIDE DEF f
<1> QED BY <1>1, <1>2

LEMMA PowersAgree ==
  ASSUME NEW n \in Nat, NEW m \in Nat, n <= m, NEW f, NEW g, PowerBy(f, n), PowerBy(g, m)
  PROVE  f[n] = g[n] /\ f[n] \in Nat
<1> DEFINE S == {i \in Nat : i <= n => f[i] = g[i] /\ f[i] \in Nat}
<1>1. 0 \in S
  BY DEF PowerBy
<1>2. ASSUME NEW i \in 1 .. n, i - 1 \in S PROVE i \in S
  <2>1. f[i] = 2 * f[i - 1] /\ g[i] = 2 * g[i - 1]
    BY DEF PowerBy
  <2>2. f[i - 1] = g[i - 1] /\ f[i - 1] \in Nat
    BY <1>2
  <2> QED BY <2>1, <2>2
<1> HIDE DEF S
<1>3. n \in 0 .. n /\ 0 .. n \subseteq S
  BY <1>1, <1>2, Everywhere
<1> QED BY <1>3 DEF S

LEMMA PowerSteps ==
  /\ Tables!Power(0) = 1
  /\ \A n \in Nat : Tables!Power(n) \in Nat /\ Tables!Power(n + 1) = 2 * Tables!Power(n)
<1>1. Tables!Power(0) = 1
  <2>1. PICK f : PowerBy(f, 0) /\ Tables!Power(0) = f[0]
    BY PowerChosen
  <2> QED BY <2>1 DEF PowerBy
<1>2. ASSUME NEW n \in Nat
      PROVE  Tables!Power(n) \in Nat /\ Tables!Power(n + 1) = 2 * Tables!Power(n)
  <2>1. PICK f : PowerBy(f, n) /\ Tables!Power(n) = f[n]
    BY PowerChosen
  <2>2. PICK g : PowerBy(g, n + 1) /\ Tables!Power(n + 1) = g[n + 1]
    BY PowerChosen
  <2>3. f[n] = g[n] /\ f[n] \in Nat
    BY <2>1, <2>2, PowersAgree
  <2>4. g[n + 1] = 2 * g[n]
    BY <2>2 DEF PowerBy
  <2> QED BY <2>1, <2>2, <2>3, <2>4
<1> QED BY <1>1, <1>2

LEMMA PowerGrows ==
  ASSUME NEW n \in Nat
  PROVE  Tables!Power(n) \in Nat /\ Tables!Power(n) > n
<1> DEFINE S == {i \in Nat : Tables!Power(i) > i}
<1>1. 0 \in S
  BY PowerSteps
<1>2. ASSUME NEW i \in 1 .. n, i - 1 \in S PROVE i \in S
  <2>1. i - 1 \in Nat /\ (i - 1) + 1 = i
    OBVIOUS
  <2>2. Tables!Power(i - 1) \in Nat /\ Tables!Power(i) = 2 * Tables!Power(i - 1)
    BY <2>1, PowerSteps
  <2>3. Tables!Power(i - 1) > i - 1
    BY <1>2
  <2> QED BY <2>1, <2>2, <2>3
<1> HIDE DEF S
<1>3. n \in 0 .. n /\ 0 .. n \subseteq S
  BY <1>1, <1>2, Everywhere
<1> QED BY <1>3, PowerSteps DEF S

(* The width of a number of places has a power of two that holds them.       *)
LEMMA WidthHolds ==
  ASSUME NEW n \in Nat
  PROVE  Tables!Width(n) \in Nat /\ n <= Tables!Power(Tables!Width(n))
<1> DEFINE S == {b \in 1 .. n + 1 : Tables!Power(b) >= n}
<1>1. S \in SUBSET Nat
  OBVIOUS
<1>2. n + 1 \in S
  <2>1. n + 1 \in Nat
    OBVIOUS
  <2>2. Tables!Power(n + 1) \in Nat /\ Tables!Power(n + 1) > n + 1
    BY <2>1, PowerGrows
  <2> QED BY <2>2
<1> HIDE DEF S
<1>3. PICK b \in S : \A c \in S : b <= c
  BY <1>1, <1>2, Least
<1>4. b \in 1 .. n + 1 /\ Tables!Power(b) >= n
  BY <1>3 DEF S
<1>5. ASSUME NEW c \in 1 .. b - 1 PROVE Tables!Power(c) < n
  <2>1. c \in 1 .. n + 1 /\ ~ (b <= c) /\ c \in Nat
    BY <1>4
  <2>2. c \notin S
    BY <1>3, <2>1
  <2>3. Tables!Power(c) \in Nat
    BY <2>1, PowerSteps
  <2> QED BY <2>1, <2>2, <2>3 DEF S
<1> DEFINE Q(x) == Tables!Power(x) >= n /\ \A c \in 1 .. x - 1 : Tables!Power(c) < n
<1>6. \E x \in 1 .. n + 1 : Q(x)
  BY <1>4, <1>5
<1>7. Tables!Width(n) = CHOOSE x \in 1 .. n + 1 : Q(x)
  BY DEF Tables!Width
<1> HIDE DEF Q
<1>8. Tables!Width(n) \in 1 .. n + 1 /\ Q(Tables!Width(n))
  BY <1>6, <1>7
<1>9. Tables!Width(n) \in Nat
  BY <1>8
<1>10. Tables!Power(Tables!Width(n)) \in Nat
  BY <1>9, PowerSteps
<1> QED BY <1>8, <1>9, <1>10 DEF Q

-----------------------------------------------------------------------------
(* bit_reverse()                                                             *)
ShiftStates == [result : Nat, rest : Nat]

OneBit(v) == [result |-> (2 * v.result) + (v.rest % 2), rest |-> v.rest \div 2]

ShiftsBy(f, x, n) ==
  f = [i \in 0 .. n |-> IF i = 0 THEN [result |-> 0, rest |-> x]
                        ELSE [result |-> (2 * f[i - 1].result) + (f[i - 1].rest % 2),
                              rest |-> f[i - 1].rest \div 2]]

LEMMA OneBitTaken ==
  ASSUME NEW v \in ShiftStates
  PROVE  OneBit(v) \in ShiftStates
<1>1. v.result \in Nat /\ v.rest \in Nat
  BY DEF ShiftStates
<1>2. \A a, b \in Nat : (2 * a) + (b % 2) \in Nat /\ b \div 2 \in Nat
  OBVIOUS
<1> QED BY <1>1, <1>2 DEF OneBit, ShiftStates

LEMMA OneBitParts ==
  ASSUME NEW v, NEW w, w = OneBit(v)
  PROVE  w.result = (2 * v.result) + (v.rest % 2) /\ w.rest = v.rest \div 2
BY Zenon DEF OneBit

LEMMA ShiftsRun ==
  ASSUME NEW x \in Nat, NEW n \in Nat
  PROVE  /\ Tables!Shifts(x, n) \in [0 .. n -> ShiftStates]
         /\ Tables!Shifts(x, n)[0] = [result |-> 0, rest |-> x]
         /\ \A i \in 1 .. n : Tables!Shifts(x, n)[i] = OneBit(Tables!Shifts(x, n)[i - 1])
<1> DEFINE step == [i \in 1 .. n |-> [v \in ShiftStates |-> OneBit(v)]]
           D == ShiftStates
           start == [result |-> 0, rest |-> x]
<1>1. step \in [1 .. n -> [D -> D]] /\ start \in D
  BY OneBitTaken DEF ShiftStates
<1>2. \A i \in 1 .. n, v \in D : step[i][v] = OneBit(v)
  OBVIOUS
<1> HIDE DEF step, D, start
<1>3. PICK g \in [0 .. n -> D] : g[0] = start /\ \A i \in 1 .. n : g[i] = step[i][g[i - 1]]
  BY <1>1, IterationExists
<1>4. \A i \in 1 .. n : g[i] = OneBit(g[i - 1])
  <2>1. \A i \in 1 .. n : g[i - 1] \in D
    BY <1>3
  <2> QED BY <1>2, <1>3, <2>1
<1>5. ShiftsBy(g, x, n)
  <2>1. \A i \in 0 .. n : i # 0 => i \in 1 .. n
    OBVIOUS
  <2>2. \A i \in 0 .. n :
          g[i] = IF i = 0 THEN start ELSE OneBit(g[i - 1])
    BY <1>3, <1>4, <2>1
  <2>3. g = [i \in 0 .. n |-> IF i = 0 THEN start ELSE OneBit(g[i - 1])]
    BY <1>3, <2>2
  <2> QED BY <2>3 DEF ShiftsBy, OneBit, start
<1> DEFINE f == CHOOSE h : ShiftsBy(h, x, n)
<1>6. ShiftsBy(f, x, n)
  BY <1>5
<1>7. Tables!Shifts(x, n) = f
  BY DEF Tables!Shifts, ShiftsBy
<1> HIDE DEF f
<1>8. f[0] = start /\ \A i \in 1 .. n : f[i] = OneBit(f[i - 1])
  BY <1>6 DEF ShiftsBy, start, OneBit
<1> DEFINE S == {i \in Nat : i <= n => f[i] \in ShiftStates}
<1>9. 0 \in S
  BY <1>1, <1>8 DEF D
<1>10. ASSUME NEW i \in 1 .. n, i - 1 \in S PROVE i \in S
  <2>1. f[i - 1] \in ShiftStates
    BY <1>10
  <2>2. f[i] \in ShiftStates
    BY <1>8, <2>1, OneBitTaken
  <2> QED BY <2>2
<1> HIDE DEF S
<1>11. 0 .. n \subseteq S
  BY <1>9, <1>10, Everywhere
<1>12. \A i \in 0 .. n : f[i] \in ShiftStates
  BY <1>11 DEF S
<1>13. f \in [0 .. n -> ShiftStates]
  <2>1. f = [i \in 0 .. n |-> f[i]]
    BY <1>6 DEF ShiftsBy
  <2> QED BY <1>12, <2>1
<1> QED BY <1>7, <1>8, <1>13 DEF start

(* A number below the power leaves no rest, and its reversal is below too.   *)
LEMMA ShiftsStayBelow ==
  ASSUME NEW n \in Nat, NEW x \in Nat, x < Tables!Power(n)
  PROVE  /\ Tables!Shifts(x, n)[n].rest = 0
         /\ Tables!Reversed(x, n) \in Nat
         /\ Tables!Reversed(x, n) < Tables!Power(n)
<1> DEFINE f == Tables!Shifts(x, n)
           S == {i \in Nat : i <= n => /\ f[i].rest < Tables!Power(n - i)
                                       /\ f[i].result < Tables!Power(i)}
<1>1. /\ f \in [0 .. n -> ShiftStates] /\ f[0] = [result |-> 0, rest |-> x]
      /\ \A i \in 1 .. n : f[i] = OneBit(f[i - 1])
  BY ShiftsRun
<1> HIDE DEF f
<1>2. 0 \in S
  <2>1. f[0].rest = x /\ f[0].result = 0 /\ n - 0 = n
    BY <1>1
  <2> QED BY <2>1, PowerSteps
<1>3. ASSUME NEW i \in 1 .. n, i - 1 \in S PROVE i \in S
  <2> DEFINE a == f[i - 1].result
             b == f[i - 1].rest
  <2>1. i - 1 \in 0 .. n /\ i - 1 \in Nat /\ n - i \in Nat
        /\ (i - 1) + 1 = i /\ (n - i) + 1 = n - (i - 1)
    OBVIOUS
  <2>2. a \in Nat /\ b \in Nat
    <3>1. f[i - 1] \in ShiftStates
      BY <1>1, <2>1
    <3> QED BY <3>1 DEF ShiftStates
  <2>3. f[i].result = (2 * a) + (b % 2) /\ f[i].rest = b \div 2
    BY <1>1, OneBitParts
  <2>4. a < Tables!Power(i - 1) /\ b < Tables!Power(n - (i - 1))
    BY <1>3
  <2>5. /\ Tables!Power(i) = 2 * Tables!Power(i - 1)
        /\ Tables!Power(n - (i - 1)) = 2 * Tables!Power(n - i)
        /\ Tables!Power(i - 1) \in Nat /\ Tables!Power(n - i) \in Nat
    BY <2>1, PowerSteps
  <2> HIDE DEF a, b
  <2>6. f[i].result < Tables!Power(i) /\ f[i].rest < Tables!Power(n - i)
    BY <2>2, <2>3, <2>4, <2>5
  <2> QED BY <2>6
<1> HIDE DEF S
<1>4. n \in 0 .. n /\ 0 .. n \subseteq S
  BY <1>2, <1>3, Everywhere
<1>5. f[n].rest < Tables!Power(n - n) /\ f[n].result < Tables!Power(n)
  BY <1>4 DEF S
<1>6. n - n = 0 /\ f[n] \in ShiftStates
  BY <1>1, <1>4
<1>7. f[n].rest < 1 /\ f[n].rest \in Nat /\ f[n].result \in Nat
  BY <1>5, <1>6, PowerSteps DEF ShiftStates
<1> QED BY <1>5, <1>7 DEF Tables!Reversed, f

(* Reversing twice gives the number back: the second loop runs through the   *)
(* states of the first backwards, with rest and result changing places.      *)
LEMMA ReversedTwice ==
  ASSUME NEW n \in Nat, NEW x \in Nat, x < Tables!Power(n)
  PROVE  Tables!Reversed(Tables!Reversed(x, n), n) = x
<1> DEFINE f == Tables!Shifts(x, n)
           y == f[n].result
           g == Tables!Shifts(y, n)
           S == {j \in Nat : j <= n => g[j].rest = f[n - j].result /\ g[j].result = f[n - j].rest}
<1>1. /\ f \in [0 .. n -> ShiftStates] /\ f[0] = [result |-> 0, rest |-> x]
      /\ \A i \in 1 .. n : f[i] = OneBit(f[i - 1])
  BY ShiftsRun
<1>2. f[n].rest = 0 /\ y \in Nat /\ y = Tables!Reversed(x, n)
  BY ShiftsStayBelow DEF Tables!Reversed
<1> HIDE DEF f, y
<1>3. /\ g[0] = [result |-> 0, rest |-> y]
      /\ \A i \in 1 .. n : g[i] = OneBit(g[i - 1])
  BY <1>2, ShiftsRun
<1> HIDE DEF g
<1>4. 0 \in S
  <2>1. g[0].rest = y /\ g[0].result = 0 /\ n - 0 = n
    BY <1>3
  <2> QED BY <1>2, <2>1 DEF y
<1>5. ASSUME NEW j \in 1 .. n, j - 1 \in S PROVE j \in S
  <2> DEFINE i == n - j + 1
             a == f[i - 1].result
             b == f[i - 1].rest
  <2>1. i \in 1 .. n /\ i - 1 \in 0 .. n /\ i = n - (j - 1) /\ i - 1 = n - j
    OBVIOUS
  <2>2. a \in Nat /\ b \in Nat
    <3>1. f[i - 1] \in ShiftStates
      BY <1>1, <2>1
    <3> QED BY <3>1 DEF ShiftStates
  <2>3. f[i].result = (2 * a) + (b % 2) /\ f[i].rest = b \div 2
    BY <1>1, <2>1, OneBitParts
  <2>4. g[j - 1].rest = f[i].result /\ g[j - 1].result = f[i].rest
    BY <1>5, <2>1
  <2>5. g[j].result = (2 * (b \div 2)) + (((2 * a) + (b % 2)) % 2)
        /\ g[j].rest = ((2 * a) + (b % 2)) \div 2
    <3>1. /\ g[j].result = (2 * g[j - 1].result) + (g[j - 1].rest % 2)
          /\ g[j].rest = g[j - 1].rest \div 2
      BY <1>3, OneBitParts
    <3> QED BY <2>3, <2>4, <3>1, Zenon
  <2>6. \A u, v \in Nat : /\ (2 * (v \div 2)) + (((2 * u) + (v % 2)) % 2) = v
                          /\ ((2 * u) + (v % 2)) \div 2 = u
    OBVIOUS
  <2>7. g[j].result = b /\ g[j].rest = a
    BY <2>2, <2>5, <2>6
  <2> QED BY <2>1, <2>7
<1> HIDE DEF S
<1>6. n \in 0 .. n /\ 0 .. n \subseteq S
  BY <1>4, <1>5, Everywhere
<1>7. n - n = 0
  OBVIOUS
<1>8. g[n].result = x
  BY <1>1, <1>6, <1>7 DEF S
<1> QED BY <1>2, <1>8 DEF Tables!Reversed, g

-----------------------------------------------------------------------------
(* compute_permutation().  Where place i goes, and comes from.               *)
Mirrored(n, i) == Tables!Reversed(i, Tables!Width(n))

Partner(n, i) == IF Mirrored(n, i) < n THEN Mirrored(n, i) ELSE i

LEMMA MirrorFacts ==
  ASSUME NEW n \in Nat, NEW i \in 0 .. n - 1
  PROVE  /\ Mirrored(n, i) \in Nat
         /\ Mirrored(n, i) < Tables!Power(Tables!Width(n))
         /\ Mirrored(n, Mirrored(n, i)) = i
<1> DEFINE w == Tables!Width(n)
<1>1. w \in Nat /\ n <= Tables!Power(w)
  BY WidthHolds
<1>2. Tables!Power(w) \in Nat
  BY <1>1, PowerSteps
<1>3. i \in Nat /\ i < Tables!Power(w)
  BY <1>1, <1>2
<1> HIDE DEF w
<1>4. /\ Tables!Reversed(i, w) \in Nat /\ Tables!Reversed(i, w) < Tables!Power(w)
      /\ Tables!Reversed(Tables!Reversed(i, w), w) = i
  BY <1>1, <1>3, ShiftsStayBelow, ReversedTwice
<1> QED BY <1>4 DEF Mirrored, w

LEMMA PartnerFacts ==
  ASSUME NEW n \in Nat, NEW i \in 0 .. n - 1
  PROVE  Partner(n, i) \in 0 .. n - 1 /\ Partner(n, Partner(n, i)) = i
<1>1. Mirrored(n, i) \in Nat /\ Mirrored(n, Mirrored(n, i)) = i
  BY MirrorFacts
<1>2. CASE Mirrored(n, i) < n
  BY <1>1, <1>2 DEF Partner
<1>3. CASE ~ (Mirrored(n, i) < n)
  BY <1>1, <1>3 DEF Partner
<1> QED BY <1>2, <1>3

(* The rows of a table.                                                      *)
IsTable(table, S, g) == \A p : p \in table <=> \E i \in S : p = <<i, g[i]>>

LEMMA RowsOfTable ==
  ASSUME NEW S, NEW g, NEW table, IsTable(table, S, g)
  PROVE  /\ \A p \in table : \E i \in S : p[1] = i /\ p[2] = g[i]
         /\ \A i \in S : \E p \in table : p[1] = i /\ p[2] = g[i]
<1>1. \A p \in table : \E i \in S : p[1] = i /\ p[2] = g[i]
  BY DEF IsTable
<1>2. ASSUME NEW i \in S PROVE \E p \in table : p[1] = i /\ p[2] = g[i]
  <2>1. <<i, g[i]>> \in table
    BY DEF IsTable
  <2> QED BY <2>1
<1> QED BY <1>1, <1>2

(* Places with their reversal in range come in pairs, so the same places are *)
(* left over on both sides.                                                  *)
LEMMA PairsOf ==
  ASSUME NEW n \in Nat
  PROVE  /\ Tables!Pairs(n) = {<<i, Mirrored(n, i)>> : i \in {j \in 0 .. n - 1 : Mirrored(n, j) < n}}
         /\ \A k \in {1, 2} : Tables!LeftOver(n, k)
                                = {j \in 0 .. n - 1 : ~ (Mirrored(n, j) < n)}
<1> DEFINE A == {j \in 0 .. n - 1 : Mirrored(n, j) < n}
           P == {<<i, Mirrored(n, i)>> : i \in A}
<1>1. Tables!Pairs(n) = P
  BY DEF Tables!Pairs, Mirrored
<1>2. \A i \in A : Mirrored(n, i) \in A /\ Mirrored(n, Mirrored(n, i)) = i
  <2> SUFFICES ASSUME NEW i \in A
               PROVE  Mirrored(n, i) \in A /\ Mirrored(n, Mirrored(n, i)) = i
    OBVIOUS
  <2>1. Mirrored(n, i) \in Nat /\ Mirrored(n, Mirrored(n, i)) = i /\ Mirrored(n, i) < n
    BY MirrorFacts
  <2> QED BY <2>1
<1>3. {p[1] : p \in P} = A
  <2> DEFINE g == [i \in A |-> Mirrored(n, i)]
  <2>1. IsTable(P, A, g)
    BY DEF IsTable
  <2> HIDE DEF P, A, g
  <2>2. /\ \A p \in P : \E i \in A : p[1] = i /\ p[2] = g[i]
        /\ \A i \in A : \E p \in P : p[1] = i /\ p[2] = g[i]
    BY <2>1, RowsOfTable
  <2> QED BY <2>2
<1>4. {p[2] : p \in P} = A
  <2>1. \A p \in P : p[2] \in A
    BY <1>2
  <2>2. \A j \in A : \E p \in P : p[2] = j
    <3> SUFFICES ASSUME NEW j \in A PROVE \E p \in P : p[2] = j
      OBVIOUS
    <3>1. <<Mirrored(n, j), Mirrored(n, Mirrored(n, j))>> \in P
      BY <1>2
    <3>2. Mirrored(n, Mirrored(n, j)) = j
      BY <1>2
    <3> QED BY <3>1, <3>2
  <2> HIDE DEF P, A
  <2> QED BY <2>1, <2>2
<1>5. Tables!LeftOver(n, 1) = (0 .. n - 1) \ A /\ Tables!LeftOver(n, 2) = (0 .. n - 1) \ A
  BY <1>1, <1>3, <1>4 DEF Tables!LeftOver
<1> QED BY <1>1, <1>5

(* The k-th place that is left over is another than the next.                *)
LEMMA RanksDiffer ==
  ASSUME NEW L, IsFiniteSet(L), L \subseteq Nat, NEW x \in L, NEW y \in L,
         Cardinality({z \in L : z < x}) = Cardinality({z \in L : z < y})
  PROVE  x = y
<1>0. \A z \in L : z \in Nat
  OBVIOUS
<1>1. ASSUME NEW a \in L, NEW b \in L, a < b,
             Cardinality({z \in L : z < a}) = Cardinality({z \in L : z < b})
      PROVE  FALSE
  <2> DEFINE A == {z \in L : z < a}
             B == {z \in L : z < b}
  <2>1. A \in SUBSET B
    <3> SUFFICES ASSUME NEW z \in A PROVE z \in B
      BY Zenon
    <3>1. z \in L /\ z < a
      OBVIOUS
    <3>2. z < b
      BY <1>0, <1>1, <3>1
    <3> QED BY <3>1, <3>2
  <2>2. B \in SUBSET L
    OBVIOUS
  <2>3. IsFiniteSet(B)
    BY <2>2, FS_Subset
  <2>4. Cardinality(A) = Cardinality(B)
    BY <1>1
  <2>5. a \in B /\ a \notin A
    BY <1>1
  <2> HIDE DEF A, B
  <2>6. A = B
    BY <2>1, <2>3, <2>4, FS_Subset
  <2> QED BY <2>5, <2>6
<1>2. x \in Nat /\ y \in Nat
  OBVIOUS
<1> QED BY <1>1, <1>2

LEMMA ForwardIs ==
  ASSUME NEW n \in Nat
  PROVE  Tables!Forward(n) = {<<i, Partner(n, i)>> : i \in 0 .. n - 1}
<1> DEFINE L == {j \in 0 .. n - 1 : ~ (Mirrored(n, j) < n)}
           A == {j \in 0 .. n - 1 : Mirrored(n, j) < n}
           rank(x) == Cardinality({y \in L : y < x})
<1>1. /\ Tables!Pairs(n) = {<<i, Mirrored(n, i)>> : i \in A}
      /\ Tables!LeftOver(n, 1) = L /\ Tables!LeftOver(n, 2) = L
  BY PairsOf
<1>2. \A S : Tables!Cardinality(S) = Cardinality(S)
  BY DEF Tables!Cardinality, Cardinality
<1>3. Tables!Forward(n)
        = Tables!Pairs(n) \union {p \in L \X L : rank(p[1]) = rank(p[2])}
  BY <1>1, <1>2 DEF Tables!Forward
<1>4. IsFiniteSet(L) /\ L \subseteq Nat
  <2>1. IsFiniteSet(0 .. n - 1)
    BY FS_Interval
  <2> QED BY <2>1, FS_Subset
<1>5. \A x, y \in L : rank(x) = rank(y) => x = y
  <2> HIDE DEF L
  <2> QED BY <1>4, RanksDiffer
<1> HIDE DEF rank
<1>6. {p \in L \X L : rank(p[1]) = rank(p[2])} = {<<i, i>> : i \in L}
  <2>1. \A p \in L \X L : rank(p[1]) = rank(p[2]) => p[1] = p[2]
    BY <1>5
  <2>2. \A p \in L \X L : p = <<p[1], p[2]>> /\ p[1] \in L
    OBVIOUS
  <2> HIDE DEF L
  <2> QED BY <2>1, <2>2
<1>7. \A i \in A : Partner(n, i) = Mirrored(n, i)
  BY DEF Partner
<1>8. \A i \in L : Partner(n, i) = i
  BY DEF Partner
<1>9. 0 .. n - 1 = A \union L
  OBVIOUS
<1> HIDE DEF A, L
<1> QED BY <1>1, <1>3, <1>6, <1>7, <1>8, <1>9

LEMMA InvertedIs ==
  ASSUME NEW n \in Nat
  PROVE  Tables!Inverted(Tables!Forward(n)) = {<<i, Partner(n, i)>> : i \in 0 .. n - 1}
<1> DEFINE S == 0 .. n - 1
           F == {<<i, Partner(n, i)>> : i \in S}
<1>1. Tables!Forward(n) = F
  BY ForwardIs
<1>2. \A i \in S : Partner(n, i) \in S /\ Partner(n, Partner(n, i)) = i
  BY PartnerFacts
<1>3. Tables!Inverted(F) = {<<p[2], p[1]>> : p \in F}
  BY DEF Tables!Inverted
<1> HIDE DEF S
<1>4. {<<p[2], p[1]>> : p \in F} = {<<Partner(n, i), i>> : i \in S}
  <2> DEFINE g == [i \in S |-> Partner(n, i)]
  <2>1. IsTable(F, S, g)
    BY DEF IsTable
  <2>2. {<<g[i], i>> : i \in S} = {<<Partner(n, i), i>> : i \in S}
    OBVIOUS
  <2> HIDE DEF F, g
  <2>3. /\ \A p \in F : \E i \in S : p[1] = i /\ p[2] = g[i]
        /\ \A i \in S : \E p \in F : p[1] = i /\ p[2] = g[i]
    BY <2>1, RowsOfTable
  <2>4. {<<p[2], p[1]>> : p \in F} = {<<g[i], i>> : i \in S}
    BY <2>3
  <2> QED BY <2>2, <2>4
<1>5. {<<Partner(n, i), i>> : i \in S} \subseteq F
  BY <1>2
<1>6. F \subseteq {<<Partner(n, i), i>> : i \in S}
  <2> SUFFICES ASSUME NEW i \in S
               PROVE  <<i, Partner(n, i)>> \in {<<Partner(n, j), j>> : j \in S}
    OBVIOUS
  <2>1. Partner(n, i) \in S /\ Partner(n, Partner(n, i)) = i
    BY <1>2
  <2> QED BY <2>1
<1>7. Tables!Inverted(Tables!Forward(n)) = F
  <2> HIDE DEF F
  <2> QED BY <1>1, <1>3, <1>4, <1>5, <1>6
<1> QED BY <1>7 DEF S

(* A table of a function with an inverse is one to one.                      *)
LEMMA TableOneToOne ==
  ASSUME NEW n \in Nat, NEW f, NEW table,
         \A i \in 0 .. n - 1 : f[i] \in 0 .. n - 1 /\ f[f[i]] = i,
         table = {<<i, f[i]>> : i \in 0 .. n - 1}
  PROVE  Tables!OneToOne(table, n) /\ Tables!Cardinality(table) = n
<1> DEFINE S == 0 .. n - 1
           h == [i \in S |-> <<i, f[i]>>]
<1>1. IsFiniteSet(S) /\ Cardinality(S) = n
  BY FS_Interval
<1>2. \A i \in S : f[i] \in S /\ f[f[i]] = i
  OBVIOUS
<1> HIDE DEF S
<1>3. h \in [S -> table] /\ IsInjective(h) /\ \A p \in table : \E i \in S : h[i] = p
  BY DEF IsInjective, S
<1>4. ExistsBijection(S, table)
  <2> HIDE DEF h
  <2> QED BY <1>3 DEF ExistsBijection, Bijection, Injection, Surjection
<1>5. Cardinality(table) = n
  BY <1>1, <1>4, FS_Bijection
<1>6. Tables!Cardinality(table) = n
  BY <1>5 DEF Tables!Cardinality, Cardinality
<1>7. table = {<<i, f[i]>> : i \in S}
  BY DEF S
<1> HIDE DEF h
<1>8. /\ \A p \in table : \E i \in S : p[1] = i /\ p[2] = f[i]
      /\ \A i \in S : \E p \in table : p[1] = i /\ p[2] = f[i]
  <2>1. IsTable(table, S, f)
    BY <1>7 DEF IsTable
  <2> QED BY <2>1, RowsOfTable
<1>9. {p[1] : p \in table} = S
  BY <1>8
<1>10. {p[2] : p \in table} = S
  <2>1. {p[2] : p \in table} = {f[i] : i \in S}
    BY <1>8
  <2>2. {f[i] : i \in S} = S
    BY <1>2
  <2> QED BY <2>1, <2>2
<1>11. \A k \in 1 .. 2 : {p[k] : p \in table} = S
  <2>1. \A k \in 1 .. 2 : k = 1 \/ k = 2
    OBVIOUS
  <2> QED BY <1>9, <1>10, <2>1
<1> QED BY <1>6, <1>11 DEF Tables!OneToOne, S

(* Where the number of places is a power of two, every reversal is in range, *)
(* and the positions that the library names are the reversals.               *)
LEMMA PositionsAreForward ==
  ASSUME NEW n \in Nat, n = Tables!Power(Tables!Width(n))
  PROVE  Tables!CellPositions(n) = Tables!Forward(n)
<1> DEFINE S == 0 .. n - 1
           R(i) == Tables!Reversed(i, Tables!Width(n))
           taken == {i \in 0 .. (Tables!Power(Tables!Width(n)) - 1) : R(i) < n}
<1>1. \A i \in S : Mirrored(n, i) < n /\ Mirrored(n, i) = R(i)
  BY MirrorFacts DEF Mirrored
<1>2. taken = S
  BY <1>1
<1>3. Tables!CellPositions(n)
        = {<<Tables!Cardinality({j \in taken : j < i}), R(i)>> : i \in taken}
  BY DEF Tables!CellPositions
<1>4. \A i \in S : Tables!Cardinality({j \in S : j < i}) = i
  <2> SUFFICES ASSUME NEW i \in S PROVE Tables!Cardinality({j \in S : j < i}) = i
    OBVIOUS
  <2>1. {j \in S : j < i} = 0 .. i - 1 /\ i \in Nat
    OBVIOUS
  <2>2. Cardinality(0 .. i - 1) = i
    BY <2>1, FS_Interval
  <2> QED BY <2>1, <2>2 DEF Tables!Cardinality, Cardinality
<1>5. \A i \in S : Partner(n, i) = R(i)
  BY <1>1 DEF Partner
<1> HIDE DEF R, taken, S
<1>6. Tables!CellPositions(n) = {<<i, Partner(n, i)>> : i \in S}
  BY <1>2, <1>3, <1>4, <1>5
<1> QED BY <1>6, ForwardIs DEF S

(* Every table in use is the inverse of the forward one for its size.        *)
TableFor(table, n) == n \in Nat /\ table = Tables!Inverted(Tables!Forward(n))

TablesInv ==
  /\ \E n \in Nat : TableFor(cells, n)
  /\ TableFor(carriers.table, carriers.count)
  /\ Tables!EachPlaceOnce

LEMMA TableForSize ==
  ASSUME NEW n \in Nat, NEW table, TableFor(table, n)
  PROVE  Tables!OneToOne(table, n) /\ Tables!Cardinality(table) = n
<1> DEFINE f == [i \in 0 .. n - 1 |-> Partner(n, i)]
<1>1. table = {<<i, Partner(n, i)>> : i \in 0 .. n - 1}
  BY InvertedIs DEF TableFor
<1>2. table = {<<i, f[i]>> : i \in 0 .. n - 1}
  BY <1>1
<1>3. \A i \in 0 .. n - 1 : f[i] \in 0 .. n - 1 /\ f[f[i]] = i
  BY PartnerFacts
<1> HIDE DEF f
<1> QED BY <1>2, <1>3, TableOneToOne

LEMMA IdentityOneToOne ==
  ASSUME NEW n \in Nat
  PROVE  Tables!OneToOne(Tables!Identity(n), n)
<1> DEFINE f == [i \in 0 .. n - 1 |-> i]
           table == Tables!Identity(n)
<1>1. table = {<<i, f[i]>> : i \in 0 .. n - 1}
  BY DEF Tables!Identity
<1>2. \A i \in 0 .. n - 1 : f[i] \in 0 .. n - 1 /\ f[f[i]] = i
  OBVIOUS
<1> HIDE DEF f, table
<1>3. Tables!OneToOne(table, n)
  BY <1>1, <1>2, TableOneToOne
<1> QED BY <1>3 DEF table

(* What a table says of cells or carriers is what was asked.                 *)
LEMMA GatheredRight ==
  ASSUME NEW n \in Nat, NEW kind \in {"cells", "carriers"}, NEW table, TableFor(table, n),
         last' = [kind |-> kind, table |-> table, size |-> n]
  PROVE  Tables!EachPlaceOnce'
<1>1. last'.kind = kind /\ last'.table = table /\ last'.size = n
  OBVIOUS
<1>2. Tables!OneToOne(table, n)
  BY TableForSize
<1>3. table = Tables!Inverted(Tables!Forward(n))
  BY DEF TableFor
<1>4. n = Tables!Power(Tables!Width(n)) => table = Tables!Inverted(Tables!CellPositions(n))
  BY <1>3, PositionsAreForward
<1> QED BY <1>1, <1>2, <1>3, <1>4 DEF Tables!EachPlaceOnce

LEMMA TablesStep == TablesInv /\ Tables!Next => TablesInv'
<1> SUFFICES ASSUME TablesInv, Tables!Next PROVE TablesInv'
  OBVIOUS
<1>1. Sizes \subseteq Nat /\ Carriers \subseteq Nat
  BY TablesAssumption DEF TablesAssumption
<1>2. CASE Tables!SetCells
  <2>1. PICK n \in Sizes : cells' = Tables!Inverted(Tables!Forward(n))
                           /\ UNCHANGED <<carriers, last>>
    BY <1>2 DEF Tables!SetCells
  <2>2. TableFor(cells, n)'
    BY <1>1, <2>1 DEF TableFor
  <2> QED BY <1>1, <2>1, <2>2 DEF TablesInv, TableFor, Tables!EachPlaceOnce
<1>3. CASE Tables!CellsInPlace
  <2>1. PICK n \in Sizes \ {0} :
          /\ cells' = IF n = Tables!Cardinality(cells) THEN cells
                      ELSE Tables!Inverted(Tables!Forward(n))
          /\ last' = [kind |-> "cells", table |-> cells', size |-> n]
          /\ carriers' = carriers
    BY <1>3 DEF Tables!CellsInPlace, Tables!Gather
  <2>2. PICK k \in Nat : TableFor(cells, k)
    BY DEF TablesInv
  <2>3. Tables!Cardinality(cells) = k
    BY <2>2, TableForSize
  <2>4. TableFor(cells', n) /\ n \in Nat
    BY <1>1, <2>1, <2>2, <2>3 DEF TableFor
  <2>5. Tables!EachPlaceOnce'
    BY <2>1, <2>4, GatheredRight
  <2> QED BY <2>1, <2>4, <2>5 DEF TablesInv, TableFor
<1>4. CASE Tables!CellsCopied
  <2>1. PICK n \in Sizes \ {0} :
          /\ IF n = Tables!Cardinality(cells)
             THEN last' = [kind |-> "cells", table |-> cells, size |-> n]
             ELSE last' = [kind |-> "copy", table |-> Tables!Identity(n), size |-> n]
          /\ cells' = cells /\ carriers' = carriers
    BY <1>4 DEF Tables!CellsCopied, Tables!Gather
  <2>2. PICK k \in Nat : TableFor(cells, k)
    BY DEF TablesInv
  <2>3. Tables!Cardinality(cells) = k /\ n \in Nat
    BY <1>1, <2>2, TableForSize
  <2>4. CASE n = k
    BY <2>1, <2>2, <2>3, <2>4, GatheredRight DEF TablesInv, TableFor
  <2>5. CASE n # k
    <3>1. last' = [kind |-> "copy", table |-> Tables!Identity(n), size |-> n]
      BY <2>1, <2>3, <2>5
    <3>2. Tables!OneToOne(last'.table, last'.size)
      BY <2>3, <3>1, IdentityOneToOne
    <3>3. Tables!EachPlaceOnce'
      BY <3>1, <3>2 DEF Tables!EachPlaceOnce
    <3> QED BY <2>1, <3>3 DEF TablesInv, TableFor
  <2> QED BY <2>4, <2>5
<1>5. CASE Tables!SetCarriers
  <2>1. PICK n \in Carriers \union {0} :
          /\ carriers' = [table |-> Tables!Inverted(Tables!Forward(n)), count |-> n]
          /\ cells' = cells /\ last' = last
    BY <1>5 DEF Tables!SetCarriers
  <2>2. n \in Nat
    BY <1>1
  <2> QED BY <2>1, <2>2 DEF TablesInv, TableFor, Tables!EachPlaceOnce
<1>6. CASE Tables!CarriersBack
  <2>1. /\ last' = [kind |-> "carriers", table |-> carriers.table, size |-> carriers.count]
        /\ cells' = cells /\ carriers' = carriers
    BY <1>6 DEF Tables!CarriersBack, Tables!Gather
  <2>2. carriers.count \in Nat /\ TableFor(carriers.table, carriers.count)
    BY DEF TablesInv, TableFor
  <2>3. Tables!EachPlaceOnce'
    BY <2>1, <2>2, GatheredRight
  <2> QED BY <2>1, <2>3 DEF TablesInv, TableFor
<1> QED BY <1>2, <1>3, <1>4, <1>5, <1>6 DEF Tables!Next

(* lib/ofdm/cell_deinterleaver.cc, freq_deinterleaver.cc: whatever sizes     *)
(* follow each other, and for every size, no place is lost or used twice,    *)
(* the table undoes the one for this size, and where the size is a power of  *)
(* two it undoes the positions that the library names to a transmitter.      *)
THEOREM PlacesAreUsedOnce == DatapathSpec => []EachPlaceOnce
<1> DEFINE next == [DatapathNext]_datapathVars
<1>1. DatapathInit => TablesInv
  <2> SUFFICES ASSUME Tables!Init PROVE TablesInv
    BY DEF DatapathInit
  <2>1. Sizes \subseteq Nat /\ Carriers \subseteq Nat
    BY TablesAssumption DEF TablesAssumption
  <2>2. PICK n \in Sizes : cells = Tables!Inverted(Tables!Forward(n))
    BY DEF Tables!Init
  <2>3. PICK m \in Carriers : carriers = [table |-> Tables!Inverted(Tables!Forward(m)), count |-> m]
    BY DEF Tables!Init
  <2>4. last = [kind |-> "copy", table |-> {}, size |-> 0]
    BY DEF Tables!Init
  <2>5. Tables!OneToOne({}, 0)
    <3>1. {} = Tables!Identity(0)
      BY DEF Tables!Identity
    <3> QED BY <3>1, IdentityOneToOne
  <2>6. Tables!EachPlaceOnce
    BY <2>4, <2>5 DEF Tables!EachPlaceOnce
  <2> QED BY <2>1, <2>2, <2>3, <2>6 DEF TablesInv, TableFor
<1>2. TablesInv /\ next => TablesInv'
  <2> SUFFICES ASSUME TablesInv, next PROVE TablesInv'
    OBVIOUS
  <2>1. CASE Tables!Next
    BY <2>1, TablesStep
  <2>2. CASE UNCHANGED tableVars
    BY <2>2 DEF tableVars, TablesInv, TableFor, Tables!EachPlaceOnce
  <2> QED BY <2>1, <2>2 DEF DatapathNext, datapathVars
<1>3. TablesInv => EachPlaceOnce
  BY DEF TablesInv, EachPlaceOnce
<1> QED BY <1>1, <1>2, <1>3, PTL DEF DatapathSpec
=============================================================================
