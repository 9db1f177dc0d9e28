------------------------------ MODULE LdpcDecoder ------------------------------
(* lib/fec/ldpc_matrix.cc: the parity check matrices.  A base matrix is the   *)
(* set of its non-zero blocks <<row, column, shift>>, a parity check matrix   *)
(* the set of its ones <<row, column>>.                                       *)
(*                                                                            *)
(* lib/fec/ldpc_decoder.cc: load_parity_matrix() for a rate and a length from *)
(* the constructor, set_config() or the FEC block's reconfigure(), and        *)
(* layered min-sum decoding, one check node a step, with a small matrix of    *)
(* the same generator.  LLRs are integers, in units of 1/Unit on the float    *)
(* path, where scaling by 3/4 is then exact.                                  *)
EXTENDS Integers, FiniteSets

-----------------------------------------------------------------------------
Rates == 0 .. 11                \* 2/15 .. 13/15
ExpansionFactor(short) == IF short THEN 90 ELSE 360
CodewordLength(short) == IF short THEN 16200 ELSE 64800

(* kLongCodeSpecs and kShortCodeSpecs hold the same rows. *)
RowWeights == <<6, 6, 7, 7, 8, 8, 9, 10, 11, 13, 16, 22>>

CodeSpec(rate) == [rows |-> 156 - 12 * rate, cols |-> 180, weight |-> RowWeights[rate + 1]]

(* kLdpcParams: the information bits of the two codes of a rate. *)
LdpcParams ==
  << <<8640, 2160>>, <<12960, 3240>>, <<17280, 4320>>, <<21600, 5400>>,
     <<25920, 6480>>, <<30240, 7560>>, <<34560, 8640>>, <<38880, 9720>>,
     <<43200, 10800>>, <<47520, 11880>>, <<51840, 12960>>, <<56160, 14040>> >>

InfoBits(rate, short) == LdpcParams[rate + 1][IF short THEN 2 ELSE 1]

-----------------------------------------------------------------------------
(* generate_atsc3_base_matrix *)
InfoBlocks(spec) == spec.cols - spec.rows

Wanted(row, rate, col) == (row + col + rate) % 3 = 0 \/ (row * 2 + col) % 5 = 0

(* Mutant: the rows of odd number take no systematic block. *)
SystematicSkipping(spec, q, rate, row) ==
  LET wanted == {c \in 0 .. InfoBlocks(spec) - 1 : row % 2 = 0 /\ Wanted(row, rate, c)}
      taken == {c \in wanted : Cardinality({d \in wanted : d < c}) < spec.weight - 1}
  IN  {<<row, c, (row * 17 + c * 13 + rate * 7) % q>> : c \in taken}

(* The first weight - 1 wanted columns. *)
Systematic(spec, q, rate, row) ==
  LET wanted == {c \in 0 .. InfoBlocks(spec) - 1 : Wanted(row, rate, c)}
      taken == {c \in wanted : Cardinality({d \in wanted : d < c}) < spec.weight - 1}
  IN  {<<row, c, (row * 17 + c * 13 + rate * 7) % q>> : c \in taken}

(* "Ensure minimum connectivity": the connections still to make, and the     *)
(* column of the n-th.  A column already taken is tried again for ever.       *)
Missing(spec, blocks) == Cardinality(blocks) .. (spec.weight \div 2) - 1

ExtraColumn(spec, row, n) == (row * 7 + n * 11) % InfoBlocks(spec)

ConnectivityEnds(spec, row, blocks) ==
  \A n \in Missing(spec, blocks) :
    ExtraColumn(spec, row, n) \notin
      {b[2] : b \in blocks} \cup {ExtraColumn(spec, row, i) : i \in Cardinality(blocks) .. n - 1}

Extra(spec, q, row, blocks) ==
  {<<row, ExtraColumn(spec, row, n), (row + ExtraColumn(spec, row, n) + n) % q>> :
     n \in Missing(spec, blocks)}

(* The staircase of the parity part. *)
Staircase(spec, q, row) ==
  LET diagonal == InfoBlocks(spec) + row
  IN  {<<row, diagonal, 0>>}
        \cup {<<r, diagonal - 1, (r * 3) % q>> : r \in {row} \ {0}}

RowBlocks(spec, q, rate, row) ==
  LET s == Systematic(spec, q, rate, row)
  IN  s \cup Extra(spec, q, row, s) \cup Staircase(spec, q, row)

BaseMatrix(spec, q, rate) ==
  UNION {RowBlocks(spec, q, rate, row) : row \in 0 .. spec.rows - 1}

(* expand_base_matrix *)
Expanded(base, q) ==
  UNION {{<<b[1] * q + i, b[2] * q + ((i + b[3]) % q)>> : i \in 0 .. q - 1} : b \in base}

(* validate_matrix, on the matrix before it is expanded *)
Valid(spec, base, rate, short) ==
  LET q == ExpansionFactor(short)
  IN  /\ spec.cols * q = CodewordLength(short)
      /\ spec.rows * q = CodewordLength(short) - InfoBits(rate, short)
      /\ \A row \in 0 .. spec.rows - 1 : \E b \in base : b[1] = row

-----------------------------------------------------------------------------
CONSTANTS
  SmallSpec, SmallQ, SmallRate,  \* the matrix that decodes
  Unit,                          \* 4 to the number of row updates
  Confidences,                   \* LLR magnitudes received
  MaxIterations,                 \* values of max_iterations
  MaxDoubts                      \* bound: bits received weak and wrong

VARIABLES
  code, base,  \* code_rate and short_codeword; the base matrix generated for them
  fixed, limit,\* use_fixed_point, max_iterations
  broadcast, doubt, \* the codeword on the channel, and the bits received in doubt
  strength,    \* the LLR magnitude of the others
  app, cn,     \* llr_app_ and llr_cn_
  row, iter,   \* the check node next in line, the iteration
  decision,    \* hard_decision_: the bits decided to be 1
  outcome

(* A matrix has a size, a decoder iterates at least once, and a bit that is   *)
(* received well is at least twice as strong as one in doubt.                 *)
LdpcAssumption ==
  /\ SmallSpec.rows \in Nat /\ SmallSpec.cols \in Nat /\ SmallQ \in Nat
  /\ Unit \in Nat /\ 2 <= Unit
  /\ Confidences \subseteq Nat /\ \A s \in Confidences : 2 <= s
  /\ MaxIterations \subseteq Nat \ {0}
ASSUME LdpcAssumption

inputVars == <<fixed, limit, broadcast, doubt, strength>>
matrixVars == <<code, base>>
ldpcVars == <<inputVars, app, cn, row, iter, decision, outcome>>

-----------------------------------------------------------------------------
LoadParityMatrix ==
  \E rate \in Rates, short \in BOOLEAN :
    /\ code' = [rate |-> rate, short |-> short]
    /\ base' = BaseMatrix(CodeSpec(rate), ExpansionFactor(short), rate)

MatrixInit == code = [rate |-> 5, short |-> FALSE] /\ base = {}

-----------------------------------------------------------------------------
H == Expanded(BaseMatrix(SmallSpec, SmallQ, SmallRate), SmallQ)
Cols == 0 .. SmallSpec.cols * SmallQ - 1
CheckRows == 0 .. SmallSpec.rows * SmallQ - 1
Info == 0 .. InfoBlocks(SmallSpec) * SmallQ - 1
Neighbours(r) == {c \in Cols : <<r, c>> \in H}

(* check_syndrome *)
Unsatisfied(bits) ==
  {r \in CheckRows : Cardinality(Neighbours(r) \cap bits) % 2 = 1}

Codewords == {w \in SUBSET Cols : Unsatisfied(w) = {}}

Abs(x) == IF x < 0 THEN - x ELSE x
Clip(x, max) == CASE x > max -> max [] x < - max -> - max [] OTHER -> x

(* clamp_llr, saturate_i16; sign, sign_fxp; the scaling of a message *)
Bounded(x) == IF fixed THEN Clip(x, 32767) ELSE Clip(x, 127 * Unit)
Sign(x) == CASE x < 0 -> -1 [] x > 0 \/ (fixed /\ x = 0) -> 1 [] OTHER -> 0
Scaled(mag) == IF fixed THEN (3 * mag + 2) \div 4 ELSE (3 * mag) \div 4

Largest == IF fixed THEN 32767 ELSE 200 * Unit   \* what min1 and min2 start from

ChannelLlrs ==
  [c \in Cols |->
     LET mag == (IF c \in doubt THEN 1 ELSE strength) * (IF fixed THEN 1 ELSE Unit)
     IN  IF (c \in broadcast) # (c \in doubt) THEN - mag ELSE mag]

NoMessages == [e \in H |-> 0]

(* decode: the channel's LLRs, no messages yet *)
Load ==
  /\ row = -1
  /\ app' = ChannelLlrs /\ cn' = NoMessages
  /\ row' = 0 /\ iter' = 0
  /\ UNCHANGED <<inputVars, decision, outcome>>

(* Mutant: the message of a bit counts its own sign. *)
MessageOfAll(vn, c) ==
  LET mags == {Abs(vn[d]) : d \in DOMAIN vn \ {c}} \cup {Largest}
      least == CHOOSE m \in mags : \A k \in mags : m <= k
      negative == Cardinality({d \in DOMAIN vn : Sign(vn[d]) < 0}) % 2 = 1
  IN  Bounded(IF negative THEN - Scaled(least) ELSE Scaled(least))

(* The sign of a message is the product of the other signs of the row, its   *)
(* size the least of the others: the second least for the edge that has the   *)
(* least, which is the first of those in the row.                             *)
Message(vn, c) ==
  LET others == DOMAIN vn \ {c}
      mags == {Abs(vn[d]) : d \in others} \cup {Largest}
      least == CHOOSE m \in mags : \A k \in mags : m <= k
      negative == Cardinality({d \in others : Sign(vn[d]) < 0}) % 2 = 1
      erased == \E d \in DOMAIN vn : Sign(vn[d]) = 0
  IN  CASE erased -> 0
        [] negative /\ ~ erased -> Bounded(- Scaled(least))
        [] OTHER -> Bounded(Scaled(least))

UpdateRow(vn) ==
  LET here == Neighbours(row)
      new == [c \in here |-> Message(vn, c)]
  IN  /\ row \in CheckRows /\ iter < limit
      /\ app' = [c \in Cols |->
                   IF c \in here THEN Bounded(app[c] - cn[<<row, c>>] + new[c]) ELSE app[c]]
      /\ cn' = [e \in H |-> IF e[1] = row THEN new[e[2]] ELSE cn[e]]
      /\ row' = row + 1
      /\ UNCHANGED <<inputVars, iter, decision, outcome>>

(* min_sum_iteration, one row, and the same in 16-bit integers *)
MinSumIteration ==
  ~ fixed /\ UpdateRow([c \in Neighbours(row) |-> app[c] - cn[<<row, c>>]])

MinSumIterationFxp ==
  fixed /\ UpdateRow([c \in Neighbours(row) |-> Bounded(app[c] - cn[<<row, c>>])])

(* compute_hard_decision, then the loop's end or its next iteration; the      *)
(* early termination on confident LLRs is off by default and left out         *)
Decided == {c \in Cols : app[c] < 0}

NextIteration ==
  /\ row \notin CheckRows /\ row > 0 /\ iter < limit
  /\ decision' = Decided
  /\ Unsatisfied(Decided) # {}
  /\ row' = 0 /\ iter' = iter + 1
  /\ UNCHANGED <<inputVars, app, cn, outcome>>

Outcome(bits, n) ==
  [iterations |-> n + 1, converged |-> Unsatisfied(bits) = {}, bits |-> bits \cap Info]

Converge ==
  /\ row \notin CheckRows /\ row > 0 /\ iter < limit
  /\ decision' = Decided
  /\ Unsatisfied(Decided) = {}
  /\ outcome' = Outcome(Decided, iter) /\ row' = -2
  /\ UNCHANGED <<inputVars, app, cn, iter>>

Exhaust ==
  /\ row = 0 /\ iter = limit
  /\ outcome' = Outcome(decision, iter) /\ row' = -2
  /\ UNCHANGED <<inputVars, app, cn, iter, decision>>

NoResult == [iterations |-> 0, converged |-> FALSE, bits |-> {}]

(* What the channel may do to a codeword. *)
Doubts == {d \in SUBSET Cols : Cardinality(d) <= MaxDoubts}

LdpcInit ==
  /\ fixed \in BOOLEAN /\ limit \in MaxIterations
  /\ broadcast \in Codewords /\ strength \in Confidences
  /\ doubt \in Doubts
  /\ app = [c \in Cols |-> 0] /\ cn = NoMessages
  /\ row = -1 /\ iter = 0 /\ decision = {} /\ outcome = NoResult

LdpcNext ==
  Load \/ MinSumIteration \/ MinSumIterationFxp \/ NextIteration \/ Converge \/ Exhaust

-----------------------------------------------------------------------------
(* load_parity_matrix() never falls back on generate_test_matrix(), for no    *)
(* rate and length: generating ends, the two tables of the sizes of the codes *)
(* agree, no check is empty, and the systematic part has its connections.     *)
GeneratedIsValid ==
  base # {} =>
    LET spec == CodeSpec(code.rate) IN
      /\ Valid(spec, base, code.rate, code.short)
      /\ \A r \in 0 .. spec.rows - 1 :
           LET q == ExpansionFactor(code.short)
               s == Systematic(spec, q, code.rate, r)
           IN  ConnectivityEnds(spec, r, s) /\ Cardinality(s) >= spec.weight \div 2

(* A codeword in which one bit that some check covers is received weak and    *)
(* wrong comes out as it was sent, within one iteration, on both paths.       *)
OneDoubtIsSettled ==
  /\ row = -2 /\ Cardinality(doubt) <= 1
  /\ \A c \in doubt : \E r \in CheckRows : c \in Neighbours(r)
  =>
    outcome.converged /\ outcome.bits = broadcast \cap Info /\ outcome.iterations = 1
===============================================================================
