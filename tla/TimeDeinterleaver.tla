-------------------------- MODULE TimeDeinterleaver --------------------------
(* lib/ofdm/time_deinterleaver.cc in its block time_deinterleaver_impl, at   *)
(* the far end of a transmitter that interleaves the way the header says:    *)
(* row i of the interleaver delays by i blocks' worth of row cells, row i of *)
(* the de-interleaver by what is missing to the longest of these delays.     *)
(* A cell is known by the block and the place it was sent from.              *)
EXTENDS Integers, FiniteSets

CONSTANTS
  CellsPerBlock,   \* cells_per_block
  Depths,          \* TI depths in use, 0 = no interleaving
  Modes,           \* TI modes in use
  Fill,            \* what a delay line holds before the first cell
  Blank,           \* what the transmitter sends before its first cell
  Wild,            \* what is read outside a delay line
  MaxBlocks,       \* bound: blocks sent
  MaxEvents        \* bound: everything but a block sent and received

ASSUME DeinterleaverAssumption ==
  /\ CellsPerBlock \in Nat \ {0}
  /\ Depths \subseteq Nat

VARIABLES
  config,          \* config_: mode and depth
  lines,           \* delay_lines_, by row and position
  pos,             \* write_pos_, by row
  settling,        \* settling_blocks_
  blocks,          \* blocks_processed_
  output,          \* the last block process() wrote
  sender,          \* the transmitter's config, and its first block under it
  sent,            \* blocks sent
  reused,          \* history: set_config kept lines no reset() has emptied since
  mixed,           \* history: blocks until one comes out that owes nothing to
                   \* what was in the delay lines at the last disturbance
  events           \* bound: number of events so far

lineVars == <<config, lines, pos, settling, blocks>>
vars == <<lineVars, output, sender, sent, reused, mixed, events>>

Configs == [mode : Modes, depth : Depths]

Straight(c) == c.depth = 0 \/ c.mode = "NONE"

Places == 0 .. CellsPerBlock - 1

-----------------------------------------------------------------------------
(* init_delay_lines *)

Rows(c) == IF Straight(c) THEN {} ELSE 0 .. c.depth

Delay(c, r) == (c.depth - r) * CellsPerBlock

(* resize() keeps what is there and appends zeros. *)
Resized(line, n) ==
  [k \in 0 .. n - 1 |-> IF k \in DOMAIN line THEN line[k] ELSE Fill]

NoLine == [k \in {} |-> Fill]

LineOf(ls, r) == IF r \in DOMAIN ls THEN ls[r] ELSE NoLine

(* Mutant: a line has one cell too few. *)
InitDelayLinesShort(c, ls, ps) ==
  /\ config' = c
  /\ lines' = [r \in Rows(c) |-> Resized(LineOf(ls, r), Delay(c, r) - 1)]
  /\ pos' = [r \in Rows(c) |-> IF r \in DOMAIN ps THEN ps[r] ELSE 0]
  /\ settling' = IF Straight(c) THEN 0 ELSE c.depth

InitDelayLines(c, ls, ps) ==
  /\ config' = c
  /\ lines' = [r \in Rows(c) |-> Resized(LineOf(ls, r), Delay(c, r))]
  /\ pos' = [r \in Rows(c) |-> IF r \in DOMAIN ps THEN ps[r] ELSE 0]
  /\ settling' = IF Straight(c) THEN 0 ELSE c.depth

NoRows == [r \in {} |-> NoLine]

NoPos == [r \in {} |-> 0]

Length(r) == Cardinality(DOMAIN lines[r])

-----------------------------------------------------------------------------
(* process: cell i of a block belongs to row i % num_rows and is the         *)
(* i \div num_rows-th of the block there.  The position a row has after k    *)
(* cells; one outside the line is used once and then wraps to 0.             *)

NumRows(c) == IF Straight(c) THEN 1 ELSE c.depth + 1

RowOf(c, i) == i % NumRows(c)

InRow(c, r) == Cardinality({i \in Places : RowOf(c, i) = r})

PosAfter(r, k) ==
  CASE k = 0 -> pos[r]
    [] k > 0 /\ pos[r] < Length(r) -> (pos[r] + k) % Length(r)
    [] OTHER -> (k - 1) % Length(r)

(* Where cell i of the block meets its delay line. *)
Meets(i) == PosAfter(RowOf(config, i), i \div NumRows(config))

Passes(i) == RowOf(config, i) \notin DOMAIN lines \/ Length(RowOf(config, i)) = 0

Delayed(i) ==
  LET line == lines[RowOf(config, i)]
  IN  IF Meets(i) \in DOMAIN line THEN line[Meets(i)] ELSE Wild

Process(block) ==
  /\ output' = [i \in Places |-> IF Passes(i) THEN block[i] ELSE Delayed(i)]
  /\ lines' = [r \in DOMAIN lines |->
                [k \in DOMAIN lines[r] |->
                  LET here == {i \in Places : RowOf(config, i) = r /\ Meets(i) = k}
                  IN  IF here = {} THEN lines[r][k] ELSE block[CHOOSE i \in here : TRUE]]]
  /\ pos' = [r \in DOMAIN pos |->
              IF Length(r) = 0 THEN pos[r] ELSE PosAfter(r, InRow(config, r))]
  /\ blocks' = blocks + 1
  /\ UNCHANGED <<config, settling>>

-----------------------------------------------------------------------------
(* The transmitter.  The source of cell i of the block it sends now; the     *)
(* rows of the interleaver were empty when it changed its config.            *)

OnAir(i) ==
  LET c == sender.config
      r == RowOf(c, i)
      n == InRow(c, r)
      k == (sent - sender.first) * n + i \div NumRows(c)
      from == IF Straight(c) THEN k ELSE k - r * CellsPerBlock
  IN  IF from < 0 THEN Blank
      ELSE <<sender.first + from \div n, (from % n) * NumRows(c) + r>>

(* The blocks by which the two together delay, when every row takes the same *)
(* number of cells of a block.                                               *)
EvenRows(c) == CellsPerBlock % NumRows(c) = 0

Total(c) == IF Straight(c) THEN 0 ELSE c.depth * NumRows(c)

Drained(c) == Total(c) + 1

(* Whether what goes through the lines is what the sender meant for them. *)
InTune == config = sender.config

(* A cell is about to be written outside its line: one less in the line. *)
Astray == \E r \in DOMAIN lines : Length(r) > 0 /\ pos[r] >= Length(r)

BlockReceived ==
  /\ sent < MaxBlocks
  /\ Process([i \in Places |-> OnAir(i)])
  /\ sent' = sent + 1
  /\ mixed' = CASE ~ InTune \/ Astray -> Drained(sender.config)
                [] InTune /\ ~ Astray /\ mixed > 0 -> mixed - 1
                [] OTHER -> mixed
  /\ UNCHANGED <<sender, reused, events>>

Event == events < MaxEvents /\ events' = events + 1

(* A block that did not make it to the de-interleaver. *)
BlockLost ==
  /\ Event
  /\ sent < MaxBlocks
  /\ sent' = sent + 1
  /\ mixed' = Drained(config)
  /\ UNCHANGED <<lineVars, output, sender, reused>>

SenderChanges ==
  \E c \in Configs \ {sender.config} :
    /\ Event
    /\ sender' = [config |-> c, first |-> sent]
    /\ mixed' = Drained(c)
    /\ UNCHANGED <<lineVars, output, sent, reused>>

-----------------------------------------------------------------------------
(* set_config *)
SetConfig ==
  \E c \in Configs :
    /\ Event
    /\ InitDelayLines(c, lines, pos)
    /\ blocks' = IF Straight(c) THEN blocks ELSE 0
    /\ reused' = ~ Straight(c)
    /\ mixed' = Drained(c)
    /\ UNCHANGED <<output, sender, sent>>

(* time_deinterleaver_impl::reconfigure(): a new TimeDeinterleaver, for a    *)
(* new depth or mode from L1 signalling or the API                           *)
Reconfigure ==
  \E c \in Configs :
    /\ Event
    /\ InitDelayLines(c, NoRows, NoPos)
    /\ blocks' = 0
    /\ reused' = FALSE
    /\ mixed' = 0
    /\ UNCHANGED <<output, sender, sent>>

(* Mutant: reset() leaves the positions. *)
ResetLinesOnly ==
  /\ Event
  /\ lines' = [r \in DOMAIN lines |-> [k \in DOMAIN lines[r] |-> Fill]]
  /\ blocks' = 0
  /\ reused' = FALSE
  /\ mixed' = 0
  /\ UNCHANGED <<config, pos, settling, output, sender, sent>>

(* reset() *)
Reset ==
  /\ Event
  /\ lines' = [r \in DOMAIN lines |-> [k \in DOMAIN lines[r] |-> Fill]]
  /\ pos' = [r \in DOMAIN pos |-> 0]
  /\ blocks' = 0
  /\ reused' = FALSE
  /\ mixed' = 0
  /\ UNCHANGED <<config, settling, output, sender, sent>>

Init ==
  \E c \in Configs :
    /\ config = c
    /\ lines = [r \in Rows(c) |-> Resized(NoLine, Delay(c, r))]
    /\ pos = [r \in Rows(c) |-> 0]
    /\ settling = IF Straight(c) THEN 0 ELSE c.depth
    /\ blocks = 0
    /\ output = [i \in Places |-> Fill]
    /\ sender = [config |-> c, first |-> 0] /\ sent = 0
    /\ reused = FALSE /\ mixed = 0 /\ events = 0

Next ==
  BlockReceived \/ BlockLost \/ SenderChanges \/ SetConfig \/ Reconfigure \/ Reset

Spec == Init /\ [][Next]_vars

-----------------------------------------------------------------------------
TypeOK ==
  /\ config \in Configs /\ sender \in [config : Configs, first : 0 .. sent]
  /\ DOMAIN lines = Rows(config)
  /\ \A r \in Rows(config) : DOMAIN lines[r] = 0 .. Delay(config, r) - 1
  /\ pos \in [Rows(config) -> Nat]
  /\ settling \in Nat /\ blocks \in Nat
  /\ DOMAIN output = Places
  /\ sent \in 0 .. MaxBlocks /\ reused \in BOOLEAN /\ mixed \in Nat
  /\ events \in 0 .. MaxEvents

(* process_cell stays inside the delay lines, through every reset() and      *)
(* reconfigure().  After set_config to a smaller depth it may not, until     *)
(* reset() sets the positions it kept.                                       *)
PositionsInside ==
  ~ reused => ~ Astray

(* "The de-interleaver has the inverse delay pattern of the interleaver":    *)
(* what comes out is a block as it was sent, every cell in its place and     *)
(* Total blocks late, or nothing yet (a zero from one of the two ends), and  *)
(* once Total blocks of the sender have gone through, every cell is there.   *)
(* A lost block, a changed sender, a set_config() or a cell that goes astray *)
(* disturbs that for Total blocks; reset() and reconfigure() do not.         *)
Filled == blocks >= Total(config) /\ sent - Total(config) >= sender.first

InverseOfInterleaver ==
  [][BlockReceived /\ InTune /\ mixed' = 0 /\ EvenRows(config) =>
       \A i \in Places :
         \/ output'[i] = <<sent - Total(config), i>>
         \/ ~ Filled /\ output'[i] \in {Fill, Blank}]_vars
=============================================================================
