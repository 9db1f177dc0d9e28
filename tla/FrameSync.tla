----------------------------- MODULE FrameSync -----------------------------
(***************************************************************************)
(* lib/sync/frame_sync.cc: the frame tracker.  process() runs the handler  *)
(* of the current state over a chunk of n samples and then advances        *)
(* sample_counter_ by n; set_bootstrap_offset(), update_frame_params() and *)
(* reset() may come between two chunks.                                    *)
(*                                                                         *)
(* Every comparison of the code relates expected_boundary_ to              *)
(* sample_counter_, so boundary is their difference and the two unbounded  *)
(* counters disappear; it is cut off at -PastFloor, from where holdover    *)
(* cannot bring it back into a chunk.  A correlation is abstracted to its  *)
(* outcome: at which of the offsets the handler really searches it finds   *)
(* the best value, if that value passes its threshold at all.              *)
(* frame_number_, confidence_ and the unused subframe and symbol counters  *)
(* are written and reported, and decide nothing.                           *)
(***************************************************************************)
EXTENDS Integers, FiniteSets

CONSTANTS
  LockAcquireCount,   \* config_.lock_acquire_count
  LockLossCount,      \* config_.lock_loss_count
  HoldoverFrames,     \* config_.holdover_frames
  SearchWindow,       \* config_.search_window
  FrameParams,        \* [fft |-> fft_size, frame |-> samples_per_frame()]
  ChunkSizes,         \* the values of n
  BootstrapOffsets,   \* sample_index - sample_counter_ in set_bootstrap_offset
  PastFloor           \* bound: how far in the past a boundary is told apart

ASSUME CountAssumption ==
  /\ LockAcquireCount \in Nat \ {0}
  /\ LockLossCount \in Nat \ {0}
  /\ HoldoverFrames \in Nat \ {0}

ASSUME SampleAssumption ==
  /\ SearchWindow \in Nat
  /\ ChunkSizes \subseteq Nat
  /\ BootstrapOffsets \subseteq Int
  /\ FrameParams \subseteq [fft : Nat, frame : Nat]
  /\ PastFloor \in Nat

VARIABLES
  state,      \* state_
  hits,       \* consecutive_hits_
  misses,     \* consecutive_misses_
  holdover,   \* holdover_counter_
  boundary,   \* expected_boundary_ - sample_counter_
  params,     \* config_.frame_params; preamble_ref_ has fft_size entries
  emitted,    \* the last call emitted FRAME_START
  signal      \* environment: there is a broadcast to detect

vars == <<state, hits, misses, holdover, boundary, params, emitted, signal>>

States == {"SEARCHING", "ACQUIRING", "LOCKED", "HOLDOVER"}

Init ==
  /\ state = "SEARCHING"
  /\ hits = 0 /\ misses = 0 /\ holdover = 0
  /\ boundary = 0
  /\ params \in FrameParams
  /\ emitted = FALSE
  /\ signal = TRUE

-----------------------------------------------------------------------------
(* transition_state(): the counters each state resets on entry *)

TransitionState(s, h, m, c) ==
  /\ state' = s
  /\ hits' = IF s = "SEARCHING" THEN 0 ELSE h
  /\ misses' = IF s = "HOLDOVER" THEN m ELSE 0
  /\ holdover' = IF s = "HOLDOVER" THEN 0 ELSE c

Stay(h, m, c) == /\ hits' = h /\ misses' = m /\ holdover' = c
                 /\ UNCHANGED state

(* sample_counter_ += n, seen from a boundary b samples ahead of it *)
Advance(b, n) == boundary' = IF b - n < -PastFloor THEN -PastFloor ELSE b - n

-----------------------------------------------------------------------------
(* Where the handlers look: the offsets at which a whole reference fits *)

Fits(o, end) == o + params.fft <= end
InChunk(n) == 0 <= boundary /\ boundary < n
HalfWindow == SearchWindow \div 2
WindowStart == IF boundary > HalfWindow THEN boundary - HalfWindow ELSE 0
UpTo(x, n) == IF x < n THEN x ELSE n

CoarseOffsets(n) ==
  {o \in 0 .. n : Fits(o, n) /\ o % (params.fft \div 4) = 0}

AcquireOffsets(n) ==
  IF InChunk(n)
  THEN {o \in WindowStart .. n : Fits(o, UpTo(boundary + HalfWindow, n)) /\ o < n}
  ELSE {o \in 0 .. n : Fits(o, n) /\ o < n}

TrackOffsets(n) ==
  {o \in WindowStart .. n : Fits(o, n) /\ o < UpTo(boundary + HalfWindow + 1, n)}

-----------------------------------------------------------------------------
(* process() in SEARCHING: coarse steps, the first match is taken *)

SearchHit(n) ==
  /\ state = "SEARCHING" /\ signal
  /\ \E o \in CoarseOffsets(n) : Advance(o, n)
  /\ TransitionState("ACQUIRING", 1, misses, holdover)
  /\ emitted' = FALSE
  /\ UNCHANGED <<params, signal>>

SearchMiss(n) ==
  /\ state = "SEARCHING"
  /\ Stay(hits, misses, holdover)
  /\ Advance(boundary, n)
  /\ emitted' = FALSE
  /\ UNCHANGED <<params, signal>>

(* process() in ACQUIRING *)

AcquireHitEarly(n) ==        \* mutant: locks one detection too early
  /\ state = "ACQUIRING" /\ signal
  /\ \E o \in AcquireOffsets(n) : Advance(o, n)
  /\ IF hits + 2 >= LockAcquireCount
     THEN TransitionState("LOCKED", hits + 1, misses, holdover) /\ emitted' = TRUE
     ELSE Stay(hits + 1, misses, holdover) /\ emitted' = FALSE
  /\ UNCHANGED <<params, signal>>

AcquireHit(n) ==
  /\ state = "ACQUIRING" /\ signal
  /\ \E o \in AcquireOffsets(n) : Advance(o, n)
  /\ IF hits + 1 >= LockAcquireCount
     THEN TransitionState("LOCKED", hits + 1, misses, holdover) /\ emitted' = TRUE
     ELSE Stay(hits + 1, misses, holdover) /\ emitted' = FALSE
  /\ UNCHANGED <<params, signal>>

AcquireMiss(n) ==
  /\ state = "ACQUIRING"
  /\ IF misses + 1 >= LockLossCount
     THEN TransitionState("SEARCHING", hits, misses + 1, holdover)
     ELSE Stay(hits, misses + 1, holdover)
  /\ Advance(boundary, n)
  /\ emitted' = FALSE
  /\ UNCHANGED <<params, signal>>

(* process() in LOCKED: only a boundary inside the chunk is checked *)

TrackHit(n) ==
  /\ state = "LOCKED" /\ signal
  /\ InChunk(n)
  /\ \E o \in TrackOffsets(n) : Advance(o + params.frame, n)
  /\ Stay(hits, 0, holdover)
  /\ emitted' = TRUE
  /\ UNCHANGED <<params, signal>>

TrackMissToSearch(n) ==      \* mutant: a lost lock goes straight to searching
  /\ state = "LOCKED"
  /\ InChunk(n)
  /\ IF misses + 1 >= LockLossCount
     THEN TransitionState("SEARCHING", hits, misses + 1, holdover)
     ELSE Stay(hits, misses + 1, holdover)
  /\ Advance(boundary, n)
  /\ emitted' = FALSE
  /\ UNCHANGED <<params, signal>>

TrackMiss(n) ==
  /\ state = "LOCKED"
  /\ InChunk(n)
  /\ IF misses + 1 >= LockLossCount
     THEN TransitionState("HOLDOVER", hits, misses + 1, holdover)
     ELSE Stay(hits, misses + 1, holdover)
  /\ Advance(boundary, n)
  /\ emitted' = FALSE
  /\ UNCHANGED <<params, signal>>

TrackNothing(n) ==
  /\ state = "LOCKED"
  /\ ~ InChunk(n)
  /\ Stay(hits, misses, holdover)
  /\ Advance(boundary, n)
  /\ emitted' = FALSE
  /\ UNCHANGED <<params, signal>>

(* process() in HOLDOVER *)

HoldoverHit(n) ==
  /\ state = "HOLDOVER" /\ signal
  /\ InChunk(n) /\ Fits(boundary, n)
  /\ TransitionState("LOCKED", 1, misses, holdover + 1)
  /\ Advance(boundary, n)
  /\ emitted' = TRUE
  /\ UNCHANGED <<params, signal>>

HoldoverMissUncounted(n) ==  \* mutant: ++holdover_counter_ only with a boundary
  /\ state = "HOLDOVER"
  /\ LET c == IF InChunk(n) THEN holdover + 1 ELSE holdover IN
     IF c >= HoldoverFrames
     THEN /\ TransitionState("SEARCHING", hits, misses, c)
          /\ Advance(boundary, n)
     ELSE /\ Stay(hits, misses, c)
          /\ Advance(boundary + params.frame, n)
  /\ emitted' = FALSE
  /\ UNCHANGED <<params, signal>>

HoldoverMiss(n) ==
  /\ state = "HOLDOVER"
  /\ IF holdover + 1 >= HoldoverFrames
     THEN /\ TransitionState("SEARCHING", hits, misses, holdover + 1)
          /\ Advance(boundary, n)
     ELSE /\ Stay(hits, misses, holdover + 1)
          /\ Advance(boundary + params.frame, n)
  /\ emitted' = FALSE
  /\ UNCHANGED <<params, signal>>

Process(n) ==
  \/ SearchHit(n) \/ SearchMiss(n)
  \/ AcquireHit(n) \/ AcquireMiss(n)
  \/ TrackHit(n) \/ TrackMiss(n) \/ TrackNothing(n)
  \/ HoldoverHit(n) \/ HoldoverMiss(n)

-----------------------------------------------------------------------------
(* The other entry points *)

(* A detection of the bootstrap detector, which needs a broadcast. *)
SetBootstrapOffset ==
  /\ signal
  /\ \E b \in BootstrapOffsets : Advance(b, 0)
  /\ IF state \in {"SEARCHING", "HOLDOVER"}
     THEN TransitionState("ACQUIRING", 1, misses, holdover)
     ELSE Stay(hits, misses, holdover)
  /\ UNCHANGED <<params, emitted, signal>>

UpdateFrameParams ==
  /\ params' \in FrameParams
  /\ UNCHANGED <<state, hits, misses, holdover, boundary, emitted, signal>>

Reset ==
  /\ state' = "SEARCHING"
  /\ hits' = 0 /\ misses' = 0 /\ holdover' = 0
  /\ boundary' = 0
  /\ UNCHANGED <<params, emitted, signal>>

SignalLost ==
  /\ signal
  /\ signal' = FALSE
  /\ UNCHANGED <<state, hits, misses, holdover, boundary, params, emitted>>

Next == \/ \E n \in ChunkSizes : Process(n)
        \/ SetBootstrapOffset \/ UpdateFrameParams \/ Reset \/ SignalLost

Spec == Init /\ [][Next]_vars

(* Samples keep arriving as long as the flowgraph runs. *)
Fairness == WF_vars(\E n \in ChunkSizes : Process(n))
FairSpec == Spec /\ Fairness

-----------------------------------------------------------------------------
TypeOK ==
  /\ state \in States
  /\ hits \in Nat /\ misses \in Nat /\ holdover \in Nat
  /\ boundary \in Int
  /\ params \in FrameParams
  /\ emitted \in BOOLEAN /\ signal \in BOOLEAN

(* In every state the counter that decides how long the state lasts is     *)
(* still below its limit, whatever was left in it by an earlier stay: no   *)
(* count survives into a state where it would make the next decision too   *)
(* early (a lock after fewer detections, a loss after fewer misses).       *)
CountersBelowLimits ==
  /\ state = "SEARCHING" => hits = 0 /\ misses = 0
  /\ state = "ACQUIRING" => /\ hits >= 1
                            /\ hits < LockAcquireCount \/ hits = 1
                            /\ misses < LockLossCount
  /\ state = "LOCKED" => misses < LockLossCount
  /\ state = "HOLDOVER" => holdover < HoldoverFrames

(* A lock is given up only into holdover, never straight into a search,    *)
(* except by reset(): the timing of the last frames is used first.         *)
LossThroughHoldover ==
  [][state = "LOCKED" /\ state' /= "LOCKED" => state' = "HOLDOVER" \/ Reset]_vars

(* Without a broadcast the tracker does not go on confirming or predicting *)
(* for ever: ACQUIRING and HOLDOVER end, whatever boundaries, chunk sizes  *)
(* and frame parameters it is given meanwhile.                             *)
NoSignalDrains == ~ signal ~> state \in {"SEARCHING", "LOCKED"}

(* frame_sync.h:79-83: a lock survives LockLossCount misses and then       *)
(* HoldoverFrames frames of holdover "before returning to search".         *)
LossReturnsToSearch == ~ signal ~> state = "SEARCHING"
=============================================================================
