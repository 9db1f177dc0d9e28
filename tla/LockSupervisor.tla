--------------------------- MODULE LockSupervisor ---------------------------
(***************************************************************************)
(* blocks/atsc3_lock_supervisor_impl.cc: counts unlock reports and sends   *)
(* reset messages.                                                         *)
(*                                                                         *)
(* Two threads work on the block: the scheduler thread that runs           *)
(* handle_lock_status() for one queued message after the other, and an     *)
(* application thread that calls the API.  handle_lock_status() tests      *)
(* in_relock_delay() BEFORE it takes mutex_, so that is a step of its own;  *)
(* and trigger_reset(), which both call with mutex_ held, counts the reset *)
(* in one step and reads the count again to send it in another.            *)
(* Time is a clock of MaxElapsed ticks since the last reset; the delay is  *)
(* over, for good, once the clock has passed it.                           *)
(***************************************************************************)
EXTENDS Integers, Sequences

CONSTANTS
  Thresholds,   \* values of unlock_threshold_
  Delays,       \* values of relock_delay_ms_, in ticks
  MaxElapsed,   \* bound: the clock stops here
  MaxResets,    \* bound: resets in a behaviour
  MaxInbox      \* bound: messages waiting on the lock_status port

ASSUME SupervisorAssumption ==
  /\ Thresholds \subseteq Int /\ Thresholds /= {}
  /\ Delays \subseteq Int /\ Delays /= {}
  /\ MaxElapsed \in Nat /\ \A d \in Delays : d <= MaxElapsed
  /\ MaxResets \in Nat /\ MaxInbox \in Nat

VARIABLES
  locked,       \* locked_
  unlocks,      \* consecutive_unlocks_
  resetCount,   \* reset_count_
  threshold,    \* unlock_threshold_
  delay,        \* relock_delay_ms_
  elapsed,      \* now() - last_reset_time_
  inbox,        \* messages on the lock_status port, oldest first
  handling,     \* the report whose handler is past the delay test, or <<>>
  resetting,    \* threads that have counted a reset and not sent it yet
  published     \* the numbers in the reset messages sent so far

(* The two values a lock_status message can carry. *)
Reports == {"locked", "unlocked"}

Threads == {"handler", "api"}

supervisorVars == <<locked, unlocks, resetCount, threshold, delay, elapsed,
                    inbox, handling, resetting, published>>

SupervisorInit ==
  /\ locked = FALSE /\ unlocks = 0 /\ resetCount = 0
  /\ threshold \in Thresholds /\ delay \in Delays
  /\ elapsed = 0
  /\ inbox = <<>> /\ handling = <<>>
  /\ resetting = {} /\ published = <<>>

InRelockDelay == elapsed < delay

(* Only a thread in trigger_reset() holds mutex_ from one step to another. *)
MutexFree == resetting = {}

(* trigger_reset(), up to the message. *)
CountReset(t) ==
  /\ resetCount < MaxResets
  /\ locked' = FALSE /\ unlocks' = 0 /\ elapsed' = 0
  /\ resetCount' = resetCount + 1
  /\ resetting' = resetting \cup {t}
  /\ UNCHANGED published

(* The message, with what reset_count_ is by then. *)
SendReset(t) ==
  /\ t \in resetting
  /\ resetting' = resetting \ {t}
  /\ published' = Append(published, resetCount)
  /\ UNCHANGED <<locked, unlocks, resetCount, threshold, delay, elapsed, inbox, handling>>

-----------------------------------------------------------------------------
(* handle_lock_status() *)

TakeReport ==          \* a message in the relock delay is dropped
  /\ handling = <<>> /\ inbox /= <<>> /\ "handler" \notin resetting
  /\ inbox' = Tail(inbox)
  /\ handling' = IF InRelockDelay THEN <<>> ELSE <<Head(inbox)>>
  /\ UNCHANGED <<locked, unlocks, resetCount, threshold, delay, elapsed, resetting,
                 published>>

LockWithoutClearing == \* mutant: a lock does not break the run of unlocks
  /\ handling = <<"locked">> /\ MutexFree
  /\ handling' = <<>>
  /\ locked' = TRUE
  /\ UNCHANGED <<unlocks, resetCount, threshold, delay, elapsed, inbox, resetting,
                 published>>

ApplyLock ==
  /\ handling = <<"locked">> /\ MutexFree
  /\ handling' = <<>>
  /\ locked' = TRUE /\ unlocks' = 0
  /\ UNCHANGED <<resetCount, threshold, delay, elapsed, inbox, resetting,
                 published>>

ApplyUnlock ==
  /\ handling = <<"unlocked">> /\ MutexFree
  /\ handling' = <<>>
  /\ IF unlocks + 1 >= threshold
     THEN CountReset("handler")
     ELSE /\ unlocks' = unlocks + 1
          /\ UNCHANGED <<locked, resetCount, elapsed, resetting, published>>
  /\ UNCHANGED <<threshold, delay, inbox>>

-----------------------------------------------------------------------------
(* The API and the clock *)

ManualResetUnlocked ==     \* mutant: without the lock
  /\ "api" \notin resetting
  /\ CountReset("api")
  /\ UNCHANGED <<threshold, delay, inbox, handling>>

ManualReset ==
  /\ MutexFree
  /\ CountReset("api")
  /\ UNCHANGED <<threshold, delay, inbox, handling>>

SetUnlockThreshold ==
  /\ MutexFree
  /\ threshold' \in Thresholds
  /\ UNCHANGED <<locked, unlocks, resetCount, delay, elapsed, inbox, handling, resetting,
                 published>>

SetRelockDelay ==
  /\ MutexFree
  /\ delay' \in Delays
  /\ UNCHANGED <<locked, unlocks, resetCount, threshold, elapsed, inbox, handling, resetting,
                 published>>

Tick ==
  /\ elapsed < MaxElapsed
  /\ elapsed' = elapsed + 1
  /\ UNCHANGED <<locked, unlocks, resetCount, threshold, delay, inbox, handling, resetting,
                 published>>

HandlerStep == TakeReport \/ ApplyLock \/ ApplyUnlock

SupervisorNext == \/ HandlerStep \/ ManualReset \/ \E t \in Threads : SendReset(t)
                  \/ SetUnlockThreshold \/ SetRelockDelay \/ Tick

(* The sender's side of the port. *)
Report(b) ==
  /\ Len(inbox) < MaxInbox
  /\ inbox' = Append(inbox, b)
  /\ UNCHANGED <<locked, unlocks, resetCount, threshold, delay, elapsed,
                 handling, resetting, published>>

(* The block alone: any sequence of reports may come in. *)
OpenNext == SupervisorNext \/ \E b \in Reports : Report(b)

OpenSpec == SupervisorInit /\ [][OpenNext]_supervisorVars

-----------------------------------------------------------------------------
SupervisorTypeOK ==
  /\ locked \in BOOLEAN
  /\ unlocks \in Nat /\ resetCount \in 0 .. MaxResets
  /\ threshold \in Thresholds /\ delay \in Delays
  /\ elapsed \in 0 .. MaxElapsed
  /\ inbox \in Seq(Reports) /\ Len(inbox) <= MaxInbox
  /\ handling \in {<<>>, <<"locked">>, <<"unlocked">>}
  /\ resetting \subseteq Threads
  /\ published \in Seq(1 .. MaxResets)

(* A reset is counted and sent in two steps, by either thread: none of the *)
(* numbers is sent twice or lost, the messages carry 1, 2, 3 ... in the    *)
(* order they are sent, and only the last one counted may be unsent.       *)
ResetsNumbered ==
  /\ resetCount \in {Len(published), Len(published) + 1}
  /\ resetCount = Len(published) <=> resetting = {}
  /\ \A i \in 1 .. Len(published) : published[i] = i

-----------------------------------------------------------------------------
(* The recovery loop of the connection example in                          *)
(* blocks/grc/atsc3_lock_supervisor.block.yml: bootstrap_detect and        *)
(* ofdm_demod report to the supervisor, whose reset messages go back to    *)
(* them (and to channel_eq, time_deinterleaver and fec_decode, which       *)
(* report nothing).  Each block has a thread that runs its message         *)
(* handlers between two calls of its work function; a message port is a    *)
(* FIFO queue.  ofdm_demod never calls its emit_lock_status(), so only     *)
(* bootstrap_detect sends reports.                                         *)
VARIABLES
  present,      \* environment: there is a bootstrap to detect
  detLocked,    \* bootstrap_detect: locked_
  detPrev,      \* bootstrap_detect: prev_locked_
  handled,      \* reset messages its handler has taken, in order
  reportedFor   \* history: handled when it last sent a report, or -1

loopVars == <<present, detLocked, detPrev, handled, reportedFor>>
lockVars == <<supervisorVars, loopVars>>

LoopInit ==
  /\ SupervisorInit
  /\ present \in BOOLEAN
  /\ detLocked = FALSE /\ detPrev = FALSE
  /\ handled = 0 /\ reportedFor = -1

(* general_work(): a detection sets locked_; a change is reported.         *)
DetectorWork ==
  /\ Len(inbox) < MaxInbox
  /\ \E detected \in {FALSE, present} :
       LET now == detLocked \/ detected IN
       /\ detLocked' = now /\ detPrev' = now
       /\ IF now /= detPrev
          THEN /\ inbox' = Append(inbox, IF now THEN "locked" ELSE "unlocked")
               /\ reportedFor' = handled
          ELSE UNCHANGED <<inbox, reportedFor>>
  /\ UNCHANGED <<locked, unlocks, resetCount, threshold, delay, elapsed,
                 handling, resetting, published, present, handled>>

(* The detector finds the bootstrap that is there (a DetectorWork step).   *)
DetectorFinds == DetectorWork /\ detLocked'

DetectorResetKeepsPrev ==    \* mutant: prev_locked_ survives the reset
  /\ handled < Len(published)
  /\ handled' = handled + 1
  /\ detLocked' = FALSE
  /\ UNCHANGED <<supervisorVars, present, detPrev, reportedFor>>

(* handle_reset_msg(): both flags are cleared, nothing is reported.        *)
DetectorReset ==
  /\ handled < Len(published)
  /\ handled' = handled + 1
  /\ detLocked' = FALSE /\ detPrev' = FALSE
  /\ UNCHANGED <<supervisorVars, present, reportedFor>>

SignalChanges ==
  /\ present' = ~ present
  /\ UNCHANGED <<supervisorVars, detLocked, detPrev, handled, reportedFor>>

LoopNext == \/ SupervisorNext /\ UNCHANGED loopVars
            \/ DetectorWork \/ DetectorReset \/ SignalChanges

LoopSpec == LoopInit /\ [][LoopNext]_lockVars

-----------------------------------------------------------------------------
(* Every reset makes the detector acquire and report afresh once there is  *)
(* a signal: no reset is lost between the two threads.  (A behaviour that  *)
(* reaches the bound MaxResets stops there and is left out.)               *)
ReportedAfterReset ==
  <>[]present /\ [](resetCount < MaxResets) => <>[](reportedFor = Len(published))

(* atsc3_lock_supervisor.block.yml:44-45, "orchestrates graceful signal    *)
(* recovery when lock is lost": a signal that stays away is noticed.       *)
LossIsNoticed == <>[](~ present) => []<>(~ locked)
=============================================================================
