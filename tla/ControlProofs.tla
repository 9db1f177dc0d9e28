---------------------------- MODULE ControlProofs ----------------------------
(***************************************************************************)
(* Proofs about what the frame tracker, the lock supervisor, the receivers *)
(* of L1 signalling and the configuration bus do over several steps, for   *)
(* every configuration.                                                    *)
(***************************************************************************)
EXTENDS MCControl, CountingLemmas, SequenceTheorems, TLAPS

-----------------------------------------------------------------------------
(* lib/sync/frame_sync.cc: any positive counts, any search window, any       *)
(* chunk sizes and frame sizes.                                              *)


(* TypeOK and CountersBelowLimits are inductive together. *)
IInv == TypeOK /\ CountersBelowLimits

(* The relative boundary stays an integer, wherever a handler moves it. *)
LEMMA AdvanceType ==
  ASSUME NEW b \in Int, NEW n \in Nat, Advance(b, n)
  PROVE  boundary' \in Int
BY SampleAssumption DEF Advance

LEMMA InitIInv == Init => IInv
<1> SUFFICES ASSUME Init PROVE IInv
  OBVIOUS
<1>1. emitted \in BOOLEAN /\ signal \in BOOLEAN
  BY DEF Init
<1>2. QED
  BY <1>1, CountAssumption
  DEF Init, IInv, TypeOK, CountersBelowLimits, States

(* The Boolean part of TypeOK, apart from the arithmetic. *)
LEMMA BooleansStay ==
  ASSUME TypeOK, [Next]_vars
  PROVE  emitted' \in BOOLEAN /\ signal' \in BOOLEAN
BY DEF TypeOK, Next, Process, SearchHit, SearchMiss, AcquireHit, AcquireMiss,
       TrackHit, TrackMiss, TrackNothing, HoldoverHit, HoldoverMiss,
       SetBootstrapOffset, UpdateFrameParams, Reset, SignalLost, vars

LEMMA ProcessKeepsIInv ==
  ASSUME IInv, NEW n \in ChunkSizes, Process(n)
  PROVE  IInv'
<1> n \in Nat
  BY SampleAssumption
<1> emitted' \in BOOLEAN /\ signal' \in BOOLEAN
  BY BooleansStay DEF IInv, Next
<1> params.frame \in Int
  BY SampleAssumption DEF IInv, TypeOK
<1> USE CountAssumption
    DEF IInv, TypeOK, CountersBelowLimits, States, TransitionState, Stay
<1>1. CASE SearchHit(n)
  <2>1. boundary' \in Int
    BY <1>1, AdvanceType DEF SearchHit, CoarseOffsets
  <2>2. QED
    BY <1>1, <2>1 DEF SearchHit
<1>2. CASE SearchMiss(n)
  BY <1>2, AdvanceType DEF SearchMiss
<1>3. CASE AcquireHit(n)
  <2>1. boundary' \in Int
    <3>1. AcquireOffsets(n) \subseteq Int
      BY SampleAssumption DEF AcquireOffsets, WindowStart, HalfWindow
    <3>2. QED
      BY <1>3, <3>1, AdvanceType DEF AcquireHit
  <2>2. QED
    BY <1>3, <2>1 DEF AcquireHit
<1>4. CASE AcquireMiss(n)
  BY <1>4, AdvanceType DEF AcquireMiss
<1>5. CASE TrackHit(n)
  <2>1. boundary' \in Int
    <3>1. TrackOffsets(n) \subseteq Int
      BY SampleAssumption DEF TrackOffsets, WindowStart, HalfWindow
    <3>2. QED
      BY <1>5, <3>1, AdvanceType DEF TrackHit
  <2>2. QED
    BY <1>5, <2>1 DEF TrackHit
<1>6. CASE TrackMiss(n)
  BY <1>6, AdvanceType DEF TrackMiss
<1>7. CASE TrackNothing(n)
  BY <1>7, AdvanceType DEF TrackNothing
<1>8. CASE HoldoverHit(n)
  BY <1>8, AdvanceType DEF HoldoverHit
<1>9. CASE HoldoverMiss(n)
  <2>1. boundary' \in Int
    BY <1>9, AdvanceType DEF HoldoverMiss
  <2>2. QED
    BY <1>9, <2>1 DEF HoldoverMiss
<1>10. QED
  BY <1>1, <1>2, <1>3, <1>4, <1>5, <1>6, <1>7, <1>8, <1>9 DEF Process

LEMMA StepIInv ==
  ASSUME IInv, [Next]_vars
  PROVE  IInv'
<1> emitted' \in BOOLEAN /\ signal' \in BOOLEAN
  BY BooleansStay DEF IInv
<1> USE CountAssumption
    DEF IInv, TypeOK, CountersBelowLimits, States, TransitionState, Stay
<1>1. CASE \E n \in ChunkSizes : Process(n)
  BY <1>1, ProcessKeepsIInv
<1>2. CASE SetBootstrapOffset
  <2>1. boundary' \in Int
    BY <1>2, SampleAssumption, AdvanceType DEF SetBootstrapOffset
  <2>2. QED
    BY <1>2, <2>1 DEF SetBootstrapOffset
<1>3. CASE UpdateFrameParams \/ Reset \/ SignalLost
  BY <1>3 DEF UpdateFrameParams, Reset, SignalLost
<1>4. CASE UNCHANGED vars
  BY <1>4 DEF vars
<1>5. QED
  BY <1>1, <1>2, <1>3, <1>4 DEF Next

(* The types, and no counter survives into a state where it would make the *)
(* next decision too early.                                                *)
THEOREM CountersBounded == Spec => [](TypeOK /\ CountersBelowLimits)
<1>1. Init => IInv
  BY InitIInv
<1>2. IInv /\ [Next]_vars => IInv'
  BY StepIInv
<1>3. QED
  BY <1>1, <1>2, PTL DEF Spec, IInv

(* A lock is given up only into holdover, never straight into a search,    *)
(* except by reset(): the timing of the last frames is used first.         *)
THEOREM LossGoesThroughHoldover == Spec => LossThroughHoldover
<1>1. [Next]_vars =>
        [state = "LOCKED" /\ state' /= "LOCKED" => state' = "HOLDOVER" \/ Reset]_vars
  BY DEF Next, Process, SearchHit, SearchMiss, AcquireHit, AcquireMiss, TrackHit,
         TrackMiss, TrackNothing, HoldoverHit, HoldoverMiss, SetBootstrapOffset,
         UpdateFrameParams, SignalLost, TransitionState, Stay, vars
<1>2. QED
  BY <1>1, PTL DEF Spec, LossThroughHoldover

-----------------------------------------------------------------------------
(* blocks/atsc3_lock_supervisor_impl.cc: any threshold, any delay, any       *)
(* number of resets, with reports coming in in any order.                    *)

(* At most one thread is in trigger_reset(), which is what the numbering    *)
(* rests on: what it reads back is what it counted.                        *)
Alone == \A t, u \in resetting : t = u

NumberInv == SupervisorTypeOK /\ ResetsNumbered /\ Alone

(* Counting and sending keep the numbering, as long as nobody else does.   *)
LEMMA CountingNumbers ==
  ASSUME NumberInv, MutexFree, NEW t \in Threads, CountReset(t)
  PROVE  /\ resetCount' \in 0 .. MaxResets /\ unlocks' = 0 /\ elapsed' = 0
         /\ published' \in Seq(1 .. MaxResets) /\ resetting' \subseteq Threads
         /\ ResetsNumbered' /\ Alone'
<1>1. /\ resetCount \in 0 .. MaxResets /\ resetCount' = resetCount + 1
      /\ resetCount' \in 0 .. MaxResets
  BY SupervisorAssumption DEF CountReset, NumberInv, SupervisorTypeOK
<1>2. resetting' = {t} /\ published' = published /\ resetCount = Len(published)
  BY DEF CountReset, MutexFree, NumberInv, ResetsNumbered
<1>3. ResetsNumbered'
  BY <1>1, <1>2 DEF NumberInv, ResetsNumbered
<1>4. QED
  BY <1>1, <1>2, <1>3 DEF CountReset, Alone, NumberInv, SupervisorTypeOK

LEMMA SendingNumbers ==
  ASSUME NumberInv, NEW t \in Threads, SendReset(t)
  PROVE  /\ published' \in Seq(1 .. MaxResets) /\ resetting' = {}
         /\ ResetsNumbered' /\ Alone'
<1>1. resetting = {t} /\ resetting' = {}
  BY DEF NumberInv, Alone, SendReset
<1>2. /\ resetCount' = resetCount /\ resetCount = Len(published) + 1
      /\ resetCount \in 1 .. MaxResets
  BY <1>1, SupervisorAssumption DEF NumberInv, ResetsNumbered, SendReset, SupervisorTypeOK
<1>3. published' = Append(published, resetCount) /\ published \in Seq(1 .. MaxResets)
  BY DEF SendReset, NumberInv, SupervisorTypeOK
<1>4. /\ published' \in Seq(1 .. MaxResets) /\ Len(published') = resetCount
      /\ \A i \in 1 .. Len(published) : published'[i] = published[i]
      /\ published'[resetCount] = resetCount
  BY <1>2, <1>3
<1>5. \A i \in 1 .. Len(published') : published'[i] = i
  BY <1>2, <1>4 DEF NumberInv, ResetsNumbered
<1>6. QED
  BY <1>1, <1>2, <1>4, <1>5 DEF ResetsNumbered, Alone

(* The Boolean variable, apart from the arithmetic. *)
LEMMA LockedStaysBoolean ==
  ASSUME SupervisorTypeOK, [OpenNext]_supervisorVars
  PROVE  locked' \in BOOLEAN
BY DEF SupervisorTypeOK, OpenNext, SupervisorNext, HandlerStep, TakeReport, ApplyLock,
       ApplyUnlock, CountReset, ManualReset, SendReset, SetUnlockThreshold,
       SetRelockDelay, Tick, Report, supervisorVars

(* A queue of reports stays one: taking the oldest and adding a new one.   *)
LEMMA InboxStays ==
  ASSUME SupervisorTypeOK, [OpenNext]_supervisorVars
  PROVE  /\ inbox' \in Seq(Reports) /\ Len(inbox') <= MaxInbox
         /\ handling' \in {<<>>, <<"locked">>, <<"unlocked">>}
<1> USE SupervisorAssumption DEF SupervisorTypeOK
<1>1. CASE TakeReport
  <2>1. inbox /= <<>> /\ Head(inbox) \in Reports /\ Tail(inbox) \in Seq(Reports)
        /\ Len(Tail(inbox)) <= MaxInbox
    BY <1>1 DEF TakeReport
  <2>2. <<Head(inbox)>> \in {<<"locked">>, <<"unlocked">>}
    BY <2>1 DEF Reports
  <2>3. QED
    BY <1>1, <2>1, <2>2 DEF TakeReport
<1>2. ASSUME NEW b \in Reports, Report(b)
      PROVE  /\ inbox' \in Seq(Reports) /\ Len(inbox') <= MaxInbox
             /\ handling' \in {<<>>, <<"locked">>, <<"unlocked">>}
  BY <1>2 DEF Report
<1>3. CASE \/ ApplyLock \/ ApplyUnlock \/ ManualReset \/ (\E t \in Threads : SendReset(t))
           \/ SetUnlockThreshold \/ SetRelockDelay \/ Tick \/ UNCHANGED supervisorVars
  BY <1>3 DEF ApplyLock, ApplyUnlock, ManualReset, SendReset, SetUnlockThreshold,
              SetRelockDelay, Tick, supervisorVars
<1>4. QED
  BY <1>1, <1>2, <1>3 DEF OpenNext, SupervisorNext, HandlerStep

LEMMA NumberStep ==
  ASSUME NumberInv, [OpenNext]_supervisorVars
  PROVE  NumberInv'
<1>1. /\ locked' \in BOOLEAN
      /\ inbox' \in Seq(Reports) /\ Len(inbox') <= MaxInbox
      /\ handling' \in {<<>>, <<"locked">>, <<"unlocked">>}
  BY LockedStaysBoolean, InboxStays DEF NumberInv
<1> DEFINE Rest ==
      /\ unlocks \in Nat /\ resetCount \in 0 .. MaxResets
      /\ threshold \in Thresholds /\ delay \in Delays /\ elapsed \in 0 .. MaxElapsed
      /\ resetting \subseteq Threads /\ published \in Seq(1 .. MaxResets)
      /\ ResetsNumbered /\ Alone
<1>2. Rest
  BY DEF NumberInv, SupervisorTypeOK
<1>3. 0 \in Nat /\ 0 \in 0 .. MaxElapsed
  BY SupervisorAssumption
<1>4. CASE ManualReset
  <2>1. MutexFree /\ CountReset("api") /\ "api" \in Threads
        /\ UNCHANGED <<threshold, delay>>
    BY <1>4 DEF ManualReset, Threads
  <2>2. /\ resetCount' \in 0 .. MaxResets /\ unlocks' = 0 /\ elapsed' = 0
        /\ published' \in Seq(1 .. MaxResets) /\ resetting' \subseteq Threads
        /\ ResetsNumbered' /\ Alone'
    BY <2>1, CountingNumbers
  <2>3. QED
    BY <1>1, <1>2, <1>3, <2>1, <2>2 DEF NumberInv, SupervisorTypeOK
<1>5. CASE ApplyUnlock /\ unlocks + 1 >= threshold
  <2>1. MutexFree /\ CountReset("handler") /\ "handler" \in Threads
        /\ UNCHANGED <<threshold, delay>>
    BY <1>5 DEF ApplyUnlock, Threads
  <2>2. /\ resetCount' \in 0 .. MaxResets /\ unlocks' = 0 /\ elapsed' = 0
        /\ published' \in Seq(1 .. MaxResets) /\ resetting' \subseteq Threads
        /\ ResetsNumbered' /\ Alone'
    BY <2>1, CountingNumbers
  <2>3. QED
    BY <1>1, <1>2, <1>3, <2>1, <2>2 DEF NumberInv, SupervisorTypeOK
<1>6. ASSUME NEW t \in Threads, SendReset(t)
      PROVE  NumberInv'
  <2>1. /\ published' \in Seq(1 .. MaxResets) /\ resetting' = {}
        /\ ResetsNumbered' /\ Alone'
    BY <1>6, SendingNumbers
  <2>2. UNCHANGED <<unlocks, resetCount, threshold, delay, elapsed>>
    BY <1>6 DEF SendReset
  <2>3. QED
    BY <1>1, <1>2, <2>1, <2>2 DEF NumberInv, SupervisorTypeOK
<1>7. CASE \/ TakeReport \/ ApplyLock \/ (ApplyUnlock /\ ~ (unlocks + 1 >= threshold))
           \/ SetUnlockThreshold \/ SetRelockDelay \/ Tick
           \/ (\E b \in Reports : Report(b)) \/ UNCHANGED supervisorVars
  <2>1. UNCHANGED <<resetCount, resetting, published>>
    BY <1>7 DEF TakeReport, ApplyLock, ApplyUnlock, SetUnlockThreshold, SetRelockDelay, Tick,
                Report, supervisorVars
  <2>2. ResetsNumbered' /\ Alone'
    BY <1>2, <2>1 DEF ResetsNumbered, Alone
  <2>3. /\ unlocks' \in Nat /\ threshold' \in Thresholds /\ delay' \in Delays
        /\ elapsed' \in 0 .. MaxElapsed
    BY <1>2, <1>7, SupervisorAssumption
    DEF TakeReport, ApplyLock, ApplyUnlock, SetUnlockThreshold, SetRelockDelay, Tick,
        Report, supervisorVars
  <2>4. QED
    BY <1>1, <1>2, <2>1, <2>2, <2>3 DEF NumberInv, SupervisorTypeOK
<1>8. QED
  BY <1>4, <1>5, <1>6, <1>7 DEF OpenNext, SupervisorNext, HandlerStep

(* The types, and what the mutex is for: although a reset is counted in one *)
(* step and sent in another, the two threads never send a number twice,     *)
(* never skip one and never send them out of order (trigger_reset,          *)
(* manual_reset, handle_lock_status).                                      *)
THEOREM NumberedResets == OpenSpec => [](SupervisorTypeOK /\ ResetsNumbered)
<1>1. SupervisorInit => NumberInv
  <2> SUFFICES ASSUME SupervisorInit PROVE NumberInv
    OBVIOUS
  <2>1. locked \in BOOLEAN
    BY DEF SupervisorInit
  <2>2. Len(<<>>) = 0 /\ <<>> \in Seq(Reports) /\ <<>> \in Seq(1 .. MaxResets)
    OBVIOUS
  <2>3. QED
    BY <2>1, <2>2, SupervisorAssumption
    DEF SupervisorInit, NumberInv, SupervisorTypeOK, ResetsNumbered, Alone
<1>2. NumberInv /\ [OpenNext]_supervisorVars => NumberInv'
  BY NumberStep
<1>3. NumberInv => SupervisorTypeOK /\ ResetsNumbered
  BY DEF NumberInv
<1>4. QED
  BY <1>1, <1>2, <1>3, PTL DEF OpenSpec

-----------------------------------------------------------------------------
(* The frame tracker counts the detections that the history counts.        *)

CountsDetections ==
  /\ detections \in Nat
  /\ state = "ACQUIRING" => hits <= detections

SyncInv == IInv /\ CountsDetections

LEMMA InitSyncInv == Init /\ detections = 0 => SyncInv
BY InitIInv DEF SyncInv, CountsDetections, Init

(* In a step that leaves ACQUIRING alone, or leaves it, the count of hits   *)
(* goes up only by a detection.                                             *)
LEMMA HitsAreDetections ==
  ASSUME IInv, [Next]_vars, state = "ACQUIRING"
  PROVE  /\ state' = "ACQUIRING" => hits' = hits \/ (hits' = hits + 1 /\ Detected)
         /\ state' = "LOCKED" => Detected /\ hits + 1 >= LockAcquireCount
<1> USE DEF IInv, TypeOK, States, TransitionState, Stay
<1>1. ASSUME NEW n \in ChunkSizes, AcquireHit(n)
      PROVE  /\ hits' = hits \/ hits' = hits + 1
             /\ state' = "LOCKED" => hits + 1 >= LockAcquireCount
             /\ Detected
  <2>1. Detected
    BY <1>1 DEF Detected
  <2>2. QED
    BY <1>1, <2>1 DEF AcquireHit
<1>2. ASSUME NEW n \in ChunkSizes, AcquireMiss(n)
      PROVE  state' = "ACQUIRING" => hits' = hits /\ state' /= "LOCKED"
  BY <1>2 DEF AcquireMiss
<1>3. QED
  BY <1>1, <1>2
  DEF Next, Process, SearchHit, SearchMiss, AcquireMiss, TrackHit, TrackMiss,
      TrackNothing, HoldoverHit, HoldoverMiss, SetBootstrapOffset, UpdateFrameParams,
      Reset, SignalLost, vars

(* A search begins to acquire with one hit, and only acquiring or holdover  *)
(* locks.                                                                   *)
LEMMA OtherStates ==
  ASSUME IInv, [Next]_vars, state /= "ACQUIRING"
  PROVE  /\ state' = "ACQUIRING" => hits' = 1
         /\ state' = "LOCKED" /\ state /= "LOCKED" => state = "HOLDOVER"
BY DEF IInv, TypeOK, States, TransitionState, Stay,
       Next, Process, SearchHit, SearchMiss, AcquireHit, AcquireMiss, TrackHit, TrackMiss,
       TrackNothing, HoldoverHit, HoldoverMiss, SetBootstrapOffset, UpdateFrameParams,
       Reset, SignalLost, vars

LEMMA SyncStep ==
  ASSUME SyncInv, [SyncNext]_syncVars
  PROVE  /\ SyncInv'
         /\ state /= "LOCKED" /\ state' = "LOCKED" =>
              state = "HOLDOVER" \/ detections' >= LockAcquireCount
<1> USE DEF SyncInv, CountsDetections
<1>1. [Next]_vars
  BY DEF SyncNext, syncVars, vars
<1>2. IInv'
  BY <1>1, StepIInv
<1>3. hits \in Nat /\ hits' \in Nat
  BY <1>2 DEF IInv, TypeOK
<1>4. CASE SyncNext
  <2>1. detections' = CASE BeginsAcquiring -> 1
                        [] ~ BeginsAcquiring /\ Detected -> detections + 1
                        [] OTHER -> detections
    BY <1>4 DEF SyncNext, Detections
  <2>2. CASE state = "ACQUIRING"
    <3>1. ~ BeginsAcquiring
      BY <2>2 DEF BeginsAcquiring
    <3>2. detections' = IF Detected THEN detections + 1 ELSE detections
      BY <2>1, <3>1
    <3>3. QED
      BY <1>1, <1>2, <1>3, <2>2, <3>2, HitsAreDetections, CountAssumption
  <2>3. CASE state /= "ACQUIRING"
    <3>1. detections' \in Nat
      BY <2>1
    <3>2. state' = "ACQUIRING" => hits' = 1 /\ detections' = 1
      BY <1>1, <2>1, <2>3, OtherStates DEF BeginsAcquiring
    <3>3. QED
      BY <1>1, <1>2, <2>3, <3>1, <3>2, OtherStates
  <2>4. QED
    BY <2>2, <2>3
<1>5. CASE UNCHANGED syncVars
  BY <1>2, <1>5 DEF syncVars, vars
<1>6. QED
  BY <1>4, <1>5

(* A lock is only declared on evidence: after lock_acquire_count detections *)
(* or by a detection in holdover (FrameSync::process, for every            *)
(* configuration).                                                         *)
THEOREM LocksNeedDetections == ControlSpec => LockNeedsDetections
<1>1. ControlInit => SyncInv
  BY InitSyncInv DEF ControlInit
<1>2. [ControlNext]_allVars => [SyncNext]_syncVars
  BY DEF ControlNext, BesidesLoop, BesidesL1, allVars
<1>3. SyncInv /\ [SyncNext]_syncVars => SyncInv'
  BY SyncStep
<1>4. SyncInv /\ [SyncNext]_syncVars =>
        [state /= "LOCKED" /\ state' = "LOCKED" =>
           state = "HOLDOVER" \/ detections' >= LockAcquireCount]_syncVars
  BY SyncStep
<1>5. QED
  BY <1>1, <1>2, <1>3, <1>4, PTL DEF ControlSpec, LockNeedsDetections

-----------------------------------------------------------------------------
(* The supervisor counts the unlock reports that the history counts.       *)

StreakInv ==
  /\ unlocks \in Nat /\ streak \in Nat /\ unlocks <= streak
  /\ resetCount \in Nat
  /\ threshold \in Int

LEMMA InitStreakInv == SupervisorInit /\ streak = 0 => StreakInv
BY SupervisorAssumption DEF SupervisorInit, StreakInv

(* A report is acted upon by taking it out of the handler.                  *)
LEMMA NothingActed ==
  ASSUME UNCHANGED handling
  PROVE  ~ Acted("locked") /\ ~ Acted("unlocked")
BY DEF Acted

(* What each step of the supervisor does to the count of unlocks and to the *)
(* number of resets, and what it acts upon.                                 *)
LEMMA UnlocksAreReports ==
  ASSUME StreakInv, SupervisorNext
  PROVE  /\ resetCount' \in Nat /\ threshold' \in Int
         /\ \/ UNCHANGED <<unlocks, resetCount>> /\ ~ Acted("locked") /\ ~ Acted("unlocked")
            \/ unlocks' = 0 /\ resetCount' = resetCount + 1 /\ ~ Acted("unlocked")
            \/ unlocks' = 0 /\ Acted("locked") /\ ~ Acted("unlocked")
            \/ unlocks' = unlocks + 1 /\ UNCHANGED resetCount /\ Acted("unlocked")
            \/ /\ unlocks' = 0 /\ resetCount' = resetCount + 1
               /\ unlocks + 1 >= threshold
<1> USE SupervisorAssumption DEF StreakInv, Acted
<1>1. CASE TakeReport
  BY <1>1 DEF TakeReport
<1>2. CASE ApplyLock
  BY <1>2 DEF ApplyLock
<1>3. CASE ApplyUnlock
  BY <1>3 DEF ApplyUnlock, CountReset
<1>4. CASE ManualReset
  BY <1>4 DEF ManualReset, CountReset
<1>5. CASE \/ (\E t \in Threads : SendReset(t))
           \/ SetUnlockThreshold \/ SetRelockDelay \/ Tick
  <2>1. UNCHANGED <<unlocks, resetCount, handling>> /\ threshold' \in Int
    BY <1>5 DEF SendReset, SetUnlockThreshold, SetRelockDelay, Tick
  <2>2. ~ Acted("locked") /\ ~ Acted("unlocked")
    BY <2>1, NothingActed
  <2>3. QED
    BY <2>1, <2>2
<1>6. QED
  BY <1>1, <1>2, <1>3, <1>4, <1>5 DEF SupervisorNext, HandlerStep

(* The other blocks of the loop only put reports into the queue.            *)
LEMMA OthersReport ==
  ASSUME RecoveryNext, ~ SupervisorNext
  PROVE  UNCHANGED <<unlocks, resetCount, threshold, handling>>
BY DEF RecoveryNext, LoopNext, DetectorWork, DetectorReset, SignalChanges, ForeignReport,
       Report, supervisorVars

LEMMA StreakStep ==
  ASSUME StreakInv, [RecoveryNext]_recoveryVars
  PROVE  /\ StreakInv'
         /\ Acted("unlocked") /\ resetCount' /= resetCount => streak + 1 >= threshold
<1>1. CASE RecoveryNext
  <2>1. streak' = CASE resetCount' /= resetCount -> 0
                    [] resetCount' = resetCount /\ Acted("locked") -> 0
                    [] resetCount' = resetCount /\ Acted("unlocked") -> streak + 1
                    [] OTHER -> streak
    BY <1>1 DEF RecoveryNext, Streak
  <2>2. ~ (Acted("locked") /\ Acted("unlocked"))
    BY DEF Acted
  <2>3. streak' = IF resetCount' /= resetCount \/ Acted("locked") THEN 0
                  ELSE IF Acted("unlocked") THEN streak + 1 ELSE streak
    BY <2>1, <2>2
  <2>4. CASE SupervisorNext
    <3>1. /\ resetCount' \in Nat /\ threshold' \in Int
          /\ \/ UNCHANGED <<unlocks, resetCount>> /\ ~ Acted("locked") /\ ~ Acted("unlocked")
             \/ unlocks' = 0 /\ resetCount' = resetCount + 1 /\ ~ Acted("unlocked")
             \/ unlocks' = 0 /\ Acted("locked") /\ ~ Acted("unlocked")
             \/ unlocks' = unlocks + 1 /\ UNCHANGED resetCount /\ Acted("unlocked")
             \/ /\ unlocks' = 0 /\ resetCount' = resetCount + 1
                /\ unlocks + 1 >= threshold
      BY <1>1, <2>4, UnlocksAreReports
    <3> USE DEF StreakInv
    <3>2. CASE UNCHANGED <<unlocks, resetCount>> /\ ~ Acted("locked") /\ ~ Acted("unlocked")
      BY <2>3, <3>1, <3>2
    <3>3. CASE unlocks' = 0 /\ resetCount' = resetCount + 1 /\ ~ Acted("unlocked")
      BY <2>3, <3>1, <3>3
    <3>4. CASE unlocks' = 0 /\ Acted("locked") /\ ~ Acted("unlocked")
      BY <2>3, <3>1, <3>4
    <3>5. CASE unlocks' = unlocks + 1 /\ UNCHANGED resetCount /\ Acted("unlocked")
      BY <2>2, <2>3, <3>1, <3>5
    <3>6. CASE /\ unlocks' = 0 /\ resetCount' = resetCount + 1
               /\ unlocks + 1 >= threshold
      BY <2>3, <3>1, <3>6
    <3>7. QED
      BY <3>1, <3>2, <3>3, <3>4, <3>5, <3>6
  <2>5. CASE ~ SupervisorNext
    <3>1. UNCHANGED <<unlocks, resetCount, threshold, handling>>
      BY <1>1, <2>5, OthersReport
    <3>2. ~ Acted("locked") /\ ~ Acted("unlocked")
      BY <3>1, NothingActed
    <3>3. QED
      BY <2>3, <3>1, <3>2 DEF StreakInv
  <2>6. QED
    BY <2>4, <2>5
<1>2. CASE UNCHANGED recoveryVars
  BY <1>2 DEF StreakInv, recoveryVars, lockVars, supervisorVars
<1>3. QED
  BY <1>1, <1>2

(* Of its own accord the supervisor resets the receiver only after threshold *)
(* unlock reports in a row, whatever comes between them from other threads   *)
(* (handle_lock_status, manual_reset, set_unlock_threshold).                 *)
THEOREM ResetsJustified == ControlSpec => ResetJustified
<1>1. ControlInit => StreakInv
  BY InitStreakInv DEF ControlInit, LoopInit
<1>2. [ControlNext]_allVars => [RecoveryNext]_recoveryVars
  BY DEF ControlNext, BesidesSync, BesidesL1, allVars
<1>3. StreakInv /\ [RecoveryNext]_recoveryVars => StreakInv'
  BY StreakStep
<1>4. StreakInv /\ [RecoveryNext]_recoveryVars =>
        [Acted("unlocked") /\ resetCount' /= resetCount => streak + 1 >= threshold]_recoveryVars
  BY StreakStep
<1>5. QED
  BY <1>1, <1>2, <1>3, <1>4, PTL DEF ControlSpec, ResetJustified

-----------------------------------------------------------------------------
(* The receivers of L1 signalling: while no two calls of reconfigure()     *)
(* have overlapped, at most one is running, and what it has built is what  *)
(* the settings say.                                                       *)

Prepared(b) ==
  /\ job[b] = L1!AtRest => engine[b] = settings[b]
  /\ \A th, other \in L1!Threads :
       th # other /\ job[b][th] # <<>> => job[b][other] = <<>>
  /\ \A th \in L1!Threads :
       job[b][th] \in {<<>>, <<"reading">>, <<"built", settings[b]>>}

ReceiverInv ==
  /\ DOMAIN settings = Receivers /\ DOMAIN engine = Receivers
  /\ DOMAIN job = Receivers /\ DOMAIN raced = Receivers
  /\ \A b \in Receivers : job[b] = [th \in L1!Threads |-> job[b][th]]
  /\ \A b \in Receivers : ~ raced[b] => Prepared(b)

LEMMA InitReceiverInv == L1!Init => ReceiverInv
<1> SUFFICES ASSUME L1!Init PROVE ReceiverInv
  OBVIOUS
<1>1. /\ DOMAIN settings = Receivers /\ DOMAIN engine = Receivers
      /\ DOMAIN job = Receivers /\ DOMAIN raced = Receivers
      /\ \A b \in Receivers : job[b] = L1!AtRest /\ engine[b] = settings[b]
  BY DEF L1!Init
<1>2. QED
  BY <1>1 DEF ReceiverInv, Prepared, L1!AtRest

(* A reconfigure() that begins while another runs is remembered as a race;  *)
(* one that begins alone reads the settings of now.                         *)
LEMMA BeginPrepares ==
  ASSUME ReceiverInv, NEW b \in Receivers, NEW th \in L1!Threads, L1!Begin(b, th),
         NEW new, settings' = [settings EXCEPT ![b] = new], engine' = engine
  PROVE  ReceiverInv'
<1> USE DEF ReceiverInv, L1!Begin
<1>1. /\ DOMAIN settings' = Receivers /\ DOMAIN engine' = Receivers
      /\ DOMAIN job' = Receivers /\ DOMAIN raced' = Receivers
  OBVIOUS
<1>2. ASSUME NEW c \in Receivers, c # b
      PROVE  /\ job'[c] = [u \in L1!Threads |-> job'[c][u]]
             /\ ~ raced'[c] => Prepared(c)'
  BY <1>2 DEF Prepared
<1>3. job'[b] = [job[b] EXCEPT ![th] = <<"reading">>]
  OBVIOUS
<1>4. job'[b] = [u \in L1!Threads |-> job'[b][u]]
  BY <1>3
<1>5. ASSUME ~ raced'[b] PROVE Prepared(b)'
  <2>1. job[b] = L1!AtRest
    BY <1>5
  <2>2. job'[b] = [u \in L1!Threads |-> IF u = th THEN <<"reading">> ELSE <<>>]
    BY <1>3, <2>1 DEF L1!AtRest
  <2>3. job'[b][th] # <<>>
    BY <2>2
  <2>4. job'[b] # L1!AtRest
    BY <2>3 DEF L1!AtRest
  <2>5. QED
    BY <2>2, <2>4 DEF Prepared
<1>6. QED
  BY <1>1, <1>2, <1>4, <1>5

LEMMA ReceiverStep ==
  ASSUME ReceiverInv, NEW b \in Receivers, L1!Receiver(b)
  PROVE  ReceiverInv'
<1>1. CASE L1!IgnoreConfig(b)
  BY <1>1 DEF L1!IgnoreConfig, L1!TakeMessage, ReceiverInv, Prepared
<1>2. CASE L1!ApplyConfig(b)
  <2> DEFINE new == L1!Merged(b, L1!Entry(b, Head(queue[b])).values)
  <2>1. /\ engine' = engine /\ settings' = [settings EXCEPT ![b] = new]
        /\ IF L1!Rebuilds(b, new) THEN L1!Begin(b, "handler") ELSE UNCHANGED <<job, raced>>
    BY <1>2 DEF L1!ApplyConfig, L1!TakeMessage
  <2> HIDE DEF new
  <2>2. CASE L1!Rebuilds(b, new)
    BY <2>1, <2>2, BeginPrepares DEF L1!Threads
  <2>3. CASE ~ L1!Rebuilds(b, new)
    <3>1. new = settings[b]
      BY <2>3 DEF L1!Rebuilds
    <3>2. settings' = [settings EXCEPT ![b] = settings[b]]
      BY <2>1, <3>1
    <3>3. DOMAIN settings' = Receivers /\ \A c \in Receivers : settings'[c] = settings[c]
      BY <3>2 DEF ReceiverInv
    <3>4. QED
      BY <2>1, <2>3, <3>3 DEF ReceiverInv, Prepared
  <2>4. QED
    BY <2>2, <2>3
<1>3. CASE L1!SetSetting(b)
  <2>1. PICK k \in Keys[b] : \E v \in Values[k] :
          settings' = [settings EXCEPT ![b][k] = v] /\ L1!Begin(b, "gui") /\ engine' = engine
    BY <1>3 DEF L1!SetSetting
  <2>a. PICK v \in Values[k] :
          settings' = [settings EXCEPT ![b][k] = v] /\ L1!Begin(b, "gui") /\ engine' = engine
    BY <2>1
  <2>2. settings' = [settings EXCEPT ![b] = [settings[b] EXCEPT ![k] = v]]
    BY <2>a
  <2>3. QED
    BY <2>a, <2>2, BeginPrepares DEF L1!Threads
<1>4. CASE L1!SetPlpId(b)
  BY <1>4 DEF L1!SetPlpId, ReceiverInv, Prepared
<1>5. ASSUME NEW th \in L1!Threads, L1!Build(b, th) PROVE ReceiverInv'
  <2>1. /\ job[b][th] = <<"reading">>
        /\ job' = [job EXCEPT ![b][th] = <<"built", settings[b]>>]
        /\ UNCHANGED <<settings, engine, raced>>
    BY <1>5 DEF L1!Build
  <2>2. /\ DOMAIN job' = Receivers
        /\ \A c \in Receivers : c # b => job'[c] = job[c]
        /\ job'[b] = [job[b] EXCEPT ![th] = <<"built", settings[b]>>]
    BY <2>1 DEF ReceiverInv
  <2>3. job'[b] = [u \in L1!Threads |-> IF u = th THEN <<"built", settings[b]>> ELSE job[b][u]]
    BY <2>2 DEF ReceiverInv
  <2>4. job[b][th] # <<>> /\ job'[b][th] # <<>> /\ job'[b] # L1!AtRest
    BY <2>1, <2>3 DEF L1!AtRest
  <2>5. ASSUME ~ raced[b] PROVE Prepared(b)'
    <3>1. \A u \in L1!Threads : u # th => job[b][u] = <<>> /\ job'[b][u] = <<>>
      BY <2>3, <2>4, <2>5 DEF ReceiverInv, Prepared
    <3>2. job'[b][th] = <<"built", settings'[b]>>
      BY <2>1, <2>3
    <3>3. QED
      BY <2>4, <3>1, <3>2 DEF Prepared
  <2>6. \A c \in Receivers \ {b} : ~ raced[c] => Prepared(c)'
    BY <2>1, <2>2 DEF ReceiverInv, Prepared
  <2>7. QED
    <3>1. ~ raced'[b] => Prepared(b)'
      BY <2>1, <2>5
    <3>2. QED
      BY <2>1, <2>2, <2>3, <3>1, <2>6 DEF ReceiverInv
<1>6. ASSUME NEW th \in L1!Threads, L1!Replace(b, th) PROVE ReceiverInv'
  <2>1. /\ Len(job[b][th]) = 2
        /\ engine' = [engine EXCEPT ![b] = job[b][th][2]]
        /\ job' = [job EXCEPT ![b][th] = <<>>]
        /\ UNCHANGED <<settings, raced>>
    BY <1>6 DEF L1!Replace
  <2>2. /\ DOMAIN job' = Receivers /\ DOMAIN engine' = Receivers
        /\ \A c \in Receivers : c # b => job'[c] = job[c] /\ engine'[c] = engine[c]
        /\ job'[b] = [job[b] EXCEPT ![th] = <<>>]
        /\ engine'[b] = job[b][th][2]
    BY <2>1 DEF ReceiverInv
  <2>3. job'[b] = [u \in L1!Threads |-> IF u = th THEN <<>> ELSE job[b][u]]
    BY <2>2 DEF ReceiverInv
  <2>4. ASSUME ~ raced[b] PROVE Prepared(b)'
    <3>1. job[b][th] = <<"built", settings[b]>>
      <4>1. job[b][th] \in {<<>>, <<"reading">>, <<"built", settings[b]>>}
        BY <2>4 DEF ReceiverInv, Prepared
      <4>2. job[b][th] # <<>> /\ job[b][th] # <<"reading">>
        BY <2>1
      <4>3. QED
        BY <4>1, <4>2
    <3>2. job[b][th] # <<>> /\ engine'[b] = settings[b]
      BY <2>2, <3>1
    <3>3. \A u \in L1!Threads : job'[b][u] = <<>>
      BY <2>3, <2>4, <3>2 DEF ReceiverInv, Prepared
    <3>4. QED
      BY <2>1, <3>2, <3>3 DEF Prepared
  <2>5. \A c \in Receivers \ {b} : ~ raced[c] => Prepared(c)'
    BY <2>1, <2>2 DEF ReceiverInv, Prepared
  <2>6. QED
    BY <2>1, <2>2, <2>3, <2>4, <2>5 DEF ReceiverInv
<1>7. QED
  BY <1>1, <1>2, <1>3, <1>4, <1>5, <1>6 DEF L1!Receiver

(* A block works with the settings it reports, whatever messages and setter *)
(* calls it has had, unless two calls of its reconfigure() overlapped       *)
(* (constellation_demapper_impl, fec_decode_impl, time_deinterleaver_impl). *)
THEOREM ReceiversKeepInStep == ControlSpec => []ReceiversInStep
<1>1. ControlInit => ReceiverInv
  BY InitReceiverInv DEF ControlInit
<1>2. ReceiverInv /\ [ControlNext]_allVars => ReceiverInv'
  <2> SUFFICES ASSUME ReceiverInv, [ControlNext]_allVars PROVE ReceiverInv'
    OBVIOUS
  <2>1. ASSUME NEW b \in Receivers, L1!Receiver(b) PROVE ReceiverInv'
    BY <2>1, ReceiverStep
  <2>2. CASE UNCHANGED <<settings, engine, job, raced>>
    BY <2>2 DEF ReceiverInv, Prepared
  <2>3. (\E b \in Receivers : L1!Receiver(b)) \/ UNCHANGED <<settings, engine, job, raced>>
    BY DEF ControlNext, BesidesSync, BesidesLoop, BesidesL1, allVars, controlVars, L1!Next, L1!Signal,
           L1!Monitor, L1!MonitorWake, L1!MonitorParse, L1!AskMonitor, L1!ReadField,
           L1!GetJson, L1!Acquire, L1!receiverVars
  <2>4. QED
    BY <2>1, <2>2, <2>3
<1>3. ReceiverInv => ReceiversInStep
  BY DEF ReceiverInv, Prepared, ReceiversInStep, L1!ReceiversInStep
<1>4. QED
  BY <1>1, <1>2, <1>3, PTL DEF ControlSpec

-----------------------------------------------------------------------------
(* The configuration bus: the array of observers holds every subscriber,   *)
(* and taking one out of it leaves the others in.                          *)

(* The smallest of some positions. *)
LEMMA SmallestOf ==
  ASSUME NEW S \in SUBSET Nat, S # {}
  PROVE  Path!Min(S) \in S
<1>1. \E i \in S : \A j \in S : i <= j
  BY Least
<1>2. QED
  BY <1>1 DEF Path!Min

(* No observer is in the array twice. *)
Once(s) == \A i, j \in 1 .. Len(s) : s[i] = s[j] => i = j

(* What is left is of the places but the one taken out, in their order. *)
LEMMA OthersOnly ==
  ASSUME NEW S, NEW s \in Seq(S), NEW k \in 1 .. Len(s)
  PROVE  /\ Len(Path!RemoveAt(s, k)) = Len(s) - 1
         /\ \A i \in 1 .. Len(s) - 1 :
              Path!RemoveAt(s, k)[i] = IF i < k THEN s[i] ELSE s[i + 1]
<1> DEFINE front == SubSeq(s, 1, k - 1)
           back == SubSeq(s, k + 1, Len(s))
<1>1. /\ front \in Seq(S) /\ Len(front) = k - 1
      /\ \A j \in 1 .. k - 1 : front[j] = s[j]
  OBVIOUS
<1>2. /\ back \in Seq(S) /\ Len(back) = Len(s) - k
      /\ \A j \in 1 .. Len(s) - k : back[j] = s[k + j]
  OBVIOUS
<1>3. Path!RemoveAt(s, k) = front \o back
  BY DEF Path!RemoveAt
<1> HIDE DEF front, back
<1>l. Len(s) \in Nat /\ k \in 1 .. Len(s)
  OBVIOUS
<1>4. Len(front \o back) = Len(s) - 1
  <2>1. Len(front \o back) = Len(front) + Len(back)
    BY <1>1, <1>2, ConcatProperties
  <2>2. QED
    BY <1>1, <1>2, <1>l, <2>1
<1>p. \A i \in 1 .. Len(front) + Len(back) :
        (front \o back)[i] = IF i <= Len(front) THEN front[i] ELSE back[i - Len(front)]
  BY <1>1, <1>2, ConcatProperties
<1>5. ASSUME NEW i \in 1 .. Len(s) - 1
      PROVE  (front \o back)[i] = IF i < k THEN s[i] ELSE s[i + 1]
  <2>0. i \in 1 .. Len(front) + Len(back)
    BY <1>1, <1>2, <1>l
  <2>1. CASE i < k
    BY <1>1, <1>l, <1>p, <2>0, <2>1
  <2>2. CASE ~ (i < k)
    <3>1. i - (k - 1) \in 1 .. Len(s) - k /\ k + (i - (k - 1)) = i + 1
      BY <2>2
    <3>2. (front \o back)[i] = back[i - (k - 1)]
      BY <1>1, <1>l, <1>p, <2>0, <2>2
    <3>3. back[i - (k - 1)] = s[k + (i - (k - 1))]
      BY <1>2, <3>1
    <3>4. QED
      BY <2>2, <3>1, <3>2, <3>3
  <2>3. QED
    BY <2>1, <2>2
<1>6. QED
  BY <1>3, <1>4, <1>5

(* Everything but the entry taken out is still there. *)
LEMMA OthersStay ==
  ASSUME NEW S, NEW s \in Seq(S), NEW k \in 1 .. Len(s), NEW i \in 1 .. Len(s), i # k
  PROVE  \E j \in 1 .. Len(Path!RemoveAt(s, k)) : Path!RemoveAt(s, k)[j] = s[i]
<1>1. CASE i < k
  <2>1. i \in 1 .. Len(s) - 1
    BY <1>1
  <2>2. QED
    BY <1>1, <2>1, OthersOnly
<1>2. CASE i > k
  <2>1. i - 1 \in 1 .. Len(s) - 1 /\ ~ (i - 1 < k) /\ (i - 1) + 1 = i
    BY <1>2
  <2>2. QED
    BY <2>1, OthersOnly
<1>3. QED
  BY <1>1, <1>2

LEMMA TakenOut ==
  ASSUME NEW s \in Seq(Observers), NEW o, Path!Contains(s, o), Once(s)
  PROVE  /\ Path!RemoveFirst(s, o) \in Seq(Observers) /\ Once(Path!RemoveFirst(s, o))
         /\ \A p : Path!Contains(Path!RemoveFirst(s, o), p) <=> p # o /\ Path!Contains(s, p)
<1> DEFINE places == {i \in 1 .. Len(s) : s[i] = o}
           k == Path!Min(places)
<1>1. places # {} /\ places \in SUBSET Nat
  BY DEF Path!Contains
<1>2. k \in 1 .. Len(s) /\ s[k] = o
  <2>1. k \in places
    BY <1>1, SmallestOf
  <2>2. QED
    BY <2>1
<1>3. Path!RemoveFirst(s, o) = Path!RemoveAt(s, k)
  BY <1>1 DEF Path!RemoveFirst, Path!SelectInSeq
<1> HIDE DEF k
<1>4. Path!RemoveAt(s, k) \in Seq(Observers)
  BY <1>2 DEF Path!RemoveAt
<1>5. ASSUME NEW p, p # o, Path!Contains(s, p)
      PROVE  Path!Contains(Path!RemoveAt(s, k), p)
  BY <1>2, <1>5, OthersStay DEF Path!Contains
<1> DEFINE left == Path!RemoveAt(s, k)
<1>6. \A i \in 1 .. Len(left) :
        \E j \in 1 .. Len(s) : /\ j # k /\ left[i] = s[j]
                              /\ j = IF i < k THEN i ELSE i + 1
  <2>1. /\ Len(left) = Len(s) - 1
        /\ \A i \in 1 .. Len(s) - 1 : left[i] = IF i < k THEN s[i] ELSE s[i + 1]
    BY <1>2, OthersOnly
  <2> HIDE DEF left
  <2>2. QED
    BY <1>2, <2>1
<1> HIDE DEF left
<1>7. ASSUME NEW p, Path!Contains(left, p)
      PROVE  p # o /\ Path!Contains(s, p)
  BY <1>2, <1>6, <1>7 DEF Path!Contains, Once
<1>8. Once(left)
  <2>1. SUFFICES ASSUME NEW i \in 1 .. Len(left), NEW j \in 1 .. Len(left), left[i] = left[j]
                 PROVE  i = j
    BY DEF Once
  <2>2. PICK u \in 1 .. Len(s) : left[i] = s[u] /\ u = IF i < k THEN i ELSE i + 1
    BY <1>6
  <2>3. PICK v \in 1 .. Len(s) : left[j] = s[v] /\ v = IF j < k THEN j ELSE j + 1
    BY <1>6
  <2>4. u = v
    BY <2>1, <2>2, <2>3 DEF Once
  <2>5. QED
    BY <1>2, <2>2, <2>3, <2>4
<1>9. QED
  BY <1>3, <1>4, <1>5, <1>7, <1>8 DEF left

ObserverInv ==
  /\ observers \in Seq(Observers) /\ Once(observers)
  /\ \A o : o \in subscribed <=> Path!Contains(observers, o)
  /\ DOMAIN due = Observers /\ told = due

LEMMA InitObserverInv == Path!Init => ObserverInv
BY DEF Path!Init, ObserverInv, Path!Contains, Once

LEMMA ObserverStep ==
  ASSUME ObserverInv, Path!Next
  PROVE  ObserverInv'
<1> USE DEF ObserverInv
<1>1. CASE Path!DecodePre \/ Path!DecodePost \/ Path!GiveUp
  BY <1>1 DEF Path!DecodePre, Path!DecodePost, Path!GiveUp, Path!busVars
<1>2. CASE Path!Publish
  <2>1. /\ UNCHANGED <<observers, subscribed>>
        /\ told' = [o \in Observers |-> IF Path!Contains(observers, o)
                                        THEN Append(told[o], Path!Built) ELSE told[o]]
        /\ due' = [o \in Observers |-> IF o \in subscribed
                                       THEN Append(due[o], Path!Built) ELSE due[o]]
    BY <1>2 DEF Path!Publish
  <2>2. told' = due'
    BY <2>1
  <2>3. DOMAIN due' = Observers
    BY <2>1
  <2>4. QED
    BY <2>1, <2>2, <2>3
<1>3. CASE Path!ClearObservers
  BY <1>3 DEF Path!ClearObservers, Path!Contains, Once
<1>4. ASSUME NEW o \in Observers, Path!Register(o) PROVE ObserverInv'
  <2>1. /\ observers' = Append(observers, o) /\ subscribed' = subscribed \cup {o}
        /\ told' = [told EXCEPT ![o] = <<>>] /\ due' = [due EXCEPT ![o] = <<>>]
        /\ ~ Path!Contains(observers, o)
    BY <1>4 DEF Path!Register
  <2>2. /\ Len(observers') = Len(observers) + 1
        /\ \A i \in 1 .. Len(observers) : observers'[i] = observers[i]
        /\ observers'[Len(observers) + 1] = o
        /\ observers' \in Seq(Observers)
    BY <2>1
  <2>3. \A p : Path!Contains(observers', p) <=> Path!Contains(observers, p) \/ p = o
    BY <2>2 DEF Path!Contains
  <2>4. Once(observers')
    BY <2>1, <2>2 DEF Path!Contains, Once
  <2>5. QED
    BY <2>1, <2>2, <2>3, <2>4
<1>5. ASSUME NEW o \in Observers, Path!RegisterNothing(o) PROVE ObserverInv'
  BY <1>5 DEF Path!RegisterNothing, Path!vars, Path!busVars
<1>6. ASSUME NEW o \in Observers, Path!Unregister(o) PROVE ObserverInv'
  <2>1. /\ Path!Contains(observers, o) /\ observers' = Path!RemoveFirst(observers, o)
        /\ subscribed' = subscribed \ {o} /\ UNCHANGED <<told, due>>
    BY <1>6 DEF Path!Unregister, Path!Without
  <2>2. /\ observers' \in Seq(Observers) /\ Once(observers')
        /\ \A p : Path!Contains(observers', p) <=> p # o /\ Path!Contains(observers, p)
    BY <2>1, TakenOut
  <2>3. QED
    BY <2>1, <2>2
<1>7. QED
  BY <1>1, <1>2, <1>3, <1>4, <1>5, <1>6 DEF Path!Next

-----------------------------------------------------------------------------
(* What is decoded with good CRCs is the frame on the air.                 *)

BroadcastInv ==
  /\ onAir \in Frames
  /\ stage \in {"post", "build"} /\ pre.valid => pre = Path!Unpack(onAir.pre)
  /\ stage = "build" /\ post.valid =>
       post.plps = [i \in DOMAIN onAir.plps |-> Path!Unpack(onAir.plps[i])]
  /\ current # None /\ current.valid =>
       \E f \in Frames : current = Path!BroadcastOf(f)

LEMMA UnpackedIsMarked ==
  ASSUME NEW f \in Frames
  PROVE  /\ Path!Unpack(f.pre).valid = TRUE
         /\ [Path!Unpack(f.pre) EXCEPT !.valid = TRUE] = Path!Unpack(f.pre)
<1>1. "valid" \notin DOMAIN f.pre
  BY FramesAssumption
<1>2. QED
  BY <1>1 DEF Path!Unpack

LEMMA BroadcastStep ==
  ASSUME BroadcastInv, Path!Next
  PROVE  BroadcastInv'
<1> USE DEF BroadcastInv
<1>1. CASE Path!DecodePre
  <2>1. onAir' \in Frames /\ stage' = "post" /\ current' = current
    BY <1>1 DEF Path!DecodePre, Path!busVars
  <2>2. PICK r \in Path!Received(onAir', "pre") :
          pre' = [Path!Unpack(r.sent) EXCEPT !.valid = r.valid]
    BY <1>1 DEF Path!DecodePre
  <2>3. CASE r = [sent |-> onAir'.pre, valid |-> TRUE]
    <3>1. pre' = [Path!Unpack(onAir'.pre) EXCEPT !.valid = TRUE]
      BY <2>2, <2>3
    <3>2. pre' = Path!Unpack(onAir'.pre)
      BY <2>1, <3>1, UnpackedIsMarked
    <3>3. QED
      BY <2>1, <3>2
  <2>4. CASE \E d \in Damage : r = [sent |-> d.pre, valid |-> FALSE]
    <3>1. PICK d \in Damage : r = [sent |-> d.pre, valid |-> FALSE]
      BY <2>4
    <3>2. pre' = [Path!Unpack(d.pre) EXCEPT !.valid = FALSE]
      BY <2>2, <3>1
    <3>3. pre'.valid = FALSE
      BY <3>2 DEF Path!Unpack
    <3>4. QED
      BY <2>1, <3>3
  <2>5. r = [sent |-> onAir'.pre, valid |-> TRUE] \/
        \E d \in Damage : r = [sent |-> d.pre, valid |-> FALSE]
    BY DEF Path!Received
  <2>6. QED
    BY <2>3, <2>4, <2>5
<1>2. CASE Path!DecodePost
  <2>1. stage = "post" /\ stage' = "build" /\ UNCHANGED <<onAir, pre, current>>
    BY <1>2 DEF Path!DecodePost, Path!busVars
  <2>2. PICK r \in Path!Received(onAir, "plps") :
          post' = [plps |-> Path!UnpackPlps(r.sent, pre.subframes), valid |-> r.valid]
    BY <1>2 DEF Path!DecodePost
  <2>3. CASE r = [sent |-> onAir.plps, valid |-> TRUE]
    <3>1. onAir.plps # <<>>
      BY FramesAssumption
    <3>2. post'.plps = [i \in DOMAIN onAir.plps |-> Path!Unpack(onAir.plps[i])]
      BY <2>2, <2>3, <3>1 DEF Path!UnpackPlps
    <3>3. QED
      BY <2>1, <3>2
  <2>4. CASE r.valid = FALSE
    BY <2>1, <2>2, <2>4
  <2>5. r = [sent |-> onAir.plps, valid |-> TRUE] \/ r.valid = FALSE
    BY DEF Path!Received
  <2>6. QED
    BY <2>3, <2>4, <2>5
<1>3. CASE Path!GiveUp
  BY <1>3 DEF Path!GiveUp, Path!busVars
<1>4. CASE Path!Publish
  <2>1. /\ stage = "build" /\ stage' = "idle" /\ onAir' = onAir
        /\ current' = Path!Built
    BY <1>4 DEF Path!Publish
  <2>2. ASSUME pre.valid, post.valid PROVE Path!Built = Path!BroadcastOf(onAir)
    <3>1. [pre EXCEPT !.valid = TRUE] = Path!Unpack(onAir.pre)
      BY <2>1, <2>2, UnpackedIsMarked
    <3>2. post.plps = [i \in DOMAIN onAir.plps |-> Path!Unpack(onAir.plps[i])]
      BY <2>1, <2>2
    <3>3. (pre.valid /\ post.valid) = TRUE
      BY <2>2
    <3>4. QED
      BY <3>1, <3>2, <3>3 DEF Path!Built, Path!BroadcastOf
  <2>3. Path!Built.valid => pre.valid /\ post.valid
    BY DEF Path!Built
  <2>4. QED
    BY <2>1, <2>2, <2>3
<1>5. CASE \/ Path!ClearObservers
           \/ \E o \in Observers :
                Path!Register(o) \/ Path!RegisterNothing(o) \/ Path!Unregister(o)
  BY <1>5 DEF Path!ClearObservers, Path!Register, Path!RegisterNothing, Path!Unregister,
              Path!vars, Path!busVars
<1>6. QED
  BY <1>1, <1>2, <1>3, <1>4, <1>5 DEF Path!Next

(* An observer is told every configuration published while it is            *)
(* registered, each once, and none after that, and one marked valid is that *)
(* of one broadcast frame (ConfigBus, L1Decoder, for any frames, damage and *)
(* observers).                                                              *)
THEOREM ObserversToldTheBroadcast == ControlSpec => []ObserversKnowTheBroadcast
<1>1. ControlInit => ObserverInv /\ BroadcastInv
  <2>1. Path!Init => BroadcastInv
    BY DEF Path!Init, BroadcastInv
  <2>2. QED
    BY <2>1, InitObserverInv DEF ControlInit
<1>2. ObserverInv /\ BroadcastInv /\ [ControlNext]_allVars => ObserverInv' /\ BroadcastInv'
  <2> SUFFICES ASSUME ObserverInv, BroadcastInv, [ControlNext]_allVars
               PROVE  ObserverInv' /\ BroadcastInv'
    OBVIOUS
  <2>1. CASE Path!Next
    BY <2>1, ObserverStep, BroadcastStep
  <2>2. CASE UNCHANGED pathVars
    BY <2>2 DEF pathVars, ObserverInv, BroadcastInv
  <2>3. Path!Next \/ UNCHANGED pathVars
    BY DEF ControlNext, BesidesSync, BesidesLoop, BesidesL1, allVars
  <2>4. QED
    BY <2>1, <2>2, <2>3
<1>3. ObserverInv /\ BroadcastInv => ObserversKnowTheBroadcast
  BY DEF ObserverInv, BroadcastInv, ObserversKnowTheBroadcast, Path!ObserversKnowTheBroadcast
<1>4. QED
  BY <1>1, <1>2, <1>3, PTL DEF ControlSpec
=============================================================================
