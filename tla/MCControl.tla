------------------------------ MODULE MCControl ------------------------------
(* Synchronisation and signalling: the frame tracker, the lock recovery loop, *)
(* the control plane behind L1 signalling and the path from L1 bits to the    *)
(* configuration bus.  They share no state in the repository as it stands; a  *)
(* behaviour is one of them alone, the unit that the initial state chooses.   *)
EXTENDS FrameSync, LockSupervisor

CONSTANTS
  None,
  Receivers, Keys, Values, Ids, Messages, MaxMessages, MaxCalls,   \* L1Control
  Frames, Fields, Damage, Observers, MaxObservers, MaxFrames       \* SignallingPath

VARIABLES
  unit,
  detections,    \* history: preamble detections since acquisition began
  streak,        \* history: unlock reports acted upon since the last lock or reset
  queue, messages, calls, plp, settings, engine, job, raced,     \* L1Control
  config, mutex, waits, announced,
  frames, onAir, stage, pre, post, observers, current, subscribed, due, told  \* SignallingPath

syncVars == <<vars, detections>>
recoveryVars == <<lockVars, streak>>
controlVars ==
  <<queue, messages, calls, plp, settings, engine, job, raced, config, mutex, waits, announced>>
pathVars == <<frames, onAir, stage, pre, post, observers, current, subscribed, due, told>>
allVars == <<unit, syncVars, recoveryVars, controlVars, pathVars>>

-----------------------------------------------------------------------------
(* The frame tracker, with mutable frame parameters: a frame of one 4-sample  *)
(* symbol plus a prefix, and one of two symbols; bootstraps two samples ago,  *)
(* now, at the end of a short chunk, in a later chunk.                        *)
MCFrameParams == {[fft |-> 4, frame |-> 5], [fft |-> 4, frame |-> 10]}
MCBootstrapOffsets == {-2, 0, 4, 8}

BeginsAcquiring == state' = "ACQUIRING" /\ state /= "ACQUIRING"

Detected == \E n \in ChunkSizes : AcquireHit(n)

Detections ==
  detections' = CASE BeginsAcquiring -> 1
                  [] ~ BeginsAcquiring /\ Detected -> detections + 1
                  [] OTHER -> detections

SyncNext == Next /\ Detections

(* Samples keep coming. *)
SyncProcess == (\E n \in ChunkSizes : Process(n)) /\ Detections

(* The recovery loop, with a further sender on the lock_status port, which    *)
(* may report anything (the port is open to every block of a flowgraph) but   *)
(* leaves room in the queue for the detector.                                 *)
Acted(b) == handling = <<b>> /\ handling' = <<>>

Streak ==
  streak' = CASE resetCount' /= resetCount -> 0
              [] resetCount' = resetCount /\ Acted("locked") -> 0
              [] resetCount' = resetCount /\ Acted("unlocked") -> streak + 1
              [] OTHER -> streak

ForeignReport ==
  /\ Len(inbox) < MaxInbox - 1
  /\ \E b \in Reports : Report(b)
  /\ UNCHANGED loopVars

RecoveryNext == (LoopNext \/ ForeignReport) /\ Streak

(* The loop as the connection example shows it, with no other sender. *)
ConnectedNext == LoopNext /\ Streak

-----------------------------------------------------------------------------
(* Two receivers: one that rebuilds for every message and one that does so    *)
(* for a change; messages without PLPs, with its PLP first, second, and with  *)
(* some of the settings only.                                                 *)
Whole == [id |-> 0, values |-> [modulation |-> 2, code_rate |-> 7, codeword_length |-> 16200]]
RateOnly == [id |-> 1, values |-> [code_rate |-> 7]]

MCReceivers == {"demapper", "fec"}
MCKeys == [demapper |-> {"modulation", "code_rate"}, fec |-> {"code_rate", "codeword_length"}]
MCValues == [modulation |-> {0, 2}, code_rate |-> {5, 7}, codeword_length |-> {16200, 64800}]
MCIds == {-1, 0, 1}
MCMessages == {<<>>, <<RateOnly, Whole>>, <<Whole>>}

(* One receiver beside the monitor, and one message of one PLP. *)
MCFecKeys == [fec |-> {"code_rate"}]
MCOneMessage == {<<RateOnly>>}

L1 == INSTANCE L1Control WITH published <- announced

(* Three frames' parts: of one PLP, of two, and what damaged bits read as;    *)
(* the last value of each field is what a reserved index gives.               *)
Sent(fft, subframes, plps) == [pre |-> [fft |-> fft, subframes |-> subframes], plps |-> plps]

MCFrames == {Sent(1, 2, <<[rate |-> 1]>>), Sent(4, 2, <<[rate |-> 2], [rate |-> 3]>>)}
MCFields == [fft |-> <<8, 16, 32, 8>>, subframes |-> <<0, 1, 2>>, rate |-> <<2, 3, 7>>]
MCDamage == {Sent(3, 3, <<>>)}

(* A broadcast frame carries a PLP, and no field of L1-Pre is called as the   *)
(* mark of a good CRC is.                                                     *)
ASSUME FramesAssumption ==
  \A f \in Frames : f.plps # <<>> /\ "valid" \notin DOMAIN f.pre

Path == INSTANCE SignallingPath

-----------------------------------------------------------------------------
Units == {"sync", "loop", "l1", "signalling"}

ControlInit ==
  /\ unit \in Units
  /\ Init /\ detections = 0 /\ (unit # "sync" => params = CHOOSE p \in FrameParams : TRUE)
  /\ LoopInit /\ streak = 0
  /\ (unit # "loop" => present = FALSE /\ threshold = CHOOSE t \in Thresholds : TRUE)
  /\ (unit # "loop" => delay = CHOOSE d \in Delays : TRUE)
  /\ L1!Init
  /\ Path!Init /\ (unit # "signalling" => onAir = CHOOSE f \in Frames : TRUE)

BesidesSync == UNCHANGED <<unit, recoveryVars, controlVars, pathVars>>
BesidesLoop == UNCHANGED <<unit, syncVars, controlVars, pathVars>>
BesidesL1 == UNCHANGED <<unit, syncVars, recoveryVars, pathVars>>

ControlNext ==
  \/ unit = "sync" /\ SyncNext /\ BesidesSync
  \/ unit = "loop" /\ RecoveryNext /\ BesidesLoop
  \/ unit = "l1" /\ L1!Next /\ BesidesL1
  \/ unit = "signalling" /\ Path!Next /\ UNCHANGED <<unit, syncVars, recoveryVars, controlVars>>

SyncFairness == WF_allVars(unit = "sync" /\ SyncProcess /\ BesidesSync)

(* Every block's thread keeps running, the clock keeps ticking, and a         *)
(* detector that keeps getting samples with a bootstrap finds one.            *)
InLoop(A) == unit = "loop" /\ A /\ Streak /\ BesidesLoop

LoopFairness ==
  /\ WF_allVars(InLoop(HandlerStep /\ UNCHANGED loopVars))
  /\ \A t \in Threads : WF_allVars(InLoop(SendReset(t) /\ UNCHANGED loopVars))
  /\ WF_allVars(InLoop(Tick /\ UNCHANGED loopVars))
  /\ WF_allVars(InLoop(DetectorReset))
  /\ WF_allVars(InLoop(present /\ DetectorFinds))

ControlSpec == ControlInit /\ [][ControlNext]_allVars /\ SyncFairness /\ LoopFairness

(* The tracker alone, the loop alone as the example connects it, and the      *)
(* blocks behind L1 signalling alone.                                         *)
SyncSpec ==
  /\ ControlInit /\ unit = "sync"
  /\ [][SyncNext /\ BesidesSync]_allVars /\ SyncFairness

ConnectedSpec ==
  /\ ControlInit /\ unit = "loop"
  /\ [][ConnectedNext /\ BesidesLoop]_allVars /\ LoopFairness

SignalledSpec ==
  /\ ControlInit /\ unit = "l1"
  /\ [][L1!Next /\ BesidesL1]_allVars /\ L1!Fairness

-----------------------------------------------------------------------------
(* A lock is only declared on evidence: from ACQUIRING after as many          *)
(* detections as lock_acquire_count asks for (the first one counts), or from  *)
(* HOLDOVER, by a detection at the predicted boundary.                        *)
LockNeedsDetections ==
  [][state /= "LOCKED" /\ state' = "LOCKED" =>
       state = "HOLDOVER" \/ detections' >= LockAcquireCount]_syncVars

(* The supervisor resets the receiver of its own accord only after threshold  *)
(* unlock reports in a row: a lock report or a manual reset in between starts *)
(* the count again, also when it comes from another thread.                   *)
ResetJustified ==
  [][Acted("unlocked") /\ resetCount' /= resetCount => streak + 1 >= threshold]_recoveryVars

(* A block that l1_config messages and setters configure works with the       *)
(* settings it reports (the reconfigure() of the demapper, the time            *)
(* de-interleaver and the FEC block).                                          *)
ReceiversInStep == L1!ReceiversInStep

(* The l1_monitor sends an l1_info message for every configuration it gets    *)
(* (blocks/atsc3_l1_monitor.h:5).                                              *)
EveryConfigPublished == L1!EveryConfigPublished

(* Observers of the configuration bus are told every configuration published   *)
(* while they are registered and no other, and what is published as valid is   *)
(* one broadcast frame (lib/config/config_bus.cc, lib/framing/l1_decoder.cc).  *)
ObserversKnowTheBroadcast == Path!ObserversKnowTheBroadcast
=============================================================================
