--------------------------------- MODULE Player ---------------------------------
(* av/gst_player.cc under blocks/atsc3_av_player_impl.cc.  Three threads meet *)
(* in the player: the user's (play, pause; start and stop of the block), the  *)
(* block's work() and the player's own event loop.  The pipeline is external: *)
(* it takes a state, or fails to, and reports on its bus.                     *)
EXTENDS Integers, Sequences

CONSTANTS
  Reports,      \* player states that messages the pipeline sends unasked mean
  MaxReports,   \* bound: messages on the bus
  MaxCalls      \* bound: calls of the user

Threads == {"user", "work", "event"}

VARIABLES
  life,         \* of player_: "none", "running", "stopping"
  pipeline,     \* the state it was last set to
  bus,          \* messages, each the player state it means
  state,        \* state_
  doing,        \* thread -> "idle", or what it is in the middle of
  firstData,    \* first_data_received_
  paused,       \* history: the user paused after auto-play and said nothing since
  calls

vars == <<life, pipeline, bus, state, doing, firstData, paused, calls>>

Idle(t) == doing[t] = "idle"

(* update_state(): state_ is exchanged, then the change is published. *)
Update(t, s) ==
  /\ state' = s
  /\ doing' = [doing EXCEPT ![t] = IF s # state THEN "publishing" ELSE "idle"]

Publish(t) ==
  /\ doing[t] = "publishing"
  /\ doing' = [doing EXCEPT ![t] = "idle"]
  /\ UNCHANGED <<life, pipeline, bus, state, firstData, paused, calls>>

(* gst_element_set_state(); the pipeline reports the change. *)
SetState(s) == pipeline' = s /\ bus' = Append(bus, s)

User == life = "running" /\ Idle("user") /\ calls < MaxCalls /\ calls' = calls + 1

Play ==
  /\ User
  /\ SetState("playing") /\ Update("user", "playing") /\ paused' = FALSE
  /\ UNCHANGED <<life, firstData>>

Pause ==
  /\ User
  /\ SetState("paused") /\ Update("user", "paused")
  /\ paused' = (firstData /\ doing["work"] # "auto-play")
  /\ UNCHANGED <<life, firstData>>

(* play() or pause() of a pipeline that fails. *)
CallFails == User /\ UNCHANGED <<life, pipeline, bus, state, doing, firstData, paused>>

(* create_pipeline(), with a bus of its own *)
NewPipeline == pipeline' = "stopped" /\ bus' = <<>>

(* start() of the block, before its first work(): a new player. *)
Start ==
  /\ life = "none" /\ calls < MaxCalls
  /\ life' = "running" /\ calls' = calls + 1
  /\ NewPipeline /\ state' = "stopped" /\ firstData' = FALSE
  /\ UNCHANGED <<doing, paused>>

(* stop() of the block, after its last work(): player_->stop(), with which    *)
(* the pipeline drops the messages on its bus; ...                            *)
Stop ==
  /\ life = "running" /\ Idle("user") /\ Idle("work")
  /\ life' = "stopping"
  /\ pipeline' = "stopped" /\ bus' = <<>> /\ Update("user", "stopped")
  /\ paused' = FALSE
  /\ UNCHANGED <<firstData, calls>>

(* ... shutdown(), which waits for the event thread to leave its handler; and *)
(* the player is gone.                                                        *)
NotJoined == TRUE    \* mutant: the thread is told to quit and left alone
Joined == Idle("event")

ShutDown ==
  /\ life = "stopping" /\ Idle("user") /\ Joined
  /\ life' = "none"
  /\ UNCHANGED <<pipeline, bus, state, doing, firstData, paused, calls>>

(* push_video() and push_audio(): the first data starts the playback ... *)
PushFirst ==
  /\ life = "running" /\ Idle("work") /\ ~ firstData
  /\ firstData' = TRUE
  /\ doing' = [doing EXCEPT !["work"] = "auto-play"]
  /\ UNCHANGED <<life, pipeline, bus, state, paused, calls>>

(* ... unless the pipeline fails, once and for all.  Later data only goes     *)
(* into the pipeline.                                                         *)
AutoPlay ==
  /\ doing["work"] = "auto-play"
  /\ \/ SetState("playing") /\ Update("work", "playing")
     \/ doing' = [doing EXCEPT !["work"] = "idle"] /\ UNCHANGED <<pipeline, bus, state>>
  /\ UNCHANGED <<life, firstData, paused, calls>>

(* An error, the end of the stream, buffering begun or done. *)
Report ==
  /\ life = "running" /\ Len(bus) < MaxReports
  /\ \E r \in Reports : bus' = Append(bus, r)
  /\ UNCHANGED <<life, pipeline, state, doing, firstData, paused, calls>>

(* handle_message(), on the event thread or from work(): both pop the bus, ... *)
TakeMessage(t) ==
  /\ t = "event" \/ (t = "work" /\ life = "running")
  /\ Idle(t) /\ bus # <<>>
  /\ bus' = Tail(bus) /\ doing' = [doing EXCEPT ![t] = Head(bus)]
  /\ UNCHANGED <<life, pipeline, state, firstData, paused, calls>>

(* ... and what a message says may be out of date when state_ is exchanged. *)
HandleMessage(t) ==
  /\ doing[t] \notin {"idle", "auto-play", "publishing"}
  /\ IF doing[t] # "buffered" THEN Update(t, doing[t])
     ELSE IF state = "buffering" THEN Update(t, "playing")
     ELSE doing' = [doing EXCEPT ![t] = "idle"] /\ UNCHANGED state
  /\ UNCHANGED <<life, pipeline, bus, firstData, paused, calls>>

Init ==
  /\ life = "none" /\ pipeline = "stopped" /\ bus = <<>> /\ state = "stopped"
  /\ doing = [t \in Threads |-> "idle"]
  /\ firstData = FALSE /\ paused = FALSE /\ calls = 0

Next ==
  \/ Start \/ Play \/ Pause \/ CallFails \/ Stop \/ ShutDown
  \/ PushFirst \/ AutoPlay \/ Report
  \/ \E t \in Threads : TakeMessage(t) \/ HandleMessage(t) \/ Publish(t)

(* The user has the last word on the player: a pause after playback has       *)
(* started by itself stays until play() or stop(), whatever data and messages *)
(* arrive; and once the block has stopped no thread is left inside the player *)
(* that is deleted, to publish a state or use its pipeline.                   *)
UserHasTheLastWord ==
  /\ paused => pipeline = "paused"
  /\ life = "none" => \A t \in Threads : Idle(t)
===============================================================================
