----------------------------- MODULE SignallingPath -----------------------------
(* lib/framing/l1_decoder.cc and lib/config/config_bus.cc, joined the way the *)
(* usage notes in l1_decoder.h and config_bus.h join them: every frame's      *)
(* L1-Pre and L1-Post are decoded, a configuration is built from the two and  *)
(* published to the observers.                                                *)
EXTENDS Integers, Sequences, SequencesExt

CONSTANTS
  Frames,         \* broadcast: [pre : fields, plps : a sequence of fields]
  Fields,         \* the value of a field for each index sent, reserved ones too
  Damage,         \* what damaged bits can read as, in the form of a frame
  Observers, MaxObservers,       \* MAX_OBSERVERS
  None, MaxFrames                \* bound: frames received

VARIABLES
  frames,         \* how many were received
  onAir, stage,   \* the frame being received, what is to be done with it
  pre, post,      \* L1Pre and L1Post of the caller, each with crc_valid
  observers,      \* the array, as long as num_observers_
  current,        \* current_config_
  subscribed,     \* history: who registered and did not unregister
  due,            \* history: observer -> what was published while it was subscribed
  told            \* history: observer -> what it was given, since it registered last

busVars == <<observers, current, subscribed, due, told>>
vars == <<frames, onAir, stage, pre, post, busVars>>

-----------------------------------------------------------------------------
(* The index_to_ functions: a reserved index gives the default. *)
ValueOf(field, index) == Fields[field][index]

(* unpack_l1_pre(), field by field *)
Unpack(fields) ==
  [f \in DOMAIN fields \cup {"valid"} |->
     IF f \in DOMAIN fields THEN ValueOf(f, fields[f]) ELSE TRUE]

(* unpack_l1_post(): "num_subframes" of L1-Pre stands in for a number of PLPs *)
(* of zero, and as many are read from the bits that follow.                   *)
UnpackPlps(plps, hint) ==
  IF plps # <<>> THEN [i \in DOMAIN plps |-> Unpack(plps[i])]
  ELSE [i \in 1 .. hint |-> None]

(* A frame is received as sent or damaged, its two parts each for itself; the *)
(* CRC tells which (check_crc is set).  What is decoded is handed on with     *)
(* crc_valid, whatever that is.                                               *)
Received(frame, part) ==
  {[sent |-> frame[part], valid |-> TRUE]} \cup
  {[sent |-> d[part], valid |-> FALSE] : d \in Damage}

DecodePre ==
  /\ frames < MaxFrames /\ stage = "idle"
  /\ frames' = frames + 1
  /\ onAir' \in Frames
  /\ \E r \in Received(onAir', "pre") : pre' = [Unpack(r.sent) EXCEPT !.valid = r.valid]
  /\ stage' = "post"
  /\ UNCHANGED <<post, busVars>>

DecodePost ==
  /\ stage = "post"
  /\ \E r \in Received(onAir, "plps") :
       post' = [plps |-> UnpackPlps(r.sent, pre.subframes), valid |-> r.valid]
  /\ stage' = "build"
  /\ UNCHANGED <<frames, onAir, pre, busVars>>

(* The usage note goes on with valid parts only. *)
GiveUp ==
  /\ (stage = "post" /\ ~ pre.valid) \/ (stage = "build" /\ ~ post.valid)
  /\ stage' = "idle"
  /\ UNCHANGED <<frames, onAir, pre, post, busVars>>

(* build_config() *)
Built ==
  [pre |-> [pre EXCEPT !.valid = TRUE], plps |-> post.plps,
   valid |-> pre.valid /\ post.valid]

(* publish(): the observers in the order of the array, each given the         *)
(* configuration.                                                             *)
Publish ==
  /\ stage = "build" /\ stage' = "idle"
  /\ current' = Built
  /\ told' = [o \in Observers |->
               IF Contains(observers, o) THEN Append(told[o], Built) ELSE told[o]]
  /\ due' = [o \in Observers |->
               IF o \in subscribed THEN Append(due[o], Built) ELSE due[o]]
  /\ UNCHANGED <<frames, onAir, pre, post, observers, subscribed>>

-----------------------------------------------------------------------------
(* The bus is full or not; an observer is there once. *)
Register(o) ==
  /\ ~ Contains(observers, o) /\ Len(observers) < MaxObservers
  /\ observers' = Append(observers, o)
  /\ subscribed' = subscribed \cup {o}
  /\ due' = [due EXCEPT ![o] = <<>>] /\ told' = [told EXCEPT ![o] = <<>>]
  /\ UNCHANGED <<frames, onAir, stage, pre, post, current>>

RegisterNothing(o) ==
  /\ Contains(observers, o) \/ Len(observers) = MaxObservers
  /\ UNCHANGED vars

Before(o) == SubSeq(observers, 1, SelectInSeq(observers, LAMBDA x : x = o) - 1)  \* mutant
(* The observers behind the one removed are shifted down. *)
Without(o) == RemoveFirst(observers, o)

Unregister(o) ==
  /\ Contains(observers, o)
  /\ observers' = Without(o) /\ subscribed' = subscribed \ {o}
  /\ UNCHANGED <<frames, onAir, stage, pre, post, current, due, told>>

ClearObservers ==
  /\ observers' = <<>> /\ subscribed' = {}
  /\ UNCHANGED <<frames, onAir, stage, pre, post, current, due, told>>

Init ==
  /\ frames = 0 /\ onAir \in Frames /\ stage = "idle"
  /\ pre = None /\ post = None
  /\ observers = <<>> /\ subscribed = {}
  /\ current = None
  /\ due = [o \in Observers |-> <<>>] /\ told = [o \in Observers |-> <<>>]

Next ==
  \/ DecodePre \/ DecodePost \/ GiveUp \/ Publish \/ ClearObservers
  \/ \E o \in Observers : Register(o) \/ RegisterNothing(o) \/ Unregister(o)

BroadcastOf(f) ==
  [pre |-> Unpack(f.pre), plps |-> [i \in DOMAIN f.plps |-> Unpack(f.plps[i])],
   valid |-> TRUE]

(* From its registration until it unregisters an observer is told every       *)
(* configuration that is published, each once and in order, and nothing       *)
(* after that, however the others come and go; and a configuration marked     *)
(* valid is that of one broadcast frame, its two parts of the same frame and  *)
(* every PLP as it was sent.                                                  *)
ObserversKnowTheBroadcast ==
  /\ told = due
  /\ current # None /\ current.valid => \E f \in Frames : current = BroadcastOf(f)
===============================================================================
