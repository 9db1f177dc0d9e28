------------------------------ MODULE L1Control ------------------------------
(* The control plane behind L1 signalling: l1_config messages reach the L1    *)
(* monitor (blocks/atsc3_l1_monitor_impl.cc) and the blocks that configure    *)
(* themselves from them, constellation_demapper_impl, fec_decode_impl and     *)
(* time_deinterleaver_impl, each through a queue of its own, while the user   *)
(* interface calls setters and getters from another thread.                   *)
EXTENDS Integers, Sequences

CONSTANTS
  Receivers,     \* blocks that configure themselves
  Keys,          \* [Receivers -> the settings of the block]
  Values,        \* [setting -> values]
  Ids,           \* PLP ids; -1 is manual mode
  Messages,      \* the l1_config messages there are
  None,
  MaxMessages, MaxCalls   \* bounds: messages sent, setter calls

VARIABLES
  queue,         \* [Receivers \cup {"monitor"} -> messages waiting]
  messages, calls,
  plp,           \* plp_id_, by receiver
  settings,      \* modulation_, code_rate_, codeword_length_, ti_mode_, ti_depth_
  engine,        \* the settings the block's decoder object was built from
  job,           \* [Receivers -> [Threads -> where that thread is in reconfigure()]]
  raced,         \* history: two reconfigure() of the block overlapped
  config,        \* config_ of the monitor
  mutex,         \* config_mutex_: its holder
  waits,         \* [Threads -> what the thread wants of the monitor]
  published      \* messages for which l1_info and l1_config_out were sent

receiverVars == <<plp, settings, engine, job, raced, calls>>
monitorVars == <<config, mutex, waits, published>>
vars == <<queue, messages, receiverVars, monitorVars>>

Threads == {"handler", "gui"}
AtRest == [th \in Threads |-> <<>>]
Nothing == [th \in Threads |-> "idle"]
Settings(b) == [Keys[b] -> UNION {Values[k] : k \in Keys[b]}]
Queues == Receivers \cup {"monitor"}

(* The block that decodes L1 signalling is not connected to anything yet:     *)
(* messages come from outside.                                                *)
Signal ==
  \E m \in Messages :
    /\ messages < MaxMessages
    /\ messages' = messages + 1
    /\ queue' = [b \in Queues |-> Append(queue[b], m)]
    /\ UNCHANGED <<receiverVars, monitorVars>>

-----------------------------------------------------------------------------
(* handle_l1_config of a receiver.  A message is the sequence of its "plps",  *)
(* empty when there is no such vector; an entry that is no dictionary or has  *)
(* no plp_id is NoEntry.                                                      *)
Entry(b, m) ==
  LET mine == {i \in DOMAIN m : m[i].id = plp[b]}
  IN  IF plp[b] = -1 \/ mine = {} THEN None
      ELSE m[CHOOSE i \in mine : \A j \in mine : i <= j]

Merged(b, values) ==
  [k \in Keys[b] |-> IF k \in DOMAIN values THEN values[k] ELSE settings[b][k]]

(* The demapper always rebuilds, the others only for a change. *)
Rebuilds(b, new) == b = "demapper" \/ new # settings[b]

Begin(b, th) ==
  /\ job' = [job EXCEPT ![b][th] = <<"reading">>]
  /\ raced' = [raced EXCEPT ![b] = job[b] # AtRest]

TakeMessage(b) ==
  /\ queue[b] # <<>> /\ job[b]["handler"] = <<>>
  /\ queue' = [queue EXCEPT ![b] = Tail(@)]
  /\ UNCHANGED <<messages, monitorVars, plp, engine, calls>>

IgnoreConfig(b) ==
  /\ TakeMessage(b)
  /\ Entry(b, Head(queue[b])) = None
  /\ UNCHANGED <<settings, job, raced>>

(* Mutant: a new code rate alone rebuilds nothing. *)
ApplyConfigRateOnly(b) ==
  /\ TakeMessage(b)
  /\ Entry(b, Head(queue[b])) # None
  /\ LET new == Merged(b, Entry(b, Head(queue[b])).values)
         rest == Keys[b] \ {"code_rate"}
     IN  /\ settings' = [settings EXCEPT ![b] = new]
         /\ IF b = "demapper" \/ \E k \in rest : new[k] # settings[b][k]
            THEN Begin(b, "handler") ELSE UNCHANGED <<job, raced>>

ApplyConfig(b) ==
  /\ TakeMessage(b)
  /\ Entry(b, Head(queue[b])) # None
  /\ LET new == Merged(b, Entry(b, Head(queue[b])).values)
     IN  /\ settings' = [settings EXCEPT ![b] = new]
         /\ IF Rebuilds(b, new) THEN Begin(b, "handler") ELSE UNCHANGED <<job, raced>>

(* set_modulation, set_code_rate, set_codeword_length, set_ti_mode, ... *)
SetSetting(b) ==
  \E k \in Keys[b] : \E v \in Values[k] :
    /\ calls < MaxCalls /\ calls' = calls + 1
    /\ \A c \in Receivers : job[c]["gui"] = <<>>
    /\ settings' = [settings EXCEPT ![b][k] = v]
    /\ Begin(b, "gui")
    /\ UNCHANGED <<queue, messages, monitorVars, plp, engine>>

SetPlpId(b) ==
  \E id \in Ids :
    /\ calls < MaxCalls /\ calls' = calls + 1
    /\ plp' = [plp EXCEPT ![b] = id]
    /\ UNCHANGED <<queue, messages, monitorVars, settings, engine, job, raced>>

(* reconfigure(): read the settings and build, then replace the decoder *)
Build(b, th) ==
  /\ job[b][th] = <<"reading">>
  /\ job' = [job EXCEPT ![b][th] = <<"built", settings[b]>>]
  /\ UNCHANGED <<queue, messages, monitorVars, plp, settings, engine, raced, calls>>

Replace(b, th) ==
  /\ Len(job[b][th]) = 2
  /\ engine' = [engine EXCEPT ![b] = job[b][th][2]]
  /\ job' = [job EXCEPT ![b][th] = <<>>]
  /\ UNCHANGED <<queue, messages, monitorVars, plp, settings, raced, calls>>

Receiver(b) ==
  \/ IgnoreConfig(b) \/ ApplyConfig(b) \/ SetSetting(b) \/ SetPlpId(b)
  \/ \E th \in Threads : Build(b, th) \/ Replace(b, th)

-----------------------------------------------------------------------------
(* l1_monitor_impl::handle_l1_config.  The fields present are taken; what is  *)
(* kept of config_ here is whether it is valid and how many PLPs it lists.    *)
Acquire(th) ==
  /\ mutex = None /\ waits[th] = "lock"
  /\ mutex' = th
  /\ waits' = [waits EXCEPT ![th] = "locked"]
  /\ UNCHANGED <<config, published>>

MonitorWake ==
  /\ queue["monitor"] # <<>> /\ waits["handler"] = "idle"
  /\ waits' = [waits EXCEPT !["handler"] = "lock"]
  /\ UNCHANGED <<queue, messages, receiverVars, config, mutex, published>>

(* Taken with the mutex held; build_l1_info_pmt() then calls get_l1_json(),   *)
(* which locks config_mutex_ in its turn.                                     *)
MonitorParse ==
  /\ waits["handler"] = "locked" /\ mutex = "handler" /\ queue["monitor"] # <<>>
  /\ config' = [valid |-> TRUE, plps |-> Len(Head(queue["monitor"]))]
  /\ waits' = [waits EXCEPT !["handler"] = "json"]
  /\ queue' = [queue EXCEPT !["monitor"] = Tail(@)]
  /\ UNCHANGED <<messages, receiverVars, mutex, published>>

(* get_fft_size, get_pilot_pattern, get_num_plps, is_config_valid from the    *)
(* user interface, and get_l1_json from either thread; a handler that comes   *)
(* back from it publishes l1_info and the message itself.                     *)
AskMonitor ==
  \E what \in {"lock", "json"} :
    /\ waits["gui"] = "idle" /\ waits' = [waits EXCEPT !["gui"] = what]
    /\ UNCHANGED <<queue, messages, receiverVars, config, mutex, published>>

ReadField ==
  /\ waits["gui"] = "locked"
  /\ mutex' = None /\ waits' = [waits EXCEPT !["gui"] = "idle"]
  /\ UNCHANGED <<queue, messages, receiverVars, config, published>>

GetJson(th) ==
  /\ waits[th] = "json" /\ mutex = None
  /\ waits' = [waits EXCEPT ![th] = "idle"]
  /\ published' = IF th = "handler" THEN published + 1 ELSE published
  /\ UNCHANGED <<queue, messages, receiverVars, config, mutex>>

Monitor ==
  \/ MonitorWake \/ MonitorParse \/ AskMonitor \/ ReadField
  \/ \E th \in Threads : GetJson(th)
  \/ \E th \in Threads : Acquire(th) /\ UNCHANGED <<queue, messages, receiverVars>>

Init ==
  /\ queue = [b \in Queues |-> <<>>] /\ messages = 0 /\ calls = 0
  /\ plp = [b \in Receivers |-> -1]
  /\ settings = [b \in Receivers |-> [k \in Keys[b] |-> CHOOSE v \in Values[k] : TRUE]]
  /\ engine = settings
  /\ job = [b \in Receivers |-> AtRest] /\ raced = [b \in Receivers |-> FALSE]
  /\ config = [valid |-> FALSE, plps |-> 0]
  /\ mutex = None /\ waits = Nothing /\ published = 0

Next == Signal \/ Monitor \/ \E b \in Receivers : Receiver(b)

Spec == Init /\ [][Next]_vars

(* The scheduler runs a block's message handler while messages wait. *)
Fairness ==
  /\ WF_vars(MonitorWake) /\ WF_vars(MonitorParse) /\ WF_vars(ReadField)
  /\ \A th \in Threads :
       /\ WF_vars(GetJson(th))
       /\ SF_vars(Acquire(th) /\ UNCHANGED <<queue, messages, receiverVars>>)

-----------------------------------------------------------------------------
(* A block demaps, de-interleaves or decodes with the settings it reports:    *)
(* after every message and every setter its decoder was built from what       *)
(* modulation_, code_rate_, codeword_length_, ti_mode_ and ti_depth_ hold,    *)
(* unless a setter's reconfigure() overlapped the handler's.                  *)
ReceiversInStep ==
  \A b \in Receivers : job[b] = AtRest /\ ~ raced[b] => engine[b] = settings[b]

(* atsc3_l1_monitor.h: "Output: Message port l1_info", and                    *)
(* atsc3_l1_monitor_impl.cc:117 "Broadcast L1 config to downstream blocks".   *)
(* The handler holds the mutex that get_l1_json() waits for.                  *)
EveryConfigPublished ==
  \A n \in 1 .. MaxMessages : messages >= n ~> published >= n
===============================================================================
