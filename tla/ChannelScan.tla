------------------------------ MODULE ChannelScan ------------------------------
(* apps/scanner.py: one channel of the plan after the other, with a radio     *)
(* that may fail to appear, to be set up, to tune or to answer.               *)
EXTENDS Integers, Sequences

CONSTANTS
  Plan,          \* the channels to scan, in order
  Simulated      \* a reading that no radio gave

VARIABLES
  usrp,          \* _usrp: the object exists
  initialized,   \* _initialized
  tuned,         \* the channel the radio receives (external)
  channel,       \* how many channels of the plan were begun
  step,          \* where scan_channel is
  rssi,          \* the reading: the channel it was taken on, or Simulated
  results,       \* the list returned
  mistuned       \* history, which the program does not keep: set_rx_freq()
                 \* failed for the channel in hand

vars == <<usrp, initialized, tuned, channel, step, rssi, results, mistuned>>

(* _init_hardware(), once: no UHD bindings, a radio, no radio, or a radio     *)
(* whose rate or gain is refused.  "Running in simulation mode" is printed    *)
(* for the last one too, though _usrp stays set.                              *)
InitHardware ==
  \E found \in IF initialized THEN {usrp} ELSE {TRUE, FALSE} :
    /\ step = "begin" /\ channel < Len(Plan)
    /\ usrp' = found /\ initialized' = TRUE
    /\ channel' = channel + 1 /\ step' = "tune"
    /\ UNCHANGED <<tuned, rssi, results, mistuned>>

(* _tune() answers True whatever happens, and nobody asks. *)
Tune ==
  \E works \in BOOLEAN :
    /\ step = "tune"
    /\ tuned' = IF usrp /\ works THEN Plan[channel] ELSE tuned
    /\ mistuned' = (usrp /\ ~ works)
    /\ step' = "measure"
    /\ UNCHANGED <<usrp, initialized, channel, rssi, results>>

(* _get_rssi(): a sensor that fails is replaced by a random reading *)
GetRssi ==
  /\ step = "measure"
  /\ \/ usrp /\ rssi' = tuned
     \/ rssi' = Simulated
  /\ step' = "decide"
  /\ UNCHANGED <<usrp, initialized, tuned, channel, results, mistuned>>

(* _detect_signal() and scan_channel(): locked only on a strong reading, and  *)
(* the channel number is filled in afterwards.                                *)
Detect ==
  \E locked \in BOOLEAN :
    /\ step = "decide"
    /\ results' = Append(results, [channel |-> Plan[channel], rssi |-> rssi,
                                   locked |-> locked, mistuned |-> mistuned])
    /\ step' = "begin"
    /\ UNCHANGED <<usrp, initialized, tuned, channel, rssi, mistuned>>

Init ==
  /\ usrp = FALSE /\ initialized = FALSE /\ tuned = Simulated
  /\ channel = 0 /\ step = "begin" /\ rssi = Simulated /\ results = <<>>
  /\ mistuned = FALSE

Next == InitHardware \/ Tune \/ GetRssi \/ Detect

(* A reading that a radio gave is listed under the channel the radio was      *)
(* tuned to, unless tuning to that channel failed; then it may be of a        *)
(* channel before, and nothing in the list tells it from the others.          *)
ReadingsOfTheChannel ==
  \A i \in DOMAIN results :
    /\ results[i].channel = Plan[i]
    /\ results[i].rssi \in {Plan[i], Simulated} \/ results[i].mistuned
===============================================================================
