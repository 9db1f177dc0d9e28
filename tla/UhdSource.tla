------------------------------- MODULE UhdSource -------------------------------
(* hal/src/uhd_source.cc: the settings the object reports and those of the    *)
(* radio (external), which takes the value of its own nearest to the one it   *)
(* is given, and may refuse any call.                                         *)
EXTENDS Integers, FiniteSetsExt

CONSTANTS
  Asked,               \* setting -> values that callers ask for
  Grid,                \* setting -> values that the radio can take
  MinGain, MaxGain,    \* kTvrxMinGainDb, kTvrxMaxGainDb
  MinRate              \* kMinSampleRate

VARIABLES
  connected,
  reported,            \* frequency_, gain_, sample_rate_
  radio,               \* the same of the radio
  known,               \* history: settings read back since the constructor
  streaming,
  refused              \* history: the settings whose last call the radio refused

vars == <<connected, reported, radio, known, streaming, refused>>

Settings == {"frequency", "gain", "rate"}

Within(low, high, x) == Max({low, Min({high, x})})
Distance(x, y) == Max({x - y, y - x})
Nearest(s, x) == CHOOSE g \in Grid[s] : \A h \in Grid[s] : Distance(g, x) <= Distance(h, x)

(* kTvrxGainInverted: the radio attenuates. *)
Inverted(s, x) == IF s = "gain" THEN Max(Grid.gain) - x ELSE x

Permitted(s, x) ==
  /\ s = "frequency" => Min(Grid[s]) <= x /\ x <= Max(Grid[s])
  /\ s = "rate" => x >= MinRate

(* A gain is clamped to the tuner's range and to the radio's. *)
Bounded(s, x) ==
  IF s = "gain" THEN Within(Min(Grid[s]), Max(Grid[s]), Within(MinGain, MaxGain, x)) ELSE x

ReadBack(s) ==
  /\ reported' = [reported EXCEPT ![s] = Inverted(s, radio'[s])]
  /\ known' = known \union {s}

(* The radio takes x, and the stream is set up again for a new rate. *)
Take(s, x) ==
  /\ connected /\ Permitted(s, x)
  /\ radio' = [radio EXCEPT ![s] = Nearest(s, Inverted(s, Bounded(s, x)))]
  /\ streaming' = (streaming \/ s = "rate")
  /\ refused' = refused \ {s}
  /\ UNCHANGED connected

(* Mutant: what was asked for is reported without asking the radio. *)
SetUnread(s) ==
  \E x \in Asked[s] :
    /\ Take(s, x)
    /\ reported' = [reported EXCEPT ![s] = x]
    /\ known' = known \union {s}

(* set_frequency(), set_gain(), set_sample_rate() *)
Set(s) == \E x \in Asked[s] : Take(s, x) /\ ReadBack(s)

(* An exception when the radio is set, when the setting is read back, or when *)
(* the stream, stopped already, is set up for the new rate.                   *)
Refused(s) ==
  \E g \in Grid[s] :
    /\ connected
    /\ refused' = refused \union {s}
    /\ \/ UNCHANGED <<radio, reported, known, streaming>>
       \/ /\ radio' = [radio EXCEPT ![s] = g]
          /\ UNCHANGED <<reported, known, streaming>>
       \/ /\ s = "rate"
          /\ radio' = [radio EXCEPT ![s] = g]
          /\ ReadBack(s)
          /\ streaming' = FALSE
    /\ UNCHANGED connected

(* The constructor gives the radio its defaults and does not read them back.  *)
Init ==
  /\ connected \in BOOLEAN
  /\ \E f \in Asked.frequency, g \in Asked.gain, r \in Asked.rate :
       reported = [frequency |-> f, gain |-> g, rate |-> r]
  /\ radio = [s \in Settings |-> Nearest(s, Inverted(s, reported[s]))]
  /\ known = {} /\ streaming = connected /\ refused = {}

Next == \E s \in Settings : Set(s) \/ Refused(s)

(* What the object says of a setting that was made is what the radio does,    *)
(* although each bounds and rounds it its own way and the gain is turned      *)
(* around in between, and read() has a running stream.  A refused call takes  *)
(* this from its own setting only, whose old value may stay reported although *)
(* the radio left it, or whose stream stays stopped; and the next call that   *)
(* is not refused puts it right.  The constructor's values are only what was  *)
(* asked for.                                                                 *)
RadioAsReported ==
  connected =>
    /\ "rate" \notin refused => streaming
    /\ \A s \in known \ refused : reported[s] = Inverted(s, radio[s])
===============================================================================
