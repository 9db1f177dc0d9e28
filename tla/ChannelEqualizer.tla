--------------------------- MODULE ChannelEqualizer ---------------------------
(* lib/channel/channel_estimator.cc and equalizer.cc behind the pilots of a   *)
(* symbol, as blocks/atsc3_channel_eq_impl.cc runs them and as a caller of    *)
(* the library does.  A sample has one coordinate, a channel is an integer    *)
(* per subcarrier, and a quotient is kept as <<numerator, denominator>>: the  *)
(* arithmetic is that of the default build, without its rounding.             *)
EXTENDS Pilots, FiniteSets

CONSTANTS
  Channels,     \* what a symbol may pass through: subcarrier -> Int
  Sent,         \* what is sent on a subcarrier, 1 or -1, the pilots' reference too
  Alpha,        \* weight of a new value in an average, <<numerator, denominator>>
  Noise,        \* config_.noise_variance
  SizeT,        \* 2^w of the size_t of this model
  Phases        \* residual phases that the continual pilots of a symbol show

VARIABLES
  caller,       \* "block" or "library"
  options,      \* enable_averaging, enable_phase_tracking, mode = MMSE
  symbolIndex,
  channel,      \* of the last symbol, None before the first
  average,      \* avg_estimate_, None while has_prev_estimate_ is false
  estimate,     \* h_estimate of the last symbol, None when it is not valid
  residual,     \* residual_phase_
  symbols,      \* the equalized symbols, None when they are not valid
  since         \* estimates and phases measured since the last reset or configuration

equalizerVars ==
  <<config, pilots, caller, options, symbolIndex, channel, average, estimate, residual,
    symbols, since>>

None == <<>>
ActiveCarriers == 0..(config.last - config.first)
Nothing == [estimates |-> {}, phases |-> {}]

(* Equalizer::reset(), and init() and set_config() that end in it *)
NoPhase == <<0, 1>>

-----------------------------------------------------------------------------
(* compute_ls_estimate(): received / reference, 0 for a vanishing reference *)
SafeDivide(y, x) == IF x = 0 THEN 0 ELSE (y * x) \div (x * x)

LeastSquares(ch, k) == SafeDivide(ch[k] * Sent[k], Sent[k])

(* Mutant: the place is the subcarrier. *)
PlaceAbsolute(k) == k

(* The place of a pilot among the active carriers. *)
Place(k) == k - config.first

First(places) == CHOOSE p \in places : \A q \in places : p <= q
Latest(places) == CHOOSE p \in places : \A q \in places : q <= p

(* interpolate_linear(): h at the places of the pilots.  Before the first     *)
(* pilot k - pos_left is a difference of two size_t.                          *)
Line(h, left, right, steps) ==
  <<h[left] * (right - left) + steps * (h[right] - h[left]), right - left>>

Interpolate(h) ==
  LET places == DOMAIN h
      first == First(places)
      next(p) == First({q \in places : q > p})
  IN  [k \in ActiveCarriers |->
         IF Cardinality(places) = 1 THEN <<h[first], 1>>
         ELSE IF k < first THEN Line(h, first, next(first), (k - first) % SizeT)
         ELSE LET left == Latest({p \in places : p <= k})
              IN  IF left = Latest(places) THEN <<h[left], 1>>
                  ELSE Line(h, left, next(left), k - left)]

Raw(at, ch) ==
  Interpolate([p \in {Place(k) : k \in at} |->
                 LeastSquares(ch, CHOOSE k \in at : Place(k) = p)])

(* Alpha of the new value and the rest of the old one. *)
Blend(new, old) ==
  LET rest == Alpha[2] - Alpha[1]
  IN  <<Alpha[1] * new[1] * old[2] + rest * old[1] * new[2], Alpha[2] * new[2] * old[2]>>

(* apply_averaging() *)
Averaged(raw) ==
  IF ~ options.averaging \/ average = None THEN raw
  ELSE [k \in ActiveCarriers |-> Blend(raw[k], average[k])]

-----------------------------------------------------------------------------
(* equalize_zf() and equalize_mmse(): y conj(h) / |h|^2, the noise added in   *)
(* the denominator; a denominator that vanishes gives the symbol 0            *)
EqualizeSample(y, h) ==
  LET energy == h[1] * h[1] + (IF options.mmse THEN Noise * h[2] * h[2] ELSE 0)
  IN  IF energy = 0 THEN <<0, 1>> ELSE <<y * h[1] * h[2], energy>>

(* received: the block gives the whole FFT output, the library's callers the  *)
(* active subcarriers                                                         *)
Received(ch, k) ==
  LET bin == IF caller = "block" THEN k ELSE config.first + k
  IN  ch[bin] * Sent[bin]

Equalize(ch, h) == [k \in ActiveCarriers |-> EqualizeSample(Received(ch, k), h[k])]

(* estimate_residual_phase(): of the continual pilots that are not zeroed; 0  *)
(* when there are none                                                        *)
Residual(at, ch, h, phase) ==
  LET places == {Place(k) : k \in at \intersect ContinualPositions}
  IN  IF \E p \in places : EqualizeSample(Received(ch, p), h[p])[1] # 0 THEN phase ELSE 0

(* The pilots of a symbol; a caller of the library may pass fewer of them. *)
Given ==
  LET all == ExtractScattered(symbolIndex) \union ContinualPositions \union EdgePilots
  IN  IF caller = "block" THEN {all} ELSE {all, all \ EdgePilots, {}}

(* One symbol: extract(), estimate() and equalize(), or for a caller of the   *)
(* library that tracks the phase equalize_with_pilots(), which turns the      *)
(* symbols back by residual_phase_; they are kept as they were before.        *)
Estimate(at, ch) ==
  /\ pilots' = [symbol |-> symbolIndex, at |-> at]
  /\ channel' = ch
  /\ IF at = {} THEN estimate' = None /\ UNCHANGED average
     ELSE /\ estimate' = Averaged(Raw(at, ch))
          /\ average' = IF options.averaging THEN estimate' ELSE average

Track(at, ch, phase) ==
  IF at = {} \/ caller = "block" \/ ~ options.tracking
  THEN UNCHANGED residual
  ELSE residual' = Blend(<<Residual(at, ch, estimate', phase), 1>>, residual)

Symbol ==
  \E at \in Given, ch \in Channels, phase \in Phases :
    /\ symbolIndex < MaxSymbols
    /\ Estimate(at, ch)
    /\ Track(at, ch, phase)
    /\ symbols' = IF at = {} THEN None ELSE Equalize(ch, estimate')
    /\ since' = IF at = {} THEN since
                ELSE [estimates |-> since.estimates \union {Raw(at, ch)},
                      phases |-> since.phases \union {phase}]
    /\ symbolIndex' = symbolIndex + 1
    /\ UNCHANGED <<config, caller, options>>

(* Mutant: the buffer is cleared and has_prev_estimate_ is not. *)
ForgetTheFlag ==
  /\ average' = [k \in ActiveCarriers |-> <<0, 1>>]
  /\ residual' = NoPhase
  /\ since' = Nothing

(* ChannelEstimator::reset() and Equalizer::reset() *)
Forget ==
  /\ average' = None
  /\ residual' = NoPhase
  /\ since' = Nothing

(* channel_eq_impl::reset(), the handler of the port "reset" too *)
Reset ==
  /\ Forget
  /\ symbolIndex' = 0
  /\ UNCHANGED <<config, pilots, caller, options, channel, estimate, symbols>>

(* set_mmse() keeps the pattern, set_pilot_pattern() the mode. *)
OneSetter(pattern, mmse) == pattern = config.pattern \/ mmse = options.mmse

(* reconfigure(), and set_config() of the library: the three parts are made   *)
(* anew, the symbol index goes on.                                            *)
Reconfigure ==
  \E pattern \in Patterns, mmse \in BOOLEAN, request \in Requests :
    /\ OneSetter(pattern, mmse)
    /\ config' = Configured(pattern, config.scale, request)
    /\ options' = [options EXCEPT !.mmse = mmse]
    /\ pilots' = [symbol |-> 0, at |-> {}]
    /\ Forget
    /\ estimate' = None
    /\ symbols' = None
    /\ UNCHANGED <<caller, symbolIndex, channel>>

EqualizerInit ==
  /\ \E pattern \in Patterns, scale \in DOMAIN Active, request \in Requests :
       config = Configured(pattern, scale, request)
  /\ pilots = [symbol |-> 0, at |-> {}]
  /\ caller \in {"block", "library"}
  /\ options \in [averaging : BOOLEAN, tracking : BOOLEAN, mmse : BOOLEAN]
  /\ caller = "block" => ~ options.averaging /\ options.tracking
  /\ symbolIndex = 0
  /\ channel = None /\ average = None /\ estimate = None /\ symbols = None
  /\ residual = NoPhase /\ since = Nothing

EqualizerNext == Symbol \/ Reset \/ Reconfigure

-----------------------------------------------------------------------------
AtMost(a, b) == a[1] * b[2] <= b[1] * a[2]

(* What was sent on the k-th active carrier, and by no more than it. *)
Recovered(k) ==
  LET sent == Sent[config.first + k]
  IN  IF options.mmse THEN AtMost(<<0, 1>>, <<sent * symbols[k][1], symbols[k][2]>>)
                           /\ AtMost(<<sent * symbols[k][1], symbols[k][2]>>, <<1, 1>>)
      ELSE symbols[k][1] = sent * symbols[k][2]

Straight == \A k \in config.first..(config.last - 2) :
  channel[k + 2] - channel[k + 1] = channel[k + 1] - channel[k]

PilotPlace(k) == config.first + k \in pilots.at
AfterAPilot(k) == \E p \in pilots.at : p <= config.first + k
BetweenPilots(k) == AfterAPilot(k) /\ \E p \in pilots.at : config.first + k <= p

(* A caller that gives the active carriers gets what was sent on every pilot  *)
(* whatever the channel, and on every carrier between two pilots of a channel *)
(* that is a straight line; a carrier that did not come through is 0.         *)
SentIsRecovered ==
  caller = "library" /\ ~ options.averaging /\ symbols # None =>
    \A k \in ActiveCarriers :
      PilotPlace(k) \/ (Straight /\ BetweenPilots(k)) =>
        Recovered(k) \/ (channel[config.first + k] = 0 /\ symbols[k][1] = 0)

(* An estimate and a residual phase are averages of what was measured since   *)
(* the last reset or configuration, for no carrier beyond the largest or the  *)
(* smallest of it.                                                            *)
NothingFromBefore ==
  /\ estimate # None /\ since # Nothing =>
       \A k \in ActiveCarriers : \E low, high \in since.estimates :
         AtMost(low[k], estimate[k]) /\ AtMost(estimate[k], high[k])
  /\ \E low, high \in since.phases \union {0} :
       AtMost(<<low, 1>>, residual) /\ AtMost(residual, <<high, 1>>)

(* Equalizer::equalize() takes the "FFT output for active subcarriers"        *)
(* (lib/channel/equalizer.h:114): the block, too, recovers its pilots.        *)
EqualizedAtItsCarrier ==
  caller = "block" /\ symbols # None =>
    \A k \in ActiveCarriers : PilotPlace(k) /\ channel[config.first + k] # 0 => Recovered(k)
=============================================================================
