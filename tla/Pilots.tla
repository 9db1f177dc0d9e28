-------------------------------- MODULE Pilots --------------------------------
(* lib/ofdm/pilot_extractor.cc: which subcarriers of a symbol are pilots, as  *)
(* extract() collects them and as is_pilot() tells a caller about one.        *)
EXTENDS Integers

CONSTANTS
  BaseFft,      \* the smallest FFT size, 8192
  Active,       \* scale of an FFT size -> its active carriers
  Continual,    \* kContinualPilots8K, a set of places
  Patterns,     \* [dx, dy] of kPatternTable
  Requests,     \* first and number of active carriers in a configuration, 0: default
  MaxSymbols    \* bound of the symbol index

VARIABLES
  config,       \* pattern, scale of the FFT size, first and last active carrier
  pilots        \* of the last extract(): the symbol index and subcarriers

vars == <<config, pilots>>

(* compute_pattern_params() *)
Configured(pattern, scale, request) ==
  LET count == IF request.count = 0 THEN Active[scale] ELSE request.count
      first == IF request.first = 0 THEN (BaseFft * scale - count) \div 2 ELSE request.first
  IN  [pattern |-> pattern, scale |-> scale, first |-> first, last |-> first + count - 1]

Within(places) == {k \in places : k <= config.last}

(* generate_continual_positions(): the base positions stretched, and for the  *)
(* larger sizes as many in between as the scale leaves room for               *)
Neighbours == {p \in Continual \X Continual :
                 p[1] < p[2] /\ ~ \E q \in Continual : p[1] < q /\ q < p[2]}

ContinualPositions ==
  LET s == config.scale
      between(p, j) == p[1] * s + (((p[2] * s - p[1] * s) * j) \div s)
  IN  Within({config.first + c * s : c \in Continual} \union
             {config.first + between(p, j) : p \in Neighbours, j \in 1..(s - 1)})

Offset(symbol) == (symbol % config.pattern.dy) * config.pattern.dx
Period == config.pattern.dx * config.pattern.dy

(* Mutant: the offset does not move with the symbol. *)
ExtractScatteredStill(symbol) ==
  Within({config.first + i * Period : i \in 0..(config.last \div Period)})

(* extract_scattered(), and get_scattered_pilot_count() that counts the same  *)
ExtractScattered(symbol) ==
  Within({config.first + Offset(symbol) + i * Period : i \in 0..(config.last \div Period)})

EdgePilots == {config.first, config.last}

(* extract(): all three, sorted by subcarrier, duplicates taken out. *)
Extract ==
  \E symbol \in 0..MaxSymbols :
    /\ pilots' = [symbol |-> symbol,
                  at |-> ExtractScattered(symbol) \union ContinualPositions \union EdgePilots]
    /\ UNCHANGED config

(* set_config(): everything is made anew. *)
SetConfig ==
  \E pattern \in Patterns, scale \in DOMAIN Active, request \in Requests :
    /\ config' = Configured(pattern, scale, request)
    /\ pilots' = [symbol |-> 0, at |-> {}]

Init ==
  /\ \E pattern \in Patterns, scale \in DOMAIN Active, request \in Requests :
       config = Configured(pattern, scale, request)
  /\ pilots = [symbol |-> 0, at |-> {}]

Next == Extract \/ SetConfig

----------------------------------------------------------------------------
IsScatteredPilot(k, symbol) ==
  /\ config.first <= k /\ k <= config.last
  /\ k - config.first >= Offset(symbol)
  /\ (k - config.first - Offset(symbol)) % Period = 0

IsPilot(k, symbol) ==
  \/ IsScatteredPilot(k, symbol)
  \/ k \in ContinualPositions
  \/ k \in EdgePilots

(* Both ways to ask agree for every configuration and symbol: extract() finds *)
(* exactly the subcarriers for which is_pilot() holds, and none outside the   *)
(* FFT that it is read from.                                                  *)
PilotsAgree ==
  pilots.at # {} =>
    pilots.at = {k \in 0..(BaseFft * config.scale - 1) : IsPilot(k, pilots.symbol)}
===============================================================================
