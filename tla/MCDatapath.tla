------------------------------ MODULE MCDatapath ------------------------------
(* What happens to samples, cells and bits on their way from the antenna to   *)
(* the ALP packets: the OFDM symbols, the pilots, the three de-interleavers   *)
(* and the two FEC decoders.  Each keeps its state to itself; a behaviour is  *)
(* one of them alone, the unit that the initial state chooses.                *)
EXTENDS TimeDeinterleaver, BchDecoder, LdpcDecoder

CONSTANTS
  Fft, PrefixLengths, Fractions, MaxSymbols, MaxSamples, MaxChanges,   \* OfdmDemod
  BaseFft, Active, Continual, Patterns, Requests, MaxIndex,            \* Pilots
  Sizes, Carriers, MaxCalls,                                           \* Deinterleavers
  BandFft, BandActive, BandContinual, BandPatterns, BandRequests, MaxBand,
  Channels, Sent, Alpha, Noise, SizeT, Phases                          \* ChannelEqualizer

VARIABLES
  unit,
  cp, removal, consumed, symbols, changes,                       \* OfdmDemod
  layout, pilots,                                                \* Pilots
  cells, carriers, last, calls,                                  \* Deinterleavers
  band, references, caller, options, symbolIndex, channel,       \* ChannelEqualizer
  average, estimate, residual, equalized, since

ofdmVars == <<cp, removal, consumed, symbols, changes>>
pilotVars == <<layout, pilots>>
tableVars == <<cells, carriers, last, calls>>
bandVars == <<band, references, caller, options, symbolIndex, channel, average, estimate,
              residual, equalized, since>>
fecVars == <<bchVars, ldpcVars, matrixVars>>

Ofdm == INSTANCE OfdmDemod WITH output <- symbols

PilotPlaces == INSTANCE Pilots WITH config <- layout, MaxSymbols <- MaxIndex

Tables == INSTANCE Deinterleavers

(* A band of its own, with pilots of its own. *)
Band == INSTANCE ChannelEqualizer WITH
  BaseFft <- BandFft, Active <- BandActive, Continual <- BandContinual,
  Patterns <- BandPatterns, Requests <- BandRequests, MaxSymbols <- MaxBand,
  config <- band, pilots <- references, symbols <- equalized

(* An FFT has samples, a prefix a number of them.                             *)
OfdmAssumption == Fft \in Nat \ {0} /\ PrefixLengths \subseteq Nat
ASSUME OfdmAssumption

(* The carriers of a configuration fit in its FFT: those that set_config()    *)
(* is given, and the defaults of get_active_carriers().                       *)
CarriersFit(scale, request) ==
  request.first + (IF request.count = 0 THEN Active[scale] ELSE request.count)
    <= BaseFft * scale

PilotsAssumption ==
  /\ BaseFft \in Nat /\ DOMAIN Active \subseteq Nat \ {0} /\ Continual \subseteq Nat
  /\ \A scale \in DOMAIN Active : Active[scale] \in Nat \ {0}
  /\ \A pattern \in Patterns : pattern.dx \in Nat \ {0} /\ pattern.dy \in Nat \ {0}
  /\ \A request \in Requests : request.first \in Nat /\ request.count \in Nat
  /\ \A scale \in DOMAIN Active, request \in Requests : CarriersFit(scale, request)
ASSUME PilotsAssumption

(* The same for the band, whose channels are integers and whose carriers are  *)
(* sent with one of two signs; a new value weighs no more than the whole.     *)
BandFits(scale, request) ==
  request.first + (IF request.count = 0 THEN BandActive[scale] ELSE request.count)
    <= BandFft * scale

BandAssumption ==
  /\ BandFft \in Nat /\ DOMAIN BandActive \subseteq Nat \ {0} /\ BandContinual \subseteq Nat
  /\ \A scale \in DOMAIN BandActive : BandActive[scale] \in Nat \ {0}
  /\ \A pattern \in BandPatterns : pattern.dx \in Nat \ {0} /\ pattern.dy \in Nat \ {0}
  /\ \A request \in BandRequests : request.first \in Nat /\ request.count \in Nat
  /\ \A scale \in DOMAIN BandActive, request \in BandRequests : BandFits(scale, request)
  /\ \A scale \in DOMAIN BandActive : \A k \in 0..(BandFft * scale - 1) :
       Sent[k] \in {1, -1} /\ \A ch \in Channels : ch[k] \in Int
  /\ Alpha[1] \in Nat /\ Alpha[2] \in Nat \ {0} /\ Alpha[1] <= Alpha[2]
  /\ Noise \in Nat /\ SizeT \in Nat \ {0} /\ Phases \subseteq Int
ASSUME BandAssumption

(* Blocks of cells and symbols of carriers have a number of them.             *)
TablesAssumption == Sizes \subseteq Nat /\ Carriers \subseteq Nat
ASSUME TablesAssumption

(* Thresholds that the prefixes meet and miss. *)
MCFractions ==
  {[from |-> 0, length |-> 1], [from |-> 2, length |-> 2], [from |-> 3, length |-> 4]}

(* An FFT of 32 subcarriers and its double and quadruple; patterns dense and  *)
(* sparse; the default number of carriers, an unusual one, an offset one.     *)
MCActive == [scale \in {1, 2, 4} |-> CASE scale = 1 -> 27 [] scale = 2 -> 53 [] OTHER -> 109]
MCPatterns == {[dx |-> 3, dy |-> 4], [dx |-> 6, dy |-> 2], [dx |-> 2, dy |-> 3]}
MCRequests == {[first |-> 0, count |-> 0], [first |-> 3, count |-> 0], [first |-> 0, count |-> 20]}

(* Eight of twelve subcarriers, two patterns with two symbols each at most; a *)
(* flat channel, two that are straight lines and one with a faded pilot.      *)
MCBandActive == [scale \in {1} |-> 8]
MCBandPatterns == {[dx |-> 2, dy |-> 2], [dx |-> 3, dy |-> 1]}
MCBandRequests == {[first |-> 0, count |-> 0]}
MCChannels ==
  { [k \in 0..11 |-> 2], [k \in 0..11 |-> k], [k \in 0..11 |-> 12 - k],
    [k \in 0..11 |-> IF k = 5 THEN 0 ELSE 1] }
MCSent == [k \in 0..11 |-> IF k % 3 = 0 THEN -1 ELSE 1]
Half == <<1, 2>>

(* Two codes over GF(16), one for one error and one for two; a matrix of four *)
(* checks and eight bits.                                                     *)
ShortCodes == <<[n |-> 6, k |-> 2], [n |-> 9, k |-> 1]>>
SmallMatrix == [rows |-> 2, cols |-> 4, weight |-> 3]

-----------------------------------------------------------------------------
Units == {"time", "ofdm", "pilots", "tables", "band", "bch", "ldpc", "matrix"}

(* A unit that does not run is in one initial state of its own. *)
Only(u, state0) == unit = u \/ state0

DatapathInit ==
  /\ unit \in Units
  /\ Init /\ Only("time", config = [mode |-> "NONE", depth |-> 0])
  /\ Ofdm!Init /\ Only("ofdm", cp = 0)
  /\ PilotPlaces!Init
  /\ Only("pilots", layout.pattern.dx = 3 /\ layout.scale = 1 /\ layout.first = 3)
  /\ Tables!Init /\ Only("tables", cells = {} /\ carriers.count = 6)
  /\ Band!EqualizerInit
  /\ Only("band", caller = "block" /\ options.mmse /\ band.pattern.dx = 2)
  /\ BchInit /\ Only("bch", t = 1)
  /\ Only("ldpc", fixed = FALSE /\ broadcast = {} /\ doubt = {}) /\ LdpcInit
  /\ MatrixInit

DatapathNext ==
  \/ unit = "time" /\ Next /\ UNCHANGED <<unit, ofdmVars, pilotVars, tableVars, bandVars, fecVars>>
  \/ unit = "ofdm" /\ Ofdm!Next /\ UNCHANGED <<unit, vars, pilotVars, tableVars, bandVars, fecVars>>
  \/ unit = "pilots" /\ PilotPlaces!Next
     /\ UNCHANGED <<unit, vars, ofdmVars, tableVars, bandVars, fecVars>>
  \/ unit = "tables" /\ Tables!Next /\ UNCHANGED <<unit, vars, ofdmVars, pilotVars, bandVars, fecVars>>
  \/ unit = "band" /\ Band!EqualizerNext
     /\ UNCHANGED <<unit, vars, ofdmVars, pilotVars, tableVars, fecVars>>
  \/ unit = "bch" /\ BchNext
     /\ UNCHANGED <<unit, vars, ofdmVars, pilotVars, tableVars, bandVars, ldpcVars, matrixVars>>
  \/ unit = "ldpc" /\ LdpcNext
     /\ UNCHANGED <<unit, vars, ofdmVars, pilotVars, tableVars, bandVars, bchVars, matrixVars>>
  \/ unit = "matrix" /\ LoadParityMatrix
     /\ UNCHANGED <<unit, vars, ofdmVars, pilotVars, tableVars, bandVars, bchVars, ldpcVars>>

datapathVars == <<unit, vars, ofdmVars, pilotVars, tableVars, bandVars, fecVars>>

DatapathSpec == DatapathInit /\ [][DatapathNext]_datapathVars

(* One of the units by itself. *)
OfdmAlone == DatapathSpec /\ unit = "ofdm"
BchAlone == DatapathSpec /\ unit = "bch"
BandAlone == DatapathSpec /\ unit = "band"

(* lib/ofdm/cp_removal.cc: a symbol is as many samples as it should have, in   *)
(* a row, across calls.                                                        *)
SymbolsComeWhole == Ofdm!SymbolsComeWhole

(* blocks/atsc3_ofdm_demod_impl.cc: what is taken for a symbol is one symbol   *)
(* of the broadcast.                                                           *)
SymbolsAligned == Ofdm!SymbolsAligned

(* lib/ofdm/pilot_extractor.cc: the places extracted are those of the pattern. *)
PilotsAgree == PilotPlaces!PilotsAgree

(* lib/ofdm/cell_deinterleaver.cc, freq_deinterleaver.cc: the tables are       *)
(* permutations and each undoes the other.                                     *)
EachPlaceOnce == Tables!EachPlaceOnce

(* lib/channel/equalizer.cc: a pilot comes out as it was sent, and so does     *)
(* what lies between two pilots of a straight channel.                         *)
SentIsRecovered == Band!SentIsRecovered

(* lib/channel/channel_estimator.cc: averages hold nothing from before a reset *)
NothingFromBefore == Band!NothingFromBefore

(* lib/channel/equalizer.h:114: "FFT output for active subcarriers"; what the  *)
(* block equalizes is what the channel of the same subcarrier did to it.       *)
EqualizedAtItsCarrier == Band!EqualizedAtItsCarrier
=============================================================================
