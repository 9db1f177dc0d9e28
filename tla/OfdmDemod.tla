------------------------------- MODULE OfdmDemod -------------------------------
(* blocks/atsc3_ofdm_demod_impl.cc and lib/ofdm/cp_removal.cc: the stream of  *)
(* samples is cut into symbols, a cyclic prefix followed by fft samples.  A   *)
(* sample is the number of its place in the stream; the FFT is the identity.  *)
EXTENDS Integers, Sequences, FiniteSets

CONSTANTS
  Fft,            \* fft_size_
  PrefixLengths,       \* cp_length_ that callers ask for
  Fractions,      \* thresholds of reconfigure(), and the CpFraction chosen from
  MaxSymbols,     \* noutput_items / fft_size_ in one call of work()
  MaxSamples,     \* bound of the stream
  MaxChanges      \* bound: calls of set_cp_length() and reset()

VARIABLES
  cp,             \* cp_length_
  removal,        \* cp_length_, buffer_ up to buffer_idx_ of cp_removal_
  consumed,       \* nitems_read()
  output,         \* of the last work(): each symbol, and the place in the
                  \* stream that it was taken from
  changes

vars == <<cp, removal, consumed, output, changes>>

(* The largest threshold that cp_length reaches, the lowest below it: the     *)
(* fraction is the table's, not the length that was asked for.                *)
Chosen(length) ==
  LET reached == {f \in Fractions : f.from <= length}
      lowest == CHOOSE f \in Fractions : \A g \in Fractions : f.from <= g.from
  IN  IF reached = {} THEN lowest.length
      ELSE (CHOOSE f \in reached : \A g \in reached : g.from <= f.from).length

(* Mutant: a symbol is taken for complete one sample late. *)
CollectLate(r, sample) ==
  LET buffer == Append(r.buffer, sample)
  IN  IF Len(buffer) > r.cp + Fft
      THEN [cp |-> r.cp, buffer |-> <<>>, window |-> SubSeq(buffer, r.cp + 1, r.cp + Fft)]
      ELSE [cp |-> r.cp, buffer |-> buffer, window |-> r.window]

(* CpRemoval::process(): samples are collected until a prefix and an FFT are  *)
(* there; the callback is given those after the prefix.                       *)
Collect(r, sample) ==
  LET buffer == Append(r.buffer, sample)
  IN  IF Len(buffer) >= r.cp + Fft
      THEN [cp |-> r.cp, buffer |-> <<>>, window |-> SubSeq(buffer, r.cp + 1, r.cp + Fft)]
      ELSE [cp |-> r.cp, buffer |-> buffer, window |-> r.window]

(* The samples of one symbol from a place in the stream, one by one.          *)
Feed(r, from) ==
  LET fed[i \in 0..(Fft + cp)] == IF i = 0 THEN r ELSE Collect(fed[i - 1], from + i)
  IN  fed

(* One symbol of work(): symbol_ready_ is that there is a window. *)
Symbol(r, from) == Feed([r EXCEPT !.window = <<>>], from)[Fft + cp]

(* work(): prefix and FFT are read for every symbol; a symbol's place in the  *)
(* output is its number, ready or not, and a sync_block consumes as many      *)
(* items as it produces.                                                      *)
From(k) == consumed + (k - 1) * (Fft + cp)

After(n) ==
  LET after[k \in 0..n] == IF k = 0 THEN removal ELSE Symbol(after[k - 1], From(k))
  IN  after

Work ==
  \E n \in 1..MaxSymbols :
    LET after == After(n)
        ready == Cardinality({k \in 1..n : after[k].window # <<>>})
    IN  /\ From(n + 1) <= MaxSamples
        /\ removal' = after[n]
        /\ consumed' = consumed + Fft * ready
        /\ output' = [k \in 1..ready |-> [from |-> From(k), symbol |-> after[k].window]]
        /\ UNCHANGED <<cp, changes>>

NewRemoval(length) == [cp |-> Chosen(length), buffer |-> <<>>, window |-> <<>>]

(* set_fft_size() does the same with the other length. *)
SetCpLength ==
  \E length \in PrefixLengths :
    /\ changes < MaxChanges /\ changes' = changes + 1
    /\ cp' = length /\ removal' = NewRemoval(length)
    /\ output' = <<>>
    /\ UNCHANGED consumed

(* reset(), or a message on its port *)
Reset ==
  /\ changes < MaxChanges /\ changes' = changes + 1
  /\ removal' = [cp |-> removal.cp, buffer |-> <<>>, window |-> <<>>]
  /\ output' = <<>>
  /\ UNCHANGED <<cp, consumed>>

Init ==
  /\ cp \in PrefixLengths /\ removal = NewRemoval(cp)
  /\ consumed = 0 /\ output = <<>> /\ changes = 0

Next == Work \/ SetCpLength \/ Reset

Spec == Init /\ [][Next]_vars

----------------------------------------------------------------------------
Useful(from) == [i \in 1..Fft |-> from + cp + i]

(* Each symbol that leaves is the useful part of the samples that were fed    *)
(* for it, whatever was fed before, however many symbols a call has and       *)
(* whatever was reset or set in between: no sample of one symbol lingers in   *)
(* CpRemoval to shift the next.  Of a prefix length the table does not have,  *)
(* nothing is said: the two lengths differ and the symbols drift.             *)
SymbolsComeWhole ==
  removal.cp = cp => \A k \in 1..Len(output) : output[k].symbol = Useful(output[k].from)

(* "Input: fft_size + cp_length samples per symbol": a symbol that leaves     *)
(* begins where a symbol of the stream begins.                                *)
SymbolsAligned ==
  removal.cp = cp => \A k \in 1..Len(output) : output[k].from % (Fft + cp) = 0
===============================================================================
