------------------------------ MODULE BchDecoder ------------------------------
(* lib/fec/bch_decoder.cc: the algebraic decoder behind the LDPC code.  An    *)
(* element of GF(2^Degree) is the set of its non-zero coefficients, a word    *)
(* the set of its non-zero bits, so that adding is the symmetric difference.  *)
(* The decoder keeps error_locator_ from one codeword to the next.            *)
EXTENDS Integers, FiniteSets

CONSTANTS
  Degree,      \* m; the code is built for 16
  LowTerms,    \* the primitive polynomial without its leading term
  Lengths,     \* codeword_length and info_length, by t: [t -> [n, k]].  With t > 2
               \* the degree can pass t + 1, and the copy in berlekamp_massey()
               \* the end of error_locator_.
  NoisyBits,   \* bound: where bit errors happen
  MaxNoise     \* bound: bit errors in a codeword

VARIABLES
  t,           \* config_.t
  locator,     \* error_locator_
  codeword, noise, \* the last codeword on the channel, and its bit errors
  corrected,      \* the BchResult of the last decode()
  clean        \* history: that decode() found error_locator_ cleared

bchVars == <<t, locator, codeword, noise, corrected, clean>>

Order == 2 ^ Degree - 1
Zero == {}
Add(a, b) == (a \ b) \cup (b \ a)
Odd(S) == Cardinality(S) % 2 = 1

(* The sum of f[i] over i in S. *)
SumOver(f, S) == {b \in 0 .. Degree - 1 : Odd({i \in S : b \in f[i]})}

(* init_gf_tables *)
TimesAlpha(x) ==
  LET up == {b + 1 : b \in x}
  IN  IF Degree \in up THEN Add(up \ {Degree}, LowTerms) ELSE up

Power[i \in 0 .. Order - 1] == IF i = 0 THEN {0} ELSE TimesAlpha(Power[i - 1])

GfTable == {<<i, Power[i]>> : i \in 0 .. Order - 1}

Exp(i) == (CHOOSE q \in GfTable : q[1] = i % Order)[2]
Log(x) == (CHOOSE q \in GfTable : q[2] = x)[1]

Mul(a, b) == IF Zero \in {a, b} THEN Zero ELSE Exp(Log(a) + Log(b))
Div(a, b) == IF Zero \in {a, b} THEN Zero ELSE Exp(Log(a) - Log(b))

(* An array of field elements is the set of its <<index, coefficient>> pairs, *)
(* so that Add adds arrays too.                                               *)
At(p, i) == {q[2] : q \in {x \in p : x[1] = i}}

Entry(i, x) == {i} \X x

(* compute_syndromes *)
Syndromes(u, word) ==
  UNION {Entry(j, SumOver([i \in word |-> Exp(i * j)], word)) : j \in 1 .. 2 * u}

-----------------------------------------------------------------------------
(* berlekamp_massey: the state of its loop after n syndromes *)
One == Entry(0, {0})

Discrepancy(s, n, b) ==
  Add(At(s, n), SumOver([i \in 1 .. b.L |-> Mul(At(b.sigma, i), At(s, n - i))], 1 .. b.L))

(* sigma - coeff * x^m * prev, within the t + 2 entries of the array *)
Adjusted(b, coeff) ==
  Add(b.sigma, UNION {Entry(i, Mul(coeff, At(b.prev, i - b.m))) : i \in b.m .. t + 1})

BerlekampMassey(s) ==
  LET Step[n \in 0 .. 2 * t] ==
        IF n = 0 THEN [sigma |-> One, prev |-> One, L |-> 0, m |-> 1, dprev |-> {0}]
        ELSE LET b == Step[n - 1]
                 d == Discrepancy(s, n, b)
                 sigma == Adjusted(b, Div(d, b.dprev))
             IN CASE d = Zero -> [b EXCEPT !.m = @ + 1]
                  [] d # Zero /\ 2 * b.L <= n - 1 ->
                       [sigma |-> sigma, prev |-> b.sigma, L |-> n - b.L, m |-> 1, dprev |-> d]
                  [] OTHER -> [b EXCEPT !.sigma = sigma, !.m = @ + 1]
  IN  Step[2 * t]

(* Mutant: one coefficient too few is copied. *)
CopiedShort(b) == {q \in b.sigma : q[1] < b.L} \cup {q \in locator : q[1] >= b.L}

(* What error_locator_ holds after the copy of sigma's first L + 1 entries. *)
Copied(b) == {q \in b.sigma : q[1] <= b.L} \cup {q \in locator : q[1] > b.L}

(* chien_search: the degree counts every entry up to t, and the search stops *)
(* at the degree-th root.                                                    *)
LocatorDegree(l) ==
  LET used == {q[1] : q \in l} \cap 0 .. t
  IN  CHOOSE i \in used \cup {0} : \A j \in used : j <= i

Roots(l, n) ==
  LET deg == LocatorDegree(l)
      At0(i) == SumOver([j \in 0 .. deg |-> Mul(At(l, j), Exp(- (i * j)))], 0 .. deg)
      all == {i \in 0 .. n - 1 : At0(i) = Zero}
  IN  IF deg = 0 THEN {} ELSE {i \in all : Cardinality({j \in all : j <= i}) <= deg}

-----------------------------------------------------------------------------
(* decode *)
Failed == [success |-> FALSE, was_valid |-> FALSE, errors |-> 0, bits |-> {}]

(* Whole bytes are copied: the information bits and the parity in their last. *)
CopiedBits(word) == {i \in word : i < 8 * ((Lengths[t].k + 7) \div 8)}

Decoded(word, valid, errors) ==
  [success |-> TRUE, was_valid |-> valid, errors |-> errors, bits |-> CopiedBits(word)]

BchCodewords ==
  UNION {{<<u, w>> : w \in {v \in SUBSET (0 .. Lengths[u].n - 1) : Syndromes(u, v) = {}}}
           : u \in DOMAIN Lengths}

Correction(word, b, roots) ==
  IF b.L > t \/ Cardinality(roots) # b.L \/ Syndromes(t, Add(word, roots)) # {}
  THEN Failed
  ELSE Decoded(Add(word, roots), FALSE, Cardinality(roots))

Decode(c, e) ==
  LET word == Add(c, e)
      s == Syndromes(t, word)
      b == BerlekampMassey(s)
      l == Copied(b)
  IN  /\ codeword' = c /\ noise' = e
      /\ clean' = (locator = {})
      /\ IF s = {}
         THEN corrected' = Decoded(word, TRUE, 0) /\ UNCHANGED locator
         ELSE corrected' = Correction(word, b, Roots(l, Lengths[t].n)) /\ locator' = l
      /\ UNCHANGED t

Receive ==
  \E c \in At(BchCodewords, t), e \in SUBSET (NoisyBits \cap 0 .. Lengths[t].n - 1) :
    Cardinality(e) <= MaxNoise /\ Decode(c, e)

Quiet == codeword' = {} /\ noise' = {} /\ corrected' = Failed /\ clean' = TRUE

(* set_config: resize() keeps what is there *)
SetCode ==
  \E u \in DOMAIN Lengths \ {t} :
    /\ t' = u
    /\ locator' = {q \in locator : q[1] <= u + 1}
    /\ Quiet

BchReset ==
  /\ locator' = {}
  /\ Quiet /\ UNCHANGED t

BchInit ==
  /\ t \in DOMAIN Lengths
  /\ locator = {}
  /\ codeword = {} /\ noise = {} /\ corrected = Failed /\ clean = TRUE

BchNext == Receive \/ SetCode \/ BchReset

BchSpec == BchInit /\ [][BchNext]_bchVars

-----------------------------------------------------------------------------
Arrived == noise # {} \/ corrected.success

(* bch_decoder.h: "success: true if decoding succeeded (errors <= t)".  What  *)
(* is handed out as corrected is what was sent, whatever the decoder did      *)
(* before; and a decoder whose locator is clear corrects all t errors.        *)
WithinReachIsCorrected ==
  Arrived /\ Cardinality(noise) <= t =>
    /\ corrected.success =>
         corrected.bits = CopiedBits(codeword) /\ corrected.errors = Cardinality(noise)
    /\ clean => corrected.success

(* The same for every decoder: what the header and MultipleDecodes in         *)
(* test/unit/test_bch_decoder.cc say.  Coefficients of an earlier codeword    *)
(* above the degree of this one are left in error_locator_.                   *)
CorrectsUpToT ==
  Arrived /\ Cardinality(noise) <= t => corrected.success
===============================================================================
