---------------------------- MODULE Deinterleavers ----------------------------
(* lib/ofdm/cell_deinterleaver.cc and freq_deinterleaver.cc: the cells of a   *)
(* block, and the carriers of a symbol, are put back in order with a table    *)
(* made for their number.  A table is a set of pairs; places start at 0.      *)
EXTENDS Integers, FiniteSets

CONSTANTS
  Sizes,        \* numbers of cells that callers ask for, 0 for none
  Carriers,     \* num_active_carriers of the FFT sizes that are known
  MaxCalls      \* bound

VARIABLES
  cells,        \* inv_permutation_ of a CellDeinterleaver
  carriers,     \* inv_permutation_ and num_active_carriers of a FreqDeinterleaver
  last,         \* history: the table that the last deinterleave() followed,
                \* what it followed it for and how many places it had
  calls

vars == <<cells, carriers, last, calls>>

(* next_power_of_two() and count_bits(): the bits of the least power of two   *)
(* that is not below n, one bit at least                                      *)
Power(bits) ==
  LET power[i \in 0..bits] == IF i = 0 THEN 1 ELSE 2 * power[i - 1]
  IN  power[bits]

Width(n) == CHOOSE b \in 1..(n + 1) : Power(b) >= n /\ \A c \in 1..(b - 1) : Power(c) < n

(* bit_reverse(): the lowest bit of the rest goes to the end of the result.   *)
Shifts(x, bits) ==
  LET shift[i \in 0..bits] ==
        IF i = 0 THEN [result |-> 0, rest |-> x]
        ELSE [result |-> (2 * shift[i - 1].result) + (shift[i - 1].rest % 2),
              rest |-> shift[i - 1].rest \div 2]
  IN  shift

Reversed(x, bits) == Shifts(x, bits)[bits].result

Pairs(n) == {p \in {<<i, Reversed(i, Width(n))>> : i \in 0..(n - 1)} : p[2] < n}
LeftOver(n, k) == (0..(n - 1)) \ {p[k] : p \in Pairs(n)}

(* Mutant: unused_idx is not advanced. *)
ForwardStuck(n) ==
  Pairs(n) \union
  {<<source, CHOOSE t \in LeftOver(n, 2) : \A u \in LeftOver(n, 2) : t <= u>>
     : source \in LeftOver(n, 1)}

(* compute_permutation(): places whose reversal is in range change with it,   *)
(* the others take in order the places that are left over.                    *)
Forward(n) ==
  LET rank(S, x) == Cardinality({y \in S : y < x})
  IN  Pairs(n) \union
      {p \in LeftOver(n, 1) \X LeftOver(n, 2) :
         rank(LeftOver(n, 1), p[1]) = rank(LeftOver(n, 2), p[2])}

Inverted(table) == {<<p[2], p[1]>> : p \in table}
Identity(n) == {<<i, i>> : i \in 0..(n - 1)}

(* interleaver_permutation() of the cells and compute_cell_interleaver_-      *)
(* position(): the reversed numbers in range, one after the other             *)
CellPositions(n) ==
  LET taken == {i \in 0..(Power(Width(n)) - 1) : Reversed(i, Width(n)) < n}
  IN  {<<Cardinality({j \in taken : j < i}), Reversed(i, Width(n))>> : i \in taken}

----------------------------------------------------------------------------
Call == calls < MaxCalls /\ calls' = calls + 1
Gather(kind, table, n) == last' = [kind |-> kind, table |-> table, size |-> n]

(* The constructor and set_config() *)
SetCells ==
  \E n \in Sizes :
    /\ Call /\ cells' = Inverted(Forward(n))
    /\ UNCHANGED <<carriers, last>>

(* deinterleave(cells, n): another size has its table made first. *)
CellsInPlace ==
  \E n \in Sizes \ {0} :
    /\ Call
    /\ cells' = IF n = Cardinality(cells) THEN cells ELSE Inverted(Forward(n))
    /\ Gather("cells", cells', n)
    /\ UNCHANGED carriers

(* deinterleave(input, output, n): another size is copied as it is. *)
CellsCopied ==
  \E n \in Sizes \ {0} :
    /\ Call
    /\ IF n = Cardinality(cells) THEN Gather("cells", cells, n)
                                 ELSE Gather("copy", Identity(n), n)
    /\ UNCHANGED <<cells, carriers>>

(* The block asks for the carriers of 8192 when it does not know the size; a  *)
(* FreqDeinterleaver without a number and with an unknown size has no table.  *)
SetCarriers ==
  \E n \in Carriers \union {0} :
    /\ Call /\ carriers' = [table |-> Inverted(Forward(n)), count |-> n]
    /\ UNCHANGED <<cells, last>>

(* deinterleave() and deinterleave_inplace(): nothing is done without one. *)
CarriersBack ==
  /\ carriers.count # 0 /\ Cardinality(carriers.table) = carriers.count
  /\ Call /\ Gather("carriers", carriers.table, carriers.count)
  /\ UNCHANGED <<cells, carriers>>

Init ==
  /\ \E n \in Sizes : cells = Inverted(Forward(n))
  /\ \E n \in Carriers : carriers = [table |-> Inverted(Forward(n)), count |-> n]
  /\ last = [kind |-> "copy", table |-> {}, size |-> 0] /\ calls = 0

Next == SetCells \/ CellsInPlace \/ CellsCopied \/ SetCarriers \/ CarriersBack

----------------------------------------------------------------------------
OneToOne(table, n) ==
  /\ Cardinality(table) = n
  /\ \A k \in 1..2 : {p[k] : p \in table} = 0..(n - 1)

(* Whatever sizes were in use before, no cell and no carrier is lost or used  *)
(* twice, and the table is the inverse of the forward one for this size, also *)
(* when the size is no power of two.  Where it is one, a transmitter that     *)
(* asks the library for its positions is understood; for every other size     *)
(* compute_cell_interleaver_position() names another permutation.             *)
EachPlaceOnce ==
  /\ OneToOne(last.table, last.size)
  /\ last.kind # "copy" => last.table = Inverted(Forward(last.size))
  /\ last.kind = "cells" /\ last.size = Power(Width(last.size)) =>
       last.table = Inverted(CellPositions(last.size))
===============================================================================
