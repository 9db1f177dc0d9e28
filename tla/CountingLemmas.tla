---------------------------- MODULE CountingLemmas ----------------------------
(* What the proofs need of counting: least numbers, and loops.               *)
EXTENDS Integers, WellFoundedInduction, TLAPS

(* A set of numbers has a least one.                                         *)
LEMMA Least ==
  ASSUME NEW S, S \subseteq Nat, S # {}
  PROVE  \E i \in S : \A j \in S : i <= j
<1> DEFINE R == OpToRel(<, Nat)
<1>1. IsWellFoundedOn(R, Nat)
  BY NatLessThanWellFounded
<1> HIDE DEF R
<1>2. PICK i \in S : \A j \in S : <<j, i>> \notin R
  BY <1>1, WFMin
<1>3. \A j \in S : j < i => <<j, i>> \in R
  BY DEF R, OpToRel
<1>4. \A j \in S : i \in Nat /\ j \in Nat /\ ~ (j < i)
  BY <1>2, <1>3
<1>5. QED
  BY <1>4

(* What holds at 0 and goes on holding with every step holds everywhere.     *)
LEMMA Everywhere ==
  ASSUME NEW n \in Nat, NEW S, 0 \in S,
         \A i \in 1 .. n : i - 1 \in S => i \in S
  PROVE  0 .. n \subseteq S
<1> SUFFICES ASSUME (0 .. n) \ S # {} PROVE FALSE
  OBVIOUS
<1> DEFINE others == (0 .. n) \ S
<1>1. PICK i \in others : \A j \in others : i <= j
  <2>1. others \subseteq Nat /\ others # {}
    OBVIOUS
  <2> HIDE DEF others
  <2>2. QED
    BY <2>1, Least
<1>2. i # 0 /\ i - 1 \in 0 .. n
  BY <1>1
<1>3. i - 1 \in S
  BY <1>1, <1>2
<1>4. QED
  BY <1>1, <1>2, <1>3

(* A loop that takes a value n steps on can be run.                          *)
LEMMA IterationExists ==
  ASSUME NEW D, NEW start \in D, NEW n \in Nat, NEW turns \in [1 .. n -> [D -> D]]
  PROVE  \E f \in [0 .. n -> D] :
           f[0] = start /\ \A i \in 1 .. n : f[i] = turns[i][f[i - 1]]
<1> DEFINE Runs(f, m) == /\ f \in [0 .. m -> D] /\ f[0] = start
                         /\ \A i \in 1 .. m : f[i] = turns[i][f[i - 1]]
           S == {m \in Nat : m <= n => \E f : Runs(f, m)}
<1>1. 0 \in S
  <2>1. Runs([i \in 0 .. 0 |-> start], 0)
    OBVIOUS
  <2> HIDE DEF Runs
  <2> QED BY <2>1
<1>2. ASSUME NEW m \in 1 .. n, m - 1 \in S
      PROVE  m \in S
  <2>1. PICK g : Runs(g, m - 1)
    <3> HIDE DEF Runs
    <3> QED BY <1>2
  <2> DEFINE f == [i \in 0 .. m |-> IF i = m THEN turns[m][g[m - 1]] ELSE g[i]]
  <2>2. g[m - 1] \in D
    BY <2>1
  <2>3. f \in [0 .. m -> D] /\ f[0] = start
    BY <2>1, <2>2
  <2>4. ASSUME NEW i \in 1 .. m
        PROVE  f[i] = turns[i][f[i - 1]]
    <3>1. f[i - 1] = g[i - 1]
      OBVIOUS
    <3>2. CASE i = m
      <4>1. f[i] = turns[m][g[m - 1]] /\ i \in 0 .. m
        BY <3>2
      <4> HIDE DEF f
      <4> QED BY <3>1, <3>2, <4>1
    <3>3. CASE i # m
      <4>1. i \in 1 .. m - 1 /\ f[i] = g[i]
        BY <3>3
      <4> HIDE DEF f
      <4> QED BY <2>1, <3>1, <4>1
    <3> QED BY <3>2, <3>3
  <2>5. Runs(f, m)
    <3> HIDE DEF f
    <3> QED BY <2>3, <2>4
  <2> HIDE DEF Runs, f
  <2> QED BY <2>5
<1> HIDE DEF S
<1>3. 0 .. n \subseteq S
  BY <1>1, <1>2, Everywhere
<1>4. n \in S
  BY <1>3
<1>5. PICK f : Runs(f, n)
  BY <1>4 DEF S
<1> QED BY <1>5
=============================================================================
