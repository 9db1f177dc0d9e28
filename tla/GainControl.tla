------------------------------ MODULE GainControl ------------------------------
(* hal/src/agc.cc in the loop that hal/include/agc.h describes: the source is *)
(* given the gain that process() recommends.  Powers and gains are in steps   *)
(* of the deadband's size; a coefficient is one over a whole number.          *)
EXTENDS Integers, FiniteSetsExt

CONSTANTS
  Target,            \* target_power_dbfs
  Initial,           \* initial_gain_db
  Limits,            \* gain limits that set_config() is given
  Attack, Release,   \* one over attack_coeff_, release_coeff_
  Levels,            \* of the signal at the antenna
  MaxChanges         \* bound: changes of level or configuration, resets

VARIABLES gain, limits, level, changes

vars == <<gain, limits, level, changes>>

Error == level + gain - Target
Deadband == 1
Clamp(g, l) == Max({l.min, Min({l.max, g})})

(* A buffer of samples; rounding keeps the sign of a change. *)
Delta == IF Error > 0 THEN (Error + Attack - 1) \div Attack
         ELSE - ((Release - 1 - Error) \div Release)

(* Mutant: the sign of the error taken the other way for a weak signal. *)
ProcessReversed ==
  /\ Error >= Deadband \/ Error <= - Deadband
  /\ gain' = Clamp(IF Error > 0 THEN gain - Delta ELSE gain + Delta, limits)
  /\ UNCHANGED <<limits, level, changes>>

Process ==
  /\ Error >= Deadband \/ Error <= - Deadband
  /\ gain' = Clamp(gain - Delta, limits)
  /\ UNCHANGED <<limits, level, changes>>

Change == changes < MaxChanges /\ changes' = changes + 1

SetConfig ==
  \E l \in Limits :
    /\ Change /\ limits' = l /\ gain' = Clamp(gain, l)
    /\ UNCHANGED level

(* initial_gain_db is taken as it is, limits or not. *)
Reset == Change /\ gain' = Initial /\ UNCHANGED <<limits, level>>

Fade == Change /\ level' \in Levels /\ UNCHANGED <<gain, limits>>

Init ==
  /\ limits \in Limits /\ gain = Initial /\ level \in Levels /\ changes = 0

Next == Process \/ SetConfig \/ Reset \/ Fade

(* The loop is called with every buffer of samples. *)
Fairness == WF_vars(Process)
Spec == Init /\ [][Next]_vars /\ Fairness

(* Under a steady signal the gain comes to rest, at the target or at the      *)
(* limit on its way: no hunting, no creeping, also after a reset or limits    *)
(* that the initial gain lies outside of.                                     *)
Settled ==
  \/ Error < Deadband /\ Error > - Deadband
  \/ Error > 0 /\ gain = limits.min
  \/ Error < 0 /\ gain = limits.max

GainSettles == <>[]Settled
===============================================================================
