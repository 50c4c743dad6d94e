------------------------------- MODULE Streaks -------------------------------
(* When a day counts towards a streak, in the code that computes the         *)
(* aggregates and in the code that computes streaks from them.               *)
EXTENDS Integers

CONSTANT Threshold  \* qualificationThresholdMs

ASSUME ThresholdAssumption == Threshold \in Nat

Qualified(ms) == ms >= Threshold

=============================================================================
