------------------------------- MODULE MCOtp -------------------------------
(* Sign-in codes alone, with interchangeable handlers.                       *)
EXTENDS Otp, TLC

MCSymmetry == Permutations(Starter) \cup Permutations(Verifier)

=============================================================================
