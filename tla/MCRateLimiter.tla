--------------------------- MODULE MCRateLimiter ---------------------------
(* Interchangeable requests.                                                 *)
EXTENDS RateLimiter, TLC

MCSymmetry == Permutations(Caller)

=============================================================================
