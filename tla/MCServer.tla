------------------------------ MODULE MCServer ------------------------------
(* A small instance of Server, and so of RateLimiter.  No symmetry: liveness *)
(* is checked too.                                                           *)
EXTENDS Server

CONSTANTS c1, c2

=============================================================================
