------------------------- MODULE MCAccountDeletion -------------------------
(* A small instance of AccountDeletion, and so of Otp.  No symmetry: liveness *)
(* is checked too.                                                            *)
EXTENDS AccountDeletion

CONSTANTS st1, ve1, ve2

=============================================================================
