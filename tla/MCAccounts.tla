----------------------------- MODULE MCAccounts -----------------------------
(* Interchangeable users and handlers; a bound on the aggregates there are,  *)
(* a lower one once a stop is being used: stops and figures meet only at the *)
(* lock on the row.                                                          *)
EXTENDS Accounts, TLC

CONSTANTS
    MaxRows,     \* bound: aggregates of all the users together
    MaxRowsStop  \* bound: the same, once a stop is used or being used

MCSymmetry == Permutations(User) \cup Permutations(Handler)

StopsBegun == \E u \in User : used[u] > 0 \/ locked[u] # None

MCConstraint ==
    Cardinality({<<u, d>> \in User \X (1..MaxDay) : aggs[u][d] > 0})
        <= IF StopsBegun THEN MaxRowsStop ELSE MaxRows

=============================================================================
