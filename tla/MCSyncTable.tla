---------------------------- MODULE MCSyncTable ----------------------------
(* A small instance of SyncTable.  With agreeing clocks both keys are used     *)
(* and the sequence gives out three values; with skewed clocks and lapsed      *)
(* retention one key is in use at a time, and there is one value more.         *)
EXTENDS SyncTable, FiniteSets, TLC

CONSTANT MaxSeqAgreed

MCSymmetry == Permutations(Device) \cup Permutations(Key)

InUse(k) ==
    \/ row[k] # None \/ tomb[k] # 0
    \/ \E d \in Device : local[d][k] # None \/ k \in gone[d]

MCConstraint ==
    IF Agreed THEN seq <= MaxSeqAgreed
              ELSE Cardinality({k \in Key : InUse(k)}) <= 1

=============================================================================
