----------------------------- MODULE SyncTable -----------------------------
(***************************************************************************)
(* The server side of POST /sync for one table, statement by statement.    *)
(*                                                                         *)
(* A request is one READ COMMITTED transaction: it locks the user's row,   *)
(* runs the upsert and clears tombstones, runs the DELETE and inserts      *)
(* tombstones, lists rows, lists tombstones and commits.  Other requests   *)
(* and the cleanup job run between any two of those steps.  The sequence   *)
(* behind sync_version is not transactional: an aborted request leaves a   *)
(* gap in it.                                                              *)
(***************************************************************************)
EXTENDS Replica, Functions

VARIABLES
    lock,  \* the device whose transaction holds the user's row, or None
    seq,   \* last value taken from sync_version_seq
    wr,    \* wr[d]: keys d's transaction has upserted
    dl,    \* dl[d]: keys d's transaction has deleted
    nver,  \* nver[d][k]: version given to k's row or tombstone by d's transaction
    draft  \* draft[d]: the response as far as it has been computed

txVars == <<lock, seq, wr, dl, nver, draft>>
vars   == <<serverVars, deviceVars, callVars, txVars>>

ASSUME NoDeviceAssumption == None \notin Device

InTransaction == {"locked", "upserted", "deleted", "listed", "ready"}

\* The table as d's transaction sees it: its own writes over committed data.
RowSeen(d) ==
    [k \in Key |-> IF k \in wr[d] THEN local[d][k]
                   ELSE IF k \in dl[d] THEN None ELSE row[k]]

\* fault: an upsert leaves sync_version as it was
VerSeenUntouched(d) ==
    [k \in Key |-> IF k \in dl[d] THEN 0 ELSE ver[k]]

VerSeen(d) ==
    [k \in Key |-> IF k \in wr[d] THEN nver[d][k]
                   ELSE IF k \in dl[d] THEN 0 ELSE ver[k]]

\* fault: an upsert leaves the key's tombstone
TombSeenUncleared(d) ==
    [k \in Key |-> IF k \in dl[d] THEN nver[d][k] ELSE tomb[k]]

TombSeen(d) ==
    [k \in Key |-> IF k \in wr[d] THEN 0
                   ELSE IF k \in dl[d] THEN nver[d][k] ELSE tomb[k]]

\* A statement that writes the keys of S takes the next values of the sequence
\* for them, in no particular order.
Takes(S, hi, f) ==
    /\ f \in Bijection(S, (seq + 1) .. hi)
    /\ seq' = hi

SyncInit ==
    /\ Init
    /\ lock  = None
    /\ seq   = 0
    /\ wr    = [d \in Device |-> {}]
    /\ dl    = [d \in Device |-> {}]
    /\ nver  = [d \in Device |-> [k \in Key |-> 0]]
    /\ draft = [d \in Device |-> NoReply]

\* fault: the user's row is read without FOR UPDATE
BeginUnlocked(d) ==
    /\ phase[d] = "waiting"
    /\ lock'  = d
    /\ phase' = [phase EXCEPT ![d] = "locked"]
    /\ UNCHANGED <<seq, wr, dl, nver, draft, reply, serverVars, deviceVars>>

\* BEGIN; SELECT ... FROM users ... FOR UPDATE
Begin(d) ==
    /\ phase[d] = "waiting"
    /\ lock = None
    /\ lock'  = d
    /\ phase' = [phase EXCEPT ![d] = "locked"]
    /\ UNCHANGED <<seq, wr, dl, nver, draft, reply, serverVars, deviceVars>>

\* The upsert statement and, for the keys it returned, clearTombstones.
ApplyUpserts(d) ==
    /\ phase[d] = "locked"
    /\ wr' = [wr EXCEPT ![d] = Written(d)]
    /\ \E hi \in seq .. MaxSeq : \E f \in [Written(d) -> (seq + 1) .. hi] :
         /\ Takes(Written(d), hi, f)
         /\ nver' = [nver EXCEPT ![d] =
                       [k \in Key |-> IF k \in Written(d) THEN f[k] ELSE @[k]]]
    /\ phase' = [phase EXCEPT ![d] = "upserted"]
    /\ UNCHANGED <<lock, dl, draft, reply, serverVars, deviceVars>>

\* The DELETE ... RETURNING and insertTombstones for the keys it returned.
\* A request never upserts and deletes the same key.
ApplyDeletions(d) ==
    /\ phase[d] = "upserted"
    /\ dl' = [dl EXCEPT ![d] = Deleted(d)]
    /\ \E hi \in seq .. MaxSeq : \E f \in [Deleted(d) -> (seq + 1) .. hi] :
         /\ Takes(Deleted(d), hi, f)
         /\ nver' = [nver EXCEPT ![d] =
                       [k \in Key |-> IF k \in Deleted(d) THEN f[k] ELSE @[k]]]
    /\ phase' = [phase EXCEPT ![d] = "deleted"]
    /\ UNCHANGED <<lock, wr, draft, reply, serverVars, deviceVars>>

\* fault: the rows are listed outside the transaction
ListRowsOutside(d) ==
    /\ phase[d] = "deleted"
    /\ draft' = [draft EXCEPT ![d].rows = ListedRows(row, ver, cursor[d], wr[d])]
    /\ phase' = [phase EXCEPT ![d] = "listed"]
    /\ UNCHANGED <<lock, seq, wr, dl, nver, reply, serverVars, deviceVars>>

\* SELECT ... WHERE sync_version > cursor, leaving out the keys just written.
ListRows(d) ==
    /\ phase[d] = "deleted"
    /\ draft' = [draft EXCEPT ![d].rows =
                   ListedRows(RowSeen(d), VerSeen(d), cursor[d], wr[d])]
    /\ phase' = [phase EXCEPT ![d] = "listed"]
    /\ UNCHANGED <<lock, seq, wr, dl, nver, reply, serverVars, deviceVars>>

\* listTombstones, leaving out the keys just deleted, and computeNextCursor.
ListTombstones(d) ==
    /\ phase[d] = "listed"
    /\ \E next \in Version :
         /\ IsNextCursor(next, cursor[d], draft[d].rows, VerSeen(d), TombSeen(d))
         /\ draft' = [draft EXCEPT
              ![d].dels = ListedTombstones(TombSeen(d), cursor[d], dl[d]),
              ![d].next = next]
    /\ phase' = [phase EXCEPT ![d] = "ready"]
    /\ UNCHANGED <<lock, seq, wr, dl, nver, reply, serverVars, deviceVars>>

\* fault: an early return without the deferred Rollback keeps the lock
ReleaseNothing(d) ==
    /\ lock'  = lock
    /\ wr'    = [wr EXCEPT ![d] = {}]
    /\ dl'    = [dl EXCEPT ![d] = {}]
    /\ nver'  = [nver EXCEPT ![d] = [k \in Key |-> 0]]
    /\ draft' = [draft EXCEPT ![d] = NoReply]

\* The transaction is over: its locks are released, its workspace is gone.
Release(d) ==
    /\ lock'  = None
    /\ wr'    = [wr EXCEPT ![d] = {}]
    /\ dl'    = [dl EXCEPT ![d] = {}]
    /\ nver'  = [nver EXCEPT ![d] = [k \in Key |-> 0]]
    /\ draft' = [draft EXCEPT ![d] = NoReply]

\* COMMIT: the changes become visible and the response is sent.
Commit(d) ==
    /\ phase[d] = "ready"
    /\ row'   = RowSeen(d)
    /\ ver'   = VerSeen(d)
    /\ tomb'  = TombSeen(d)
    /\ reply' = [reply EXCEPT ![d] = draft[d]]
    /\ phase' = [phase EXCEPT ![d] = "replied"]
    /\ Release(d)
    /\ UNCHANGED <<seq, deviceVars>>

\* Any statement fails, or the connection is lost: ROLLBACK and status 500.
Fail(d) ==
    /\ phase[d] \in InTransaction
    /\ phase' = [phase EXCEPT ![d] = "idle"]
    /\ Release(d)
    /\ UNCHANGED <<seq, reply, serverVars, deviceVars>>

\* The request never gets as far as the lock (no connection, cancelled).
Drop(d) ==
    /\ phase[d] = "waiting"
    /\ phase' = [phase EXCEPT ![d] = "idle"]
    /\ UNCHANGED <<reply, txVars, serverVars, deviceVars>>

ServerStep(d) ==
    \/ Begin(d)
    \/ ApplyUpserts(d)
    \/ ApplyDeletions(d)
    \/ ListRows(d)
    \/ ListTombstones(d)
    \/ Commit(d)
    \/ Fail(d)
    \/ Drop(d)

\* The job's DELETE waits for a transaction that has changed the tombstone,
\* and then finds it gone or fresh.
CleanupTombstone(k) ==
    /\ \A d \in Device : k \notin wr[d] \cup dl[d]
    /\ Cleanup(k)
    /\ UNCHANGED txVars

Next ==
    \/ \E d \in Device : (DeviceStep(d) /\ UNCHANGED txVars) \/ ServerStep(d)
    \/ \E k \in Key : CleanupTombstone(k)

Spec == SyncInit /\ [][Next]_vars

----------------------------------------------------------------------------

\* The types; a version for exactly the rows that exist (syncVersionSQL is part
\* of every upsert); and one transaction at a time, the one that has the lock on
\* the users row.
TypeOK ==
    /\ regime \in {"agreed", "skewed"}
    /\ row    \in [Key -> Record \cup {None}]
    /\ ver    \in [Key -> Version]
    /\ \A k \in Key : row[k] = None <=> ver[k] = 0
    /\ tomb   \in [Key -> Version]
    /\ clock  \in 0 .. MaxClock
    /\ local  \in [Device -> [Key -> Record \cup {None}]]
    /\ dirty  \in [Device -> SUBSET Key]
    /\ gone   \in [Device -> SUBSET Key]
    /\ cursor \in [Device -> Version]
    /\ phase  \in [Device -> {"idle", "waiting", "replied"} \cup InTransaction]
    /\ reply  \in [Device -> Reply]
    /\ lock   \in Device \cup {None}
    /\ seq    \in Version
    /\ wr     \in [Device -> SUBSET Key]
    /\ dl     \in [Device -> SUBSET Key]
    /\ nver   \in [Device -> [Key -> Version]]
    /\ draft  \in [Device -> Reply]
    /\ \A d \in Device : phase[d] \in InTransaction <=> lock = d

\* ReplicaAtomic, where a request is handled at its commit.
Atomic == INSTANCE ReplicaAtomic WITH
            phase <- [d \in Device |->
                        IF phase[d] \in InTransaction THEN "waiting" ELSE phase[d]]

\* Every behaviour of the transactions is one of requests handled in single
\* steps.  Where retention may lapse it is not: the cleanup job can drop a
\* tombstone that a transaction has listed and not yet answered with.
Serialisable == Atomic!Init /\ [][Agreed => Atomic!Next]_(Atomic!vars)

\* The committed state changes as NewerWins says.
NewerWinsAlways == [][NewerWins]_vars

=============================================================================
