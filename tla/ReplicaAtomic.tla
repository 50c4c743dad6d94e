--------------------------- MODULE ReplicaAtomic ---------------------------
(***************************************************************************)
(* What the sync endpoint promises, without its transactions: each request *)
(* is handled in one step, on the state the previous request left, and the *)
(* changes it makes get sync_versions no device or row has seen before.    *)
(* SyncTable implements this specification.                                *)
(***************************************************************************)
EXTENDS Replica

vars == <<serverVars, deviceVars, callVars>>

\* A sync_version larger than all those handed out so far.
Fresh(n) ==
    /\ \A k \in Key : n > ver[k] /\ n > tomb[k]
    /\ \A d \in Device : n > cursor[d] /\ n > reply[d].next

\* The request is handled: upserts that win are written and their tombstones
\* cleared, rows to delete are turned into tombstones, and the response lists
\* what lies past the device's cursor.
Serve(d) ==
    LET wr == Written(d)
        dl == Deleted(d)
    IN  /\ phase[d] = "waiting"
        /\ row' = [k \in Key |-> IF k \in wr THEN local[d][k]
                                 ELSE IF k \in dl THEN None ELSE row[k]]
        /\ ver' \in [Key -> Version]
        /\ tomb' \in [Key -> Version]
        /\ \A k \in Key :
             \/ k \in wr /\ Fresh(ver'[k]) /\ tomb'[k] = 0
             \/ k \in dl /\ ver'[k] = 0 /\ Fresh(tomb'[k])
             \/ k \notin wr \cup dl /\ ver'[k] = ver[k] /\ tomb'[k] = tomb[k]
        /\ LET listed == ListedRows(row', ver', cursor[d], wr)
           IN  \E next \in Version :
                 /\ IsNextCursor(next, cursor[d], listed, ver', tomb')
                 /\ reply' = [reply EXCEPT ![d] =
                      [rows |-> listed,
                       dels |-> ListedTombstones(tomb', cursor[d], dl),
                       next |-> next]]
        /\ phase' = [phase EXCEPT ![d] = "replied"]
        /\ UNCHANGED deviceVars

\* The request fails and changes nothing.
Reject(d) ==
    /\ phase[d] = "waiting"
    /\ phase' = [phase EXCEPT ![d] = "idle"]
    /\ UNCHANGED <<reply, serverVars, deviceVars>>

Next ==
    \/ \E d \in Device : DeviceStep(d) \/ Serve(d) \/ Reject(d)
    \/ \E k \in Key : Cleanup(k)

Spec == Init /\ [][Next]_vars

\* The types of the server's rows, of the devices and of the requests.
TypeOK ==
    /\ regime \in {"agreed", "skewed"}
    /\ row    \in [Key -> Record \cup {None}]
    /\ ver    \in [Key -> Version]
    /\ tomb   \in [Key -> Version]
    /\ clock  \in 0 .. MaxClock
    /\ local  \in [Device -> [Key -> Record \cup {None}]]
    /\ dirty  \in [Device -> SUBSET Key]
    /\ gone   \in [Device -> SUBSET Key]
    /\ cursor \in [Device -> Version]
    /\ phase  \in [Device -> {"idle", "waiting", "replied"}]
    /\ reply  \in [Device -> Reply]

----------------------------------------------------------------------------
(* The inductive invariant behind NoSkippedChange.                         *)

\* Pending upserts and deletions are disjoint and match the local copy, and
\* exactly the rows that exist have a sync_version.
WellFormed ==
    /\ \A k \in Key : row[k] = None <=> ver[k] = 0
    /\ \A d \in Device, k \in Key :
         /\ k \in dirty[d] => k \notin gone[d] /\ local[d][k] # None
         /\ k \in gone[d] => local[d][k] = None

\* While clocks agree nothing carries an updated_at from the future.
StampsPassed ==
    /\ \A k \in Key : row[k] # None => row[k].upd <= clock
    /\ \A d \in Device, k \in Key :
         /\ local[d][k] # None => local[d][k].upd <= clock
         /\ reply[d].rows[k] # None => reply[d].rows[k].upd <= clock

\* An edit not yet sent is newer than the row the device had seen when it was
\* made, so the upsert can only lose to a row the response will carry.
PendingIsNewer ==
    \A d \in Device, k \in Key :
        (k \in dirty[d] /\ row[k] # None /\ ver[k] <= cursor[d])
            => row[k].upd < local[d][k].upd

\* The copy a device will hold once it has applied the response under way.
Applied(d, k) ==
    IF k \in reply[d].dels THEN None
    ELSE IF reply[d].rows[k] # None THEN reply[d].rows[k]
    ELSE local[d][k]

\* A response never moves the cursor back, and applying it leaves the device
\* with no change it could skip.
ReplyCatchesUp ==
    \A d \in Device : phase[d] = "replied" =>
        /\ cursor[d] <= reply[d].next
        /\ \A k \in Key : Applied(d, k) # row[k] =>
              IF row[k] # None THEN ver[k] > reply[d].next
                               ELSE tomb[k] > reply[d].next

IInv ==
    /\ TypeOK
    /\ WellFormed
    /\ LiveOrTombstoned
    /\ Agreed => /\ StampsPassed
                 /\ PendingIsNewer
                 /\ EveryChangeAhead
                 /\ ReplyCatchesUp

=============================================================================
