-------------------------- MODULE SyncTable_proofs --------------------------
(***************************************************************************)
(* The server's transactions implement ReplicaAtomic, for every number of  *)
(* devices and keys, and what that specification promises holds of them.   *)
(*                                                                         *)
(* A commit is a request handled in one step, because whoever has the lock *)
(* on the users row finds at the commit what its statements read (Written, *)
(* Deleted, the rows listed), and because the versions that its statements *)
(* took are larger than all those that anybody has seen (Ahead).  The      *)
(* tombstones are the exception: the cleanup job needs no lock.  It drops  *)
(* none that a transaction has listed as long as retention does not lapse. *)
(***************************************************************************)
EXTENDS SyncTable, TLAPS

AP == INSTANCE ReplicaAtomic_proofs WITH
        phase <- [d \in Device |->
                    IF phase[d] \in InTransaction THEN "waiting" ELSE phase[d]]

\* Pending changes are disjoint, match the local copy and are the device's own.
Pending ==
    \A d \in Device, k \in Key :
        /\ k \in dirty[d] => k \notin gone[d] /\ local[d][k] # None /\ local[d][k].by = d
        /\ k \in gone[d] => local[d][k] = None

\* A transaction has written and deleted what it would write and delete now.
Workspace ==
    \A d \in Device :
        /\ wr[d] = IF phase[d] \in InTransaction \ {"locked"} THEN Written(d) ELSE {}
        /\ dl[d] = IF phase[d] \in {"deleted", "listed", "ready"} THEN Deleted(d) ELSE {}

\* Nothing seen so far has a version that the sequence has not reached, and those
\* that a transaction has taken are larger than all that anybody has seen.
Ahead ==
    /\ \A k \in Key : ver[k] <= seq /\ tomb[k] <= seq
    /\ \A d \in Device : cursor[d] <= seq /\ reply[d].next <= seq /\ draft[d].next <= seq
    /\ \A d \in Device : \A k \in wr[d] \cup dl[d] :
         /\ nver[d][k] <= seq
         /\ \A j \in Key : nver[d][k] > ver[j] /\ nver[d][k] > tomb[j]
         /\ \A e \in Device : nver[d][k] > cursor[e] /\ nver[d][k] > reply[e].next

\* The response as far as it has been computed is what would be computed now, up
\* to tombstones that the cleanup job has dropped meanwhile.
Drafted ==
    \A d \in Device :
        /\ phase[d] \in {"listed", "ready"} =>
             draft[d].rows = ListedRows(RowSeen(d), VerSeen(d), cursor[d], wr[d])
        /\ phase[d] = "ready" =>
             /\ \A k \in draft[d].dels : RowSeen(d)[k] = None
             /\ Agreed => /\ draft[d].dels = ListedTombstones(TombSeen(d), cursor[d], dl[d])
                          /\ IsNextCursor(draft[d].next, cursor[d], draft[d].rows,
                                          VerSeen(d), TombSeen(d))

\* The copy that d holds once the response under way has arrived.
Coming(d, k) ==
    IF k \in reply[d].dels THEN None
    ELSE IF reply[d].rows[k] # None THEN reply[d].rows[k]
    ELSE local[d][k]

\* When it has arrived, d misses no live row but those that its own edit lost to.
OnlyOwnEditWillBeLost ==
    \A d \in Device, k \in Key :
        (/\ phase[d] = "replied"
         /\ row[k] # None /\ Coming(d, k) # row[k] /\ ver[k] <= reply[d].next)
            => /\ Coming(d, k) # None
               /\ Coming(d, k).by = d
               /\ Coming(d, k).upd <= row[k].upd

\* Everything that does not depend on the clocks.
TableInv ==
    /\ TypeOK
    /\ LiveOrTombstoned
    /\ Pending
    /\ Workspace
    /\ Ahead
    /\ Drafted
    /\ OnlyOwnEditLost
    /\ OnlyOwnEditWillBeLost

SyncInv == TableInv /\ (Agreed => AP!CaughtUp)

USE DEF Version, Stamp, Agreed, InTransaction

----------------------------------------------------------------------------
(* Types.                                                                  *)

LEMMA NoReplyTyped == NoReply \in Reply /\ NoReply.next = 0 /\ NoReply.dels = {}
BY BoundsAssumption DEF NoReply, Reply

\* Who is in a transaction has the lock, so there is one of them at most.
LEMMA Alone ==
    ASSUME TypeOK, NEW d \in Device, NEW e \in Device,
           phase[d] \in InTransaction, phase[e] \in InTransaction
    PROVE  d = e
BY DEF TypeOK

LEMMA SeenTyped ==
    ASSUME TypeOK, NEW d \in Device
    PROVE  /\ RowSeen(d) \in [Key -> Record \cup {None}]
           /\ VerSeen(d) \in [Key -> Version]
           /\ TombSeen(d) \in [Key -> Version]
BY BoundsAssumption DEF TypeOK, RowSeen, VerSeen, TombSeen

LEMMA DeviceTyped ==
    ASSUME TypeOK, NEW d \in Device, DeviceStep(d), UNCHANGED txVars
    PROVE  TypeOK'
<1> USE BoundsAssumption DEF TypeOK, txVars
<1>1. ASSUME NEW k \in Key, Edit(d, k) PROVE TypeOK'
  <2>1. PICK now \in IF Agreed THEN {clock + 1} ELSE Stamp :
          /\ now \in Stamp
          /\ clock' = IF Agreed THEN now ELSE clock
          /\ local' = [local EXCEPT ![d][k] = [upd |-> now, by |-> d]]
    BY <1>1 DEF Edit
  <2>2. [upd |-> now, by |-> d] \in Record
    BY <2>1 DEF Record
  <2> QED BY <1>1, <2>1, <2>2 DEF Edit, serverVars, callVars
<1>2. ASSUME NEW k \in Key, Remove(d, k) PROVE TypeOK'
  BY <1>2 DEF Remove, serverVars, callVars
<1>3. CASE Reinstall(d)
  BY <1>3 DEF Reinstall, serverVars, callVars
<1>4. CASE Send(d)
  BY <1>4 DEF Send, serverVars, deviceVars
<1>5. CASE Receive(d)
  <2>1. reply[d] \in Reply
    OBVIOUS
  <2>2. /\ reply[d].rows \in [Key -> Record \cup {None}]
        /\ reply[d].next \in Version
    BY <2>1 DEF Reply
  <2> QED BY <1>5, <2>2, NoReplyTyped DEF Receive, serverVars
<1>6. CASE Lose(d)
  BY <1>6, NoReplyTyped DEF Lose, serverVars, deviceVars
<1> QED BY <1>1, <1>2, <1>3, <1>4, <1>5, <1>6 DEF DeviceStep

\* What the statement that writes the keys of S leaves in the workspace.
LEMMA VersionsTaken ==
    ASSUME TypeOK, NEW d \in Device, NEW S \in SUBSET Key,
           \E hi \in seq .. MaxSeq : \E f \in [S -> (seq + 1) .. hi] :
             /\ Takes(S, hi, f)
             /\ nver' = [nver EXCEPT ![d] = [k \in Key |-> IF k \in S THEN f[k] ELSE @[k]]]
    PROVE  /\ seq' \in Version /\ seq <= seq'
           /\ nver' \in [Device -> [Key -> Version]]
           /\ \A k \in S : seq < nver'[d][k] /\ nver'[d][k] <= seq'
           /\ \A k \in Key \ S : nver'[d][k] = nver[d][k]
           /\ \A e \in Device \ {d} : nver'[e] = nver[e]
<1> USE BoundsAssumption DEF TypeOK
<1>1. PICK hi \in seq .. MaxSeq : \E f \in [S -> (seq + 1) .. hi] :
        /\ Takes(S, hi, f)
        /\ nver' = [nver EXCEPT ![d] = [k \in Key |-> IF k \in S THEN f[k] ELSE @[k]]]
  OBVIOUS
<1>2. PICK f \in [S -> (seq + 1) .. hi] :
        /\ Takes(S, hi, f)
        /\ nver' = [nver EXCEPT ![d] = [k \in Key |-> IF k \in S THEN f[k] ELSE @[k]]]
  BY <1>1
<1>3. seq' = hi
  BY <1>2 DEF Takes
<1>4. nver' = [nver EXCEPT ![d] = [k \in Key |-> IF k \in S THEN f[k] ELSE nver[d][k]]]
  BY <1>2
<1> QED BY <1>3, <1>4

LEMMA UpsertsEffect ==
    ASSUME TypeOK, NEW d \in Device, ApplyUpserts(d)
    PROVE  /\ Written(d) \in SUBSET Key
           /\ wr' = [wr EXCEPT ![d] = Written(d)]
           /\ seq' \in Version /\ seq <= seq'
           /\ nver' \in [Device -> [Key -> Version]]
           /\ \A k \in Written(d) : seq < nver'[d][k] /\ nver'[d][k] <= seq'
           /\ \A k \in Key \ Written(d) : nver'[d][k] = nver[d][k]
           /\ \A e \in Device \ {d} : nver'[e] = nver[e]
<1>1. Written(d) \in SUBSET Key
  BY DEF Written, TypeOK
<1>2. /\ wr' = [wr EXCEPT ![d] = Written(d)]
      /\ \E hi \in seq .. MaxSeq : \E f \in [Written(d) -> (seq + 1) .. hi] :
           /\ Takes(Written(d), hi, f)
           /\ nver' = [nver EXCEPT ![d] =
                         [k \in Key |-> IF k \in Written(d) THEN f[k] ELSE @[k]]]
  BY DEF ApplyUpserts
<1> HIDE DEF Version
<1> QED BY <1>1, <1>2, VersionsTaken

LEMMA DeletionsEffect ==
    ASSUME TypeOK, NEW d \in Device, ApplyDeletions(d)
    PROVE  /\ Deleted(d) \in SUBSET Key
           /\ dl' = [dl EXCEPT ![d] = Deleted(d)]
           /\ seq' \in Version /\ seq <= seq'
           /\ nver' \in [Device -> [Key -> Version]]
           /\ \A k \in Deleted(d) : seq < nver'[d][k] /\ nver'[d][k] <= seq'
           /\ \A k \in Key \ Deleted(d) : nver'[d][k] = nver[d][k]
           /\ \A e \in Device \ {d} : nver'[e] = nver[e]
<1>1. Deleted(d) \in SUBSET Key
  BY DEF Deleted, TypeOK
<1>2. /\ dl' = [dl EXCEPT ![d] = Deleted(d)]
      /\ \E hi \in seq .. MaxSeq : \E f \in [Deleted(d) -> (seq + 1) .. hi] :
           /\ Takes(Deleted(d), hi, f)
           /\ nver' = [nver EXCEPT ![d] =
                         [k \in Key |-> IF k \in Deleted(d) THEN f[k] ELSE @[k]]]
  BY DEF ApplyDeletions
<1> HIDE DEF Version
<1> QED BY <1>1, <1>2, VersionsTaken

\* What the two lists add to the draft.
LEMMA DraftEffect ==
    ASSUME TypeOK, NEW d \in Device, ListRows(d) \/ ListTombstones(d)
    PROVE  /\ draft' \in [Device -> Reply]
           /\ \A e \in Device \ {d} : draft'[e] = draft[e]
           /\ ListRows(d) =>
                /\ draft'[d].rows = ListedRows(RowSeen(d), VerSeen(d), cursor[d], wr[d])
                /\ draft'[d].next = draft[d].next
           /\ ListTombstones(d) =>
                /\ draft'[d].rows = draft[d].rows
                /\ draft'[d].dels = ListedTombstones(TombSeen(d), cursor[d], dl[d])
                /\ IsNextCursor(draft'[d].next, cursor[d], draft[d].rows,
                                VerSeen(d), TombSeen(d))
<1> HIDE DEF Version
<1>0. /\ draft[d] \in Reply
      /\ draft \in [Device -> Reply]
      /\ draft[d] = [rows |-> draft[d].rows, dels |-> draft[d].dels, next |-> draft[d].next]
      /\ draft[d].rows \in [Key -> Record \cup {None}]
      /\ draft[d].dels \in SUBSET Key
      /\ draft[d].next \in Version
  BY DEF TypeOK, Reply
<1>1. CASE ListRows(d)
  <2> DEFINE R == ListedRows(RowSeen(d), VerSeen(d), cursor[d], wr[d])
  <2>1. R \in [Key -> Record \cup {None}]
    BY SeenTyped DEF ListedRows
  <2>2. draft' = [draft EXCEPT ![d].rows = R]
    BY <1>1 DEF ListRows
  <2> HIDE DEF R
  <2>a. draft' = [draft EXCEPT ![d] = [draft[d] EXCEPT !.rows = R]]
    BY <2>2
  <2>b. [draft[d] EXCEPT !.rows = R]
          = [rows |-> R, dels |-> draft[d].dels, next |-> draft[d].next]
    BY <1>0
  <2>3. draft' = [draft EXCEPT ![d] = [rows |-> R, dels |-> draft[d].dels, next |-> draft[d].next]]
    BY <2>a, <2>b
  <2>4. [rows |-> R, dels |-> draft[d].dels, next |-> draft[d].next] \in Reply
    BY <1>0, <2>1 DEF Reply
  <2>5. ~ ListTombstones(d)
    BY <1>1 DEF ListRows, ListTombstones
  <2> QED BY <1>0, <2>3, <2>4, <2>5 DEF R
<1>2. CASE ListTombstones(d)
  <2> DEFINE D == ListedTombstones(TombSeen(d), cursor[d], dl[d])
  <2>1. D \in SUBSET Key
    BY DEF ListedTombstones
  <2>2. PICK next \in Version :
          /\ IsNextCursor(next, cursor[d], draft[d].rows, VerSeen(d), TombSeen(d))
          /\ draft' = [draft EXCEPT ![d].dels = D, ![d].next = next]
    BY <1>2 DEF ListTombstones
  <2> HIDE DEF D
  <2>a. draft' = [draft EXCEPT ![d] = [draft[d] EXCEPT !.dels = D, !.next = next]]
    BY <1>0, <2>2
  <2>3. /\ [draft[d] EXCEPT !.dels = D, !.next = next].rows = draft[d].rows
        /\ [draft[d] EXCEPT !.dels = D, !.next = next].dels = D
        /\ [draft[d] EXCEPT !.dels = D, !.next = next].next = next
    BY <1>0, <2>1 DEF Reply
  <2>4. [draft[d] EXCEPT !.dels = D, !.next = next] \in Reply
    BY <1>0, <2>1 DEF Reply
  <2>5. ~ ListRows(d)
    BY <1>2 DEF ListRows, ListTombstones
  <2> QED BY <1>0, <2>2, <2>a, <2>3, <2>4, <2>5 DEF D
<1> QED BY <1>1, <1>2

\* The statements of a request, whatever the versions that they take.
LEMMA StatementTyped ==
    ASSUME TypeOK, NEW d \in Device,
           Begin(d) \/ ApplyUpserts(d) \/ ApplyDeletions(d) \/ ListRows(d) \/ ListTombstones(d)
    PROVE  TypeOK'
<1> HIDE DEF Version
<1> USE DEF TypeOK, serverVars, deviceVars
<1>1. CASE Begin(d)
  BY <1>1, NoDeviceAssumption DEF Begin
<1>2. CASE ApplyUpserts(d)
  BY <1>2, UpsertsEffect DEF ApplyUpserts
<1>3. CASE ApplyDeletions(d)
  BY <1>3, DeletionsEffect DEF ApplyDeletions
<1>4. CASE ListRows(d)
  BY <1>4, DraftEffect DEF ListRows
<1>5. CASE ListTombstones(d)
  BY <1>5, DraftEffect DEF ListTombstones
<1> QED BY <1>1, <1>2, <1>3, <1>4, <1>5

\* The ends of a request, and the cleanup job.
LEMMA EndTyped ==
    ASSUME TypeOK, Pending, Workspace, Ahead, NEW d \in Device, Commit(d) \/ Fail(d) \/ Drop(d)
    PROVE  TypeOK'
<1> USE BoundsAssumption, NoReplyTyped, NoDeviceAssumption DEF TypeOK, Release, deviceVars
<1>1. CASE Commit(d)
  <2>0. wr[d] = Written(d)
    BY <1>1 DEF Commit, Workspace
  <2>1. \A k \in wr[d] : local[d][k] # None
    BY <2>0 DEF Pending, Written
  <2>2. \A k \in wr[d] : nver[d][k] > 0
    BY <1>1 DEF Ahead
  <2>3. \A k \in Key : RowSeen(d)[k] = None <=> VerSeen(d)[k] = 0
    BY <2>1, <2>2 DEF RowSeen, VerSeen
  <2> QED BY <1>1, <2>3, SeenTyped DEF Commit
<1>2. CASE Fail(d)
  BY <1>2 DEF Fail, serverVars
<1>3. CASE Drop(d)
  BY <1>3 DEF Drop, serverVars, txVars
<1> QED BY <1>1, <1>2, <1>3

LEMMA CleanupTyped ==
    ASSUME TypeOK, NEW k \in Key, CleanupTombstone(k)
    PROVE  TypeOK'
BY BoundsAssumption DEF TypeOK, CleanupTombstone, Cleanup, txVars, deviceVars, callVars

----------------------------------------------------------------------------
(* The invariant, action by action.                                        *)

\* What a device does outside a transaction concerns no other device.
LEMMA DeviceEffect ==
    ASSUME TypeOK, NEW d \in Device, DeviceStep(d), UNCHANGED txVars
    PROVE  /\ UNCHANGED <<row, ver, tomb, lock, seq, wr, dl, nver, draft, regime>>
           /\ phase[d] \notin InTransaction /\ phase'[d] \notin InTransaction
           /\ \A e \in Device \ {d} :
                /\ phase'[e] = phase[e] /\ reply'[e] = reply[e] /\ cursor'[e] = cursor[e]
                /\ dirty'[e] = dirty[e] /\ gone'[e] = gone[e] /\ local'[e] = local[e]
           /\ \/ cursor'[d] \in {0, cursor[d]} /\ reply'[d] \in {NoReply, reply[d]}
              \/ cursor'[d] = reply[d].next /\ reply'[d] = NoReply
<1> USE DEF TypeOK, txVars
<1>1. ASSUME NEW k \in Key, Edit(d, k) PROVE clock' = clock' /\ UNCHANGED <<regime, cursor, row, ver, tomb, phase, reply>>
             /\ phase[d] = "idle"
             /\ \A e \in Device \ {d} : dirty'[e] = dirty[e] /\ gone'[e] = gone[e] /\ local'[e] = local[e]
  BY <1>1 DEF Edit, serverVars, callVars
<1>2. ASSUME NEW k \in Key, Remove(d, k) PROVE clock' = clock' /\ UNCHANGED <<regime, cursor, row, ver, tomb, phase, reply>>
             /\ phase[d] = "idle"
             /\ \A e \in Device \ {d} : dirty'[e] = dirty[e] /\ gone'[e] = gone[e] /\ local'[e] = local[e]
  BY <1>2 DEF Remove, serverVars, callVars
<1>3. CASE Reinstall(d)
  BY <1>3 DEF Reinstall, serverVars, callVars
<1>4. CASE Send(d)
  BY <1>4 DEF Send, serverVars, deviceVars
<1>5. CASE Receive(d)
  BY <1>5 DEF Receive, serverVars
<1>6. CASE Lose(d)
  BY <1>6 DEF Lose, serverVars, deviceVars
<1> QED BY <1>1, <1>2, <1>3, <1>4, <1>5, <1>6 DEF DeviceStep

LEMMA DevicePending ==
    ASSUME TypeOK, Pending, NEW d \in Device, DeviceStep(d)
    PROVE  Pending'
<1> USE DEF TypeOK, Pending
<1>1. ASSUME NEW k \in Key, Edit(d, k) PROVE Pending'
  <2>1. PICK now : local' = [local EXCEPT ![d][k] = [upd |-> now, by |-> d]] /\ now \in Stamp
    BY <1>1 DEF Edit
  <2>2. [upd |-> now, by |-> d] # None /\ [upd |-> now, by |-> d].by = d
    BY <2>1, NoneAssumption DEF Record
  <2>3. \A e \in Device, j \in Key :
          local'[e][j] = IF e = d /\ j = k THEN [upd |-> now, by |-> d] ELSE local[e][j]
    BY <2>1
  <2> QED BY <1>1, <2>2, <2>3 DEF Edit
<1>2. ASSUME NEW k \in Key, Remove(d, k) PROVE Pending'
  BY <1>2 DEF Remove
<1>3. CASE Reinstall(d)
  BY <1>3 DEF Reinstall
<1>4. CASE Send(d)
  BY <1>4 DEF Send, deviceVars
<1>5. CASE Receive(d)
  <2>1. dirty' = [dirty EXCEPT ![d] = {}] /\ gone' = [gone EXCEPT ![d] = {}]
        /\ \A e \in Device \ {d} : local'[e] = local[e]
    BY <1>5 DEF Receive
  <2> QED BY <2>1
<1>6. CASE Lose(d)
  BY <1>6 DEF Lose, deviceVars
<1> QED BY <1>1, <1>2, <1>3, <1>4, <1>5, <1>6 DEF DeviceStep

LEMMA DeviceOwnEdits ==
    ASSUME TypeOK, OnlyOwnEditLost, OnlyOwnEditWillBeLost, NEW d \in Device, DeviceStep(d)
    PROVE  OnlyOwnEditLost' /\ OnlyOwnEditWillBeLost'
<1> USE DEF TypeOK, OnlyOwnEditLost, OnlyOwnEditWillBeLost, Coming
<1>1. ASSUME NEW k \in Key, Edit(d, k) PROVE OnlyOwnEditLost' /\ OnlyOwnEditWillBeLost'
  <2>1. \A e \in Device, j \in Key :
          /\ ~ (e = d /\ j = k) =>
               /\ local'[e][j] = local[e][j]
               /\ j \in dirty'[e] \cup gone'[e] <=> j \in dirty[e] \cup gone[e]
          /\ j \in dirty'[d] \cup gone'[d] <=> j \in dirty[d] \cup gone[d] \cup {k}
    BY <1>1 DEF Edit
  <2>2. UNCHANGED <<row, ver, cursor, phase, reply>> /\ phase[d] = "idle"
    BY <1>1 DEF Edit, serverVars, callVars
  <2> HIDE DEF TypeOK
  <2>3. OnlyOwnEditLost'
    BY <2>1, <2>2
  <2>4. OnlyOwnEditWillBeLost'
    BY <2>1, <2>2
  <2> QED BY <2>3, <2>4
<1>2. ASSUME NEW k \in Key, Remove(d, k) PROVE OnlyOwnEditLost' /\ OnlyOwnEditWillBeLost'
  <2>1. \A e \in Device, j \in Key :
          /\ ~ (e = d /\ j = k) =>
               /\ local'[e][j] = local[e][j]
               /\ j \in dirty'[e] \cup gone'[e] <=> j \in dirty[e] \cup gone[e]
          /\ j \in dirty'[d] \cup gone'[d] <=> j \in dirty[d] \cup gone[d] \cup {k}
    BY <1>2 DEF Remove
  <2>2. UNCHANGED <<row, ver, cursor, phase, reply>> /\ phase[d] = "idle"
    BY <1>2 DEF Remove, serverVars, callVars
  <2> HIDE DEF TypeOK
  <2>3. OnlyOwnEditLost'
    BY <2>1, <2>2
  <2>4. OnlyOwnEditWillBeLost'
    BY <2>1, <2>2
  <2> QED BY <2>3, <2>4
<1>3. CASE Reinstall(d)
  BY <1>3, BoundsAssumption DEF Reinstall, serverVars, callVars
<1>4. CASE Send(d)
  BY <1>4 DEF Send, serverVars, deviceVars
<1>5. CASE Receive(d)
  <2>1. /\ UNCHANGED <<row, ver>> /\ phase[d] = "replied" /\ cursor'[d] = reply[d].next
        /\ \A k \in Key : local'[d][k] = Coming(d, k)
        /\ phase'[d] = "idle"
        /\ \A e \in Device \ {d} :
             /\ phase'[e] = phase[e] /\ reply'[e] = reply[e] /\ cursor'[e] = cursor[e]
             /\ dirty'[e] = dirty[e] /\ gone'[e] = gone[e] /\ local'[e] = local[e]
    BY <1>5 DEF Receive, serverVars
  <2> HIDE DEF TypeOK, Coming
  <2>2. \A e \in Device \ {d}, k \in Key : Coming(e, k)' = Coming(e, k)
    BY <2>1 DEF Coming
  <2>3. OnlyOwnEditLost'
    BY <2>1
  <2>4. OnlyOwnEditWillBeLost'
    BY <2>1, <2>2
  <2> QED BY <2>3, <2>4
<1>6. CASE Lose(d)
  BY <1>6 DEF Lose, serverVars, deviceVars
<1> QED BY <1>1, <1>2, <1>3, <1>4, <1>5, <1>6 DEF DeviceStep

\* The table as a transaction sees it does not change with what others do.
LEMMA SeenStays ==
    ASSUME NEW e \in Device, UNCHANGED <<row, ver>>,
           wr'[e] = wr[e], dl'[e] = dl[e], nver'[e] = nver[e], local'[e] = local[e]
    PROVE  /\ RowSeen(e)' = RowSeen(e)
           /\ VerSeen(e)' = VerSeen(e)
           /\ tomb' = tomb => TombSeen(e)' = TombSeen(e)
BY DEF RowSeen, VerSeen, TombSeen

LEMMA DeviceKeeps ==
    ASSUME TableInv, NEW d \in Device, DeviceStep(d), UNCHANGED txVars
    PROVE  TableInv'
<1>0. /\ UNCHANGED <<row, ver, tomb, lock, seq, wr, dl, nver, draft, regime>>
      /\ phase[d] \notin InTransaction /\ phase'[d] \notin InTransaction
      /\ \A e \in Device \ {d} :
           /\ phase'[e] = phase[e] /\ reply'[e] = reply[e] /\ cursor'[e] = cursor[e]
           /\ dirty'[e] = dirty[e] /\ gone'[e] = gone[e] /\ local'[e] = local[e]
      /\ \/ cursor'[d] \in {0, cursor[d]} /\ reply'[d] \in {NoReply, reply[d]}
         \/ cursor'[d] = reply[d].next /\ reply'[d] = NoReply
  BY DeviceEffect DEF TableInv
<1> USE <1>0 DEF TableInv
<1>1. TypeOK'
  BY DeviceTyped
<1>2. LiveOrTombstoned'
  BY DEF LiveOrTombstoned
<1>3. Workspace'
  <2> SUFFICES ASSUME NEW e \in Device
               PROVE  /\ wr'[e] = IF phase'[e] \in InTransaction \ {"locked"} THEN Written(e)' ELSE {}
                      /\ dl'[e] = IF phase'[e] \in {"deleted", "listed", "ready"} THEN Deleted(e)' ELSE {}
    BY DEF Workspace
  <2>1. CASE e = d
    BY <2>1 DEF Workspace
  <2>2. CASE e # d
    <3>1. Written(e)' = Written(e) /\ Deleted(e)' = Deleted(e)
      BY <2>2 DEF Written, Deleted
    <3> QED BY <2>2, <3>1 DEF Workspace
  <2> QED BY <2>1, <2>2
<1>4. Ahead'
  <2>1. \A e \in Device : cursor'[e] <= seq /\ reply'[e].next <= seq
    <3>1. \A e \in Device : cursor[e] <= seq /\ reply[e].next <= seq
      BY DEF Ahead
    <3>2. seq \in Nat
      BY BoundsAssumption DEF TypeOK
    <3> HIDE DEF TableInv
    <3> QED BY <3>1, <3>2, NoReplyTyped
  <2>2. ASSUME NEW e \in Device, NEW k \in wr[e] \cup dl[e], NEW f \in Device
        PROVE  nver[e][k] > cursor'[f] /\ nver[e][k] > reply'[f].next
    <3>1. nver[e][k] > cursor[f] /\ nver[e][k] > reply[f].next
      BY <2>2 DEF Ahead
    <3>2. nver[e][k] \in Nat /\ cursor[f] \in Nat /\ reply[f].next \in Nat
      BY <2>2, BoundsAssumption DEF TypeOK, Reply
    <3> QED BY <3>1, <3>2, NoReplyTyped
  <2> QED BY <2>1, <2>2 DEF Ahead
<1>5. Drafted'
  <2> SUFFICES ASSUME NEW e \in Device
               PROVE  /\ phase'[e] \in {"listed", "ready"} =>
                           draft'[e].rows = ListedRows(RowSeen(e)', VerSeen(e)', cursor'[e], wr'[e])
                      /\ phase'[e] = "ready" =>
                           /\ \A k \in draft'[e].dels : RowSeen(e)'[k] = None
                           /\ Agreed' =>
                                /\ draft'[e].dels = ListedTombstones(TombSeen(e)', cursor'[e], dl'[e])
                                /\ IsNextCursor(draft'[e].next, cursor'[e], draft'[e].rows,
                                                VerSeen(e)', TombSeen(e)')
    BY DEF Drafted
  <2>1. CASE e # d
    BY <2>1, SeenStays DEF Drafted
  <2>2. CASE e = d
    BY <2>2
  <2> QED BY <2>1, <2>2
<1> QED BY <1>1, <1>2, <1>3, <1>4, <1>5, DevicePending, DeviceOwnEdits

\* A statement changes nothing but the workspace of its transaction.
LEMMA StatementEffect ==
    ASSUME TypeOK, NEW d \in Device,
           Begin(d) \/ ApplyUpserts(d) \/ ApplyDeletions(d) \/ ListRows(d) \/ ListTombstones(d)
    PROVE  /\ UNCHANGED <<row, ver, tomb, reply, regime, clock, local, dirty, gone, cursor>>
           /\ phase'[d] \in InTransaction
           /\ \A e \in Device \ {d} :
                /\ phase'[e] = phase[e] /\ phase[e] \notin InTransaction
                /\ phase'[e] \notin InTransaction
                /\ wr'[e] = wr[e] /\ dl'[e] = dl[e] /\ nver'[e] = nver[e] /\ draft'[e] = draft[e]
<1> HIDE DEF Version
<1>1. /\ UNCHANGED <<row, ver, tomb, reply, regime, clock, local, dirty, gone, cursor>>
      /\ phase'[d] \in InTransaction
      /\ \A e \in Device \ {d} :
           /\ phase'[e] = phase[e]
           /\ wr'[e] = wr[e] /\ dl'[e] = dl[e] /\ nver'[e] = nver[e] /\ draft'[e] = draft[e]
  <2> USE DEF TypeOK, serverVars, deviceVars
  <2>1. CASE Begin(d)
    BY <2>1 DEF Begin
  <2>2. CASE ApplyUpserts(d)
    BY <2>2, UpsertsEffect DEF ApplyUpserts
  <2>3. CASE ApplyDeletions(d)
    BY <2>3, DeletionsEffect DEF ApplyDeletions
  <2>4. CASE ListRows(d)
    BY <2>4, DraftEffect DEF ListRows
  <2>5. CASE ListTombstones(d)
    BY <2>5, DraftEffect DEF ListTombstones
  <2> QED BY <2>1, <2>2, <2>3, <2>4, <2>5
<1>2. lock' = d
  BY DEF Begin, ApplyUpserts, ApplyDeletions, ListRows, ListTombstones, TypeOK
<1>3. TypeOK'
  BY StatementTyped
<1> QED BY <1>1, <1>2, <1>3 DEF TypeOK

\* The keys that a request upserts and deletes are different ones.
LEMMA WorkspaceDisjoint ==
    ASSUME TypeOK, Pending, NEW d \in Device
    PROVE  Written(d) \cap Deleted(d) = {} /\ Written(d) \subseteq dirty[d]
BY DEF Written, Deleted, Pending, TypeOK

LEMMA StatementWorkspace ==
    ASSUME TableInv, NEW d \in Device,
           Begin(d) \/ ApplyUpserts(d) \/ ApplyDeletions(d) \/ ListRows(d) \/ ListTombstones(d)
    PROVE  Workspace'
<1> HIDE DEF Version
<1> SUFFICES ASSUME NEW e \in Device
             PROVE  /\ wr'[e] = IF phase'[e] \in InTransaction \ {"locked"} THEN Written(e)' ELSE {}
                    /\ dl'[e] = IF phase'[e] \in {"deleted", "listed", "ready"} THEN Deleted(e)' ELSE {}
  BY DEF Workspace
<1>1. UNCHANGED <<row, local, dirty, gone>>
  BY StatementEffect DEF TableInv
<1>2. Written(e)' = Written(e) /\ Deleted(e)' = Deleted(e)
  BY <1>1 DEF Written, Deleted
<1>3. CASE e # d
  BY <1>2, <1>3, StatementEffect DEF TableInv, Workspace
<1>4. CASE e = d
  <2> USE <1>2, <1>4 DEF TableInv, Workspace, TypeOK
  <2>1. CASE Begin(d)
    BY <2>1 DEF Begin
  <2>2. CASE ApplyUpserts(d)
    BY <2>2 DEF ApplyUpserts
  <2>3. CASE ApplyDeletions(d)
    BY <2>3 DEF ApplyDeletions
  <2>4. CASE ListRows(d)
    BY <2>4 DEF ListRows
  <2>5. CASE ListTombstones(d)
    BY <2>5 DEF ListTombstones
  <2> QED BY <2>1, <2>2, <2>3, <2>4, <2>5
<1> QED BY <1>3, <1>4

\* The cursor of a response is a version that has been given out.
LEMMA NextGivenOut ==
    ASSUME TypeOK, Ahead, NEW d \in Device, NEW next \in Version, NEW rows,
           IsNextCursor(next, cursor[d], rows, VerSeen(d), TombSeen(d))
    PROVE  next <= seq
<1>1. \A k \in Key : VerSeen(d)[k] <= seq /\ TombSeen(d)[k] <= seq
  BY BoundsAssumption DEF Ahead, VerSeen, TombSeen, TypeOK
<1>2. cursor[d] <= seq
  BY DEF Ahead
<1> QED BY <1>1, <1>2 DEF IsNextCursor

LEMMA StatementAhead ==
    ASSUME TableInv, NEW d \in Device,
           Begin(d) \/ ApplyUpserts(d) \/ ApplyDeletions(d) \/ ListRows(d) \/ ListTombstones(d)
    PROVE  Ahead'
<1> USE BoundsAssumption DEF TableInv
<1>0. /\ UNCHANGED <<row, ver, tomb, reply, cursor>>
      /\ \A e \in Device \ {d} :
           wr'[e] = wr[e] /\ dl'[e] = dl[e] /\ nver'[e] = nver[e] /\ draft'[e] = draft[e]
  BY StatementEffect
<1>1. seq \in Nat /\ seq' \in Nat /\ seq <= seq'
  <2>1. CASE ApplyUpserts(d)
    BY <2>1, UpsertsEffect DEF TypeOK
  <2>2. CASE ApplyDeletions(d)
    BY <2>2, DeletionsEffect DEF TypeOK
  <2> QED BY <2>1, <2>2 DEF Begin, ListRows, ListTombstones, TypeOK
<1>2. \A e \in Device : draft'[e].next <= seq'
  <2>1. draft[d].next <= seq /\ draft[d].next \in Nat
    BY DEF Ahead, TypeOK, Reply
  <2>2. ASSUME ListRows(d) PROVE draft'[d].next = draft[d].next
    BY <2>2, DraftEffect
  <2>3. ASSUME ListTombstones(d) PROVE draft'[d].next <= seq
    <3>1. draft'[d].next \in Version
      BY <2>3, DraftEffect DEF Reply
    <3>2. IsNextCursor(draft'[d].next, cursor[d], draft[d].rows, VerSeen(d), TombSeen(d))
      BY <2>3, DraftEffect
    <3> QED BY <3>1, <3>2, NextGivenOut
  <2>a. \/ draft'[d].next = draft[d].next
        \/ draft'[d].next <= seq /\ ListTombstones(d)
    <3>1. Begin(d) \/ ApplyUpserts(d) \/ ApplyDeletions(d) => draft' = draft
      BY DEF Begin, ApplyUpserts, ApplyDeletions
    <3> HIDE DEF TableInv
    <3> QED BY <2>2, <2>3, <3>1
  <2>b. ListTombstones(d) => seq' = seq
    BY DEF ListTombstones
  <2>4. draft'[d].next <= seq'
    BY <1>1, <2>1, <2>a, <2>b
  <2>5. \A e \in Device : draft[e].next <= seq /\ draft[e].next \in Nat
    BY DEF Ahead, TypeOK, Reply
  <2> QED BY <1>0, <1>1, <2>4, <2>5
<1>3. ASSUME NEW e \in Device, NEW k \in wr'[e] \cup dl'[e]
      PROVE  \/ k \in wr[e] \cup dl[e] /\ nver'[e][k] = nver[e][k]
             \/ e = d /\ seq < nver'[e][k] /\ nver'[e][k] <= seq'
  <2>1. CASE e # d
    BY <1>0, <1>3, <2>1
  <2>2. CASE e = d /\ ApplyUpserts(d)
    <3>1. dl'[d] = {}
      BY <2>2 DEF ApplyUpserts, Workspace
    <3> QED BY <1>3, <2>2, <3>1, UpsertsEffect DEF TypeOK
  <2>3. CASE e = d /\ ApplyDeletions(d)
    <3>1. wr'[d] = Written(d) /\ wr[d] = Written(d)
      BY <2>3 DEF ApplyDeletions, Workspace
    <3> QED BY <1>3, <2>3, <3>1, DeletionsEffect, WorkspaceDisjoint DEF TypeOK
  <2> QED BY <1>3, <2>1, <2>2, <2>3 DEF Begin, ListRows, ListTombstones
<1>4. ASSUME NEW e \in Device, NEW k \in wr'[e] \cup dl'[e]
      PROVE  /\ nver'[e][k] <= seq'
             /\ \A j \in Key : nver'[e][k] > ver[j] /\ nver'[e][k] > tomb[j]
             /\ \A f \in Device : nver'[e][k] > cursor[f] /\ nver'[e][k] > reply[f].next
  <2>1. /\ \A j \in Key : ver[j] \in Nat /\ tomb[j] \in Nat
        /\ \A f \in Device : cursor[f] \in Nat /\ reply[f].next \in Nat
    BY DEF TypeOK, Reply
  <2>2. CASE k \in wr[e] \cup dl[e] /\ nver'[e][k] = nver[e][k]
    <3>1. nver[e][k] \in Nat
      BY <2>2 DEF TypeOK
    <3> QED BY <1>1, <2>1, <2>2, <3>1 DEF Ahead
  <2>3. CASE e = d /\ seq < nver'[e][k] /\ nver'[e][k] <= seq'
    <3>1. nver'[e][k] \in Int
      <4>1. TypeOK'
        BY StatementTyped
      <4> QED BY <1>4, <4>1 DEF TypeOK
    <3> QED BY <1>1, <2>1, <2>3, <3>1 DEF Ahead
  <2> QED BY <1>3, <1>4, <2>2, <2>3
<1>5. /\ \A k \in Key : ver'[k] <= seq' /\ tomb'[k] <= seq'
      /\ \A e \in Device : cursor'[e] <= seq' /\ reply'[e].next <= seq'
  BY <1>0, <1>1 DEF Ahead, TypeOK, Reply
<1> QED BY <1>0, <1>2, <1>4, <1>5 DEF Ahead

LEMMA StatementDrafted ==
    ASSUME TableInv, NEW d \in Device,
           Begin(d) \/ ApplyUpserts(d) \/ ApplyDeletions(d) \/ ListRows(d) \/ ListTombstones(d)
    PROVE  Drafted'
<1> HIDE DEF Version
<1> SUFFICES ASSUME NEW e \in Device
             PROVE  /\ phase'[e] \in {"listed", "ready"} =>
                         draft'[e].rows = ListedRows(RowSeen(e)', VerSeen(e)', cursor'[e], wr'[e])
                    /\ phase'[e] = "ready" =>
                         /\ \A k \in draft'[e].dels : RowSeen(e)'[k] = None
                         /\ Agreed' =>
                              /\ draft'[e].dels = ListedTombstones(TombSeen(e)', cursor'[e], dl'[e])
                              /\ IsNextCursor(draft'[e].next, cursor'[e], draft'[e].rows,
                                              VerSeen(e)', TombSeen(e)')
  BY DEF Drafted
<1>1. CASE e # d
  BY <1>1, StatementEffect DEF TableInv
<1>2. CASE e = d /\ (Begin(d) \/ ApplyUpserts(d) \/ ApplyDeletions(d))
  BY <1>2 DEF Begin, ApplyUpserts, ApplyDeletions, TableInv, TypeOK
<1>3. CASE e = d /\ (ListRows(d) \/ ListTombstones(d))
  <2>1. UNCHANGED <<row, ver, tomb, local, cursor, regime>> /\ UNCHANGED <<wr, dl, nver>>
    BY <1>3, StatementEffect DEF TableInv, ListRows, ListTombstones
  <2>2. RowSeen(d)' = RowSeen(d) /\ VerSeen(d)' = VerSeen(d) /\ TombSeen(d)' = TombSeen(d)
    BY <2>1, SeenStays
  <2>3. CASE ListRows(d)
    <3>1. phase'[d] = "listed"
      BY <2>3 DEF ListRows, TableInv, TypeOK
    <3>2. draft'[d].rows = ListedRows(RowSeen(d), VerSeen(d), cursor[d], wr[d])
      BY <2>3, DraftEffect DEF TableInv
    <3> QED BY <1>3, <2>1, <2>2, <3>1, <3>2
  <2>4. CASE ListTombstones(d)
    <3>1. draft[d].rows = ListedRows(RowSeen(d), VerSeen(d), cursor[d], wr[d])
      BY <2>4 DEF ListTombstones, TableInv, Drafted
    <3>2. /\ draft'[d].rows = draft[d].rows
          /\ draft'[d].dels = ListedTombstones(TombSeen(d), cursor[d], dl[d])
          /\ IsNextCursor(draft'[d].next, cursor[d], draft[d].rows, VerSeen(d), TombSeen(d))
      BY <2>4, DraftEffect DEF TableInv
    <3>3. ASSUME NEW k \in ListedTombstones(TombSeen(d), cursor[d], dl[d])
          PROVE  RowSeen(d)[k] = None
      <4>1. k \in Key /\ TombSeen(d)[k] > cursor[d] /\ cursor[d] >= 0
        BY <3>3, BoundsAssumption DEF ListedTombstones, TableInv, TypeOK, Version
      <4>2. k \notin wr[d]
        BY <4>1, BoundsAssumption DEF TombSeen, TableInv, TypeOK, Version
      <4>3. k \in dl[d] \/ tomb[k] > 0
        BY <4>1, <4>2, BoundsAssumption DEF TombSeen, TableInv, TypeOK, Version
      <4> QED BY <4>1, <4>2, <4>3 DEF RowSeen, TableInv, LiveOrTombstoned
    <3> QED BY <1>3, <2>1, <2>2, <3>1, <3>2, <3>3
  <2> QED BY <1>3, <2>3, <2>4
<1> QED BY <1>1, <1>2, <1>3

LEMMA StatementKeeps ==
    ASSUME TableInv, NEW d \in Device,
           Begin(d) \/ ApplyUpserts(d) \/ ApplyDeletions(d) \/ ListRows(d) \/ ListTombstones(d)
    PROVE  TableInv'
<1> HIDE DEF Version, InTransaction
<1>1. /\ UNCHANGED <<row, ver, tomb, reply, local, dirty, gone, cursor>>
      /\ phase'[d] \in InTransaction
      /\ \A e \in Device \ {d} : phase'[e] = phase[e]
  BY StatementEffect DEF TableInv
<1>2. LiveOrTombstoned' /\ Pending'
  BY <1>1 DEF TableInv, LiveOrTombstoned, Pending
<1>3. OnlyOwnEditLost'
  BY <1>1 DEF TableInv, OnlyOwnEditLost
<1>4. OnlyOwnEditWillBeLost'
  <2>1. \A e \in Device, k \in Key : Coming(e, k)' = Coming(e, k)
    BY <1>1 DEF Coming
  <2>2. \A e \in Device : phase'[e] = "replied" => phase[e] = "replied"
    BY <1>1 DEF InTransaction
  <2> QED BY <1>1, <2>1, <2>2 DEF TableInv, OnlyOwnEditWillBeLost
<1>5. TypeOK'
  BY StatementTyped DEF TableInv
<1> QED BY <1>2, <1>3, <1>4, <1>5, StatementWorkspace, StatementAhead, StatementDrafted
        DEF TableInv

\* A commit, key by key.
LEMMA CommitEffect ==
    ASSUME TableInv, NEW d \in Device, Commit(d)
    PROVE  /\ UNCHANGED <<seq, regime, clock, local, dirty, gone, cursor>>
           /\ phase[d] = "ready" /\ phase' = [phase EXCEPT ![d] = "replied"]
           /\ reply'[d] = draft[d] /\ draft'[d] = NoReply
           /\ wr'[d] = {} /\ dl'[d] = {}
           /\ wr[d] = Written(d) /\ dl[d] = Deleted(d) /\ wr[d] \cap dl[d] = {}
           /\ \A e \in Device \ {d} :
                /\ reply'[e] = reply[e] /\ draft'[e] = draft[e]
                /\ phase'[e] = phase[e] /\ phase[e] \notin InTransaction
                /\ wr'[e] = {} /\ dl'[e] = {}
           /\ \A k \in Key :
                \/ /\ k \in wr[d] /\ row'[k] = local[d][k] /\ row'[k] # None
                   /\ ver'[k] = nver[d][k] /\ tomb'[k] = 0
                \/ /\ k \in dl[d] /\ row'[k] = None
                   /\ ver'[k] = 0 /\ tomb'[k] = nver[d][k]
                \/ /\ k \notin wr[d] \cup dl[d]
                   /\ row'[k] = row[k] /\ ver'[k] = ver[k] /\ tomb'[k] = tomb[k]
<1> HIDE DEF Version
<1>1. /\ UNCHANGED <<seq, regime, clock, local, dirty, gone, cursor>>
      /\ phase[d] = "ready" /\ phase' = [phase EXCEPT ![d] = "replied"]
      /\ row' = RowSeen(d) /\ ver' = VerSeen(d) /\ tomb' = TombSeen(d)
      /\ reply' = [reply EXCEPT ![d] = draft[d]]
      /\ wr' = [wr EXCEPT ![d] = {}] /\ dl' = [dl EXCEPT ![d] = {}]
      /\ draft' = [draft EXCEPT ![d] = NoReply]
  BY DEF Commit, Release, deviceVars
<1>2. \A e \in Device \ {d} : phase[e] \notin InTransaction
  BY <1>1 DEF TableInv, TypeOK
<1>3. /\ wr[d] = Written(d) /\ dl[d] = Deleted(d)
      /\ \A e \in Device \ {d} : wr[e] = {} /\ dl[e] = {}
  BY <1>1, <1>2 DEF TableInv, Workspace
<1>4. wr[d] \cap dl[d] = {} /\ wr[d] \subseteq dirty[d]
  BY <1>3, WorkspaceDisjoint DEF TableInv
<1>5. \A k \in wr[d] : local[d][k] # None
  BY <1>4 DEF TableInv, Pending, TypeOK
<1>6. ASSUME NEW k \in Key
      PROVE  \/ /\ k \in wr[d] /\ row'[k] = local[d][k] /\ row'[k] # None
                /\ ver'[k] = nver[d][k] /\ tomb'[k] = 0
             \/ /\ k \in dl[d] /\ row'[k] = None
                /\ ver'[k] = 0 /\ tomb'[k] = nver[d][k]
             \/ /\ k \notin wr[d] \cup dl[d]
                /\ row'[k] = row[k] /\ ver'[k] = ver[k] /\ tomb'[k] = tomb[k]
  BY <1>1, <1>4, <1>5 DEF RowSeen, VerSeen, TombSeen
<1> QED BY <1>1, <1>2, <1>3, <1>4, <1>6 DEF TableInv, TypeOK

\* A row that a request leaves out of its response, and that the device does not
\* hold, is one that the device's own edit has lost to.
LEMMA CommitOwnEdits ==
    ASSUME TableInv, NEW d \in Device, Commit(d)
    PROVE  OnlyOwnEditLost' /\ OnlyOwnEditWillBeLost'
<1> DEFINE Later(k) == \A e \in Device : ver'[k] > cursor[e] /\ ver'[k] > reply[e].next
<1>1. /\ UNCHANGED <<local, dirty, gone, cursor>>
      /\ phase[d] = "ready" /\ phase'[d] = "replied"
      /\ reply'[d] = draft[d]
      /\ wr[d] = Written(d) /\ dl[d] = Deleted(d)
      /\ \A e \in Device \ {d} : reply'[e] = reply[e] /\ phase'[e] = phase[e]
  BY CommitEffect DEF TableInv, TypeOK
<1>2. ASSUME NEW k \in Key, row'[k] # None
      PROVE  \/ k \in wr[d] /\ row'[k] = local[d][k] /\ Later(k)
             \/ /\ k \notin wr[d] \cup dl[d]
                /\ row'[k] = row[k] /\ ver'[k] = ver[k]
  BY <1>2, CommitEffect DEF TableInv, Ahead
<1>3. /\ \A e \in Device : cursor[e] \in Nat /\ reply[e].next \in Nat
      /\ \A k \in Key : ver'[k] \in Nat /\ ver[k] \in Nat
  <2>1. TypeOK'
    BY EndTyped DEF TableInv
  <2> QED BY <2>1, BoundsAssumption DEF TableInv, TypeOK, Reply
<1>4. OnlyOwnEditLost'
  <2> SUFFICES ASSUME NEW e \in Device, NEW k \in Key,
                      k \notin dirty[e] \cup gone[e],
                      row'[k] # None, local[e][k] # row'[k], ver'[k] <= cursor[e]
               PROVE  /\ local[e][k] # None /\ local[e][k].by = e
                      /\ local[e][k].upd <= row'[k].upd
    BY <1>1 DEF OnlyOwnEditLost
  <2>1. row'[k] = row[k] /\ ver'[k] = ver[k]
    BY <1>2, <1>3
  <2> QED BY <2>1 DEF TableInv, OnlyOwnEditLost
<1>5. OnlyOwnEditWillBeLost'
  <2> SUFFICES ASSUME NEW e \in Device, NEW k \in Key, phase'[e] = "replied",
                      row'[k] # None, Coming(e, k)' # row'[k], ver'[k] <= reply'[e].next
               PROVE  /\ Coming(e, k)' # None /\ Coming(e, k)'.by = e
                      /\ Coming(e, k)'.upd <= row'[k].upd
    BY DEF OnlyOwnEditWillBeLost
  <2>1. CASE e # d
    <3>1. Coming(e, k)' = Coming(e, k) /\ reply'[e] = reply[e] /\ phase[e] = "replied"
      BY <1>1, <2>1 DEF Coming
    <3>2. row'[k] = row[k] /\ ver'[k] = ver[k]
      BY <1>2, <1>3, <3>1
    <3> QED BY <3>1, <3>2 DEF TableInv, OnlyOwnEditWillBeLost
  <2>2. CASE e = d
    <3>1. Coming(d, k)' = IF k \in draft[d].dels THEN None
                          ELSE IF draft[d].rows[k] # None THEN draft[d].rows[k]
                          ELSE local[d][k]
      BY <1>1 DEF Coming
    <3>2. row'[k] = RowSeen(d)[k] /\ ver'[k] = VerSeen(d)[k]
      BY DEF Commit
    <3>3. k \notin draft[d].dels
      BY <1>1, <2>2, <3>2 DEF TableInv, Drafted
    <3>4. draft[d].rows[k] = IF ver'[k] > cursor[d] /\ k \notin wr[d] THEN row'[k] ELSE None
      BY <1>1, <3>2 DEF TableInv, Drafted, ListedRows
    <3>5. Coming(d, k)' = local[d][k] /\ k \notin wr[d] /\ ver'[k] <= cursor[d]
      BY <1>2, <1>3, <2>2, <3>1, <3>3, <3>4
    <3>6. k \notin wr[d] \cup dl[d] /\ row'[k] = row[k] /\ ver'[k] = ver[k]
      BY <1>2, <3>5
    <3>7. k \notin gone[d]
      BY <1>1, <3>6 DEF Deleted
    <3>8. CASE k \in dirty[d]
      <4>1. row[k] \in Record /\ local[d][k] \in Record
        BY <3>6, <3>8 DEF TableInv, TypeOK, Pending
      <4>2. ~ Wins(local[d][k], row[k])
        BY <1>1, <3>6, <3>8 DEF Written
      <4>3. local[d][k].upd <= row[k].upd
        BY <4>1, <4>2, BoundsAssumption DEF Wins, Record
      <4> QED BY <2>2, <3>5, <3>6, <3>8, <4>3 DEF TableInv, Pending
    <3>9. CASE k \notin dirty[d]
      BY <2>2, <3>5, <3>6, <3>7, <3>9 DEF TableInv, OnlyOwnEditLost
    <3> QED BY <3>8, <3>9
  <2> QED BY <2>1, <2>2
<1> QED BY <1>4, <1>5

LEMMA CommitKeeps ==
    ASSUME TableInv, NEW d \in Device, Commit(d)
    PROVE  TableInv'
<1>0. /\ UNCHANGED <<seq, regime, local, dirty, gone, cursor>>
      /\ phase'[d] = "replied"
      /\ reply'[d] = draft[d] /\ draft'[d] = NoReply
      /\ \A e \in Device \ {d} :
           /\ reply'[e] = reply[e] /\ draft'[e] = draft[e]
           /\ phase'[e] = phase[e] /\ phase[e] \notin InTransaction
      /\ \A e \in Device : wr'[e] = {} /\ dl'[e] = {}
      /\ \A k \in Key :
           \/ k \in wr[d] /\ ver'[k] = nver[d][k] /\ tomb'[k] = 0
           \/ k \in dl[d] /\ row'[k] = None /\ ver'[k] = 0 /\ tomb'[k] = nver[d][k]
           \/ row'[k] = row[k] /\ ver'[k] = ver[k] /\ tomb'[k] = tomb[k]
  <2>1. phase'[d] = "replied"
    <3>1. phase' = [phase EXCEPT ![d] = "replied"] /\ phase \in [Device -> {"idle", "waiting", "replied"} \cup InTransaction]
      BY CommitEffect DEF TableInv, TypeOK
    <3> QED BY <3>1
  <2>2. \A e \in Device : wr'[e] = {} /\ dl'[e] = {}
    BY CommitEffect
  <2> QED BY <2>1, <2>2, CommitEffect
<1>1. TypeOK'
  BY EndTyped DEF TableInv
<1>2. LiveOrTombstoned'
  BY <1>0 DEF TableInv, LiveOrTombstoned
<1>3. Pending'
  BY <1>0 DEF TableInv, Pending
<1>4. Workspace'
  BY <1>0 DEF Workspace
<1>5. Drafted'
  BY <1>0 DEF Drafted
<1>6. Ahead'
  <2>1. seq \in Nat
    BY BoundsAssumption DEF TableInv, TypeOK
  <2>2. \A k \in Key : ver'[k] <= seq /\ tomb'[k] <= seq
    BY <1>0, <2>1 DEF TableInv, Ahead
  <2>3. \A e \in Device : cursor'[e] <= seq /\ reply'[e].next <= seq /\ draft'[e].next <= seq
    BY <1>0, <2>1, NoReplyTyped DEF TableInv, Ahead
  <2> QED BY <1>0, <2>2, <2>3 DEF Ahead
<1> QED BY <1>1, <1>2, <1>3, <1>4, <1>5, <1>6, CommitOwnEdits DEF TableInv

LEMMA AbortKeeps ==
    ASSUME TableInv, NEW d \in Device, Fail(d) \/ Drop(d)
    PROVE  TableInv'
<1>0. /\ UNCHANGED <<seq, regime, row, ver, tomb, reply, local, dirty, gone, cursor>>
      /\ phase'[d] = "idle"
      /\ wr'[d] = {} /\ dl'[d] = {} /\ draft'[d] \in {draft[d], NoReply}
      /\ \A e \in Device \ {d} :
           /\ phase'[e] = phase[e] /\ draft'[e] = draft[e]
           /\ wr'[e] = wr[e] /\ dl'[e] = dl[e] /\ nver'[e] = nver[e]
  <2>1. CASE Fail(d)
    BY <2>1 DEF Fail, Release, serverVars, deviceVars, TableInv, TypeOK
  <2>2. CASE Drop(d)
    BY <2>2 DEF Drop, txVars, serverVars, deviceVars, TableInv, TypeOK, Workspace
  <2> QED BY <2>1, <2>2
<1>1. TypeOK'
  BY EndTyped DEF TableInv
<1>2. LiveOrTombstoned' /\ Pending' /\ OnlyOwnEditLost'
  BY <1>0 DEF TableInv, LiveOrTombstoned, Pending, OnlyOwnEditLost
<1>3. OnlyOwnEditWillBeLost'
  BY <1>0 DEF TableInv, OnlyOwnEditWillBeLost, Coming
<1>4. Workspace'
  <2>1. \A e \in Device : Written(e)' = Written(e) /\ Deleted(e)' = Deleted(e)
    BY <1>0 DEF Written, Deleted
  <2> QED BY <1>0, <2>1 DEF TableInv, Workspace
<1>5. Ahead'
  <2>1. seq \in Nat
    BY BoundsAssumption DEF TableInv, TypeOK
  <2>2. \A e \in Device : draft'[e].next <= seq
    BY <1>0, <2>1, NoReplyTyped DEF TableInv, Ahead
  <2>3. \A e \in Device : \A k \in wr'[e] \cup dl'[e] :
          k \in wr[e] \cup dl[e] /\ nver'[e][k] = nver[e][k]
    BY <1>0
  <2> QED BY <1>0, <2>2, <2>3 DEF TableInv, Ahead
<1>6. Drafted'
  <2> SUFFICES ASSUME NEW e \in Device \ {d}
               PROVE  /\ phase'[e] \in {"listed", "ready"} =>
                           draft'[e].rows = ListedRows(RowSeen(e)', VerSeen(e)', cursor'[e], wr'[e])
                      /\ phase'[e] = "ready" =>
                           /\ \A k \in draft'[e].dels : RowSeen(e)'[k] = None
                           /\ Agreed' =>
                                /\ draft'[e].dels = ListedTombstones(TombSeen(e)', cursor'[e], dl'[e])
                                /\ IsNextCursor(draft'[e].next, cursor'[e], draft'[e].rows,
                                                VerSeen(e)', TombSeen(e)')
    BY <1>0 DEF Drafted
  <2> QED BY <1>0, SeenStays DEF TableInv, Drafted
<1> QED BY <1>1, <1>2, <1>3, <1>4, <1>5, <1>6 DEF TableInv

\* The cleanup job leaves the tombstones of a transaction alone, and while
\* retention does not lapse those that it has listed.
LEMMA CleanupKeeps ==
    ASSUME TableInv, NEW k \in Key, CleanupTombstone(k)
    PROVE  TableInv'
<1>0. /\ UNCHANGED <<row, ver, regime, local, dirty, gone, cursor, phase, reply>>
      /\ UNCHANGED <<lock, seq, wr, dl, nver, draft>>
      /\ tomb' = [tomb EXCEPT ![k] = 0]
      /\ \A d \in Device : k \notin wr[d] \cup dl[d]
      /\ Agreed => \A d \in Device : Outgrown(d, k)
  BY DEF CleanupTombstone, Cleanup, txVars, deviceVars, callVars
<1>a. tomb \in [Key -> Nat] /\ cursor \in [Device -> Nat] /\ ver \in [Key -> Nat]
  BY BoundsAssumption DEF TableInv, TypeOK
<1>1. TypeOK'
  BY CleanupTyped DEF TableInv
<1>2. LiveOrTombstoned' /\ Pending' /\ OnlyOwnEditLost'
  BY <1>0, <1>a DEF TableInv, LiveOrTombstoned, Pending, OnlyOwnEditLost
<1>3. OnlyOwnEditWillBeLost'
  BY <1>0 DEF TableInv, OnlyOwnEditWillBeLost, Coming
<1>4. Workspace'
  <2>1. \A e \in Device : Written(e)' = Written(e) /\ Deleted(e)' = Deleted(e)
    BY <1>0 DEF Written, Deleted
  <2> QED BY <1>0, <2>1 DEF TableInv, Workspace
<1>5. Ahead'
  <2>1. \A j \in Key : tomb'[j] = IF j = k THEN 0 ELSE tomb[j]
    BY <1>0, <1>a
  <2>2. \A j \in Key : ver[j] <= seq /\ tomb'[j] <= seq
    <3>1. \A j \in Key : ver[j] <= seq /\ tomb[j] <= seq /\ 0 <= seq
      BY BoundsAssumption DEF TableInv, Ahead, TypeOK
    <3> QED BY <2>1, <3>1
  <2>3. ASSUME NEW d \in Device, NEW i \in wr[d] \cup dl[d], NEW j \in Key
        PROVE  nver[d][i] > tomb'[j]
    <3>1. nver[d][i] > tomb[j] /\ nver[d][i] > ver[j]
      BY <2>3 DEF TableInv, Ahead
    <3>2. nver[d][i] \in Nat
      BY <2>3, BoundsAssumption DEF TableInv, TypeOK
    <3> QED BY <1>a, <2>1, <3>1, <3>2
  <2> QED BY <1>0, <2>2, <2>3 DEF TableInv, Ahead
<1>6. Drafted'
  <2> SUFFICES ASSUME NEW d \in Device
               PROVE  /\ phase[d] \in {"listed", "ready"} =>
                           draft[d].rows = ListedRows(RowSeen(d)', VerSeen(d)', cursor[d], wr[d])
                      /\ phase[d] = "ready" =>
                           /\ \A j \in draft[d].dels : RowSeen(d)'[j] = None
                           /\ Agreed =>
                                /\ draft[d].dels = ListedTombstones(TombSeen(d)', cursor[d], dl[d])
                                /\ IsNextCursor(draft[d].next, cursor[d], draft[d].rows,
                                                VerSeen(d)', TombSeen(d)')
    BY <1>0 DEF Drafted
  <2>1. RowSeen(d)' = RowSeen(d) /\ VerSeen(d)' = VerSeen(d)
    BY <1>0, SeenStays
  <2>2. \A j \in Key : TombSeen(d)'[j] = IF j = k THEN 0 ELSE TombSeen(d)[j]
    BY <1>0, <1>a DEF TombSeen
  <2>3. ASSUME phase[d] = "ready", Agreed
        PROVE  \A j \in Key : /\ TombSeen(d)'[j] > cursor[d] <=> TombSeen(d)[j] > cursor[d]
                              /\ TombSeen(d)[j] > cursor[d] => TombSeen(d)'[j] = TombSeen(d)[j]
    <3>1. tomb[k] <= cursor[d]
      BY <1>0, <2>3 DEF Outgrown
    <3>2. TombSeen(d)[k] = tomb[k]
      BY <1>0 DEF TombSeen
    <3> QED BY <1>a, <2>2, <3>1, <3>2
  <2>4. ASSUME phase[d] = "ready", Agreed
        PROVE  /\ ListedTombstones(TombSeen(d)', cursor[d], dl[d])
                     = ListedTombstones(TombSeen(d), cursor[d], dl[d])
               /\ IsNextCursor(draft[d].next, cursor[d], draft[d].rows, VerSeen(d), TombSeen(d)')
    <3>1. IsNextCursor(draft[d].next, cursor[d], draft[d].rows, VerSeen(d), TombSeen(d))
      BY <2>4 DEF TableInv, Drafted
    <3>2. {j \in Key : TombSeen(d)'[j] > cursor[d]} = {j \in Key : TombSeen(d)[j] > cursor[d]}
      BY <2>3, <2>4
    <3>3. {TombSeen(d)'[j] : j \in {i \in Key : TombSeen(d)'[i] > cursor[d]}}
            = {TombSeen(d)[j] : j \in {i \in Key : TombSeen(d)[i] > cursor[d]}}
      BY <2>3, <2>4
    <3> QED BY <3>1, <3>2, <3>3 DEF IsNextCursor, ListedTombstones
  <2> QED BY <2>1, <2>4 DEF TableInv, Drafted
<1> QED BY <1>1, <1>2, <1>3, <1>4, <1>5, <1>6 DEF TableInv

\* A step of the system, or none.
LEMMA TableInvKept == TableInv /\ [Next]_vars => TableInv'
<1> SUFFICES ASSUME TableInv, [Next]_vars PROVE TableInv'
  OBVIOUS
<1>1. ASSUME NEW d \in Device, DeviceStep(d) /\ UNCHANGED txVars PROVE TableInv'
  BY <1>1, DeviceKeeps
<1>2. ASSUME NEW d \in Device, ServerStep(d) PROVE TableInv'
  BY <1>2, StatementKeeps, CommitKeeps, AbortKeeps DEF ServerStep
<1>3. ASSUME NEW k \in Key, CleanupTombstone(k) PROVE TableInv'
  BY <1>3, CleanupKeeps
<1>4. CASE UNCHANGED vars
  <2>1. UNCHANGED <<row, ver, tomb, regime, clock, local, dirty, gone, cursor, phase, reply>>
        /\ UNCHANGED <<lock, seq, wr, dl, nver, draft>>
    BY <1>4 DEF vars, serverVars, deviceVars, callVars, txVars
  <2>2. TypeOK' /\ LiveOrTombstoned' /\ Pending' /\ OnlyOwnEditLost'
    BY <2>1 DEF TableInv, TypeOK, LiveOrTombstoned, Pending, OnlyOwnEditLost
  <2>3. Workspace'
    BY <2>1 DEF TableInv, Workspace, Written, Deleted
  <2>4. Ahead'
    BY <2>1 DEF TableInv, Ahead
  <2>5. OnlyOwnEditWillBeLost'
    BY <2>1 DEF TableInv, OnlyOwnEditWillBeLost, Coming
  <2>6. Drafted'
    BY <2>1, SeenStays DEF TableInv, Drafted
  <2> QED BY <2>2, <2>3, <2>4, <2>5, <2>6 DEF TableInv
<1> QED BY <1>1, <1>2, <1>3, <1>4 DEF Next

LEMMA TableInvInit == SyncInit => TableInv
<1> SUFFICES ASSUME SyncInit PROVE TableInv
  OBVIOUS
<1>1. TypeOK
  BY NoReplyTyped, BoundsAssumption, NoDeviceAssumption DEF SyncInit, Init, TypeOK
<1>2. LiveOrTombstoned /\ Pending /\ Workspace /\ Drafted
  BY DEF SyncInit, Init, LiveOrTombstoned, Pending, Workspace, Drafted
<1>3. Ahead
  BY NoReplyTyped DEF SyncInit, Init, Ahead
<1>4. OnlyOwnEditLost /\ OnlyOwnEditWillBeLost
  BY DEF SyncInit, Init, OnlyOwnEditLost, OnlyOwnEditWillBeLost
<1> QED BY <1>1, <1>2, <1>3, <1>4 DEF TableInv

----------------------------------------------------------------------------
(* The refinement: a request is handled at its commit.                     *)

\* Where a device's call stands for ReplicaAtomic.
Call == [d \in Device |-> IF phase[d] \in InTransaction THEN "waiting" ELSE phase[d]]

\* The operators of Replica do not depend on phase, Outgrown excepted.
LEMMA SameOperators ==
    /\ AP!Record = Record /\ AP!NoReply = NoReply /\ AP!Version = Version /\ AP!Stamp = Stamp
    /\ AP!Agreed = Agreed
    /\ \A d \in Device : AP!Written(d) = Written(d) /\ AP!Deleted(d) = Deleted(d)
    /\ \A r, v, cur, w : AP!ListedRows(r, v, cur, w) = ListedRows(r, v, cur, w)
    /\ \A t, cur, x : AP!ListedTombstones(t, cur, x) = ListedTombstones(t, cur, x)
    /\ \A n, cur, r, v, t : AP!IsNextCursor(n, cur, r, v, t) <=> IsNextCursor(n, cur, r, v, t)
<1>1. /\ AP!Record = Record /\ AP!NoReply = NoReply /\ AP!Version = Version /\ AP!Stamp = Stamp
      /\ AP!Agreed = Agreed
  BY DEF AP!Record, Record, AP!Stamp, AP!NoReply, NoReply, AP!Version, AP!Agreed
<1>2. \A d \in Device : AP!Written(d) = Written(d) /\ AP!Deleted(d) = Deleted(d)
  BY DEF AP!Written, AP!Wins, AP!Deleted, Written, Wins, Deleted
<1>3. \A r, v, cur, w : AP!ListedRows(r, v, cur, w) = ListedRows(r, v, cur, w)
  BY DEF AP!ListedRows, ListedRows
<1>4. \A t, cur, x : AP!ListedTombstones(t, cur, x) = ListedTombstones(t, cur, x)
  BY DEF AP!ListedTombstones, ListedTombstones
<1>5. \A n, cur, r, v, t : AP!IsNextCursor(n, cur, r, v, t) <=> IsNextCursor(n, cur, r, v, t)
  BY DEF AP!IsNextCursor, IsNextCursor
<1> QED BY <1>1, <1>2, <1>3, <1>4, <1>5

\* A device's step is the same one there.
LEMMA DeviceImplements ==
    ASSUME TypeOK, NEW d \in Device, DeviceStep(d)
    PROVE  AP!DeviceStep(d)
<1> USE SameOperators DEF TypeOK, serverVars, deviceVars, callVars,
        AP!serverVars, AP!deviceVars, AP!callVars, AP!Agreed, AP!Stamp
<1>1. ASSUME NEW k \in Key, Edit(d, k) PROVE AP!Edit(d, k)
  BY <1>1 DEF Edit, AP!Edit
<1>2. ASSUME NEW k \in Key, Remove(d, k) PROVE AP!Remove(d, k)
  BY <1>2 DEF Remove, AP!Remove
<1>3. CASE Reinstall(d)
  BY <1>3 DEF Reinstall, AP!Reinstall, AP!DeviceStep
<1>4. CASE Send(d)
  BY <1>4 DEF Send, AP!Send, AP!DeviceStep
<1>5. CASE Receive(d)
  BY <1>5 DEF Receive, AP!Receive, AP!DeviceStep
<1>6. CASE Lose(d)
  BY <1>6 DEF Lose, AP!Lose, AP!DeviceStep
<1> QED BY <1>1, <1>2, <1>3, <1>4, <1>5, <1>6 DEF DeviceStep, AP!DeviceStep

\* Nothing of what a statement does is visible there.
LEMMA StatementStutters ==
    ASSUME TypeOK, NEW d \in Device,
           Begin(d) \/ ApplyUpserts(d) \/ ApplyDeletions(d) \/ ListRows(d) \/ ListTombstones(d)
    PROVE  UNCHANGED AP!vars
<1>1. UNCHANGED <<row, ver, tomb, reply, regime, clock, local, dirty, gone, cursor>>
  BY StatementEffect
<1>2. Call' = Call
  <2>1. \A e \in Device \ {d} : phase'[e] = phase[e]
    BY StatementEffect
  <2>2. phase'[d] \in InTransaction
    BY StatementEffect
  <2>3. phase[d] \in InTransaction \cup {"waiting"}
    BY DEF Begin, ApplyUpserts, ApplyDeletions, ListRows, ListTombstones
  <2> QED BY <2>1, <2>2, <2>3 DEF Call
<1> QED BY <1>1, <1>2 DEF AP!vars, AP!serverVars, AP!deviceVars, AP!callVars, Call

\* The versions that a transaction has taken are fresh when it commits.
LEMMA TakenFresh ==
    ASSUME TableInv, NEW d \in Device, NEW k \in wr[d] \cup dl[d]
    PROVE  AP!Fresh(nver[d][k])
BY DEF AP!Fresh, TableInv, Ahead

LEMMA CommitServes ==
    ASSUME TableInv, Agreed, NEW d \in Device, Commit(d)
    PROVE  AP!Serve(d)
<1>1. Call[d] = "waiting" /\ Call' = [Call EXCEPT ![d] = "replied"]
  BY DEF Call, Commit, TableInv, TypeOK
<1>2. AP!Written(d) = wr[d] /\ AP!Deleted(d) = dl[d] /\ UNCHANGED AP!deviceVars
  BY SameOperators, CommitEffect DEF AP!deviceVars
<1>3. /\ row' = [k \in Key |-> IF k \in wr[d] THEN local[d][k]
                              ELSE IF k \in dl[d] THEN None ELSE row[k]]
      /\ ver' \in [Key -> Version] /\ tomb' \in [Key -> Version]
  BY SeenTyped DEF Commit, RowSeen, TableInv
<1>4. \A k \in Key :
        \/ k \in wr[d] /\ AP!Fresh(ver'[k]) /\ tomb'[k] = 0
        \/ k \in dl[d] /\ ver'[k] = 0 /\ AP!Fresh(tomb'[k])
        \/ k \notin wr[d] \cup dl[d] /\ ver'[k] = ver[k] /\ tomb'[k] = tomb[k]
  BY CommitEffect, TakenFresh
<1>5. /\ draft[d].rows = ListedRows(row', ver', cursor[d], wr[d])
      /\ draft[d].dels = ListedTombstones(tomb', cursor[d], dl[d])
      /\ IsNextCursor(draft[d].next, cursor[d], draft[d].rows, ver', tomb')
  BY DEF Commit, TableInv, Drafted
<1>6. /\ draft[d].next \in Version
      /\ draft[d] = [rows |-> draft[d].rows, dels |-> draft[d].dels, next |-> draft[d].next]
      /\ reply' = [reply EXCEPT ![d] = draft[d]]
  BY DEF Commit, TableInv, TypeOK, Reply
<1> HIDE DEF Version
<1>7. \E next \in Version :
        /\ AP!IsNextCursor(next, cursor[d], AP!ListedRows(row', ver', cursor[d], wr[d]), ver', tomb')
        /\ reply' = [reply EXCEPT ![d] =
             [rows |-> AP!ListedRows(row', ver', cursor[d], wr[d]),
              dels |-> AP!ListedTombstones(tomb', cursor[d], dl[d]),
              next |-> next]]
  BY <1>5, <1>6, SameOperators
<1>8. /\ row' = [k \in Key |-> IF k \in AP!Written(d) THEN local[d][k]
                              ELSE IF k \in AP!Deleted(d) THEN None ELSE row[k]]
      /\ ver' \in [Key -> AP!Version] /\ tomb' \in [Key -> AP!Version]
  BY <1>2, <1>3, SameOperators
<1>9. \A k \in Key :
        \/ k \in AP!Written(d) /\ AP!Fresh(ver'[k]) /\ tomb'[k] = 0
        \/ k \in AP!Deleted(d) /\ ver'[k] = 0 /\ AP!Fresh(tomb'[k])
        \/ k \notin AP!Written(d) \cup AP!Deleted(d) /\ ver'[k] = ver[k] /\ tomb'[k] = tomb[k]
  BY <1>2, <1>4
<1>10. \E next \in AP!Version :
         /\ AP!IsNextCursor(next, cursor[d],
               AP!ListedRows(row', ver', cursor[d], AP!Written(d)), ver', tomb')
         /\ reply' = [reply EXCEPT ![d] =
              [rows |-> AP!ListedRows(row', ver', cursor[d], AP!Written(d)),
               dels |-> AP!ListedTombstones(tomb', cursor[d], AP!Deleted(d)),
               next |-> next]]
  BY <1>2, <1>7, SameOperators
<1> QED BY <1>1, <1>2, <1>8, <1>9, <1>10 DEF AP!Serve, Call

LEMMA AbortRejects ==
    ASSUME TypeOK, NEW d \in Device, Fail(d) \/ Drop(d)
    PROVE  AP!Reject(d)
<1>1. UNCHANGED <<row, ver, tomb, reply, regime, clock, local, dirty, gone, cursor>>
  BY DEF Fail, Drop, serverVars, deviceVars
<1>2. Call[d] = "waiting" /\ Call' = [Call EXCEPT ![d] = "idle"]
  BY DEF Call, Fail, Drop, TypeOK
<1> QED BY <1>1, <1>2 DEF AP!Reject, AP!serverVars, AP!deviceVars, Call

LEMMA CleanupImplements ==
    ASSUME NEW k \in Key, CleanupTombstone(k)
    PROVE  AP!Cleanup(k)
<1>1. \A d \in Device : Outgrown(d, k) => AP!Outgrown(d, k)
  BY DEF Outgrown, AP!Outgrown
<1> QED BY <1>1 DEF CleanupTombstone, Cleanup, AP!Cleanup, deviceVars, callVars,
                AP!deviceVars, AP!callVars, AP!Agreed

LEMMA StepImplements ==
    ASSUME TableInv, Agreed, [Next]_vars
    PROVE  [AP!Next]_(AP!vars)
<1>1. ASSUME NEW d \in Device, DeviceStep(d) PROVE AP!Next
  BY <1>1, DeviceImplements DEF TableInv, AP!Next
<1>2. ASSUME NEW d \in Device, ServerStep(d) PROVE [AP!Next]_(AP!vars)
  BY <1>2, StatementStutters, CommitServes, AbortRejects DEF ServerStep, TableInv, AP!Next
<1>3. ASSUME NEW k \in Key, CleanupTombstone(k) PROVE AP!Next
  BY <1>3, CleanupImplements DEF AP!Next
<1>4. CASE UNCHANGED vars
  BY <1>4 DEF vars, serverVars, deviceVars, callVars, AP!vars, AP!serverVars,
         AP!deviceVars, AP!callVars
<1> QED BY <1>1, <1>2, <1>3, <1>4 DEF Next

----------------------------------------------------------------------------
(* The theorems.                                                           *)

LEMMA RegimeStays == [Next]_vars => regime' = regime
<1>1. ASSUME NEW d \in Device, DeviceStep(d) PROVE regime' = regime
  BY <1>1 DEF DeviceStep, Edit, Remove, Reinstall, Send, Receive, Lose, deviceVars
<1>2. ASSUME NEW d \in Device, ServerStep(d) PROVE regime' = regime
  BY <1>2 DEF ServerStep, Begin, ApplyUpserts, ApplyDeletions, ListRows, ListTombstones,
         Commit, Fail, Drop, deviceVars
<1>3. ASSUME NEW k \in Key, CleanupTombstone(k) PROVE regime' = regime
  BY <1>3 DEF CleanupTombstone, Cleanup, deviceVars
<1>4. CASE UNCHANGED vars
  BY <1>4 DEF vars, deviceVars
<1> QED BY <1>1, <1>2, <1>3, <1>4 DEF Next

LEMMA ShapeThere == TableInv => AP!Shape
<1> SUFFICES ASSUME TableInv PROVE AP!Shape
  OBVIOUS
<1>1. AP!TypeOK
  BY SameOperators DEF TableInv, TypeOK, AP!TypeOK, AP!Version, AP!Stamp, AP!Reply, Reply
<1>2. AP!WellFormed /\ AP!LiveOrTombstoned
  BY DEF TableInv, TypeOK, Pending, LiveOrTombstoned, AP!WellFormed, AP!LiveOrTombstoned
<1> QED BY <1>1, <1>2 DEF AP!Shape

LEMMA InitThere == SyncInit => AP!Init
BY SameOperators DEF SyncInit, Init, AP!Init

\* Atomic and the instance whose proofs are used here are the same specification.
LEMMA AtomicSame ==
    /\ Atomic!Init <=> AP!Init
    /\ UNCHANGED Atomic!vars <=> UNCHANGED AP!vars
    /\ Atomic!Next <=> AP!Next
BY DEF
     Atomic!Init, Atomic!NoReply, Atomic!vars, Atomic!serverVars, Atomic!deviceVars,
     Atomic!callVars, Atomic!Next, Atomic!DeviceStep, Atomic!Edit, Atomic!Remove,
     Atomic!Reinstall, Atomic!Send, Atomic!Receive, Atomic!Lose, Atomic!Serve,
     Atomic!Reject, Atomic!Cleanup, Atomic!Outgrown, Atomic!Fresh, Atomic!Written,
     Atomic!Deleted, Atomic!Wins, Atomic!ListedRows, Atomic!ListedTombstones,
     Atomic!IsNextCursor, Atomic!Version, Atomic!Stamp, Atomic!Agreed,
     AP!Init, AP!NoReply, AP!vars, AP!serverVars, AP!deviceVars,
     AP!callVars, AP!Next, AP!DeviceStep, AP!Edit, AP!Remove,
     AP!Reinstall, AP!Send, AP!Receive, AP!Lose, AP!Serve,
     AP!Reject, AP!Cleanup, AP!Outgrown, AP!Fresh, AP!Written,
     AP!Deleted, AP!Wins, AP!ListedRows, AP!ListedTombstones,
     AP!IsNextCursor, AP!Version, AP!Stamp, AP!Agreed

\* SyncInv is an invariant: what ReplicaAtomic's proofs say of a request handled
\* in one step carries over to the transactions.
THEOREM SyncInvariant == Spec => []SyncInv
<1>1. SyncInit => SyncInv
  BY TableInvInit, InitThere, AP!InitCaughtUp, BoundsAssumption, NoneAssumption, SameOperators
     DEF SyncInv
<1>2. SyncInv /\ [Next]_vars => SyncInv'
  <2> SUFFICES ASSUME SyncInv, [Next]_vars PROVE SyncInv'
    OBVIOUS
  <2>1. TableInv'
    BY TableInvKept DEF SyncInv
  <2>2. ASSUME Agreed' PROVE AP!CaughtUp'
    <3>1. Agreed /\ AP!CaughtUp
      BY <2>2, RegimeStays DEF SyncInv
    <3>2. [AP!Next]_(AP!vars) /\ AP!Shape
      BY <3>1, StepImplements, ShapeThere DEF SyncInv
    <3>3. AP!Agreed
      BY <3>1, SameOperators
    <3> QED BY <3>1, <3>2, <3>3, AP!NextCaughtUp, BoundsAssumption, NoneAssumption, SameOperators
  <2> QED BY <2>1, <2>2 DEF SyncInv
<1> QED BY <1>1, <1>2, PTL DEF Spec

\* The columns keep their types, a version is there for exactly the rows that
\* exist, and there is one transaction at a time, the one with the users row.
THEOREM TypeCorrect == Spec => []TypeOK
<1>1. SyncInv => TypeOK
  BY DEF SyncInv, TableInv
<1> QED BY <1>1, SyncInvariant, PTL

\* The statements of interleaved requests never leave a key live and tombstoned
\* (clearTombstones, insertTombstones).
THEOREM NeverLiveAndTombstoned == Spec => []LiveOrTombstoned
<1>1. SyncInv => LiveOrTombstoned
  BY DEF SyncInv, TableInv
<1> QED BY <1>1, SyncInvariant, PTL

\* With the transactions of the code, no change is skipped while clocks agree
\* and devices sync within tombstone retention.
THEOREM NothingSkipped == Spec => []NoSkippedChange
<1>1. SyncInv => NoSkippedChange
  BY DEF SyncInv, NoSkippedChange, EveryChangeAhead, AP!CaughtUp, AP!EveryChangeAhead
<1> QED BY <1>1, SyncInvariant, PTL

\* However wrong the clocks are, a device misses a live row for good only when
\* its own edit has lost to it.
THEOREM OnlyOwnEditsLost == Spec => []OnlyOwnEditLost
<1>1. SyncInv => OnlyOwnEditLost
  BY DEF SyncInv, TableInv
<1> QED BY <1>1, SyncInvariant, PTL

\* The transactions implement requests that are handled one at a time, in the
\* order in which they commit.
THEOREM Serialisability == Spec => Serialisable
<1>1. SyncInit => Atomic!Init
  BY InitThere, AtomicSame
<1>2. SyncInv /\ [Next]_vars => [Agreed => Atomic!Next]_(Atomic!vars)
  <2> SUFFICES ASSUME SyncInv, [Next]_vars, Agreed
               PROVE  Atomic!Next \/ UNCHANGED Atomic!vars
    OBVIOUS
  <2>1. AP!Next \/ UNCHANGED AP!vars
    BY StepImplements DEF SyncInv
  <2> QED BY <2>1, AtomicSame
<1> QED BY <1>1, <1>2, SyncInvariant, PTL DEF Spec, Serialisable

\* What changes a live row is newer than it by updated_at, and gets a version
\* larger than the one it had.
THEOREM LastWriterWins == Spec => NewerWinsAlways
<1>1. SyncInv /\ [Next]_vars => [NewerWins]_vars
  <2> SUFFICES ASSUME SyncInv, [Next]_vars,
                      NEW k \in Key, row[k] # None, row'[k] # None, row'[k] # row[k]
               PROVE  row'[k].upd > row[k].upd /\ ver'[k] > ver[k]
    BY DEF NewerWins
  <2>1. PICK d \in Device : Commit(d)
    BY DEF Next, DeviceStep, Edit, Remove, Reinstall, Send, Receive, Lose, ServerStep, Begin,
       ApplyUpserts, ApplyDeletions, ListRows, ListTombstones, Fail, Drop, CleanupTombstone,
       Cleanup, vars, serverVars
  <2>2. /\ k \in wr[d] /\ wr[d] = Written(d)
        /\ row'[k] = local[d][k] /\ ver'[k] = nver[d][k]
    BY <2>1, CommitEffect DEF SyncInv
  <2>3. ver'[k] > ver[k]
    BY <2>2 DEF SyncInv, TableInv, Ahead
  <2>4. row'[k].upd > row[k].upd
    BY <2>2 DEF Written, Wins
  <2> QED BY <2>3, <2>4
<1> QED BY <1>1, SyncInvariant, PTL DEF Spec, NewerWinsAlways

=============================================================================
