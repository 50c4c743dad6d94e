------------------------ MODULE ReplicaAtomic_proofs ------------------------
(***************************************************************************)
(* Proofs about ReplicaAtomic, for every number of devices and keys.       *)
(***************************************************************************)
EXTENDS ReplicaAtomic, TLAPS

\* The facts about types every step uses.
USE DEF Version, Stamp, Agreed

\* NoReply is a response, and it is type correct.
LEMMA NoReplyType == NoReply \in Reply
BY BoundsAssumption DEF NoReply, Reply

\* A step of a device keeps the state type correct (the client's actions).
LEMMA DeviceTyped ==
    ASSUME TypeOK, NEW d \in Device, DeviceStep(d)
    PROVE  TypeOK'
<1> USE BoundsAssumption DEF TypeOK
<1>1. ASSUME NEW k \in Key, Edit(d, k) PROVE TypeOK'
  <2>1. PICK now \in IF Agreed THEN {clock + 1} ELSE Stamp :
          /\ now \in Stamp
          /\ clock' = IF Agreed THEN now ELSE clock
          /\ local' = [local EXCEPT ![d][k] = [upd |-> now, by |-> d]]
    BY <1>1 DEF Edit
  <2>2. [upd |-> now, by |-> d] \in Record
    BY <2>1 DEF Record
  <2> QED BY <1>1, <2>1, <2>2 DEF Edit, serverVars, callVars
<1>2. ASSUME NEW k \in Key, Remove(d, k) PROVE TypeOK'
  BY <1>2 DEF Remove, serverVars, callVars
<1>3. CASE Reinstall(d)
  BY <1>3 DEF Reinstall, serverVars, callVars
<1>4. CASE Send(d)
  BY <1>4 DEF Send, serverVars, deviceVars
<1>5. CASE Receive(d)
  <2>1. reply[d] \in Reply
    OBVIOUS
  <2>2. /\ reply[d].rows \in [Key -> Record \cup {None}]
        /\ reply[d].next \in Version
    BY <2>1 DEF Reply
  <2> QED BY <1>5, <2>2, NoReplyType DEF Receive, serverVars
<1>6. CASE Lose(d)
  BY <1>6, NoReplyType DEF Lose, serverVars, deviceVars
<1> QED BY <1>1, <1>2, <1>3, <1>4, <1>5, <1>6 DEF DeviceStep

\* The response of a handled request is type correct, and its cursor is at
\* least the request's.
LEMMA ReplyTyped ==
    ASSUME TypeOK, NEW d \in Device, Serve(d)
    PROVE  /\ reply' \in [Device -> Reply]
           /\ row' \in [Key -> Record \cup {None}]
<1> DEFINE wr == Written(d)
           dl == Deleted(d)
           listed == ListedRows(row', ver', cursor[d], wr)
<1>1. row' \in [Key -> Record \cup {None}]
  BY DEF Serve, TypeOK
<1>2. listed \in [Key -> Record \cup {None}]
  BY <1>1 DEF ListedRows
<1>3. ListedTombstones(tomb', cursor[d], dl) \in SUBSET Key
  BY DEF ListedTombstones
<1>4. PICK next \in Version :
        reply' = [reply EXCEPT ![d] =
                   [rows |-> listed,
                    dels |-> ListedTombstones(tomb', cursor[d], dl),
                    next |-> next]]
  BY DEF Serve
<1>5. [rows |-> listed, dels |-> ListedTombstones(tomb', cursor[d], dl),
       next |-> next] \in Reply
  BY <1>2, <1>3, <1>4 DEF Reply
<1> HIDE DEF wr, dl, listed
<1> QED BY <1>1, <1>4, <1>5 DEF TypeOK

\* TypeOK is preserved by every step of the specification.
LEMMA NextTyped == TypeOK /\ [Next]_vars => TypeOK'
<1> SUFFICES ASSUME TypeOK, [Next]_vars PROVE TypeOK'
  OBVIOUS
<1>1. ASSUME NEW d \in Device, DeviceStep(d) PROVE TypeOK'
  BY <1>1, DeviceTyped
<1>2. ASSUME NEW d \in Device, Serve(d) PROVE TypeOK'
  BY <1>2, ReplyTyped DEF Serve, TypeOK, deviceVars
<1>3. ASSUME NEW d \in Device, Reject(d) PROVE TypeOK'
  BY <1>3 DEF Reject, TypeOK, serverVars, deviceVars
<1>4. ASSUME NEW k \in Key, Cleanup(k) PROVE TypeOK'
  BY <1>4, BoundsAssumption DEF Cleanup, TypeOK, deviceVars, callVars
<1>5. CASE UNCHANGED vars
  BY <1>5 DEF TypeOK, vars, serverVars, deviceVars, callVars
<1> QED BY <1>1, <1>2, <1>3, <1>4, <1>5 DEF Next

\* Every reachable state is type correct.
THEOREM TypeCorrect == Spec => []TypeOK
<1>1. Init => TypeOK
  BY NoReplyType, BoundsAssumption DEF Init, TypeOK
<1> QED BY <1>1, NextTyped, PTL DEF Spec

----------------------------------------------------------------------------

\* Whatever the clocks and the retention: rows and tombstones exclude each
\* other, and pending changes match the local copy.
Shape == TypeOK /\ WellFormed /\ LiveOrTombstoned

\* Devices and the cleanup job keep that shape.
LEMMA DeviceShape ==
    ASSUME Shape, NEW d \in Device, DeviceStep(d)
    PROVE  WellFormed' /\ LiveOrTombstoned'
<1> USE DEF Shape, TypeOK, WellFormed, LiveOrTombstoned
<1>1. ASSUME NEW k \in Key, Edit(d, k) PROVE WellFormed' /\ LiveOrTombstoned'
  <2>1. PICK now \in IF Agreed THEN {clock + 1} ELSE Stamp :
          /\ now \in Stamp
          /\ local' = [local EXCEPT ![d][k] = [upd |-> now, by |-> d]]
    BY <1>1 DEF Edit
  <2>2. [upd |-> now, by |-> d] # None
    BY <2>1, NoneAssumption DEF Record
  <2> QED BY <1>1, <2>1, <2>2 DEF Edit, serverVars
<1>2. ASSUME NEW k \in Key, Remove(d, k) PROVE WellFormed' /\ LiveOrTombstoned'
  BY <1>2 DEF Remove, serverVars
<1>3. CASE Reinstall(d)
  BY <1>3 DEF Reinstall, serverVars
<1>4. CASE Send(d)
  BY <1>4 DEF Send, serverVars, deviceVars
<1>5. CASE Receive(d)
  BY <1>5 DEF Receive, serverVars
<1>6. CASE Lose(d)
  BY <1>6 DEF Lose, serverVars, deviceVars
<1> QED BY <1>1, <1>2, <1>3, <1>4, <1>5, <1>6 DEF DeviceStep

\* So does the server: a written row loses its tombstone, a deleted one gets
\* a tombstone and no version.
LEMMA ServeShape ==
    ASSUME Shape, NEW d \in Device, Serve(d)
    PROVE  WellFormed' /\ LiveOrTombstoned'
<1> USE DEF Shape, TypeOK, WellFormed, LiveOrTombstoned
<1>1. ASSUME NEW k \in Key
      PROVE  /\ row'[k] = None <=> ver'[k] = 0
             /\ row'[k] = None \/ tomb'[k] = 0
  <2>1. row'[k] = IF k \in Written(d) THEN local[d][k]
                  ELSE IF k \in Deleted(d) THEN None ELSE row[k]
    BY DEF Serve
  <2>2. CASE k \in Written(d)
    <3>1. Fresh(ver'[k]) /\ tomb'[k] = 0
      BY <2>2 DEF Serve, Written, Deleted
    <3>2. ver'[k] > ver[k]
      BY <3>1 DEF Fresh
    <3> QED BY <2>1, <2>2, <3>1, <3>2 DEF Written, Serve
  <2>3. CASE k \in Deleted(d) /\ k \notin Written(d)
    BY <2>1, <2>3 DEF Serve
  <2>4. CASE k \notin Written(d) \cup Deleted(d)
    BY <2>1, <2>4 DEF Serve
  <2> QED BY <2>2, <2>3, <2>4
<1> QED BY <1>1 DEF Serve, deviceVars

\* Shape is an invariant of every step.
LEMMA NextShape == Shape /\ [Next]_vars => Shape'
<1> SUFFICES ASSUME Shape, [Next]_vars PROVE WellFormed' /\ LiveOrTombstoned'
  BY NextTyped DEF Shape
<1>1. ASSUME NEW d \in Device, DeviceStep(d) PROVE WellFormed' /\ LiveOrTombstoned'
  BY <1>1, DeviceShape
<1>2. ASSUME NEW d \in Device, Serve(d) PROVE WellFormed' /\ LiveOrTombstoned'
  BY <1>2, ServeShape
<1> USE DEF Shape, TypeOK, WellFormed, LiveOrTombstoned
<1>3. ASSUME NEW d \in Device, Reject(d) PROVE WellFormed' /\ LiveOrTombstoned'
  BY <1>3 DEF Reject, serverVars, deviceVars
<1>4. ASSUME NEW k \in Key, Cleanup(k) PROVE WellFormed' /\ LiveOrTombstoned'
  BY <1>4 DEF Cleanup, deviceVars
<1>5. CASE UNCHANGED vars
  BY <1>5 DEF vars, serverVars, deviceVars
<1> QED BY <1>1, <1>2, <1>3, <1>4, <1>5 DEF Next

\* The initial values of the variables, one by one.
LEMMA InitShape == Init => Shape
BY NoReplyType, BoundsAssumption
   DEF Init, Shape, TypeOK, WellFormed, LiveOrTombstoned

\* No key is ever both live and tombstoned, with or without agreeing clocks and
\* devices that keep within the tombstones' retention.
THEOREM NeverLiveAndTombstoned == Spec => []LiveOrTombstoned
<1>1. Shape => LiveOrTombstoned
  BY DEF Shape
<1> QED BY <1>1, InitShape, NextShape, PTL DEF Spec

----------------------------------------------------------------------------
(* No change is ever skipped, when clocks agree and every device syncs     *)
(* within tombstone retention (Agreed).                                    *)

\* What IInv adds to Shape.
CaughtUp ==
    /\ StampsPassed
    /\ PendingIsNewer
    /\ EveryChangeAhead
    /\ ReplyCatchesUp

\* An edit is newer than every row; other device steps touch no row, and a
\* device that applies its response is caught up by ReplyCatchesUp.
LEMMA DeviceCaughtUp ==
    ASSUME Agreed, Shape, CaughtUp, NEW d \in Device, DeviceStep(d)
    PROVE  CaughtUp'
<1> USE DEF Shape, TypeOK
<1>0. /\ NoReply.rows = [k \in Key |-> None]
      /\ \A e \in Device : reply[e].rows \in [Key -> Record \cup {None}]
      /\ \A r \in Record : r.upd \in Stamp
      /\ MaxClock \in Nat
  BY BoundsAssumption DEF NoReply, Reply, Record
<1>1. ASSUME NEW k \in Key, Edit(d, k) PROVE CaughtUp'
  <2>1. /\ clock' = clock + 1
        /\ local' = [local EXCEPT ![d][k] = [upd |-> clock + 1, by |-> d]]
        /\ UNCHANGED <<row, ver, tomb, cursor, phase, reply>>
        /\ dirty' = [dirty EXCEPT ![d] = @ \cup {k}]
        /\ gone' = [gone EXCEPT ![d] = @ \ {k}]
        /\ phase[d] = "idle"
    BY <1>1 DEF Edit, serverVars, callVars
  <2>2. StampsPassed'
    BY <1>0, <2>1 DEF CaughtUp, StampsPassed
  <2>3. PendingIsNewer'
    BY <1>0, <2>1 DEF CaughtUp, StampsPassed, PendingIsNewer
  <2>4. EveryChangeAhead'
    BY <2>1 DEF CaughtUp, EveryChangeAhead, WellFormed
  <2>5. ReplyCatchesUp'
    BY <2>1 DEF CaughtUp, ReplyCatchesUp, Applied
  <2> QED BY <2>2, <2>3, <2>4, <2>5 DEF CaughtUp
<1>2. ASSUME NEW k \in Key, Remove(d, k) PROVE CaughtUp'
  <2> USE <1>2 DEF Remove, serverVars, callVars
  <2>1. StampsPassed'
    BY DEF CaughtUp, StampsPassed
  <2>2. PendingIsNewer'
    BY DEF CaughtUp, PendingIsNewer
  <2>3. EveryChangeAhead'
    BY DEF CaughtUp, EveryChangeAhead, WellFormed
  <2>4. ReplyCatchesUp'
    BY DEF CaughtUp, ReplyCatchesUp, Applied
  <2> QED BY <2>1, <2>2, <2>3, <2>4 DEF CaughtUp
<1>3. CASE Reinstall(d)
  <2> USE <1>3 DEF Reinstall, serverVars, callVars
  <2>1. StampsPassed'
    BY DEF CaughtUp, StampsPassed
  <2>2. PendingIsNewer'
    BY DEF CaughtUp, PendingIsNewer
  <2>3. EveryChangeAhead'
    BY DEF CaughtUp, EveryChangeAhead, WellFormed
  <2>4. ReplyCatchesUp'
    BY DEF CaughtUp, ReplyCatchesUp, Applied
  <2> QED BY <2>1, <2>2, <2>3, <2>4 DEF CaughtUp
<1>4. CASE Send(d)
  BY <1>4 DEF Send, serverVars, deviceVars, CaughtUp, StampsPassed,
       PendingIsNewer, EveryChangeAhead, ReplyCatchesUp, Applied
<1>5. CASE Receive(d)
  <2> USE <1>5 DEF Receive, serverVars
  <2>1. \A k \in Key : local'[d][k] = Applied(d, k)
    BY DEF Applied
  <2>2. StampsPassed'
    BY <1>0, <2>1 DEF CaughtUp, StampsPassed, Applied
  <2>3. PendingIsNewer'
    BY DEF CaughtUp, PendingIsNewer
  <2>4. EveryChangeAhead'
    BY <2>1 DEF CaughtUp, EveryChangeAhead, ReplyCatchesUp
  <2>5. ReplyCatchesUp'
    BY DEF CaughtUp, ReplyCatchesUp, Applied
  <2> QED BY <2>2, <2>3, <2>4, <2>5 DEF CaughtUp
<1>6. CASE Lose(d)
  <2> USE <1>6 DEF Lose, serverVars, deviceVars
  <2>1. StampsPassed'
    BY <1>0 DEF CaughtUp, StampsPassed
  <2>2. PendingIsNewer' /\ EveryChangeAhead'
    BY DEF CaughtUp, PendingIsNewer, EveryChangeAhead
  <2>3. ReplyCatchesUp'
    BY DEF CaughtUp, ReplyCatchesUp, Applied
  <2> QED BY <2>1, <2>2, <2>3 DEF CaughtUp
<1> QED BY <1>1, <1>2, <1>3, <1>4, <1>5, <1>6 DEF DeviceStep

\* What one handled request does to key k, and the cursor it answers with.
LEMMA ServeEffect ==
    ASSUME Shape, NEW d \in Device, Serve(d)
    PROVE  /\ UNCHANGED deviceVars
           /\ \A e \in Device : e # d => reply'[e] = reply[e] /\ phase'[e] = phase[e]
           /\ phase'[d] = "replied"
           /\ cursor[d] <= reply'[d].next
           /\ \A k \in Key :
                \/ /\ k \in Written(d) /\ row'[k] = local[d][k]
                   /\ tomb'[k] = 0 /\ Fresh(ver'[k])
                \/ /\ k \in Deleted(d) \ Written(d) /\ row'[k] = None
                   /\ ver'[k] = 0 /\ Fresh(tomb'[k])
                \/ /\ k \notin Written(d) \cup Deleted(d)
                   /\ row'[k] = row[k] /\ ver'[k] = ver[k] /\ tomb'[k] = tomb[k]
           /\ \A k \in Key :
                reply'[d].rows[k] = IF /\ row'[k] # None
                                       /\ ver'[k] > cursor[d]
                                       /\ k \notin Written(d)
                                    THEN row'[k] ELSE None
           /\ reply'[d].dels = {k \in Key : tomb'[k] > cursor[d]} \ Deleted(d)
<1>1. PICK next \in Version :
        /\ IsNextCursor(next, cursor[d],
             ListedRows(row', ver', cursor[d], Written(d)), ver', tomb')
        /\ reply' = [reply EXCEPT ![d] =
             [rows |-> ListedRows(row', ver', cursor[d], Written(d)),
              dels |-> ListedTombstones(tomb', cursor[d], Deleted(d)),
              next |-> next]]
  BY DEF Serve
<1>2. cursor[d] <= next
  BY <1>1 DEF IsNextCursor
<1>3. reply'[d] = [rows |-> ListedRows(row', ver', cursor[d], Written(d)),
                   dels |-> ListedTombstones(tomb', cursor[d], Deleted(d)),
                   next |-> next]
  BY <1>1 DEF Shape, TypeOK
<1>4. \A k \in Key :
        \/ /\ k \in Written(d) /\ row'[k] = local[d][k]
           /\ tomb'[k] = 0 /\ Fresh(ver'[k])
        \/ /\ k \in Deleted(d) \ Written(d) /\ row'[k] = None
           /\ ver'[k] = 0 /\ Fresh(tomb'[k])
        \/ /\ k \notin Written(d) \cup Deleted(d)
           /\ row'[k] = row[k] /\ ver'[k] = ver[k] /\ tomb'[k] = tomb[k]
  <2> SUFFICES ASSUME NEW k \in Key
               PROVE  \/ /\ k \in Written(d) /\ row'[k] = local[d][k]
                         /\ tomb'[k] = 0 /\ Fresh(ver'[k])
                      \/ /\ k \in Deleted(d) \ Written(d) /\ row'[k] = None
                         /\ ver'[k] = 0 /\ Fresh(tomb'[k])
                      \/ /\ k \notin Written(d) \cup Deleted(d)
                         /\ row'[k] = row[k] /\ ver'[k] = ver[k]
                         /\ tomb'[k] = tomb[k]
    OBVIOUS
  <2>1. k \notin Written(d) \cap Deleted(d)
    BY DEF Written, Deleted, Shape, WellFormed
  <2> QED BY <2>1 DEF Serve
<1>5. /\ \A k \in Key : reply'[d].rows[k] =
           IF row'[k] # None /\ ver'[k] > cursor[d] /\ k \notin Written(d)
           THEN row'[k] ELSE None
      /\ reply'[d].dels = {k \in Key : tomb'[k] > cursor[d]} \ Deleted(d)
      /\ reply'[d].next = next
  BY <1>3 DEF ListedRows, ListedTombstones
<1>6. /\ UNCHANGED deviceVars
      /\ phase' = [phase EXCEPT ![d] = "replied"]
  BY DEF Serve
<1> QED BY <1>1, <1>2, <1>4, <1>5, <1>6 DEF Shape, TypeOK

\* Versions given out are larger than every cursor and every cursor promised,
\* so another device's changes are never skipped; the requesting device is
\* brought up to date by its response.
LEMMA ServeCaughtUp ==
    ASSUME Agreed, Shape, CaughtUp, NEW d \in Device, Serve(d)
    PROVE  CaughtUp'
<1> USE DEF Shape, TypeOK
<1> USE ServeEffect
<1>0. /\ \A e \in Device : reply[e].rows \in [Key -> Record \cup {None}]
      /\ \A e \in Device : reply[e].next \in Nat
      /\ \A r \in Record : r.upd \in Nat
      /\ \A k \in Key : ver'[k] \in Nat /\ tomb'[k] \in Nat
  BY BoundsAssumption DEF Reply, Record, Serve
<1>a. \A k \in Key :
        \/ row'[k] = row[k] /\ ver'[k] = ver[k] /\ tomb'[k] = tomb[k]
        \/ \A e \in Device :
             IF row'[k] # None
             THEN ver'[k] > cursor[e] /\ ver'[k] > reply[e].next
             ELSE tomb'[k] > cursor[e] /\ tomb'[k] > reply[e].next
  BY DEF Fresh, Written, WellFormed
<1>b. \A k \in Key : row'[k] # None => row'[k].upd <= clock
  BY DEF CaughtUp, StampsPassed, Written, WellFormed
<1>1. StampsPassed'
  <2>1. \A e \in Device, k \in Key :
          reply'[e].rows[k] # None => reply'[e].rows[k].upd <= clock
    <3>1. ASSUME NEW e \in Device, NEW k \in Key, reply'[e].rows[k] # None
          PROVE  reply'[e].rows[k].upd <= clock
      <4>1. CASE e = d
        BY <1>b, <3>1, <4>1
      <4>2. CASE e # d
        BY <3>1, <4>2 DEF CaughtUp, StampsPassed
      <4> QED BY <4>1, <4>2
    <3> QED BY <3>1
  <2>2. clock' = clock /\ local' = local
    BY DEF deviceVars
  <2> QED BY <1>b, <2>1, <2>2 DEF CaughtUp, StampsPassed
<1>2. PendingIsNewer'
  BY <1>0 DEF CaughtUp, PendingIsNewer, deviceVars, Fresh
<1>3. EveryChangeAhead'
  BY <1>0, <1>a DEF CaughtUp, EveryChangeAhead, deviceVars
<1>4. ReplyCatchesUp'
  <2>1. ASSUME NEW e \in Device, e # d, phase'[e] = "replied"
        PROVE  /\ cursor'[e] <= reply'[e].next
               /\ \A k \in Key : Applied(e, k)' # row'[k] =>
                     IF row'[k] # None THEN ver'[k] > reply'[e].next
                                       ELSE tomb'[k] > reply'[e].next
    <3>1. /\ reply'[e] = reply[e] /\ phase[e] = "replied"
          /\ local' = local /\ cursor' = cursor
      BY <2>1 DEF deviceVars
    <3>2. \A k \in Key : Applied(e, k)' = Applied(e, k)
      BY <3>1 DEF Applied
    <3> QED BY <1>0, <1>a, <3>1, <3>2 DEF CaughtUp, ReplyCatchesUp
  <2>2. ASSUME NEW k \in Key PROVE Applied(d, k)' = row'[k]
    <3>1. CASE k \in Written(d)
      BY <1>0, <3>1, NoneAssumption DEF Applied, deviceVars, LiveOrTombstoned
    <3>2. CASE k \in Deleted(d) \ Written(d)
      BY <1>0, <3>2 DEF Applied, deviceVars, WellFormed, Deleted, Written
    <3>3. CASE k \notin Written(d) \cup Deleted(d)
      <4>1. /\ row'[k] = row[k] /\ ver'[k] = ver[k] /\ tomb'[k] = tomb[k]
            /\ local' = local
        BY <3>3 DEF deviceVars
      <4>2. CASE row[k] # None /\ ver[k] <= cursor[d]
        <5>1. k \notin dirty[d]
          BY <3>3, <4>2, <1>0 DEF CaughtUp, PendingIsNewer, Written, Wins, WellFormed
        <5>2. k \notin gone[d]
          BY <3>3, <4>2 DEF Deleted
        <5>3. local[d][k] = row[k]
          BY <4>2, <5>1, <5>2, <1>0 DEF CaughtUp, EveryChangeAhead
        <5> QED BY <1>0, <4>1, <4>2, <5>3 DEF Applied, LiveOrTombstoned
      <4>3. CASE row[k] # None /\ ver[k] > cursor[d]
        BY <1>0, <3>3, <4>1, <4>3 DEF Applied, LiveOrTombstoned
      <4>4. CASE row[k] = None
        <5>1. k \notin dirty[d]
          BY <3>3, <4>4 DEF Written, Wins
        <5>2. local[d][k] = None \/ tomb[k] > cursor[d]
          BY <4>4, <5>1 DEF CaughtUp, EveryChangeAhead, WellFormed
        <5> QED BY <1>0, <3>3, <4>1, <4>4, <5>2 DEF Applied
      <4> QED BY <1>0, <4>2, <4>3, <4>4 DEF Shape
    <3> QED BY <3>1, <3>2, <3>3
  <2> QED BY <2>1, <2>2 DEF ReplyCatchesUp, deviceVars
<1> QED BY <1>1, <1>2, <1>3, <1>4 DEF CaughtUp

\* A tombstone is only dropped when every device has outgrown it.
LEMMA CleanupCaughtUp ==
    ASSUME Agreed, Shape, CaughtUp, NEW k \in Key, Cleanup(k)
    PROVE  CaughtUp'
<1> USE DEF Shape, TypeOK
<1>0. /\ UNCHANGED <<row, ver, clock, local, dirty, gone, cursor, phase, reply>>
      /\ tomb' = [tomb EXCEPT ![k] = 0]
      /\ \A d \in Device : Outgrown(d, k)
      /\ \A d \in Device : reply[d].next \in Nat
  BY BoundsAssumption DEF Cleanup, deviceVars, callVars, Reply
<1>1. StampsPassed' /\ PendingIsNewer'
  BY <1>0 DEF CaughtUp, StampsPassed, PendingIsNewer
<1>2. EveryChangeAhead'
  BY <1>0 DEF CaughtUp, EveryChangeAhead, Outgrown
<1>3. ReplyCatchesUp'
  BY <1>0 DEF CaughtUp, ReplyCatchesUp, Applied, Outgrown
<1> QED BY <1>1, <1>2, <1>3 DEF CaughtUp

\* Every step keeps every device caught up.
LEMMA NextCaughtUp ==
    ASSUME Agreed, Shape, CaughtUp, [Next]_vars
    PROVE  CaughtUp'
<1>1. ASSUME NEW d \in Device, DeviceStep(d) PROVE CaughtUp'
  BY <1>1, DeviceCaughtUp
<1>2. ASSUME NEW d \in Device, Serve(d) PROVE CaughtUp'
  BY <1>2, ServeCaughtUp
<1>3. ASSUME NEW d \in Device, Reject(d) PROVE CaughtUp'
  BY <1>3 DEF Reject, serverVars, deviceVars, Shape, TypeOK, CaughtUp,
       StampsPassed, PendingIsNewer, EveryChangeAhead, ReplyCatchesUp, Applied
<1>4. ASSUME NEW k \in Key, Cleanup(k) PROVE CaughtUp'
  BY <1>4, CleanupCaughtUp
<1>5. CASE UNCHANGED vars
  BY <1>5 DEF vars, serverVars, deviceVars, callVars, CaughtUp,
       StampsPassed, PendingIsNewer, EveryChangeAhead, ReplyCatchesUp, Applied
<1> QED BY <1>1, <1>2, <1>3, <1>4, <1>5 DEF Next

\* No step changes the regime.
LEMMA RegimeStays == [Next]_vars => regime' = regime
BY DEF Next, DeviceStep, Edit, Remove, Reinstall, Send, Receive, Lose, Serve,
       Reject, Cleanup, vars, deviceVars

\* At first there is nothing a device could have skipped.
LEMMA InitCaughtUp == Init => CaughtUp
BY DEF Init, CaughtUp, StampsPassed, PendingIsNewer, EveryChangeAhead,
       ReplyCatchesUp, NoReply

\* IInv is an invariant: besides its shape, when clocks agree, what each device
\* has and each response under way leaves nothing behind.
THEOREM Invariant == Spec => []IInv
<1>1. IInv <=> Shape /\ (Agreed => CaughtUp)
  BY DEF IInv, Shape, CaughtUp
<1>2. Init => IInv
  BY <1>1, InitShape, InitCaughtUp
<1>3. IInv /\ [Next]_vars => IInv'
  <2> SUFFICES ASSUME IInv, [Next]_vars PROVE Shape' /\ (Agreed' => CaughtUp')
    BY DEF IInv, Shape, CaughtUp
  <2>1. Shape'
    BY <1>1, NextShape
  <2>2. ASSUME Agreed' PROVE CaughtUp'
    <3>1. Agreed
      BY <2>2, RegimeStays
    <3> QED BY <1>1, <3>1, NextCaughtUp
  <2> QED BY <2>1, <2>2
<1> QED BY <1>2, <1>3, PTL DEF Spec

\* When the devices' clocks agree and each syncs within tombstone retention, no
\* row and no deletion is ever skipped: whatever a device does not have lies
\* past its cursor.
THEOREM NothingSkipped == Spec => []NoSkippedChange
<1>1. IInv => NoSkippedChange
  BY DEF IInv, NoSkippedChange
<1> QED BY <1>1, Invariant, PTL

=============================================================================
