------------------------------ MODULE Replica ------------------------------
(***************************************************************************)
(* One replicated table of one user: the server's rows and tombstones, and *)
(* the devices that hold a local copy of it.  The tables with a deletion   *)
(* list (modes, mode_blocked_apps, schedules, restriction_sessions,        *)
(* nfc_linked_chips, qr_linked_codes and streak_session_daily_rollups) all *)
(* follow the protocol modelled here; they differ in the columns only.     *)
(*                                                                         *)
(* This module declares the state both specifications of the protocol      *)
(* share, the actions of a device (the mobile client, which is not part of *)
(* the repository and is modelled from what POST /sync expects of it) and  *)
(* the tombstone cleanup job.  ReplicaAtomic adds a server that handles a  *)
(* request in one step; SyncTable adds the server of the code, which       *)
(* handles it in one database transaction of several statements.           *)
(***************************************************************************)
EXTENDS Integers

CONSTANTS
    Device,       \* installations of the app signed in to the account
    Key,          \* primary keys of the table
    None,         \* no record: a row that is absent, a copy not held
    MaxClock,     \* bound on updated_at, hence on the number of local edits
    MaxSeq        \* bound on sync_version_seq

ASSUME BoundsAssumption == MaxClock \in Nat /\ MaxSeq \in Nat

VARIABLES
    regime, \* "agreed": the devices' clocks agree and each device syncs within
            \* tombstone retention; "skewed": neither.  It never changes.
    row,    \* row[k]: the committed record, or None
    ver,    \* ver[k]: the row's sync_version, 0 when there is no row
    tomb,   \* tomb[k]: the tombstone's sync_version, 0 when there is none
    clock,  \* the latest updated_at given out, when clocks agree
    local,  \* local[d][k]: the device's copy, or None
    dirty,  \* dirty[d]: keys edited locally, to be sent as upserts
    gone,   \* gone[d]: keys deleted locally, to be sent as deletions
    cursor, \* cursor[d]: the table's cursor on the device
    phase,  \* phase[d]: where the device's sync call stands
    reply   \* reply[d]: the response on its way to the device, or NoReply

serverVars == <<row, ver, tomb>>
deviceVars == <<regime, clock, local, dirty, gone, cursor>>
callVars   == <<phase, reply>>

Version == 0 .. MaxSeq
Stamp   == 1 .. MaxClock

\* A record's contents are told apart by who wrote it and when.
Record == [upd : Stamp, by : Device]

Reply   == [rows : [Key -> Record \cup {None}], dels : SUBSET Key, next : Version]
NoReply == [rows |-> [k \in Key |-> None], dels |-> {}, next |-> 0]

ASSUME NoneAssumption == None \notin Record

Agreed == regime = "agreed"

----------------------------------------------------------------------------
(* The server's handling of one request, as functions of a table state.    *)

\* fault: the WHERE clause is missing
WinsAlways(rec, old) == TRUE

\* INSERT ... ON CONFLICT DO UPDATE WHERE EXCLUDED.updated_at > updated_at
Wins(rec, old) == old = None \/ (old # None /\ rec.upd > old.upd)

\* The keys the upsert statement returns, and those the DELETE returns.
Written(d) == {k \in dirty[d] : Wins(local[d][k], row[k])}
Deleted(d) == {k \in gone[d] : row[k] # None}

\* The rows and tombstones past a cursor, without the request's own changes.
ListedRows(r, v, cur, wr) ==
    [k \in Key |-> IF r[k] # None /\ v[k] > cur /\ k \notin wr
                   THEN r[k] ELSE None]

ListedTombstones(t, cur, dl) == {k \in Key : t[k] > cur} \ dl

\* next is the largest of the request's cursor, the versions of the rows
\* returned and those of all tombstones past the cursor.
IsNextCursor(next, cur, rows, v, t) ==
    LET seen == {cur} \cup {v[k] : k \in {j \in Key : rows[j] # None}}
                      \cup {t[k] : k \in {j \in Key : t[j] > cur}}
    IN  next \in seen /\ \A n \in seen : n <= next

----------------------------------------------------------------------------
(* The devices.                                                            *)

Init ==
    /\ regime \in {"agreed", "skewed"}
    /\ row    = [k \in Key |-> None]
    /\ ver    = [k \in Key |-> 0]
    /\ tomb   = [k \in Key |-> 0]
    /\ clock  = 0
    /\ local  = [d \in Device |-> [k \in Key |-> None]]
    /\ dirty  = [d \in Device |-> {}]
    /\ gone   = [d \in Device |-> {}]
    /\ cursor = [d \in Device |-> 0]
    /\ phase  = [d \in Device |-> "idle"]
    /\ reply  = [d \in Device |-> NoReply]

\* The user creates or edits a record.
Edit(d, k) ==
    /\ phase[d] = "idle"
    /\ \E now \in IF Agreed THEN {clock + 1} ELSE Stamp :
        /\ now \in Stamp
        /\ clock' = IF Agreed THEN now ELSE clock
        /\ local' = [local EXCEPT ![d][k] = [upd |-> now, by |-> d]]
    /\ dirty' = [dirty EXCEPT ![d] = @ \cup {k}]
    /\ gone'  = [gone EXCEPT ![d] = @ \ {k}]
    /\ UNCHANGED <<regime, cursor, serverVars, callVars>>

\* The user deletes a record the device holds.
Remove(d, k) ==
    /\ phase[d] = "idle"
    /\ local[d][k] # None
    /\ local' = [local EXCEPT ![d][k] = None]
    /\ dirty' = [dirty EXCEPT ![d] = @ \ {k}]
    /\ gone'  = [gone EXCEPT ![d] = @ \cup {k}]
    /\ UNCHANGED <<regime, clock, cursor, serverVars, callVars>>

\* The app is installed afresh: it starts from an empty copy and cursor 0.
Reinstall(d) ==
    /\ phase[d] = "idle"
    /\ local'  = [local EXCEPT ![d] = [k \in Key |-> None]]
    /\ dirty'  = [dirty EXCEPT ![d] = {}]
    /\ gone'   = [gone EXCEPT ![d] = {}]
    /\ cursor' = [cursor EXCEPT ![d] = 0]
    /\ UNCHANGED <<regime, clock, serverVars, callVars>>

\* The device posts its cursor and every pending change, a retry included.
Send(d) ==
    /\ phase[d] = "idle"
    /\ phase' = [phase EXCEPT ![d] = "waiting"]
    /\ UNCHANGED <<reply, serverVars, deviceVars>>

\* The response arrives; the device applies it and then moves its cursor.
Receive(d) ==
    /\ phase[d] = "replied"
    /\ local'  = [local EXCEPT ![d] =
                    [k \in Key |->
                       IF k \in reply[d].dels THEN None
                       ELSE IF reply[d].rows[k] # None THEN reply[d].rows[k]
                       ELSE local[d][k]]]
    /\ dirty'  = [dirty EXCEPT ![d] = {}]
    /\ gone'   = [gone EXCEPT ![d] = {}]
    /\ cursor' = [cursor EXCEPT ![d] = reply[d].next]
    /\ phase'  = [phase EXCEPT ![d] = "idle"]
    /\ reply'  = [reply EXCEPT ![d] = NoReply]
    /\ UNCHANGED <<regime, clock, serverVars>>

\* The response is lost; the device keeps its cursor and pending changes.
Lose(d) ==
    /\ phase[d] = "replied"
    /\ phase' = [phase EXCEPT ![d] = "idle"]
    /\ reply' = [reply EXCEPT ![d] = NoReply]
    /\ UNCHANGED <<serverVars, deviceVars>>

\* A device that has synced past the tombstone, or holds nothing at all, does
\* not need it.
Outgrown(d, k) ==
    \/ tomb[k] <= cursor[d]
    \/ /\ phase[d] = "idle"
       /\ dirty[d] = {}
       /\ gone[d] = {}
       /\ cursor[d] = 0
       /\ \A j \in Key : local[d][j] = None

\* The cleanup job deletes a tombstone older than syncTombstoneRetention.
\* Under "agreed", every device syncs at least once within that time.
Cleanup(k) ==
    /\ tomb[k] # 0
    /\ Agreed => \A d \in Device : Outgrown(d, k)
    /\ tomb' = [tomb EXCEPT ![k] = 0]
    /\ UNCHANGED <<row, ver, deviceVars, callVars>>

DeviceStep(d) ==
    \/ \E k \in Key : Edit(d, k) \/ Remove(d, k)
    \/ Reinstall(d)
    \/ Send(d)
    \/ Receive(d)
    \/ Lose(d)

----------------------------------------------------------------------------
(* What replication promises.                                              *)

\* A record a device has no unsent change for either equals the server's, or
\* the difference lies past the device's cursor, so the next response carries
\* it.
EveryChangeAhead ==
    \A d \in Device, k \in Key :
        (k \notin dirty[d] \cup gone[d] /\ local[d][k] # row[k])
            => IF row[k] # None THEN ver[k] > cursor[d] ELSE tomb[k] > cursor[d]

\* When clocks agree and devices sync within tombstone retention, no row and no
\* deletion is ever skipped (Sync, and the cursor that the SyncXxx functions of
\* the repository compute).
NoSkippedChange == Agreed => EveryChangeAhead

\* No key has both a live row and a tombstone: a client that applies a response
\* never deletes the record it has just been given (clearTombstones).
LiveOrTombstoned == \A k \in Key : row[k] = None \/ tomb[k] = 0

\* Even when clocks disagree, the only live row a device can miss for good is
\* one that its own edit lost to on updated_at (the server keeps its copy and,
\* as the row is not past the cursor, does not return it).
OnlyOwnEditLost ==
    \A d \in Device, k \in Key :
        (/\ k \notin dirty[d] \cup gone[d]
         /\ row[k] # None /\ local[d][k] # row[k] /\ ver[k] <= cursor[d])
            => /\ local[d][k] # None
               /\ local[d][k].by = d
               /\ local[d][k].upd <= row[k].upd

\* Last writer wins: while a row lives, its updated_at never goes back, and a
\* row that changes gets a larger sync_version (the upserts' WHERE clause and
\* the set_sync_version trigger).
NewerWins ==
    \A k \in Key :
        (row[k] # None /\ row'[k] # None /\ row'[k] # row[k])
            => row'[k].upd > row[k].upd /\ ver'[k] > ver[k]

=============================================================================
