---------------------------- MODULE SyncCascade ----------------------------
(***************************************************************************)
(* POST /sync across all the tables of one user.                           *)
(*                                                                         *)
(* SyncTable shows that the requests of a user behave as if each one ran   *)
(* alone, so here a request is one step.  What is detailed instead is the  *)
(* work of that step: the tables are processed in a fixed order; upserts   *)
(* meet primary keys, UNIQUE constraints and foreign keys; deleting a mode *)
(* or a session makes the database delete the rows that refer to it while  *)
(* the code writes the tombstones it has collected for them; and the days  *)
(* whose rollups changed have their aggregates, and then the leaderboard   *)
(* entry, computed again.                                                  *)
(*                                                                         *)
(* Versions and cursors are left to SyncTable.  updated_at is not modelled *)
(* either: an upsert that meets an existing row may win or lose.           *)
(***************************************************************************)
EXTENDS Streaks, SequencesExt

CONSTANTS
    Device,     \* the user's installations of the app
    Request,    \* the requests a device may post: sequences of changes
    Day,        \* local days, numbered
    MaxInt,     \* the largest value of an INTEGER column
    Nothing     \* no request; no leaderboard entry

VARIABLES
    rows,    \* rows[t]: the rows of table t, a function from keys to contents
    agg,     \* streak_daily_aggregates, a function from days
    tomb,    \* tomb[t]: the keys of table t that have a tombstone
    board,   \* the user's leaderboard_metrics entry
    pending  \* pending[d]: the request d is posting until it succeeds

vars == <<rows, agg, tomb, board, pending>>

Modes  == "modes"
Apps   == "mode_blocked_apps"
Scheds == "schedules"
Sess   == "restriction_sessions"
Events == "restriction_lifecycle_events"
Chips  == "nfc_linked_chips"
Codes  == "qr_linked_codes"
Rolls  == "streak_session_daily_rollups"
Aggs   == "streak_daily_aggregates"

\* The tables a client writes.
Table == {Modes, Apps, Scheds, Sess, Events, Chips, Codes, Rolls}

----------------------------------------------------------------------------
(* Requests.  A change is a record with the table (t), the key, put (TRUE  *)
(* for an upsert) and the contents (val).                                  *)

\* The positions of the upserts of a table, and the keys of its deletions.
Puts(req, t) == {i \in DOMAIN req : req[i].t = t /\ req[i].put}
Dels(req, t) == {req[i].key : i \in {j \in DOMAIN req : req[j].t = t /\ ~req[j].put}}

\* What ValidateAndConvert lets through: no key twice in a table, neither as
\* two upserts nor as an upsert and a deletion (two deletions pass); no deletion
\* of an event; nothing for the aggregates; a rollup of a day, and of no less
\* than 0.
Valid(req) ==
    /\ req \in Seq(Range(req))
    /\ \A i, j \in DOMAIN req :
         i # j /\ req[i].put => req[i].t # req[j].t \/ req[i].key # req[j].key
    /\ \A i \in DOMAIN req :
         /\ req[i].t \in Table
         /\ req[i].t = Events => req[i].put
         /\ req[i].t = Rolls /\ req[i].put => req[i].key[2] \in Day /\ req[i].val \in Nat

ASSUME RequestAssumption ==
    /\ \A req \in Request : Valid(req)
    /\ Day \subseteq Int /\ MaxInt \in Nat
    /\ Nothing \notin [streak : Nat, total : Nat]

----------------------------------------------------------------------------
(* The schema: what a row refers to, and which values are UNIQUE.          *)

Parents(t, k, v) ==
    CASE t = Apps             -> {<<Modes, k[1]>>}
      [] t \in {Scheds, Sess} -> {<<Modes, v>>}
      [] t = Events           -> {<<Sess, v[1]>>, <<Modes, v[2]>>}
      [] t = Rolls            -> {<<Sess, k[1]>>}
      [] OTHER                -> {}

Live(db) == UNION {{<<t, k>> : k \in DOMAIN db[t]} : t \in Table}

Children(db, S) ==
    {x \in Live(db) : Parents(x[1], x[2], db[x[1]][x[2]]) \cap S # {}}

\* fault: the cascade stops at the sessions of a mode
DoomedShallow(db, S) == S \cup Children(db, S)

\* ON DELETE CASCADE: references go at most from an event or a rollup to a
\* session to a mode.
Doomed(db, S) ==
    LET c == Children(db, S) IN S \cup c \cup Children(db, c)

\* UNIQUE (user_id, mode_id), (user_id, chip_identifier), (user_id, scan_value)
Clashes(r, t, k, v) ==
    t \in {Scheds, Chips, Codes} /\ \E j \in DOMAIN r : j # k /\ r[j] = v

----------------------------------------------------------------------------
(* One table's part of a request.  A database (db) is a record of rows,    *)
(* tomb, the days to compute again, and whether all went well (ok).        *)

\* INSERT ... ON CONFLICT DO UPDATE ... WHERE: the upserts that write their
\* row.  Any that meet one may lose to it; of events, all of them do.
Written(req, t, r) ==
    LET met == {i \in Puts(req, t) : req[i].key \in DOMAIN r}
    IN  {Puts(req, t) \ lost : lost \in IF t = Events THEN {met} ELSE SUBSET met}

Keys(req, w) == {req[i].key : i \in w}

\* The rows of the table when the upserts at positions w have written theirs.
After(r, req, w) ==
    [k \in DOMAIN r \cup Keys(req, w) |->
       IF k \in Keys(req, w) THEN req[CHOOSE i \in w : req[i].key = k].val ELSE r[k]]

\* UNIQUE holds whenever a row of the statement is written.
Unique(req, t, r, w) ==
    \A i \in w : ~Clashes(After(r, req, {j \in w : j < i}), t, req[i].key, req[i].val)

\* Foreign keys are checked at the end of the statement.
Refers(db, t, r, written) ==
    \A k \in written : Parents(t, k, r[k]) \subseteq Live(db)

\* fault: an inserted record's tombstone is left in place
ApplyUpsertsKeepTombs(db, t, req, w) ==
    LET r == After(db.rows[t], req, w)
    IN  [rows |-> [db.rows EXCEPT ![t] = r],
         tomb |-> db.tomb,
         days |-> db.days,
         ok   |-> db.ok /\ Unique(req, t, db.rows[t], w) /\ Refers(db.rows, t, r, Keys(req, w))]

\* The upserts and clearTombstones, which is not called for events.
ApplyUpserts(db, t, req, w) ==
    LET r == After(db.rows[t], req, w)
    IN  [rows |-> [db.rows EXCEPT ![t] = r],
         tomb |-> [db.tomb EXCEPT ![t] = IF t = Events THEN @ ELSE @ \ Keys(req, w)],
         days |-> db.days,
         ok   |-> db.ok /\ Unique(req, t, db.rows[t], w) /\ Refers(db.rows, t, r, Keys(req, w))]

\* fault: the rollups of a deleted mode's sessions are not collected
CollectedShallow(db, S) == Children(db, S)

\* collectModeCascade and collectRestrictionSessionCascade: what refers to the
\* deleted rows, and the rollups of the sessions among it.
Collected(db, S) ==
    LET c == Children(db, S)
    IN  c \cup {x \in Children(db, c) : x[1] = Rolls}

Without(db, out) ==
    [t \in Table |-> [k \in {j \in DOMAIN db[t] : <<t, j>> \notin out} |-> db[t][k]]]

KeysIn(t, S) == {x[2] : x \in {y \in S : y[1] = t}}

\* fault: the dependents are collected after the DELETE has removed them
ApplyDeletionsCollectLate(db, t, keys) ==
    LET S    == {t} \X (keys \cap DOMAIN db.rows[t])
        left == Without(db.rows, Doomed(db.rows, S))
        also == Collected(left, S)
    IN  [rows |-> left,
         tomb |-> [u \in Table \cup {Aggs} |-> db.tomb[u] \cup KeysIn(u, S \cup also)],
         days |-> db.days \cup {k[2] : k \in KeysIn(Rolls, also)},
         ok   |-> db.ok]

\* The deletions: collect, DELETE, insertTombstones, the days of the rollups.
ApplyDeletions(db, t, keys) ==
    LET S    == {t} \X (keys \cap DOMAIN db.rows[t])
        also == Collected(db.rows, S)
    IN  [rows |-> Without(db.rows, Doomed(db.rows, S)),
         tomb |-> [u \in Table \cup {Aggs} |-> db.tomb[u] \cup KeysIn(u, S \cup also)],
         days |-> db.days \cup {k[2] : k \in KeysIn(Rolls, also)},
         ok   |-> db.ok]

\* The days that the rollups of a request name.
OwnDays(req) == {k[2] : k \in Keys(req, Puts(req, Rolls)) \cup Dels(req, Rolls)}

\* SyncModes, SyncModeBlockedApps, ..., SyncStreakSessionDailyRollups: what
\* may become of db.
SyncOne(db, t, req) ==
    {LET new == IF Dels(req, t) = {} THEN up ELSE ApplyDeletions(up, t, Dels(req, t))
     IN  [rows |-> new.rows, tomb |-> new.tomb, ok |-> new.ok,
          days |-> new.days \cup IF t = Rolls THEN OwnDays(req) ELSE {}] :
     up \in {ApplyUpserts(db, t, req, w) : w \in Written(req, t, db.rows[t])}}

\* Sync, table after table.
SyncTables(db, req) ==
    LET One(dbs, t) == UNION {SyncOne(d, t, req) : d \in dbs}
    IN  One(One(One(One(One(One(One(One({db}, Modes), Apps), Scheds), Sess),
            Events), Chips), Codes), Rolls)

----------------------------------------------------------------------------
(* Streaks.                                                                *)

RollupsOf(r, day) == [k \in {j \in DOMAIN r : j[2] = day} |-> r[k]]

\* The days that have rollups.
Days(r) == {k[2] : k \in DOMAIN r}

\* The aggregate of such a day.
Aggregate(r, day) ==
    LET rolls == RollupsOf(r, day)
        ms    == SumFunction(rolls)
    IN  [ms |-> ms, qualified |-> Qualified(ms),
         n |-> Cardinality({k[1] : k \in DOMAIN rolls})]

\* RecomputeStreakAggregates: a new aggregate clears no tombstone.  The sum is
\* a bigint that has to fit an INTEGER column.
Recompute(db) ==
    LET r    == db.rows[Rolls]
        full == db.days \cap Days(r)
        lost == (db.days \ full) \cap DOMAIN agg
    IN  [rows |-> db.rows,
         agg  |-> [day \in (DOMAIN agg \ lost) \cup full |->
                     IF day \in full THEN Aggregate(r, day) ELSE agg[day]],
         tomb |-> [db.tomb EXCEPT ![Aggs] = @ \cup lost],
         days |-> db.days,
         ok   |-> db.ok /\ \A day \in full : Aggregate(r, day).ms <= MaxInt]

\* RefreshLeaderboardMetrics: the current streak is the number of qualified
\* days after the last unqualified one, whether or not days are missing.
Metrics(a) ==
    [streak |-> Cardinality({day \in DOMAIN a :
                  \A e \in DOMAIN a : e >= day => a[e].qualified}),
     total  |-> SumFunction([day \in DOMAIN a |-> a[day].ms])]

----------------------------------------------------------------------------
(* The whole request.                                                      *)

\* The outcomes of a request on the committed database.
Outcomes(req) ==
    {IF db.days = {}
     THEN [rows |-> db.rows, agg |-> agg, tomb |-> db.tomb, days |-> {}, ok |-> db.ok]
     ELSE Recompute(db) :
     db \in SyncTables([rows |-> rows, tomb |-> tomb, days |-> {}, ok |-> TRUE], req)}

Init ==
    /\ rows    = [t \in Table |-> <<>>]
    /\ agg     = <<>>
    /\ tomb    = [t \in Table \cup {Aggs} |-> {}]
    /\ board   = Nothing
    /\ pending = [d \in Device |-> Nothing]

Post(d) ==
    /\ pending[d] = Nothing
    /\ \E req \in Request : pending' = [pending EXCEPT ![d] = req]
    /\ UNCHANGED <<rows, agg, tomb, board>>

\* fault: the leaderboard is refreshed before the aggregates are recomputed
ServeBoardFirst(d, heard) ==
    /\ pending[d] # Nothing
    /\ \E db \in Outcomes(pending[d]) :
         /\ db.ok
         /\ rows'  = db.rows
         /\ agg'   = db.agg
         /\ tomb'  = db.tomb
         /\ board' = IF db.days = {} THEN board ELSE Metrics(agg)
    /\ pending' = IF heard THEN [pending EXCEPT ![d] = Nothing] ELSE pending

\* The request commits; the response reaches the device (heard) or is lost, in
\* which case the device posts the same request again.
Serve(d, heard) ==
    /\ pending[d] # Nothing
    /\ \E db \in Outcomes(pending[d]) :
         /\ db.ok
         /\ rows'  = db.rows
         /\ agg'   = db.agg
         /\ tomb'  = db.tomb
         /\ board' = IF db.days = {} THEN board ELSE Metrics(db.agg)
    /\ pending' = IF heard THEN [pending EXCEPT ![d] = Nothing] ELSE pending

\* A constraint is violated: ROLLBACK, status 500, and the device tries again.
Refuse(d) ==
    /\ pending[d] # Nothing
    /\ \E db \in Outcomes(pending[d]) : ~db.ok
    /\ UNCHANGED vars

\* The cleanup job.
CleanupTombstones ==
    /\ \E t \in Table \cup {Aggs} : \E k \in tomb[t] :
         tomb' = [tomb EXCEPT ![t] = @ \ {k}]
    /\ UNCHANGED <<rows, agg, board, pending>>

Next ==
    \/ \E d \in Device :
         Post(d) \/ Refuse(d) \/ \E heard \in BOOLEAN : Serve(d, heard)
    \/ CleanupTombstones

Spec == Init /\ [][Next]_vars

\* A device keeps posting and not every response is lost: a request the database
\* would accept time and again is one day served, and the response heard.
FairSpec == Spec /\ \A d \in Device : SF_vars(Serve(d, TRUE))

----------------------------------------------------------------------------
(* What a request preserves.                                               *)

\* The tables are partial functions with their foreign keys and UNIQUE values
\* respected, and everything else has its type.
TypeOK ==
    /\ DOMAIN rows = Table
    /\ \A x \in Live(rows) :
         /\ Parents(x[1], x[2], rows[x[1]][x[2]]) \subseteq Live(rows)
         /\ ~Clashes(rows[x[1]], x[1], x[2], rows[x[1]][x[2]])
    /\ DOMAIN agg \subseteq Day
    /\ \A day \in DOMAIN agg :
         agg[day] \in [ms : 0 .. MaxInt, qualified : BOOLEAN, n : Nat]
    /\ DOMAIN tomb = Table \cup {Aggs} /\ tomb[Aggs] \subseteq Day
    /\ board = Nothing \/ board \in [streak : Nat, total : Nat]
    /\ pending \in [Device -> Request \cup {Nothing}]

\* The aggregates are always what the committed rollups add up to, however the
\* rollups came to change: written, deleted, or gone with their session or its
\* mode (Sync collects the affected days for RecomputeStreakAggregates).
AggregatesMatchRollups ==
    agg = [day \in Days(rows[Rolls]) |-> Aggregate(rows[Rolls], day)]

\* The leaderboard entry always agrees with the aggregates (Sync refreshes it
\* after they are computed again, in the same transaction).
BoardCurrent == IF board = Nothing THEN agg = <<>> ELSE board = Metrics(agg)

\* In the tables a client may delete from, no key is live and tombstoned: not
\* even when it is deleted by a cascade and written again in one request
\* (clearTombstones).
NeverBoth == \A t \in Table \ {Events} : DOMAIN rows[t] \cap tomb[t] = {}

\* A row that disappears, by a deletion, a cascade or an orphaned day, leaves a
\* tombstone, so that other devices learn of it.  The one exception is an event
\* that names another mode than its session does: collectModeCascade finds
\* events by their own mode_id, the database deletes them by either.
TombstoneLeft ==
    /\ \A x \in Live(rows) \ Live(rows') :
         \/ x[2] \in tomb'[x[1]]
         \/ /\ x[1] = Events
            /\ LET ev == rows[Events][x[2]] IN rows[Sess][ev[1]] # ev[2]
    /\ DOMAIN agg \ DOMAIN agg' \subseteq tomb'[Aggs]

\* A tombstone appears only where something was, and has gone.  Where the two
\* tables that do not clear tombstones have both, the row came back later: an
\* event perhaps in the request that deletes its mode, an aggregate never.
TombstoneDue ==
    /\ \A t \in Table : \A k \in tomb'[t] \ tomb[t] :
         LET again == \E d \in Device : pending[d] # Nothing /\ \E c \in ToSet(pending[d]) :
                         c.t = t /\ c.key = k /\ c.put
         IN  /\ k \in DOMAIN rows[t] \/ again
             /\ k \in DOMAIN rows'[t] => t = Events /\ again
    /\ tomb'[Aggs] \ tomb[Aggs] \subseteq DOMAIN agg \ DOMAIN agg'

\* What is deleted is announced, and nothing else is (SyncModes to
\* RecomputeStreakAggregates).
TombstonesMatchDeletions == [][TombstoneLeft /\ TombstoneDue]_vars

----------------------------------------------------------------------------
(* What a document says and the code does not do.                          *)

\* "The client should retry failed replication requests with the same cursor
\* and payload until one succeeds" (BACKEND_SPEC.md 4.8): if the first attempt
\* of a request is lost that the server would have accepted, a later one does.
RetrySucceeds ==
    \A d \in Device :
        (pending[d] # Nothing /\ \A db \in Outcomes(pending[d]) : db.ok)
            ~> pending[d] = Nothing

=============================================================================
