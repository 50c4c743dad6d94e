------------------------------ MODULE Accounts ------------------------------
(***************************************************************************)
(* What an account's row in users carries beside its sessions: the         *)
(* username, the leaderboard's opt-out and the emergency stops used; with  *)
(* the daily aggregates of the user's focus time and the metrics that are  *)
(* kept from them.  The leaderboards and a friend's statistics are queries *)
(* of that state: the first reads the metrics that SQL has computed, the   *)
(* second computes the same in Go from the aggregates.                     *)
(***************************************************************************)
EXTENDS Streaks, SequencesExt

CONSTANTS
    User,
    Name,         \* usernames in lower case, as numbers in their order
    Handler,      \* calls of UseEmergencyStop
    None,
    MaxStops,     \* maxEmergencyStops
    RecentDays,   \* the 90 days whose aggregates the statistics read
    MaxDay,       \* bound: local days are 1..MaxDay
    MaxMs         \* bound: a day's effective_ms is in 1..MaxMs

ASSUME AccountsAssumption ==
    /\ None \notin User \cup Handler
    /\ Name \subseteq Nat
    /\ {MaxStops, RecentDays, MaxDay, MaxMs} \subseteq Nat
    /\ IsFiniteSet(User)

VARIABLES
    username,  \* username[u]: unique without regard to case
    visible,   \* leaderboard_visible
    used,      \* used[u]: emergency_stops_used
    locked,    \* locked[u]: the handler whose transaction has u's row, or None
    read,      \* read[h]: <<user, used>> of h's SELECT, or None
    answers,   \* answers[u]: the remaining count that each used stop answered, or None
    aggs,      \* aggs[u][d]: effective_ms of the aggregate, 0 without a row
    metrics    \* metrics[u]: the row of leaderboard_metrics

profileVars == <<username, visible>>
stopVars    == <<used, locked, read, answers>>
focusVars   == <<aggs, metrics>>
accountVars == <<profileVars, stopVars, focusVars>>

AccountsInit ==
    /\ username \in {f \in [User -> Name] : IsInjective(f)}
    /\ visible = [u \in User |-> TRUE]
    /\ used    = [u \in User |-> 0]
    /\ locked  = [u \in User |-> None]
    /\ read    = [h \in Handler |-> None]
    /\ answers = [u \in User |-> <<>>]
    /\ aggs    = [u \in User |-> [d \in 1..MaxDay |-> 0]]
    /\ metrics = [u \in User |-> [streak |-> 0, focus |-> 0]]

----------------------------------------------------------------------------
(* The profile.  Each call is one UPDATE, which waits for the row.          *)

\* IsUsernameTaken, and what the unique index refuses.
Taken(n, u) == \E v \in User \ {u} : username[v] = n

UpdateMe(u, n) ==
    /\ locked[u] = None
    /\ ~Taken(n, u)
    /\ username' = [username EXCEPT ![u] = n]
    /\ UNCHANGED <<visible, stopVars, focusVars>>

UpdatePrivacyPreferences(u, shown) ==
    /\ locked[u] = None
    /\ visible' = [visible EXCEPT ![u] = shown]
    /\ UNCHANGED <<username, stopVars, focusVars>>

----------------------------------------------------------------------------
(* UseEmergencyStop: BEGIN, SELECT ... FOR UPDATE, UPDATE, COMMIT.          *)

\* fault: GetEmergencyStopsUsed, which takes no lock
LockRowNot(h, u) == UNCHANGED locked

LockRow(h, u) ==
    /\ locked[u] = None
    /\ locked' = [locked EXCEPT ![u] = h]

\* GetEmergencyStopsUsedForUpdate.  With no stop left the call is refused and
\* its transaction rolled back at once.
ReadStops(h, u) ==
    /\ read[h] = None
    /\ used[u] < MaxStops
    /\ LockRow(h, u)
    /\ read' = [read EXCEPT ![h] = <<u, used[u]>>]
    /\ UNCHANGED <<profileVars, used, answers, focusVars>>

Unlock(h) ==
    /\ locked' = [u \in User |-> IF locked[u] = h THEN None ELSE locked[u]]
    /\ read'   = [read EXCEPT ![h] = None]

\* IncrementEmergencyStopsUsed and a COMMIT that is applied.
CommitStop(h, said) ==
    /\ read[h] # None
    /\ LET u == read[h][1]
       IN  /\ used'    = [used EXCEPT ![u] = @ + 1]
           /\ answers' = [answers EXCEPT ![u] = Append(@, said)]
    /\ Unlock(h)
    /\ UNCHANGED <<profileVars, focusVars>>

\* The answer is computed from what the SELECT has read.
GrantStop(h) == CommitStop(h, MaxStops - (read[h][2] + 1))

\* The COMMIT is applied, but its reply is lost or the context is cancelled: an
\* internal error.
CommitUnanswered(h) == CommitStop(h, None)

\* A statement fails, or the COMMIT without being applied.
FailStop(h) ==
    /\ read[h] # None
    /\ Unlock(h)
    /\ UNCHANGED <<profileVars, used, answers, focusVars>>

----------------------------------------------------------------------------
(* The metrics that a sync keeps.                                          *)

\* ORDER BY, where no two are level: before holds the pairs in order.
OrderBy(S, before) ==
    CHOOSE s \in [1..Cardinality(S) -> S] :
        \A i, j \in DOMAIN s : i < j => <<s[i], s[j]>> \in before

\* A user's aggregates ORDER BY local_day DESC.
NewestFirst(days) ==
    LET held == {d \in 1..MaxDay : days[d] > 0}
        at   == OrderBy(held, {p \in held \X held : p[1] > p[2]})
    IN  [i \in DOMAIN at |-> days[at[i]]]

Total(rows) == FoldSeq(+, 0, rows)

\* fault: the rows that qualify, whatever came between them
QualifiedRows(rows) == {i \in DOMAIN rows : Qualified(rows[i])}

\* The rows whose break_count is 0 and that qualify.
UnbrokenRows(rows) ==
    {i \in DOMAIN rows : \A j \in 1..i : Qualified(rows[j])}

\* The streak that RefreshLeaderboardMetrics counts.
SqlStreak(rows) == Cardinality(UnbrokenRows(rows))

RefreshLeaderboardMetrics(u, days) ==
    LET rows == NewestFirst(days)
    IN  metrics' = [metrics EXCEPT
                      ![u] = [streak |-> SqlStreak(rows),
                              focus  |-> Total(rows)]]

\* A sync of u, which locks the row too, leaves day d with ms of focus time
\* (0: without an aggregate) and refreshes the metrics before it commits.
SyncDay(u, d, ms) ==
    /\ locked[u] = None
    /\ aggs' = [aggs EXCEPT ![u][d] = ms]
    /\ RefreshLeaderboardMetrics(u, aggs'[u])
    /\ UNCHANGED <<profileVars, stopVars>>

----------------------------------------------------------------------------
(* The leaderboards: each query sees one committed state.                  *)

\* What buildLeaderboard ranks by.
Metric == {"streak", "focus"}

\* ORDER BY the metric DESC, u.username ASC.
Ahead(m, u, v) ==
    \/ metrics[u][m] > metrics[v][m]
    \/ metrics[u][m] = metrics[v][m] /\ username[u] < username[v]

\* The users for whom leaderboard_visible.
Visible == {u \in User : visible[u]}

\* ROW_NUMBER() numbers the users in this order.
Ranked(m, us) == OrderBy(us, {p \in us \X us : Ahead(m, p[1], p[2])})

\* fault: pages are counted from 0
OffsetFromZero(page, limit) == page * limit

Offset(page, limit) == (page - 1) * limit

\* ListLeaderboardEntries: LIMIT and OFFSET of the visible users.
ListLeaderboardEntries(m, page, limit) ==
    LET last == Offset(page, limit) + limit
        all  == Ranked(m, Visible)
    IN  SubSeq(all, Offset(page, limit) + 1, Min({last, Len(all)}))

\* WHERE u.leaderboard_visible = true OR u.id = $1
RankedWith(u) == Visible \cup {u}

GetLeaderboardRank(m, u) ==
    LET all == Ranked(m, RankedWith(u))
    IN  CHOOSE i \in DOMAIN all : all[i] = u

----------------------------------------------------------------------------
(* The statistics that a friend sees, as computed in Go.                    *)

\* LoadRecentDailyAggregates; the handler caps the days it asks for at 90.
RecentAggregates(u) ==
    LET rows == NewestFirst(aggs[u])
    IN  SubSeq(rows, 1, Min({RecentDays, Len(rows)}))

\* The loop that stops at the first day that does not qualify.
ConsecutiveQualified(rows) ==
    FoldLeft(LAMBDA c, ms : IF c.broken \/ ~Qualified(ms)
                            THEN [c EXCEPT !.broken = TRUE]
                            ELSE [c EXCEPT !.count = @ + 1],
             [count |-> 0, broken |-> FALSE], rows).count

\* The loop from the oldest day to the newest.
LongestQualified(rows) ==
    FoldRight(LAMBDA ms, c :
                LET current == IF Qualified(ms) THEN c.current + 1 ELSE 0
                IN  [current |-> current,
                     longest |-> Max({current, c.longest})],
              rows, [current |-> 0, longest |-> 0]).longest

\* loadStatsForUser, when nothing is written between its queries.
Stats(u) ==
    LET rows == NewestFirst(aggs[u])
    IN  [current |-> ConsecutiveQualified(RecentAggregates(u)),
         longest |-> LongestQualified(rows),
         total   |-> Total(rows)]

----------------------------------------------------------------------------
AccountsNext ==
    \/ \E u \in User, n \in Name : UpdateMe(u, n)
    \/ \E u \in User, shown \in BOOLEAN : UpdatePrivacyPreferences(u, shown)
    \/ \E h \in Handler, u \in User : ReadStops(h, u)
    \/ \E h \in Handler : GrantStop(h) \/ CommitUnanswered(h) \/ FailStop(h)
    \/ \E u \in User, d \in 1..MaxDay, ms \in 0..MaxMs : SyncDay(u, d, ms)

AccountsSpec == AccountsInit /\ [][AccountsNext]_accountVars

----------------------------------------------------------------------------
(* Every stop used up is counted once, and none beyond the last, however the *)
(* calls overlap and whichever of them fail; the granted ones answer, in     *)
(* order, how many remained, so no two calls are told the same number.  A    *)
(* stop whose COMMIT is applied and reported as failed is used up without    *)
(* an answer: only those numbers are missing (UseEmergencyStop).             *)
EachStopCounted ==
    \A u \in User :
        /\ used[u] <= MaxStops
        /\ Len(answers[u]) = used[u]
        /\ \A i \in 1..used[u] : answers[u][i] \in {MaxStops - i, None}

(* Turning the pages shows each visible user once and nobody else, the user  *)
(* on row r of them with r as the rank that the user's own request answers;  *)
(* and a user who has opted out is told a rank with as many visible users    *)
(* ahead (ListLeaderboardEntries and GetLeaderboardRank, two queries).       *)
RanksAgree ==
    \A m \in Metric, limit \in 1..Cardinality(User) :
        LET pages == FlattenSeq([p \in 1..Cardinality(User) |->
                                   ListLeaderboardEntries(m, p, limit)])
            rank  == [u \in User |-> GetLeaderboardRank(m, u)]
        IN  /\ ToSet(pages) = Visible
            /\ \A r \in DOMAIN pages : rank[pages[r]] = r
            /\ \A u \in User :
                 rank[u] = 1 + Cardinality({v \in Visible : Ahead(m, v, u)})

(* The statistics that a friend sees and the leaderboard agree on a user's   *)
(* total, and on the streak as long as it lies within the days that Go       *)
(* reads; of a longer one the friend sees only those days, where the board   *)
(* shows all of it.  The longest streak is not cut: it is no shorter than    *)
(* the board's, and is a stretch of qualified days that cannot be extended   *)
(* (loadStatsForUser and RefreshLeaderboardMetrics).                         *)
StatsAgreeUpToRecentDays ==
    \A u \in User :
        LET rows    == NewestFirst(aggs[u])
            streak  == metrics[u].streak
            longest == Stats(u).longest
            Stretch(n) == \E i \in 0..(Len(rows) - n) :
                            \A j \in 1..n : Qualified(rows[i + j])
        IN  /\ streak <= RecentDays => Stats(u).current = streak
            /\ streak > RecentDays => Stats(u).current = RecentDays
            /\ Stats(u).total = metrics[u].focus
            /\ longest >= streak
            /\ longest <= Len(rows)
            /\ Stretch(longest)
            /\ ~ Stretch(longest + 1)

=============================================================================
