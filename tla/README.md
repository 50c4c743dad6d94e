# A TLA+ model of the Pauza server

`pauza-server` is the Go backend of the Pauza focus app: devices replicate their
modes, sessions and focus time to it, users sign in by one-time passwords, a
RevenueCat webhook tells it who has paid, and friends compare streaks. It is a
set of stateless HTTP handlers over PostgreSQL, with Redis for rate limits and
Firebase for push. All that is hard about it happens between two SQL
statements: handlers of one user run at the same time, on several instances,
READ COMMITTED, and what keeps them apart is a row lock, a UNIQUE index, the
WHERE clause of an UPDATE, or nothing.

This directory models those handlers statement by statement, checks them with
TLC on small instances, and proves with TLAPS, for instances of every size, the
safety of each part: replication statement by statement and across the tables,
sessions and access tokens, one-time passwords, entitlements and the views of
who has premium, the rate limiter and the process around it, friends and push,
emergency stops.

## The system

| Component | State it keeps | Operations | What makes it correct |
|---|---|---|---|
| Replication (`internal/service/sync.go`, `internal/repository/sync.go`, `internal/syncmodel`) | nine tables of one user's rows, each row with a `sync_version` from one sequence; `sync_tombstones`; on the devices, local rows, pending changes and a cursor per table | `POST /sync`: one transaction under `FOR UPDATE` of the users row; per table upserts, deletions with their cascades, then the rows and tombstones past the cursor; the cleanup of tombstones after 90 days | no device ever skips a change; a record is never live and deleted; an older edit never replaces a newer one; what is derived from the rows (aggregates, leaderboard) is derived from the rows there are |
| Sessions (`internal/service/auth_*.go`, `internal/repository/auth.go`) | users, `auth_sessions`, `refresh_tokens` | sign-in, refresh with rotation and reuse detection, logout, account deletion, cleanup | one active session per user, one live token per session, a token presented twice ends its session, no request waits for ever |
| Access tokens (`internal/middleware/auth.go`, `internal/auth/jwt.go`, `internal/server/modules.go`) | none: a signed copy of ids | per request, check the claims and look the session up | a session that is over lets nobody in, although its tokens have not expired |
| One-time passwords (`createChallenge`, `verifyChallenge`) | `otp_codes`, `otp_failed_attempts` | create and mail a code, verify one, cleanup | at most three attempts, at most one usable code, a code accepted once, no code outlives the account it would delete, no request waits for ever |
| Entitlements (`internal/service/webhook.go`, `admin.go`) | `user_entitlements`, `admin_entitlement_overrides`; at RevenueCat, customers, subscriptions, undelivered events | the webhook: resolve ids, fetch, check overrides, upsert, per id and user; overrides by an administrator | when RevenueCat has no more to deliver, the snapshot is what RevenueCat has; it does stop delivering |
| Views of premium (`internal/repository/entitlement_sql.go`, `social.go`, `admin.go`) | none: five queries | the gate of friends and AI features; the administrators' lists, pages and count | they give one answer |
| Rate limiting (`internal/ratelimit`) | one sorted set per key in Redis | `Allow`, with the caller's clock, in a Lua script | nobody refused unless the limit was counted (a request counted by an attempt whose reply was lost counts against itself); a bound on what is counted in a window |
| Friends and push (`internal/service/social.go`, `internal/push`) | `friendships`, `device_tokens`; at Firebase, the tokens installed | ask, accept, decline, cancel, remove; register and unregister a device; send a notification and drop the tokens that were rejected | one friendship per pair, one answer per request, both users shown the same, no registered device dropped |
| Accounts, emergency stops, leaderboards (`auth_profile.go`, `emergency.go`, `repository/social.go`) | the other columns of users, `streak_daily_aggregates`, `leaderboard_metrics` | update profile, use a stop, the leaderboard's queries, a friend's statistics | three stops are three stops, a commit reported as failed included; ranks and pages agree with each other, and so do streaks up to the days that a friend's page reads |
| Cleanup job (`internal/database/cleanup.go`) | none of its own | deletes expired codes, attempts, tokens, sessions, tombstones; stops when told | it never deletes what someone still needs |
| Process (`cmd/server/main.go`, `internal/server`) | goroutines, the Redis client, the connection pool | start, stop, drain, close | a shutdown ends, and closes nothing that is in use |

The components interact through the database. Every request that writes for a
user meets the others at that user's row in users, explicitly (`Sync`,
`ConfirmAccountDeletion`, `UseEmergencyStop`, the second sign-in) or through a
foreign key (inserting a session, a token or a code waits for the row's
deletion). Account deletion cascades into all the tables. The OTP transaction
*is* the transaction of the sign-in or deletion it authorises: `Otp` and
`AccountDeletion` model it up to the right code, `AuthSession` from there. A sync ends by recomputing the
aggregates and metrics that the leaderboards of `Accounts` read.

What is hard here, and where it is listed line by line in `PROJECT.json`
(`hazards`): transactions that take versions in one order and commit in
another; lost responses and retries with old cursors; cascades that tombstones
must follow; refresh racing with sign-in, logout and reuse; a deadlock of row
locks; codes created twice; a webhook whose fetch and write are far apart;
scripts that run out of the order of their timestamps, or once more after their
reply was lost; a commit that is applied and reported as failed; device tokens that
change hands during a call to Firebase; access tokens that outlive their sessions; what
is closed while something still runs.

## The modules

Each module's actions carry the name of the function or statement they model,
and `PROJECT.json` (`map`) gives the lines. A transaction's statements are
separate actions when another transaction can come between them and change what
they see; consecutive statements under a lock that nobody else can get past are
one action. A failed statement, a cancelled context and a crash of the process
are all a ROLLBACK, hence one action (`Fail`).

### Replication

- `Replica`: what the next two share. Its state is the table (`row`, `ver`,
  `tomb`) and the devices (`local`, `dirty`, `gone`, `cursor`), with `phase` and
  `reply` for the request under way. It has the devices' steps (`Edit`, `Remove`,
  `Reinstall`, `Send`, `Receive`, `Lose`), what the SQL computes (`Wins`,
  `Written`, `ListedRows`, `IsNextCursor`, ...) and the cleanup of tombstones.
  The devices are not part of this repository; they do what the protocol in
  BACKEND_SPEC.md asks of them. The variable `regime` never changes: in a
  behaviour that is `"agreed"` the devices' clocks agree and every device syncs
  within tombstone retention, in a `"skewed"` one neither is assumed.
- `ReplicaAtomic`: the abstract server. A request is one step (`Serve`), with any
  increasing versions.
- `SyncTable`: the server as it is. A request is `Begin` (BEGIN and the lock on
  the users row), `ApplyUpserts`, `ApplyDeletions`, `ListRows`, `ListTombstones`,
  `Commit`, and may fail in between. Versions come from a sequence that no
  rollback returns; every statement reads what is committed at that moment and
  the transaction's own writes.
- `SyncCascade`: one request over all nine tables as one step (that this is
  allowed is what `SyncTable` shows), with what `SyncTable` leaves out: foreign
  keys, ON DELETE CASCADE, UNIQUE values, the order of the tables, the cascades
  that are collected before a deletion, aggregates and leaderboard entry. Inside
  that step a request is the chain of its statements, each of which maps a
  database to the set of what may become of it (`SyncOne`, `SyncTables`): an
  upsert that meets a row may win or lose, since times are `SyncTable`'s. A
  request that violates a constraint is refused as a whole.

### Accounts

- `AuthSession`: one email address; `user`, `sess`, `tok` are the rows, `pc`,
  `req` and `hold` the requests in flight. Locks are those that PostgreSQL takes:
  `FOR UPDATE` of users and refresh_tokens, the share lock of a foreign key, the
  rows an UPDATE has changed. They follow from where a request stands.
- `AccessToken` (extends `AuthSession`): requests that carry an access token, in
  three steps: claims (`Authenticate`), the session's row (`ValidateSession`), the
  handler. `told` remembers which sessions an answer has said to be over: the
  answers of logout, of a sign-in elsewhere, of the deletion of the account and of
  a refresh that detects reuse.
- `Otp`: one email and purpose. Rows of `otp_codes` with the transaction that
  holds each, and the count of failed attempts in the last ten minutes. A DELETE
  and a SELECT FOR UPDATE find their rows, wait for their locks one by one and
  look at them again, as READ COMMITTED does.
- `AccountDeletion` (extends `Otp`): the same for codes that confirm the deletion
  of an account, with the users row: `RequestAccountDeletion` locks codes and then
  needs that row, `ConfirmAccountDeletion` locks them the other way round. The
  variable `purpose` never changes; with `"auth_login"` it is `Otp` alone.
- `Entitlements`: RevenueCat (`customer`, `sub`, what is `outstanding`) beside
  the two tables and the handlers' `call`.
- `PremiumViews` (extends `Entitlements`): every query that asks who has premium,
  as an operator on the state.
- `RateLimiter`: the sorted set, as a set of members that have a score and the
  caller they are of, its key's expiry, and the callers' clocks, read before the
  script runs. go-redis sends a script whose reply it has not seen again, with the
  same member (three times by default; the model does not count). The variable
  `adrift` holds the members whose script may still run with nobody waiting for
  it: `Lose` adds one, `Late` runs its script, and meanwhile the call goes on
  with another attempt (`Admit`, `Refuse`) or gives up (`FailOpen`), counted or
  not. `counted` are the members a script found room for.
- `Server` (extends `RateLimiter`): one process around the limiter. `main` is how
  far `main()` has come, `open` what can be used, `busy` the requests in their
  handlers, `job` the cleanup goroutine and `stray` the goroutine that
  `createChallenge` leaves behind when a mail fails. A process can be killed
  anywhere and starts again; what the limiter remembers is in Redis, where a script
  of a killed process may still run.
- `Social`: friendships, device tokens and the notifications in flight; the lists
  that users are shown are operators on the state. `PushDisabled` is a free choice,
  since the preference is read there and nowhere else.
- `Accounts`: the remaining columns of users, the transactions of
  `UseEmergencyStop` (whose COMMIT is answered, applied without an answer, or
  rolled back), and the leaderboards and statistics as operators on the
  state; the SQL window function and the two loops in Go are translated
  separately and compared.
- `Streaks`: when a day's focus time counts towards a streak, which `SyncCascade`
  and `Accounts` share.

### Composition

`SyncTable` implements `ReplicaAtomic` (proved: `Serialisability`):
`Serialisable` is its specification, under the refinement mapping that shows a
transaction in progress as a request that waits. `AccessToken` implements `AuthSession` (proved: `ImplementsAuthSession`)
and runs its transactions beside the requests; `AccountDeletion` puts `Otp` and
the users row together, `Server` the process and the limiter, `PremiumViews` the
queries and the tables the webhook writes. `SyncCascade` takes its atomicity from
`Serialisable`, and `Accounts` takes from `SyncCascade` that metrics and
aggregates change in one step (`BoardCurrent`). The modules named `..._proofs`
extend theirs with theorems: `AuthSession_proofs` covers `AccessToken`,
`AccountDeletion_proofs` `Otp`, `Entitlements_proofs` `PremiumViews`,
`Server_proofs` `RateLimiter`, and `SyncCascade_proofs` `Accounts`, whose
metrics it computes. The MC modules add symmetry, and where needed a
bound on the state (`MCSyncTable`, `MCAccounts`, `MCAuthSession`), a rule which of
the interchangeable unused ids a request gets (`MCAuthSession`) or a list of
requests (`MCSyncCascade`).

## What is checked

| Run | Question | Distinct states |
|---|---|---|
| `sync_table` | two devices, two rows: are requests serialisable, do cursors skip nothing, what happens when clocks disagree | 489,915 |
| `sync_cascade` | rows of all tables written, deleted, cascaded, retried, lost | 153,690 |
| `sync_cascade_retry` | *does a retried request ever succeed?* no, for ever | 112 |
| `auth_session` | two transactions at a time, two sign-ins, three refresh tokens, a request with an access token | 172,130 |
| `otp` | one request for a code at a time, three in all, two verifications, for both purposes | 117,164 |
| `otp_two_starts` | *are attempts bounded with two requests for a code at once?* no | 256,630 so far |
| `entitlements` | one delivery at a time with faults, transfers, overrides; the views of each state | 758,672 |
| `entitlements_two_handlers` | *do two deliveries at once converge?* no, within 13 steps | 79,307 so far |
| `rate_limiter` | a process that starts, stops and crashes, two callers that wait for Redis, scripts that are lost, sent again and late | 1,020,284 |
| `rate_limiter_window` | *is it a sliding window?* no, within 13 steps | 2,488 so far |
| `social` | requests both ways, answers, devices changing hands | 744,073 |
| `accounts` | stops, names, visibility and focus time of two users | 18,240 |

**`sync_table`.** `Serialisable` is the refinement. `NoSkippedChange` says that a
record for which a device has nothing pending equals the server's or differs by
a change whose version is past the device's cursor; it is what the lock on the
users row is for, and fails as soon as that lock is dropped. `OnlyOwnEditLost`
says what remains when clocks disagree: a live row a device can miss for good is
one its own, older edit lost to. `NewerWinsAlways` is last-writer-wins and the
growth of versions. `TypeOK` says besides the types that a user's transactions do
not overlap.

**`sync_cascade`.** `AggregatesMatchRollups`: whichever way rollups come and go,
the aggregates are their sums. `TombstonesMatchDeletions`: whatever disappears
leaves a tombstone, and a tombstone appears only where something has gone.
`NeverBoth`: nothing is announced as deleted that is there. `BoardCurrent`: the
leaderboard entry is that of the aggregates.

**`auth_session`.** `SingleActiveSession`, `NothingOrphaned`; `OneLiveToken`, for
which two requests refresh one live token at the same time, or refresh it while a
sign-in issues its own (three tokens; without the lock on the token's row it
fails);
`ReusedTokenEndsSession`: when a token has been presented twice, by its owner and
by someone else, its session ends, whichever came first; `RequestsEnd`: every request ends,
although a refresh and an account deletion can deadlock. `EndedSessionRefused`:
once somebody has been told that a session is over, no request that comes in with
one of its access tokens gets in; one that came in before may still do so, since
`ValidateSession` is one statement outside the transactions. This is what the
code does and more than BACKEND_SPEC.md asks for (item 16 below). `AccessIInv` is the
inductive invariant, checked here because it is proved.

**`otp`.** `AttemptsBounded`, `OneActiveOTP`, `AcceptedOnce`;
`DeletedOnlyWhenDue`: a row goes only by a later request, the cleanup job, with
its account, or because its own mail failed; `ChallengesEnd`: every request and
every verification ends, although the request for a deletion and its confirmation
can deadlock. `DeletionTypeOK` says besides the types that no code outlives the
account it would delete.

**`entitlements`.** `SnapshotCurrent`: when nothing is left to deliver, users who
depend on their snapshot have what RevenueCat has. `Settles`: in the end nothing
is left to deliver. `ViewsAgree`: the gate, the list of users, a user's page, the
count and the list of entitlements say the same of every user.

**`rate_limiter`.** `NothingRunsOnClosed`: no request meets a closed Redis, where
the limiter would let it through uncounted, or a closed pool, and neither does the
cleanup job. `ShutdownEnds`: a process that is told to stop does, although
handlers need not return. `RefusedOnlyWhenFull`: a refusal is due to `Limit` other
requests counted in the window, or to one less if an attempt of the refused request
whose reply was lost has put its own member into the log, which the next attempt
then counts (item 18 below). `LessThanTwice`: fewer than twice the limit are counted
in a window. A request that fails open without being counted is outside both.

**`social`.** `OneFriendshipPerPair`, `OneAnswer`: a request is answered by one of
accept, decline and cancel, and removed at most once; `FriendListsAgree`: what two
users are shown is the same friendship from both sides, in one list, and the total
counts what the pages show; `OnlyDeadTokensDropped`: a push drops only tokens that
Firebase no longer accepts.

**`accounts`.** `EachStopCounted`: no more stops are used than there are, and the
i-th that is used answers that `MaxStops - i` remain, or nothing if its COMMIT is
reported as failed. `RanksAgree`: turning the pages shows every visible user once,
in the ranks that users are told of themselves. `StatsAgreeUpToRecentDays`: Go's
loop and SQL's window function count the same current streak as long as it lies
within the days that Go reads (90 in the code); of a longer one Go counts those days
and SQL all of it, so that the two differ (item 7 below). The longest streak and
the total are not cut.

### Bounds, and why they are enough

- `sync_table`: two devices and two rows are what a skipped change takes (one
  device commits versions around the other's cursor). The sequence gives out
  three or four versions (`MaxSeq`, `MaxSeqAgreed`): two for one transaction,
  one for the other, and one more for a rollback or a deletion. `MaxClock` is two
  edits. In the skewed regime one row is in use at a time, since the two rows
  interact through the cursor only.
- `sync_cascade`: each scenario has all requests of one or two of its changes:
  every pair of tables with a foreign key, a UNIQUE value or an aggregate
  between them, and two deletions of one key. One device, since a request is one
  step and cursors are `SyncTable`'s; the retried and the lost request are there.
  `MaxInt` is 3 so that a sum can exceed an INTEGER column.
- `auth_session`: two transactions at a time, two sessions, three tokens, one
  request with an access token: two refreshes of one live token take that token
  and an id set aside by each, and a session that ends needs one transaction, while
  the other may be in between. A request gets the first unused id, since unused ids
  are interchangeable (`MCFirstFree`). While all three tokens are in use no session
  lapses and no access token is checked (`MCConstraint`); with fewer in use both
  happen. The safety properties also hold without that bound (1,570,960 states).
- `otp`: three requests for a code, an attempt limit of 2 (3 in the code and in
  `otp_two_starts`): two verifications at once are what passing a limit takes. One
  request for a code runs at a time, since two break the limit (`otp_two_starts`).
- `entitlements`: two users, one anonymous id, two changes, one fault, one
  override; it also held with two overrides (1,977,830).
- `rate_limiter`: limit 2 and windows of 3 in 5 units of time, delays of at most 1,
  one lost script at a time that may still run (`MaxLost`), which may run twice. With
  two callers and a limit of 2, a caller's own member can be the one that fills the
  log. Attempts are not counted: any number of them within the delay. The delay
  matters: scripts that run late shorten the stretch of time in which fewer than
  twice the limit pass, by twice what the delay exceeds one unit (`Span`; no
  shortening here). That is proved for every delay below the window; with delays of
  2 in a window of 3 the full window would not do. One process, one goroutine left
  behind at a time: main waits for all requests alike and for none of the others.
- `rate_limiter_window`: no delays, so that what it shows is due to the key's expiry
  alone, and 12 units of time, of which the counterexample takes a few.
- `social`: two users, two requests in either direction, two devices, two calls.
- `accounts`: two users of three names, three days of which the statistics read
  the two newest (90 in the code), two stops (3 in the code), two calls. Once a
  stop is being used there is at most one aggregate (`MaxRowsStop`): stops and
  figures share no state but the lock on the users row.

### Fairness

`RequestsEnd` and `ChallengesEnd` assume that a handler keeps running and gets a
lock it waits for (`SF` per request: PostgreSQL queues the waiters of a row), and
that PostgreSQL's deadlock detector ends one of two transactions that wait for
each other, which is an action of the model. They assume nothing about clients.
`Settles` assumes that a delivery that has begun is handled (`WF`) and that the
number of faults is bounded; RevenueCat's retries then do the rest.
`ShutdownEnds` assumes that the scheduler lets main, the cleanup job and the
goroutine left behind run, and that timeouts pass (`WF`); handlers are not assumed
to return. `RetrySucceeds` assumes a client that retries and a server that gets to
answer. The runs that check liveness use no symmetry.

## What is proved

The theorems are in eight modules and hold for every value of the constants. All
the invariants and action properties that the passing runs check are theorems.
Each has an inductive invariant, one lemma per action or statement that keeps it,
and a last step from the invariant to the property.

**Replication, one table** (`ReplicaAtomic_proofs`; any devices, keys and bounds).
`TypeCorrect`, `Invariant` (`Spec => []IInv`), and from it `NothingSkipped`
(`Spec => []NoSkippedChange`) and `NeverLiveAndTombstoned`. `NoSkippedChange` is
not inductive: a device may have a pending edit that hides a difference, and a
response on its way that will remove one. The invariant adds `PendingIsNewer`
(a pending edit is newer than every row the device has seen, so it can only lose
to a row that the response carries), `ReplyCatchesUp` (a response leaves nothing
below its cursor when it arrives) and `StampsPassed` (no time stamp lies in the
future, for which clocks must agree). The assumptions are that `None` is not a
record and that the bounds are numbers. The regime is a variable, so "clocks agree
and nobody stays away past retention" is a hypothesis of the properties
(`Agreed => ...`), not of the theorems.

**Replication, statement by statement** (`SyncTable_proofs`; the same constants).
`Serialisability`: every step of the server is a step of `ReplicaAtomic` or a
stutter. Begin and the statements stutter, a failure is a refused request, and
the commit is `Serve`: because one transaction holds the lock on the users row,
its statements read what is still there at the commit (`Workspace`, `Drafted`),
and because the sequence never goes back, the versions it took are larger than
all that anybody has seen (`Ahead`). The cleanup job needs no lock; what it may
drop under a transaction is why `Drafted` speaks of tombstones only where
retention does not lapse. With the refinement the theorems of
`ReplicaAtomic_proofs` carry over (`NothingSkipped`). `LastWriterWins`,
`NeverLiveAndTombstoned` and `OnlyOwnEditsLost` hold whatever the clocks do; for
the last, the invariant says the same of the copy a device will have once the
response under way has arrived (`OnlyOwnEditWillBeLost`).

**Replication, across the tables** (`SyncCascade_proofs`; any requests, devices and
days). A request goes through states in which the properties do not hold yet.
`Stage` is what holds between two of its statements, of the database so far and
of the one the request began with: references and UNIQUE values are kept, what has
gone since has a tombstone and what has a tombstone has gone, and the days whose
rollups have changed are remembered. `UpsertStage` and `DeleteStage` show that a
statement keeps it. The second rests on `DoomedClosed` and `DoomedCollected`:
references go from an event or a rollup to a session to a mode and no further,
so what the database deletes by cascade is closed after two steps and is what the
code collected beforehand, except for the events of item 6 below.
`OutcomeFacts` says what the request comes to once the aggregates of the
remembered days are computed again, and `CascadeInvariant` follows, with
`AggregatesAgree`, `BoardAgrees`, `NeverLiveAndGone`, `DeletionsAnnounced` and
`CascadeTypeCorrect`. `RequestAssumption` is what `ValidateAndConvert` lets
through. That an aggregate is a number takes that the rollups are finitely many.

**Sessions** (`AuthSession_proofs`; any requests, sessions and tokens).
`Invariant`, and from it `OneSession`, `OneToken`, `ReuseDetected` and
`NoOrphans`. Their strengthening is about the locks: who holds the users row and
what it has found (`UserLock`), who holds a token row and what it has checked
(`TokenLock`), which ids are still unused (`Fresh`), that a request has what it
inserts for (`Provided`), that a live token hangs on a session (`Linked`), and
`Spent`: a token is answered once while it is live, unless its session is over.
The only assumption is that `None` is neither a session nor a token.

**Access tokens** (the same module; any callers besides). Every step is a
step of `AuthSession` or leaves it alone (`ImplementsAuthSession`), so its theorems
hold here too. `AccessInvariant` adds that what is told of a session stays true
(`ToldIsOver`, for which a session never comes back to life) and that a request
carries a session that was issued (`Carried`); `EndedRefused` follows.

**One-time passwords** (`AccountDeletion_proofs`; any requests, codes and attempts,
both purposes). Two invariants. `Base` holds of every interleaving: row locks
exclude each other and are on rows that exist, a code is inserted once, nobody
has been let in with a code that is still usable, and nobody holds the users row
of an account that is gone. From it come `DeletionTypeCorrect`, `CodeSpentOnce`
and `NoCodeLost`. `Strict` holds as long as requests for a code do not overlap,
and is what the specification promises besides: there is one unused code
(`OneActive`), because a request that has looked for the older codes has found
all there are (`Covered`), and a verification that compares is below the limit
still (`Counted`), because any other would need the lock on the same code.
`OneUsableCode` and `WrongCodesBounded` have the hypothesis `[]OneAtATime` for
this reason, and `otp_two_starts` shows that they need it.

**Entitlements** (`Entitlements_proofs`; any users, ids, webhooks and
administrators). `EntitlementsInvariant` and `EntitlementsTypeCorrect` hold of every
interleaving: what a handler works on comes from its event and reaches only the
user whom an id stands for (`Working`), and a snapshot is found by its user's
customer (`Findable`). `SnapshotsCurrent` has the hypothesis `[]OneDelivery`,
which `entitlements_two_handlers` shows to be needed. It says nothing of a moment
at which something is still to deliver, so its invariant does: what a handler has
seen is so or will be announced again (`SeenOrAnnounced`), and a user whose
snapshot is behind is announced or in the work of a handler that will come to it
(`StaleIsDue`). The ids are finitely many and anonymous ids are no users.

**Views of premium** (the same module). `ViewsAlwaysAgree`: the queries start from
different tables and agree because a row of `user_entitlements` or of the
overrides belongs to a user who exists. The two branches of the UNION ALL are
shown to give each known user one entry, and the count by a bijection.

**Rate limiter and process** (`Server_proofs`; any callers, limit, window and delay).
`FewerThanTwice` has the hypothesis `MaxDelay < Window`: the timeouts of a call to
Redis are seconds, the windows minutes. The log loses members when it is trimmed
and when its key expires, and the property is about what it has lost, so the
invariant is: what is lost is older than what is left, up to the delay
(`InOrder`), the key lives as long as some member of the log needs (`KeyExpiry`),
and of what a window can still see fewer than the limit were lost (`FewDropped`). That a
script is sent again and runs late adds nothing to a log that has its member, and
that it runs where the member has been lost is one more way in which scripts run
late. `RefusalsDue` needs of the invariant only `LimiterTypes`: what is in the log
was counted, and when. `NothingOnClosed` follows from what main waits
for: a request in its handler keeps main before the closing, and the cleanup job
does not outlive the pool.

**Friends and push** (`Social_proofs`; any users, friendships, devices and calls, the
ids finitely many). `OnePerPair`, `AnsweredOnce`, `ListsAgree`, `WorkingDevicesKept`
and `TypeCorrect`, from `SocialInv`. Each statement checks the row it changes, so
little is missing for an inductive invariant: that an id not yet used has no answer
(`Unanswered`), that the one who asks is not the one asked (`Asked`), and that what a
push is about to delete has been rejected, which Firebase never takes back (`Pruned`).
`ListsAgree` also needs that the JOIN of the second query drops no row, because the
foreign keys hold (`NoneDropped`).

**Emergency stops** (`SyncCascade_proofs`; any users, calls and limit).
`StopsCounted`: what a call answers was read before its UPDATE, so the invariant
says that a call that has read holds the row, and that the row still has what it
read; a COMMIT that is applied without an answer leaves a gap and moves no number.

**Leaderboards and statistics** (the same module; finitely many users, any names,
days, focus times and page size). `RanksAlwaysAgree` and `StatsAgreeWhereRead`. The
invariant is short (`FiguresInv`: the metrics are those of the aggregates, which a
sync changes in one step with them, and names are unique); the work is in what the
queries and loops compute. A finite set with a strict total order can be sorted,
each member standing after as many as are earlier (`SortExists`, `SortFacts`), which
is why a rank is one more than the number ahead; usernames make the order total,
and without them two users could share a place. The pages one after the other are
the sequence (`PagesFlattened`). The window query counts a streak as a set of
unbroken rows (`SqlCounts`), Go with a loop that stops (`GoCounts`, and `RecentStreak`
for the days that are read) and one that does not (`LongestFound`: a stretch of that
length exists, and none that is longer).

**Only model-checked.** All liveness: `RequestsEnd`, `ChallengesEnd`, `Settles`,
`ShutdownEnds` (and the violation of `RetrySucceeds`), since liveness under fairness
and ENABLED are out of the prover's reach. So is induction over data by the
library's theorems, which take a predicate as a parameter. Where a proof needs it,
it takes the smallest counterexample instead (`LeastNumber`): that a fold over a
finite set exists and has the values it should (`FoldExists`), and with it that sums
are numbers (`SumType`) and what the two loops keep at each row.

## Where the code and its documents differ

Each of the first four has a run whose counterexample is the code's behaviour.

1. A request that violates a foreign key or UNIQUE constraint is answered 500
   and rolled back; the protocol (BACKEND_SPEC.md:758-759) tells the client to
   retry with the same payload, for ever (`sync_cascade_retry`). A device whose
   pending change refers to a mode deleted elsewhere cannot sync any more.
2. Two requests for a code at once leave two unused codes (BACKEND_SPEC.md:241
   allows one), and with two codes the attempt limit of BACKEND_SPEC.md:95 is
   passed, since verifications then hold different locks (`otp_two_starts`).
3. Two deliveries of the webhook at once can leave the older state
   (`entitlements_two_handlers`, BACKEND_SPEC.md:1467).
4. The limiter's key expires with its oldest member, so a window can let through
   almost twice the limit (`rate_limiter_window`).

Seen while modelling, without a run of their own:

5. `SyncRestrictionLifecycleEvents` does not clear tombstones: an event that a
   cascade removed and a device posts again has a row and a tombstone
   (BACKEND_SPEC.md:688). `NeverBoth` leaves the events out.
6. `collectModeCascade` finds events by their own mode, the database deletes
   them through their session's as well; an event that names two different
   modes goes without a tombstone. `TombstonesMatchDeletions` excepts it.
7. The current streak counts aggregate rows up to the first unqualified one and
   looks neither at gaps between the days nor at today (BACKEND_SPEC.md:1906).
   The board and the friend's page do so alike; but the page reads 90 rows, so
   that a friend whose streak is longer is shown as 90 there and with all of it on
   the board, where BACKEND_SPEC.md:1906 (and :1886) knows one streak without a
   cut. `StatsAgreeUpToRecentDays` says both.
8. What RevenueCat reports during an override is acknowledged and dropped, so
   the snapshot can be stale when the override expires. `SnapshotCurrent`
   excepts users for whom this has happened (`held`).
9. A notification may reach a device that has changed hands since the tokens
   were read.
10. Where retention lapses, the cleanup job can drop a tombstone between its
    listing and the answer, so that requests are not serialisable.
11. The page of a leaderboard and the user's own rank are two queries, as are
    the parts of a friend's statistics: with a write in between they may differ.
12. At shutdown main does not wait for the goroutine `cleanupFailedOTP`. If the
    pool closes first, the code whose mail failed stays until it expires.
    `NothingRunsOnClosed` is about requests and the cleanup job.
13. An AI call may take a minute (`AI_TIMEOUT`), a response must be written
    within 30 seconds and a shutdown within 10: the first has no answer, the second
    is cut off by `os.Exit(1)` with Redis, pool and cleanup job as they are.
14. The administrators' lists count their rows beside the page
    (`COUNT(*) OVER()`), so that a page past the last one says 0 in all; they order
    by a time that rows may share, so that a row may be on two pages.
15. The gate of a user whose account is deleted after the access token was checked
    answers 500 (`RequirePremium`).
16. An access token is of no use once its session is over, by a logout too: every
    request looks the session up (`internal/server/modules.go:45`).
    BACKEND_SPEC.md:171 says of the logout that "Access tokens remain valid until
    their TTL expires (stateless JWT design)." `EndedSessionRefused` is what the
    code does.
17. Wrong codes are counted per email and purpose, so that an email has three
    attempts to sign in and three more to delete the account; BACKEND_SPEC.md:95
    allows three "per email per 10-minute window". `AttemptsBounded` is about one
    purpose.
18. The limiter's script is not idempotent. If it ran and its reply is lost,
    go-redis runs it again with the same member (`internal/ratelimit/redis.go:114`;
    `main` leaves its retries at their default), and the log then has the request
    itself: a request for which there was room can be refused with `Limit - 1`
    others. If all attempts fail it is let through, counted or not.
19. A COMMIT of an emergency stop that is applied and reported as failed
    (`internal/service/emergency.go:52`) uses up a stop and answers an internal
    error; a client that tries again uses another.

## Not modelled

The fields and size limits of a sync request, the choice of a rate limit's key, the
profile's name and picture, the search for users, the
administrator's other columns, filters and time series, the metrics cache, the
model call of the AI tips, mail, configuration, validation, the photo store,
health checks and migrations. They keep no state that others depend on, or are
I/O.

## Plan

The order so far: replication (`Replica`, `ReplicaAtomic`, its proof,
`SyncTable`), then `SyncCascade`, then sessions with their proof, then the
components that share tables with these, then what runs around them (access
tokens, account deletion, the process) and the views of premium; then the proofs
of everything that these modules check and that is a safety property. What is
next:

1. Deletions by cascade inside `SyncTable`, so that versions of dependents are
   covered.
2. Convergence of devices under bounded losses, as liveness.
