---------------------------- MODULE RateLimiter ----------------------------
(***************************************************************************)
(* The Redis rate limiter, for one key (an IP address, an email or a user  *)
(* of one group of endpoints).                                             *)
(*                                                                         *)
(* An instance of the server reads its clock and runs a Lua script in      *)
(* Redis, where scripts of all instances run one after another.  Between   *)
(* the two, time passes, so scripts may run in another order than their    *)
(* clocks were read.  The log of a key is a sorted set of members, each    *)
(* with a clock reading as its score; the whole key expires at a time of   *)
(* Redis's own clock.                                                      *)
(*                                                                         *)
(* A script may be lost before it ran or afterwards, with its reply, or it *)
(* may run when nobody waits for it any more.  The client library sends it *)
(* again, under the same name, or gives up.  How often it tries is not     *)
(* counted.                                                                *)
(***************************************************************************)
EXTENDS Integers, FiniteSets, FiniteSetsExt

CONSTANTS
    Caller,   \* those that make requests, each one at a time
    Limit,    \* rate
    Window,   \* window, in units of time
    MaxTime,  \* bound on time
    MaxDelay, \* bound on the time between reading the clock and the last script
    MaxLost,  \* bound on the lost scripts that may still run
    None      \* not calling

ASSUME LimiterAssumption ==
    /\ Limit \in Nat \ {0} /\ Window \in Nat \ {0}
    /\ MaxTime \in Nat /\ MaxDelay \in Nat /\ MaxLost \in Nat
    /\ None \notin [score : 0 .. MaxTime, by : Caller]

VARIABLES
    now,      \* the time
    member,   \* member[c]: what c's call adds to the log, while c waits, or None
    adrift,   \* the members whose script may run although nobody hears its reply
    log,      \* the sorted set: members with their scores
    expireAt, \* the key is gone once this time has passed
    counted   \* the members for which a script found room

vars == <<now, member, adrift, log, expireAt, counted>>

Time == 0 .. MaxTime

Member == [score : Time, by : Caller]

Waiting(c) == member[c] # None

Oldest(l) == Min({m.score : m \in l})

Init ==
    /\ now      = 0
    /\ member   = [c \in Caller |-> None]
    /\ adrift   = {}
    /\ log      = {}
    /\ expireAt = 0
    /\ counted  = {}

\* No call and no lost script outlives its delay.
Tick ==
    /\ now < MaxTime
    /\ \A c \in Caller : Waiting(c) => now - member[c].score < MaxDelay
    /\ now'    = now + 1
    /\ adrift' = {m \in adrift : now - m.score < MaxDelay}
    /\ UNCHANGED <<member, log, expireAt, counted>>

\* Allow: time.Now() and the member's name, which is unique: a caller does not
\* call again at a time at which an earlier call of its may have been counted.
Call(c) ==
    LET m == [score |-> now, by |-> c]
    IN  /\ ~Waiting(c) /\ m \notin counted \cup adrift
        /\ member' = [member EXCEPT ![c] = m]
        /\ UNCHANGED <<now, adrift, log, expireAt, counted>>

\* c's call returns.
Return(c) ==
    /\ Waiting(c)
    /\ member' = [member EXCEPT ![c] = None]
    /\ UNCHANGED <<now, adrift>>

\* fault: the log is not trimmed
KeptAll(at) == IF now > expireAt THEN {} ELSE log

\* What ZREMRANGEBYSCORE leaves of the log, if the key has not expired.
Kept(at) == {m \in log : now <= expireAt /\ m.score > at - Window}

\* fault: > for >=
FullTooLate(l) == Cardinality(l) > Limit

Full(l) == Cardinality(l) >= Limit

\* fault: the comparison of ttl_ms with 1 is the wrong way round
ExpiryAtOnce(l, at) == now + Min({1, Oldest(l) + Window - at})

\* PEXPIRE: the key expires with its oldest member.
Expiry(l, at) == now + Max({1, Oldest(l) + Window - at})

\* The script, when there is room: the trimmed log has a new member, unless an
\* earlier attempt has added it.
ScriptAdds(m) ==
    LET kept == Kept(m.score)
        new  == kept \cup {m}
    IN  /\ ~Full(kept)
        /\ log'      = new
        /\ expireAt' = Expiry(new, m.score)
        /\ counted'  = counted \cup {m}

\* The script, when there is none: the log is trimmed and its expiry set.
ScriptRefuses(m) ==
    LET kept == Kept(m.score)
    IN  /\ Full(kept)
        /\ log'      = kept
        /\ expireAt' = Expiry(kept, m.score)
        /\ UNCHANGED counted

Admit(c) == Return(c) /\ ScriptAdds(member[c])

Refuse(c) == Return(c) /\ ScriptRefuses(member[c])

\* An attempt fails, and c's call goes on with the next.
Lose(c) ==
    /\ Waiting(c)
    /\ adrift' = adrift \cup {member[c]}
    /\ Cardinality(adrift') <= MaxLost
    /\ UNCHANGED <<now, member, log, expireAt, counted>>

\* The script of a failed attempt runs after all.
Late(m) ==
    /\ ScriptAdds(m) \/ ScriptRefuses(m)
    /\ UNCHANGED <<now, member, adrift>>

\* Redis cannot be reached, or the last attempt has failed: FailOpenLimiter lets
\* the request through, whether or not it was counted.
FailOpen(c) ==
    /\ Return(c)
    /\ UNCHANGED <<log, expireAt, counted>>

Next ==
    \/ Tick
    \/ \E c \in Caller : Call(c) \/ Admit(c) \/ Refuse(c) \/ Lose(c) \/ FailOpen(c)
    \/ \E m \in adrift : Late(m)

Spec == Init /\ [][Next]_vars

----------------------------------------------------------------------------

\* The script never keeps more than Limit entries, nor an entry without a script
\* that found room for it.
TypeOK ==
    /\ now \in Time
    /\ member \in [Caller -> Member \cup {None}]
    /\ adrift \subseteq Member
    /\ log \subseteq counted /\ Cardinality(log) <= Limit
    /\ expireAt \in 0 .. (MaxTime + Window + MaxDelay)
    /\ counted \subseteq Member

\* The requests counted whose instance read a time after `from` and up to `to`.
Between(from, to) == {m \in counted : from < m.score /\ m.score <= to}

\* "A sliding-window rate limiter": no stretch of time as long as the window has
\* more than Limit requests for which the script found room.
SlidingWindow == \A s \in Time : Cardinality(Between(s - Window, s)) <= Limit

\* The window, less what delays of more than one unit take off it on both sides.
Span == Window - 2 * Max({0, MaxDelay - 1})

\* What the code guarantees instead: the log is forgotten at once when its
\* oldest entry leaves the window, so a window can see the ends of two logs, but
\* not of three.
LessThanTwice == \A s \in Time : Cardinality(Between(s - Span, s)) < 2 * Limit

=============================================================================
