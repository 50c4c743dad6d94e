---------------------------- MODULE PremiumViews ----------------------------
(***************************************************************************)
(* Who has premium, as the rest of the server asks: the gate of the friend *)
(* requests, of a friend's statistics and of the AI features, and the      *)
(* pages of the administrators.                                            *)
(*                                                                         *)
(* The question is put to user_entitlements and admin_entitlement_overrides*)
(* by five queries of their own: two kinds of LEFT JOIN, a count, and a    *)
(* UNION ALL of the users with a snapshot and those with an override only. *)
(* Each is an operator on the state.                                       *)
(***************************************************************************)
EXTENDS Entitlements

\* premiumCaseSQL of a user's unexpired override and snapshot, either of
\* which the LEFT JOINs of premiumJoinSQL may not find.
PremiumCase(o, e) ==
    CASE o = "grant"  -> TRUE
      [] o = "revoke" -> FALSE
      [] OTHER        -> e # None /\ e.active

\* premiumDisplayPeriodEndSQL: where the date an administrator sees is from.
PeriodEnd(o, e) == IF o = "grant" THEN "override" ELSE IF e # None THEN "snapshot" ELSE "none"

\* requirePremium: the gate lets the user pass, refuses, or fails with 500,
\* when the account has gone since its token was checked.
RequirePremium(u) ==
    IF u \notin users THEN "failed"
    ELSE IF PremiumCase(override[u], row[u]) THEN "passed" ELSE "refused"

\* The rows of the page of users.
ListUsers == {[user |-> u, premium |-> PremiumCase(override[u], row[u])] : u \in users}

\* The page of one user who exists.
GetUserDetail(u) ==
    [premium |-> PremiumCase(override[u], row[u]),
     period  |-> PeriodEnd(override[u], row[u]),
     app     |-> IF row[u] = None THEN None ELSE row[u].app]

\* premium_users of the platform's statistics.
PremiumUsers == Cardinality({u \in users : PremiumCase(override[u], row[u])})

\* The two branches of the UNION ALL, told apart by `from`.
SnapshotRows ==
    {[user |-> u, active |-> PremiumCase(override[u], row[u]),
      period |-> PeriodEnd(override[u], row[u]), from |-> "snapshot"] :
        u \in {v \in User : row[v] # None}}

\* fault: the second branch takes every unexpired override
AnyOverrideRows ==
    {[user |-> u, active |-> override[u] = "grant",
      period |-> IF override[u] = "grant" THEN "override" ELSE "none", from |-> "override"] :
        u \in {v \in User : override[v] # None}}

OverrideOnlyRows ==
    {[user |-> u, active |-> override[u] = "grant",
      period |-> IF override[u] = "grant" THEN "override" ELSE "none", from |-> "override"] :
        u \in {v \in User : override[v] # None /\ row[v] = None}}

\* The list of entitlements with is_active among wanted; its size is the
\* total_count that is shown.
ListEntitlements(wanted) ==
    {m \in SnapshotRows \cup OverrideOnlyRows : m.user \in users /\ m.active \in wanted}

----------------------------------------------------------------------------

\* Every view of a user says the same, whatever the webhook, the overrides and
\* account deletions have left in the two tables: who passes the gate is
\* premium in the lists, in his own page and in the count; who is in the list
\* of entitlements is there once; who is not has no premium.
ViewsAgree ==
    /\ \A u \in users :
         LET detail == GetUserDetail(u)
             listed == {m \in ListEntitlements(BOOLEAN) : m.user = u}
         IN  /\ detail.premium <=> RequirePremium(u) = "passed"
             /\ [user |-> u, premium |-> detail.premium] \in ListUsers
             /\ IF listed = {} THEN ~detail.premium
                ELSE \E m \in listed : /\ listed = {m}
                                       /\ m.active = detail.premium
                                       /\ m.period = detail.period
    /\ PremiumUsers = Cardinality(ListEntitlements({TRUE}))
=============================================================================
