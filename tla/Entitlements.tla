---------------------------- MODULE Entitlements ----------------------------
(***************************************************************************)
(* Premium entitlements: RevenueCat's customers, its webhook, the snapshot *)
(* in user_entitlements that reconciliation writes, and the overrides of   *)
(* the administrators.                                                     *)
(*                                                                         *)
(* A webhook only says which RevenueCat ids may have changed.  The handler *)
(* asks RevenueCat for the current state of each of them and writes it to  *)
(* every local user the id stands for.  Nothing of this runs in a          *)
(* transaction: every statement commits by itself.  A status other than    *)
(* 200 makes RevenueCat deliver the event again.                           *)
(***************************************************************************)
EXTENDS Integers, FiniteSets

CONSTANTS
    User,       \* local users; their ids are RevenueCat ids as well
    Anonymous,  \* ids RevenueCat gave before the app knew the account
    First,      \* First[u]: the id under which u's customer was first seen
    Handler,    \* deliveries handled at a time
    MaxChanges, \* bound on changes at RevenueCat
    MaxFaults,  \* bound on failed calls, crashes and lost answers
    MaxManaged, \* bound on decisions of administrators
    None        \* no row, no override, no user

RcId == User \cup Anonymous

ASSUME EntitlementsAssumption ==
    /\ MaxChanges \in Nat /\ MaxFaults \in Nat /\ MaxManaged \in Nat
    /\ User \cap Anonymous = {}
    /\ First \in [User -> RcId]
    /\ \A u \in User : First[u] \in Anonymous \cup {u}
    /\ \A u, v \in User : First[u] = First[v] => u = v
    /\ None \notin RcId \cup {"grant", "revoke", "active", "inactive", "unknown"}
    /\ IsFiniteSet(User)

VARIABLES
    users,       \* accounts that exist
    row,         \* row[u]: u's user_entitlements row, or None
    override,    \* override[u]: the action of u's unexpired override, or None
    held,        \* users whose last reconciliation an override held back
    customer,    \* customer[i]: original_app_user_id of the customer i stands for
    sub,         \* sub[i]: the premium entitlement of the customer i
    outstanding, \* events RevenueCat has still to deliver, as sets of ids
    pc,          \* pc[h]: where handler h stands
    call,        \* call[h]: the handler's local state
    changes, faults, managed  \* how often each has happened

rcVars == <<customer, sub, changes>>
dbVars == <<users, row, override, held, managed>>
vars   == <<rcVars, dbVars, outstanding, pc, call, faults>>

NoCall == [event |-> {}, todo |-> {}, id |-> None, targets |-> {}, user |-> None,
           seen |-> None, original |-> None, failed |-> FALSE]

Init ==
    /\ users       = User
    /\ row         = [u \in User |-> None]
    /\ override    = [u \in User |-> None]
    /\ held        = {}
    /\ customer    = [i \in RcId |-> IF i \in User THEN First[i] ELSE i]
    /\ sub         = [i \in RcId |-> "inactive"]
    /\ outstanding = {}
    /\ pc          = [h \in Handler |-> "idle"]
    /\ call        = [h \in Handler |-> NoCall]
    /\ changes     = 0
    /\ faults      = 0
    /\ managed     = 0

----------------------------------------------------------------------------
(* RevenueCat.  An event names the ids it concerns: app_user_id,           *)
(* original_app_user_id, transferred_from and transferred_to.              *)

Event(ids) ==
    /\ changes < MaxChanges
    /\ changes' = changes + 1
    /\ outstanding' = outstanding \cup {ids}
    /\ UNCHANGED <<dbVars, pc, call, faults>>

\* A purchase or a renewal after a lapse; an expiry or a refund.  The event
\* names the id the app last used, which need not be the local user's.
Change(i) ==
    LET c == customer[i]
    IN  /\ sub[c] # "unknown"
        /\ sub' = [sub EXCEPT ![c] = IF @ = "active" THEN "inactive" ELSE "active"]
        /\ Event({i, c})
        /\ UNCHANGED customer

\* i's purchases are restored by j: a TRANSFER event, which names both.
Transfer(i, j) ==
    LET from == customer[i]
        to   == customer[j]
    IN  /\ from # to
        /\ sub[from] = "active" /\ sub[to] # "unknown"
        /\ sub' = [sub EXCEPT ![from] = "inactive", ![to] = "active"]
        /\ Event({i, from, j, to})
        /\ UNCHANGED customer

\* The customer is deleted while an event that names it is on its way.
Forget(i) ==
    /\ sub[customer[i]] # "unknown"
    /\ \E e \in outstanding : {i, customer[i]} \subseteq e
    /\ sub' = [sub EXCEPT ![customer[i]] = "unknown"]
    /\ UNCHANGED <<customer, changes, dbVars, outstanding, pc, call, faults>>

----------------------------------------------------------------------------
(* The webhook.                                                            *)

Go(h, where, c) ==
    /\ pc'   = [pc EXCEPT ![h] = where]
    /\ call' = [call EXCEPT ![h] = c]

\* An event arrives; collectReconcileIDs makes it the set of ids to look at.
Deliver(h) ==
    /\ pc[h] = "idle"
    /\ \E e \in outstanding :
         /\ outstanding' = outstanding \ {e}
         /\ Go(h, "resolve", [NoCall EXCEPT !.event = e, !.todo = e])
    /\ UNCHANGED <<rcVars, dbVars, faults>>

\* fault: the canonical id of the row is not looked at
AssociatedByApp(i) == {u \in users : row[u] # None /\ i = row[u].app}

\* GetUsersByRevenueCatID: users whose row names the id.
Associated(i) == {u \in users : row[u] # None /\ i \in {row[u].app, row[u].original}}

\* resolveLocalUsers: the user who has that id, and those whose row names it.
LocalUsers(i) == ({i} \cap users) \cup Associated(i)

\* fault: an id without a local user is an error
ResolveStrict(h) ==
    /\ pc[h] = "resolve"
    /\ \E i \in call[h].todo :
         LET c == [call[h] EXCEPT !.todo = @ \ {i}, !.id = i, !.targets = LocalUsers(i)]
         IN  IF c.targets = {} THEN Go(h, "resolve", [c EXCEPT !.failed = TRUE])
                               ELSE Go(h, "fetch", c)
    /\ UNCHANGED <<rcVars, dbVars, outstanding, faults>>

\* The next id; one that stands for no local user is passed over.
Resolve(h) ==
    /\ pc[h] = "resolve"
    /\ \E i \in call[h].todo :
         LET c == [call[h] EXCEPT !.todo = @ \ {i}, !.id = i, !.targets = LocalUsers(i)]
         IN  Go(h, IF c.targets = {} THEN "resolve" ELSE "fetch", c)
    /\ UNCHANGED <<rcVars, dbVars, outstanding, faults>>

\* GetSubscriber: the state of the customer at this moment, or 404 "unknown".
Fetch(h) ==
    /\ pc[h] = "fetch"
    /\ LET canonical == customer[call[h].id]
       IN  Go(h, "check", [call[h] EXCEPT !.seen = sub[canonical], !.original = canonical])
    /\ UNCHANGED <<rcVars, dbVars, outstanding, faults>>

\* The next local user: hasActiveOverride, and nothing is written over one.
Check(h) ==
    /\ pc[h] = "check"
    /\ \E u \in call[h].targets :
         LET rest == [call[h] EXCEPT !.targets = @ \ {u}]
         IN  IF override[u] = None
             THEN /\ Go(h, "write", [rest EXCEPT !.user = u])
                  /\ UNCHANGED held
             ELSE /\ Go(h, "check", rest)
                  /\ held' = held \cup {u}
    /\ UNCHANGED <<rcVars, users, row, override, managed, outstanding, faults>>

\* DeriveEntitlement's answer as a row.  A 404 says nothing about the
\* canonical id, and COALESCE keeps the one that is there.
Snapshot(c) ==
    [active   |-> c.seen = "active",
     app      |-> c.id,
     original |-> IF c.seen # "unknown" THEN c.original
                  ELSE IF row[c.user] = None THEN None ELSE row[c.user].original]

\* fault: no foreign key holds the row to its user
WriteAnyway(h) ==
    /\ pc[h] = "write"
    /\ row'  = [row EXCEPT ![call[h].user] = Snapshot(call[h])]
    /\ held' = held \ {call[h].user}
    /\ Go(h, "check", call[h])
    /\ UNCHANGED <<rcVars, users, override, managed, outstanding, faults>>

\* UpsertEntitlement, whatever the row holds by now; the foreign key refuses
\* the row of a user who has gone.
Write(h) ==
    LET u == call[h].user
    IN  /\ pc[h] = "write"
        /\ IF u \in users
           THEN /\ row'  = [row EXCEPT ![u] = Snapshot(call[h])]
                /\ held' = held \ {u}
                /\ Go(h, "check", call[h])
           ELSE /\ Go(h, "check", [call[h] EXCEPT !.failed = TRUE])
                /\ UNCHANGED <<row, held>>
        /\ UNCHANGED <<rcVars, users, override, managed, outstanding, faults>>

\* The id is done.
NextId(h) ==
    /\ pc[h] = "check"
    /\ call[h].targets = {}
    /\ Go(h, "resolve", call[h])
    /\ UNCHANGED <<rcVars, dbVars, outstanding, faults>>

\* The first error, or none, is the answer: 500 and RevenueCat delivers the
\* event again, or 200 and it is done.
Finish(h) ==
    /\ pc[h] = "resolve"
    /\ call[h].todo = {}
    /\ outstanding' = outstanding \cup (IF call[h].failed THEN {call[h].event} ELSE {})
    /\ Go(h, "idle", NoCall)
    /\ UNCHANGED <<rcVars, dbVars, faults>>

----------------------------------------------------------------------------
(* Faults.                                                                 *)

Fault == faults < MaxFaults /\ faults' = faults + 1

\* A call to RevenueCat or a statement fails: this id, or this user, is given
\* up, the others are still reconciled.
Fail(h) ==
    /\ Fault
    /\ LET c == [call[h] EXCEPT !.failed = TRUE]
       IN  \/ /\ pc[h] = "resolve"
              /\ \E i \in c.todo : Go(h, "resolve", [c EXCEPT !.todo = @ \ {i}])
           \/ /\ pc[h] = "fetch"
              /\ Go(h, "resolve", c)
           \/ /\ pc[h] = "check"
              /\ \E u \in c.targets : Go(h, "check", [c EXCEPT !.targets = @ \ {u}])
           \/ /\ pc[h] = "write"
              /\ Go(h, "check", c)
    /\ UNCHANGED <<rcVars, dbVars, outstanding>>

\* RevenueCat gives up waiting for the answer and will deliver the event
\* again, while the handler goes on.
TimeOut(h) ==
    /\ Fault
    /\ pc[h] # "idle"
    /\ outstanding' = outstanding \cup {call[h].event}
    /\ UNCHANGED <<rcVars, dbVars, pc, call>>

\* The server dies: what was written stays, the event is delivered again.
Crash(h) ==
    /\ Fault
    /\ pc[h] # "idle"
    /\ outstanding' = outstanding \cup {call[h].event}
    /\ Go(h, "idle", NoCall)
    /\ UNCHANGED <<rcVars, dbVars>>

----------------------------------------------------------------------------
(* Administrators and accounts.                                            *)

\* ManageEntitlement: the override alone changes, never the snapshot.
ManageEntitlement(u, action) ==
    /\ u \in users
    /\ managed < MaxManaged
    /\ managed' = managed + 1
    /\ override[u] # action
    /\ override' = [override EXCEPT ![u] = action]
    /\ UNCHANGED <<rcVars, users, row, held, outstanding, pc, call, faults>>

\* expires_at passes.
OverrideExpires(u) ==
    /\ override[u] # None
    /\ override' = [override EXCEPT ![u] = None]
    /\ UNCHANGED <<rcVars, users, row, held, managed, outstanding, pc, call, faults>>

\* ConfirmAccountDeletion; row and override go by ON DELETE CASCADE.
DeleteUser(u) ==
    /\ u \in users
    /\ users'    = users \ {u}
    /\ row'      = [row EXCEPT ![u] = None]
    /\ override' = [override EXCEPT ![u] = None]
    /\ held'     = held \ {u}
    /\ UNCHANGED <<rcVars, managed, outstanding, pc, call, faults>>

----------------------------------------------------------------------------
Handle(h) == Deliver(h) \/ Resolve(h) \/ Fetch(h) \/ Check(h) \/ Write(h) \/ NextId(h) \/ Finish(h)

Next ==
    \/ \E i \in RcId : Change(i) \/ Forget(i)
    \/ \E i, j \in RcId : Transfer(i, j)
    \/ \E u \in User : OverrideExpires(u) \/ DeleteUser(u)
    \/ \E u \in User, action \in {"grant", "revoke"} : ManageEntitlement(u, action)
    \/ \E h \in Handler : Handle(h) \/ Fail(h) \/ TimeOut(h) \/ Crash(h)

Spec == Init /\ [][Next]_vars

\* RevenueCat delivers what is outstanding, and a handler runs to its end:
\* no step of it waits for another actor, and the HTTP client times out.
FairSpec == Spec /\ \A h \in Handler : WF_vars(Handle(h))

----------------------------------------------------------------------------
(* Properties.                                                             *)

\* EffectivePremiumActive and premiumCaseSQL: the override while there is
\* one, otherwise the snapshot.
Premium(u) ==
    \/ override[u] = "grant"
    \/ override[u] = None /\ row[u] # None /\ row[u].active

\* Every event has been answered with 200 and nobody is working on one.
Quiet == outstanding = {} /\ \A h \in Handler : pc[h] = "idle"

\* Whether u has what RevenueCat says u's customer bought.
Current(u) == Premium(u) <=> sub[customer[u]] = "active"

\* The page of a user's subscription: RevenueCat's answer, at this moment, about
\* the id the snapshot has.
GetUserRCSubscription(u) ==
    IF u \notin users \/ row[u] = None THEN "not found" ELSE sub[customer[row[u].app]]

\* u's account is known by a snapshot and no override is in force.
BySnapshot(u) == u \in users /\ row[u] # None /\ override[u] = None

\* Types; a row or an override belongs to a user who exists (the foreign keys
\* of user_entitlements and its overrides), whoever writes it and however late.
TypeOK ==
    /\ users \subseteq User
    /\ \A u \in User : row[u] = None \/
         row[u] \in [active : BOOLEAN, app : RcId, original : RcId \cup {None}]
    /\ \A u \in User : row[u] # None \/ override[u] # None => u \in users
    /\ override \in [User -> {"grant", "revoke", None}]
    /\ held \subseteq users
    /\ outstanding \subseteq SUBSET RcId
    /\ \A h \in Handler :
         /\ pc[h] \in {"idle", "resolve", "fetch", "check", "write"}
         /\ pc[h] \in {"check", "write"} => call[h].seen # None
         /\ pc[h] = "idle" <=> call[h] = NoCall

\* When every webhook has been answered, a user no override holds back has
\* premium exactly when RevenueCat says so, of the user and of the id in the
\* snapshot: transfers between customers, ids only a row knows, failed calls
\* and deliveries that were repeated included.
SnapshotCurrent ==
    Quiet => \A u \in User \ held :
               BySnapshot(u) => /\ Current(u)
                                /\ Premium(u) <=> GetUserRCSubscription(u) = "active"

\* RevenueCat stops delivering: no event is refused for ever.
Settles == <>[]Quiet
=============================================================================
