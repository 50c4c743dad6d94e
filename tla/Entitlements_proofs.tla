------------------------ MODULE Entitlements_proofs ------------------------
(***************************************************************************)
(* The webhook and the views of who has premium, for any number of users,  *)
(* RevenueCat ids, webhooks and administrators.                            *)
(*                                                                         *)
(* A snapshot can be behind RevenueCat at any time.  What is true at every *)
(* moment, if deliveries do not overlap, is that somebody will look again: *)
(* that is the invariant from which SnapshotCurrent follows.  The views    *)
(* start from different tables and agree because a row of the entitlements *)
(* or of the overrides belongs to a user who exists.                       *)
(***************************************************************************)
EXTENDS PremiumViews, FunctionTheorems, FiniteSetTheorems, TLAPS

----------------------------------------------------------------------------
(* The inductive invariant of the webhook.                                 *)

RowType == [active : BOOLEAN, app : RcId, original : RcId \cup {None}]

CallType ==
    [event : SUBSET RcId, todo : SUBSET RcId, id : RcId \cup {None}, targets : SUBSET User,
     user : User \cup {None}, seen : {"active", "inactive", "unknown", None},
     original : RcId \cup {None}, failed : BOOLEAN]

Types ==
    /\ users \subseteq User /\ held \subseteq users
    /\ row \in [User -> RowType \cup {None}]
    /\ override \in [User -> {"grant", "revoke", None}]
    /\ \A u \in User : row[u] # None \/ override[u] # None => u \in users
    /\ customer = [i \in RcId |-> IF i \in User THEN First[i] ELSE i]
    /\ sub \in [RcId -> {"active", "inactive", "unknown"}]
    /\ pc \in [Handler -> {"idle", "resolve", "fetch", "check", "write"}]
    /\ call \in [Handler -> CallType]

\* An event names, with an id, the customer the id stands for.
Closed(e) == e \in (SUBSET RcId) \ {{}} /\ \A i \in e : customer[i] \in e

\* The ids that stand for a user.
IdsOf(u) == {u, customer[u]}

\* What a handler works on comes from its event, and only reaches the user an
\* id stands for.
Working(h) ==
    /\ pc[h] = "idle" <=> call[h] = NoCall
    /\ pc[h] # "idle" => Closed(call[h].event) /\ call[h].todo \subseteq call[h].event
    /\ pc[h] \in {"fetch", "check", "write"} =>
         call[h].id \in RcId /\ \A u \in call[h].targets : call[h].id \in IdsOf(u)
    /\ pc[h] = "write" => call[h].user \in User /\ call[h].id \in IdsOf(call[h].user)

\* A handler that has seen a customer knows its canonical id; "unknown" is final.
Answered(h) ==
    pc[h] \in {"check", "write"} =>
      /\ call[h].seen # None
      /\ call[h].original = customer[call[h].id]
      /\ call[h].seen = "unknown" => sub[customer[call[h].id]] = "unknown"

\* A snapshot is found by its user's customer, unless nothing is bought there
\* any more.
Findable(u) ==
    row[u] # None =>
      /\ row[u].app \in IdsOf(u)
      /\ \/ row[u].original = customer[u]
         \/ row[u].original = None /\ ~row[u].active /\ sub[customer[u]] = "unknown"

EntitlementsInv ==
    /\ Types
    /\ \A e \in outstanding : Closed(e)
    /\ \A h \in Handler : Working(h) /\ Answered(h)
    /\ \A u \in User : Findable(u)

\* One delivery at a time.
OneDelivery == \A g, h \in Handler : pc[g] # "idle" /\ pc[h] # "idle" => g = h

\* An event about the customer c has still to be delivered.
Announced(c) == \E e \in outstanding : c \in e

\* What a handler has seen and is not so any more is announced.
SeenOrAnnounced ==
    \A h \in Handler :
      pc[h] \in {"check", "write"} =>
        \/ call[h].seen = sub[customer[call[h].id]]
        \/ Announced(customer[call[h].id])

\* u's snapshot is not what RevenueCat has.
Stale(u) ==
    /\ u \in users \ held
    /\ row[u] # None
    /\ row[u].active # (sub[customer[u]] = "active")

\* h will come to u, by the id of u's customer, or have its event delivered
\* again.
WillReach(h, u) ==
    /\ pc[h] # "idle"
    /\ customer[u] \in call[h].event
    /\ \/ call[h].failed
       \/ customer[u] \in call[h].todo
       \/ /\ pc[h] \in {"fetch", "check", "write"} /\ call[h].id = customer[u]
          /\ \/ u \in call[h].targets
             \/ pc[h] = "write" /\ call[h].user = u

\* Whoever is stale is going to be looked at.
StaleIsDue ==
    \A u \in User : Stale(u) => Announced(customer[u]) \/ \E h \in Handler : WillReach(h, u)

----------------------------------------------------------------------------
(* The webhook.                                                            *)

\* Every id has one canonical id, and stands for one user at most.
LEMMA Customers ==
    ASSUME Types
    PROVE  /\ \A i \in RcId : customer[i] \in RcId /\ customer[customer[i]] = customer[i]
           /\ \A u \in User, i \in RcId : i \in IdsOf(u) => customer[i] = customer[u]
           /\ \A u, v \in User, i \in RcId : i \in IdsOf(u) /\ i \in IdsOf(v) => u = v
<1>1. \A i \in RcId : customer[i] = IF i \in User THEN First[i] ELSE i
  BY DEF Types
<1>2. \A u \in User : u \in RcId /\ First[u] \in RcId /\ customer[u] = First[u]
  BY <1>1, EntitlementsAssumption DEF RcId
<1>3. \A u \in User : customer[First[u]] = First[u]
  BY <1>1, <1>2, EntitlementsAssumption DEF RcId
<1>4. \A u \in User, i \in RcId : i \in IdsOf(u) => customer[i] = customer[u]
  BY <1>2, <1>3 DEF IdsOf
<1>5. \A u, v \in User, i \in RcId : i \in IdsOf(u) /\ i \in IdsOf(v) => u = v
  BY <1>2, EntitlementsAssumption DEF IdsOf
<1> QED BY <1>1, <1>2, <1>3, <1>4, <1>5 DEF RcId

\* No step changes who is whose customer, and no customer comes back.
LEMMA RevenueCat ==
    ASSUME EntitlementsInv, [Next]_vars
    PROVE  /\ customer' = customer
           /\ sub' \in [RcId -> {"active", "inactive", "unknown"}]
           /\ \A c \in RcId : sub[c] = "unknown" => sub'[c] = "unknown"
<1> DEFINE Goal == /\ customer' = customer
                   /\ sub' \in [RcId -> {"active", "inactive", "unknown"}]
                   /\ \A c \in RcId : sub[c] = "unknown" => sub'[c] = "unknown"
<1>1. sub \in [RcId -> {"active", "inactive", "unknown"}]
  BY DEF EntitlementsInv, Types
<1>2. ASSUME UNCHANGED <<customer, sub>> PROVE Goal
  BY <1>1, <1>2
<1>3. ASSUME NEW i \in RcId, Change(i) PROVE Goal
  <2>1. customer[i] \in RcId
    BY Customers DEF EntitlementsInv
  <2> QED BY <1>1, <1>3, <2>1 DEF Change
<1>4. ASSUME NEW i \in RcId, NEW j \in RcId, Transfer(i, j) PROVE Goal
  <2>1. customer[i] \in RcId /\ customer[j] \in RcId
    BY Customers DEF EntitlementsInv
  <2>2. /\ customer' = customer /\ sub[customer[i]] = "active" /\ sub[customer[j]] # "unknown"
        /\ sub' = [sub EXCEPT ![customer[i]] = "inactive", ![customer[j]] = "active"]
    BY <1>4 DEF Transfer
  <2> QED BY <1>1, <2>1, <2>2
<1>5. ASSUME NEW i \in RcId, Forget(i) PROVE Goal
  <2>1. customer[i] \in RcId
    BY Customers DEF EntitlementsInv
  <2> QED BY <1>1, <1>5, <2>1 DEF Forget
<1>6. ASSUME NEW h \in Handler, Handle(h) PROVE UNCHANGED <<customer, sub>>
  BY <1>6 DEF Handle, Deliver, Resolve, Fetch, Check, Write, NextId, Finish, rcVars
<1>7. ASSUME NEW h \in Handler, Fail(h) \/ TimeOut(h) \/ Crash(h)
      PROVE  UNCHANGED <<customer, sub>>
  BY <1>7 DEF Fail, TimeOut, Crash, rcVars
<1>8. ASSUME NEW u \in User, NEW action,
             OverrideExpires(u) \/ DeleteUser(u) \/ ManageEntitlement(u, action)
      PROVE  UNCHANGED <<customer, sub>>
  BY <1>8 DEF OverrideExpires, DeleteUser, ManageEntitlement, rcVars
<1>9. CASE UNCHANGED vars
  BY <1>2, <1>9 DEF vars, rcVars
<1> QED BY <1>2, <1>3, <1>4, <1>5, <1>6, <1>7, <1>8, <1>9 DEF Next

\* What a step of h does to the handlers.
LEMMA GoEffect ==
    ASSUME Types, NEW h \in Handler, NEW c \in CallType,
           NEW where \in {"idle", "resolve", "fetch", "check", "write"}, Go(h, where, c)
    PROVE  /\ pc' \in [Handler -> {"idle", "resolve", "fetch", "check", "write"}]
           /\ call' \in [Handler -> CallType]
           /\ pc'[h] = where /\ call'[h] = c
           /\ \A g \in Handler : g # h => pc'[g] = pc[g] /\ call'[g] = call[g]
BY DEF Types, Go

\* A handler that makes no step.
LEMMA HandlerKept ==
    ASSUME EntitlementsInv, [Next]_vars, NEW g \in Handler,
           pc'[g] = pc[g], call'[g] = call[g]
    PROVE  Working(g)' /\ Answered(g)'
<1>1. customer' = customer /\ \A c \in RcId : sub[c] = "unknown" => sub'[c] = "unknown"
  BY RevenueCat
<1>2. Working(g) /\ Answered(g) /\ \A i \in RcId : customer[i] \in RcId
  BY Customers DEF EntitlementsInv
<1>3. Working(g)'
  BY <1>1, <1>2 DEF Working, Closed, IdsOf
<1>4. Answered(g)'
  BY <1>1, <1>2 DEF Answered, Working
<1> QED BY <1>3, <1>4

\* A snapshot that is left alone, or goes.
LEMMA SnapshotKept ==
    ASSUME EntitlementsInv, [Next]_vars, NEW u \in User, row'[u] \in {row[u], None}
    PROVE  Findable(u)'
<1>1. customer' = customer /\ \A c \in RcId : sub[c] = "unknown" => sub'[c] = "unknown"
  BY RevenueCat
<1>2. Findable(u) /\ customer[u] \in RcId
  BY Customers DEF EntitlementsInv, RcId
<1> QED BY <1>1, <1>2 DEF Findable, IdsOf

\* A step of h.  What it must show is what it does to h, to the tables and to
\* what RevenueCat has to deliver.
LEMMA HandlerStep ==
    ASSUME EntitlementsInv, [Next]_vars, NEW h \in Handler, NEW c \in CallType,
           NEW where \in {"idle", "resolve", "fetch", "check", "write"}, Go(h, where, c),
           UNCHANGED <<users, override>>,
           held' \subseteq users, row' \in [User -> RowType \cup {None}],
           \A u \in User : row'[u] # None => u \in users,
           \A e \in outstanding' : Closed(e),
           Working(h)', Answered(h)', \A u \in User : Findable(u)'
    PROVE  EntitlementsInv'
<1>1. Types
  BY DEF EntitlementsInv
<1>2. /\ pc' \in [Handler -> {"idle", "resolve", "fetch", "check", "write"}]
      /\ call' \in [Handler -> CallType]
      /\ \A g \in Handler : g # h => pc'[g] = pc[g] /\ call'[g] = call[g]
  BY <1>1, GoEffect
<1>3. customer' = customer /\ sub' \in [RcId -> {"active", "inactive", "unknown"}]
  BY RevenueCat
<1>4. Types'
  BY <1>1, <1>2, <1>3 DEF Types
<1>5. \A g \in Handler : Working(g)' /\ Answered(g)'
  BY <1>2, HandlerKept
<1>6. \A e \in outstanding' : Closed(e)'
  BY <1>3 DEF Closed
<1> QED BY <1>4, <1>5, <1>6 DEF EntitlementsInv

\* A step of h that leaves the tables alone but for `held`.
LEMMA ReadingStep ==
    ASSUME EntitlementsInv, [Next]_vars, NEW h \in Handler, NEW c \in CallType,
           NEW where \in {"idle", "resolve", "fetch", "check", "write"}, Go(h, where, c),
           UNCHANGED <<users, row, override>>, held' \subseteq users,
           \A e \in outstanding' : Closed(e),
           Working(h)', Answered(h)'
    PROVE  EntitlementsInv'
<1>1. /\ row \in [User -> RowType \cup {None}]
      /\ \A u \in User : row[u] # None => u \in users
  BY DEF EntitlementsInv, Types
<1>2. \A u \in User : Findable(u)'
  BY SnapshotKept
<1> QED BY <1>1, <1>2, HandlerStep

\* What is known of h when it takes a step.
LEMMA HandlerFacts ==
    ASSUME EntitlementsInv, [Next]_vars, NEW h \in Handler
    PROVE  /\ Types /\ users \subseteq User /\ held \subseteq users
           /\ call[h] \in CallType /\ pc[h] \in {"idle", "resolve", "fetch", "check", "write"}
           /\ Working(h) /\ Answered(h) /\ \A e \in outstanding : Closed(e)
           /\ customer' = customer
           /\ \A e : Closed(e) => e \in SUBSET RcId /\ e # {} /\ Closed(e)'
           /\ \A i \in RcId : customer[i] \in RcId
<1>1. Types /\ customer' = customer
  BY RevenueCat DEF EntitlementsInv
<1>2. ASSUME NEW e, Closed(e) PROVE e \in SUBSET RcId /\ e # {} /\ Closed(e)'
  <2>1. e \in (SUBSET RcId) \ {{}} /\ \A i \in e : customer[i] \in e
    BY <1>2 DEF Closed
  <2>2. e # {}
    BY <2>1
  <2> QED BY <1>1, <2>1, <2>2 DEF Closed
<1>3. Working(h) /\ Answered(h) /\ \A e \in outstanding : Closed(e)
  BY DEF EntitlementsInv
<1>4. \A i \in RcId : customer[i] \in RcId
  BY <1>1, Customers
<1> QED BY <1>1, <1>2, <1>3, <1>4 DEF Types

LEMMA NoCallType == NoCall \in CallType /\ NoCall.event = {}
BY DEF NoCall, CallType

LEMMA DeliverStep ==
    ASSUME EntitlementsInv, [Next]_vars, NEW h \in Handler, Deliver(h)
    PROVE  EntitlementsInv'
<1>1. PICK e \in outstanding :
         /\ outstanding' = outstanding \ {e}
         /\ Go(h, "resolve", [NoCall EXCEPT !.event = e, !.todo = e])
  BY DEF Deliver
<1> DEFINE c == [NoCall EXCEPT !.event = e, !.todo = e]
<1>2. Closed(e) /\ e \in SUBSET RcId /\ e # {}
  BY HandlerFacts
<1>3. c \in CallType /\ c.event = e /\ c.todo = e
  BY <1>2, NoCallType DEF NoCall, CallType
<1> HIDE DEF c
<1>4. pc'[h] = "resolve" /\ call'[h] = c
  BY <1>1, <1>3, HandlerFacts, GoEffect DEF c
<1>5. Working(h)' /\ Answered(h)'
  <2>1. c # NoCall
    BY <1>2, <1>3, NoCallType
  <2> QED BY <1>2, <1>3, <1>4, <2>1, HandlerFacts DEF Working, Answered
<1> QED BY <1>1, <1>3, <1>5, ReadingStep, HandlerFacts DEF Deliver, dbVars, c

\* The users an id stands for.
LEMMA LocalUsersOf ==
    ASSUME EntitlementsInv, NEW i \in RcId
    PROVE  /\ LocalUsers(i) \subseteq users
           /\ \A u \in LocalUsers(i) : i \in IdsOf(u)
<1>1. users \subseteq User /\ \A u \in User : Findable(u)
  BY DEF EntitlementsInv, Types
<1>2. \A u \in Associated(i) : i \in IdsOf(u)
  BY <1>1, EntitlementsAssumption DEF Associated, Findable, IdsOf, RcId
<1> QED BY <1>1, <1>2 DEF LocalUsers, Associated, IdsOf

LEMMA ResolveStep ==
    ASSUME EntitlementsInv, [Next]_vars, NEW h \in Handler, Resolve(h)
    PROVE  EntitlementsInv'
<1>1. PICK i \in call[h].todo :
         Go(h, IF LocalUsers(i) = {} THEN "resolve" ELSE "fetch",
            [call[h] EXCEPT !.todo = @ \ {i}, !.id = i, !.targets = LocalUsers(i)])
  BY HandlerFacts DEF Resolve, CallType
<1> DEFINE c == [call[h] EXCEPT !.todo = @ \ {i}, !.id = i, !.targets = LocalUsers(i)]
           where == IF LocalUsers(i) = {} THEN "resolve" ELSE "fetch"
<1>2. pc[h] = "resolve" /\ UNCHANGED <<users, row, override, held, outstanding>>
  BY DEF Resolve, dbVars
<1>3. /\ Closed(call[h].event) /\ call[h].todo \subseteq call[h].event /\ i \in RcId
      /\ call[h].event # {}
  BY <1>2, HandlerFacts DEF Working
<1>4. LocalUsers(i) \subseteq User /\ \A u \in LocalUsers(i) : i \in IdsOf(u)
  BY <1>3, LocalUsersOf, HandlerFacts
<1>5. /\ c \in CallType /\ c.event = call[h].event /\ c.todo = call[h].todo \ {i} /\ c.id = i
      /\ c.targets = LocalUsers(i)
  BY <1>3, <1>4, HandlerFacts DEF CallType
<1>6. where \in {"resolve", "fetch"} /\ Go(h, where, c)
  BY <1>1
<1> HIDE DEF c, where
<1>7. pc'[h] = where /\ call'[h] = c
  BY <1>5, <1>6, HandlerFacts, GoEffect
<1>8. Working(h)' /\ Answered(h)'
  <2>1. c # NoCall
    BY <1>3, <1>5, NoCallType
  <2>2. \A u \in c.targets : i \in IdsOf(u)'
    BY <1>4, <1>5, HandlerFacts DEF IdsOf
  <2> QED BY <1>3, <1>5, <1>6, <1>7, <2>1, <2>2, HandlerFacts DEF Working, Answered
<1>9. held' \subseteq users /\ \A e \in outstanding' : Closed(e)
  BY <1>2, HandlerFacts
<1> QED BY <1>2, <1>5, <1>6, <1>8, <1>9, ReadingStep

LEMMA FetchStep ==
    ASSUME EntitlementsInv, [Next]_vars, NEW h \in Handler, Fetch(h)
    PROVE  EntitlementsInv'
<1> DEFINE canonical == customer[call[h].id]
           c == [call[h] EXCEPT !.seen = sub[canonical], !.original = canonical]
<1>1. pc[h] = "fetch" /\ Go(h, "check", c) /\ UNCHANGED <<users, row, override, held, outstanding>>
  BY DEF Fetch, dbVars
<1>2. /\ Closed(call[h].event) /\ call[h].todo \subseteq call[h].event /\ call[h].id \in RcId
      /\ call[h].event # {} /\ \A u \in call[h].targets : call[h].id \in IdsOf(u)
  BY <1>1, HandlerFacts DEF Working
<1>3. /\ canonical \in RcId /\ sub[canonical] \in {"active", "inactive", "unknown"}
      /\ UNCHANGED sub
  BY <1>2, HandlerFacts DEF Types, Fetch, rcVars
<1>4. /\ c \in CallType /\ c.event = call[h].event /\ c.todo = call[h].todo
      /\ c.id = call[h].id /\ c.targets = call[h].targets
      /\ c.seen = sub[canonical] /\ c.original = canonical
  <2> HIDE DEF canonical
  <2>1. call[h] \in CallType
    BY HandlerFacts
  <2> QED BY <1>3, <2>1 DEF CallType
<1> HIDE DEF c
<1>5. pc'[h] = "check" /\ call'[h] = c
  BY <1>1, <1>4, HandlerFacts, GoEffect
<1>6. Working(h)'
  <2>1. c # NoCall
    BY <1>2, <1>4, NoCallType
  <2>2. \A u \in c.targets : c.id \in IdsOf(u)'
    BY <1>2, <1>4, HandlerFacts DEF IdsOf
  <2> QED BY <1>2, <1>4, <1>5, <2>1, <2>2, HandlerFacts DEF Working
<1>7. Answered(h)'
  <2>1. sub[canonical] # None
    BY <1>3, EntitlementsAssumption
  <2> QED BY <1>3, <1>4, <1>5, <2>1, HandlerFacts DEF Answered
<1>8. held' \subseteq users /\ \A e \in outstanding' : Closed(e)
  BY <1>1, HandlerFacts
<1> QED BY <1>1, <1>4, <1>6, <1>7, <1>8, ReadingStep

\* A step of h under the id it is looking at, which takes something off its list.
LEMMA SameId ==
    ASSUME EntitlementsInv, [Next]_vars, NEW h \in Handler, NEW c \in CallType,
           NEW where \in {"resolve", "check", "write"}, Go(h, where, c), pc[h] # "idle",
           c.event = call[h].event, c.todo \subseteq call[h].todo, c.id = call[h].id,
           c.targets \subseteq call[h].targets,
           where \in {"check", "write"} => /\ pc[h] \in {"check", "write"}
                                           /\ c.seen = call[h].seen
                                           /\ c.original = call[h].original,
           where = "write" => c.user \in User /\ c.id \in IdsOf(c.user)
    PROVE  Working(h)' /\ Answered(h)'
<1>1. pc'[h] = where /\ call'[h] = c
  BY HandlerFacts, GoEffect
<1>2. Closed(c.event) /\ c.todo \subseteq c.event /\ c.event # {}
  BY HandlerFacts DEF Working
<1>3. c # NoCall
  BY <1>2, NoCallType
<1>4. where \in {"check", "write"} => c.id \in RcId /\ \A u \in c.targets : c.id \in IdsOf(u)'
  <2>1. where \in {"check", "write"} =>
          c.id \in RcId /\ \A u \in c.targets : c.id \in IdsOf(u)
    BY HandlerFacts DEF Working
  <2> QED BY <2>1, HandlerFacts DEF IdsOf
<1>5. where = "write" => c.user \in User /\ c.id \in IdsOf(c.user)'
  BY HandlerFacts DEF IdsOf
<1>6. Closed(c.event)'
  BY <1>2, HandlerFacts
<1>7. Working(h)'
  BY <1>1, <1>2, <1>3, <1>4, <1>5, <1>6 DEF Working
<1>8. Answered(h)'
  <2>1. where \in {"check", "write"} =>
          /\ c.seen # None /\ c.original = customer[c.id]
          /\ c.seen = "unknown" => sub[customer[c.id]] = "unknown"
    BY HandlerFacts DEF Answered
  <2>2. where \in {"check", "write"} => customer[c.id] \in RcId
    BY <1>4, HandlerFacts
  <2>3. \A i \in RcId : sub[i] = "unknown" => sub'[i] = "unknown"
    BY RevenueCat
  <2> QED BY <1>1, <2>1, <2>2, <2>3, HandlerFacts DEF Answered
<1> QED BY <1>7, <1>8

LEMMA CheckStep ==
    ASSUME EntitlementsInv, [Next]_vars, NEW h \in Handler, Check(h)
    PROVE  EntitlementsInv'
<1>1. /\ pc[h] = "check" /\ UNCHANGED <<users, row, override, outstanding>>
      /\ call[h] \in CallType
  BY HandlerFacts DEF Check
<1>2. PICK u \in call[h].targets :
        LET rest == [call[h] EXCEPT !.targets = @ \ {u}]
        IN  IF override[u] = None
            THEN /\ Go(h, "write", [rest EXCEPT !.user = u])
                 /\ UNCHANGED held
            ELSE /\ Go(h, "check", rest)
                 /\ held' = held \cup {u}
  BY DEF Check
<1>3. u \in User /\ call[h].id \in IdsOf(u)
  BY <1>1, HandlerFacts DEF Working, CallType
<1> DEFINE rest == [call[h] EXCEPT !.targets = @ \ {u}]
           c    == [rest EXCEPT !.user = u]
<1>4. /\ rest \in CallType /\ rest.event = call[h].event /\ rest.todo = call[h].todo
      /\ rest.id = call[h].id /\ rest.targets = call[h].targets \ {u}
      /\ rest.seen = call[h].seen /\ rest.original = call[h].original
  BY <1>1 DEF CallType
<1>5. /\ c \in CallType /\ c.event = call[h].event /\ c.todo = call[h].todo
      /\ c.id = call[h].id /\ c.targets = call[h].targets \ {u} /\ c.user = u
      /\ c.seen = call[h].seen /\ c.original = call[h].original
  <2> HIDE DEF rest
  <2> QED BY <1>3, <1>4 DEF CallType
<1>6. \A e \in outstanding' : Closed(e)
  BY <1>1, HandlerFacts
<1>7. CASE override[u] = None
  <2>1. Go(h, "write", c) /\ held' \subseteq users
    BY <1>2, <1>7, HandlerFacts
  <2> HIDE DEF c
  <2> QED BY <1>1, <1>3, <1>5, <1>6, <2>1, SameId, ReadingStep
<1>8. CASE override[u] # None
  <2>1. Go(h, "check", rest) /\ held' = held \cup {u} /\ u \in users
    BY <1>2, <1>3, <1>8, HandlerFacts DEF Types
  <2> HIDE DEF rest
  <2> QED BY <1>1, <1>4, <1>6, <2>1, SameId, ReadingStep, HandlerFacts
<1> QED BY <1>7, <1>8

\* What an upsert leaves is found by its user's customer.
LEMMA SnapshotFindable ==
    ASSUME EntitlementsInv, NEW h \in Handler, pc[h] = "write"
    PROVE  LET s == Snapshot(call[h])
               u == call[h].user
           IN  /\ u \in User /\ s \in RowType /\ s.app = call[h].id
               /\ s.active = (call[h].seen = "active")
               /\ s.app \in IdsOf(u)
               /\ \/ s.original = customer[u]
                  \/ s.original = None /\ ~s.active /\ sub[customer[u]] = "unknown"
<1> DEFINE s == Snapshot(call[h])
           u == call[h].user
<1>1. /\ u \in User /\ call[h].id \in RcId /\ call[h].id \in IdsOf(u)
      /\ call[h].original = customer[call[h].id]
      /\ call[h].seen = "unknown" => sub[customer[call[h].id]] = "unknown"
      /\ Findable(u) /\ Types
  BY DEF EntitlementsInv, Working, Answered
<1>2. customer[call[h].id] = customer[u] /\ customer[u] \in RcId
  BY <1>1, Customers
<1>3. row[u] \in RowType \cup {None}
  BY <1>1 DEF Types
<1>4. /\ s.active = (call[h].seen = "active") /\ s.app = call[h].id
      /\ s.original = IF call[h].seen # "unknown" THEN call[h].original
                      ELSE IF row[u] = None THEN None ELSE row[u].original
  BY DEF Snapshot
<1>5. \/ s.original = customer[u]
      \/ s.original = None /\ ~s.active /\ sub[customer[u]] = "unknown"
  <2>1. CASE call[h].seen # "unknown"
    BY <1>1, <1>2, <1>4, <2>1
  <2>2. CASE call[h].seen = "unknown"
    BY <1>1, <1>2, <1>4, <2>2 DEF Findable
  <2> QED BY <2>1, <2>2
<1>6. s \in RowType
  <2>1. s = [active |-> s.active, app |-> s.app, original |-> s.original]
    BY <1>4 DEF Snapshot
  <2>2. s.active \in BOOLEAN /\ s.app \in RcId /\ s.original \in RcId \cup {None}
    BY <1>1, <1>2, <1>4, <1>5
  <2> HIDE DEF s
  <2> QED BY <2>1, <2>2 DEF RowType
<1> QED BY <1>1, <1>4, <1>5, <1>6

LEMMA WriteStep ==
    ASSUME EntitlementsInv, [Next]_vars, NEW h \in Handler, Write(h)
    PROVE  EntitlementsInv'
<1> DEFINE u == call[h].user
           s == Snapshot(call[h])
<1>1. /\ pc[h] = "write" /\ UNCHANGED <<users, override, outstanding>>
      /\ call[h] \in CallType
  BY HandlerFacts DEF Write
<1>2. \A e \in outstanding' : Closed(e)
  BY <1>1, HandlerFacts
<1>3. /\ row \in [User -> RowType \cup {None}]
      /\ \A v \in User : row[v] # None => v \in users
  BY HandlerFacts DEF Types
<1>4. CASE u \in users
  <2>1. Go(h, "check", call[h]) /\ row' = [row EXCEPT ![u] = s] /\ held' \subseteq users
    BY <1>4, HandlerFacts DEF Write
  <2>2. /\ u \in User /\ s \in RowType /\ s.app \in IdsOf(u)
        /\ \/ s.original = customer[u]
           \/ s.original = None /\ ~s.active /\ sub[customer[u]] = "unknown"
    BY <1>1, SnapshotFindable
  <2>3. /\ row' \in [User -> RowType \cup {None}] /\ row'[u] = s
        /\ \A v \in User \ {u} : row'[v] = row[v]
        /\ \A v \in User : row'[v] # None => v \in users
    BY <1>3, <1>4, <2>1, <2>2
  <2>4. UNCHANGED <<customer, sub>>
    BY DEF Write, rcVars
  <2>5. ASSUME NEW v \in User, v = u PROVE Findable(v)'
    <3>1. /\ row'[v].app \in IdsOf(v)
          /\ \/ row'[v].original = customer[v]
             \/ row'[v].original = None /\ ~row'[v].active /\ sub[customer[v]] = "unknown"
      BY <2>2, <2>3, <2>5
    <3> QED BY <2>4, <3>1 DEF Findable, IdsOf
  <2>6. \A v \in User : Findable(v)'
    <3>1. \A v \in User : v # u => Findable(v)'
      BY <2>3, SnapshotKept
    <3> QED BY <2>5, <3>1
  <2>7. Working(h)' /\ Answered(h)'
    BY <1>1, <2>1, SameId
  <2> QED BY <1>1, <1>2, <2>1, <2>3, <2>6, <2>7, HandlerStep
<1>5. CASE u \notin users
  <2> DEFINE c == [call[h] EXCEPT !.failed = TRUE]
  <2>1. Go(h, "check", c) /\ UNCHANGED <<row, held>>
    BY <1>5 DEF Write
  <2>2. /\ c \in CallType /\ c.event = call[h].event /\ c.todo = call[h].todo
        /\ c.id = call[h].id /\ c.targets = call[h].targets
        /\ c.seen = call[h].seen /\ c.original = call[h].original
    BY <1>1 DEF CallType
  <2> HIDE DEF c
  <2>3. Working(h)' /\ Answered(h)'
    BY <1>1, <2>1, <2>2, SameId
  <2> QED BY <1>1, <1>2, <2>1, <2>2, <2>3, ReadingStep, HandlerFacts
<1> QED BY <1>4, <1>5

LEMMA NextIdStep ==
    ASSUME EntitlementsInv, [Next]_vars, NEW h \in Handler, NextId(h)
    PROVE  EntitlementsInv'
<1>1. /\ pc[h] = "check" /\ Go(h, "resolve", call[h]) /\ call[h] \in CallType
      /\ UNCHANGED <<users, row, override, held, outstanding>>
  BY HandlerFacts DEF NextId, dbVars
<1>2. Working(h)' /\ Answered(h)'
  BY <1>1, SameId
<1> QED BY <1>1, <1>2, ReadingStep, HandlerFacts

\* A handler that is done, or dead.
LEMMA IdleOk ==
    ASSUME EntitlementsInv, [Next]_vars, NEW h \in Handler, Go(h, "idle", NoCall)
    PROVE  Working(h)' /\ Answered(h)'
<1>1. pc'[h] = "idle" /\ call'[h] = NoCall
  BY HandlerFacts, GoEffect, NoCallType
<1> QED BY <1>1 DEF Working, Answered

LEMMA FinishStep ==
    ASSUME EntitlementsInv, [Next]_vars, NEW h \in Handler, Finish(h)
    PROVE  EntitlementsInv'
<1>1. /\ Go(h, "idle", NoCall) /\ pc[h] = "resolve"
      /\ outstanding' \subseteq outstanding \cup {call[h].event}
      /\ UNCHANGED <<users, row, override, held>>
  BY DEF Finish, dbVars
<1>2. \A e \in outstanding' : Closed(e)
  BY <1>1, HandlerFacts DEF Working
<1> QED BY <1>1, <1>2, IdleOk, ReadingStep, HandlerFacts, NoCallType

LEMMA FailStep ==
    ASSUME EntitlementsInv, [Next]_vars, NEW h \in Handler, Fail(h)
    PROVE  EntitlementsInv'
<1> DEFINE c == [call[h] EXCEPT !.failed = TRUE]
<1>1. /\ call[h] \in CallType
      /\ UNCHANGED <<users, row, override, held, outstanding>>
  BY HandlerFacts DEF Fail, dbVars
<1>2. /\ c \in CallType /\ c.event = call[h].event /\ c.todo = call[h].todo
      /\ c.id = call[h].id /\ c.targets = call[h].targets
      /\ c.seen = call[h].seen /\ c.original = call[h].original
  BY <1>1 DEF CallType
<1>3. \/ pc[h] = "resolve" /\ \E i \in c.todo : Go(h, "resolve", [c EXCEPT !.todo = @ \ {i}])
      \/ pc[h] = "fetch" /\ Go(h, "resolve", c)
      \/ pc[h] = "check" /\ \E u \in c.targets : Go(h, "check", [c EXCEPT !.targets = @ \ {u}])
      \/ pc[h] = "write" /\ Go(h, "check", c)
  BY DEF Fail
<1>4. \A e \in outstanding' : Closed(e)
  BY <1>1, HandlerFacts
<1> HIDE DEF c
<1>5. CASE pc[h] = "resolve" /\ \E i \in c.todo : Go(h, "resolve", [c EXCEPT !.todo = @ \ {i}])
  <2> PICK i \in c.todo : Go(h, "resolve", [c EXCEPT !.todo = @ \ {i}])
    BY <1>5
  <2> DEFINE d == [c EXCEPT !.todo = @ \ {i}]
  <2>1. /\ d \in CallType /\ d.event = c.event /\ d.todo \subseteq c.todo
        /\ d.id = c.id /\ d.targets = c.targets
    BY <1>2 DEF CallType
  <2>2. Go(h, "resolve", d)
    OBVIOUS
  <2> HIDE DEF d
  <2>3. Working(h)' /\ Answered(h)'
    BY <1>2, <1>5, <2>1, <2>2, SameId
  <2> QED BY <1>1, <1>4, <2>1, <2>2, <2>3, ReadingStep, HandlerFacts
<1>6. CASE pc[h] = "fetch" /\ Go(h, "resolve", c)
  <2>1. Working(h)' /\ Answered(h)'
    BY <1>2, <1>6, SameId
  <2> QED BY <1>1, <1>2, <1>4, <1>6, <2>1, ReadingStep, HandlerFacts
<1>7. CASE pc[h] = "check" /\ \E u \in c.targets : Go(h, "check", [c EXCEPT !.targets = @ \ {u}])
  <2> PICK u \in c.targets : Go(h, "check", [c EXCEPT !.targets = @ \ {u}])
    BY <1>7
  <2> DEFINE d == [c EXCEPT !.targets = @ \ {u}]
  <2>1. /\ d \in CallType /\ d.event = c.event /\ d.todo = c.todo
        /\ d.id = c.id /\ d.targets \subseteq c.targets
        /\ d.seen = c.seen /\ d.original = c.original
    BY <1>2 DEF CallType
  <2>2. Go(h, "check", d)
    OBVIOUS
  <2> HIDE DEF d
  <2>3. Working(h)' /\ Answered(h)'
    BY <1>2, <1>7, <2>1, <2>2, SameId
  <2> QED BY <1>1, <1>4, <2>1, <2>2, <2>3, ReadingStep, HandlerFacts
<1>8. CASE pc[h] = "write" /\ Go(h, "check", c)
  <2>1. Working(h)' /\ Answered(h)'
    BY <1>2, <1>8, SameId
  <2> QED BY <1>1, <1>2, <1>4, <1>8, <2>1, ReadingStep, HandlerFacts
<1> QED BY <1>3, <1>5, <1>6, <1>7, <1>8

LEMMA CrashStep ==
    ASSUME EntitlementsInv, [Next]_vars, NEW h \in Handler, Crash(h)
    PROVE  EntitlementsInv'
<1>1. /\ Go(h, "idle", NoCall) /\ pc[h] # "idle"
      /\ outstanding' = outstanding \cup {call[h].event}
      /\ UNCHANGED <<users, row, override, held>>
  BY DEF Crash, dbVars
<1>2. \A e \in outstanding' : Closed(e)
  BY <1>1, HandlerFacts DEF Working
<1> QED BY <1>1, <1>2, IdleOk, ReadingStep, HandlerFacts, NoCallType

\* A step of RevenueCat, of an administrator, or of a user: no handler moves.
LEMMA OtherStep ==
    ASSUME EntitlementsInv, [Next]_vars, UNCHANGED <<pc, call>>,
           users' \subseteq users, held' \subseteq users',
           row' \in [User -> RowType \cup {None}], \A u \in User : row'[u] \in {row[u], None},
           override' \in [User -> {"grant", "revoke", None}],
           \A u \in User : row'[u] # None \/ override'[u] # None => u \in users',
           \A e \in outstanding' : Closed(e)
    PROVE  EntitlementsInv'
<1>1. Types
  BY DEF EntitlementsInv
<1>2. customer' = customer /\ sub' \in [RcId -> {"active", "inactive", "unknown"}]
  BY RevenueCat
<1>3. Types'
  BY <1>1, <1>2 DEF Types
<1>4. \A g \in Handler : Working(g)' /\ Answered(g)'
  BY HandlerKept
<1>5. \A u \in User : Findable(u)'
  BY SnapshotKept
<1>6. \A e \in outstanding' : Closed(e)'
  BY <1>2 DEF Closed
<1> QED BY <1>3, <1>4, <1>5, <1>6 DEF EntitlementsInv

\* What RevenueCat announces.
LEMMA Announcements ==
    ASSUME Types, NEW i \in RcId, NEW j \in RcId
    PROVE  Closed({i, customer[i]}) /\ Closed({i, customer[i], j, customer[j]})
<1>1. /\ customer[i] \in RcId /\ customer[customer[i]] = customer[i]
      /\ customer[j] \in RcId /\ customer[customer[j]] = customer[j]
  BY Customers
<1> QED BY <1>1 DEF Closed

LEMMA OtherSteps ==
    ASSUME EntitlementsInv, [Next]_vars,
           \/ \E i \in RcId : Change(i) \/ Forget(i)
           \/ \E i, j \in RcId : Transfer(i, j)
           \/ \E u \in User : OverrideExpires(u) \/ DeleteUser(u)
           \/ \E u \in User, action \in {"grant", "revoke"} : ManageEntitlement(u, action)
           \/ \E h \in Handler : TimeOut(h)
           \/ UNCHANGED vars
    PROVE  EntitlementsInv'
<1>1. /\ Types /\ row \in [User -> RowType \cup {None}] /\ held \subseteq users
      /\ override \in [User -> {"grant", "revoke", None}]
      /\ \A u \in User : row[u] # None \/ override[u] # None => u \in users
      /\ \A e \in outstanding : Closed(e)
  BY DEF EntitlementsInv, Types
<1>2. ASSUME UNCHANGED <<pc, call, users, held, row, override>>,
             \A e \in outstanding' : Closed(e)
      PROVE  EntitlementsInv'
  BY <1>1, <1>2, OtherStep
<1>3. ASSUME NEW i \in RcId, Change(i) PROVE EntitlementsInv'
  BY <1>1, <1>2, <1>3, Announcements DEF Change, Event, dbVars
<1>4. ASSUME NEW i \in RcId, NEW j \in RcId, Transfer(i, j) PROVE EntitlementsInv'
  BY <1>1, <1>2, <1>4, Announcements DEF Transfer, Event, dbVars
<1>5. ASSUME NEW i \in RcId, Forget(i) PROVE EntitlementsInv'
  BY <1>1, <1>2, <1>5 DEF Forget, dbVars
<1>6. ASSUME NEW u \in User, OverrideExpires(u) PROVE EntitlementsInv'
  BY <1>1, <1>6, OtherStep DEF OverrideExpires
<1>7. ASSUME NEW u \in User, DeleteUser(u) PROVE EntitlementsInv'
  BY <1>1, <1>7, OtherStep DEF DeleteUser
<1>8. ASSUME NEW u \in User, NEW action \in {"grant", "revoke"}, ManageEntitlement(u, action)
      PROVE  EntitlementsInv'
  BY <1>1, <1>8, OtherStep DEF ManageEntitlement
<1>9. ASSUME NEW h \in Handler, TimeOut(h) PROVE EntitlementsInv'
  <2>1. Closed(call[h].event)
    BY <1>9, HandlerFacts DEF TimeOut, Working
  <2> QED BY <1>1, <1>2, <1>9, <2>1 DEF TimeOut, dbVars
<1>10. CASE UNCHANGED vars
  BY <1>1, <1>2, <1>10 DEF vars, dbVars
<1> QED BY <1>3, <1>4, <1>5, <1>6, <1>7, <1>8, <1>9, <1>10

LEMMA EntitlementsStep == EntitlementsInv /\ [Next]_vars => EntitlementsInv'
<1> SUFFICES ASSUME EntitlementsInv, [Next]_vars PROVE EntitlementsInv'
  OBVIOUS
<1>1. ASSUME NEW h \in Handler, Handle(h) PROVE EntitlementsInv'
  BY <1>1, DeliverStep, ResolveStep, FetchStep, CheckStep, WriteStep, NextIdStep, FinishStep
     DEF Handle
<1>2. ASSUME NEW h \in Handler, Fail(h) \/ Crash(h) PROVE EntitlementsInv'
  BY <1>2, FailStep, CrashStep
<1> QED BY <1>1, <1>2, OtherSteps DEF Next

LEMMA EntitlementsInit == Init => EntitlementsInv
<1> SUFFICES ASSUME Init PROVE EntitlementsInv
  OBVIOUS
<1>1. Types
  BY NoCallType, EntitlementsAssumption DEF Init, Types
<1>2. \A h \in Handler : Working(h) /\ Answered(h)
  BY DEF Init, Working, Answered
<1>3. \A u \in User : Findable(u)
  BY DEF Init, Findable
<1> QED BY <1>1, <1>2, <1>3 DEF Init, EntitlementsInv

\* The types, the foreign keys, what a handler works on, and that a snapshot is
\* found by its user's customer, for any number of users, ids and deliveries at
\* once.
THEOREM EntitlementsInvariant == Spec => []EntitlementsInv
BY EntitlementsInit, EntitlementsStep, PTL DEF Spec

\* A row or an override belongs to a user who exists, however late a webhook
\* writes it; every variable has its type.
THEOREM EntitlementsTypeCorrect == Spec => []TypeOK
<1>1. EntitlementsInv => TypeOK
  <2> SUFFICES ASSUME EntitlementsInv PROVE TypeOK
    OBVIOUS
  <2>1. outstanding \subseteq SUBSET RcId
    BY DEF EntitlementsInv, Closed
  <2>2. \A h \in Handler :
          /\ pc[h] \in {"idle", "resolve", "fetch", "check", "write"}
          /\ pc[h] \in {"check", "write"} => call[h].seen # None
          /\ pc[h] = "idle" <=> call[h] = NoCall
    BY DEF EntitlementsInv, Types, Working, Answered
  <2> QED BY <2>1, <2>2 DEF EntitlementsInv, Types, TypeOK, RowType
<1> QED BY <1>1, EntitlementsInvariant, PTL

----------------------------------------------------------------------------
(* One delivery at a time.                                                 *)

\* What changes at RevenueCat is announced.
LEMMA ChangesAnnounced ==
    ASSUME EntitlementsInv, [Next]_vars, NEW c \in RcId, sub'[c] # sub[c]
    PROVE  Announced(c)'
<1>1. /\ Types /\ sub \in [RcId -> {"active", "inactive", "unknown"}]
      /\ \A i \in RcId : customer[i] \in RcId
  BY Customers DEF EntitlementsInv, Types
<1>2. ASSUME NEW i \in RcId, Change(i) PROVE Announced(c)'
  <2>1. c = customer[i]
    BY <1>1, <1>2 DEF Change
  <2>2. {i, customer[i]} \in outstanding'
    BY <1>2 DEF Change, Event
  <2> QED BY <2>1, <2>2 DEF Announced
<1>3. ASSUME NEW i \in RcId, NEW j \in RcId, Transfer(i, j) PROVE Announced(c)'
  <2>1. c \in {customer[i], customer[j]}
    BY <1>1, <1>3 DEF Transfer
  <2>2. {i, customer[i], j, customer[j]} \in outstanding'
    BY <1>3 DEF Transfer, Event
  <2> QED BY <2>1, <2>2 DEF Announced
<1>4. ASSUME NEW i \in RcId, Forget(i) PROVE Announced(c)'
  <2>1. c = customer[i]
    BY <1>1, <1>4 DEF Forget
  <2>2. outstanding' = outstanding /\ \E e \in outstanding : {i, customer[i]} \subseteq e
    BY <1>4 DEF Forget
  <2> QED BY <2>1, <2>2 DEF Announced
<1>5. ASSUME NEW h \in Handler, Handle(h) PROVE UNCHANGED sub
  BY <1>5 DEF Handle, Deliver, Resolve, Fetch, Check, Write, NextId, Finish, rcVars
<1>6. ASSUME NEW h \in Handler, Fail(h) \/ TimeOut(h) \/ Crash(h) PROVE UNCHANGED sub
  BY <1>6 DEF Fail, TimeOut, Crash, rcVars
<1>7. ASSUME NEW u \in User, NEW action,
             OverrideExpires(u) \/ DeleteUser(u) \/ ManageEntitlement(u, action)
      PROVE  UNCHANGED sub
  BY <1>7 DEF OverrideExpires, DeleteUser, ManageEntitlement, rcVars
<1>8. CASE UNCHANGED vars
  BY <1>8 DEF vars, rcVars
<1> QED BY <1>2, <1>3, <1>4, <1>5, <1>6, <1>7, <1>8 DEF Next

\* An event stays outstanding until it is delivered.
LEMMA NothingWithdrawn ==
    ASSUME [Next]_vars
    PROVE  outstanding \subseteq outstanding' \/ \E h \in Handler : Deliver(h)
<1>1. ASSUME NEW h \in Handler, Handle(h), ~Deliver(h) PROVE outstanding \subseteq outstanding'
  BY <1>1 DEF Handle, Resolve, Fetch, Check, Write, NextId, Finish
<1>2. ASSUME NEW h \in Handler, Fail(h) \/ TimeOut(h) \/ Crash(h)
      PROVE  outstanding \subseteq outstanding'
  BY <1>2 DEF Fail, TimeOut, Crash
<1>3. ASSUME NEW u \in User, NEW action,
             OverrideExpires(u) \/ DeleteUser(u) \/ ManageEntitlement(u, action)
      PROVE  outstanding \subseteq outstanding'
  BY <1>3 DEF OverrideExpires, DeleteUser, ManageEntitlement
<1>4. ASSUME NEW i \in RcId, Change(i) \/ Forget(i) PROVE outstanding \subseteq outstanding'
  BY <1>4 DEF Change, Forget, Event
<1>5. ASSUME NEW i \in RcId, NEW j \in RcId, Transfer(i, j)
      PROVE  outstanding \subseteq outstanding'
  BY <1>5 DEF Transfer, Event
<1>6. CASE UNCHANGED vars
  BY <1>6 DEF vars
<1> QED BY <1>1, <1>2, <1>3, <1>4, <1>5, <1>6 DEF Next

\* The steps of h itself.
Moves(h) ==
    \/ Deliver(h) \/ Resolve(h) \/ Fetch(h) \/ Check(h) \/ Write(h) \/ NextId(h) \/ Finish(h)
    \/ Fail(h) \/ Crash(h)

LEMMA OthersStay ==
    ASSUME Types, [Next]_vars, NEW g \in Handler, ~Moves(g)
    PROVE  pc'[g] = pc[g] /\ call'[g] = call[g]
<1>1. /\ pc \in [Handler -> {"idle", "resolve", "fetch", "check", "write"}]
      /\ call \in [Handler -> CallType]
  BY DEF Types
<1>2. ASSUME NEW h \in Handler, NEW where, NEW c, Go(h, where, c), h # g
      PROVE  pc'[g] = pc[g] /\ call'[g] = call[g]
  BY <1>1, <1>2 DEF Go
<1>3. ASSUME NEW h \in Handler, Handle(h) PROVE pc'[g] = pc[g] /\ call'[g] = call[g]
  <2>1. h # g /\ \E where, c : Go(h, where, c)
    BY <1>3 DEF Handle, Moves, Deliver, Resolve, Fetch, Check, Write, NextId, Finish
  <2> QED BY <1>2, <2>1
<1>4. ASSUME NEW h \in Handler, Fail(h) \/ Crash(h) PROVE pc'[g] = pc[g] /\ call'[g] = call[g]
  <2>1. h # g /\ \E where, c : Go(h, where, c)
    BY <1>4 DEF Moves, Fail, Crash
  <2> QED BY <1>2, <2>1
<1>5. ASSUME UNCHANGED <<pc, call>> PROVE pc'[g] = pc[g] /\ call'[g] = call[g]
  BY <1>5
<1>6. ASSUME NEW i \in RcId, Change(i) \/ Forget(i) PROVE UNCHANGED <<pc, call>>
  BY <1>6 DEF Change, Forget, Event
<1>7. ASSUME NEW i \in RcId, NEW j \in RcId, Transfer(i, j) PROVE UNCHANGED <<pc, call>>
  BY <1>7 DEF Transfer, Event
<1>8. ASSUME NEW u \in User, NEW action,
             OverrideExpires(u) \/ DeleteUser(u) \/ ManageEntitlement(u, action)
      PROVE  UNCHANGED <<pc, call>>
  BY <1>8 DEF OverrideExpires, DeleteUser, ManageEntitlement
<1>9. ASSUME NEW h \in Handler, TimeOut(h) PROVE UNCHANGED <<pc, call>>
  BY <1>9 DEF TimeOut
<1>10. CASE UNCHANGED vars
  BY <1>5, <1>10 DEF vars
<1> QED BY <1>3, <1>4, <1>5, <1>6, <1>7, <1>8, <1>9, <1>10 DEF Next

\* What h's own step does to what it has seen.
LEMMA SeenStep ==
    ASSUME EntitlementsInv, [Next]_vars, NEW h \in Handler, Moves(h),
           pc'[h] \in {"check", "write"}
    PROVE  \/ call'[h].seen = sub[customer[call'[h].id]] /\ pc[h] = "fetch"
           \/ /\ pc[h] \in {"check", "write"}
              /\ call'[h].seen = call[h].seen /\ call'[h].id = call[h].id
<1>1. /\ Types /\ call[h] \in CallType
      /\ pc \in [Handler -> {"idle", "resolve", "fetch", "check", "write"}]
      /\ call \in [Handler -> CallType]
  BY HandlerFacts DEF Types
<1>2. ASSUME NEW where, NEW c, Go(h, where, c) PROVE pc'[h] = where /\ call'[h] = c
  BY <1>1, <1>2 DEF Go
<1>3. CASE Fetch(h)
  <2> DEFINE cc == customer[call[h].id]
             c  == [call[h] EXCEPT !.seen = sub[cc], !.original = cc]
  <2>1. pc[h] = "fetch" /\ call'[h] = c
    BY <1>2, <1>3 DEF Fetch
  <2> HIDE DEF cc
  <2>2. c.seen = sub[cc] /\ c.id = call[h].id
    BY <1>1 DEF CallType
  <2> QED BY <2>1, <2>2 DEF cc
<1>4. CASE Deliver(h) \/ Resolve(h) \/ NextId(h) \/ Finish(h) \/ Crash(h)
  <2>1. pc'[h] \in {"idle", "resolve", "fetch"}
    BY <1>2, <1>4 DEF Deliver, Resolve, NextId, Finish, Crash
  <2> QED BY <2>1
<1>5. CASE Check(h)
  <2>1. PICK u : \/ Go(h, "write", [[call[h] EXCEPT !.targets = @ \ {u}] EXCEPT !.user = u])
                 \/ Go(h, "check", [call[h] EXCEPT !.targets = @ \ {u}])
    BY <1>5 DEF Check
  <2>2. call'[h] \in {[[call[h] EXCEPT !.targets = @ \ {u}] EXCEPT !.user = u],
                      [call[h] EXCEPT !.targets = @ \ {u}]}
    BY <1>2, <2>1
  <2>3. call'[h].seen = call[h].seen /\ call'[h].id = call[h].id
    BY <1>1, <2>2 DEF CallType
  <2> QED BY <1>5, <2>3 DEF Check
<1>6. CASE Write(h)
  BY <1>1, <1>2, <1>6 DEF Write, CallType
<1>7. CASE Fail(h)
  <2> DEFINE c == [call[h] EXCEPT !.failed = TRUE]
  <2>1. \/ pc'[h] = "resolve"
        \/ pc[h] = "check" /\ \E u : Go(h, "check", [c EXCEPT !.targets = @ \ {u}])
        \/ pc[h] = "write" /\ Go(h, "check", c)
    BY <1>2, <1>7 DEF Fail
  <2>2. c \in CallType /\ c.seen = call[h].seen /\ c.id = call[h].id
    BY <1>1 DEF CallType
  <2> HIDE DEF c
  <2>3. CASE pc[h] = "check" /\ \E u : Go(h, "check", [c EXCEPT !.targets = @ \ {u}])
    <3>1. PICK u : call'[h] = [c EXCEPT !.targets = @ \ {u}]
      BY <1>2, <2>3
    <3>2. call'[h].seen = c.seen /\ call'[h].id = c.id
      BY <2>2, <3>1 DEF CallType
    <3> QED BY <2>2, <2>3, <3>2
  <2>4. CASE pc[h] = "write" /\ Go(h, "check", c)
    BY <1>2, <2>2, <2>4
  <2> QED BY <2>1, <2>3, <2>4
<1> QED BY <1>3, <1>4, <1>5, <1>6, <1>7 DEF Moves

LEMMA SeenKept ==
    ASSUME EntitlementsInv, SeenOrAnnounced, OneDelivery', [Next]_vars
    PROVE  SeenOrAnnounced'
<1> SUFFICES ASSUME NEW h \in Handler, pc'[h] \in {"check", "write"}
             PROVE  \E c : /\ c = customer'[call'[h].id]
                           /\ call'[h].seen = sub'[c] \/ Announced(c)'
  BY DEF SeenOrAnnounced, Announced
<1>1. customer' = customer /\ EntitlementsInv' /\ Types
  BY RevenueCat, EntitlementsStep DEF EntitlementsInv
<1>2. call'[h].id \in RcId
  BY <1>1 DEF EntitlementsInv, Working
<1>3. PICK c \in RcId : c = customer[call'[h].id]
  BY <1>1, <1>2, Customers
<1>4. sub'[c] # sub[c] => Announced(c)'
  BY ChangesAnnounced
<1>5. \/ call'[h].seen = sub[c]
      \/ pc[h] \in {"check", "write"} /\ call'[h].seen = call[h].seen /\ call'[h].id = call[h].id
  BY <1>1, <1>3, SeenStep, OthersStay
<1>6. CASE call'[h].seen = sub[c]
  BY <1>1, <1>3, <1>4, <1>6
<1>7. CASE pc[h] \in {"check", "write"} /\ call'[h].seen = call[h].seen /\ call'[h].id = call[h].id
  <2>1. call[h].seen = sub[c] \/ Announced(c)
    BY <1>3, <1>7 DEF SeenOrAnnounced
  <2>2. ASSUME NEW g \in Handler, Deliver(g) PROVE FALSE
    <3>1. pc[g] = "idle" /\ pc'[g] = "resolve"
      BY <1>1, <2>2 DEF Deliver, Go, Types
    <3> QED BY <1>7, <3>1 DEF OneDelivery
  <2>3. outstanding \subseteq outstanding'
    BY <2>2, NothingWithdrawn
  <2>4. Announced(c) => Announced(c)'
    BY <2>3 DEF Announced
  <2> QED BY <1>1, <1>3, <1>4, <1>7, <2>1, <2>4
<1> QED BY <1>5, <1>6, <1>7

\* A handler that will reach a stale user gets there, or gives the event back.
LEMMA ReachKept ==
    ASSUME EntitlementsInv, [Next]_vars, NEW u \in User, NEW h \in Handler, Moves(h),
           WillReach(h, u), Stale(u), Stale(u)', ~(Write(h) /\ call[h].user = u)
    PROVE  Announced(customer[u])' \/ WillReach(h, u)'
<1> DEFINE cu == customer[u]
<1>1. /\ Types /\ call[h] \in CallType /\ customer' = customer
      /\ pc \in [Handler -> {"idle", "resolve", "fetch", "check", "write"}]
      /\ call \in [Handler -> CallType]
      /\ cu \in call[h].event /\ pc[h] # "idle"
  BY HandlerFacts DEF Types, WillReach
<1>2. ASSUME NEW where, NEW c, Go(h, where, c) PROVE pc'[h] = where /\ call'[h] = c
  BY <1>1, <1>2 DEF Go
<1>3. ASSUME cu \in call'[h].event, pc'[h] # "idle",
             \/ call'[h].failed
             \/ cu \in call'[h].todo
             \/ /\ pc'[h] \in {"fetch", "check", "write"} /\ call'[h].id = cu
                /\ \/ u \in call'[h].targets
                   \/ pc'[h] = "write" /\ call'[h].user = u
      PROVE  WillReach(h, u)'
  BY <1>1, <1>3 DEF WillReach
<1> HIDE DEF cu
<1>4. /\ call[h].failed \/ cu \in call[h].todo
           \/ (/\ pc[h] \in {"fetch", "check", "write"} /\ call[h].id = cu
               /\ \/ u \in call[h].targets
                  \/ pc[h] = "write" /\ call[h].user = u)
  BY DEF WillReach, cu
<1>5. CASE Deliver(h)
  BY <1>1, <1>5 DEF Deliver
<1>6. CASE Resolve(h)
  <2>1. PICK i \in call[h].todo :
           Go(h, IF LocalUsers(i) = {} THEN "resolve" ELSE "fetch",
              [call[h] EXCEPT !.todo = @ \ {i}, !.id = i, !.targets = LocalUsers(i)])
    BY <1>1, <1>6 DEF Resolve, CallType
  <2>2. /\ call'[h].event = call[h].event /\ call'[h].failed = call[h].failed
        /\ call'[h].todo = call[h].todo \ {i} /\ call'[h].id = i
        /\ call'[h].targets = LocalUsers(i)
        /\ pc'[h] = IF LocalUsers(i) = {} THEN "resolve" ELSE "fetch"
    <3> DEFINE L == LocalUsers(i)
               c == [call[h] EXCEPT !.todo = @ \ {i}, !.id = i, !.targets = L]
    <3>1. call'[h] = c /\ pc'[h] = IF L = {} THEN "resolve" ELSE "fetch"
      BY <1>2, <2>1
    <3> HIDE DEF L
    <3>2. /\ c.event = call[h].event /\ c.failed = call[h].failed
          /\ c.todo = call[h].todo \ {i} /\ c.id = i /\ c.targets = L
      BY <1>1 DEF CallType
    <3> QED BY <3>1, <3>2 DEF L
  <2>3. u \in LocalUsers(cu)
    <3>1. row[u].original = cu
      <4>1. Findable(u) /\ row[u] # None
        BY DEF Stale, EntitlementsInv
      <4>2. row[u].active \in BOOLEAN
        BY <1>1, <4>1 DEF Types, RowType
      <4> QED BY <4>1, <4>2 DEF Stale, Findable, cu
    <3> QED BY <3>1 DEF Stale, LocalUsers, Associated
  <2>4. pc[h] = "resolve"
    BY <1>6 DEF Resolve
  <2> QED BY <1>1, <1>3, <1>4, <2>2, <2>3, <2>4
<1>7. CASE Fetch(h)
  <2>1. /\ call'[h].event = call[h].event /\ call'[h].failed = call[h].failed
        /\ call'[h].todo = call[h].todo /\ call'[h].id = call[h].id
        /\ call'[h].targets = call[h].targets /\ pc'[h] = "check" /\ pc[h] = "fetch"
    <3> DEFINE cc == customer[call[h].id]
               c  == [call[h] EXCEPT !.seen = sub[cc], !.original = cc]
    <3>1. pc[h] = "fetch" /\ pc'[h] = "check" /\ call'[h] = c
      BY <1>2, <1>7 DEF Fetch
    <3> HIDE DEF cc
    <3>2. /\ c.event = call[h].event /\ c.failed = call[h].failed /\ c.todo = call[h].todo
          /\ c.id = call[h].id /\ c.targets = call[h].targets
      BY <1>1 DEF CallType
    <3> QED BY <3>1, <3>2
  <2> QED BY <1>1, <1>3, <1>4, <2>1
<1>8. CASE Check(h)
  <2>1. PICK v : \/ /\ Go(h, "write", [[call[h] EXCEPT !.targets = @ \ {v}] EXCEPT !.user = v])
                 \/ /\ Go(h, "check", [call[h] EXCEPT !.targets = @ \ {v}])
                    /\ v \in held'
    BY <1>8 DEF Check
  <2>2. pc[h] = "check"
    BY <1>8 DEF Check
  <2>3. /\ call'[h].event = call[h].event /\ call'[h].failed = call[h].failed
        /\ call'[h].todo = call[h].todo /\ call'[h].id = call[h].id
        /\ call'[h].targets = call[h].targets \ {v}
        /\ \/ pc'[h] = "write" /\ call'[h].user = v
           \/ pc'[h] = "check" /\ v \in held'
    <3> DEFINE rest == [call[h] EXCEPT !.targets = @ \ {v}]
               c    == [rest EXCEPT !.user = v]
    <3>1. \/ pc'[h] = "write" /\ call'[h] = c
          \/ pc'[h] = "check" /\ call'[h] = rest /\ v \in held'
      BY <1>2, <2>1
    <3>2. /\ rest.event = call[h].event /\ rest.failed = call[h].failed
          /\ rest.todo = call[h].todo /\ rest.id = call[h].id
          /\ rest.targets = call[h].targets \ {v} /\ rest \in CallType
      BY <1>1 DEF CallType
    <3>3. /\ c.event = rest.event /\ c.failed = rest.failed /\ c.todo = rest.todo
          /\ c.id = rest.id /\ c.targets = rest.targets /\ c.user = v
      <4> HIDE DEF rest
      <4> QED BY <3>2 DEF CallType
    <3> HIDE DEF rest, c
    <3> QED BY <3>1, <3>2, <3>3
  <2>4. u \notin held'
    BY DEF Stale
  <2> QED BY <1>1, <1>3, <1>4, <2>2, <2>3, <2>4
<1>9. CASE Write(h)
  <2>1. /\ call'[h].event = call[h].event /\ call'[h].todo = call[h].todo
        /\ call'[h].id = call[h].id /\ call'[h].targets = call[h].targets
        /\ call[h].failed => call'[h].failed
        /\ pc'[h] = "check" /\ pc[h] = "write" /\ call[h].user # u
    BY <1>1, <1>2, <1>9 DEF Write, CallType
  <2> QED BY <1>1, <1>3, <1>4, <2>1
<1>10. CASE NextId(h)
  <2>1. call'[h] = call[h] /\ pc'[h] = "resolve" /\ pc[h] = "check" /\ call[h].targets = {}
    BY <1>1, <1>2, <1>10 DEF NextId
  <2> QED BY <1>1, <1>3, <1>4, <2>1
<1>11. CASE Finish(h) \/ Crash(h)
  <2>1. call[h].event \in outstanding'
    BY <1>4, <1>11 DEF Finish, Crash
  <2> QED BY <1>1, <2>1 DEF Announced, cu
<1>12. CASE Fail(h)
  <2> DEFINE c == [call[h] EXCEPT !.failed = TRUE]
  <2>1. \/ \E i : Go(h, "resolve", [c EXCEPT !.todo = @ \ {i}])
        \/ Go(h, "resolve", c)
        \/ \E v : Go(h, "check", [c EXCEPT !.targets = @ \ {v}])
        \/ Go(h, "check", c)
    BY <1>12 DEF Fail
  <2>2. /\ call'[h].event = call[h].event /\ call'[h].failed /\ pc'[h] # "idle"
    <3>1. /\ pc'[h] # "idle"
          /\ \/ call'[h] = c
             \/ \E i : call'[h] = [c EXCEPT !.todo = @ \ {i}]
             \/ \E v : call'[h] = [c EXCEPT !.targets = @ \ {v}]
      <4>1. \E where, d :
              /\ Go(h, where, d) /\ where \in {"resolve", "check"}
              /\ \/ d = c
                 \/ \E i : d = [c EXCEPT !.todo = @ \ {i}]
                 \/ \E v : d = [c EXCEPT !.targets = @ \ {v}]
        <5> HIDE DEF c
        <5> QED BY <2>1
      <4> HIDE DEF c
      <4> QED BY <1>2, <4>1
    <3>2. c \in CallType /\ c.event = call[h].event /\ c.failed = TRUE
      BY <1>1 DEF CallType
    <3> HIDE DEF c
    <3> QED BY <3>1, <3>2 DEF CallType
  <2> QED BY <1>1, <1>3, <2>2
<1> QED BY <1>5, <1>6, <1>7, <1>8, <1>9, <1>10, <1>11, <1>12 DEF Moves

\* What makes a user stale: RevenueCat, or an upsert of what is past.
LEMMA BecomesStale ==
    ASSUME EntitlementsInv, [Next]_vars, NEW u \in User, Stale(u)',
           sub'[customer[u]] = sub[customer[u]], ~Stale(u)
    PROVE  \E h \in Handler : Write(h) /\ call[h].user = u /\ u \in users
<1>1. Types /\ customer' = customer /\ row \in [User -> RowType \cup {None}]
  BY RevenueCat DEF EntitlementsInv, Types
<1>2. u \in users' /\ u \notin held' /\ row'[u] # None
      /\ row'[u].active # (sub[customer[u]] = "active")
  BY <1>1 DEF Stale
<1>3. ASSUME u \in users' => u \in users, u \in held => u \in held' \/ u \notin users',
             row'[u] \in {row[u], None}
      PROVE  FALSE
  BY <1>2, <1>3 DEF Stale
<1>4. ASSUME NEW h \in Handler, Handle(h), ~Write(h) PROVE FALSE
  <2>1. UNCHANGED <<users, row>> /\ held \subseteq held'
    BY <1>4 DEF Handle, Deliver, Resolve, Fetch, Check, NextId, Finish, dbVars
  <2> QED BY <1>3, <2>1
<1>5. ASSUME NEW h \in Handler, Write(h), ~(call[h].user = u /\ u \in users) PROVE FALSE
  <2>1. users' = users
    BY <1>5 DEF Write
  <2>2. call[h].user # u
    BY <1>2, <1>5, <2>1
  <2>3. row'[u] = row[u] /\ (u \in held => u \in held')
    BY <1>1, <1>5, <2>2 DEF Write
  <2> QED BY <1>3, <2>1, <2>3
<1>6. ASSUME NEW h \in Handler, Fail(h) \/ TimeOut(h) \/ Crash(h) PROVE FALSE
  BY <1>3, <1>6 DEF Fail, TimeOut, Crash, dbVars
<1>7. ASSUME NEW v \in User, NEW action, OverrideExpires(v) \/ ManageEntitlement(v, action)
      PROVE  FALSE
  BY <1>3, <1>7 DEF OverrideExpires, ManageEntitlement
<1>8. ASSUME NEW v \in User, DeleteUser(v) PROVE FALSE
  BY <1>1, <1>3, <1>8 DEF DeleteUser
<1>9. ASSUME NEW i \in RcId, Change(i) \/ Forget(i) PROVE FALSE
  BY <1>3, <1>9 DEF Change, Forget, Event, dbVars
<1>10. ASSUME NEW i \in RcId, NEW j \in RcId, Transfer(i, j) PROVE FALSE
  BY <1>3, <1>10 DEF Transfer, Event, dbVars
<1>11. CASE UNCHANGED vars
  BY <1>3, <1>11 DEF vars, dbVars
<1> QED BY <1>4, <1>5, <1>6, <1>7, <1>8, <1>9, <1>10, <1>11 DEF Next, Handle

LEMMA DueKept ==
    ASSUME EntitlementsInv, SeenOrAnnounced, StaleIsDue, OneDelivery', [Next]_vars
    PROVE  StaleIsDue'
<1> SUFFICES ASSUME NEW u \in User, Stale(u)'
             PROVE  Announced(customer[u])' \/ \E h \in Handler : WillReach(h, u)'
  BY DEF StaleIsDue
<1>1. /\ customer' = customer /\ Types /\ EntitlementsInv'
      /\ pc \in [Handler -> {"idle", "resolve", "fetch", "check", "write"}]
      /\ call \in [Handler -> CallType]
  BY RevenueCat, EntitlementsStep DEF EntitlementsInv, Types
<1>2. PICK c \in RcId : c = customer[u]
  BY <1>1, Customers DEF RcId
<1>3. Announced(c)' => Announced(customer[u])'
  BY <1>1, <1>2 DEF Announced
<1>4. CASE sub'[c] # sub[c]
  BY <1>3, <1>4, ChangesAnnounced
<1>5. CASE sub'[c] = sub[c] /\ \E h \in Handler : Write(h) /\ call[h].user = u /\ u \in users
  <2>1. PICK h \in Handler : Write(h) /\ call[h].user = u /\ u \in users
    BY <1>5
  <2>2. /\ pc[h] = "write" /\ row' = [row EXCEPT ![u] = Snapshot(call[h])]
        /\ outstanding' = outstanding
    BY <2>1 DEF Write
  <2>3. row'[u].active = (call[h].seen = "active")
    <3>1. row'[u] = Snapshot(call[h])
      BY <1>1, <2>2 DEF Types
    <3> QED BY <2>2, <3>1, SnapshotFindable
  <2>4. customer[call[h].id] = c
    BY <1>1, <1>2, <2>1, <2>2, Customers DEF EntitlementsInv, Working
  <2>5. call[h].seen # sub[c]
    BY <1>1, <1>2, <1>5, <2>3 DEF Stale
  <2>6. Announced(c)
    BY <2>2, <2>4, <2>5 DEF SeenOrAnnounced
  <2> QED BY <1>3, <2>2, <2>6 DEF Announced
<1>6. CASE sub'[c] = sub[c] /\ ~\E h \in Handler : Write(h) /\ call[h].user = u /\ u \in users
  <2>1. Stale(u)
    BY <1>2, <1>6, BecomesStale
  <2>2. CASE Announced(c)
    <3>1. PICK e \in outstanding : c \in e
      BY <2>2 DEF Announced
    <3>2. CASE e \in outstanding'
      BY <1>3, <3>1, <3>2 DEF Announced
    <3>3. CASE e \notin outstanding'
      <4>1. PICK h \in Handler : Deliver(h)
        BY <3>3, NothingWithdrawn
      <4>2. /\ pc'[h] = "resolve"
            /\ call'[h] = [NoCall EXCEPT !.event = e, !.todo = e]
        BY <1>1, <3>1, <3>3, <4>1 DEF Deliver, Go
      <4>3. c \in call'[h].event /\ c \in call'[h].todo
        BY <3>1, <4>2 DEF NoCall
      <4> QED BY <1>1, <1>2, <4>2, <4>3 DEF WillReach
    <3> QED BY <3>2, <3>3
  <2>3. CASE \E h \in Handler : WillReach(h, u)
    <3>1. PICK h \in Handler : WillReach(h, u)
      BY <2>3
    <3>2. CASE ~Moves(h)
      <4>1. pc'[h] = pc[h] /\ call'[h] = call[h]
        BY <1>1, <3>2, OthersStay
      <4> QED BY <1>1, <3>1, <4>1 DEF WillReach
    <3>3. CASE Moves(h)
      BY <1>6, <2>1, <3>1, <3>3, ReachKept DEF Stale
    <3> QED BY <3>2, <3>3
  <2> QED BY <1>2, <2>1, <2>2, <2>3 DEF StaleIsDue
<1> QED BY <1>4, <1>5, <1>6

\* Where no two deliveries overlap, a snapshot that is not what RevenueCat has is
\* looked at again: an event about its customer is outstanding, or the handler
\* of one will get to it.
THEOREM StaleIsLookedAt == Spec /\ []OneDelivery => [](SeenOrAnnounced /\ StaleIsDue)
<1>1. Init => SeenOrAnnounced /\ StaleIsDue
  BY DEF Init, SeenOrAnnounced, StaleIsDue, Stale
<1>2. EntitlementsInv /\ SeenOrAnnounced /\ StaleIsDue /\ OneDelivery' /\ [Next]_vars
        => (SeenOrAnnounced /\ StaleIsDue)'
  BY SeenKept, DueKept
<1> QED BY <1>1, <1>2, EntitlementsInvariant, PTL DEF Spec

\* Where no two deliveries overlap, a user whom no override holds back has
\* premium exactly when RevenueCat says so, as soon as nothing is left to deliver:
\* for any number of users, ids, changes, faults, redeliveries and overrides.
THEOREM SnapshotsCurrent == Spec /\ []OneDelivery => []SnapshotCurrent
<1>1. EntitlementsInv /\ StaleIsDue => SnapshotCurrent
  <2> SUFFICES ASSUME EntitlementsInv, StaleIsDue, Quiet,
                      NEW u \in User \ held, BySnapshot(u)
               PROVE  /\ Current(u)
                      /\ Premium(u) <=> GetUserRCSubscription(u) = "active"
    BY DEF SnapshotCurrent
  <2>1. ~Stale(u)
    BY DEF StaleIsDue, Quiet, Announced, WillReach
  <2>2. u \in User /\ u \in users /\ row[u] # None /\ override[u] = None /\ u \notin held
    BY DEF BySnapshot
  <2>3. Premium(u) <=> row[u].active
    BY <2>2, EntitlementsAssumption DEF Premium
  <2>4. row[u].active <=> sub[customer[u]] = "active"
    <3>1. row[u].active \in BOOLEAN
      BY <2>2 DEF EntitlementsInv, Types, RowType
    <3> QED BY <2>1, <2>2, <3>1 DEF Stale
  <2>5. customer[row[u].app] = customer[u]
    <3>1. row[u].app \in IdsOf(u)
      BY <2>2 DEF EntitlementsInv, Findable
    <3>2. row[u].app \in RcId
      BY <2>2 DEF EntitlementsInv, Types, RowType
    <3> QED BY <2>2, <3>1, <3>2, Customers DEF EntitlementsInv
  <2>6. GetUserRCSubscription(u) = sub[customer[u]]
    BY <2>2, <2>5 DEF GetUserRCSubscription
  <2> QED BY <2>3, <2>4, <2>6 DEF Current
<1> QED BY <1>1, EntitlementsInvariant, StaleIsLookedAt, PTL

----------------------------------------------------------------------------
(* The views.                                                              *)

\* The foreign keys of the two tables.
ViewsInv ==
    /\ users \subseteq User
    /\ DOMAIN row = User
    /\ override \in [User -> {"grant", "revoke", None}]
    /\ \A u \in User : row[u] # None \/ override[u] # None => u \in users
    /\ \A u \in User : row[u] # None => row[u].active \in BOOLEAN

\* u's entry in the list of entitlements.
Entry(u) ==
    [user   |-> u,
     active |-> PremiumCase(override[u], row[u]),
     period |-> PeriodEnd(override[u], row[u]),
     from   |-> IF row[u] # None THEN "snapshot" ELSE "override"]

Known(u) == row[u] # None \/ override[u] # None

LEMMA Boolean ==
    ASSUME ViewsInv, NEW u \in User
    PROVE  PremiumCase(override[u], row[u]) \in BOOLEAN
BY DEF ViewsInv, PremiumCase

LEMMA Unknown ==
    ASSUME NEW u, ~Known(u)
    PROVE  ~PremiumCase(override[u], row[u])
BY EntitlementsAssumption DEF Known, PremiumCase

\* An override without a snapshot is read alike by both branches.
LEMMA OverrideOnly ==
    ASSUME ViewsInv, NEW u \in User, override[u] # None, row[u] = None
    PROVE  /\ PremiumCase(override[u], row[u]) = (override[u] = "grant")
           /\ PeriodEnd(override[u], row[u])
                = IF override[u] = "grant" THEN "override" ELSE "none"
<1>1. override[u] \in {"grant", "revoke"}
  BY DEF ViewsInv
<1> QED BY <1>1 DEF PremiumCase, PeriodEnd

\* The UNION ALL has one entry for each user whom either table knows.
LEMMA Entries ==
    ASSUME ViewsInv, NEW wanted
    PROVE  ListEntitlements(wanted)
             = {Entry(u) : u \in {v \in User : Known(v)
                                    /\ PremiumCase(override[v], row[v]) \in wanted}}
<1>1. SnapshotRows = {Entry(u) : u \in {v \in User : row[v] # None}}
  BY DEF SnapshotRows, Entry
<1>2. OverrideOnlyRows = {Entry(u) : u \in {v \in User : override[v] # None /\ row[v] = None}}
  <2>1. \A u \in {v \in User : override[v] # None /\ row[v] = None} :
          Entry(u) = [user |-> u, active |-> override[u] = "grant",
                      period |-> IF override[u] = "grant" THEN "override" ELSE "none",
                      from |-> "override"]
    BY OverrideOnly DEF Entry
  <2> QED BY <2>1 DEF OverrideOnlyRows
<1>3. SnapshotRows \cup OverrideOnlyRows = {Entry(u) : u \in {v \in User : Known(v)}}
  BY <1>1, <1>2 DEF Known
<1>4. \A u \in User : Entry(u).user = u /\ Entry(u).active = PremiumCase(override[u], row[u])
  BY DEF Entry
<1>5. \A u \in User : Known(u) => u \in users
  BY DEF ViewsInv, Known
<1> QED BY <1>3, <1>4, <1>5 DEF ListEntitlements

\* The count of the premium users is that of the active entitlements.
LEMMA CountsAgree ==
    ASSUME ViewsInv
    PROVE  PremiumUsers = Cardinality(ListEntitlements({TRUE}))
<1> DEFINE P == {u \in users : PremiumCase(override[u], row[u])}
           L == ListEntitlements({TRUE})
           F == [u \in P |-> Entry(u)]
<1>1. P \subseteq User /\ IsFiniteSet(P)
  BY EntitlementsAssumption, FS_Subset DEF ViewsInv
<1>2. L = {Entry(u) : u \in P}
  <2>1. P = {v \in User : Known(v) /\ PremiumCase(override[v], row[v]) \in {TRUE}}
    <3>1. \A v \in User : PremiumCase(override[v], row[v]) => Known(v) /\ v \in users
      BY Unknown DEF ViewsInv, Known
    <3>2. \A v \in User : PremiumCase(override[v], row[v]) \in {TRUE}
                            <=> PremiumCase(override[v], row[v])
      BY Boolean
    <3> QED BY <1>1, <3>1, <3>2
  <2> QED BY <2>1, Entries
<1>3. \A u \in P : Entry(u).user = u
  BY DEF Entry
<1>4. F \in Bijection(P, L)
  <2>1. F \in [P -> L]
    BY <1>2
  <2>2. \A a, b \in P : F[a] = F[b] => a = b
    BY <1>3
  <2>3. \A t \in L : \E s \in P : F[s] = t
    BY <1>2
  <2> HIDE DEF F, P, L
  <2> QED BY <2>1, <2>2, <2>3, Fun_IsBij
<1>5. ExistsBijection(P, L)
  BY <1>4, Fun_ExistsBij
<1> QED BY <1>1, <1>5, FS_Bijection DEF PremiumUsers

LEMMA Agreement == ViewsInv => ViewsAgree
<1> SUFFICES ASSUME ViewsInv PROVE ViewsAgree
  OBVIOUS
<1>1. ASSUME NEW u \in users
      PROVE  LET detail == GetUserDetail(u)
                 listed == {m \in ListEntitlements(BOOLEAN) : m.user = u}
             IN  /\ detail.premium <=> RequirePremium(u) = "passed"
                 /\ [user |-> u, premium |-> detail.premium] \in ListUsers
                 /\ IF listed = {} THEN ~detail.premium
                    ELSE \E m \in listed : /\ listed = {m}
                                           /\ m.active = detail.premium
                                           /\ m.period = detail.period
  <2> DEFINE detail == GetUserDetail(u)
             listed == {m \in ListEntitlements(BOOLEAN) : m.user = u}
  <2>1. u \in User
    BY DEF ViewsInv
  <2>2. /\ detail.premium = PremiumCase(override[u], row[u])
        /\ detail.period = PeriodEnd(override[u], row[u])
    BY DEF GetUserDetail
  <2>3. detail.premium <=> RequirePremium(u) = "passed"
    BY <2>2 DEF RequirePremium
  <2>4. [user |-> u, premium |-> detail.premium] \in ListUsers
    BY <2>2 DEF ListUsers
  <2>5. \A v \in User : Entry(v).user = v
    BY DEF Entry
  <2>6. ListEntitlements(BOOLEAN) = {Entry(v) : v \in {w \in User : Known(w)}}
    BY Entries, Boolean
  <2>7. CASE Known(u)
    <3>1. listed = {Entry(u)}
      BY <2>1, <2>5, <2>6, <2>7
    <3>2. Entry(u).active = detail.premium /\ Entry(u).period = detail.period
      BY <2>2 DEF Entry
    <3> QED BY <2>3, <2>4, <3>1, <3>2
  <2>8. CASE ~Known(u)
    <3>1. listed = {}
      BY <2>5, <2>6, <2>8
    <3>2. ~detail.premium
      BY <2>2, <2>8, Unknown
    <3> QED BY <2>3, <2>4, <3>1, <3>2
  <2> QED BY <2>7, <2>8
<1> QED BY <1>1, CountsAgree DEF ViewsAgree

\* Whatever webhooks, administrators and account deletions do, every view of a
\* user's premium is the same, and the counts agree.
THEOREM ViewsAlwaysAgree == Spec => []ViewsAgree
<1>1. EntitlementsInv => ViewsInv
  BY DEF EntitlementsInv, Types, ViewsInv, RowType
<1> QED BY <1>1, EntitlementsInvariant, Agreement, PTL
=============================================================================
