------------------------------- MODULE Social -------------------------------
(***************************************************************************)
(* Friend requests and their push notifications.  Every statement is a     *)
(* transaction of its own: between the premium check, the statement that   *)
(* changes a friendship, the reading of the recipient's device tokens, the *)
(* call to Firebase and the deletion of the tokens that it rejected, other *)
(* handlers run.                                                           *)
(***************************************************************************)
EXTENDS FiniteSets, Integers, Sequences

CONSTANTS
    User,
    FriendshipId,   \* ids of friendships rows
    DeviceToken,    \* FCM tokens
    Handler,        \* requests that notify someone
    None

ASSUME SocialAssumption == None \notin User \cup FriendshipId /\ IsFiniteSet(FriendshipId)

VARIABLES
    users,      \* the accounts there are
    premium,    \* those with an active premium entitlement
    status,     \* status[f]: "free", "pending", "accepted" or "gone"
    ends,       \* ends[f]: <<requester, addressee>> once f was inserted
    answers,    \* answers[f]: what the successful calls on f have answered
    owner,      \* owner[t]: user_id of the device_tokens row of t, or None
    installed,  \* tokens that Firebase still accepts
    pc,         \* pc[h]: where h's request stands
    call        \* call[h]: its user, friendship, the other user and tokens

friendVars == <<status, ends, answers>>
deviceVars == <<owner, installed>>
userVars   == <<users, premium>>
vars       == <<userVars, friendVars, deviceVars, pc, call>>

NoCall  == [user |-> None, friendship |-> None, other |-> None, tokens |-> {}]
Live(f) == status[f] \in {"pending", "accepted"}
Ends(f) == {ends[f][1], ends[f][2]}

Enter(h, where, c) ==
    /\ pc'   = [pc EXCEPT ![h] = where]
    /\ call' = [call EXCEPT ![h] = c]

Return(h) == Enter(h, "idle", NoCall)

\* A call on f succeeds: its new status, and what the caller is told.
Answer(f, new, answer) ==
    /\ status'  = [status EXCEPT ![f] = new]
    /\ answers' = [answers EXCEPT ![f] = Append(@, answer)]

Init ==
    /\ users     = User
    /\ premium   \in SUBSET User
    /\ status    = [f \in FriendshipId |-> "free"]
    /\ ends      = [f \in FriendshipId |-> <<None, None>>]
    /\ answers   = [f \in FriendshipId |-> <<>>]
    /\ owner     = [t \in DeviceToken |-> None]
    /\ installed = DeviceToken
    /\ pc        = [h \in Handler |-> "idle"]
    /\ call      = [h \in Handler |-> NoCall]

----------------------------------------------------------------------------
(* Asking for and accepting a friendship.                                  *)

\* requirePremium and FindUserByExactUsername.  A user once found was there
\* at the time of the premium check, so the two are one step.
RequestFriend(h) ==
    /\ pc[h] = "idle"
    /\ \E u \in premium : \E v \in users \ {u} :
         Enter(h, "insert", [NoCall EXCEPT !.user = u, !.other = v])
    /\ UNCHANGED <<userVars, friendVars, deviceVars>>

\* fault: the index is on (requester_id, addressee_id)
TakenSameWay(u, v) == \E f \in FriendshipId : Live(f) /\ ends[f] = <<u, v>>

\* idx_friendships_user_pair: one row for two users, whoever asked.
Taken(u, v) == \E f \in FriendshipId : Live(f) /\ Ends(f) = {u, v}

\* The INSERT: 500 if either user is gone, 409 if the pair is taken.
CreateFriendRequest(h) ==
    LET u == call[h].user
        v == call[h].other
    IN  /\ pc[h] = "insert"
        /\ IF {u, v} \subseteq users /\ ~Taken(u, v)
           THEN \E f \in FriendshipId :
                  /\ status[f] = "free"
                  /\ status' = [status EXCEPT ![f] = "pending"]
                  /\ ends'   = [ends EXCEPT ![f] = <<u, v>>]
                  /\ Enter(h, "actor", [call[h] EXCEPT !.friendship = f])
           ELSE Return(h) /\ UNCHANGED <<status, ends>>
        /\ UNCHANGED <<userVars, answers, deviceVars>>

\* requirePremium.
AcceptFriend(h) ==
    /\ pc[h] = "idle"
    /\ \E u \in premium, f \in FriendshipId :
         /\ status[f] # "free"
         /\ Enter(h, "accept", [NoCall EXCEPT !.user = u, !.friendship = f])
    /\ UNCHANGED <<userVars, friendVars, deviceVars>>

\* fault: the status is not looked at again
AddressedTo(f, u) == Live(f) /\ ends[f][2] = u

\* The condition of the UPDATE and of the DELETE that declines.
AwaitsAnswerOf(f, u) == status[f] = "pending" /\ ends[f][2] = u

AcceptFriendRequest(h) ==
    LET f == call[h].friendship
    IN  /\ pc[h] = "accept"
        /\ IF AwaitsAnswerOf(f, call[h].user)
           THEN /\ Answer(f, "accepted", "accepted")
                /\ Enter(h, "actor", [call[h] EXCEPT !.other = ends[f][1]])
           ELSE Return(h) /\ UNCHANGED <<status, answers>>
        /\ UNCHANGED <<userVars, ends, deviceVars>>

----------------------------------------------------------------------------
(* The calls that are one statement and ask for no premium.                *)

DeclineFriend(u, f) ==
    /\ AwaitsAnswerOf(f, u)
    /\ Answer(f, "gone", "declined")
    /\ UNCHANGED <<userVars, ends, deviceVars, pc, call>>

CancelFriendRequest(u, f) ==
    /\ status[f] = "pending"
    /\ ends[f][1] = u
    /\ Answer(f, "gone", "cancelled")
    /\ UNCHANGED <<userVars, ends, deviceVars, pc, call>>

RemoveFriend(u, f) ==
    /\ status[f] = "accepted"
    /\ u \in Ends(f)
    /\ Answer(f, "gone", "removed")
    /\ UNCHANGED <<userVars, ends, deviceVars, pc, call>>

\* The token's row is inserted, or becomes u's.
RegisterDevice(u, t) ==
    /\ u \in users
    /\ owner' = [owner EXCEPT ![t] = u]
    /\ UNCHANGED <<userVars, friendVars, installed, pc, call>>

\* The token's row is deleted if it is still u's.
UnregisterDevice(u, t) ==
    /\ owner[t] = u
    /\ owner' = [owner EXCEPT ![t] = None]
    /\ UNCHANGED <<userVars, friendVars, installed, pc, call>>

----------------------------------------------------------------------------
(* sendFriendNotification, after the friendship has changed.               *)

\* GetBasicUserByID of the one who acted; without it nothing is sent.
LoadActor(h) ==
    /\ pc[h] = "actor"
    /\ IF call[h].user \in users THEN Enter(h, "list", call[h]) ELSE Return(h)
    /\ UNCHANGED <<userVars, friendVars, deviceVars>>

\* The recipient's push preference, which no other step looks at, is off, or the
\* recipient is gone.
PushDisabled(h) ==
    /\ pc[h] = "list"
    /\ Return(h)
    /\ UNCHANGED <<userVars, friendVars, deviceVars>>

TokensOf(u) == {t \in DeviceToken : owner[t] = u}

ListDeviceTokens(h) ==
    LET tokens == TokensOf(call[h].other)
    IN  /\ pc[h] = "list"
        /\ IF tokens = {} THEN Return(h)
           ELSE Enter(h, "send", [call[h] EXCEPT !.tokens = tokens])
        /\ UNCHANGED <<userVars, friendVars, deviceVars>>

\* fault: whatever failed is taken for unregistered
Failed(tokens) == tokens

\* What SendEachForMulticast may find "unregistered".  A message that failed
\* for another reason is only logged.
Rejected(tokens) == tokens \ installed

Send(h) ==
    /\ pc[h] = "send"
    /\ Enter(h, "prune", [call[h] EXCEPT !.tokens = Rejected(@)])
    /\ UNCHANGED <<userVars, friendVars, deviceVars>>

\* DeleteDeviceToken, by value; one that fails is logged and skipped.
DeleteDeviceToken(h) ==
    /\ pc[h] = "prune"
    /\ \E t \in call[h].tokens :
         /\ owner' \in {owner, [owner EXCEPT ![t] = None]}
         /\ call'  = [call EXCEPT ![h].tokens = @ \ {t}]
    /\ UNCHANGED <<userVars, friendVars, installed, pc>>

Sent(h) ==
    /\ pc[h] = "prune"
    /\ call[h].tokens = {}
    /\ Return(h)
    /\ UNCHANGED <<userVars, friendVars, deviceVars>>

\* A statement or the whole multicast fails, or the client has gone.
Fail(h) ==
    /\ pc[h] # "idle"
    /\ Return(h)
    /\ UNCHANGED <<userVars, friendVars, deviceVars>>

----------------------------------------------------------------------------
(* What happens meanwhile.                                                 *)

Uninstall(t) ==
    /\ t \in installed
    /\ installed' = installed \ {t}
    /\ UNCHANGED <<userVars, friendVars, owner, pc, call>>

PremiumChanges(u) ==
    /\ u \in users
    /\ premium' = IF u \in premium THEN premium \ {u} ELSE premium \cup {u}
    /\ UNCHANGED <<users, friendVars, deviceVars, pc, call>>

\* fault: only the requester's foreign key cascades
CascadedAsRequester(u) == {f \in FriendshipId : Live(f) /\ ends[f][1] = u}

\* ON DELETE CASCADE of both foreign keys of friendships.
Cascaded(u) == {f \in FriendshipId : Live(f) /\ u \in Ends(f)}

\* device_tokens cascade too.
DeleteUser(u) ==
    /\ u \in users
    /\ users'   = users \ {u}
    /\ premium' = premium \ {u}
    /\ status'  = [f \in FriendshipId |-> IF f \in Cascaded(u) THEN "gone" ELSE status[f]]
    /\ owner'   = [t \in DeviceToken |-> IF owner[t] = u THEN None ELSE owner[t]]
    /\ UNCHANGED <<ends, answers, installed, pc, call>>

Next ==
    \/ \E h \in Handler :
         \/ RequestFriend(h)       \/ CreateFriendRequest(h)
         \/ AcceptFriend(h)        \/ AcceptFriendRequest(h)
         \/ LoadActor(h)           \/ PushDisabled(h)
         \/ ListDeviceTokens(h)    \/ Send(h)
         \/ DeleteDeviceToken(h)   \/ Sent(h)             \/ Fail(h)
    \/ \E u \in User, f \in FriendshipId :
         DeclineFriend(u, f) \/ CancelFriendRequest(u, f) \/ RemoveFriend(u, f)
    \/ \E u \in User, t \in DeviceToken : RegisterDevice(u, t) \/ UnregisterDevice(u, t)
    \/ \E t \in DeviceToken : Uninstall(t)
    \/ \E u \in User : PremiumChanges(u) \/ DeleteUser(u)

Spec == Init /\ [][Next]_vars

----------------------------------------------------------------------------
(* What a user is shown.  All of it asks for premium first.                *)

Other(f, u) == IF ends[f][1] = u THEN ends[f][2] ELSE ends[f][1]

\* The total that ListFriends counts.
CountFriends(u) == Cardinality({f \in FriendshipId : status[f] = "accepted" /\ u \in Ends(f)})

\* The rows of all its pages: the JOIN drops one whose other user is gone.
ListFriends(u) ==
    {[friendship |-> f, user |-> Other(f, u)] :
        f \in {g \in FriendshipId : status[g] = "accepted" /\ u \in Ends(g) /\ Other(g, u) \in users}}

ListFriendRequests(u, direction) ==
    LET column == IF direction = "incoming" THEN 2 ELSE 1
    IN  {[friendship |-> f, user |-> ends[f][3 - column]] :
            f \in {g \in FriendshipId : /\ status[g] = "pending" /\ ends[g][column] = u
                                        /\ ends[g][3 - column] \in users}}

\* Whose statistics u sees with f, or None: status 401.
FriendStats(u, f) == IF status[f] = "accepted" /\ u \in Ends(f) THEN Other(f, u) ELSE None

----------------------------------------------------------------------------
(* Properties.                                                             *)

\* The variables have their types and the keys of the tables hold: foreign
\* keys name accounts, nobody is their own friend, premium is an account's.
TypeOK ==
    /\ users \subseteq User /\ premium \subseteq users
    /\ status \in [FriendshipId -> {"free", "pending", "accepted", "gone"}]
    /\ \A f \in FriendshipId : Live(f) => Ends(f) \subseteq users /\ Cardinality(Ends(f)) = 2
    /\ owner \in [DeviceToken -> users \cup {None}]
    /\ installed \subseteq DeviceToken
    /\ pc \in [Handler -> {"idle", "insert", "accept", "actor", "list", "send", "prune"}]
    /\ call \in [Handler -> [user       : User \cup {None},
                             friendship : FriendshipId \cup {None},
                             other      : User \cup {None},
                             tokens     : SUBSET DeviceToken]]

\* Two users have one friendship or request between them, also when each asks
\* the other at the same moment, or one asks again while the first request is
\* being declined (RequestFriend, CreateFriendRequest).
OneFriendshipPerPair ==
    \A f, g \in FriendshipId : f # g /\ Live(f) /\ Live(g) => Ends(f) # Ends(g)

\* Accept, decline, cancel and remove agree about a request however they race:
\* it is answered once, only an accepted one is removed, and only once, and
\* what the callers were told is what the row shows.
OneAnswer ==
    \A f \in FriendshipId :
       /\ answers[f] \in {<<>>, <<"declined">>, <<"cancelled">>,
                          <<"accepted">>, <<"accepted", "removed">>}
       /\ status[f] = "accepted" => answers[f] = <<"accepted">>
       /\ status[f] = "pending"  => answers[f] = <<>>

\* What two users are shown fits together: a friend is each other's friend, an
\* incoming request is the other's outgoing one, another user is in one of the
\* three lists at most and there once, statistics are shown of the friends in the
\* list and of nobody else, and ListFriends' pages have as many rows as it counts
\* (two queries, of which only the second looks for the other user).
FriendListsAgree ==
    \A u \in users :
        LET friends  == ListFriends(u)
            incoming == ListFriendRequests(u, "incoming")
            outgoing == ListFriendRequests(u, "outgoing")
            lists    == friends \cup incoming \cup outgoing
            mine(m)  == [m EXCEPT !.user = u]
        IN  /\ \A m \in lists, n \in lists : m.user = n.user => m = n
            /\ \A m \in friends  : mine(m) \in ListFriends(m.user)
            /\ \A m \in incoming : mine(m) \in ListFriendRequests(m.user, "outgoing")
            /\ \A m \in outgoing : mine(m) \in ListFriendRequests(m.user, "incoming")
            /\ friends = {[friendship |-> f, user |-> FriendStats(u, f)] :
                             f \in {g \in FriendshipId : FriendStats(u, g) # None}}
            /\ Cardinality(friends) = CountFriends(u)

\* Whatever the others do while Firebase is asked, a token that it still
\* accepts loses its row only with its owner or because its owner unregistered
\* it: no notification drops the registration of a device that works.
OnlyDeadTokensDropped ==
    [][\A t \in installed :
         owner[t] # None /\ owner'[t] = None
           => owner[t] \notin users' \/ UnregisterDevice(owner[t], t)]_vars

=============================================================================
