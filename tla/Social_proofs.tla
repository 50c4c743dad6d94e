---------------------------- MODULE Social_proofs ----------------------------
(***************************************************************************)
(* The safety of friendships and of push, for any number of users,         *)
(* friendships, devices and calls.                                         *)
(*                                                                         *)
(* Every statement looks at the row it changes, so what the properties say *)
(* of friendships is nearly inductive: it takes that an id which was never *)
(* used has no answers, and that who asks is not who is asked.  What a     *)
(* push deletes was rejected by Firebase, for good, before.                *)
(***************************************************************************)
EXTENDS Social, FiniteSetTheorems, FunctionTheorems, SequenceTheorems, TLAPS

Stage == {"idle", "insert", "accept", "actor", "list", "send", "prune"}

Typed ==
    /\ users \subseteq User /\ premium \subseteq users
    /\ status \in [FriendshipId -> {"free", "pending", "accepted", "gone"}]
    /\ ends \in [FriendshipId -> (User \cup {None}) \X (User \cup {None})]
    /\ DOMAIN answers = FriendshipId
    /\ owner \in [DeviceToken -> users \cup {None}]
    /\ installed \subseteq DeviceToken
    /\ pc \in [Handler -> Stage]
    /\ call \in [Handler -> [user       : User \cup {None},
                             friendship : FriendshipId \cup {None},
                             other      : User \cup {None},
                             tokens     : SUBSET DeviceToken]]

\* The foreign keys and the CHECK of friendships.
Keyed == \A f \in FriendshipId :
            Live(f) => ends[f][1] \in users /\ ends[f][2] \in users /\ ends[f][1] # ends[f][2]

\* What a call has when it comes to its statement.
Asked == \A h \in Handler :
    /\ pc[h] = "insert" => /\ call[h].user \in User /\ call[h].other \in User
                           /\ call[h].user # call[h].other
    /\ pc[h] = "accept" => call[h].user \in User /\ call[h].friendship \in FriendshipId

Unanswered == \A f \in FriendshipId : status[f] = "free" => answers[f] = <<>>

\* What is left to delete is dead.
Pruned == \A h \in Handler : pc[h] = "prune" => call[h].tokens \cap installed = {}

SocialInv ==
    /\ Typed
    /\ Keyed
    /\ Asked
    /\ Unanswered
    /\ OneFriendshipPerPair
    /\ OneAnswer
    /\ Pruned

USE SocialAssumption

LEMMA SocialInit == Init => SocialInv
<1> SUFFICES ASSUME Init PROVE SocialInv
  OBVIOUS
<1>1. Typed
  BY DEF Init, Typed, NoCall, Stage
<1>2. Keyed /\ Asked /\ Unanswered /\ OneFriendshipPerPair /\ OneAnswer /\ Pruned
  BY DEF Init, Keyed, Asked, Unanswered, OneFriendshipPerPair, OneAnswer, Pruned, Live
<1> QED BY <1>1, <1>2 DEF SocialInv

----------------------------------------------------------------------------
(* The calls.                                                              *)

\* A step of a call that leaves all the tables alone.
LEMMA CallAlone ==
    ASSUME SocialInv, NEW h \in Handler, NEW stage \in Stage, NEW c,
           UNCHANGED <<userVars, friendVars, deviceVars>>, Enter(h, stage, c),
           c \in [user       : User \cup {None},
                  friendship : FriendshipId \cup {None},
                  other      : User \cup {None},
                  tokens     : SUBSET DeviceToken],
           stage = "insert" => c.user \in User /\ c.other \in User /\ c.user # c.other,
           stage = "accept" => c.user \in User /\ c.friendship \in FriendshipId,
           stage = "prune"  => c.tokens \cap installed = {}
    PROVE  SocialInv'
<1> USE DEF userVars, friendVars, deviceVars, Enter
<1>1. \A g \in Handler : pc'[g] = (IF g = h THEN stage ELSE pc[g])
                         /\ call'[g] = (IF g = h THEN c ELSE call[g])
  BY DEF SocialInv, Typed
<1>2. Typed'
  BY DEF SocialInv, Typed
<1>3. Asked' /\ Pruned'
  BY <1>1 DEF SocialInv, Asked, Pruned
<1>4. (Keyed /\ Unanswered /\ OneFriendshipPerPair /\ OneAnswer)'
  BY DEF SocialInv, Keyed, Unanswered, OneFriendshipPerPair, OneAnswer, Live, Ends
<1> QED BY <1>2, <1>3, <1>4 DEF SocialInv

LEMMA CallReturns ==
    ASSUME SocialInv, NEW h \in Handler, UNCHANGED <<userVars, friendVars, deviceVars>>, Return(h)
    PROVE  SocialInv'
<1>1. NoCall \in [user       : User \cup {None},
                  friendship : FriendshipId \cup {None},
                  other      : User \cup {None},
                  tokens     : SUBSET DeviceToken]
  BY DEF NoCall
<1>2. "idle" \in Stage
  BY DEF Stage
<1> QED BY <1>1, <1>2, CallAlone DEF Return

\* The steps that only read.
LEMMA Reading ==
    ASSUME SocialInv, NEW h \in Handler,
           \/ RequestFriend(h) \/ AcceptFriend(h) \/ LoadActor(h) \/ PushDisabled(h)
           \/ ListDeviceTokens(h) \/ Send(h) \/ Sent(h) \/ Fail(h)
    PROVE  SocialInv'
<1> DEFINE Call == [user       : User \cup {None},
                    friendship : FriendshipId \cup {None},
                    other      : User \cup {None},
                    tokens     : SUBSET DeviceToken]
<1>0. call[h] \in Call /\ users \subseteq User /\ premium \subseteq users
  BY DEF SocialInv, Typed
<1>1. CASE RequestFriend(h)
  <2>1. PICK u \in premium, v \in users :
          u # v /\ Enter(h, "insert", [NoCall EXCEPT !.user = u, !.other = v])
    BY <1>1 DEF RequestFriend
  <2> DEFINE c == [NoCall EXCEPT !.user = u, !.other = v]
  <2>2. c \in Call /\ c.user = u /\ c.other = v /\ u \in User /\ v \in User /\ u # v
    BY <1>0, <2>1 DEF NoCall
  <2> HIDE DEF c
  <2> QED BY <1>1, <2>1, <2>2, CallAlone DEF RequestFriend, Stage, c
<1>2. CASE AcceptFriend(h)
  <2>1. PICK u \in premium, f \in FriendshipId :
          Enter(h, "accept", [NoCall EXCEPT !.user = u, !.friendship = f])
    BY <1>2 DEF AcceptFriend
  <2> DEFINE c == [NoCall EXCEPT !.user = u, !.friendship = f]
  <2>2. c \in Call /\ c.user = u /\ c.friendship = f /\ u \in User
    BY <1>0 DEF NoCall
  <2> HIDE DEF c
  <2> QED BY <1>2, <2>1, <2>2, CallAlone DEF AcceptFriend, Stage, c
<1>3. CASE LoadActor(h)
  BY <1>0, <1>3, CallAlone, CallReturns DEF LoadActor, Stage
<1>4. CASE PushDisabled(h) \/ Sent(h) \/ Fail(h)
  BY <1>4, CallReturns DEF PushDisabled, Sent, Fail
<1>5. CASE ListDeviceTokens(h)
  <2> DEFINE c == [call[h] EXCEPT !.tokens = TokensOf(call[h].other)]
  <2>1. c \in Call
    BY <1>0 DEF TokensOf
  <2>2. Return(h) \/ Enter(h, "send", c)
    BY <1>5 DEF ListDeviceTokens
  <2> HIDE DEF c
  <2> QED BY <1>5, <2>1, <2>2, CallAlone, CallReturns DEF ListDeviceTokens, Stage
<1>6. CASE Send(h)
  <2> DEFINE c == [call[h] EXCEPT !.tokens = Rejected(@)]
  <2>1. c \in Call /\ c.tokens \cap installed = {}
    BY <1>0 DEF Rejected
  <2>2. Enter(h, "prune", c)
    BY <1>6 DEF Send
  <2> HIDE DEF c
  <2> QED BY <1>6, <2>1, <2>2, CallAlone DEF Send, Stage
<1> QED BY <1>1, <1>2, <1>3, <1>4, <1>5, <1>6

----------------------------------------------------------------------------
(* The statements on friendships.                                          *)

LEMMA Inserting ==
    ASSUME SocialInv, NEW h \in Handler, CreateFriendRequest(h)
    PROVE  SocialInv'
<1> DEFINE u == call[h].user
           v == call[h].other
<1>0. u \in User /\ v \in User /\ u # v
  BY DEF SocialInv, Asked, CreateFriendRequest
<1>1. CASE {u, v} \subseteq users /\ ~Taken(u, v)
  <2>1. PICK f \in FriendshipId :
          /\ status[f] = "free"
          /\ status' = [status EXCEPT ![f] = "pending"]
          /\ ends'   = [ends EXCEPT ![f] = <<u, v>>]
          /\ Enter(h, "actor", [call[h] EXCEPT !.friendship = f])
    BY <1>1 DEF CreateFriendRequest
  <2>2. UNCHANGED <<userVars, answers, deviceVars>>
    BY DEF CreateFriendRequest
  <2>3. \A g \in FriendshipId :
          IF g = f THEN status'[g] = "pending" /\ ends'[g] = <<u, v>>
                   ELSE status'[g] = status[g] /\ ends'[g] = ends[g]
    BY <2>1 DEF SocialInv, Typed
  <2>4. Typed'
    <3>1. /\ status' \in [FriendshipId -> {"free", "pending", "accepted", "gone"}]
          /\ ends' \in [FriendshipId -> (User \cup {None}) \X (User \cup {None})]
      BY <1>0, <2>1 DEF SocialInv, Typed
    <3>2. [call[h] EXCEPT !.friendship = f] \in [user       : User \cup {None},
                                                 friendship : FriendshipId \cup {None},
                                                 other      : User \cup {None},
                                                 tokens     : SUBSET DeviceToken]
      <4>1. call[h] \in [user       : User \cup {None},
                         friendship : FriendshipId \cup {None},
                         other      : User \cup {None},
                         tokens     : SUBSET DeviceToken]
        BY DEF SocialInv, Typed
      <4>2. f \in FriendshipId \cup {None}
        OBVIOUS
      <4> HIDE DEF u, v
      <4> QED BY <4>1, <4>2
    <3> QED BY <2>1, <2>2, <3>1, <3>2
            DEF SocialInv, Typed, Enter, Stage, userVars, deviceVars
  <2>5. Keyed'
    BY <1>0, <1>1, <2>2, <2>3 DEF SocialInv, Keyed, Live, userVars
  <2>6. Asked' /\ Pruned'
    BY <2>1, <2>2 DEF SocialInv, Typed, Asked, Pruned, Enter, deviceVars
  <2>7. answers[f] = <<>>
    BY <2>1 DEF SocialInv, Unanswered
  <2>8. (Unanswered /\ OneAnswer)'
    BY <2>2, <2>3, <2>7 DEF SocialInv, Unanswered, OneAnswer
  <2>9. OneFriendshipPerPair'
    <3>1. \A g \in FriendshipId : Live(g) => Ends(g) # {u, v}
      BY <1>1 DEF Taken
    <3>2. Ends(f)' = {u, v}
      BY <2>3 DEF Ends
    <3>3. \A g \in FriendshipId : g # f => Ends(g)' = Ends(g) /\ (Live(g)' <=> Live(g))
      BY <2>3 DEF Ends, Live
    <3> QED BY <3>1, <3>2, <3>3 DEF SocialInv, OneFriendshipPerPair
  <2> QED BY <2>4, <2>5, <2>6, <2>8, <2>9 DEF SocialInv
<1>2. CASE ~({u, v} \subseteq users /\ ~Taken(u, v))
  <2>1. Return(h) /\ UNCHANGED <<userVars, friendVars, deviceVars>>
    BY <1>2 DEF CreateFriendRequest, friendVars
  <2> QED BY <2>1, CallReturns
<1> QED BY <1>1, <1>2

LEMMA AppendSecond ==
    \A a, b : Append(<<>>, b) = <<b>> /\ Append(<<a>>, b) = <<a, b>>
<1>1. ASSUME NEW a, NEW b PROVE Append(<<a>>, b) = <<a, b>>
  <2> DEFINE S == {a, b}
  <2>1. <<a>> \in Seq(S) /\ <<a, b>> \in Seq(S) /\ b \in S
    OBVIOUS
  <2>2. /\ Append(<<a>>, b) \in Seq(S)
        /\ Len(Append(<<a>>, b)) = 2
        /\ Append(<<a>>, b)[1] = a
        /\ Append(<<a>>, b)[2] = b
    BY <2>1, AppendProperties
  <2>3. Len(<<a, b>>) = 2 /\ \A i \in 1 .. 2 : Append(<<a>>, b)[i] = <<a, b>>[i]
    BY <2>2
  <2> HIDE DEF S
  <2> QED BY <2>1, <2>2, <2>3, SeqEqual
<1>2. \A b : Append(<<>>, b) = <<b>>
  OBVIOUS
<1> QED BY <1>1, <1>2

\* What an answer does to friendships, given what it is the answer to.
LEMMA Answering ==
    ASSUME SocialInv, NEW f \in FriendshipId, NEW new, NEW answer,
           Answer(f, new, answer), UNCHANGED <<users, ends>>,
           \/ status[f] = "pending" /\ new = "accepted" /\ answer = "accepted"
           \/ status[f] = "pending" /\ new = "gone" /\ answer \in {"declined", "cancelled"}
           \/ status[f] = "accepted" /\ new = "gone" /\ answer = "removed"
    PROVE  /\ status' \in [FriendshipId -> {"free", "pending", "accepted", "gone"}]
           /\ DOMAIN answers' = FriendshipId
           /\ (Keyed /\ Unanswered /\ OneFriendshipPerPair /\ OneAnswer)'
<1>1. \A g \in FriendshipId :
        IF g = f THEN status'[g] = new /\ answers'[g] = Append(answers[g], answer)
                 ELSE status'[g] = status[g] /\ answers'[g] = answers[g]
  BY DEF SocialInv, Typed, Answer
<1>2. /\ status' \in [FriendshipId -> {"free", "pending", "accepted", "gone"}]
      /\ DOMAIN answers' = FriendshipId
  BY DEF SocialInv, Typed, Answer
<1>3. \A g \in FriendshipId : Live(g)' => Live(g)
  BY <1>1 DEF Live
<1>4. (Keyed /\ OneFriendshipPerPair)'
  BY <1>3 DEF SocialInv, Keyed, OneFriendshipPerPair, Ends
<1>5. Unanswered'
  BY <1>1 DEF SocialInv, Unanswered
<1>6. /\ status[f] = "pending" => answers[f] = <<>>
      /\ status[f] = "accepted" => answers[f] = <<"accepted">>
  BY DEF SocialInv, OneAnswer
<1>7. /\ status[f] = "pending" => answers'[f] = <<answer>>
      /\ status[f] = "accepted" => answers'[f] = <<"accepted", answer>>
  <2>1. Append(<<>>, answer) = <<answer>> /\ Append(<<"accepted">>, answer) = <<"accepted", answer>>
    BY AppendSecond
  <2> QED BY <1>1, <1>6, <2>1
<1>8. OneAnswer'
  BY <1>1, <1>7 DEF SocialInv, OneAnswer
<1> QED BY <1>2, <1>4, <1>5, <1>8

LEMMA Accepting ==
    ASSUME SocialInv, NEW h \in Handler, AcceptFriendRequest(h)
    PROVE  SocialInv'
<1> DEFINE f == call[h].friendship
<1>0. f \in FriendshipId /\ ends[f][1] \in User \cup {None}
  BY DEF SocialInv, Typed, Asked, AcceptFriendRequest
<1>1. CASE AwaitsAnswerOf(f, call[h].user)
  <2>1. /\ Answer(f, "accepted", "accepted")
        /\ Enter(h, "actor", [call[h] EXCEPT !.other = ends[f][1]])
        /\ UNCHANGED <<userVars, ends, deviceVars>>
        /\ status[f] = "pending"
    BY <1>1 DEF AcceptFriendRequest, AwaitsAnswerOf
  <2>2. /\ status' \in [FriendshipId -> {"free", "pending", "accepted", "gone"}]
        /\ DOMAIN answers' = FriendshipId
        /\ (Keyed /\ Unanswered /\ OneFriendshipPerPair /\ OneAnswer)'
    BY <1>0, <2>1, Answering DEF userVars
  <2>3. Typed'
    BY <1>0, <2>1, <2>2 DEF SocialInv, Typed, Enter, Stage, userVars, deviceVars
  <2>4. Asked' /\ Pruned'
    BY <2>1 DEF SocialInv, Typed, Asked, Pruned, Enter, deviceVars
  <2> QED BY <2>2, <2>3, <2>4 DEF SocialInv
<1>2. CASE ~AwaitsAnswerOf(f, call[h].user)
  <2>1. Return(h) /\ UNCHANGED <<userVars, friendVars, deviceVars>>
    BY <1>2 DEF AcceptFriendRequest, friendVars
  <2> QED BY <2>1, CallReturns
<1> QED BY <1>1, <1>2

LEMMA Ending ==
    ASSUME SocialInv, NEW u \in User, NEW f \in FriendshipId,
           DeclineFriend(u, f) \/ CancelFriendRequest(u, f) \/ RemoveFriend(u, f)
    PROVE  SocialInv'
<1> USE DEF DeclineFriend, CancelFriendRequest, RemoveFriend, AwaitsAnswerOf
<1>1. UNCHANGED <<userVars, ends, deviceVars, pc, call>>
  OBVIOUS
<1>2. PICK answer :
        /\ Answer(f, "gone", answer)
        /\ \/ status[f] = "pending" /\ answer \in {"declined", "cancelled"}
           \/ status[f] = "accepted" /\ answer = "removed"
  OBVIOUS
<1>3. /\ status' \in [FriendshipId -> {"free", "pending", "accepted", "gone"}]
      /\ DOMAIN answers' = FriendshipId
      /\ (Keyed /\ Unanswered /\ OneFriendshipPerPair /\ OneAnswer)'
  BY <1>1, <1>2, Answering DEF userVars
<1>4. (Typed /\ Asked /\ Pruned)'
  BY <1>1, <1>3 DEF SocialInv, Typed, Asked, Pruned, userVars, deviceVars
<1> QED BY <1>3, <1>4 DEF SocialInv

----------------------------------------------------------------------------
(* Devices and accounts.                                                   *)

LEMMA Devices ==
    ASSUME SocialInv, NEW t \in DeviceToken,
           \/ \E u \in User : RegisterDevice(u, t) \/ UnregisterDevice(u, t)
           \/ \E h \in Handler : DeleteDeviceToken(h)
           \/ Uninstall(t)
    PROVE  SocialInv'
<1> USE DEF RegisterDevice, UnregisterDevice, DeleteDeviceToken, Uninstall
<1>1. UNCHANGED <<userVars, friendVars, pc>> /\ installed' \subseteq installed
  OBVIOUS
<1>2. \A h \in Handler : /\ call'[h].tokens \subseteq call[h].tokens
                         /\ \A x \in {"user", "friendship", "other"} : call'[h][x] = call[h][x]
  BY DEF SocialInv, Typed
<1>3. Typed'
  <2>1. owner' \in [DeviceToken -> users \cup {None}]
    BY DEF SocialInv, Typed
  <2>2. call' \in [Handler -> [user       : User \cup {None},
                               friendship : FriendshipId \cup {None},
                               other      : User \cup {None},
                               tokens     : SUBSET DeviceToken]]
    BY DEF SocialInv, Typed
  <2> QED BY <1>1, <2>1, <2>2 DEF SocialInv, Typed, userVars, friendVars
<1>4. Asked' /\ Pruned'
  BY <1>1, <1>2 DEF SocialInv, Asked, Pruned
<1>5. (Keyed /\ Unanswered /\ OneFriendshipPerPair /\ OneAnswer)'
  BY <1>1 DEF SocialInv, Keyed, Unanswered, OneFriendshipPerPair, OneAnswer, Live, Ends,
              userVars, friendVars
<1> QED BY <1>3, <1>4, <1>5 DEF SocialInv

LEMMA Leaving ==
    ASSUME SocialInv, NEW u \in User, DeleteUser(u) \/ PremiumChanges(u)
    PROVE  SocialInv'
<1>1. CASE PremiumChanges(u)
  BY <1>1 DEF PremiumChanges, SocialInv, Typed, Keyed, Asked, Unanswered, OneFriendshipPerPair,
              OneAnswer, Pruned, Live, Ends, friendVars, deviceVars
<1>2. CASE DeleteUser(u)
  <2> USE <1>2 DEF DeleteUser
  <2>1. Typed'
    BY DEF SocialInv, Typed
  <2>2. \A g \in FriendshipId : /\ Live(g)' => Live(g) /\ u \notin Ends(g)
                               /\ status'[g] \in {status[g], "gone"}
    BY DEF Live, Cascaded
  <2>3. Keyed'
    BY <2>2 DEF SocialInv, Keyed, Ends
  <2>4. OneFriendshipPerPair'
    BY <2>2 DEF SocialInv, OneFriendshipPerPair, Ends
  <2>5. (Unanswered /\ OneAnswer)'
    BY <2>2 DEF SocialInv, Unanswered, OneAnswer
  <2>6. (Asked /\ Pruned)'
    BY DEF SocialInv, Asked, Pruned
  <2> QED BY <2>1, <2>3, <2>4, <2>5, <2>6 DEF SocialInv
<1> QED BY <1>1, <1>2

LEMMA SocialStep == SocialInv /\ [Next]_vars => SocialInv'
<1> SUFFICES ASSUME SocialInv, [Next]_vars PROVE SocialInv'
  OBVIOUS
<1>1. CASE UNCHANGED vars
  BY <1>1 DEF vars, userVars, friendVars, deviceVars, SocialInv, Typed, Keyed, Asked,
              Unanswered, OneFriendshipPerPair, OneAnswer, Pruned, Live, Ends
<1>2. CASE Next
  <2>1. CASE \E h \in Handler :
               \/ RequestFriend(h) \/ AcceptFriend(h) \/ LoadActor(h) \/ PushDisabled(h)
               \/ ListDeviceTokens(h) \/ Send(h) \/ Sent(h) \/ Fail(h)
    BY <2>1, Reading
  <2>2. CASE \E h \in Handler : CreateFriendRequest(h) \/ AcceptFriendRequest(h)
    BY <2>2, Inserting, Accepting
  <2>3. CASE \E h \in Handler : DeleteDeviceToken(h)
    <3>1. PICK t \in DeviceToken : TRUE
      BY <2>3 DEF DeleteDeviceToken, SocialInv, Typed
    <3> QED BY <2>3, <3>1, Devices
  <2>4. CASE \E u \in User, f \in FriendshipId :
               DeclineFriend(u, f) \/ CancelFriendRequest(u, f) \/ RemoveFriend(u, f)
    BY <2>4, Ending
  <2>5. CASE \/ \E u \in User, t \in DeviceToken : RegisterDevice(u, t) \/ UnregisterDevice(u, t)
             \/ \E t \in DeviceToken : Uninstall(t)
    BY <2>5, Devices
  <2>6. CASE \E u \in User : PremiumChanges(u) \/ DeleteUser(u)
    BY <2>6, Leaving
  <2> QED BY <1>2, <2>1, <2>2, <2>3, <2>4, <2>5, <2>6 DEF Next
<1> QED BY <1>1, <1>2

----------------------------------------------------------------------------
(* What is shown.                                                          *)

LEMMA KeysHold ==
    ASSUME SocialInv, NEW f \in FriendshipId, Live(f)
    PROVE  Ends(f) \subseteq users /\ Cardinality(Ends(f)) = 2
<1>1. ends[f][1] \in users /\ ends[f][2] \in users /\ ends[f][1] # ends[f][2]
  BY DEF SocialInv, Keyed
<1>2. IsFiniteSet({ends[f][1]}) /\ Cardinality({ends[f][1]}) = 1
  BY FS_Singleton
<1>3. Cardinality({ends[f][1]} \cup {ends[f][2]}) = 1 + 1
  <2> DEFINE S == {ends[f][1]}
  <2>1. IsFiniteSet(S) /\ Cardinality(S) = 1 /\ ends[f][2] \notin S
    BY <1>1, <1>2
  <2> HIDE DEF S
  <2>2. Cardinality(S \cup {ends[f][2]}) = 1 + 1
    BY <2>1, FS_AddElement
  <2> QED BY <2>2 DEF S
<1>4. Ends(f) = {ends[f][1]} \cup {ends[f][2]}
  BY DEF Ends
<1> QED BY <1>1, <1>3, <1>4

\* Because the other user's key holds, the JOIN that could drop a row drops none.
LEMMA NoneDropped ==
    ASSUME SocialInv, NEW u \in users
    PROVE  /\ ListFriends(u) = {[friendship |-> f, user |-> Other(f, u)] :
                                   f \in {g \in FriendshipId : status[g] = "accepted" /\ u \in Ends(g)}}
           /\ \A g \in FriendshipId : status[g] = "accepted" /\ u \in Ends(g)
                 => Other(g, u) \in users /\ Ends(g) = {u, Other(g, u)} /\ Other(g, Other(g, u)) = u
<1>1. \A g \in FriendshipId : status[g] = "accepted" /\ u \in Ends(g)
        => Other(g, u) \in users /\ Ends(g) = {u, Other(g, u)} /\ Other(g, Other(g, u)) = u
  BY DEF SocialInv, Keyed, Live, Ends, Other
<1> QED BY <1>1 DEF ListFriends

\* ListFriends counts the rows of its pages.
LEMMA Counted ==
    ASSUME SocialInv, NEW u \in users
    PROVE  Cardinality(ListFriends(u)) = CountFriends(u)
<1> DEFINE S == {g \in FriendshipId : status[g] = "accepted" /\ u \in Ends(g)}
           T == ListFriends(u)
           F == [f \in S |-> [friendship |-> f, user |-> Other(f, u)]]
<1>1. IsFiniteSet(S)
  BY FS_Subset
<1>2. T = {[friendship |-> f, user |-> Other(f, u)] : f \in S}
  BY NoneDropped
<1>3. F \in Bijection(S, T)
  <2>1. F \in [S -> T]
    BY <1>2
  <2>2. \A a, b \in S : F[a] = F[b] => a = b
    <3>1. \A a \in S : F[a].friendship = a
      OBVIOUS
    <3> QED BY <3>1
  <2>3. \A t \in T : \E x \in S : F[x] = t
    BY <1>2
  <2> HIDE DEF F, S, T
  <2> QED BY <2>1, <2>2, <2>3, Fun_IsBij
<1>4. Cardinality(T) = Cardinality(S)
  BY <1>1, <1>3, Fun_ExistsBij, FS_Bijection
<1> QED BY <1>4 DEF CountFriends

LEMMA Agreement == SocialInv => FriendListsAgree
<1> SUFFICES ASSUME SocialInv, NEW u \in users
             PROVE  LET friends  == ListFriends(u)
                        incoming == ListFriendRequests(u, "incoming")
                        outgoing == ListFriendRequests(u, "outgoing")
                        lists    == friends \cup incoming \cup outgoing
                        mine(m)  == [m EXCEPT !.user = u]
                    IN  /\ \A m \in lists, n \in lists : m.user = n.user => m = n
                        /\ \A m \in friends  : mine(m) \in ListFriends(m.user)
                        /\ \A m \in incoming : mine(m) \in ListFriendRequests(m.user, "outgoing")
                        /\ \A m \in outgoing : mine(m) \in ListFriendRequests(m.user, "incoming")
                        /\ friends = {[friendship |-> f, user |-> FriendStats(u, f)] :
                                         f \in {g \in FriendshipId : FriendStats(u, g) # None}}
                        /\ Cardinality(friends) = CountFriends(u)
  BY DEF FriendListsAgree
<1> DEFINE friends  == ListFriends(u)
           incoming == ListFriendRequests(u, "incoming")
           outgoing == ListFriendRequests(u, "outgoing")
           lists    == friends \cup incoming \cup outgoing
           Row(f, v) == [friendship |-> f, user |-> v]
<1>1. \A m \in lists : /\ m = Row(m.friendship, m.user)
                       /\ m.friendship \in FriendshipId /\ Live(m.friendship)
                       /\ Ends(m.friendship) = {u, m.user}
  <2>1. \A m \in friends : /\ m = Row(m.friendship, m.user)
                           /\ m.friendship \in FriendshipId /\ Live(m.friendship)
                           /\ Ends(m.friendship) = {u, m.user}
    BY NoneDropped DEF Live
  <2>2. \A m \in incoming \cup outgoing :
          /\ m = Row(m.friendship, m.user)
          /\ m.friendship \in FriendshipId /\ Live(m.friendship)
          /\ Ends(m.friendship) = {u, m.user}
    BY DEF ListFriendRequests, Live, Ends
  <2> QED BY <2>1, <2>2
<1>2. \A m \in lists, n \in lists : m.user = n.user => m = n
  BY <1>1 DEF SocialInv, OneFriendshipPerPair
<1>3. \A m \in friends : [m EXCEPT !.user = u] \in ListFriends(m.user)
  <2> SUFFICES ASSUME NEW m \in friends PROVE [m EXCEPT !.user = u] \in ListFriends(m.user)
    OBVIOUS
  <2>1. PICK f \in FriendshipId : /\ status[f] = "accepted" /\ u \in Ends(f)
                                  /\ m = Row(f, Other(f, u))
    BY DEF ListFriends
  <2>2. /\ m.user \in users /\ m.user \in Ends(f) /\ Other(f, m.user) = u
        /\ [m EXCEPT !.user = u] = Row(f, u)
    BY <2>1, NoneDropped
  <2> QED BY <2>1, <2>2 DEF ListFriends
<1>4. /\ \A m \in incoming : [m EXCEPT !.user = u] \in ListFriendRequests(m.user, "outgoing")
      /\ \A m \in outgoing : [m EXCEPT !.user = u] \in ListFriendRequests(m.user, "incoming")
  BY DEF ListFriendRequests
<1>5. friends = {Row(f, FriendStats(u, f)) : f \in {g \in FriendshipId : FriendStats(u, g) # None}}
  <2>1. None \notin users
    BY DEF SocialInv, Typed
  <2>2. {g \in FriendshipId : FriendStats(u, g) # None}
          = {g \in FriendshipId : status[g] = "accepted" /\ u \in Ends(g)}
    BY <2>1, NoneDropped DEF FriendStats
  <2> QED BY <2>2, NoneDropped DEF FriendStats
<1> QED BY <1>2, <1>3, <1>4, <1>5, Counted

----------------------------------------------------------------------------
(* The theorems.                                                           *)

THEOREM Invariance == Spec => []SocialInv
BY SocialInit, SocialStep, PTL DEF Spec

\* The types, and the keys of friendships, device tokens and entitlements hold
\* whoever deletes their account while a request is being inserted.
THEOREM TypeCorrect == Spec => []TypeOK
<1>1. SocialInv => TypeOK
  BY KeysHold DEF SocialInv, Typed, TypeOK, Stage
<1> QED BY <1>1, Invariance, PTL

\* However many users ask each other at the same moment, two of them have one
\* friendship or request between them.
THEOREM OnePerPair == Spec => []OneFriendshipPerPair
<1>1. SocialInv => OneFriendshipPerPair
  BY DEF SocialInv
<1> QED BY <1>1, Invariance, PTL

\* Accept, decline, cancel and remove answer a request once, however they race.
THEOREM AnsweredOnce == Spec => []OneAnswer
<1>1. SocialInv => OneAnswer
  BY DEF SocialInv
<1> QED BY <1>1, Invariance, PTL

\* The lists, their total and the statistics that users are shown fit together.
THEOREM ListsAgree == Spec => []FriendListsAgree
BY Agreement, Invariance, PTL

\* A token that Firebase accepts loses its row only with its owner or because its
\* owner unregistered it, however late a push deletes what was rejected.
THEOREM WorkingDevicesKept == Spec => OnlyDeadTokensDropped
<1> DEFINE A == \A t \in installed :
                  owner[t] # None /\ owner'[t] = None
                    => owner[t] \notin users' \/ UnregisterDevice(owner[t], t)
<1>1. SocialInv /\ [Next]_vars => [A]_vars
  <2> SUFFICES ASSUME SocialInv, Next, NEW t \in installed, owner[t] # None, owner'[t] = None
               PROVE  owner[t] \notin users' \/ UnregisterDevice(owner[t], t)
    OBVIOUS
  <2>0. t \in DeviceToken /\ DOMAIN owner = DeviceToken
    BY DEF SocialInv, Typed
  <2>1. owner' # owner
    OBVIOUS
  <2>2. CASE \E h \in Handler : DeleteDeviceToken(h)
    BY <2>0, <2>2 DEF DeleteDeviceToken, SocialInv, Pruned
  <2>3. CASE \E u \in User, d \in DeviceToken : RegisterDevice(u, d) \/ UnregisterDevice(u, d)
    BY <2>0, <2>3 DEF RegisterDevice, UnregisterDevice, SocialInv, Typed
  <2>4. CASE \E u \in User : DeleteUser(u)
    BY <2>0, <2>4 DEF DeleteUser
  <2>5. \/ \E h \in Handler : DeleteDeviceToken(h)
        \/ \E u \in User, d \in DeviceToken : RegisterDevice(u, d) \/ UnregisterDevice(u, d)
        \/ \E u \in User : DeleteUser(u)
    BY <2>1 DEF Next, RequestFriend, CreateFriendRequest, AcceptFriend, AcceptFriendRequest,
                DeclineFriend, CancelFriendRequest, RemoveFriend, LoadActor, PushDisabled,
                ListDeviceTokens, Send, Sent, Fail, Uninstall, PremiumChanges, deviceVars
  <2> QED BY <2>2, <2>3, <2>4, <2>5
<1> QED BY <1>1, Invariance, PTL DEF Spec, OnlyDeadTokensDropped

=============================================================================
