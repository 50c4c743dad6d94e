---------------------------- MODULE AccessToken ----------------------------
(***************************************************************************)
(* Access tokens and the sessions they name: what jwtAuth lets in while    *)
(* AuthSession's transactions go on.                                       *)
(*                                                                         *)
(* An access token stays good until it expires, whatever becomes of its    *)
(* session, so every request has the session looked up first.  That is one *)
(* statement outside any transaction: the session may end at once after    *)
(* it.  A token of an administrator names no session.  Which tokens are    *)
(* malformed or expired is left open: those requests end with status 401   *)
(* and leave no trace.                                                     *)
(***************************************************************************)
EXTENDS AuthSession

CONSTANT Caller  \* requests that carry an access token

VARIABLES
    call,  \* call[c]: how far c has come, on which routes, with whose token
    told   \* sessions of which an answer has said that they are over

accessVars == <<vars, call, told>>

Route == {"user", "admin"}

\* late: the session was already over, as far as answers had said, when the
\* request came in.
NoCall == [at |-> "idle", route |-> "user", sid |-> None, late |-> FALSE]

Advance(c, where) == call' = [call EXCEPT ![c].at = where]

Respond(c) == call' = [call EXCEPT ![c] = NoCall]

\* The sid claims of the tokens issued so far; None is an administrator's.
Sid == {s \in Session : sess[s] # "free"} \cup {None}

AccessInit ==
    /\ Init
    /\ call = [c \in Caller |-> NoCall]
    /\ told = {}

----------------------------------------------------------------------------
(* jwtAuth.                                                                *)

\* The role that AdminJWTAuth asks for, and the session that JWTAuth does.
ClaimsFit(route, sid) == (route = "admin") <=> (sid = None)

\* A token with fitting claims.  A user's goes on to have its session looked up.
Authenticate(c) ==
    /\ call[c].at = "idle"
    /\ \E route \in Route, sid \in Sid :
         /\ ClaimsFit(route, sid)
         /\ call' = [call EXCEPT ![c] =
                       [at    |-> IF route = "admin" THEN "in" ELSE "check",
                        route |-> route,
                        sid   |-> sid,
                        late  |-> sid \in told]]
    /\ UNCHANGED <<vars, told>>

\* fault: the session is only looked up, not looked at
SessionFound(c) == sess[call[c].sid] \in {"active", "revoked"}

\* ValidateSession: the row is there, not revoked and not expired.
SessionGood(c) == sess[call[c].sid] = "active" /\ call[c].sid \notin lapsed

ValidateSession(c) ==
    /\ call[c].at = "check"
    /\ IF SessionGood(c) THEN Advance(c, "in") ELSE Respond(c)
    /\ UNCHANGED <<vars, told>>

\* The query fails: status 401 as well.
ValidateFails(c) ==
    /\ call[c].at = "check"
    /\ Respond(c)
    /\ UNCHANGED <<vars, told>>

----------------------------------------------------------------------------
(* Handlers.                                                               *)

\* Any handler that changes nothing of the session.
Handled(c) ==
    /\ call[c].at = "in"
    /\ Respond(c)
    /\ UNCHANGED <<vars, told>>

\* Logout, status 204: RevokeSession finds the row active, or revoked, or gone.
LogoutCall(c) ==
    /\ call[c].at = "in" /\ call[c].route = "user"
    /\ \/ Logout(call[c].sid)
       \/ sess[call[c].sid] # "active" /\ UNCHANGED vars
    /\ told' = told \cup {call[c].sid}
    /\ Respond(c)

\* The deletion of the account goes on as a transaction of AuthSession.
DeleteCall(c, p) ==
    /\ call[c].at = "in" /\ call[c].route = "user"
    /\ DeleteAccount(p)
    /\ Respond(c)
    /\ UNCHANGED told

----------------------------------------------------------------------------
(* AuthSession's transactions, with what their answers say.                *)

\* A sign-in ends every other session of the address, the deletion of the
\* account all of them, a token presented again its own.
Announced(p) == IF pc[p] = "reuse" THEN {of[req[p].t]}
                ELSE {s \in Session : sess[s] # "free"}

Finish(p) ==
    /\ Issue(p) \/ Reuse(p) \/ ConfirmDeletion(p)
    /\ told' = told \cup Announced(p)
    /\ UNCHANGED call

Silent(p) ==
    /\ \/ FindUser(p) \/ InsertUser(p) \/ ReloadUser(p) \/ RevokeAll(p)
       \/ LockToken(p) \/ ReadSession(p) \/ Rotate(p) \/ LockUser(p)
       \/ BreakDeadlock(p)
    /\ UNCHANGED <<call, told>>

Run(p) == Finish(p) \/ Silent(p)

AccessNext ==
    \/ \E c \in Caller :
         \/ Authenticate(c) \/ ValidateSession(c) \/ ValidateFails(c)
         \/ Handled(c) \/ LogoutCall(c) \/ \E p \in Proc : DeleteCall(c, p)
    \/ \E p \in Proc :
         \/ Run(p)
         \/ (SignIn(p) \/ Refresh(p) \/ Fail(p)) /\ UNCHANGED <<call, told>>
    \/ /\ \/ \E s \in Session : Lapse(s) \/ CleanupSession(s)
          \/ \E t \in Token : CleanupToken(t)
       /\ UNCHANGED <<call, told>>

AccessSpec == AccessInit /\ [][AccessNext]_accessVars

\* As FairSpec of AuthSession.
FairAccessSpec == AccessSpec /\ \A p \in Proc : SF_accessVars(Run(p))

----------------------------------------------------------------------------

AccessTypeOK ==
    /\ call \in [Caller -> [at : {"idle", "check", "in"}, route : Route,
                            sid : Session \cup {None}, late : BOOLEAN]]
    /\ told \subseteq Session

\* Once someone has been told that a session is over (by the answer to a logout,
\* to a sign-in elsewhere, to a deletion of the account or to a token presented
\* twice), no request that comes in with one of its access tokens is let in,
\* although the token itself is still good.  And an administrator's token opens
\* no user's routes, nor a user's token the administrators'.
EndedSessionRefused ==
    \A c \in Caller : call[c].at = "in" =>
        IF call[c].route = "admin" THEN call[c].sid = None
        ELSE call[c].sid \in Session /\ ~call[c].late

\* What has been said stays true: a session never comes back to life.
ToldIsOver == \A s \in told : sess[s] # "free" /\ Ended(s)

\* What a request carries until it is answered.
Carried ==
    \A c \in Caller :
        /\ call[c].late => call[c].sid \in told
        /\ call[c].at = "check" => call[c].sid \in Session /\ call[c].route = "user"
        /\ call[c].sid \in Session => sess[call[c].sid] # "free"

AccessIInv ==
    /\ IInv
    /\ AccessTypeOK
    /\ ToldIsOver
    /\ Carried
    /\ EndedSessionRefused

=============================================================================
