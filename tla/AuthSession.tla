---------------------------- MODULE AuthSession ----------------------------
(***************************************************************************)
(* The sessions and refresh tokens of one email address: signing in with a *)
(* verified OTP, rotating a refresh token, logging out, deleting the       *)
(* account, and the cleanup job.                                           *)
(*                                                                         *)
(* A request handler is a process (Proc) that runs one READ COMMITTED      *)
(* transaction.  Its statements are separate steps wherever another        *)
(* transaction can get in between; its writes become visible at COMMIT.    *)
(* Row locks are not variables: which locks a process holds follows from   *)
(* where its transaction stands.  Whether an OTP is accepted is the        *)
(* concern of Otp; here a sign-in starts with an accepted one.             *)
(***************************************************************************)
EXTENDS FiniteSets, Integers

CONSTANTS
    Proc,     \* request handlers
    Session,  \* ids of auth_sessions rows
    Token,    \* ids of refresh_tokens rows
    None      \* no session, no token

ASSUME NoneAssumption == None \notin Session \cup Token

VARIABLES
    user,    \* TRUE: the address has a users row
    sess,    \* sess[s]: "free", "active", "revoked" or "gone"
    lapsed,  \* sessions whose expires_at has passed
    tok,     \* tok[t]: "free", "live", "revoked" or "gone"
    of,      \* of[t]: the session of token t, or None
    pc,      \* pc[p]: where p's transaction stands
    req,     \* req[p]: the token presented, and the ids of the rows to insert
    hold,    \* hold[p]: sessions p has revoked but not committed
    served   \* served[t]: answers given to requests that presented t, up to two

rowVars == <<user, sess, lapsed, tok, of>>
vars    == <<rowVars, pc, req, hold, served>>

NoReq == [t |-> None, newT |-> None, newS |-> None]

\* Transactions past a SELECT ... FOR UPDATE (or an uncommitted INSERT) of the
\* users row, and past GetRefreshTokenByHashForUpdate.
HasUser  == {"revoke", "issue", "confirm"}
HasToken == {"reuse", "session", "rotate"}

UserLocked       == \E q \in Proc : pc[q] \in HasUser
TokenLocked(t)   == \E q \in Proc : pc[q] \in HasToken /\ req[q].t = t
SessionLocked(s) == \E q \in Proc : s \in hold[q]

Active == {s \in Session : sess[s] = "active"}

Go(p, where) == pc' = [pc EXCEPT ![p] = where]

\* The transaction ends: its locks are released.
End(p) ==
    /\ Go(p, "idle")
    /\ req'  = [req EXCEPT ![p] = NoReq]
    /\ hold' = [hold EXCEPT ![p] = {}]

\* One more answer to the token that p presents.
Presented(p) == served' = [served EXCEPT ![req[p].t] = IF @ = 2 THEN 2 ELSE @ + 1]

\* A 401 answer to a refresh that changes no row.
Answer(p) == End(p) /\ Presented(p) /\ UNCHANGED rowVars

\* gen_random_uuid and the like: ids no other row or request has.
FreeToken(t)   == tok[t] = "free"  /\ \A q \in Proc : req[q].newT # t
FreeSession(s) == sess[s] = "free" /\ \A q \in Proc : req[q].newS # s

Init ==
    /\ user   = FALSE
    /\ sess   = [s \in Session |-> "free"]
    /\ lapsed = {}
    /\ tok    = [t \in Token |-> "free"]
    /\ of     = [t \in Token |-> None]
    /\ pc     = [p \in Proc |-> "idle"]
    /\ req    = [p \in Proc |-> NoReq]
    /\ hold   = [p \in Proc |-> {}]
    /\ served = [t \in Token |-> 0]

----------------------------------------------------------------------------
(* VerifyOTP, once the OTP is accepted.                                    *)

SignIn(p) ==
    /\ pc[p] = "idle"
    /\ \E s \in Session, t \in Token :
         /\ FreeSession(s) /\ FreeToken(t)
         /\ req' = [req EXCEPT ![p] = [t |-> None, newT |-> t, newS |-> s]]
    /\ Go(p, "find")
    /\ UNCHANGED <<rowVars, hold, served>>

\* ensureUserForEmail: GetUserByEmailForUpdate, which does not see a row that
\* another transaction has inserted and not committed.
FindUser(p) ==
    /\ pc[p] = "find"
    /\ user => ~UserLocked
    /\ Go(p, IF user THEN "revoke" ELSE "insert")
    /\ UNCHANGED <<rowVars, req, hold, served>>

\* fault: no UNIQUE index on the email, so that no INSERT waits for another
InsertUserAnyway(p) ==
    /\ pc[p] = "insert"
    /\ Go(p, "revoke")
    /\ UNCHANGED <<rowVars, req, hold, served>>

\* insertUserWithRetries: the INSERT waits for another one of the same email.
\* If the row is there by then, idx_users_email is violated and the savepoint
\* rolled back.
InsertUser(p) ==
    /\ pc[p] = "insert"
    /\ user \/ ~UserLocked
    /\ Go(p, IF user THEN "reload" ELSE "revoke")
    /\ UNCHANGED <<rowVars, req, hold, served>>

\* GetUserByEmailForUpdate after the violation; status 500 if the account has
\* been deleted meanwhile.
ReloadUser(p) ==
    /\ pc[p] = "reload"
    /\ user => ~UserLocked
    /\ IF user THEN Go(p, "revoke") /\ UNCHANGED <<req, hold>> ELSE End(p)
    /\ UNCHANGED <<rowVars, served>>

\* RevokeAllUserSessions
RevokeAll(p) ==
    /\ pc[p] = "revoke"
    /\ \A s \in Active : ~SessionLocked(s)
    /\ hold' = [hold EXCEPT ![p] = Active]
    /\ Go(p, "issue")
    /\ UNCHANGED <<rowVars, req, served>>

\* issueAuthOutput and COMMIT: the user, a session and its first token.
Issue(p) ==
    /\ pc[p] = "issue"
    /\ user' = TRUE
    /\ sess' = [s \in Session |-> IF s = req[p].newS THEN "active"
                                  ELSE IF s \in hold[p] THEN "revoked" ELSE sess[s]]
    /\ tok'  = [tok EXCEPT ![req[p].newT] = "live"]
    /\ of'   = [of EXCEPT ![req[p].newT] = req[p].newS]
    /\ End(p)
    /\ UNCHANGED <<lapsed, served>>

----------------------------------------------------------------------------
(* Refresh.                                                                *)

\* Someone presents a token that was issued once.  Only a live one can come to
\* be rotated, so only for a live one an id is set aside.
Refresh(p) ==
    /\ pc[p] = "idle"
    /\ \E t \in Token, new \in Token \cup {None} :
         /\ tok[t] # "free"
         /\ IF tok[t] = "live" THEN new # None /\ FreeToken(new) ELSE new = None
         /\ req' = [req EXCEPT ![p] = [t |-> t, newT |-> new, newS |-> None]]
    /\ Go(p, "token")
    /\ UNCHANGED <<rowVars, hold, served>>

\* fault: the token is read without FOR UPDATE
LockTokenUnlocked(p) ==
    /\ pc[p] = "token"
    /\ CASE tok[req[p].t] = "gone"    -> Answer(p)
         [] tok[req[p].t] = "revoked" -> Go(p, "reuse") /\ UNCHANGED <<rowVars, req, hold, served>>
         [] tok[req[p].t] = "live"    -> Go(p, "session") /\ UNCHANGED <<rowVars, req, hold, served>>

\* GetRefreshTokenByHashForUpdate; the token is unknown, revoked or good.
LockToken(p) ==
    /\ pc[p] = "token"
    /\ ~TokenLocked(req[p].t)
    /\ \/ tok[req[p].t] = "gone" /\ Answer(p)
       \/ /\ tok[req[p].t] # "gone"
          /\ Go(p, IF tok[req[p].t] = "revoked" THEN "reuse" ELSE "session")
          /\ UNCHANGED <<rowVars, req, hold, served>>

\* fault: the transaction is rolled back instead of committed
ReuseNotCommitted(p) == pc[p] = "reuse" /\ Answer(p)

\* A revoked token is presented again: RevokeSession, COMMIT and status 401.
Reuse(p) ==
    /\ pc[p] = "reuse"
    /\ ~SessionLocked(of[req[p].t])
    /\ sess'   = [sess EXCEPT ![of[req[p].t]] = "revoked"]
    /\ Presented(p)
    /\ End(p)
    /\ UNCHANGED <<user, lapsed, tok, of>>

\* fault: the 401 leaves the transaction open
ReadSessionNoRollback(p) ==
    /\ pc[p] = "session"
    /\ sess[of[req[p].t]] = "active" /\ of[req[p].t] \notin lapsed
    /\ Go(p, "rotate")
    /\ UNCHANGED <<rowVars, req, hold, served>>

\* GetSessionByID, a plain read.  A token expires no earlier than its session.
ReadSession(p) ==
    /\ pc[p] = "session"
    /\ LET s == of[req[p].t]
       IN  \/ /\ sess[s] = "active" /\ s \notin lapsed
              /\ Go(p, "rotate")
              /\ UNCHANGED <<rowVars, req, hold, served>>
           \/ (sess[s] # "active" \/ s \in lapsed) /\ Answer(p)

\* fault: the presented token is left as it was
RotateKeepsOld(p) ==
    /\ pc[p] = "rotate"
    /\ ~UserLocked
    /\ tok'    = [tok EXCEPT ![req[p].newT] = "live"]
    /\ of'     = [of EXCEPT ![req[p].newT] = of[req[p].t]]
    /\ Presented(p)
    /\ End(p)
    /\ UNCHANGED <<user, sess, lapsed>>

\* RevokeRefreshToken, InsertRefreshToken and COMMIT.  The foreign key check of
\* the INSERT waits for whoever has locked the users row.
Rotate(p) ==
    /\ pc[p] = "rotate"
    /\ ~UserLocked
    /\ tok'    = [tok EXCEPT ![req[p].t] = "revoked", ![req[p].newT] = "live"]
    /\ of'     = [of EXCEPT ![req[p].newT] = of[req[p].t]]
    /\ Presented(p)
    /\ End(p)
    /\ UNCHANGED <<user, sess, lapsed>>

----------------------------------------------------------------------------
(* Logout, account deletion, time and cleanup.                             *)

\* One UPDATE, outside any transaction.
Logout(s) ==
    /\ sess[s] = "active" /\ ~SessionLocked(s)
    /\ sess' = [sess EXCEPT ![s] = "revoked"]
    /\ UNCHANGED <<user, lapsed, tok, of, pc, req, hold, served>>

\* ConfirmAccountDeletion: the account may have gone since JWTAuth let it in.
DeleteAccount(p) ==
    /\ pc[p] = "idle"
    /\ Go(p, "lock")
    /\ UNCHANGED <<rowVars, req, hold, served>>

\* GetUserByIDForUpdate; status 401 if the account has been deleted meanwhile.
LockUser(p) ==
    /\ pc[p] = "lock"
    /\ user => ~UserLocked
    /\ IF user THEN Go(p, "confirm") /\ UNCHANGED <<req, hold>> ELSE End(p)
    /\ UNCHANGED <<rowVars, served>>

\* DeleteUser and COMMIT; the cascade to sessions and tokens waits for their
\* locks.
ConfirmDeletion(p) ==
    /\ pc[p] = "confirm"
    /\ \A t \in Token : ~TokenLocked(t)
    /\ \A s \in Session : ~SessionLocked(s)
    /\ user' = FALSE
    /\ sess' = [s \in Session |-> IF sess[s] = "free" THEN "free" ELSE "gone"]
    /\ tok'  = [t \in Token |-> IF tok[t] = "free" THEN "free" ELSE "gone"]
    /\ End(p)
    /\ UNCHANGED <<lapsed, of, served>>

\* A session's expires_at passes.
Lapse(s) ==
    /\ sess[s] \in {"active", "revoked"} /\ s \notin lapsed
    /\ lapsed' = lapsed \cup {s}
    /\ UNCHANGED <<user, sess, tok, of, pc, req, hold, served>>

\* fault: no ON DELETE CASCADE from auth_sessions to refresh_tokens
CleanupSessionOnly(s) ==
    /\ sess[s] = "revoked" \/ (sess[s] = "active" /\ s \in lapsed)
    /\ ~SessionLocked(s)
    /\ sess' = [sess EXCEPT ![s] = "gone"]
    /\ UNCHANGED <<user, lapsed, tok, of, pc, req, hold, served>>

\* cleanupExpiredSessions and cleanupRevokedSessions, with the cascade.
CleanupSession(s) ==
    /\ sess[s] = "revoked" \/ (sess[s] = "active" /\ s \in lapsed)
    /\ ~SessionLocked(s)
    /\ \A t \in Token : of[t] = s => ~TokenLocked(t)
    /\ sess' = [sess EXCEPT ![s] = "gone"]
    /\ tok'  = [t \in Token |-> IF of[t] = s THEN "gone" ELSE tok[t]]
    /\ UNCHANGED <<user, lapsed, of, pc, req, hold, served>>

\* cleanupExpiredRefreshTokens and cleanupRevokedRefreshTokens
CleanupToken(t) ==
    /\ tok[t] = "revoked" \/ (tok[t] = "live" /\ of[t] \in lapsed)
    /\ ~TokenLocked(t)
    /\ tok' = [tok EXCEPT ![t] = "gone"]
    /\ UNCHANGED <<user, sess, lapsed, of, pc, req, hold, served>>

\* A refresh that waits for a users row whose deletion waits for its token.
Deadlocked(p) ==
    \E q \in Proc : \/ pc[p] = "rotate" /\ pc[q] = "confirm"
                    \/ pc[p] = "confirm" /\ pc[q] = "rotate"

\* PostgreSQL breaks a deadlock by failing one of the transactions.
BreakDeadlock(p) ==
    /\ Deadlocked(p)
    /\ End(p)
    /\ UNCHANGED <<rowVars, served>>

\* Any statement fails, the OTP of a deletion is wrong, or the client goes away:
\* ROLLBACK.
Fail(p) ==
    /\ pc[p] # "idle"
    /\ End(p)
    /\ UNCHANGED <<rowVars, served>>

Step(p) ==
    \/ FindUser(p) \/ InsertUser(p) \/ ReloadUser(p) \/ RevokeAll(p) \/ Issue(p)
    \/ LockToken(p) \/ Reuse(p) \/ ReadSession(p) \/ Rotate(p)
    \/ LockUser(p) \/ ConfirmDeletion(p)
    \/ BreakDeadlock(p)

Next ==
    \/ \E p \in Proc : SignIn(p) \/ Refresh(p) \/ DeleteAccount(p) \/ Step(p) \/ Fail(p)
    \/ \E s \in Session : Logout(s) \/ Lapse(s) \/ CleanupSession(s)
    \/ \E t \in Token : CleanupToken(t)

Spec == Init /\ [][Next]_vars

\* Every handler keeps running, and a lock that is wanted is granted in the end
\* (PostgreSQL queues the waiters of a row).
FairSpec == Spec /\ \A p \in Proc : SF_vars(Step(p))

----------------------------------------------------------------------------

\* The types of the rows, of the requests and of the row locks.
TypeOK ==
    /\ user   \in BOOLEAN
    /\ sess   \in [Session -> {"free", "active", "revoked", "gone"}]
    /\ lapsed \subseteq Session
    /\ tok    \in [Token -> {"free", "live", "revoked", "gone"}]
    /\ of     \in [Token -> Session \cup {None}]
    /\ pc     \in [Proc -> {"idle", "find", "insert", "reload", "token", "lock"}
                             \cup HasUser \cup HasToken]
    /\ req    \in [Proc -> [t : Token \cup {None}, newT : Token \cup {None},
                            newS : Session \cup {None}]]
    /\ hold   \in [Proc -> SUBSET Session]
    /\ served \in [Token -> 0 .. 2]

\* An address has at most one session that is not revoked, however its sign-ins
\* interleave, the first two included (the users row is locked, or its INSERT
\* waited for, before RevokeAllUserSessions).
SingleActiveSession == \A s1, s2 \in Active : s1 = s2

\* A session has at most one refresh token that can still be exchanged.
OneLiveToken ==
    \A t1, t2 \in Token :
        (tok[t1] = "live" /\ tok[t2] = "live" /\ of[t1] = of[t2]) => t1 = t2

\* If a token has been presented twice, by its owner and by someone else, the
\* session ends, whichever came first; unless the cleanup job has forgotten
\* that the token was revoked.
ReusedTokenEndsSession ==
    \A t \in Token :
        (served[t] >= 2 /\ tok[t] # "gone")
            => sess[of[t]] # "active" \/ of[t] \in lapsed

\* No session or token outlives its account, nor a token its session: a request
\* that was under way when the account was deleted leaves nothing behind.
NothingOrphaned ==
    /\ ~user => \A s \in Session : sess[s] \in {"free", "gone"}
    /\ \A t \in Token : tok[t] \in {"live", "revoked"} =>
                          sess[of[t]] \in {"active", "revoked"}

\* Every request comes to an end, whatever locks it waits for.
RequestsEnd == \A p \in Proc : pc[p] # "idle" ~> pc[p] = "idle"

----------------------------------------------------------------------------
(* The inductive invariant.                                                *)

Ended(s) == sess[s] # "active" \/ s \in lapsed

\* One transaction at a time has the users row, and it has revoked every active
\* session before it inserts one.
UserLock ==
    /\ \A p, q \in Proc : (pc[p] \in HasUser /\ pc[q] \in HasUser) => p = q
    /\ \A p \in Proc : hold[p] = IF pc[p] = "issue" THEN Active ELSE {}

\* One transaction at a time has a token, which stays as it was when it was read.
TokenLock ==
    /\ \A p, q \in Proc :
         (pc[p] \in HasToken /\ pc[q] \in HasToken /\ req[p].t = req[q].t) => p = q
    /\ \A p \in Proc : pc[p] = "reuse" => tok[req[p].t] = "revoked"
    /\ \A p \in Proc : pc[p] \in {"session", "rotate"} => tok[req[p].t] = "live"

\* The ids set aside for rows not inserted yet are nobody else's.
Fresh ==
    /\ \A p \in Proc : /\ req[p].newT # None => tok[req[p].newT] = "free"
                       /\ req[p].newS # None => sess[req[p].newS] = "free"
    /\ \A p, q \in Proc : /\ (req[p].newT = req[q].newT /\ req[p].newT # None) => p = q
                          /\ (req[p].newS = req[q].newS /\ req[p].newS # None) => p = q

\* A transaction has the ids it needs from here on.
Provided ==
    /\ \A p \in Proc : pc[p] \in {"find", "insert", "reload", "revoke", "issue"}
                         => req[p].newT # None /\ req[p].newS # None
    /\ \A p \in Proc : pc[p] \in {"token"} \cup HasToken
                         => req[p].t # None /\ tok[req[p].t] # "free"
    /\ \A p \in Proc : (\/ pc[p] \in {"session", "rotate"}
                        \/ pc[p] = "token" /\ tok[req[p].t] = "live") => req[p].newT # None

\* Every token that was ever issued belongs to a session that was.
Linked ==
    \A t \in Token : IF tok[t] = "free" THEN of[t] = None /\ served[t] = 0
                     ELSE of[t] \in Session /\ sess[of[t]] # "free"

\* A token is answered once while it is live, unless its session is over.
Spent == \A t \in Token : (tok[t] = "live" /\ served[t] >= 1) => Ended(of[t])

IInv ==
    /\ TypeOK
    /\ UserLock
    /\ TokenLock
    /\ Fresh
    /\ Provided
    /\ Linked
    /\ NothingOrphaned
    /\ SingleActiveSession
    /\ OneLiveToken
    /\ Spent
    /\ ReusedTokenEndsSession

=============================================================================
