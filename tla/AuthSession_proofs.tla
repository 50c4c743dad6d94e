------------------------ MODULE AuthSession_proofs ------------------------
(***************************************************************************)
(* The safety properties of AuthSession, and of AccessToken beside it, for *)
(* any number of handlers, sessions, tokens and requests.                  *)
(*                                                                         *)
(* IInv is inductive: one lemma per action shows that it preserves each    *)
(* conjunct of IInv.  AccessToken implements AuthSession, so IInv holds of *)
(* it too; with IInv, what has been said of a session's end stays true,    *)
(* and no request that comes in afterwards is let in.                      *)
(***************************************************************************)
EXTENDS AccessToken, TLAPS

\* What the end of a transaction does to the variables of the handlers.
LEMMA EndEffect ==
    ASSUME TypeOK, NEW p \in Proc, End(p)
    PROVE  /\ pc' \in [Proc -> {"idle", "find", "insert", "reload", "token", "lock"}
                                 \cup HasUser \cup HasToken]
           /\ req' \in [Proc -> [t : Token \cup {None}, newT : Token \cup {None},
                                 newS : Session \cup {None}]]
           /\ hold' \in [Proc -> SUBSET Session]
           /\ pc'[p] = "idle"
           /\ req'[p].t = None /\ req'[p].newT = None /\ req'[p].newS = None
           /\ \A q \in Proc : q # p => pc'[q] = pc[q] /\ req'[q] = req[q]
  BY DEF TypeOK, End, Go, NoReq

\* What an answer does to the count of the token presented.
LEMMA PresentedEffect ==
    ASSUME TypeOK, NEW p \in Proc, req[p].t \in Token, Presented(p)
    PROVE  /\ served' \in [Token -> 0 .. 2]
           /\ \A t \in Token : t # req[p].t => served'[t] = served[t]
           /\ served[req[p].t] >= 1 => served'[req[p].t] >= 2
  BY DEF TypeOK, Presented

\* The token a refresh has read, and its session, are there.
LEMMA TokenRead ==
    ASSUME IInv, NEW p \in Proc, pc[p] \in {"token"} \cup HasToken
    PROVE  /\ req[p].t \in Token
           /\ tok[req[p].t] # "free" /\ of[req[p].t] \in Session
           /\ pc[p] # "token" => sess[of[req[p].t]] \in {"active", "revoked"}
<1>1. req[p].t \in Token /\ tok[req[p].t] # "free"
  BY DEF IInv, TypeOK, Provided
<1>2. pc[p] \in HasToken => tok[req[p].t] \in {"live", "revoked"}
  BY DEF IInv, TokenLock, HasToken
<1> QED BY <1>1, <1>2 DEF IInv, Linked, NothingOrphaned

\* A step that writes no row leaves alone what is said of rows only.
LEMMA RowsUntouched ==
    ASSUME IInv, UNCHANGED <<rowVars, served>>
    PROVE  /\ Linked' /\ NothingOrphaned' /\ SingleActiveSession'
           /\ OneLiveToken' /\ Spent' /\ ReusedTokenEndsSession'
  BY DEF IInv, rowVars, Linked, NothingOrphaned, SingleActiveSession, Active, OneLiveToken,
     Spent, Ended, ReusedTokenEndsSession

\* SignIn preserves the inductive invariant.
LEMMA SignInPreserves ==
    ASSUME IInv, NEW p \in Proc, SignIn(p) PROVE IInv'
<1>1. TypeOK'
  BY NoneAssumption DEF IInv, TypeOK, HasUser, HasToken, SignIn, Go, rowVars, FreeToken,
       FreeSession
<1>2. UserLock'
  BY NoneAssumption DEF IInv, UserLock, TypeOK, HasUser, Active, SignIn, Go, rowVars,
       FreeToken, FreeSession
<1>3. TokenLock'
  BY NoneAssumption DEF IInv, TokenLock, TypeOK, HasToken, Provided, Fresh, SignIn, Go,
       rowVars, FreeToken, FreeSession
<1>4. Fresh'
  BY NoneAssumption DEF IInv, Fresh, TypeOK, Linked, Provided, SignIn, Go, rowVars,
       FreeToken, FreeSession
<1>5. Provided'
  BY NoneAssumption DEF IInv, Provided, TypeOK, TokenLock, HasToken, Fresh, SignIn, Go,
       rowVars, FreeToken, FreeSession
<1>6. /\ Linked' /\ NothingOrphaned' /\ SingleActiveSession'
      /\ OneLiveToken' /\ Spent' /\ ReusedTokenEndsSession'
  BY RowsUntouched DEF SignIn
<1> QED BY <1>1, <1>2, <1>3, <1>4, <1>5, <1>6 DEF IInv

\* Refresh preserves the inductive invariant.
LEMMA RefreshPreserves ==
    ASSUME IInv, NEW p \in Proc, Refresh(p) PROVE IInv'
<1>1. TypeOK'
  BY NoneAssumption DEF IInv, TypeOK, HasUser, HasToken, Refresh, Go, rowVars, FreeToken
<1>2. UserLock'
  BY NoneAssumption DEF IInv, UserLock, TypeOK, HasUser, Active, Refresh, Go, rowVars,
       FreeToken
<1>3. TokenLock'
  BY NoneAssumption DEF IInv, TokenLock, TypeOK, HasToken, Provided, Fresh, Refresh, Go,
       rowVars, FreeToken
<1>4. Fresh'
  BY NoneAssumption DEF IInv, Fresh, TypeOK, Linked, Provided, Refresh, Go, rowVars,
       FreeToken
<1>5. Provided'
  BY NoneAssumption DEF IInv, Provided, TypeOK, TokenLock, HasToken, Fresh, Refresh, Go,
       rowVars, FreeToken
<1>6. /\ Linked' /\ NothingOrphaned' /\ SingleActiveSession'
      /\ OneLiveToken' /\ Spent' /\ ReusedTokenEndsSession'
  BY RowsUntouched DEF Refresh
<1> QED BY <1>1, <1>2, <1>3, <1>4, <1>5, <1>6 DEF IInv

\* DeleteAccount preserves the inductive invariant.
LEMMA DeleteAccountPreserves ==
    ASSUME IInv, NEW p \in Proc, DeleteAccount(p) PROVE IInv'
<1>1. TypeOK'
  BY NoneAssumption DEF IInv, TypeOK, HasUser, HasToken, DeleteAccount, Go, rowVars
<1>2. UserLock'
  BY NoneAssumption DEF IInv, UserLock, TypeOK, HasUser, Active, DeleteAccount, Go,
       rowVars
<1>3. TokenLock'
  BY NoneAssumption DEF IInv, TokenLock, TypeOK, HasToken, Provided, Fresh,
       DeleteAccount, Go, rowVars
<1>4. Fresh'
  BY NoneAssumption DEF IInv, Fresh, TypeOK, Linked, Provided, DeleteAccount, Go,
       rowVars
<1>5. Provided'
  BY NoneAssumption DEF IInv, Provided, TypeOK, TokenLock, HasToken, Fresh,
       DeleteAccount, Go, rowVars
<1>6. /\ Linked' /\ NothingOrphaned' /\ SingleActiveSession'
      /\ OneLiveToken' /\ Spent' /\ ReusedTokenEndsSession'
  BY RowsUntouched DEF DeleteAccount
<1> QED BY <1>1, <1>2, <1>3, <1>4, <1>5, <1>6 DEF IInv

\* FindUser preserves the inductive invariant.
LEMMA FindUserPreserves ==
    ASSUME IInv, NEW p \in Proc, FindUser(p) PROVE IInv'
<1>1. TypeOK'
  BY NoneAssumption DEF IInv, TypeOK, HasUser, HasToken, FindUser, Go, rowVars,
       UserLocked
<1>2. UserLock'
  BY NoneAssumption DEF IInv, UserLock, TypeOK, HasUser, Active, FindUser, Go, rowVars,
       UserLocked
<1>3. TokenLock'
  BY NoneAssumption DEF IInv, TokenLock, TypeOK, HasToken, Provided, Fresh, FindUser,
       Go, rowVars, UserLocked
<1>4. Fresh'
  BY NoneAssumption DEF IInv, Fresh, TypeOK, Linked, Provided, FindUser, Go, rowVars,
       UserLocked
<1>5. Provided'
  BY NoneAssumption DEF IInv, Provided, TypeOK, TokenLock, HasToken, Fresh, FindUser,
       Go, rowVars, UserLocked
<1>6. /\ Linked' /\ NothingOrphaned' /\ SingleActiveSession'
      /\ OneLiveToken' /\ Spent' /\ ReusedTokenEndsSession'
  BY RowsUntouched DEF FindUser
<1> QED BY <1>1, <1>2, <1>3, <1>4, <1>5, <1>6 DEF IInv

\* InsertUser preserves the inductive invariant.
LEMMA InsertUserPreserves ==
    ASSUME IInv, NEW p \in Proc, InsertUser(p) PROVE IInv'
<1>1. TypeOK'
  BY NoneAssumption DEF IInv, TypeOK, HasUser, HasToken, InsertUser, Go, rowVars,
       UserLocked
<1>2. UserLock'
  BY NoneAssumption DEF IInv, UserLock, TypeOK, HasUser, Active, InsertUser, Go,
       rowVars, UserLocked
<1>3. TokenLock'
  BY NoneAssumption DEF IInv, TokenLock, TypeOK, HasToken, Provided, Fresh, InsertUser,
       Go, rowVars, UserLocked
<1>4. Fresh'
  BY NoneAssumption DEF IInv, Fresh, TypeOK, Linked, Provided, InsertUser, Go, rowVars,
       UserLocked
<1>5. Provided'
  BY NoneAssumption DEF IInv, Provided, TypeOK, TokenLock, HasToken, Fresh, InsertUser,
       Go, rowVars, UserLocked
<1>6. /\ Linked' /\ NothingOrphaned' /\ SingleActiveSession'
      /\ OneLiveToken' /\ Spent' /\ ReusedTokenEndsSession'
  BY RowsUntouched DEF InsertUser
<1> QED BY <1>1, <1>2, <1>3, <1>4, <1>5, <1>6 DEF IInv

\* ReloadUser preserves the inductive invariant.
LEMMA ReloadUserPreserves ==
    ASSUME IInv, NEW p \in Proc, ReloadUser(p) PROVE IInv'
<1>1. CASE user
  <2>0. Go(p, "revoke") /\ UNCHANGED <<rowVars, req, hold, served>>
    BY <1>1 DEF ReloadUser, Ended, rowVars
<2>1. TypeOK'
  BY NoneAssumption, <1>1, <2>0 DEF IInv, TypeOK, HasUser, HasToken, ReloadUser, Go,
       End, NoReq, rowVars, UserLocked
<2>2. UserLock'
  BY NoneAssumption, <1>1, <2>0 DEF IInv, UserLock, TypeOK, HasUser, Active, ReloadUser,
       Go, End, NoReq, rowVars, UserLocked
<2>3. TokenLock'
  BY NoneAssumption, <1>1, <2>0 DEF IInv, TokenLock, TypeOK, HasToken, Provided, Fresh,
       ReloadUser, Go, End, NoReq, rowVars, UserLocked
<2>4. Fresh'
  BY NoneAssumption, <1>1, <2>0 DEF IInv, Fresh, TypeOK, Linked, Provided, ReloadUser,
       Go, End, NoReq, rowVars, UserLocked
<2>5. Provided'
  BY NoneAssumption, <1>1, <2>0 DEF IInv, Provided, TypeOK, TokenLock, HasToken, Fresh,
       ReloadUser, Go, End, NoReq, rowVars, UserLocked
<2>6. /\ Linked' /\ NothingOrphaned' /\ SingleActiveSession'
      /\ OneLiveToken' /\ Spent' /\ ReusedTokenEndsSession'
  BY RowsUntouched, <2>0 DEF rowVars
<2> QED BY <2>1, <2>2, <2>3, <2>4, <2>5, <2>6 DEF IInv
<1>2. CASE ~user
  <2>0. End(p) /\ UNCHANGED <<rowVars, served>>
    BY <1>2 DEF ReloadUser, Ended, rowVars
<2>1. TypeOK'
  BY NoneAssumption, <1>2, <2>0 DEF IInv, TypeOK, HasUser, HasToken, ReloadUser, Go,
       End, NoReq, rowVars, UserLocked
<2>2. UserLock'
  BY NoneAssumption, <1>2, <2>0 DEF IInv, UserLock, TypeOK, HasUser, Active, ReloadUser,
       Go, End, NoReq, rowVars, UserLocked
<2>3. TokenLock'
  BY NoneAssumption, <1>2, <2>0 DEF IInv, TokenLock, TypeOK, HasToken, Provided, Fresh,
       ReloadUser, Go, End, NoReq, rowVars, UserLocked
<2>4. Fresh'
  BY NoneAssumption, <1>2, <2>0 DEF IInv, Fresh, TypeOK, Linked, Provided, ReloadUser,
       Go, End, NoReq, rowVars, UserLocked
<2>5. Provided'
  BY NoneAssumption, <1>2, <2>0 DEF IInv, Provided, TypeOK, TokenLock, HasToken, Fresh,
       ReloadUser, Go, End, NoReq, rowVars, UserLocked
<2>6. /\ Linked' /\ NothingOrphaned' /\ SingleActiveSession'
      /\ OneLiveToken' /\ Spent' /\ ReusedTokenEndsSession'
  BY RowsUntouched, <2>0 DEF rowVars
<2> QED BY <2>1, <2>2, <2>3, <2>4, <2>5, <2>6 DEF IInv
<1> QED BY <1>1, <1>2

\* RevokeAll preserves the inductive invariant.
LEMMA RevokeAllPreserves ==
    ASSUME IInv, NEW p \in Proc, RevokeAll(p) PROVE IInv'
<1>1. TypeOK'
  <2>1. Active \in SUBSET Session
    BY DEF Active
  <2> QED BY <2>1 DEF IInv, TypeOK, HasUser, RevokeAll, Go, rowVars
<1>2. UserLock'
  BY NoneAssumption DEF IInv, UserLock, TypeOK, HasUser, Active, RevokeAll, Go, rowVars,
       SessionLocked
<1>3. TokenLock'
  BY NoneAssumption DEF IInv, TokenLock, TypeOK, HasToken, Provided, Fresh, RevokeAll,
       Go, rowVars, SessionLocked
<1>4. Fresh'
  BY NoneAssumption DEF IInv, Fresh, TypeOK, Linked, Provided, RevokeAll, Go, rowVars,
       SessionLocked
<1>5. Provided'
  BY NoneAssumption DEF IInv, Provided, TypeOK, TokenLock, HasToken, Fresh, RevokeAll,
       Go, rowVars, SessionLocked
<1>6. /\ Linked' /\ NothingOrphaned' /\ SingleActiveSession'
      /\ OneLiveToken' /\ Spent' /\ ReusedTokenEndsSession'
  BY RowsUntouched DEF RevokeAll
<1> QED BY <1>1, <1>2, <1>3, <1>4, <1>5, <1>6 DEF IInv

\* Issue preserves the inductive invariant.
LEMMA IssuePreserves ==
    ASSUME IInv, NEW p \in Proc, Issue(p) PROVE IInv'
<1>1. TypeOK'
  BY NoneAssumption DEF IInv, TypeOK, HasUser, HasToken, Issue, Go, End, NoReq
<1>2. UserLock'
  BY NoneAssumption DEF IInv, UserLock, TypeOK, HasUser, Active, Issue, Go, End, NoReq
<1>3. TokenLock'
  BY NoneAssumption DEF IInv, TokenLock, TypeOK, HasToken, Provided, Fresh, Issue, Go,
       End, NoReq
<1>4. Fresh'
  <2>1. /\ req[p].newT \in Token /\ req[p].newS \in Session
        /\ \A t \in Token : t # req[p].newT => tok'[t] = tok[t]
    BY DEF IInv, TypeOK, Provided, Issue
  <2>2. hold[p] \subseteq {s \in Session : sess[s] # "free"}
    BY DEF IInv, UserLock, Active, Issue
  <2>3. \A s \in Session : s # req[p].newS /\ sess[s] = "free" => sess'[s] = "free"
    BY <2>2 DEF IInv, TypeOK, Issue
  <2>5. /\ pc'[p] = "idle"
        /\ req'[p].t = None /\ req'[p].newT = None /\ req'[p].newS = None
        /\ \A q \in Proc : q # p => pc'[q] = pc[q] /\ req'[q] = req[q]
    BY EndEffect DEF IInv, Issue
  <2>6. \A q \in Proc : /\ req[q].t \in Token \cup {None}
                       /\ req[q].newT \in Token \cup {None}
                       /\ req[q].newS \in Session \cup {None}
    BY DEF IInv, TypeOK
  <2> QED BY <2>1, <2>3, <2>5, <2>6 DEF IInv, Fresh
<1>5. Provided'
  <2>1. /\ req[p].newT \in Token
        /\ \A t \in Token : t # req[p].newT => tok'[t] = tok[t]
        /\ \A q \in Proc : pc[q] \in {"token"} \cup HasToken => req[q].t \in Token /\ req[q].t # req[p].newT
    BY DEF IInv, TypeOK, Provided, Fresh, Issue
  <2>5. /\ pc'[p] = "idle"
        /\ req'[p].t = None /\ req'[p].newT = None /\ req'[p].newS = None
        /\ \A q \in Proc : q # p => pc'[q] = pc[q] /\ req'[q] = req[q]
    BY EndEffect DEF IInv, Issue
  <2>6. \A q \in Proc : /\ req[q].t \in Token \cup {None}
                       /\ req[q].newT \in Token \cup {None}
                       /\ req[q].newS \in Session \cup {None}
    BY DEF IInv, TypeOK
  <2> QED BY <2>1, <2>5, <2>6 DEF IInv, Provided, HasToken
<1>6. Linked'
  BY NoneAssumption DEF IInv, Linked, TypeOK, Fresh, Provided, HasToken, Issue, Go, End,
       NoReq
<1>7. NothingOrphaned'
  BY NoneAssumption DEF IInv, NothingOrphaned, TypeOK, Linked, TokenLock, Fresh,
       HasToken, Provided, Issue, Go, End, NoReq
<1>8. SingleActiveSession'
  BY NoneAssumption DEF IInv, SingleActiveSession, TypeOK, UserLock, Active, Issue, Go,
       End, NoReq
<1>9. OneLiveToken'
  BY NoneAssumption DEF IInv, OneLiveToken, TypeOK, Linked, Fresh, TokenLock, HasToken,
       Provided, Issue, Go, End, NoReq
<1>10. Spent'
  BY NoneAssumption DEF IInv, Spent, TypeOK, Linked, Ended, TokenLock, Fresh, HasToken,
       Provided, Issue, Go, End, NoReq
<1>11. ReusedTokenEndsSession'
  BY NoneAssumption DEF IInv, ReusedTokenEndsSession, TypeOK, Linked, Spent, Ended,
       TokenLock, Fresh, HasToken, Provided, Issue, Go, End, NoReq
<1> QED BY <1>1, <1>2, <1>3, <1>4, <1>5, <1>6, <1>7, <1>8, <1>9, <1>10, <1>11 DEF IInv

\* LockToken preserves the inductive invariant.
LEMMA LockTokenPreserves ==
    ASSUME IInv, NEW p \in Proc, LockToken(p) PROVE IInv'
<1>1. CASE tok[req[p].t] = "gone"
  <2>0. Answer(p)
    BY <1>1 DEF LockToken, Ended, rowVars
<2>1. TypeOK'
    BY <2>0, EndEffect, PresentedEffect, TokenRead DEF IInv, TypeOK, LockToken, Answer, rowVars
<2>2. UserLock'
  BY NoneAssumption, <1>1, <2>0 DEF IInv, UserLock, TypeOK, HasUser, Active, LockToken,
       Answer, Presented, Go, End, NoReq, rowVars, TokenLocked
<2>3. TokenLock'
  BY NoneAssumption, <1>1, <2>0 DEF IInv, TokenLock, TypeOK, HasToken, Provided, Fresh,
       LockToken, Answer, Presented, Go, End, NoReq, rowVars, TokenLocked
<2>4. Fresh'
  BY NoneAssumption, <1>1, <2>0 DEF IInv, Fresh, TypeOK, Linked, Provided, LockToken,
       Answer, Presented, Go, End, NoReq, rowVars, TokenLocked
<2>5. Provided'
  BY NoneAssumption, <1>1, <2>0 DEF IInv, Provided, TypeOK, TokenLock, HasToken, Fresh,
       LockToken, Answer, Presented, Go, End, NoReq, rowVars, TokenLocked
<2>6. Linked'
  BY NoneAssumption, <1>1, <2>0 DEF IInv, Linked, TypeOK, Fresh, Provided, HasToken,
       LockToken, Answer, Presented, Go, End, NoReq, rowVars, TokenLocked
<2>7. NothingOrphaned'
  BY NoneAssumption, <1>1, <2>0 DEF IInv, NothingOrphaned, TypeOK, Linked, TokenLock,
       Fresh, HasToken, Provided, LockToken, Answer, Presented, Go, End, NoReq, rowVars,
       TokenLocked
<2>8. SingleActiveSession'
  BY NoneAssumption, <1>1, <2>0 DEF IInv, SingleActiveSession, TypeOK, UserLock, Active,
       LockToken, Answer, Presented, Go, End, NoReq, rowVars, TokenLocked
<2>9. OneLiveToken'
  BY NoneAssumption, <1>1, <2>0 DEF IInv, OneLiveToken, TypeOK, Linked, Fresh,
       TokenLock, HasToken, Provided, LockToken, Answer, Presented, Go, End, NoReq,
       rowVars, TokenLocked
<2>10. Spent'
  BY NoneAssumption, <1>1, <2>0 DEF IInv, Spent, TypeOK, Linked, Ended, TokenLock,
       Fresh, HasToken, Provided, LockToken, Answer, Presented, Go, End, NoReq, rowVars,
       TokenLocked
<2>11. ReusedTokenEndsSession'
  BY NoneAssumption, <1>1, <2>0 DEF IInv, ReusedTokenEndsSession, TypeOK, Linked, Spent,
       Ended, TokenLock, Fresh, HasToken, Provided, LockToken, Answer, Presented, Go,
       End, NoReq, rowVars, TokenLocked
<2> QED BY <2>1, <2>2, <2>3, <2>4, <2>5, <2>6, <2>7, <2>8, <2>9, <2>10, <2>11 DEF IInv
<1>2. CASE tok[req[p].t] = "revoked"
  <2>0. Go(p, "reuse") /\ UNCHANGED <<rowVars, req, hold, served>>
    BY <1>2 DEF LockToken, Ended, rowVars
<2>1. TypeOK'
  BY NoneAssumption, <1>2, <2>0 DEF IInv, TypeOK, HasUser, HasToken, LockToken, Answer,
       Presented, Go, End, NoReq, rowVars, TokenLocked
<2>2. UserLock'
  BY NoneAssumption, <1>2, <2>0 DEF IInv, UserLock, TypeOK, HasUser, Active, LockToken,
       Answer, Presented, Go, End, NoReq, rowVars, TokenLocked
<2>3. TokenLock'
  BY NoneAssumption, <1>2, <2>0 DEF IInv, TokenLock, TypeOK, HasToken, Provided, Fresh,
       LockToken, Answer, Presented, Go, End, NoReq, rowVars, TokenLocked
<2>4. Fresh'
  BY NoneAssumption, <1>2, <2>0 DEF IInv, Fresh, TypeOK, Linked, Provided, LockToken,
       Answer, Presented, Go, End, NoReq, rowVars, TokenLocked
<2>5. Provided'
  BY NoneAssumption, <1>2, <2>0 DEF IInv, Provided, TypeOK, TokenLock, HasToken, Fresh,
       LockToken, Answer, Presented, Go, End, NoReq, rowVars, TokenLocked
<2>6. /\ Linked' /\ NothingOrphaned' /\ SingleActiveSession'
      /\ OneLiveToken' /\ Spent' /\ ReusedTokenEndsSession'
  BY RowsUntouched, <2>0 DEF rowVars
<2> QED BY <2>1, <2>2, <2>3, <2>4, <2>5, <2>6 DEF IInv
<1>3. CASE tok[req[p].t] \notin {"gone", "revoked"}
  <2>0. Go(p, "session") /\ UNCHANGED <<rowVars, req, hold, served>>
    BY <1>3 DEF LockToken, Ended, rowVars
<2>1. TypeOK'
  BY NoneAssumption, <1>3, <2>0 DEF IInv, TypeOK, HasUser, HasToken, LockToken, Answer,
       Presented, Go, End, NoReq, rowVars, TokenLocked
<2>2. UserLock'
  BY NoneAssumption, <1>3, <2>0 DEF IInv, UserLock, TypeOK, HasUser, Active, LockToken,
       Answer, Presented, Go, End, NoReq, rowVars, TokenLocked
<2>3. TokenLock'
    <3>1. /\ tok[req[p].t] = "live" /\ UNCHANGED <<tok, req>>
          /\ pc'[p] = "session" /\ \A q \in Proc : q # p => pc'[q] = pc[q]
      BY <1>3, <2>0, TokenRead DEF IInv, TypeOK, Go, LockToken, rowVars
    <3> QED BY <3>1 DEF IInv, TokenLock, LockToken, TokenLocked, HasToken
<2>4. Fresh'
  BY NoneAssumption, <1>3, <2>0 DEF IInv, Fresh, TypeOK, Linked, Provided, LockToken,
       Answer, Presented, Go, End, NoReq, rowVars, TokenLocked
<2>5. Provided'
    <3>1. /\ tok[req[p].t] = "live" /\ UNCHANGED <<tok, req>> /\ pc[p] = "token"
          /\ pc'[p] = "session" /\ \A q \in Proc : q # p => pc'[q] = pc[q]
      BY <1>3, <2>0, TokenRead DEF IInv, TypeOK, Go, LockToken, rowVars
    <3> QED BY <3>1 DEF IInv, Provided, HasToken
<2>6. /\ Linked' /\ NothingOrphaned' /\ SingleActiveSession'
      /\ OneLiveToken' /\ Spent' /\ ReusedTokenEndsSession'
  BY RowsUntouched, <2>0 DEF rowVars
<2> QED BY <2>1, <2>2, <2>3, <2>4, <2>5, <2>6 DEF IInv
<1> QED BY <1>1, <1>2, <1>3

\* Reuse preserves the inductive invariant.
LEMMA ReusePreserves ==
    ASSUME IInv, NEW p \in Proc, Reuse(p) PROVE IInv'
<1>1. TypeOK'
  BY EndEffect, PresentedEffect, TokenRead DEF IInv, TypeOK, Reuse, HasToken
<1>2. UserLock'
  <2>1. \A q \in Proc : pc[q] = "issue" => of[req[p].t] \notin Active
    BY DEF IInv, UserLock, Reuse, SessionLocked
  <2>2. \A q \in Proc : pc[q] = "issue" => Active' = Active
    BY <2>1 DEF IInv, TypeOK, Active, Reuse
  <2>3. \A q \in Proc : /\ pc'[q] = (IF q = p THEN "idle" ELSE pc[q])
                       /\ hold'[q] = (IF q = p THEN {} ELSE hold[q])
    BY DEF IInv, TypeOK, Reuse, End, Go
  <2> QED BY <2>2, <2>3 DEF IInv, UserLock, HasUser
<1>3. TokenLock'
  BY NoneAssumption DEF IInv, TokenLock, TypeOK, HasToken, Provided, Fresh, Reuse,
       Presented, Go, End, NoReq, SessionLocked
<1>4. Fresh'
  <2>1. \A s \in Session : sess[s] = "free" => sess'[s] = "free"
    BY TokenRead DEF IInv, TypeOK, Reuse, HasToken
  <2>5. /\ pc'[p] = "idle"
        /\ req'[p].t = None /\ req'[p].newT = None /\ req'[p].newS = None
        /\ \A q \in Proc : q # p => pc'[q] = pc[q] /\ req'[q] = req[q]
    BY EndEffect DEF IInv, Reuse
  <2>6. \A q \in Proc : /\ req[q].t \in Token \cup {None}
                       /\ req[q].newT \in Token \cup {None}
                       /\ req[q].newS \in Session \cup {None}
    BY DEF IInv, TypeOK
  <2> QED BY <2>1, <2>5, <2>6 DEF IInv, Fresh, Reuse
<1>5. Provided'
  BY NoneAssumption DEF IInv, Provided, TypeOK, TokenLock, HasToken, Fresh, Reuse,
       Presented, Go, End, NoReq, SessionLocked
<1>6. Linked'
  BY PresentedEffect, TokenRead DEF IInv, TypeOK, Linked, Reuse, HasToken
<1>7. NothingOrphaned'
  BY NoneAssumption DEF IInv, NothingOrphaned, TypeOK, Linked, TokenLock, Fresh,
       HasToken, Provided, Reuse, Presented, Go, End, NoReq, SessionLocked
<1>8. SingleActiveSession'
  BY NoneAssumption DEF IInv, SingleActiveSession, TypeOK, UserLock, Active, Reuse,
       Presented, Go, End, NoReq, SessionLocked
<1>9. OneLiveToken'
  BY NoneAssumption DEF IInv, OneLiveToken, TypeOK, Linked, Fresh, TokenLock, HasToken,
       Provided, Reuse, Presented, Go, End, NoReq, SessionLocked
<1>10. Spent'
  BY NoneAssumption DEF IInv, Spent, TypeOK, Linked, Ended, TokenLock, Fresh, HasToken,
       Provided, Reuse, Presented, Go, End, NoReq, SessionLocked
<1>11. ReusedTokenEndsSession'
  BY NoneAssumption DEF IInv, ReusedTokenEndsSession, TypeOK, Linked, Spent, Ended,
       TokenLock, Fresh, HasToken, Provided, Reuse, Presented, Go, End, NoReq,
       SessionLocked
<1> QED BY <1>1, <1>2, <1>3, <1>4, <1>5, <1>6, <1>7, <1>8, <1>9, <1>10, <1>11 DEF IInv

\* ReadSession preserves the inductive invariant.
LEMMA ReadSessionPreserves ==
    ASSUME IInv, NEW p \in Proc, ReadSession(p) PROVE IInv'
<1>1. CASE Ended(of[req[p].t])
  <2>0. Answer(p)
    BY <1>1 DEF ReadSession, Ended, rowVars
<2>1. TypeOK'
    BY <2>0, EndEffect, PresentedEffect, TokenRead DEF IInv, TypeOK, ReadSession, Answer, rowVars, HasToken
<2>2. UserLock'
  BY NoneAssumption, <1>1, <2>0 DEF IInv, UserLock, TypeOK, HasUser, Active,
       ReadSession, Answer, Presented, Go, End, NoReq, rowVars
<2>3. TokenLock'
  BY NoneAssumption, <1>1, <2>0 DEF IInv, TokenLock, TypeOK, HasToken, Provided, Fresh,
       ReadSession, Answer, Presented, Go, End, NoReq, rowVars
<2>4. Fresh'
  BY NoneAssumption, <1>1, <2>0 DEF IInv, Fresh, TypeOK, Linked, Provided, ReadSession,
       Answer, Presented, Go, End, NoReq, rowVars
<2>5. Provided'
  BY NoneAssumption, <1>1, <2>0 DEF IInv, Provided, TypeOK, TokenLock, HasToken, Fresh,
       ReadSession, Answer, Presented, Go, End, NoReq, rowVars
<2>6. Linked'
    BY <2>0, PresentedEffect, TokenRead DEF IInv, TypeOK, Linked, ReadSession, Answer, rowVars, HasToken
<2>7. NothingOrphaned'
  BY NoneAssumption, <1>1, <2>0 DEF IInv, NothingOrphaned, TypeOK, Linked, TokenLock,
       Fresh, HasToken, Provided, ReadSession, Answer, Presented, Go, End, NoReq,
       rowVars
<2>8. SingleActiveSession'
  BY NoneAssumption, <1>1, <2>0 DEF IInv, SingleActiveSession, TypeOK, UserLock, Active,
       ReadSession, Answer, Presented, Go, End, NoReq, rowVars
<2>9. OneLiveToken'
  BY NoneAssumption, <1>1, <2>0 DEF IInv, OneLiveToken, TypeOK, Linked, Fresh,
       TokenLock, HasToken, Provided, ReadSession, Answer, Presented, Go, End, NoReq,
       rowVars
<2>10. Spent'
  BY NoneAssumption, <1>1, <2>0 DEF IInv, Spent, TypeOK, Linked, Ended, TokenLock,
       Fresh, HasToken, Provided, ReadSession, Answer, Presented, Go, End, NoReq,
       rowVars
<2>11. ReusedTokenEndsSession'
  BY NoneAssumption, <1>1, <2>0 DEF IInv, ReusedTokenEndsSession, TypeOK, Linked, Spent,
       Ended, TokenLock, Fresh, HasToken, Provided, ReadSession, Answer, Presented, Go,
       End, NoReq, rowVars
<2> QED BY <2>1, <2>2, <2>3, <2>4, <2>5, <2>6, <2>7, <2>8, <2>9, <2>10, <2>11 DEF IInv
<1>2. CASE ~Ended(of[req[p].t])
  <2>0. Go(p, "rotate") /\ UNCHANGED <<rowVars, req, hold, served>>
    BY <1>2 DEF ReadSession, Ended, rowVars
<2>1. TypeOK'
  BY NoneAssumption, <1>2, <2>0 DEF IInv, TypeOK, HasUser, HasToken, ReadSession,
       Answer, Presented, Go, End, NoReq, rowVars
<2>2. UserLock'
  BY NoneAssumption, <1>2, <2>0 DEF IInv, UserLock, TypeOK, HasUser, Active,
       ReadSession, Answer, Presented, Go, End, NoReq, rowVars
<2>3. TokenLock'
  BY NoneAssumption, <1>2, <2>0 DEF IInv, TokenLock, TypeOK, HasToken, Provided, Fresh,
       ReadSession, Answer, Presented, Go, End, NoReq, rowVars
<2>4. Fresh'
  BY NoneAssumption, <1>2, <2>0 DEF IInv, Fresh, TypeOK, Linked, Provided, ReadSession,
       Answer, Presented, Go, End, NoReq, rowVars
<2>5. Provided'
  BY NoneAssumption, <1>2, <2>0 DEF IInv, Provided, TypeOK, TokenLock, HasToken, Fresh,
       ReadSession, Answer, Presented, Go, End, NoReq, rowVars
<2>6. /\ Linked' /\ NothingOrphaned' /\ SingleActiveSession'
      /\ OneLiveToken' /\ Spent' /\ ReusedTokenEndsSession'
  BY RowsUntouched, <2>0 DEF rowVars
<2> QED BY <2>1, <2>2, <2>3, <2>4, <2>5, <2>6 DEF IInv
<1> QED BY <1>1, <1>2

\* Rotate preserves the inductive invariant.
LEMMA RotatePreserves ==
    ASSUME IInv, NEW p \in Proc, Rotate(p) PROVE IInv'
<1>1. TypeOK'
  BY EndEffect, PresentedEffect, TokenRead DEF IInv, TypeOK, Rotate, HasToken
<1>2. UserLock'
  BY NoneAssumption DEF IInv, UserLock, TypeOK, HasUser, Active, Rotate, Presented, Go,
       End, NoReq, UserLocked
<1>3. TokenLock'
  BY NoneAssumption DEF IInv, TokenLock, TypeOK, HasToken, Provided, Fresh, Rotate,
       Presented, Go, End, NoReq, UserLocked
<1>4. Fresh'
  <2>1. /\ req[p].newT \in Token /\ req[p].t \in Token /\ tok[req[p].t] = "live"
        /\ tok'[req[p].t] # "free" /\ tok'[req[p].newT] = "live"
        /\ \A t \in Token : t \notin {req[p].t, req[p].newT} => tok'[t] = tok[t] /\ of'[t] = of[t]
    BY TokenRead DEF IInv, TypeOK, Provided, TokenLock, Rotate, HasToken
  <2>5. /\ pc'[p] = "idle"
        /\ req'[p].t = None /\ req'[p].newT = None /\ req'[p].newS = None
        /\ \A q \in Proc : q # p => pc'[q] = pc[q] /\ req'[q] = req[q]
    BY EndEffect DEF IInv, Rotate
  <2>6. \A q \in Proc : /\ req[q].t \in Token \cup {None}
                       /\ req[q].newT \in Token \cup {None}
                       /\ req[q].newS \in Session \cup {None}
    BY DEF IInv, TypeOK
  <2>7. sess' = sess
    BY DEF Rotate
  <2>8. \A q \in Proc : q # p /\ req[q].newT # None => tok'[req[q].newT] = "free"
    BY <2>1, <2>6 DEF IInv, Fresh
  <2> QED BY <2>5, <2>7, <2>8 DEF IInv, Fresh
<1>5. Provided'
  <2>1. /\ req[p].newT \in Token /\ req[p].t \in Token /\ tok[req[p].t] = "live"
        /\ tok'[req[p].t] = "revoked" /\ tok'[req[p].newT] = "live"
        /\ \A t \in Token : t \notin {req[p].t, req[p].newT} => tok'[t] = tok[t] /\ of'[t] = of[t]
    BY TokenRead DEF IInv, Fresh, TypeOK, Provided, TokenLock, Rotate, HasToken
  <2>2. \A q \in Proc : pc[q] = "token" => req[q].t \in Token /\ tok[req[q].t] # "free"
    BY TokenRead DEF IInv, HasToken
  <2>5. /\ pc'[p] = "idle"
        /\ req'[p].t = None /\ req'[p].newT = None /\ req'[p].newS = None
        /\ \A q \in Proc : q # p => pc'[q] = pc[q] /\ req'[q] = req[q]
    BY EndEffect DEF IInv, Rotate
  <2>6. \A q \in Proc : /\ req[q].t \in Token \cup {None}
                       /\ req[q].newT \in Token \cup {None}
                       /\ req[q].newS \in Session \cup {None}
    BY DEF IInv, TypeOK
  <2> QED BY <2>1, <2>2, <2>5, <2>6 DEF IInv, Provided, Fresh, HasToken
<1>6. Linked'
  <2>1. /\ req[p].newT \in Token /\ req[p].t \in Token /\ tok[req[p].t] = "live"
        /\ tok'[req[p].t] # "free" /\ tok'[req[p].newT] = "live"
        /\ \A t \in Token : t \notin {req[p].t, req[p].newT} => tok'[t] = tok[t] /\ of'[t] = of[t]
    BY TokenRead DEF IInv, Fresh, TypeOK, Provided, TokenLock, Rotate, HasToken
  <2>2. of'[req[p].t] = of[req[p].t] /\ of'[req[p].newT] = of[req[p].t]
    BY <2>1 DEF IInv, TypeOK, Fresh, Rotate
  <2> QED BY <2>1, <2>2, PresentedEffect, TokenRead DEF IInv, TypeOK, Fresh, Linked, Rotate, HasToken
<1>7. NothingOrphaned'
  BY NoneAssumption DEF IInv, NothingOrphaned, TypeOK, Linked, TokenLock, Fresh,
       HasToken, Provided, Rotate, Presented, Go, End, NoReq, UserLocked
<1>8. SingleActiveSession'
  BY NoneAssumption DEF IInv, SingleActiveSession, TypeOK, UserLock, Active, Rotate,
       Presented, Go, End, NoReq, UserLocked
<1>9. OneLiveToken'
  BY NoneAssumption DEF IInv, OneLiveToken, TypeOK, Linked, Fresh, TokenLock, HasToken,
       Provided, Rotate, Presented, Go, End, NoReq, UserLocked
<1>10. Spent'
  BY NoneAssumption DEF IInv, Spent, TypeOK, Linked, Ended, TokenLock, Fresh, HasToken,
       Provided, Rotate, Presented, Go, End, NoReq, UserLocked
<1>11. ReusedTokenEndsSession'
  BY NoneAssumption DEF IInv, ReusedTokenEndsSession, TypeOK, Linked, Spent, Ended,
       TokenLock, Fresh, HasToken, Provided, Rotate, Presented, Go, End, NoReq,
       UserLocked
<1> QED BY <1>1, <1>2, <1>3, <1>4, <1>5, <1>6, <1>7, <1>8, <1>9, <1>10, <1>11 DEF IInv

\* LockUser preserves the inductive invariant.
LEMMA LockUserPreserves ==
    ASSUME IInv, NEW p \in Proc, LockUser(p) PROVE IInv'
<1>1. CASE user
  <2>0. Go(p, "confirm") /\ UNCHANGED <<rowVars, req, hold, served>>
    BY <1>1 DEF LockUser, Ended, rowVars
<2>1. TypeOK'
  BY NoneAssumption, <1>1, <2>0 DEF IInv, TypeOK, HasUser, HasToken, LockUser, Go, End,
       NoReq, rowVars, UserLocked
<2>2. UserLock'
  BY NoneAssumption, <1>1, <2>0 DEF IInv, UserLock, TypeOK, HasUser, Active, LockUser,
       Go, End, NoReq, rowVars, UserLocked
<2>3. TokenLock'
  BY NoneAssumption, <1>1, <2>0 DEF IInv, TokenLock, TypeOK, HasToken, Provided, Fresh,
       LockUser, Go, End, NoReq, rowVars, UserLocked
<2>4. Fresh'
  BY NoneAssumption, <1>1, <2>0 DEF IInv, Fresh, TypeOK, Linked, Provided, LockUser, Go,
       End, NoReq, rowVars, UserLocked
<2>5. Provided'
  BY NoneAssumption, <1>1, <2>0 DEF IInv, Provided, TypeOK, TokenLock, HasToken, Fresh,
       LockUser, Go, End, NoReq, rowVars, UserLocked
<2>6. /\ Linked' /\ NothingOrphaned' /\ SingleActiveSession'
      /\ OneLiveToken' /\ Spent' /\ ReusedTokenEndsSession'
  BY RowsUntouched, <2>0 DEF rowVars
<2> QED BY <2>1, <2>2, <2>3, <2>4, <2>5, <2>6 DEF IInv
<1>2. CASE ~user
  <2>0. End(p) /\ UNCHANGED <<rowVars, served>>
    BY <1>2 DEF LockUser, Ended, rowVars
<2>1. TypeOK'
  BY NoneAssumption, <1>2, <2>0 DEF IInv, TypeOK, HasUser, HasToken, LockUser, Go, End,
       NoReq, rowVars, UserLocked
<2>2. UserLock'
  BY NoneAssumption, <1>2, <2>0 DEF IInv, UserLock, TypeOK, HasUser, Active, LockUser,
       Go, End, NoReq, rowVars, UserLocked
<2>3. TokenLock'
  BY NoneAssumption, <1>2, <2>0 DEF IInv, TokenLock, TypeOK, HasToken, Provided, Fresh,
       LockUser, Go, End, NoReq, rowVars, UserLocked
<2>4. Fresh'
  BY NoneAssumption, <1>2, <2>0 DEF IInv, Fresh, TypeOK, Linked, Provided, LockUser, Go,
       End, NoReq, rowVars, UserLocked
<2>5. Provided'
  BY NoneAssumption, <1>2, <2>0 DEF IInv, Provided, TypeOK, TokenLock, HasToken, Fresh,
       LockUser, Go, End, NoReq, rowVars, UserLocked
<2>6. /\ Linked' /\ NothingOrphaned' /\ SingleActiveSession'
      /\ OneLiveToken' /\ Spent' /\ ReusedTokenEndsSession'
  BY RowsUntouched, <2>0 DEF rowVars
<2> QED BY <2>1, <2>2, <2>3, <2>4, <2>5, <2>6 DEF IInv
<1> QED BY <1>1, <1>2

\* ConfirmDeletion preserves the inductive invariant.
LEMMA ConfirmDeletionPreserves ==
    ASSUME IInv, NEW p \in Proc, ConfirmDeletion(p) PROVE IInv'
<1>1. TypeOK'
  BY NoneAssumption DEF IInv, TypeOK, HasUser, HasToken, ConfirmDeletion, Go, End,
       NoReq, TokenLocked, SessionLocked
<1>2. UserLock'
  BY NoneAssumption DEF IInv, UserLock, TypeOK, HasUser, Active, ConfirmDeletion, Go,
       End, NoReq, TokenLocked, SessionLocked
<1>3. TokenLock'
  BY NoneAssumption DEF IInv, TokenLock, TypeOK, HasToken, Provided, Fresh,
       ConfirmDeletion, Go, End, NoReq, TokenLocked, SessionLocked
<1>4. Fresh'
  BY NoneAssumption DEF IInv, Fresh, TypeOK, Linked, Provided, ConfirmDeletion, Go, End,
       NoReq, TokenLocked, SessionLocked
<1>5. Provided'
  BY NoneAssumption DEF IInv, Provided, TypeOK, TokenLock, HasToken, Fresh,
       ConfirmDeletion, Go, End, NoReq, TokenLocked, SessionLocked
<1>6. Linked'
  BY NoneAssumption DEF IInv, Linked, TypeOK, Fresh, Provided, HasToken,
       ConfirmDeletion, Go, End, NoReq, TokenLocked, SessionLocked
<1>7. NothingOrphaned'
  BY NoneAssumption DEF IInv, NothingOrphaned, TypeOK, Linked, TokenLock, Fresh,
       HasToken, Provided, ConfirmDeletion, Go, End, NoReq, TokenLocked, SessionLocked
<1>8. SingleActiveSession'
  BY NoneAssumption DEF IInv, SingleActiveSession, TypeOK, UserLock, Active,
       ConfirmDeletion, Go, End, NoReq, TokenLocked, SessionLocked
<1>9. OneLiveToken'
  BY NoneAssumption DEF IInv, OneLiveToken, TypeOK, Linked, Fresh, TokenLock, HasToken,
       Provided, ConfirmDeletion, Go, End, NoReq, TokenLocked, SessionLocked
<1>10. Spent'
  BY NoneAssumption DEF IInv, Spent, TypeOK, Linked, Ended, TokenLock, Fresh, HasToken,
       Provided, ConfirmDeletion, Go, End, NoReq, TokenLocked, SessionLocked
<1>11. ReusedTokenEndsSession'
  BY NoneAssumption DEF IInv, ReusedTokenEndsSession, TypeOK, Linked, Spent, Ended,
       TokenLock, Fresh, HasToken, Provided, ConfirmDeletion, Go, End, NoReq,
       TokenLocked, SessionLocked
<1> QED BY <1>1, <1>2, <1>3, <1>4, <1>5, <1>6, <1>7, <1>8, <1>9, <1>10, <1>11 DEF IInv

\* BreakDeadlock preserves the inductive invariant.
LEMMA BreakDeadlockPreserves ==
    ASSUME IInv, NEW p \in Proc, BreakDeadlock(p) PROVE IInv'
<1>1. TypeOK'
  BY NoneAssumption DEF IInv, TypeOK, HasUser, HasToken, BreakDeadlock, Go, End, NoReq,
       rowVars
<1>2. UserLock'
  BY NoneAssumption DEF IInv, UserLock, TypeOK, HasUser, Active, BreakDeadlock, Go, End,
       NoReq, rowVars
<1>3. TokenLock'
  BY NoneAssumption DEF IInv, TokenLock, TypeOK, HasToken, Provided, Fresh,
       BreakDeadlock, Go, End, NoReq, rowVars
<1>4. Fresh'
  BY NoneAssumption DEF IInv, Fresh, TypeOK, Linked, Provided, BreakDeadlock, Go, End,
       NoReq, rowVars
<1>5. Provided'
  BY NoneAssumption DEF IInv, Provided, TypeOK, TokenLock, HasToken, Fresh,
       BreakDeadlock, Go, End, NoReq, rowVars
<1>6. /\ Linked' /\ NothingOrphaned' /\ SingleActiveSession'
      /\ OneLiveToken' /\ Spent' /\ ReusedTokenEndsSession'
  BY RowsUntouched DEF BreakDeadlock
<1> QED BY <1>1, <1>2, <1>3, <1>4, <1>5, <1>6 DEF IInv

\* Fail preserves the inductive invariant.
LEMMA FailPreserves ==
    ASSUME IInv, NEW p \in Proc, Fail(p) PROVE IInv'
<1>1. TypeOK'
  BY NoneAssumption DEF IInv, TypeOK, HasUser, HasToken, Fail, Go, End, NoReq, rowVars
<1>2. UserLock'
  BY NoneAssumption DEF IInv, UserLock, TypeOK, HasUser, Active, Fail, Go, End, NoReq,
       rowVars
<1>3. TokenLock'
  BY NoneAssumption DEF IInv, TokenLock, TypeOK, HasToken, Provided, Fresh, Fail, Go,
       End, NoReq, rowVars
<1>4. Fresh'
  BY NoneAssumption DEF IInv, Fresh, TypeOK, Linked, Provided, Fail, Go, End, NoReq,
       rowVars
<1>5. Provided'
  BY NoneAssumption DEF IInv, Provided, TypeOK, TokenLock, HasToken, Fresh, Fail, Go,
       End, NoReq, rowVars
<1>6. /\ Linked' /\ NothingOrphaned' /\ SingleActiveSession'
      /\ OneLiveToken' /\ Spent' /\ ReusedTokenEndsSession'
  BY RowsUntouched DEF Fail
<1> QED BY <1>1, <1>2, <1>3, <1>4, <1>5, <1>6 DEF IInv

\* Logout preserves the inductive invariant.
LEMMA LogoutPreserves ==
    ASSUME IInv, NEW s \in Session, Logout(s) PROVE IInv'
<1>1. TypeOK'
  BY NoneAssumption DEF IInv, TypeOK, HasUser, HasToken, Logout, SessionLocked
<1>2. UserLock'
  BY NoneAssumption DEF IInv, UserLock, TypeOK, HasUser, Active, Logout, SessionLocked
<1>3. TokenLock'
  BY NoneAssumption DEF IInv, TokenLock, TypeOK, HasToken, Provided, Fresh, Logout,
       SessionLocked
<1>4. Fresh'
  BY NoneAssumption DEF IInv, Fresh, TypeOK, Linked, Provided, Logout, SessionLocked
<1>5. Provided'
  BY NoneAssumption DEF IInv, Provided, TypeOK, TokenLock, HasToken, Fresh, Logout,
       SessionLocked
<1>6. Linked'
  BY NoneAssumption DEF IInv, Linked, TypeOK, Fresh, Provided, HasToken, Logout,
       SessionLocked
<1>7. NothingOrphaned'
  BY NoneAssumption DEF IInv, NothingOrphaned, TypeOK, Linked, TokenLock, Fresh,
       HasToken, Provided, Logout, SessionLocked
<1>8. SingleActiveSession'
  BY NoneAssumption DEF IInv, SingleActiveSession, TypeOK, UserLock, Active, Logout,
       SessionLocked
<1>9. OneLiveToken'
  BY NoneAssumption DEF IInv, OneLiveToken, TypeOK, Linked, Fresh, TokenLock, HasToken,
       Provided, Logout, SessionLocked
<1>10. Spent'
  BY NoneAssumption DEF IInv, Spent, TypeOK, Linked, Ended, TokenLock, Fresh, HasToken,
       Provided, Logout, SessionLocked
<1>11. ReusedTokenEndsSession'
  BY NoneAssumption DEF IInv, ReusedTokenEndsSession, TypeOK, Linked, Spent, Ended,
       TokenLock, Fresh, HasToken, Provided, Logout, SessionLocked
<1> QED BY <1>1, <1>2, <1>3, <1>4, <1>5, <1>6, <1>7, <1>8, <1>9, <1>10, <1>11 DEF IInv

\* Lapse preserves the inductive invariant.
LEMMA LapsePreserves ==
    ASSUME IInv, NEW s \in Session, Lapse(s) PROVE IInv'
<1>1. TypeOK'
  BY NoneAssumption DEF IInv, TypeOK, HasUser, HasToken, Lapse
<1>2. UserLock'
  BY NoneAssumption DEF IInv, UserLock, TypeOK, HasUser, Active, Lapse
<1>3. TokenLock'
  BY NoneAssumption DEF IInv, TokenLock, TypeOK, HasToken, Provided, Fresh, Lapse
<1>4. Fresh'
  BY NoneAssumption DEF IInv, Fresh, TypeOK, Linked, Provided, Lapse
<1>5. Provided'
  BY NoneAssumption DEF IInv, Provided, TypeOK, TokenLock, HasToken, Fresh, Lapse
<1>6. Linked'
  BY NoneAssumption DEF IInv, Linked, TypeOK, Fresh, Provided, HasToken, Lapse
<1>7. NothingOrphaned'
  BY NoneAssumption DEF IInv, NothingOrphaned, TypeOK, Linked, TokenLock, Fresh,
       HasToken, Provided, Lapse
<1>8. SingleActiveSession'
  BY NoneAssumption DEF IInv, SingleActiveSession, TypeOK, UserLock, Active, Lapse
<1>9. OneLiveToken'
  BY NoneAssumption DEF IInv, OneLiveToken, TypeOK, Linked, Fresh, TokenLock, HasToken,
       Provided, Lapse
<1>10. Spent'
  BY NoneAssumption DEF IInv, Spent, TypeOK, Linked, Ended, TokenLock, Fresh, HasToken,
       Provided, Lapse
<1>11. ReusedTokenEndsSession'
  BY NoneAssumption DEF IInv, ReusedTokenEndsSession, TypeOK, Linked, Spent, Ended,
       TokenLock, Fresh, HasToken, Provided, Lapse
<1> QED BY <1>1, <1>2, <1>3, <1>4, <1>5, <1>6, <1>7, <1>8, <1>9, <1>10, <1>11 DEF IInv

\* CleanupSession preserves the inductive invariant.
LEMMA CleanupSessionPreserves ==
    ASSUME IInv, NEW s \in Session, CleanupSession(s) PROVE IInv'
<1>1. TypeOK'
  BY NoneAssumption DEF IInv, TypeOK, HasUser, HasToken, CleanupSession, TokenLocked,
       SessionLocked
<1>2. UserLock'
  BY NoneAssumption DEF IInv, UserLock, TypeOK, HasUser, Active, CleanupSession,
       TokenLocked, SessionLocked
<1>3. TokenLock'
  BY NoneAssumption DEF IInv, TokenLock, TypeOK, HasToken, Provided, Fresh,
       CleanupSession, TokenLocked, SessionLocked
<1>4. Fresh'
  BY NoneAssumption DEF IInv, Fresh, TypeOK, Linked, Provided, CleanupSession,
       TokenLocked, SessionLocked
<1>5. Provided'
  BY NoneAssumption DEF IInv, Provided, TypeOK, TokenLock, HasToken, Fresh,
       CleanupSession, TokenLocked, SessionLocked
<1>6. Linked'
  BY NoneAssumption DEF IInv, Linked, TypeOK, Fresh, Provided, HasToken, CleanupSession,
       TokenLocked, SessionLocked
<1>7. NothingOrphaned'
  BY NoneAssumption DEF IInv, NothingOrphaned, TypeOK, Linked, TokenLock, Fresh,
       HasToken, Provided, CleanupSession, TokenLocked, SessionLocked
<1>8. SingleActiveSession'
  BY NoneAssumption DEF IInv, SingleActiveSession, TypeOK, UserLock, Active,
       CleanupSession, TokenLocked, SessionLocked
<1>9. OneLiveToken'
  BY NoneAssumption DEF IInv, OneLiveToken, TypeOK, Linked, Fresh, TokenLock, HasToken,
       Provided, CleanupSession, TokenLocked, SessionLocked
<1>10. Spent'
  BY NoneAssumption DEF IInv, Spent, TypeOK, Linked, Ended, TokenLock, Fresh, HasToken,
       Provided, CleanupSession, TokenLocked, SessionLocked
<1>11. ReusedTokenEndsSession'
  BY NoneAssumption DEF IInv, ReusedTokenEndsSession, TypeOK, Linked, Spent, Ended,
       TokenLock, Fresh, HasToken, Provided, CleanupSession, TokenLocked, SessionLocked
<1> QED BY <1>1, <1>2, <1>3, <1>4, <1>5, <1>6, <1>7, <1>8, <1>9, <1>10, <1>11 DEF IInv

\* CleanupToken preserves the inductive invariant.
LEMMA CleanupTokenPreserves ==
    ASSUME IInv, NEW t \in Token, CleanupToken(t) PROVE IInv'
<1>1. TypeOK'
  BY NoneAssumption DEF IInv, TypeOK, HasUser, HasToken, CleanupToken, TokenLocked
<1>2. UserLock'
  BY NoneAssumption DEF IInv, UserLock, TypeOK, HasUser, Active, CleanupToken,
       TokenLocked
<1>3. TokenLock'
  BY NoneAssumption DEF IInv, TokenLock, TypeOK, HasToken, Provided, Fresh,
       CleanupToken, TokenLocked
<1>4. Fresh'
  BY NoneAssumption DEF IInv, Fresh, TypeOK, Linked, Provided, CleanupToken, TokenLocked
<1>5. Provided'
  BY NoneAssumption DEF IInv, Provided, TypeOK, TokenLock, HasToken, Fresh,
       CleanupToken, TokenLocked
<1>6. Linked'
  BY NoneAssumption DEF IInv, Linked, TypeOK, Fresh, Provided, HasToken, CleanupToken,
       TokenLocked
<1>7. NothingOrphaned'
  BY NoneAssumption DEF IInv, NothingOrphaned, TypeOK, Linked, TokenLock, Fresh,
       HasToken, Provided, CleanupToken, TokenLocked
<1>8. SingleActiveSession'
  BY NoneAssumption DEF IInv, SingleActiveSession, TypeOK, UserLock, Active,
       CleanupToken, TokenLocked
<1>9. OneLiveToken'
  BY NoneAssumption DEF IInv, OneLiveToken, TypeOK, Linked, Fresh, TokenLock, HasToken,
       Provided, CleanupToken, TokenLocked
<1>10. Spent'
  BY NoneAssumption DEF IInv, Spent, TypeOK, Linked, Ended, TokenLock, Fresh, HasToken,
       Provided, CleanupToken, TokenLocked
<1>11. ReusedTokenEndsSession'
  BY NoneAssumption DEF IInv, ReusedTokenEndsSession, TypeOK, Linked, Spent, Ended,
       TokenLock, Fresh, HasToken, Provided, CleanupToken, TokenLocked
<1> QED BY <1>1, <1>2, <1>3, <1>4, <1>5, <1>6, <1>7, <1>8, <1>9, <1>10, <1>11 DEF IInv

\* The invariant holds initially.
LEMMA InitInvariant == Init => IInv
<1> SUFFICES ASSUME Init PROVE IInv
  OBVIOUS
<1>1. TypeOK
  <2>1. pc \in [Proc -> {"idle"}] /\ req \in [Proc -> {NoReq}]
    BY DEF Init
  <2>2. NoReq \in [t : Token \cup {None}, newT : Token \cup {None}, newS : Session \cup {None}]
    BY DEF NoReq
  <2>3. user \in BOOLEAN
    BY DEF Init
  <2>4. /\ lapsed \subseteq Session
        /\ sess \in [Session -> {"free", "active", "revoked", "gone"}]
        /\ tok \in [Token -> {"free", "live", "revoked", "gone"}]
        /\ of \in [Token -> Session \cup {None}]
        /\ hold \in [Proc -> SUBSET Session]
    BY DEF Init
  <2>5. served \in [Token -> 0 .. 2]
    BY DEF Init
  <2> QED BY <2>1, <2>2, <2>3, <2>4, <2>5 DEF TypeOK
<1>2. UserLock
  BY NoneAssumption DEF Init, UserLock, HasUser, Active
<1>3. TokenLock
  BY NoneAssumption DEF Init, TokenLock, HasToken
<1>4. Fresh
  BY NoneAssumption DEF Init, Fresh, NoReq
<1>5. Provided
  BY NoneAssumption DEF Init, Provided, NoReq, HasToken
<1>6. Linked
  BY NoneAssumption DEF Init, Linked
<1>7. NothingOrphaned
  BY NoneAssumption DEF Init, NothingOrphaned
<1>8. SingleActiveSession
  BY NoneAssumption DEF Init, SingleActiveSession, Active
<1>9. OneLiveToken
  BY NoneAssumption DEF Init, OneLiveToken
<1>10. Spent
  BY NoneAssumption DEF Init, Spent, Ended
<1>11. ReusedTokenEndsSession
  BY NoneAssumption DEF Init, ReusedTokenEndsSession
<1> QED BY <1>1, <1>2, <1>3, <1>4, <1>5, <1>6, <1>7, <1>8, <1>9, <1>10, <1>11 DEF IInv

\* So does a step that changes nothing.
LEMMA StutterPreserves == IInv /\ UNCHANGED vars => IInv'
  BY DEF vars, rowVars, Active, HasUser, HasToken, Ended, IInv, TypeOK, UserLock, TokenLock,
     Fresh, Provided, Linked, NothingOrphaned, SingleActiveSession, OneLiveToken, Spent,
     ReusedTokenEndsSession

\* Every step preserves the inductive invariant: one case per action.
LEMMA NextPreserves == IInv /\ [Next]_vars => IInv'
<1> SUFFICES ASSUME IInv, [Next]_vars PROVE IInv'
  OBVIOUS
<1>1. ASSUME NEW p \in Proc, SignIn(p) \/ Refresh(p) \/ DeleteAccount(p) \/ Step(p) \/ Fail(p)
      PROVE  IInv'
  BY <1>1, SignInPreserves, RefreshPreserves, DeleteAccountPreserves, FindUserPreserves,
     InsertUserPreserves, ReloadUserPreserves, RevokeAllPreserves, IssuePreserves,
     LockTokenPreserves, ReusePreserves, ReadSessionPreserves, RotatePreserves,
     LockUserPreserves, ConfirmDeletionPreserves, BreakDeadlockPreserves, FailPreserves
  DEF Step
<1>2. ASSUME NEW s \in Session, Logout(s) \/ Lapse(s) \/ CleanupSession(s)
      PROVE  IInv'
  BY <1>2, LogoutPreserves, LapsePreserves, CleanupSessionPreserves
<1>3. ASSUME NEW t \in Token, CleanupToken(t)
      PROVE  IInv'
  BY <1>3, CleanupTokenPreserves
<1>4. CASE UNCHANGED vars
  BY <1>4, StutterPreserves
<1> QED BY <1>1, <1>2, <1>3, <1>4 DEF Next

\* The invariant holds in every state of the system.
THEOREM Invariant == Spec => []IInv
<1> QED BY InitInvariant, NextPreserves, PTL DEF Spec

\* However many devices sign in at once, an address ends with at most one active
\* session (VerifyOTP revokes the others under the lock of the users row).
THEOREM OneSession == Spec => []SingleActiveSession
<1>1. IInv => SingleActiveSession
  BY DEF IInv
<1> QED BY <1>1, Invariant, PTL

\* However many refreshes race, a session never has two tokens that can still be
\* exchanged (Refresh rotates a token under its row lock).
THEOREM OneToken == Spec => []OneLiveToken
<1>1. IInv => OneLiveToken
  BY DEF IInv
<1> QED BY <1>1, Invariant, PTL

\* A token presented twice ends its session, as long as it is remembered (reuse
\* detection in Refresh, its commit included).
THEOREM ReuseDetected == Spec => []ReusedTokenEndsSession
<1>1. IInv => ReusedTokenEndsSession
  BY DEF IInv
<1> QED BY <1>1, Invariant, PTL

\* Deleting an account or cleaning up a session leaves no row behind, whatever
\* sign-in or refresh is under way.
THEOREM NoOrphans == Spec => []NothingOrphaned
<1>1. IInv => NothingOrphaned
  BY DEF IInv
<1> QED BY <1>1, Invariant, PTL

----------------------------------------------------------------------------
(* Requests that carry an access token.                                    *)


\* Every step is a step of AuthSession or leaves its variables alone.
LEMMA StepRefines == AccessIInv /\ [AccessNext]_accessVars => [Next]_vars
<1> SUFFICES ASSUME AccessIInv, AccessNext \/ UNCHANGED accessVars PROVE [Next]_vars
  OBVIOUS
<1>1. CASE UNCHANGED accessVars
  BY <1>1 DEF accessVars
<1>2. ASSUME NEW c \in Caller,
             Authenticate(c) \/ ValidateSession(c) \/ ValidateFails(c) \/ Handled(c)
      PROVE  UNCHANGED vars
  BY <1>2 DEF Authenticate, ValidateSession, ValidateFails, Handled
<1>3. ASSUME NEW c \in Caller, LogoutCall(c) PROVE [Next]_vars
  <2>1. call[c].sid \in Session
    BY <1>3 DEF LogoutCall, AccessIInv, EndedSessionRefused
  <2>2. UNCHANGED vars \/ Logout(call[c].sid)
    BY <1>3 DEF LogoutCall
  <2> QED BY <2>1, <2>2 DEF Next
<1>4. ASSUME NEW c \in Caller, NEW p \in Proc, DeleteCall(c, p) PROVE Next
  BY <1>4 DEF DeleteCall, Next
<1>5. ASSUME NEW p \in Proc, Run(p) PROVE Next
  BY <1>5 DEF Run, Finish, Silent, Step, Next
<1>6. ASSUME NEW p \in Proc, SignIn(p) \/ Refresh(p) \/ Fail(p) PROVE Next
  BY <1>6 DEF Next
<1>7. ASSUME \/ \E s \in Session : Lapse(s) \/ CleanupSession(s)
             \/ \E t \in Token : CleanupToken(t)
      PROVE  Next
  BY <1>7 DEF Next
<1> QED BY <1>1, <1>2, <1>3, <1>4, <1>5, <1>6, <1>7 DEF AccessNext

\* A session that is over stays over.
LEMMA OverForGood ==
    ASSUME IInv, [Next]_vars, NEW s \in Session, sess[s] # "free", Ended(s)
    PROVE  sess'[s] # "free" /\ Ended(s)'
<1>1. \A p \in Proc : pc[p] = "issue" => req[p].newS # s
  BY DEF IInv, Provided, Fresh
<1>2. sess[s] \in {"active", "revoked", "gone"}
  BY DEF IInv, TypeOK
<1>3. ASSUME NEW p \in Proc, Issue(p) PROVE sess'[s] # "free" /\ Ended(s)'
  BY <1>1, <1>2, <1>3 DEF Issue, Ended
<1>4. ASSUME NEW p \in Proc, Reuse(p) PROVE sess'[s] # "free" /\ Ended(s)'
  BY <1>2, <1>4 DEF Reuse, Ended, IInv, TypeOK
<1>5. ASSUME NEW p \in Proc, ConfirmDeletion(p) PROVE sess'[s] # "free" /\ Ended(s)'
  BY <1>2, <1>5 DEF ConfirmDeletion, Ended, IInv, TypeOK
<1>6. ASSUME NEW r \in Session, Logout(r) \/ Lapse(r) \/ CleanupSession(r)
      PROVE  sess'[s] # "free" /\ Ended(s)'
  BY <1>2, <1>6 DEF Logout, Lapse, CleanupSession, Ended, IInv, TypeOK
<1>7. ASSUME UNCHANGED <<sess, lapsed>> PROVE sess'[s] # "free" /\ Ended(s)'
  BY <1>7 DEF Ended
<1>8. ASSUME NEW p \in Proc,
             \/ SignIn(p) \/ Refresh(p) \/ DeleteAccount(p) \/ FindUser(p) \/ InsertUser(p)
             \/ ReloadUser(p) \/ RevokeAll(p) \/ LockToken(p) \/ ReadSession(p)
             \/ Rotate(p) \/ LockUser(p) \/ BreakDeadlock(p) \/ Fail(p)
      PROVE  UNCHANGED <<sess, lapsed>>
  BY <1>8 DEF SignIn, Refresh, DeleteAccount, FindUser, InsertUser, ReloadUser, RevokeAll,
     LockToken, ReadSession, Rotate, LockUser, BreakDeadlock, Fail, Answer, rowVars
<1>9. ASSUME NEW t \in Token, CleanupToken(t) PROVE UNCHANGED <<sess, lapsed>>
  BY <1>9 DEF CleanupToken
<1>10. CASE UNCHANGED vars
  BY <1>10, <1>7 DEF vars, rowVars
<1> QED BY <1>3, <1>4, <1>5, <1>6, <1>7, <1>8, <1>9, <1>10 DEF Next, Step

\* A session that was issued is never unissued.
LEMMA IssuedForGood ==
    ASSUME IInv, [Next]_vars, NEW s \in Session, sess[s] # "free"
    PROVE  sess'[s] # "free"
<1>1. CASE Ended(s)
  BY <1>1, OverForGood
<1>2. CASE ~Ended(s)
  <2>1. sess[s] = "active" /\ \A p \in Proc : pc[p] = "issue" => req[p].newS # s
    BY <1>2 DEF Ended, IInv, Provided, Fresh
  <2>2. ASSUME NEW p \in Proc, Issue(p) \/ Reuse(p) \/ ConfirmDeletion(p) PROVE sess'[s] # "free"
    BY <2>1, <2>2 DEF Issue, Reuse, ConfirmDeletion, IInv, TypeOK
  <2>3. ASSUME NEW r \in Session, Logout(r) \/ Lapse(r) \/ CleanupSession(r)
        PROVE  sess'[s] # "free"
    BY <2>1, <2>3 DEF Logout, Lapse, CleanupSession, IInv, TypeOK
  <2>4. ASSUME NEW p \in Proc,
               \/ SignIn(p) \/ Refresh(p) \/ DeleteAccount(p) \/ FindUser(p) \/ InsertUser(p)
               \/ ReloadUser(p) \/ RevokeAll(p) \/ LockToken(p) \/ ReadSession(p)
               \/ Rotate(p) \/ LockUser(p) \/ BreakDeadlock(p) \/ Fail(p)
        PROVE  sess' = sess
    BY <2>4 DEF SignIn, Refresh, DeleteAccount, FindUser, InsertUser, ReloadUser, RevokeAll,
       LockToken, ReadSession, Rotate, LockUser, BreakDeadlock, Fail, Answer, rowVars
  <2>5. ASSUME NEW t \in Token, CleanupToken(t) PROVE sess' = sess
    BY <2>5 DEF CleanupToken
  <2>6. CASE UNCHANGED vars
    BY <2>6 DEF vars, rowVars
  <2> QED BY <2>1, <2>2, <2>3, <2>4, <2>5, <2>6 DEF Next, Step
<1> QED BY <1>1, <1>2

\* The sessions that the answer of p speaks of are over when it is given.
LEMMA AnnouncedIsOver ==
    ASSUME IInv, IInv', NEW p \in Proc, Finish(p), NEW s \in Announced(p)
    PROVE  s \in Session /\ sess'[s] # "free" /\ Ended(s)'
<1>1. CASE Issue(p)
  <2>1. s \in Session /\ sess[s] # "free" /\ pc[p] = "issue"
    BY <1>1 DEF Issue, Announced
  <2>2. hold[p] = Active /\ req[p].newS \in Session /\ sess[req[p].newS] = "free"
    BY <2>1, NoneAssumption DEF IInv, UserLock, TypeOK, Provided, Fresh
  <2>3. sess'[s] = IF s \in Active THEN "revoked" ELSE sess[s]
    BY <1>1, <2>1, <2>2 DEF Issue
  <2> QED BY <2>1, <2>3 DEF Active, Ended
<1>2. CASE Reuse(p)
  <2>1. pc[p] = "reuse" /\ s = of[req[p].t]
    BY <1>2 DEF Reuse, Announced
  <2>2. s \in Session
    BY <2>1, TokenRead DEF HasToken
  <2> QED BY <1>2, <2>1, <2>2 DEF Reuse, Ended, IInv, TypeOK
<1>3. CASE ConfirmDeletion(p)
  <2>1. s \in Session /\ sess[s] # "free"
    BY <1>3 DEF ConfirmDeletion, Announced
  <2> QED BY <1>3, <2>1 DEF ConfirmDeletion, Ended
<1> QED BY <1>1, <1>2, <1>3 DEF Finish

\* What is told of a session's end stays true.
LEMMA ToldPreserved == AccessIInv /\ IInv' /\ [AccessNext]_accessVars => ToldIsOver'
<1> SUFFICES ASSUME AccessIInv, IInv', [AccessNext]_accessVars, NEW s \in told'
             PROVE  (sess[s] # "free")' /\ Ended(s)'
  BY DEF ToldIsOver
<1>1. IInv /\ [Next]_vars
  BY StepRefines DEF AccessIInv
<1>2. CASE s \in told
  <2>1. s \in Session /\ sess[s] # "free" /\ Ended(s)
    BY <1>2 DEF AccessIInv, AccessTypeOK, ToldIsOver
  <2> QED BY <1>1, <2>1, OverForGood
<1>3. CASE s \notin told
  <2>1. \/ \E c \in Caller : LogoutCall(c) /\ s = call[c].sid
        \/ \E p \in Proc : Finish(p) /\ s \in Announced(p)
    BY <1>3 DEF AccessNext, accessVars, Authenticate, ValidateSession, ValidateFails, Handled,
       DeleteCall, LogoutCall, Run, Finish, Silent
  <2>2. ASSUME NEW p \in Proc, Finish(p), s \in Announced(p)
        PROVE  (sess[s] # "free")' /\ Ended(s)'
    BY <1>1, <2>2, AnnouncedIsOver
  <2>3. ASSUME NEW c \in Caller, LogoutCall(c), s = call[c].sid
        PROVE  (sess[s] # "free")' /\ Ended(s)'
    <3>1. s \in Session /\ call[c].sid = s
      BY <2>3 DEF LogoutCall, AccessIInv, EndedSessionRefused
    <3>2. CASE Logout(call[c].sid)
      BY <3>1, <3>2 DEF Logout, Ended, AccessIInv, IInv, TypeOK
    <3>3. CASE sess[call[c].sid] # "active" /\ UNCHANGED vars
      <4>1. sess[s] # "free"
        BY <2>3, <3>1, <1>1 DEF LogoutCall, AccessIInv, Carried
      <4> QED BY <3>1, <3>3, <4>1 DEF Ended, vars, rowVars
    <3> QED BY <2>3, <3>2, <3>3 DEF LogoutCall
  <2> QED BY <2>1, <2>2, <2>3
<1> QED BY <1>2, <1>3

\* Only issued sessions are spoken of.
LEMMA ToldInSession == AccessIInv /\ [AccessNext]_accessVars => told' \subseteq Session
<1> SUFFICES ASSUME AccessIInv, [AccessNext]_accessVars PROVE told' \subseteq Session
  OBVIOUS
<1>1. told \subseteq Session
  BY DEF AccessIInv, AccessTypeOK
<1>2. ASSUME NEW c \in Caller, LogoutCall(c) PROVE told' \subseteq Session
  BY <1>1, <1>2 DEF LogoutCall, AccessIInv, EndedSessionRefused
<1>3. ASSUME NEW p \in Proc, Finish(p) PROVE told' \subseteq Session
  <2>1. pc[p] = "reuse" => of[req[p].t] \in Session
    BY TokenRead DEF AccessIInv, HasToken
  <2> QED BY <1>1, <1>3, <2>1 DEF Finish, Announced
<1> QED BY <1>1, <1>2, <1>3 DEF AccessNext, accessVars, Authenticate, ValidateSession,
        ValidateFails, Handled, DeleteCall, Run, Silent

\* What a call does to the calls: the others stay as they were.
LEMMA CallEffect ==
    ASSUME AccessIInv, [AccessNext]_accessVars, NEW c \in Caller, call'[c] # call[c]
    PROVE  Authenticate(c) \/ ValidateSession(c) \/ call'[c] = NoCall
<1>1. ASSUME NEW d \in Caller,
             \/ ValidateFails(d) \/ Handled(d) \/ LogoutCall(d)
             \/ \E p \in Proc : DeleteCall(d, p)
      PROVE  call'[c] = NoCall
  BY <1>1 DEF ValidateFails, Handled, LogoutCall, DeleteCall, Respond, AccessIInv, AccessTypeOK
<1>2. ASSUME NEW d \in Caller, Authenticate(d) \/ ValidateSession(d) PROVE d = c
  BY <1>2 DEF Authenticate, ValidateSession, Advance, Respond, AccessIInv, AccessTypeOK
<1>3. ASSUME NEW d \in Caller, Authenticate(d) \/ ValidateSession(d)
      PROVE  Authenticate(c) \/ ValidateSession(c)
  BY <1>2, <1>3
<1> QED BY <1>1, <1>3 DEF AccessNext, accessVars, Run, Finish, Silent

\* AccessIInv holds at the start.
LEMMA AccessInitInvariant == AccessInit => AccessIInv
<1> SUFFICES ASSUME AccessInit PROVE AccessIInv
  OBVIOUS
<1>1. IInv
  BY InitInvariant DEF AccessInit
<1>2. AccessTypeOK /\ ToldIsOver /\ EndedSessionRefused
  BY DEF AccessInit, AccessTypeOK, ToldIsOver, EndedSessionRefused, NoCall, Route
<1>3. Carried
  BY NoneAssumption DEF AccessInit, Carried, NoCall
<1> QED BY <1>1, <1>2, <1>3 DEF AccessIInv

\* Every step preserves it.
LEMMA AccessNextPreserves == AccessIInv /\ [AccessNext]_accessVars => AccessIInv'
<1> SUFFICES ASSUME AccessIInv, [AccessNext]_accessVars PROVE AccessIInv'
  OBVIOUS
<1>1. IInv /\ [Next]_vars /\ IInv'
  BY StepRefines, NextPreserves DEF AccessIInv
<1>2. ToldIsOver'
  BY <1>1, ToldPreserved
<1>3. told \subseteq told'
  BY DEF AccessNext, accessVars, Authenticate, ValidateSession, ValidateFails, Handled,
     DeleteCall, LogoutCall, Run, Finish, Silent
<1>4. ASSUME NEW c \in Caller, Authenticate(c)
      PROVE  /\ call'[c].at = "in" => call'[c].route = "admin"
             /\ call'[c].at = "check" => call'[c].route = "user"
             /\ call'[c].route \in Route /\ call'[c].sid \in Sid
             /\ ClaimsFit(call'[c].route, call'[c].sid)
             /\ call'[c].late => call'[c].sid \in told
             /\ sess' = sess
  <2>1. PICK route \in Route, sid \in Sid :
          /\ ClaimsFit(route, sid)
          /\ call' = [call EXCEPT ![c] = [at    |-> IF route = "admin" THEN "in" ELSE "check",
                                         route |-> route,
                                         sid   |-> sid,
                                         late  |-> sid \in told]]
    BY <1>4 DEF Authenticate
  <2>2. call'[c] = [at    |-> IF route = "admin" THEN "in" ELSE "check",
                    route |-> route, sid |-> sid, late |-> sid \in told]
    BY <2>1 DEF AccessIInv, AccessTypeOK
  <2>3. /\ call'[c].route = route /\ call'[c].sid = sid
        /\ call'[c].late = (sid \in told)
        /\ call'[c].at = IF route = "admin" THEN "in" ELSE "check"
    BY <2>2
  <2>4. call'[c].late => call'[c].sid \in told
    BY <2>3
  <2>5. ClaimsFit(call'[c].route, call'[c].sid) /\ call'[c].sid \in Sid
    BY <2>1, <2>3
  <2>6. sess' = sess
    BY <1>4 DEF Authenticate, vars, rowVars
  <2> QED BY <2>3, <2>4, <2>5, <2>6 DEF Route
<1>5. \A c \in Caller : ValidateSession(c) =>
        \/ call'[c] = NoCall
        \/ /\ call[c].at = "check" /\ SessionGood(c)
           /\ call'[c].at = "in" /\ call'[c].route = call[c].route
           /\ call'[c].sid = call[c].sid /\ call'[c].late = call[c].late
  <2> SUFFICES ASSUME NEW c \in Caller, ValidateSession(c), call'[c] # NoCall
               PROVE  /\ call[c].at = "check" /\ SessionGood(c)
                      /\ call'[c].at = "in" /\ call'[c].route = call[c].route
                      /\ call'[c].sid = call[c].sid /\ call'[c].late = call[c].late
    OBVIOUS
  <2>1. SessionGood(c) /\ Advance(c, "in")
    BY DEF ValidateSession, Respond, AccessIInv, AccessTypeOK
  <2>2. call \in [Caller -> [at : {"idle", "check", "in"}, route : Route,
                            sid : Session \cup {None}, late : BOOLEAN]]
    BY DEF AccessIInv, AccessTypeOK
  <2> QED BY <2>1, <2>2 DEF ValidateSession, Advance
<1>6. AccessTypeOK'
  <2>1. told' \subseteq Session
    BY <1>1, ToldInSession
  <2>2. call' \in [Caller -> [at : {"idle", "check", "in"}, route : Route,
                             sid : Session \cup {None}, late : BOOLEAN]]
    <3> DEFINE T == [at : {"idle", "check", "in"}, route : Route,
                     sid : Session \cup {None}, late : BOOLEAN]
    <3>1. call \in [Caller -> T] /\ NoCall \in T
      BY DEF AccessIInv, AccessTypeOK, NoCall, Route
    <3>2. ASSUME NEW c \in Caller, Respond(c) PROVE call' \in [Caller -> T]
      BY <3>1, <3>2 DEF Respond
    <3>3. ASSUME NEW c \in Caller, Advance(c, "in") PROVE call' \in [Caller -> T]
      BY <3>1, <3>3 DEF Advance
    <3>4. ASSUME NEW c \in Caller, Authenticate(c) PROVE call' \in [Caller -> T]
      BY <3>1, <3>4 DEF Authenticate, Sid
    <3>5. ASSUME UNCHANGED call PROVE call' \in [Caller -> T]
      BY <3>1, <3>5
    <3> QED BY <3>2, <3>3, <3>4, <3>5 DEF AccessNext, accessVars, ValidateSession,
            ValidateFails, Handled, LogoutCall, DeleteCall, Run, Finish, Silent
  <2> QED BY <2>1, <2>2 DEF AccessTypeOK
<1>7. ASSUME NEW c \in Caller
      PROVE  /\ call'[c].late => call'[c].sid \in told'
             /\ call'[c].at = "check" => call'[c].sid \in Session /\ call'[c].route = "user"
             /\ call'[c].sid \in Session => sess'[call'[c].sid] # "free"
             /\ call'[c].at = "in" =>
                  IF call'[c].route = "admin" THEN call'[c].sid = None
                  ELSE call'[c].sid \in Session /\ ~call'[c].late
  <2>1. CASE call'[c] = call[c]
    BY <1>1, <1>3, <2>1, IssuedForGood DEF AccessIInv, Carried, EndedSessionRefused
  <2>2. CASE call'[c] = NoCall
    BY <2>2, NoneAssumption DEF NoCall
  <2>3. CASE Authenticate(c)
    BY <1>3, <1>4, <2>3, NoneAssumption DEF ClaimsFit, Sid, Route
  <2>4. CASE ValidateSession(c) /\ call'[c] # NoCall
    <3>1. /\ call[c].at = "check" /\ SessionGood(c)
          /\ call'[c].at = "in" /\ call'[c].sid = call[c].sid /\ call'[c].late = call[c].late
      BY <1>5, <2>4
    <3>2. call[c].sid \in Session /\ sess[call[c].sid] # "free"
      BY <3>1 DEF AccessIInv, Carried
    <3>3. call[c].sid \notin told /\ ~call[c].late
      BY <3>1 DEF SessionGood, AccessIInv, ToldIsOver, Ended, Carried
    <3>4. sess' = sess /\ call'[c].route = call[c].route
      BY <1>5, <2>4 DEF ValidateSession, vars, rowVars
    <3>5. call[c].route = "user"
      BY <3>1 DEF AccessIInv, Carried
    <3> QED BY <3>1, <3>2, <3>3, <3>4, <3>5
  <2> QED BY <2>1, <2>2, <2>3, <2>4, CallEffect
<1>8. Carried' /\ EndedSessionRefused'
  BY <1>7 DEF Carried, EndedSessionRefused
<1> QED BY <1>1, <1>2, <1>6, <1>8 DEF AccessIInv

\* AccessToken implements AuthSession: the checks of access tokens and the calls
\* they let in add nothing to what its transactions can do.
THEOREM ImplementsAuthSession == AccessSpec => Spec
<1>1. AccessInit => Init
  BY DEF AccessInit
<1> QED BY <1>1, AccessInitInvariant, AccessNextPreserves, StepRefines, PTL DEF AccessSpec, Spec

\* The invariant of the composition, and with it that of AuthSession.
THEOREM AccessInvariant == AccessSpec => []AccessIInv
<1> QED BY AccessInitInvariant, AccessNextPreserves, PTL DEF AccessSpec

\* A client that has been told its session is over is never let in with it again,
\* however its requests and the end of the session interleave (jwtAuth looks the
\* session up for every request, and nothing makes a session active again).
THEOREM EndedRefused == AccessSpec => []EndedSessionRefused
<1>1. AccessIInv => EndedSessionRefused
  BY DEF AccessIInv
<1> QED BY <1>1, AccessInvariant, PTL

=============================================================================
