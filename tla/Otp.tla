-------------------------------- MODULE Otp --------------------------------
(***************************************************************************)
(* One-time passwords of one (email, purpose): issuing them by mail and    *)
(* verifying them.  Issuing a new one deletes the older ones; a wrong code *)
(* counts against the address for ten minutes.                             *)
(*                                                                         *)
(* As in AuthSession a handler is a process that runs one READ COMMITTED   *)
(* transaction: a statement sees what was committed when it started, waits *)
(* for the locks of the rows it found, and looks at those rows again       *)
(* afterwards.  hold[p] are the rows that p's transaction has locked.      *)
(***************************************************************************)
EXTENDS FiniteSets, Integers

CONSTANTS
    Starter,        \* handlers that issue an OTP (Start, RequestAccountDeletion)
    Verifier,       \* handlers that check one (VerifyOTP, ConfirmAccountDeletion)
    MaxOTPs,        \* bound on the OTPs that are issued
    MaxOTPAttempts,
    None            \* no row

ASSUME OtpAssumption ==
    /\ MaxOTPs \in Nat /\ MaxOTPAttempts \in Nat \ {0}
    /\ None \notin 1 .. MaxOTPs
    /\ Starter \cap Verifier = {}

Proc == Starter \cup Verifier

\* Rows of otp_codes, numbered by created_at, the start of their transaction.
OtpId == 1 .. MaxOTPs

VARIABLES
    row,      \* row[o]: "free", "active", "used" or "gone"
    begun,    \* how many transactions that insert a row have begun
    expired,  \* ids whose expires_at has passed
    fails,    \* rows of otp_failed_attempts of the last ten minutes
    cleaning, \* ids whose mail failed and that cleanupFailedOTP will delete
    pc,       \* pc[p]: where p's transaction stands
    mine,     \* mine[p]: the row p inserts or verifies, or None
    found,    \* found[p]: the rows p's statement saw and has still to look at
    hold,     \* hold[p]: the rows p has locked
    accepted  \* accepted[o]: requests let in with o, up to two

tableVars == <<row, begun, expired, fails, cleaning>>
vars      == <<tableVars, pc, mine, found, hold, accepted>>

Usable(o)    == row[o] = "active" /\ o \notin expired
Exists(o)    == row[o] \in {"active", "used"}
Locked(o, p) == \E q \in Proc \ {p} : o \in hold[q]

Newest(S) == CHOOSE o \in S : \A x \in S : x <= o

Go(p, where) == pc' = [pc EXCEPT ![p] = where]

\* COMMIT or ROLLBACK: the locks are released.
End(p) ==
    /\ Go(p, "idle")
    /\ mine'  = [mine EXCEPT ![p] = None]
    /\ found' = [found EXCEPT ![p] = {}]
    /\ hold'  = [hold EXCEPT ![p] = {}]

Init ==
    /\ row      = [o \in OtpId |-> "free"]
    /\ begun    = 0
    /\ expired  = {}
    /\ fails    = 0
    /\ cleaning = {}
    /\ pc       = [p \in Proc |-> "idle"]
    /\ mine     = [p \in Proc |-> None]
    /\ found    = [p \in Proc |-> {}]
    /\ hold     = [p \in Proc |-> {}]
    /\ accepted = [o \in OtpId |-> 0]

----------------------------------------------------------------------------
(* createChallenge.                                                        *)

\* BEGIN: now() is fixed.
Start(p) ==
    /\ pc[p] = "idle"
    /\ begun < MaxOTPs
    /\ begun' = begun + 1
    /\ mine'  = [mine EXCEPT ![p] = begun + 1]
    /\ Go(p, "delete")
    /\ UNCHANGED <<row, expired, fails, cleaning, found, hold, accepted>>

\* DeleteOTPsByEmailAndPurpose finds the rows to delete.
FindOld(p) ==
    /\ pc[p] = "delete"
    /\ found' = [found EXCEPT ![p] = {o \in OtpId : Exists(o)}]
    /\ Go(p, IF found'[p] = {} THEN "insert" ELSE "wait")
    /\ UNCHANGED <<tableVars, mine, hold, accepted>>

\* fault: the older OTPs are left to expire
LeaveOld(p) ==
    /\ pc[p] = "wait"
    /\ Go(p, "insert")
    /\ UNCHANGED <<tableVars, mine, found, hold, accepted>>

\* It locks them one by one; one that is gone by then is skipped.
LockOld(p) ==
    /\ pc[p] = "wait"
    /\ \E o \in found[p] :
         /\ ~Locked(o, p)
         /\ hold'  = [hold EXCEPT ![p] = IF Exists(o) THEN @ \cup {o} ELSE @]
         /\ found' = [found EXCEPT ![p] = @ \ {o}]
    /\ Go(p, IF found'[p] = {} THEN "insert" ELSE "wait")
    /\ UNCHANGED <<tableVars, mine, accepted>>

\* InsertOTP and COMMIT, then the mail.  If it cannot be sent, a goroutine of
\* its own is left to delete the row.
InsertOTP(p) ==
    /\ pc[p] = "insert"
    /\ row' = [o \in OtpId |-> IF o = mine[p] THEN "active"
                               ELSE IF o \in hold[p] THEN "gone" ELSE row[o]]
    /\ cleaning' \in {cleaning, cleaning \cup {mine[p]}}
    /\ End(p)
    /\ UNCHANGED <<begun, expired, fails, accepted>>

\* fault: the goroutine deletes by email and purpose
CleanupByEmail(o) ==
    /\ o \in cleaning
    /\ \A x \in OtpId, p \in Proc : x \notin hold[p]
    /\ row'      = [x \in OtpId |-> IF Exists(x) THEN "gone" ELSE row[x]]
    /\ cleaning' = cleaning \ {o}
    /\ UNCHANGED <<begun, expired, fails, pc, mine, found, hold, accepted>>

\* The goroutine deletes the row by its id, if it is still there.
CleanupFailedOTP(o) ==
    /\ o \in cleaning
    /\ \A p \in Proc : o \notin hold[p]
    /\ row'      = [row EXCEPT ![o] = "gone"]
    /\ cleaning' = cleaning \ {o}
    /\ UNCHANGED <<begun, expired, fails, pc, mine, found, hold, accepted>>

----------------------------------------------------------------------------
(* verifyChallenge and MarkOTPUsed.                                        *)

\* BEGIN
Verify(p) ==
    /\ pc[p] = "idle"
    /\ Go(p, "verify")
    /\ UNCHANGED <<tableVars, mine, found, hold, accepted>>

\* fault: the 401 leaves the transaction open, with the users row locked
FindActiveNoRollback(p) ==
    /\ pc[p] = "verify"
    /\ LET usable == {o \in OtpId : Usable(o)}
       IN  usable # {} /\ found' = [found EXCEPT ![p] = usable]
    /\ Go(p, "lock")
    /\ UNCHANGED <<tableVars, mine, hold, accepted>>

\* GetActiveOTPForUpdate finds the usable rows; without one, status 401.
FindActive(p) ==
    /\ pc[p] = "verify"
    /\ LET usable == {o \in OtpId : Usable(o)}
       IN  \/ /\ usable # {}
              /\ found' = [found EXCEPT ![p] = usable]
              /\ Go(p, "lock")
              /\ UNCHANGED <<mine, hold>>
           \/ usable = {} /\ End(p)
    /\ UNCHANGED <<tableVars, accepted>>

\* fault: no FOR UPDATE
ReadActive(p) ==
    /\ pc[p] = "lock"
    /\ mine' = [mine EXCEPT ![p] = Newest(found[p])]
    /\ Go(p, "count")
    /\ UNCHANGED <<tableVars, found, hold, accepted>>

\* It locks the newest of them and looks at it again: a row that has been used
\* or deleted meanwhile is passed over for the next, and with none left the
\* answer is 401.
LockActive(p) ==
    /\ pc[p] = "lock"
    /\ LET o == Newest(found[p])
       IN  /\ ~Locked(o, p)
           /\ \/ /\ row[o] = "active"
                 /\ mine'  = [mine EXCEPT ![p] = o]
                 /\ hold'  = [hold EXCEPT ![p] = {o}]
                 /\ found' = [found EXCEPT ![p] = {}]
                 /\ Go(p, "count")
              \/ /\ row[o] # "active" /\ found[p] # {o}
                 /\ found' = [found EXCEPT ![p] = @ \ {o}]
                 /\ UNCHANGED <<pc, mine, hold>>
              \/ row[o] # "active" /\ found[p] = {o} /\ End(p)
    /\ UNCHANGED <<tableVars, accepted>>

\* CountFailedOTPAttemptsSinceForUpdate; status 429 at the limit.
CountAttempts(p) ==
    /\ pc[p] = "count"
    /\ \/ fails >= MaxOTPAttempts /\ End(p)
       \/ fails < MaxOTPAttempts /\ Go(p, "compare") /\ UNCHANGED <<mine, found, hold>>
    /\ UNCHANGED <<tableVars, accepted>>

\* InsertFailedOTPAttempt, and COMMIT although the request is refused.
WrongCode(p) ==
    /\ pc[p] = "compare"
    /\ fails' = fails + 1
    /\ End(p)
    /\ UNCHANGED <<row, begun, expired, cleaning, accepted>>

\* MarkOTPUsed; the rest of the transaction goes on with the row locked.
RightCode(p) ==
    /\ pc[p] = "compare"
    /\ Go(p, "confirm")
    /\ UNCHANGED <<tableVars, mine, found, hold, accepted>>

LetIn(p) == accepted' = [accepted EXCEPT ![mine[p]] = IF @ = 2 THEN 2 ELSE @ + 1]

\* fault: MarkOTPUsed is left out
CompleteKept(p) ==
    /\ pc[p] = "confirm"
    /\ LetIn(p)
    /\ End(p)
    /\ UNCHANGED tableVars

\* The sign-in, which is AuthSession's, and COMMIT.
Complete(p) ==
    /\ pc[p] = "confirm"
    /\ row' = [row EXCEPT ![mine[p]] = "used"]
    /\ LetIn(p)
    /\ End(p)
    /\ UNCHANGED <<begun, expired, fails, cleaning>>

----------------------------------------------------------------------------
(* Time, the cleanup job and failures.                                     *)

Expire(o) ==
    /\ Exists(o) /\ o \notin expired
    /\ expired' = expired \cup {o}
    /\ UNCHANGED <<row, begun, fails, cleaning, pc, mine, found, hold, accepted>>

\* The oldest failed attempt is ten minutes old.
AttemptAges ==
    /\ fails > 0
    /\ fails' = fails - 1
    /\ UNCHANGED <<row, begun, expired, cleaning, pc, mine, found, hold, accepted>>

\* cleanupOTPCodes
CleanupOTP(o) ==
    /\ Exists(o) /\ o \in expired
    /\ \A p \in Proc : o \notin hold[p]
    /\ row' = [row EXCEPT ![o] = "gone"]
    /\ UNCHANGED <<begun, expired, fails, cleaning, pc, mine, found, hold, accepted>>

\* A statement or the sign-in that follows fails: ROLLBACK.
Fail(p) ==
    /\ pc[p] # "idle"
    /\ End(p)
    /\ UNCHANGED <<tableVars, accepted>>

Next ==
    \/ \E p \in Starter : Start(p) \/ FindOld(p) \/ LockOld(p) \/ InsertOTP(p)
    \/ \E p \in Verifier :
         \/ Verify(p) \/ FindActive(p) \/ LockActive(p) \/ CountAttempts(p)
         \/ WrongCode(p) \/ RightCode(p) \/ Complete(p)
    \/ \E p \in Proc : Fail(p)
    \/ \E o \in OtpId : CleanupFailedOTP(o) \/ Expire(o) \/ CleanupOTP(o)
    \/ AttemptAges

Spec == Init /\ [][Next]_vars

----------------------------------------------------------------------------

\* A handler that has got as far as the code holds the row it compares with.
TypeOK ==
    /\ row      \in [OtpId -> {"free", "active", "used", "gone"}]
    /\ begun    \in 0 .. MaxOTPs
    /\ expired  \subseteq OtpId
    /\ fails    \in Nat
    /\ cleaning \subseteq OtpId
    /\ pc       \in [Proc -> {"idle", "delete", "wait", "insert",
                             "verify", "lock", "count", "compare", "confirm"}]
    /\ mine     \in [Proc -> OtpId \cup {None}]
    /\ found    \in [Proc -> SUBSET OtpId]
    /\ hold     \in [Proc -> SUBSET OtpId]
    /\ accepted \in [OtpId -> 0 .. 2]
    /\ \A p \in Verifier : pc[p] \in {"count", "compare", "confirm"} =>
         hold[p] = {mine[p]} /\ row[mine[p]] = "active"

\* No more wrong codes are taken in ten minutes than MaxOTPAttempts, however
\* many requests are tried at once: counting and inserting happen under the
\* lock of the only active OTP.  (BACKEND_SPEC.md: "A maximum of 3 OTP
\* verification attempts are allowed per email per 10-minute window.")
AttemptsBounded == fails <= MaxOTPAttempts

\* There is at most one OTP that can still be used.  (BACKEND_SPEC.md: "At most
\* one unused OTP should remain active for a given (email, purpose).")
OneActiveOTP == \A o1, o2 \in OtpId : Usable(o1) /\ Usable(o2) => o1 = o2

\* A right code is spent: of the requests that present it at the same time one
\* is let in, and none with an OTP that a newer one has replaced meanwhile.
AcceptedOnce ==
    [][\A o \in OtpId :
         accepted'[o] # accepted[o] => accepted[o] = 0 /\ row[o] = "active"]_vars

=============================================================================
