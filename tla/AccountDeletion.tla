-------------------------- MODULE AccountDeletion --------------------------
(***************************************************************************)
(* Otp together with the users row, for both purposes of an OTP.           *)
(*                                                                         *)
(* An OTP of a sign-in belongs to an address.  One that confirms the       *)
(* deletion of an account refers to the users row: its INSERT waits for    *)
(* whoever has locked that row and fails without it, and it goes with the  *)
(* account.  A request for such a code takes the locks of the older codes  *)
(* first and then needs the users row; its confirmation locks the users    *)
(* row first and then the codes.                                           *)
(***************************************************************************)
EXTENDS Otp

VARIABLES
    purpose,  \* of the codes of this behavior; it never changes
    account,  \* TRUE: the users row is there (an account that has gone stays away)
    holder    \* the handler that has the users row FOR UPDATE, or None

ASSUME NobodyAssumption == None \notin Proc

deletionVars == <<vars, purpose, account, holder>>

Deleting == purpose = "account_deletion"

DeletionInit ==
    /\ Init
    /\ purpose \in {"auth_login", "account_deletion"}
    /\ account = TRUE
    /\ holder  = None

----------------------------------------------------------------------------
(* RequestAccountDeletion, or Start of a sign-in.                          *)

\* No account: a request or its confirmation ends with status 401.
Unauthorized == Deleting /\ ~account /\ UNCHANGED deletionVars

\* GetUserByID comes first.
Request(p) ==
    /\ Deleting => account
    /\ Start(p)
    /\ UNCHANGED <<purpose, account, holder>>

\* fault: otp_codes has no foreign key
InsertUnchecked(p) == InsertOTP(p) /\ UNCHANGED <<purpose, account, holder>>

\* The INSERT of a code that confirms a deletion looks the users row up.
InsertChecked(p) ==
    /\ Deleting => holder = None /\ account
    /\ InsertOTP(p)
    /\ UNCHANGED <<purpose, account, holder>>

\* There is none any more: ROLLBACK and status 500.
InsertFails(p) ==
    /\ pc[p] = "insert"
    /\ Deleting /\ holder = None /\ ~account
    /\ End(p)
    /\ UNCHANGED <<tableVars, accepted, purpose, account, holder>>

----------------------------------------------------------------------------
(* ConfirmAccountDeletion, or VerifyOTP.                                   *)

\* GetUserByIDForUpdate
LockAccount(p) ==
    /\ Deleting /\ account /\ holder = None
    /\ Verify(p)
    /\ holder' = p
    /\ UNCHANGED <<purpose, account>>

VerifySignIn(p) ==
    /\ ~Deleting
    /\ Verify(p)
    /\ UNCHANGED <<purpose, account, holder>>

\* The lock of the users row goes with the end of p's transaction.
ReleaseAtEnd(p) ==
    /\ holder' = IF holder = p /\ pc'[p] = "idle" THEN None ELSE holder
    /\ UNCHANGED <<purpose, account>>

Check(p) ==
    /\ \/ FindActive(p) \/ LockActive(p) \/ CountAttempts(p) \/ WrongCode(p) \/ RightCode(p)
       \/ ~Deleting /\ Complete(p)
    /\ ReleaseAtEnd(p)

\* DeleteUser and COMMIT: the codes and the failed attempts go with the account,
\* once nobody else has a lock on them.
DeleteUser(p) ==
    /\ Deleting /\ pc[p] = "confirm"
    /\ \A o \in OtpId : Exists(o) => ~Locked(o, p)
    /\ row'   = [o \in OtpId |-> IF Exists(o) THEN "gone" ELSE row[o]]
    /\ fails' = 0
    /\ LetIn(p)
    /\ End(p)
    /\ account' = FALSE
    /\ holder'  = None
    /\ UNCHANGED <<begun, expired, cleaning, purpose>>

----------------------------------------------------------------------------
(* Deadlocks.                                                              *)

\* p waits for a lock that q has.
WaitsFor(p, q) ==
    \/ pc[p] = "wait" /\ found[p] \cap hold[q] # {}
    \/ pc[p] = "insert" /\ Deleting /\ holder = q
    \/ pc[p] = "lock" /\ Newest(found[p]) \in hold[q]
    \/ pc[p] = "confirm" /\ Deleting /\ \E o \in hold[q] : Exists(o)

Deadlocked(p) == \E q \in Proc \ {p} : WaitsFor(p, q) /\ WaitsFor(q, p)

\* PostgreSQL breaks a deadlock by failing one of the transactions.
BreakDeadlock(p) ==
    /\ pc[p] # "idle" /\ Deadlocked(p)
    /\ End(p)
    /\ ReleaseAtEnd(p)
    /\ UNCHANGED <<tableVars, accepted>>

Rollback(p) == Fail(p) /\ ReleaseAtEnd(p)

Work(p) ==
    \/ /\ p \in Starter
       /\ \/ (FindOld(p) \/ LockOld(p)) /\ UNCHANGED <<purpose, account, holder>>
          \/ InsertChecked(p) \/ InsertFails(p)
    \/ p \in Verifier /\ (Check(p) \/ DeleteUser(p))
    \/ BreakDeadlock(p)

DeletionNext ==
    \/ \E p \in Starter : Request(p)
    \/ \E p \in Verifier : LockAccount(p) \/ VerifySignIn(p)
    \/ \E p \in Proc : Work(p) \/ Rollback(p)
    \/ Unauthorized
    \/ /\ \/ \E o \in OtpId : CleanupFailedOTP(o) \/ Expire(o) \/ CleanupOTP(o)
          \/ AttemptAges
       /\ UNCHANGED <<purpose, account, holder>>

DeletionSpec == DeletionInit /\ [][DeletionNext]_deletionVars

\* Every handler keeps running, and a lock that is wanted is granted in the end
\* (PostgreSQL queues the waiters of a row).
FairDeletionSpec == DeletionSpec /\ \A p \in Proc : SF_deletionVars(Work(p))

----------------------------------------------------------------------------

\* Besides the types: a code that confirms a deletion does not outlive the
\* account, and only its confirmation has the users row.
DeletionTypeOK ==
    /\ TypeOK
    /\ purpose \in {"auth_login", "account_deletion"}
    /\ account \in BOOLEAN
    /\ holder  \in Verifier \cup {None}
    /\ Deleting /\ ~account => fails = 0 /\ \A o \in OtpId : ~Exists(o)
    /\ \A p \in Verifier : (Deleting /\ pc[p] # "idle") <=> holder = p

\* An OTP is deleted only because it has expired, its mail could not be sent, a
\* newer one takes its place or its account is deleted: the goroutine that cleans
\* up after a failed mail never takes the OTP of a later Start with it.
DeletedOnlyWhenDue ==
    [][\A o \in OtpId :
         Exists(o) /\ row'[o] = "gone"
            => \/ o \in expired \cup cleaning
               \/ \E p \in Starter : pc[p] = "insert" /\ o \in hold[p]
               \/ account /\ ~account']_deletionVars

\* Every request for a code and every verification comes to an end, although a
\* request for a deletion and its confirmation lock the codes and the users row
\* the other way round.
ChallengesEnd == \A p \in Proc : pc[p] # "idle" ~> pc[p] = "idle"

=============================================================================
