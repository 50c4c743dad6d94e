----------------------- MODULE AccountDeletion_proofs -----------------------
(***************************************************************************)
(* Proofs about one-time passwords and the users row, for every number of  *)
(* handlers, of codes and of attempts.                                     *)
(*                                                                         *)
(* What holds of every interleaving is in Base: the row locks exclude each *)
(* other and are only on rows that exist, so a code that a verifier has    *)
(* found right stays as it is until it is used.  The two promises that the *)
(* backend's specification makes on top (one usable code, and a bound on   *)
(* the wrong ones) hold as long as requests for a code do not overlap,     *)
(* OneAtATime; the run otp_two_starts shows that they need it.             *)
(***************************************************************************)
EXTENDS AccountDeletion, WellFoundedInduction, TLAPS

\* Where a handler can be, and that it holds nothing between transactions.
Roles ==
    /\ \A p \in Starter : pc[p] \in {"idle", "delete", "wait", "insert"}
    /\ \A p \in Verifier : pc[p] \in {"idle", "verify", "lock", "count", "compare", "confirm"}
    /\ \A p \in Proc : pc[p] = "idle" => mine[p] = None /\ found[p] = {} /\ hold[p] = {}
    /\ \A p \in Verifier : pc[p] = "lock" => found[p] # {}

\* FOR UPDATE: nobody else has the row, and it is there.
Locks ==
    /\ \A p, q \in Proc : p # q => hold[p] \cap hold[q] = {}
    /\ \A p \in Proc : \A o \in hold[p] : Exists(o)

\* A code is inserted once, by the transaction that has its number.
Numbered ==
    /\ \A o \in OtpId : o > begun => row[o] = "free"
    /\ \A p \in Starter : pc[p] # "idle" =>
         mine[p] \in 1 .. begun /\ row[mine[p]] = "free"
    /\ \A p, q \in Starter : p # q /\ pc[p] # "idle" => mine[p] # mine[q]
    /\ \A o \in cleaning : row[o] # "free"

\* Nobody has been let in with a code that can still be used.
Unspent == \A o \in OtpId : row[o] \in {"free", "active"} => accepted[o] = 0

\* Once the account is gone nobody has its row.
NoOrphans == Deleting /\ ~account => holder = None

Base ==
    /\ DeletionTypeOK
    /\ Roles
    /\ Locks
    /\ Numbered
    /\ Unspent
    /\ NoOrphans

\* Requests for a code do not overlap.
OneAtATime == \A p, q \in Starter : pc[p] # "idle" /\ pc[q] # "idle" => p = q

\* Of the codes that have not been used there is one, expired or not.
OneActive == \A o1, o2 \in OtpId : row[o1] = "active" /\ row[o2] = "active" => o1 = o2

\* Once a request for a code has looked for the older ones, those that it has
\* not yet locked are still to come, and no further ones appear.
Covered ==
    \A p \in Starter :
        /\ pc[p] \in {"wait", "insert"} =>
             \A o \in OtpId : Exists(o) => o \in found[p] \cup hold[p]
        /\ pc[p] = "insert" => found[p] = {}

\* The attempts that were counted are those there are when the code is compared.
Counted ==
    /\ fails <= MaxOTPAttempts
    /\ \A p \in Verifier : pc[p] = "compare" => fails < MaxOTPAttempts

Strict == OneActive /\ Covered /\ Counted

USE DEF Proc, Deleting, Exists, Usable, Locked, Go

----------------------------------------------------------------------------
(* Every interleaving.                                                     *)

\* The newest of some codes is one of them.
LEMMA NewestOne ==
    ASSUME NEW S \in SUBSET OtpId, S # {}
    PROVE  Newest(S) \in S
<1> USE OtpAssumption DEF OtpId
<1> DEFINE T == {MaxOTPs - x : x \in S}
           R == OpToRel(<, Nat)
<1>0. \A x \in S : MaxOTPs - x \in Nat /\ x \in Int
  OBVIOUS
<1>1. T \subseteq Nat /\ T # {}
  BY <1>0
<1>2. \E m \in T : \A y \in T : ~ (<<y, m>> \in R)
  <2> HIDE DEF T, R
  <2> QED BY <1>1, NatLessThanWellFounded, WFMin DEF R
<1>3. PICK m \in T : \A y \in T : ~ (<<y, m>> \in R)
  BY <1>2
<1>4. ASSUME NEW y \in T PROVE m <= y
  <2>1. ~ (<<y, m>> \in R) /\ m \in Nat /\ y \in Nat
    BY <1>1, <1>3, <1>4
  <2> HIDE DEF T
  <2> QED BY <2>1 DEF OpToRel
<1>5. PICK o \in S : m = MaxOTPs - o
  OBVIOUS
<1>6. \A x \in S : x <= o
  <2>1. ASSUME NEW x \in S PROVE x <= o
    <3>1. m <= MaxOTPs - x
      BY <1>4
    <3> QED BY <1>0, <1>5, <3>1
  <2> QED BY <2>1
<1> QED BY <1>6 DEF Newest

\* A request for a code begins, with a number of its own.
LEMMA RequestKeeps ==
    ASSUME Base, NEW p \in Starter, Request(p)
    PROVE  Base'
<1> USE OtpAssumption, NobodyAssumption DEF Base, Request, Start
<1>1. /\ mine' = [mine EXCEPT ![p] = begun + 1] /\ begun' = begun + 1 /\ begun < MaxOTPs
      /\ pc[p] = "idle" /\ pc' = [pc EXCEPT ![p] = "delete"]
      /\ UNCHANGED <<row, cleaning>>
  OBVIOUS
<1>2. begun + 1 \in OtpId /\ begun \in Nat /\ row[begun + 1] = "free"
  BY DEF Numbered, DeletionTypeOK, TypeOK, OtpId
<1>3. TypeOK'
  BY DEF DeletionTypeOK, TypeOK, OtpId
<1>4. DeletionTypeOK'
  BY <1>3 DEF DeletionTypeOK, TypeOK, Roles, NoOrphans
<1>5. Roles'
  BY DEF Roles, DeletionTypeOK, TypeOK
<1>6. Locks'
  BY DEF Locks, DeletionTypeOK, TypeOK
<1>7. Numbered'
  <2>1. ASSUME NEW q \in Starter, pc'[q] # "idle"
        PROVE  /\ mine'[q] \in 1 .. begun + 1 /\ row[mine'[q]] = "free"
               /\ \A r \in Starter : q # r => mine'[q] # mine'[r]
    <3>1. mine[p] = None
      BY <1>1 DEF Roles
    <3>2. CASE q = p
      <4>1. mine'[q] = begun + 1
        BY <1>1, <3>2 DEF DeletionTypeOK, TypeOK
      <4>2. ASSUME NEW r \in Starter, r # p PROVE mine[r] # begun + 1
        <5>1. CASE pc[r] = "idle"
          BY <1>2, <5>1 DEF Roles, OtpId
        <5>2. CASE pc[r] # "idle"
          BY <1>2, <5>2 DEF Numbered
        <5> QED BY <5>1, <5>2
      <4> QED BY <1>1, <1>2, <3>2, <4>1, <4>2
    <3>3. CASE q # p
      <4>1. mine'[q] = mine[q] /\ pc[q] # "idle"
        BY <1>1, <2>1, <3>3 DEF DeletionTypeOK, TypeOK
      <4> QED BY <1>1, <1>2, <4>1 DEF Numbered, DeletionTypeOK, TypeOK
    <3> QED BY <3>2, <3>3
  <2>2. \A o \in OtpId : o > begun' => row'[o] = "free"
    BY <1>1, <1>2 DEF Numbered, OtpId
  <2> QED BY <1>1, <2>1, <2>2 DEF Numbered
<1>8. Unspent'
  BY DEF Unspent, DeletionTypeOK, TypeOK
<1>9. NoOrphans'
  BY DEF NoOrphans, DeletionTypeOK
<1> QED BY <1>4, <1>5, <1>6, <1>7, <1>8, <1>9

\* The DELETE looks for the older codes.
LEMMA FindOldKeeps ==
    ASSUME Base, NEW p \in Starter, FindOld(p), UNCHANGED <<purpose, account, holder>>
    PROVE  Base'
<1> USE OtpAssumption, NobodyAssumption DEF Base, FindOld, tableVars
<1>1. TypeOK'
  BY DEF DeletionTypeOK, TypeOK, OtpId
<1>2. DeletionTypeOK'
  BY <1>1 DEF DeletionTypeOK, TypeOK, Roles, NoOrphans
<1>3. Roles'
  BY DEF Roles, DeletionTypeOK, TypeOK
<1>4. Locks'
  BY DEF Locks, DeletionTypeOK, TypeOK
<1>5. Numbered'
  BY DEF Numbered, DeletionTypeOK, TypeOK, OtpId
<1>6. Unspent'
  BY DEF Unspent, DeletionTypeOK, TypeOK
<1>7. NoOrphans'
  BY DEF NoOrphans, DeletionTypeOK
<1> QED BY <1>2, <1>3, <1>4, <1>5, <1>6, <1>7

\* The DELETE locks one of them, or passes over one that has gone.
LEMMA LockOldKeeps ==
    ASSUME Base, NEW p \in Starter, LockOld(p), UNCHANGED <<purpose, account, holder>>
    PROVE  Base'
<1> USE OtpAssumption, NobodyAssumption DEF Base, LockOld, tableVars
<1>1. TypeOK'
  BY DEF DeletionTypeOK, TypeOK, OtpId
<1>2. DeletionTypeOK'
  BY <1>1 DEF DeletionTypeOK, TypeOK, Roles, NoOrphans
<1>3. Roles'
  BY DEF Roles, DeletionTypeOK, TypeOK
<1>4. Locks'
  BY DEF Locks, DeletionTypeOK, TypeOK
<1>5. Numbered'
  BY DEF Numbered, DeletionTypeOK, TypeOK, OtpId
<1>6. Unspent'
  BY DEF Unspent, DeletionTypeOK, TypeOK
<1>7. NoOrphans'
  BY DEF NoOrphans, DeletionTypeOK
<1> QED BY <1>2, <1>3, <1>4, <1>5, <1>6, <1>7

\* The code is inserted, and the locked ones are deleted.
LEMMA InsertKeeps ==
    ASSUME Base, NEW p \in Starter, InsertChecked(p)
    PROVE  Base'
<1> USE OtpAssumption, NobodyAssumption DEF Base, InsertChecked, InsertOTP, End
<1>1. mine[p] \in OtpId /\ row[mine[p]] = "free" /\ pc[p] = "insert"
  BY DEF Numbered, DeletionTypeOK, TypeOK, OtpId
<1>2. \A o \in OtpId : row'[o] = IF o = mine[p] THEN "active"
                                 ELSE IF o \in hold[p] THEN "gone" ELSE row[o]
  OBVIOUS
<1>3. TypeOK'
  <2>1. row' \in [OtpId -> {"free", "active", "used", "gone"}] /\ cleaning' \subseteq OtpId
    BY <1>1, <1>2 DEF DeletionTypeOK, TypeOK
  <2>2. \A q \in Verifier : pc'[q] \in {"count", "compare", "confirm"} =>
          hold'[q] = {mine'[q]} /\ row'[mine'[q]] = "active"
    <3>1. SUFFICES ASSUME NEW q \in Verifier, pc'[q] \in {"count", "compare", "confirm"}
                   PROVE  hold'[q] = {mine'[q]} /\ row'[mine'[q]] = "active"
      OBVIOUS
    <3>2. q # p /\ pc'[q] = pc[q] /\ hold'[q] = hold[q] /\ mine'[q] = mine[q]
      BY DEF DeletionTypeOK, TypeOK
    <3>3. hold[q] = {mine[q]} /\ row[mine[q]] = "active" /\ mine[q] \in OtpId
      BY <3>1, <3>2 DEF DeletionTypeOK, TypeOK
    <3>4. mine[q] \notin hold[p]
      BY <3>2, <3>3 DEF Locks
    <3> QED BY <1>1, <1>2, <3>2, <3>3, <3>4
  <2> QED BY <2>1, <2>2 DEF DeletionTypeOK, TypeOK
<1>4. DeletionTypeOK'
  BY <1>3, <1>1 DEF DeletionTypeOK, TypeOK, Roles, NoOrphans
<1>5. Roles'
  BY DEF Roles, DeletionTypeOK, TypeOK
<1>6. Locks'
  <2>1. \A q \in Proc : hold'[q] = IF q = p THEN {} ELSE hold[q]
    BY DEF DeletionTypeOK, TypeOK
  <2>2. \A q \in Proc : \A o \in hold'[q] : Exists(o)'
    BY <1>1, <1>2, <2>1 DEF Locks, DeletionTypeOK, TypeOK
  <2> QED BY <2>1, <2>2 DEF Locks
<1>7. Numbered'
  <2>1. \A q \in Starter : pc'[q] # "idle" => q # p /\ mine'[q] = mine[q] /\ pc[q] # "idle"
    BY DEF DeletionTypeOK, TypeOK
  <2>2. ASSUME NEW q \in Starter, pc'[q] # "idle"
        PROVE  mine'[q] \in 1 .. begun /\ row'[mine'[q]] = "free"
    <3>1. mine[q] \in 1 .. begun /\ row[mine[q]] = "free" /\ mine[q] # mine[p]
      BY <1>1, <2>1, <2>2 DEF Numbered
    <3>2. mine[q] \in OtpId /\ mine[q] \notin hold[p]
      BY <3>1 DEF Locks, DeletionTypeOK, TypeOK, OtpId
    <3> QED BY <1>2, <2>1, <2>2, <3>1, <3>2
  <2>3. \A q, r \in Starter : q # r /\ pc'[q] # "idle" => mine'[q] # mine'[r]
    <3>1. \A q, r \in Starter : q # r /\ pc[q] # "idle" => mine[q] # mine[r]
      BY DEF Numbered
    <3>2. \A q \in Starter : pc'[q] # "idle" => mine'[q] # None
      BY <2>1 DEF Numbered, DeletionTypeOK, TypeOK, OtpId
    <3>3. \A r \in Starter : mine'[r] = mine[r] \/ mine'[r] = None
      BY DEF DeletionTypeOK, TypeOK
    <3> QED BY <2>1, <3>1, <3>2, <3>3
  <2>4. \A o \in OtpId : o > begun => row'[o] = "free"
    <3>1. ~ (mine[p] > begun)
      BY <1>1 DEF Numbered, DeletionTypeOK, TypeOK
    <3>2. \A o \in hold[p] : row[o] # "free"
      BY DEF Locks
    <3> QED BY <1>2, <3>1, <3>2 DEF Numbered
  <2>5. \A o \in cleaning' : row'[o] # "free"
    BY <1>1, <1>2 DEF Numbered, DeletionTypeOK, TypeOK
  <2> QED BY <2>2, <2>3, <2>4, <2>5 DEF Numbered
<1>8. Unspent'
  BY <1>1, <1>2 DEF Unspent
<1>9. NoOrphans'
  BY DEF NoOrphans, DeletionTypeOK
<1> QED BY <1>4, <1>5, <1>6, <1>7, <1>8, <1>9

\* A transaction ends without a change: a ROLLBACK, or an answer of 401 or 429.
LEMMA AbortKeeps ==
    ASSUME Base, NEW p \in Proc, End(p), UNCHANGED <<tableVars, accepted, purpose, account>>,
           holder' = IF holder = p THEN None ELSE holder
    PROVE  Base'
<1> USE OtpAssumption, NobodyAssumption DEF Base, End, tableVars
<1>1. TypeOK'
  BY DEF DeletionTypeOK, TypeOK, OtpId
<1>2. DeletionTypeOK'
  BY <1>1 DEF DeletionTypeOK, TypeOK, Roles, NoOrphans
<1>3. Roles'
  BY DEF Roles, DeletionTypeOK, TypeOK
<1>4. Locks'
  <2>1. \A q \in Proc : hold'[q] = IF q = p THEN {} ELSE hold[q]
    BY DEF DeletionTypeOK, TypeOK
  <2> QED BY <2>1 DEF Locks
<1>5. Numbered'
  BY DEF Numbered, DeletionTypeOK, TypeOK, OtpId
<1>6. Unspent'
  BY DEF Unspent, DeletionTypeOK, TypeOK
<1>7. NoOrphans'
  BY DEF NoOrphans, DeletionTypeOK
<1> QED BY <1>2, <1>3, <1>4, <1>5, <1>6, <1>7

\* A verification goes on: p is at to, with the code m, the rows F still to look
\* at and the locks H, and no table changes.
Moves(p, to, m, F, H) ==
    /\ UNCHANGED <<tableVars, accepted, purpose, account>>
    /\ to \in {"verify", "lock", "count", "compare", "confirm"}
    /\ m \in OtpId \cup {None} /\ F \in SUBSET OtpId /\ H \in SUBSET OtpId
    /\ pc' = [pc EXCEPT ![p] = to]
    /\ mine' = [mine EXCEPT ![p] = m]
    /\ found' = [found EXCEPT ![p] = F]
    /\ hold' = [hold EXCEPT ![p] = H]
    /\ to = "lock" => F # {}
    /\ \A o \in H : Exists(o) /\ ~ Locked(o, p)
    /\ to \in {"count", "compare", "confirm"} => H = {m} /\ row[m] = "active"
    /\ Deleting => account /\ holder' = p /\ holder \in {p, None}
    /\ ~ Deleting => holder' = holder

LEMMA VerifierMoves ==
    ASSUME Base, NEW p \in Verifier, NEW to, NEW m, NEW F, NEW H, Moves(p, to, m, F, H)
    PROVE  Base'
<1> USE OtpAssumption, NobodyAssumption DEF Base, Moves, tableVars
<1>1. /\ \A q \in Proc : pc'[q] = IF q = p THEN to ELSE pc[q]
      /\ \A q \in Proc : mine'[q] = IF q = p THEN m ELSE mine[q]
      /\ \A q \in Proc : found'[q] = IF q = p THEN F ELSE found[q]
      /\ \A q \in Proc : hold'[q] = IF q = p THEN H ELSE hold[q]
      /\ p \notin Starter
  BY DEF DeletionTypeOK, TypeOK
<1>2. TypeOK'
  BY <1>1 DEF DeletionTypeOK, TypeOK, OtpId
<1>3. DeletionTypeOK'
  BY <1>2, <1>1 DEF DeletionTypeOK, TypeOK, Roles, NoOrphans
<1>4. Roles'
  BY <1>1 DEF Roles, DeletionTypeOK, TypeOK
<1>5. Locks'
  BY <1>1 DEF Locks, DeletionTypeOK, TypeOK
<1>6. Numbered'
  BY <1>1 DEF Numbered, DeletionTypeOK, TypeOK, OtpId
<1>7. Unspent'
  BY DEF Unspent, DeletionTypeOK, TypeOK
<1>8. NoOrphans'
  BY DEF NoOrphans, DeletionTypeOK
<1> QED BY <1>3, <1>4, <1>5, <1>6, <1>7, <1>8

\* The steps of a verification before it is decided.
LEMMA VerifyKeeps ==
    ASSUME Base, NEW p \in Verifier,
           \/ LockAccount(p) \/ VerifySignIn(p)
           \/ /\ FindActive(p) \/ LockActive(p) \/ CountAttempts(p) \/ RightCode(p)
              /\ pc'[p] # "idle"
              /\ UNCHANGED <<purpose, account, holder>>
    PROVE  Base'
<1>0. /\ mine = [mine EXCEPT ![p] = mine[p]] /\ mine[p] \in OtpId \cup {None}
      /\ found = [found EXCEPT ![p] = found[p]] /\ found[p] \in SUBSET OtpId
      /\ hold = [hold EXCEPT ![p] = hold[p]] /\ hold[p] \in SUBSET OtpId
      /\ pc = [pc EXCEPT ![p] = pc[p]]
      /\ \A o \in hold[p] : Exists(o) /\ ~ Locked(o, p)
  BY DEF Base, DeletionTypeOK, TypeOK, Locks
<1>1. pc[p] # "idle" /\ Deleting => account /\ holder = p
  BY NobodyAssumption DEF Base, DeletionTypeOK, NoOrphans
<1>e. End(p) => pc'[p] = "idle"
  BY DEF End, Base, DeletionTypeOK, TypeOK
<1>2. CASE LockAccount(p) \/ VerifySignIn(p)
  <2>1. Moves(p, "verify", mine[p], found[p], hold[p])
    BY <1>0, <1>2 DEF Moves, LockAccount, VerifySignIn, Verify, Base, DeletionTypeOK
  <2> QED BY <2>1, VerifierMoves
<1>3. CASE FindActive(p) /\ pc'[p] # "idle" /\ UNCHANGED <<purpose, account, holder>>
  <2> DEFINE F == {o \in OtpId : Usable(o)}
  <2>1. /\ pc[p] = "verify" /\ pc' = [pc EXCEPT ![p] = "lock"]
        /\ UNCHANGED <<tableVars, accepted, mine, hold>>
        /\ found' = [found EXCEPT ![p] = F] /\ F # {} /\ F \in SUBSET OtpId
    BY <1>e, <1>3 DEF FindActive
  <2>2. Moves(p, "lock", mine[p], F, hold[p])
    BY <1>0, <1>1, <1>3, <2>1 DEF Moves
  <2> QED BY <2>2, VerifierMoves
<1>4. CASE LockActive(p) /\ pc'[p] # "idle" /\ UNCHANGED <<purpose, account, holder>>
  <2> DEFINE o == Newest(found[p])
  <2>1. o \in found[p] /\ o \in OtpId
    BY <1>0, <1>4, NewestOne DEF LockActive, Base, Roles
  <2>2. /\ pc[p] = "lock" /\ ~ Locked(o, p) /\ UNCHANGED <<tableVars, accepted>>
        /\ \/ /\ row[o] = "active"
              /\ mine' = [mine EXCEPT ![p] = o] /\ hold' = [hold EXCEPT ![p] = {o}]
              /\ found' = [found EXCEPT ![p] = {}] /\ pc' = [pc EXCEPT ![p] = "count"]
           \/ /\ found[p] # {o} /\ found' = [found EXCEPT ![p] = found[p] \ {o}]
              /\ UNCHANGED <<pc, mine, hold>>
    BY <1>e, <1>4 DEF LockActive
  <2> HIDE DEF o
  <2>3. CASE UNCHANGED pc
    <3>1. found[p] # {o} /\ found' = [found EXCEPT ![p] = found[p] \ {o}] /\ UNCHANGED <<mine, hold>>
      BY <1>0, <2>2, <2>3 DEF Base, DeletionTypeOK, TypeOK
    <3>2. Moves(p, "lock", mine[p], found[p] \ {o}, hold[p])
      BY <1>0, <1>1, <1>4, <2>1, <2>2, <2>3, <3>1 DEF Moves
    <3> QED BY <3>2, VerifierMoves
  <2>4. CASE ~ UNCHANGED pc
    <3>1. Moves(p, "count", o, {}, {o})
      BY <1>0, <1>1, <1>4, <2>1, <2>2, <2>4 DEF Moves
    <3> QED BY <3>1, VerifierMoves
  <2> QED BY <2>3, <2>4
<1>5. CASE /\ CountAttempts(p) \/ RightCode(p)
           /\ pc'[p] # "idle" /\ UNCHANGED <<purpose, account, holder>>
  <2>1. PICK to \in {"compare", "confirm"} :
          /\ pc[p] \in {"count", "compare"} /\ pc' = [pc EXCEPT ![p] = to]
          /\ UNCHANGED <<tableVars, accepted, mine, found, hold>>
    BY <1>e, <1>5 DEF CountAttempts, RightCode
  <2>2. hold[p] = {mine[p]} /\ row[mine[p]] = "active"
    BY <2>1 DEF Base, DeletionTypeOK, TypeOK
  <2>3. Moves(p, to, mine[p], found[p], hold[p])
    BY <1>0, <1>1, <1>5, <2>1, <2>2 DEF Moves
  <2> QED BY <2>3, VerifierMoves
<1> QED BY <1>2, <1>3, <1>4, <1>5

\* The code is wrong.
LEMMA WrongKeeps ==
    ASSUME Base, NEW p \in Verifier, WrongCode(p), ReleaseAtEnd(p)
    PROVE  Base'
<1> USE OtpAssumption, NobodyAssumption DEF Base, WrongCode, End, ReleaseAtEnd
<1>1. TypeOK'
  BY DEF DeletionTypeOK, TypeOK, OtpId
<1>2. DeletionTypeOK'
  BY <1>1 DEF DeletionTypeOK, TypeOK, Roles, NoOrphans
<1>3. Roles'
  BY DEF Roles, DeletionTypeOK, TypeOK
<1>4. Locks'
  BY DEF Locks, DeletionTypeOK, TypeOK
<1>5. Numbered'
  BY DEF Numbered, DeletionTypeOK, TypeOK, OtpId
<1>6. Unspent'
  BY DEF Unspent, DeletionTypeOK, TypeOK
<1>7. NoOrphans'
  BY DEF NoOrphans, DeletionTypeOK
<1> QED BY <1>2, <1>3, <1>4, <1>5, <1>6, <1>7

\* A code that is used, and its user let in; the account goes with it or not.
LEMMA DecidedKeeps ==
    ASSUME Base, NEW p \in Verifier, (~Deleting /\ Complete(p) /\ ReleaseAtEnd(p)) \/ DeleteUser(p)
    PROVE  Base'
<1> USE OtpAssumption, NobodyAssumption DEF Base
<1>1. pc[p] = "confirm" /\ hold[p] = {mine[p]} /\ row[mine[p]] = "active" /\ mine[p] \in OtpId
  BY DEF Complete, DeleteUser, DeletionTypeOK, TypeOK
<1>2. /\ \A q \in Proc : /\ pc'[q] = IF q = p THEN "idle" ELSE pc[q]
                         /\ mine'[q] = IF q = p THEN None ELSE mine[q]
                         /\ found'[q] = IF q = p THEN {} ELSE found[q]
                         /\ hold'[q] = IF q = p THEN {} ELSE hold[q]
      /\ accepted' = [accepted EXCEPT ![mine[p]] = IF @ = 2 THEN 2 ELSE @ + 1]
      /\ UNCHANGED <<begun, expired, cleaning, purpose>>
      /\ holder' = IF holder = p THEN None ELSE holder
  <2>1. End(p) /\ LetIn(p) /\ UNCHANGED <<begun, expired, cleaning, purpose>>
    BY DEF Complete, DeleteUser, ReleaseAtEnd
  <2>2. /\ \A q \in Proc : /\ pc'[q] = IF q = p THEN "idle" ELSE pc[q]
                           /\ mine'[q] = IF q = p THEN None ELSE mine[q]
                           /\ found'[q] = IF q = p THEN {} ELSE found[q]
                           /\ hold'[q] = IF q = p THEN {} ELSE hold[q]
    BY <2>1 DEF End, DeletionTypeOK, TypeOK
  <2>3. holder' = IF holder = p THEN None ELSE holder
    <3>1. Deleting => holder = p
      BY <1>1 DEF DeletionTypeOK
    <3> QED BY <2>2, <3>1 DEF DeleteUser, ReleaseAtEnd
  <2> QED BY <2>1, <2>2, <2>3 DEF LetIn
<1>3. \/ /\ ~Deleting /\ UNCHANGED <<account, fails>>
         /\ \A o \in OtpId : row'[o] = IF o = mine[p] THEN "used" ELSE row[o]
      \/ /\ Deleting /\ fails' = 0 /\ account' = FALSE /\ holder' = None
         /\ \A o \in OtpId : row'[o] = IF Exists(o) THEN "gone" ELSE row[o]
         /\ \A q \in Proc \ {p} : hold[q] = {}
  <2>1. CASE DeleteUser(p)
    <3>1. \A q \in Proc \ {p} : hold[q] = {}
      BY <2>1 DEF DeleteUser, Locks, DeletionTypeOK, TypeOK
    <3> QED BY <2>1, <3>1 DEF DeleteUser
  <2>2. CASE ~Deleting /\ Complete(p) /\ ReleaseAtEnd(p)
    BY <2>2 DEF Complete, ReleaseAtEnd, DeletionTypeOK, TypeOK
  <2> QED BY <2>1, <2>2
<1>4. \A o \in OtpId :
        /\ row'[o] = row[o] \/ (row[o] # "free" /\ row'[o] \in {"used", "gone"})
        /\ row'[mine[p]] \in {"used", "gone"}
        /\ \A q \in Proc \ {p} : o \in hold[q] => row'[o] = row[o]
  BY <1>1, <1>3 DEF Locks
<1>5. TypeOK'
  <2>1. row' \in [OtpId -> {"free", "active", "used", "gone"}]
    <3>1. row' = [o \in OtpId |-> row'[o]]
      BY DEF Complete, DeleteUser, DeletionTypeOK, TypeOK
    <3>2. \A o \in OtpId : row'[o] \in {"free", "active", "used", "gone"}
      BY <1>4 DEF DeletionTypeOK, TypeOK
    <3> QED BY <3>1, <3>2
  <2>2. accepted' \in [OtpId -> 0 .. 2]
    <3>1. accepted' = [accepted EXCEPT ![mine[p]] =
                         IF accepted[mine[p]] = 2 THEN 2 ELSE accepted[mine[p]] + 1]
      BY <1>2
    <3>2. accepted \in [OtpId -> 0 .. 2]
      BY DEF DeletionTypeOK, TypeOK
    <3> QED BY <1>1, <3>1, <3>2
  <2>3. /\ pc' \in [Proc -> {"idle", "delete", "wait", "insert",
                             "verify", "lock", "count", "compare", "confirm"}]
        /\ mine' \in [Proc -> OtpId \cup {None}]
        /\ found' \in [Proc -> SUBSET OtpId] /\ hold' \in [Proc -> SUBSET OtpId]
    BY DEF Complete, DeleteUser, End, DeletionTypeOK, TypeOK
  <2>4. \A q \in Verifier : pc'[q] \in {"count", "compare", "confirm"} =>
          hold'[q] = {mine'[q]} /\ row'[mine'[q]] = "active"
    BY <1>2, <1>4 DEF DeletionTypeOK, TypeOK
  <2>5. fails' \in Nat
    BY <1>3 DEF DeletionTypeOK, TypeOK
  <2> QED BY <1>2, <2>1, <2>2, <2>3, <2>4, <2>5 DEF DeletionTypeOK, TypeOK
<1>6. DeletionTypeOK'
  <2>1. (Deleting /\ ~account => fails = 0 /\ \A o \in OtpId : ~Exists(o))'
    BY <1>2, <1>3 DEF DeletionTypeOK
  <2>2. \A q \in Verifier : (Deleting' /\ pc'[q] # "idle") <=> holder' = q
    BY <1>2, <1>3, <1>1 DEF DeletionTypeOK
  <2>3. account' \in BOOLEAN /\ holder' \in Verifier \cup {None}
    BY <1>2, <1>3 DEF DeletionTypeOK
  <2> QED BY <1>2, <1>5, <2>1, <2>2, <2>3 DEF DeletionTypeOK
<1>7. Roles'
  BY <1>2 DEF Roles
<1>8. Locks'
  <2>1. \A q \in Proc : \A o \in hold'[q] : Exists(o)'
    BY <1>2, <1>4 DEF Locks, DeletionTypeOK, TypeOK
  <2> QED BY <1>2, <2>1 DEF Locks
<1>9. Numbered'
  <2>1. \A q \in Starter : q # p
    OBVIOUS
  <2> QED BY <1>2, <1>4, <2>1 DEF Numbered, DeletionTypeOK, TypeOK, OtpId
<1>10. Unspent'
  BY <1>2, <1>4 DEF Unspent, DeletionTypeOK, TypeOK
<1>11. NoOrphans'
  BY <1>2, <1>3 DEF NoOrphans
<1> QED BY <1>6, <1>7, <1>8, <1>9, <1>10, <1>11

\* Time passes, and the jobs that delete codes nobody has locked.
LEMMA TimeKeeps ==
    ASSUME Base, UNCHANGED <<purpose, account, holder>>,
           \/ \E o \in OtpId : CleanupFailedOTP(o) \/ Expire(o) \/ CleanupOTP(o)
           \/ AttemptAges
    PROVE  Base'
<1> USE OtpAssumption, NobodyAssumption DEF Base
<1>1. /\ UNCHANGED <<begun, pc, mine, found, hold, accepted>>
      /\ expired' \subseteq OtpId /\ cleaning' \subseteq cleaning
      /\ fails' \in Nat /\ fails' <= fails
      /\ row' \in [OtpId -> {"free", "active", "used", "gone"}]
      /\ \A o \in OtpId : \/ row'[o] = row[o]
                          \/ /\ row[o] # "free" /\ row'[o] = "gone"
                             /\ \A q \in Proc : o \notin hold[q]
  <2>1. ASSUME NEW o \in OtpId, CleanupFailedOTP(o) \/ CleanupOTP(o)
        PROVE  /\ UNCHANGED <<begun, expired, fails, pc, mine, found, hold, accepted>>
               /\ cleaning' \subseteq cleaning
               /\ row' = [row EXCEPT ![o] = "gone"] /\ row[o] # "free"
               /\ \A q \in Proc : o \notin hold[q]
    BY <2>1 DEF CleanupFailedOTP, CleanupOTP, Numbered
  <2>2. ASSUME NEW o \in OtpId, Expire(o)
        PROVE  /\ UNCHANGED <<row, begun, fails, cleaning, pc, mine, found, hold, accepted>>
               /\ expired' \subseteq OtpId
    BY <2>2 DEF Expire, DeletionTypeOK, TypeOK
  <2>3. ASSUME AttemptAges
        PROVE  /\ UNCHANGED <<row, begun, expired, cleaning, pc, mine, found, hold, accepted>>
               /\ fails' \in Nat /\ fails' <= fails
    BY <2>3 DEF AttemptAges, DeletionTypeOK, TypeOK
  <2> QED BY <2>1, <2>2, <2>3 DEF DeletionTypeOK, TypeOK
<1>2. TypeOK'
  <2>1. \A q \in Verifier : pc[q] \in {"count", "compare", "confirm"} => row'[mine[q]] = "active"
    <3>1. SUFFICES ASSUME NEW q \in Verifier, pc[q] \in {"count", "compare", "confirm"}
                   PROVE  row'[mine[q]] = "active"
      OBVIOUS
    <3>2. mine[q] \in hold[q] /\ mine[q] \in OtpId /\ row[mine[q]] = "active"
      BY <3>1 DEF DeletionTypeOK, TypeOK
    <3> QED BY <1>1, <3>2
  <2> QED BY <1>1, <2>1 DEF DeletionTypeOK, TypeOK
<1>3. DeletionTypeOK'
  <2>1. (Deleting /\ ~account => fails = 0 /\ \A o \in OtpId : ~Exists(o))'
    BY <1>1 DEF DeletionTypeOK
  <2> QED BY <1>1, <1>2, <2>1 DEF DeletionTypeOK
<1>4. Roles'
  BY <1>1 DEF Roles
<1>5. Locks'
  BY <1>1 DEF Locks, DeletionTypeOK, TypeOK
<1>6. Numbered'
  BY <1>1 DEF Numbered, DeletionTypeOK, TypeOK, OtpId
<1>7. Unspent'
  BY <1>1 DEF Unspent
<1>8. NoOrphans'
  BY DEF NoOrphans
<1> QED BY <1>3, <1>4, <1>5, <1>6, <1>7, <1>8

\* What a verification or a request for a code does next.
LEMMA WorkKeeps ==
    ASSUME Base, NEW p \in Proc, Work(p) \/ Rollback(p)
    PROVE  Base'
<1>1. ASSUME End(p), UNCHANGED <<tableVars, accepted>>, ReleaseAtEnd(p) PROVE Base'
  <2>1. pc'[p] = "idle"
    BY <1>1 DEF End, Base, DeletionTypeOK, TypeOK
  <2> QED BY <1>1, <2>1, AbortKeeps DEF ReleaseAtEnd
<1>2. CASE Rollback(p) \/ BreakDeadlock(p)
  BY <1>1, <1>2 DEF Rollback, Fail, BreakDeadlock
<1>3. CASE p \in Starter /\ InsertFails(p)
  <2>1. holder # p
    BY <1>3, OtpAssumption, NobodyAssumption DEF Base, DeletionTypeOK
  <2> QED BY <1>3, <2>1, AbortKeeps DEF InsertFails
<1>4. CASE /\ p \in Starter
           /\ \/ (FindOld(p) \/ LockOld(p)) /\ UNCHANGED <<purpose, account, holder>>
              \/ InsertChecked(p)
  BY <1>4, FindOldKeeps, LockOldKeeps, InsertKeeps
<1>5. CASE p \in Verifier /\ (Check(p) \/ DeleteUser(p))
  <2>1. CASE DeleteUser(p) \/ (~Deleting /\ Complete(p) /\ ReleaseAtEnd(p))
    BY <1>5, <2>1, DecidedKeeps
  <2>2. CASE WrongCode(p) /\ ReleaseAtEnd(p)
    BY <1>5, <2>2, WrongKeeps
  <2>3. CASE /\ FindActive(p) \/ LockActive(p) \/ CountAttempts(p) \/ RightCode(p)
             /\ ReleaseAtEnd(p)
    <3>1. CASE pc'[p] # "idle"
      BY <1>5, <2>3, <3>1, VerifyKeeps DEF ReleaseAtEnd
    <3>2. CASE pc'[p] = "idle"
      <4>1. End(p) /\ UNCHANGED <<tableVars, accepted>>
        BY <2>3, <3>2 DEF FindActive, LockActive, CountAttempts, RightCode, Base, DeletionTypeOK, TypeOK
      <4> QED BY <1>1, <2>3, <4>1
    <3> QED BY <3>1, <3>2
  <2> QED BY <1>5, <2>1, <2>2, <2>3 DEF Check
<1> QED BY <1>2, <1>3, <1>4, <1>5 DEF Work

LEMMA BaseKept == Base /\ [DeletionNext]_deletionVars => Base'
<1> SUFFICES ASSUME Base, [DeletionNext]_deletionVars PROVE Base'
  OBVIOUS
<1>1. CASE Unauthorized \/ UNCHANGED deletionVars
  <2>1. /\ UNCHANGED <<row, begun, expired, fails, cleaning, pc, mine, found, hold, accepted>>
        /\ UNCHANGED <<purpose, account, holder>>
    BY <1>1 DEF Unauthorized, deletionVars, vars, tableVars
  <2> QED BY <2>1 DEF Base, DeletionTypeOK, TypeOK, Roles, Locks, Numbered, Unspent, NoOrphans
<1> QED BY <1>1, RequestKeeps, VerifyKeeps, WorkKeeps, TimeKeeps DEF DeletionNext

LEMMA BaseInit == DeletionInit => Base
<1> SUFFICES ASSUME DeletionInit PROVE Base
  OBVIOUS
<1>1. DeletionTypeOK
  BY OtpAssumption, NobodyAssumption DEF DeletionInit, Init, DeletionTypeOK, TypeOK
<1>2. Roles /\ Locks /\ Numbered /\ Unspent /\ NoOrphans
  BY OtpAssumption DEF DeletionInit, Init, Roles, Locks, Numbered, Unspent, NoOrphans, OtpId
<1> QED BY <1>1, <1>2 DEF Base

\* What the lock does: the code that a handler compares with is still the one it
\* found, and only that handler can use it.
THEOREM DeletionTypeCorrect == DeletionSpec => []DeletionTypeOK
<1>1. Base => DeletionTypeOK
  BY DEF Base
<1> QED BY <1>1, BaseInit, BaseKept, PTL DEF DeletionSpec

\* A code lets one request in, whatever the number of them that present it at
\* once (MarkOTPUsed under GetActiveOTPForUpdate's lock).
THEOREM CodeSpentOnce == DeletionSpec => AcceptedOnce
<1> DEFINE Once == \A o \in OtpId : accepted'[o] # accepted[o] => accepted[o] = 0 /\ row[o] = "active"
<1>1. Base /\ [DeletionNext]_deletionVars => [Once]_vars
  <2> SUFFICES ASSUME Base, [DeletionNext]_deletionVars,
                      NEW o \in OtpId, accepted'[o] # accepted[o]
               PROVE  accepted[o] = 0 /\ row[o] = "active"
    OBVIOUS
  <2>1. PICK p \in Verifier : Complete(p) \/ DeleteUser(p)
    BY DEF DeletionNext, Request, Start, LockAccount, VerifySignIn, Verify, Work, FindOld, LockOld,
       InsertChecked, InsertOTP, InsertFails, Check, FindActive, LockActive, CountAttempts,
       WrongCode, RightCode, BreakDeadlock, Rollback, Fail, Unauthorized, CleanupFailedOTP,
       Expire, CleanupOTP, AttemptAges, deletionVars, vars
  <2>2. LetIn(p) /\ pc[p] = "confirm"
    BY <2>1 DEF Complete, DeleteUser
  <2>3. o = mine[p]
    BY <2>2 DEF LetIn, Base, DeletionTypeOK, TypeOK
  <2> QED BY <2>2, <2>3 DEF Base, DeletionTypeOK, TypeOK, Unspent
<1> QED BY <1>1, BaseInit, BaseKept, PTL DEF DeletionSpec, AcceptedOnce

\* A code is deleted because it has expired, because its mail failed, to make
\* room for a newer one or with its account, and for no other reason.
THEOREM NoCodeLost == DeletionSpec => DeletedOnlyWhenDue
<1> DEFINE Due == \A o \in OtpId :
             Exists(o) /\ row'[o] = "gone"
                => \/ o \in expired \cup cleaning
                   \/ \E p \in Starter : pc[p] = "insert" /\ o \in hold[p]
                   \/ account /\ ~account'
<1>1. Base /\ [DeletionNext]_deletionVars => [Due]_deletionVars
  <2> SUFFICES ASSUME Base, [DeletionNext]_deletionVars,
                      NEW o \in OtpId, Exists(o), row'[o] = "gone"
               PROVE  \/ o \in expired \cup cleaning
                      \/ \E p \in Starter : pc[p] = "insert" /\ o \in hold[p]
                      \/ account /\ ~account'
    OBVIOUS
  <2>1. \/ \E p \in Starter : InsertOTP(p)
        \/ \E p \in Verifier : Complete(p) \/ DeleteUser(p)
        \/ \E x \in OtpId : CleanupFailedOTP(x) \/ CleanupOTP(x)
    BY DEF DeletionNext, Request, Start, LockAccount, VerifySignIn, Verify, Work, FindOld, LockOld,
       InsertChecked, InsertFails, Check, FindActive, LockActive, CountAttempts,
       WrongCode, RightCode, BreakDeadlock, Rollback, Fail, Unauthorized,
       Expire, AttemptAges, deletionVars, vars, tableVars
  <2>2. ASSUME NEW p \in Starter, InsertOTP(p) PROVE pc[p] = "insert" /\ o \in hold[p]
    BY <2>2 DEF InsertOTP
  <2>3. ASSUME NEW p \in Verifier, Complete(p) PROVE FALSE
    BY <2>3 DEF Complete, Base, DeletionTypeOK, TypeOK
  <2>4. ASSUME NEW p \in Verifier, DeleteUser(p) PROVE account /\ ~account'
    BY <2>4, NobodyAssumption DEF DeleteUser, Base, DeletionTypeOK, NoOrphans
  <2>5. ASSUME NEW x \in OtpId, CleanupFailedOTP(x) \/ CleanupOTP(x)
        PROVE  o \in expired \cup cleaning
    BY <2>5 DEF CleanupFailedOTP, CleanupOTP, Base, DeletionTypeOK, TypeOK
  <2> QED BY <2>1, <2>2, <2>3, <2>4, <2>5
<1> QED BY <1>1, BaseInit, BaseKept, PTL DEF DeletionSpec, DeletedOnlyWhenDue

----------------------------------------------------------------------------
(* As long as requests for a code do not overlap.                          *)

\* Only an insertion makes a code usable.
LEMMA RowEffect ==
    ASSUME Base, [DeletionNext]_deletionVars, ~ \E p \in Starter : InsertOTP(p)
    PROVE  \A o \in OtpId : /\ Exists(o)' => Exists(o)
                            /\ row'[o] = "active" => row[o] = "active"
<1>1. \/ row' = row
      \/ \E p \in Verifier : Complete(p) \/ DeleteUser(p)
      \/ \E x \in OtpId : CleanupFailedOTP(x) \/ CleanupOTP(x)
  BY DEF DeletionNext, Request, Start, LockAccount, VerifySignIn, Verify, Work, FindOld, LockOld,
     InsertChecked, InsertFails, Check, FindActive, LockActive, CountAttempts,
     WrongCode, RightCode, BreakDeadlock, Rollback, Fail, Unauthorized,
     Expire, AttemptAges, deletionVars, vars, tableVars
<1>2. ASSUME NEW p \in Verifier, Complete(p)
      PROVE  row' = [row EXCEPT ![mine[p]] = "used"] /\ row[mine[p]] = "active"
  BY <1>2 DEF Complete, Base, DeletionTypeOK, TypeOK
<1>3. ASSUME NEW p \in Verifier, DeleteUser(p)
      PROVE  \A o \in OtpId : row'[o] = IF Exists(o) THEN "gone" ELSE row[o]
  BY <1>3 DEF DeleteUser
<1>4. ASSUME NEW x \in OtpId, CleanupFailedOTP(x) \/ CleanupOTP(x)
      PROVE  row' = [row EXCEPT ![x] = "gone"]
  BY <1>4 DEF CleanupFailedOTP, CleanupOTP
<1> QED BY <1>1, <1>2, <1>3, <1>4 DEF Base, DeletionTypeOK, TypeOK

\* Where a request for a code can get in one step.
LEMMA StarterEffect ==
    ASSUME Base, [DeletionNext]_deletionVars, NEW q \in Starter
    PROVE  \/ pc'[q] = pc[q] /\ found'[q] = found[q] /\ hold'[q] = hold[q]
           \/ pc'[q] \in {"idle", "delete"}
           \/ FindOld(q)
           \/ LockOld(q)
<1> USE OtpAssumption DEF Base, DeletionTypeOK, TypeOK
<1> DEFINE Goal == \/ pc'[q] = pc[q] /\ found'[q] = found[q] /\ hold'[q] = hold[q]
                  \/ pc'[q] \in {"idle", "delete"}
                  \/ FindOld(q)
                  \/ LockOld(q)
<1>1. ASSUME NEW p \in Proc, End(p) PROVE Goal
  <2>1. CASE p = q
    BY <1>1, <2>1 DEF End
  <2>2. CASE p # q
    BY <1>1, <2>2 DEF End
  <2> QED BY <2>1, <2>2
<1>2. ASSUME NEW p \in Starter, Request(p) \/ FindOld(p) \/ LockOld(p) PROVE Goal
  BY <1>2 DEF Request, Start, FindOld, LockOld
<1>3. ASSUME NEW p \in Verifier,
             \/ LockAccount(p) \/ VerifySignIn(p) \/ FindActive(p) \/ LockActive(p)
             \/ CountAttempts(p) \/ RightCode(p)
      PROVE  Goal
  <2>1. CASE End(p)
    BY <1>1, <2>1
  <2>2. CASE ~ End(p)
    BY <1>3, <2>2 DEF LockAccount, VerifySignIn, Verify, FindActive, LockActive, CountAttempts, RightCode
  <2> QED BY <2>1, <2>2
<1>4. ASSUME UNCHANGED <<pc, found, hold>> PROVE Goal
  BY <1>4
<1> HIDE DEF Goal, Base, DeletionTypeOK, TypeOK
<1>5. ASSUME NEW p \in Proc, Work(p) \/ Rollback(p) PROVE Goal
  BY <1>1, <1>2, <1>3, <1>5 DEF Work, Rollback, Fail, BreakDeadlock, InsertChecked, InsertOTP,
     InsertFails, Check, WrongCode, Complete, DeleteUser
<1>6. ASSUME Unauthorized \/ AttemptAges \/ UNCHANGED deletionVars PROVE Goal
  BY <1>4, <1>6 DEF Unauthorized, AttemptAges, deletionVars, vars
<1>7. ASSUME NEW o \in OtpId, CleanupFailedOTP(o) \/ Expire(o) \/ CleanupOTP(o) PROVE Goal
  BY <1>4, <1>7 DEF CleanupFailedOTP, Expire, CleanupOTP
<1>8. Goal
  BY <1>2, <1>3, <1>5, <1>6, <1>7 DEF DeletionNext
<1> QED BY <1>8 DEF Goal

\* A failed attempt is added by who has compared, and who comes to compare has
\* counted.
LEMMA VerifierEffect ==
    ASSUME Base, [DeletionNext]_deletionVars
    PROVE  /\ \/ fails' \in Nat /\ fails' <= fails
              \/ \E p \in Verifier : WrongCode(p)
           /\ \A q \in Verifier : pc'[q] = "compare" =>
                (pc[q] = "compare" \/ (fails < MaxOTPAttempts /\ fails' = fails))
<1> USE OtpAssumption DEF Base, DeletionTypeOK, TypeOK
<1>1. \/ fails' \in Nat /\ fails' <= fails
      \/ \E p \in Verifier : WrongCode(p)
  BY DEF DeletionNext, Request, Start, LockAccount, VerifySignIn, Verify, Work, FindOld, LockOld,
     InsertChecked, InsertOTP, InsertFails, Check, FindActive, LockActive, CountAttempts,
     RightCode, Complete, DeleteUser, BreakDeadlock, Rollback, Fail, Unauthorized,
     CleanupFailedOTP, Expire, CleanupOTP, AttemptAges, deletionVars, vars, tableVars
<1>2. ASSUME NEW q \in Verifier, pc'[q] = "compare", pc[q] # "compare"
      PROVE  fails < MaxOTPAttempts /\ fails' = fails
  <2>1. ASSUME NEW p \in Proc, End(p) PROVE FALSE
    BY <1>2, <2>1 DEF End
  <2>2. ASSUME NEW p \in Starter, Request(p) \/ FindOld(p) \/ LockOld(p) PROVE FALSE
    BY <1>2, <2>2 DEF Request, Start, FindOld, LockOld
  <2>3. ASSUME NEW p \in Verifier,
               \/ LockAccount(p) \/ VerifySignIn(p) \/ FindActive(p) \/ LockActive(p)
               \/ RightCode(p)
        PROVE  FALSE
    BY <1>2, <2>1, <2>3 DEF LockAccount, VerifySignIn, Verify, FindActive, LockActive, RightCode
  <2>4. ASSUME NEW p \in Verifier, CountAttempts(p)
        PROVE  fails < MaxOTPAttempts /\ fails' = fails
    BY <2>1, <2>4 DEF CountAttempts, tableVars
  <2>5. pc' # pc
    BY <1>2
  <2> HIDE DEF Base, DeletionTypeOK, TypeOK
  <2>6. ASSUME NEW p \in Proc, Work(p) \/ Rollback(p)
        PROVE  fails < MaxOTPAttempts /\ fails' = fails
    BY <2>1, <2>2, <2>3, <2>4, <2>6 DEF Work, Rollback, Fail, BreakDeadlock, InsertChecked,
       InsertOTP, InsertFails, Check, WrongCode, Complete, DeleteUser
  <2> QED BY <2>2, <2>3, <2>5, <2>6 DEF DeletionNext, Unauthorized, CleanupFailedOTP, Expire,
             CleanupOTP, AttemptAges, deletionVars, vars
<1> QED BY <1>1, <1>2

LEMMA StrictKept ==
    ASSUME Base, Strict, OneAtATime, [DeletionNext]_deletionVars
    PROVE  Strict'
<1> USE DEF Strict
<1>1. ASSUME NEW p \in Starter, InsertOTP(p)
      PROVE  \A o \in OtpId : row'[o] \in {"active", "used"} => o = mine[p]
  <2>1. \A o \in OtpId : Exists(o) => o \in hold[p]
    BY <1>1 DEF InsertOTP, Covered
  <2> QED BY <1>1, <2>1 DEF InsertOTP
<1>2. OneActive'
  <2>1. CASE \E p \in Starter : InsertOTP(p)
    BY <1>1, <2>1 DEF OneActive
  <2>2. CASE ~ \E p \in Starter : InsertOTP(p)
    BY <2>2, RowEffect DEF OneActive
  <2> QED BY <2>1, <2>2
<1>3. Covered'
  <2> SUFFICES ASSUME NEW q \in Starter, pc'[q] \in {"wait", "insert"}
               PROVE  /\ \A o \in OtpId : Exists(o)' => o \in found'[q] \cup hold'[q]
                      /\ pc'[q] = "insert" => found'[q] = {}
    BY DEF Covered
  <2>1. CASE FindOld(q)
    BY <2>1 DEF FindOld, tableVars, Base, DeletionTypeOK, TypeOK
  <2>2. CASE LockOld(q)
    BY <2>2 DEF LockOld, tableVars, Base, DeletionTypeOK, TypeOK, Covered
  <2>3. CASE pc'[q] = pc[q] /\ found'[q] = found[q] /\ hold'[q] = hold[q]
    <3>1. ASSUME NEW p \in Starter, InsertOTP(p) PROVE FALSE
      <4>1. pc[p] = "insert" /\ pc'[p] = "idle" /\ pc[q] # "idle"
        BY <2>3, <3>1 DEF InsertOTP, End, Base, DeletionTypeOK, TypeOK
      <4> QED BY <2>3, <4>1 DEF OneAtATime
    <3>2. \A o \in OtpId : Exists(o)' => Exists(o)
      BY <3>1, RowEffect
    <3> QED BY <2>3, <3>2 DEF Covered
  <2> QED BY <2>1, <2>2, <2>3, StarterEffect
<1>4. Counted'
  <2>1. CASE fails' \in Nat /\ fails' <= fails
    BY <2>1, VerifierEffect, OtpAssumption DEF Counted, Base, DeletionTypeOK, TypeOK
  <2>2. ASSUME NEW p \in Verifier, WrongCode(p) PROVE Counted'
    <3>1. fails' = fails + 1 /\ pc[p] = "compare" /\ pc'[p] = "idle" /\ fails \in Nat
      BY <2>2 DEF WrongCode, End, Base, DeletionTypeOK, TypeOK
    <3>2. ASSUME NEW q \in Verifier, pc'[q] = "compare" PROVE FALSE
      <4>1. q # p /\ pc[q] = "compare"
        BY <2>2, <3>1, <3>2 DEF WrongCode, End, Base, DeletionTypeOK, TypeOK
      <4>2. /\ hold[p] = {mine[p]} /\ row[mine[p]] = "active"
            /\ hold[q] = {mine[q]} /\ row[mine[q]] = "active"
        BY <3>1, <4>1 DEF Base, DeletionTypeOK, TypeOK
      <4>3. mine[p] = mine[q]
        BY <4>2 DEF OneActive, Base, DeletionTypeOK, TypeOK
      <4> QED BY <4>1, <4>2, <4>3 DEF Base, Locks
    <3> QED BY <3>1, <3>2, OtpAssumption DEF Counted
  <2> QED BY <2>1, <2>2, VerifierEffect
<1> QED BY <1>2, <1>3, <1>4

LEMMA StrictInit == DeletionInit => Strict
BY OtpAssumption DEF DeletionInit, Init, Strict, OneActive, Covered, Counted

\* Under OneAtATime, Strict holds of every state (createChallenge and
\* verifyChallenge; OneAtATime is about the requests that the clients make).
THEOREM StrictInvariant == DeletionSpec /\ []OneAtATime => []Strict
<1>1. Base /\ Strict /\ OneAtATime /\ [DeletionNext]_deletionVars => Strict'
  BY StrictKept
<1> QED BY <1>1, BaseInit, BaseKept, StrictInit, PTL DEF DeletionSpec

\* As long as requests for a code do not overlap, one code at most can be used:
\* a request that has deleted the older ones is the only one to insert.
THEOREM OneUsableCode == DeletionSpec /\ []OneAtATime => []OneActiveOTP
<1>1. Strict => OneActiveOTP
  BY DEF Strict, OneActive, OneActiveOTP
<1> QED BY <1>1, StrictInvariant, PTL

\* And no more wrong codes are taken than allowed, however many verifications
\* run at once: they count and compare under the lock of the only active code.
THEOREM WrongCodesBounded == DeletionSpec /\ []OneAtATime => []AttemptsBounded
<1>1. Strict => AttemptsBounded
  BY DEF Strict, Counted, AttemptsBounded
<1> QED BY <1>1, StrictInvariant, PTL

=============================================================================
