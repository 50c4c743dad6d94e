---------------------------- MODULE Server_proofs ----------------------------
(***************************************************************************)
(* The rate limiter and the process around it, for any number of callers,  *)
(* any limit, window and delay.                                            *)
(*                                                                         *)
(* The log of the limiter loses members when it is trimmed and when its    *)
(* key expires.  LessThanTwice is about what it has lost: of the members   *)
(* that a window can still see, it lost fewer than Limit.                  *)
(***************************************************************************)
EXTENDS Server, FiniteSetTheorems, WellFoundedInduction, TLAPS

----------------------------------------------------------------------------
(* Sets of numbers and their sizes.                                        *)

LEMMA MinOne ==
    ASSUME NEW S \in SUBSET Nat, S # {}
    PROVE  Min(S) \in S /\ \A x \in S : Min(S) <= x
<1> DEFINE R == OpToRel(<, Nat)
<1>1. \E m \in S : \A y \in S : ~ (<<y, m>> \in R)
  <2> HIDE DEF R
  <2> QED BY NatLessThanWellFounded, WFMin DEF R
<1>2. PICK m \in S : \A y \in S : ~ (<<y, m>> \in R)
  BY <1>1
<1>3. ASSUME NEW y \in S PROVE m <= y
  <2>1. ~ (<<y, m>> \in R) /\ m \in Nat /\ y \in Nat
    BY <1>2, <1>3
  <2> QED BY <2>1 DEF OpToRel
<1> QED BY <1>3 DEF Min

LEMMA MaxTwo ==
    ASSUME NEW a \in Int, NEW b \in Int
    PROVE  Max({a, b}) = IF a >= b THEN a ELSE b
<1> DEFINE m == IF a >= b THEN a ELSE b
<1>1. m \in {a, b} /\ \A y \in {a, b} : m >= y
  OBVIOUS
<1>2. \A x \in {a, b} : (\A y \in {a, b} : x >= y) => x = m
  OBVIOUS
<1> HIDE DEF m
<1> QED BY <1>1, <1>2 DEF Max, m

LEMMA PartOf ==
    ASSUME NEW S, IsFiniteSet(S), NEW T, T \subseteq S
    PROVE  /\ IsFiniteSet(T) /\ Cardinality(T) \in Nat /\ Cardinality(S) \in Nat
           /\ Cardinality(T) <= Cardinality(S)
           /\ T # S => Cardinality(T) < Cardinality(S)
<1>1. /\ IsFiniteSet(T) /\ Cardinality(T) <= Cardinality(S)
      /\ Cardinality(S) = Cardinality(T) => S = T
  BY FS_Subset
<1>2. Cardinality(T) \in Nat /\ Cardinality(S) \in Nat
  BY <1>1, FS_CardinalityType
<1> QED BY <1>1, <1>2

LEMMA TwoParts ==
    ASSUME NEW A, IsFiniteSet(A), NEW B, IsFiniteSet(B), NEW S, S \subseteq A \cup B
    PROVE  IsFiniteSet(S) /\ Cardinality(S) <= Cardinality(A) + Cardinality(B)
<1>1. /\ IsFiniteSet(A \cup B) /\ IsFiniteSet(A \cap B)
      /\ Cardinality(A \cup B) = Cardinality(A) + Cardinality(B) - Cardinality(A \cap B)
  BY FS_Union, PartOf
<1>2. /\ IsFiniteSet(S) /\ Cardinality(S) <= Cardinality(A \cup B)
  BY <1>1, PartOf
<1> QED BY <1>1, <1>2, FS_CardinalityType

----------------------------------------------------------------------------
(* The inductive invariant of the limiter.                                 *)

\* The members that the log has lost: trimmed, or gone with the key.
Dropped == counted \ log

DroppedSince(t) == {m \in Dropped : m.score > t}

Lead == Max({0, MaxDelay - 1})

\* A member whose script may run now.
InTime(m) == m \in Member /\ now - MaxDelay <= m.score /\ m.score <= now

LimiterTypes ==
    /\ TypeOK
    /\ IsFiniteSet(counted)
    /\ \A m \in counted : m.score <= now
    /\ \A m \in adrift : InTime(m)
    /\ \A c \in Caller : Waiting(c) => InTime(member[c])

KeyExpiry ==
    /\ \A x \in log : x.score < expireAt
    /\ log # {} => \E o \in log : o.score + Window <= expireAt

InOrder ==
    /\ \A d \in Dropped, x \in log : d.score < x.score + Lead
    /\ \A d \in Dropped : d.score < now - (MaxDelay - Lead)

FewDropped ==
    /\ Cardinality(DroppedSince(now - Window + Lead)) < Limit
    /\ \/ Cardinality(DroppedSince(now - Window + Lead - 1)) < Limit
       \/ /\ Lead = 0
          /\ \E m \in log : m.score = now
          /\ Cardinality(DroppedSince(now - Window - 1)) <= Limit

LimiterInv == LimiterTypes /\ KeyExpiry /\ InOrder /\ FewDropped

----------------------------------------------------------------------------
(* The script.                                                             *)

\* What is known when the script runs for m.
LEMMA ScriptFacts ==
    ASSUME LimiterTypes, NEW m, InTime(m)
    PROVE  /\ now \in Nat /\ now <= MaxTime /\ m.score \in Time /\ m.score \in Nat /\ m \in Member
           /\ now - MaxDelay <= m.score /\ m.score <= now
           /\ expireAt \in Nat /\ Limit \in Nat \ {0} /\ Window \in Nat \ {0}
           /\ MaxTime \in Nat /\ MaxDelay \in Nat
           /\ \A x \in counted : x.score \in Nat /\ x.score \in Time /\ x.score <= now
           /\ log \subseteq counted /\ IsFiniteSet(counted)
           /\ IsFiniteSet(log) /\ Cardinality(log) \in Nat /\ Cardinality(log) <= Limit
BY LimiterAssumption, PartOf DEF LimiterTypes, TypeOK, Time, Member, InTime

\* When the key expires.
LEMMA ExpiryFacts ==
    ASSUME LimiterTypes, NEW m, InTime(m),
           NEW l, l # {}, \A x \in l : x.score \in Nat /\ x.score <= now
    PROVE  /\ Expiry(l, m.score) \in 0 .. (MaxTime + Window + MaxDelay)
           /\ Expiry(l, m.score) > now
           /\ \E o \in l : o.score + Window <= Expiry(l, m.score)
<1> DEFINE at == m.score
           o  == Oldest(l)
<1>1. /\ now \in Nat /\ now <= MaxTime /\ at \in Nat /\ now - MaxDelay <= at /\ at <= now
      /\ Window \in Nat \ {0} /\ MaxTime \in Nat /\ MaxDelay \in Nat
  BY ScriptFacts
<1>2. o \in {k.score : k \in l}
  <2> DEFINE S == {k.score : k \in l}
  <2>1. S \in SUBSET Nat /\ S # {}
    OBVIOUS
  <2> HIDE DEF S
  <2>2. Min(S) \in S
    BY <2>1, MinOne
  <2> QED BY <2>2 DEF Oldest, S
<1>3. o \in Nat /\ o <= now
  BY <1>2
<1>4. PICK k \in l : k.score = o
  BY <1>2
<1> HIDE DEF at, o
<1>5. Max({1, o + Window - at}) = IF 1 >= o + Window - at THEN 1 ELSE o + Window - at
  BY <1>1, <1>3, MaxTwo
<1>6. Expiry(l, at) = now + Max({1, o + Window - at})
  BY DEF Expiry, o
<1>7. /\ Expiry(l, at) \in 0 .. (MaxTime + Window + MaxDelay)
      /\ Expiry(l, at) > now
      /\ o + Window <= Expiry(l, at)
  BY <1>1, <1>3, <1>5, <1>6
<1> QED BY <1>4, <1>7 DEF at

\* What the script leaves of the log.
LEMMA KeptFacts ==
    ASSUME LimiterTypes, NEW m, InTime(m)
    PROVE  LET kept == Kept(m.score)
           IN  /\ kept \subseteq log /\ kept \subseteq counted /\ IsFiniteSet(kept)
               /\ Cardinality(kept) \in Nat /\ Cardinality(kept) <= Limit
               /\ kept # log => Cardinality(kept) < Limit
<1>1. Kept(m.score) \subseteq log
  BY DEF Kept
<1> HIDE DEF Kept
<1> QED BY <1>1, ScriptFacts, PartOf

\* A log that is full is not empty.
LEMMA FullFacts ==
    ASSUME LimiterAssumption, NEW l, IsFiniteSet(l), Full(l)
    PROVE  l # {} /\ Cardinality(l) >= Limit
BY FS_EmptySet, LimiterAssumption DEF Full

LEMMA AddsEffect ==
    ASSUME LimiterTypes, NEW m, InTime(m), ScriptAdds(m), now' = now
    PROVE  LET kept == Kept(m.score)
           IN  /\ log' = kept \cup {m} /\ counted' = counted \cup {m}
               /\ IsFiniteSet(counted') /\ IsFiniteSet(log')
               /\ Cardinality(kept) < Limit /\ Cardinality(log') <= Limit
               /\ Cardinality(log') \in Nat
               /\ expireAt' \in 0 .. (MaxTime + Window + MaxDelay) /\ expireAt' > now
               /\ \E o \in log' : o.score + Window <= expireAt'
<1> DEFINE at   == m.score
           kept == Kept(at)
<1>1. /\ log' = kept \cup {m} /\ counted' = counted \cup {m}
      /\ expireAt' = Expiry(kept \cup {m}, at) /\ ~Full(kept)
  BY DEF ScriptAdds
<1>2. /\ kept \subseteq counted /\ IsFiniteSet(kept) /\ Cardinality(kept) \in Nat
      /\ Cardinality(kept) < Limit
  BY <1>1, KeptFacts, LimiterAssumption DEF Full
<1>3. /\ \A x \in counted : x.score \in Nat /\ x.score <= now
      /\ at \in Nat /\ at <= now /\ IsFiniteSet(counted) /\ Limit \in Nat
  BY ScriptFacts
<1>4. /\ kept \cup {m} # {}
      /\ \A x \in kept \cup {m} : x.score \in Nat /\ x.score <= now
  BY <1>2, <1>3
<1> HIDE DEF kept
<1>5. /\ IsFiniteSet(counted') /\ IsFiniteSet(log')
      /\ Cardinality(log') \in Nat /\ Cardinality(log') <= Limit
  <2>1. IsFiniteSet(counted \cup {m})
    BY <1>3, FS_AddElement
  <2>2. /\ IsFiniteSet(kept \cup {m})
        /\ Cardinality(kept \cup {m}) = IF m \in kept THEN Cardinality(kept)
                                        ELSE Cardinality(kept) + 1
    BY <1>2, FS_AddElement
  <2> QED BY <1>1, <1>2, <1>3, <2>1, <2>2
<1>6. /\ Expiry(kept \cup {m}, at) \in 0 .. (MaxTime + Window + MaxDelay)
      /\ Expiry(kept \cup {m}, at) > now
      /\ \E o \in kept \cup {m} : o.score + Window <= Expiry(kept \cup {m}, at)
  BY <1>4, ExpiryFacts
<1> QED BY <1>1, <1>2, <1>5, <1>6 DEF kept

LEMMA RefusesEffect ==
    ASSUME LimiterTypes, NEW m, InTime(m), ScriptRefuses(m)
    PROVE  LET kept == Kept(m.score)
           IN  /\ log' = kept /\ counted' = counted
               /\ kept \subseteq log /\ Cardinality(kept) = Limit /\ kept = log
               /\ expireAt' \in 0 .. (MaxTime + Window + MaxDelay) /\ expireAt' > now
               /\ \E o \in log' : o.score + Window <= expireAt'
<1> DEFINE kept == Kept(m.score)
<1>1. /\ log' = kept /\ counted' = counted
      /\ expireAt' = Expiry(kept, m.score) /\ Full(kept)
  BY DEF ScriptRefuses
<1>2. /\ kept \subseteq log /\ kept \subseteq counted /\ IsFiniteSet(kept)
      /\ Cardinality(kept) \in Nat /\ Cardinality(kept) <= Limit
      /\ kept # log => Cardinality(kept) < Limit
  BY KeptFacts
<1> HIDE DEF kept
<1>3. kept # {} /\ Cardinality(kept) >= Limit
  BY <1>1, <1>2, FullFacts, LimiterAssumption
<1>4. \A x \in kept : x.score \in Nat /\ x.score <= now
  BY <1>2, ScriptFacts
<1>5. /\ Expiry(kept, m.score) \in 0 .. (MaxTime + Window + MaxDelay)
      /\ Expiry(kept, m.score) > now
      /\ \E o \in kept : o.score + Window <= Expiry(kept, m.score)
  BY <1>3, <1>4, ExpiryFacts
<1>6. Cardinality(kept) = Limit /\ kept = log
  BY <1>2, <1>3, LimiterAssumption
<1> QED BY <1>1, <1>2, <1>5, <1>6 DEF kept

\* Whatever step the limiter makes, it is time that passes, a script, or neither.
LEMMA StepKinds ==
    ASSUME LimiterTypes, [Next]_vars
    PROVE  \/ Tick
           \/ /\ now' = now
              /\ \E m : InTime(m) /\ (ScriptAdds(m) \/ ScriptRefuses(m))
           \/ UNCHANGED <<now, log, expireAt, counted>>
<1>1. ASSUME NEW c \in Caller, Admit(c) \/ Refuse(c)
      PROVE  /\ now' = now /\ InTime(member[c])
             /\ ScriptAdds(member[c]) \/ ScriptRefuses(member[c])
  BY <1>1 DEF Admit, Refuse, Return, LimiterTypes
<1>2. ASSUME NEW c \in Caller, Call(c) \/ Lose(c) \/ FailOpen(c)
      PROVE  UNCHANGED <<now, log, expireAt, counted>>
  BY <1>2 DEF Call, Lose, FailOpen, Return
<1>3. ASSUME NEW m \in adrift, Late(m)
      PROVE  now' = now /\ InTime(m) /\ (ScriptAdds(m) \/ ScriptRefuses(m))
  BY <1>3 DEF Late, LimiterTypes
<1> QED BY <1>1, <1>2, <1>3 DEF Next, vars

LEMMA TypesKept == LimiterTypes /\ [Next]_vars => LimiterTypes'
<1> SUFFICES ASSUME LimiterTypes, [Next]_vars PROVE LimiterTypes'
  OBVIOUS
<1>1. /\ now \in Time /\ now \in Nat /\ MaxTime \in Nat /\ MaxDelay \in Nat
      /\ member \in [Caller -> Member \cup {None}] /\ None \notin Member
      /\ \A m \in Member : m.score \in Nat
      /\ \A d \in Caller : Waiting(d) => InTime(member[d])
      /\ \A m \in adrift : InTime(m)
      /\ \A m \in counted : m.score \in Nat /\ m.score <= now
  BY LimiterAssumption DEF LimiterTypes, TypeOK, Time, Member
\* The scripts under way ...
<1>2. CASE Tick
  <2>1. /\ now' = now + 1 /\ now < MaxTime
        /\ adrift' = {m \in adrift : now - m.score < MaxDelay}
        /\ UNCHANGED <<member, log, expireAt, counted>>
        /\ \A d \in Caller : Waiting(d) => now - member[d].score < MaxDelay
    BY <1>2 DEF Tick
  <2>2. now' \in Time /\ \A m \in counted' : m.score <= now'
    BY <1>1, <2>1 DEF Time
  <2>3. ASSUME NEW m, InTime(m), now - m.score < MaxDelay PROVE InTime(m)'
    BY <1>1, <2>1, <2>3 DEF InTime
  <2>4. /\ \A m \in adrift' : InTime(m)'
        /\ \A d \in Caller : Waiting(d)' => InTime(member[d])'
    BY <1>1, <2>1, <2>3 DEF Waiting
  <2>5. adrift' \subseteq Member
    BY <1>1, <2>1 DEF InTime
  <2> QED BY <2>1, <2>2, <2>4, <2>5 DEF LimiterTypes, TypeOK
<1>3. ASSUME now' = now, ~ Tick
      PROVE  /\ member' \in [Caller -> Member \cup {None}] /\ adrift' \subseteq Member
             /\ \A m \in adrift' : InTime(m)'
             /\ \A d \in Caller : Waiting(d)' => InTime(member[d])'
  <2>1. \A m : InTime(m) => InTime(m)' /\ m \in Member
    BY <1>3 DEF InTime
  <2>2. SUFFICES /\ member' \in [Caller -> Member \cup {None}]
                 /\ \A m \in adrift' : InTime(m)
                 /\ \A d \in Caller : member'[d] # None => InTime(member'[d])
    BY <2>1 DEF Waiting
  <2>3. ASSUME NEW c \in Caller, Call(c)
        PROVE  /\ member' \in [Caller -> Member \cup {None}]
               /\ \A m \in adrift' : InTime(m)
               /\ \A d \in Caller : member'[d] # None => InTime(member'[d])
    <3> DEFINE new == [score |-> now, by |-> c]
    <3>1. InTime(new) /\ new \in Member
      BY <1>1 DEF InTime, Member
    <3>2. member' = [member EXCEPT ![c] = new] /\ adrift' = adrift
      BY <2>3 DEF Call
    <3> HIDE DEF new
    <3> QED BY <1>1, <3>1, <3>2 DEF Waiting
  <2>4. ASSUME NEW c \in Caller, Return(c)
        PROVE  /\ member' \in [Caller -> Member \cup {None}]
               /\ \A m \in adrift' : InTime(m)
               /\ \A d \in Caller : member'[d] # None => InTime(member'[d])
    BY <1>1, <2>4 DEF Return, Waiting
  <2>5. ASSUME NEW c \in Caller, Lose(c)
        PROVE  /\ member' \in [Caller -> Member \cup {None}]
               /\ \A m \in adrift' : InTime(m)
               /\ \A d \in Caller : member'[d] # None => InTime(member'[d])
    BY <1>1, <2>5 DEF Lose, Waiting
  <2>6. ASSUME UNCHANGED <<member, adrift>>
        PROVE  /\ member' \in [Caller -> Member \cup {None}]
               /\ \A m \in adrift' : InTime(m)
               /\ \A d \in Caller : member'[d] # None => InTime(member'[d])
    BY <1>1, <2>6 DEF Waiting
  <2> QED BY <1>3, <2>3, <2>4, <2>5, <2>6 DEF Next, Admit, Refuse, FailOpen, Late, vars
\* ... and what they do.
<1>4. ASSUME now' = now, ~ Tick, NEW m, InTime(m), ScriptAdds(m) PROVE LimiterTypes'
  <2>1. /\ log' = Kept(m.score) \cup {m} /\ counted' = counted \cup {m}
        /\ IsFiniteSet(counted') /\ Cardinality(log') <= Limit
        /\ expireAt' \in 0 .. (MaxTime + Window + MaxDelay)
    BY <1>4, AddsEffect
  <2>2. Kept(m.score) \subseteq counted
    BY <1>4, KeptFacts
  <2>3. /\ log' \subseteq counted' /\ counted' \subseteq Member
        /\ \A x \in counted' : x.score <= now
    BY <1>1, <1>4, <2>1, <2>2 DEF InTime, LimiterTypes, TypeOK
  <2> QED BY <1>1, <1>3, <1>4, <2>1, <2>3 DEF LimiterTypes, TypeOK
<1>5. ASSUME now' = now, ~ Tick, NEW m, InTime(m), ScriptRefuses(m) PROVE LimiterTypes'
  <2>1. /\ log' = log /\ counted' = counted
        /\ expireAt' \in 0 .. (MaxTime + Window + MaxDelay)
    BY <1>5, RefusesEffect
  <2> QED BY <1>1, <1>3, <1>5, <2>1 DEF LimiterTypes, TypeOK
<1>6. ASSUME UNCHANGED <<now, log, expireAt, counted>>, ~ Tick PROVE LimiterTypes'
  BY <1>1, <1>3, <1>6 DEF LimiterTypes, TypeOK
<1> QED BY <1>2, <1>4, <1>5, <1>6, StepKinds

----------------------------------------------------------------------------
(* What the log has lost.                                                  *)

LEMMA LeadFacts ==
    /\ Lead \in Nat /\ MaxDelay \in Nat /\ Lead <= MaxDelay /\ MaxDelay <= Lead + 1
    /\ Lead >= 1 => MaxDelay = Lead + 1
    /\ Span = Window - 2 * Lead
<1>1. MaxDelay \in Nat
  BY LimiterAssumption
<1>2. Max({0, MaxDelay - 1}) = IF 0 >= MaxDelay - 1 THEN 0 ELSE MaxDelay - 1
  BY <1>1, MaxTwo
<1> QED BY <1>1, <1>2 DEF Lead, Span

LEMMA SinceFacts ==
    ASSUME LimiterTypes, NEW t \in Int
    PROVE  /\ IsFiniteSet(DroppedSince(t)) /\ Cardinality(DroppedSince(t)) \in Nat
           /\ \A S : S \subseteq DroppedSince(t) =>
                IsFiniteSet(S) /\ Cardinality(S) \in Nat
                  /\ Cardinality(S) <= Cardinality(DroppedSince(t))
<1>1. IsFiniteSet(counted) /\ DroppedSince(t) \subseteq counted
  BY DEF LimiterTypes, DroppedSince, Dropped
<1> HIDE DEF DroppedSince
<1>2. IsFiniteSet(DroppedSince(t))
  BY <1>1, PartOf
<1> QED BY <1>2, PartOf

\* What the script for m drops before it adds m, and what it keeps.  A member that
\* an earlier attempt has added may come back.
LEMMA Loss ==
    ASSUME LimiterTypes, NEW m, InTime(m), ScriptAdds(m), now' = now
    PROVE  LET at   == m.score
               kept == Kept(at)
           IN  /\ Dropped' \subseteq Dropped \cup (log \ kept)
               /\ \/ now > expireAt /\ kept = {}
                  \/ /\ now <= expireAt
                     /\ \A d \in log \ kept : d.score <= at - Window
                     /\ \A x \in kept : x \in log /\ x.score > at - Window
<1> DEFINE at   == m.score
           kept == Kept(at)
<1>1. log' = kept \cup {m} /\ counted' = counted \cup {m}
  BY AddsEffect
<1>2. log \subseteq counted /\ kept \subseteq log
  BY <1>1, ScriptFacts, KeptFacts
<1>3. Dropped' \subseteq Dropped \cup (log \ kept)
  <2> HIDE DEF kept
  <2> QED BY <1>1, <1>2 DEF Dropped
<1>4. /\ now \in Nat /\ expireAt \in Nat /\ at \in Nat /\ Window \in Nat
      /\ \A x \in log : x.score \in Nat
  BY <1>1, <1>2, ScriptFacts
<1>5. CASE now > expireAt
  BY <1>3, <1>4, <1>5 DEF Kept
<1>6. CASE now <= expireAt
  BY <1>3, <1>4, <1>6 DEF Kept
<1> QED BY <1>4, <1>5, <1>6

LEMMA AddsInOrder ==
    ASSUME LimiterTypes, KeyExpiry, InOrder, MaxDelay < Window,
           NEW m, InTime(m), ScriptAdds(m), now' = now
    PROVE  KeyExpiry' /\ InOrder'
<1> DEFINE at   == m.score
           kept == Kept(at)
<1>1. /\ m.score = at /\ log' = kept \cup {m} /\ now' = now /\ expireAt' > now
      /\ \E o \in log' : o.score + Window <= expireAt'
      /\ expireAt' \in Nat
  BY AddsEffect, LimiterAssumption
<1>2. /\ now \in Nat /\ at \in Nat /\ now - MaxDelay <= at /\ at <= now
      /\ Window \in Nat /\ expireAt \in Nat /\ log \subseteq counted
      /\ \A x \in counted : x.score \in Nat /\ x.score <= now
  BY <1>1, ScriptFacts
<1>3. /\ Dropped' \subseteq Dropped \cup (log \ kept)
      /\ \/ now > expireAt /\ kept = {}
         \/ /\ now <= expireAt
            /\ \A d \in log \ kept : d.score <= at - Window
            /\ \A x \in kept : x \in log /\ x.score > at - Window
  BY Loss
<1>4. /\ Lead \in Nat /\ MaxDelay \in Nat /\ Lead <= MaxDelay /\ MaxDelay <= Lead + 1
      /\ Lead' = Lead
  BY LeadFacts DEF Lead
<1>5. Dropped \subseteq counted /\ kept \subseteq log
  BY <1>1, KeptFacts DEF Dropped
<1> HIDE DEF at, kept
<1>6. KeyExpiry'
  <2>1. \A x \in log' : x.score \in Nat /\ x.score <= now
    BY <1>1, <1>2, <1>5
  <2> QED BY <1>1, <1>2, <2>1 DEF KeyExpiry
<1>7. ASSUME NEW d \in Dropped' PROVE d.score \in Nat /\ d.score < now - (MaxDelay - Lead)
  <2>1. d \in counted /\ d.score \in Nat
    BY <1>2, <1>3, <1>5, <1>7
  <2>2. CASE d \in Dropped
    BY <2>1, <2>2 DEF InOrder
  <2>3. CASE d \in log /\ now > expireAt
    <3>1. d.score < expireAt
      BY <2>3 DEF KeyExpiry
    <3> QED BY <1>2, <1>4, <2>1, <2>3, <3>1
  <2>4. CASE d \in log \ kept /\ now <= expireAt
    <3>1. d.score <= at - Window
      BY <1>2, <1>3, <2>4
    <3> QED BY <1>2, <1>4, <2>1, <3>1
  <2> QED BY <1>2, <1>3, <1>7, <2>2, <2>3, <2>4
<1>8. ASSUME NEW d \in Dropped', NEW x \in log' PROVE d.score < x.score + Lead
  <2>1. d.score \in Nat /\ d.score < now - (MaxDelay - Lead)
    BY <1>7
  <2>2. CASE x = m
    BY <1>1, <1>2, <1>4, <2>1, <2>2
  <2>3. CASE x \in kept
    <3>1. x \in log /\ x.score \in Nat /\ x.score > at - Window /\ now <= expireAt
      BY <1>2, <1>3, <1>5, <2>3
    <3>2. CASE d \in Dropped
      BY <3>1, <3>2 DEF InOrder
    <3>3. CASE d \in log \ kept
      <4>1. d.score <= at - Window
        BY <1>2, <1>3, <3>1, <3>3
      <4> QED BY <1>2, <1>4, <2>1, <3>1, <4>1
    <3> QED BY <1>3, <1>8, <3>2, <3>3
  <2> QED BY <1>1, <1>8, <2>2, <2>3
<1>9. InOrder'
  BY <1>1, <1>4, <1>7, <1>8 DEF InOrder
<1> QED BY <1>6, <1>9

\* Of what windows that can still be written to see, the log has lost fewer than
\* Limit: whatever it loses with its key, the oldest member was out of sight.
LEMMA AddsFewDropped ==
    ASSUME LimiterInv, LimiterTypes', MaxDelay < Window,
           NEW m, InTime(m), ScriptAdds(m), now' = now
    PROVE  FewDropped'
<1> DEFINE at   == m.score
           kept == Kept(at)
           hi   == now - Window + Lead
           lo   == now - Window + Lead - 1
           Since2(t) == {d \in Dropped' : d.score > t}
<1>1. /\ m.score = at /\ log' = kept \cup {m} /\ now' = now
      /\ LimiterTypes /\ LimiterTypes'
  BY AddsEffect DEF LimiterInv
<1>2. /\ now \in Nat /\ at \in Nat /\ now - MaxDelay <= at /\ at <= now
      /\ Window \in Nat \ {0} /\ expireAt \in Nat /\ log \subseteq counted
      /\ Limit \in Nat \ {0} /\ IsFiniteSet(log) /\ Cardinality(log) <= Limit
      /\ \A x \in counted : x.score \in Nat /\ x.score <= now
  BY <1>1, ScriptFacts
<1>3. /\ Dropped' \subseteq Dropped \cup (log \ kept)
      /\ \/ now > expireAt /\ kept = {}
         \/ /\ now <= expireAt
            /\ \A d \in log \ kept : d.score <= at - Window
            /\ \A x \in kept : x \in log /\ x.score > at - Window
  BY <1>1, Loss
<1>4. Lead \in Nat /\ Lead' = Lead /\ Window' = Window /\ Limit' = Limit /\ hi \in Int /\ lo \in Int
  BY <1>2, LeadFacts DEF Lead
<1>5. kept \subseteq log /\ \A d \in Dropped : d.score \in Nat
  BY <1>1, <1>2, KeptFacts DEF Dropped
<1>6. /\ Cardinality(DroppedSince(hi)) < Limit
      /\ \/ Cardinality(DroppedSince(lo)) < Limit
         \/ /\ Lead = 0
            /\ \E x \in log : x.score = now
            /\ Cardinality(DroppedSince(now - Window - 1)) <= Limit
  BY DEF LimiterInv, FewDropped
<1>7. /\ \A S : S \subseteq DroppedSince(hi) =>
           Cardinality(S) \in Nat /\ Cardinality(S) <= Cardinality(DroppedSince(hi))
      /\ \A S : S \subseteq DroppedSince(lo) =>
           Cardinality(S) \in Nat /\ Cardinality(S) <= Cardinality(DroppedSince(lo))
      /\ Cardinality(DroppedSince(hi)) \in Nat /\ Cardinality(DroppedSince(lo)) \in Nat
  BY <1>1, <1>4, SinceFacts
<1>8. \A x \in log, d \in Dropped : d.score < x.score + Lead
  BY DEF LimiterInv, InOrder
<1>9. /\ DroppedSince(hi) = {d \in Dropped : d.score > hi}
      /\ DroppedSince(lo) = {d \in Dropped : d.score > lo}
      /\ DroppedSince(hi)' = Since2(hi) /\ DroppedSince(lo)' = Since2(lo)
  BY <1>1, <1>4 DEF DroppedSince
<1>10. Lead = 0 => lo = now - Window - 1
  BY <1>2, <1>4
<1>11. SUFFICES /\ Cardinality(Since2(hi)) < Limit
                /\ \/ Cardinality(Since2(lo)) < Limit
                   \/ /\ Lead = 0 /\ \E x \in log' : x.score = now
                      /\ Cardinality(Since2(lo)) <= Limit
  <2>1. /\ DroppedSince(now - Window + Lead)' = Since2(hi)
        /\ DroppedSince(now - Window + Lead - 1)' = Since2(lo)
        /\ Lead = 0 => DroppedSince(now - Window - 1)' = Since2(lo)
    BY <1>1, <1>4, <1>9, <1>10
  <2> HIDE DEF Since2, hi, lo
  <2> QED BY <1>1, <1>4, <1>11, <2>1 DEF FewDropped
<1> HIDE DEF at, kept
<1>12. CASE log \ kept = {}
  <2>1. Dropped' \subseteq Dropped /\ log \subseteq log'
    BY <1>1, <1>3, <1>12
  <2>2. Since2(hi) \subseteq DroppedSince(hi) /\ Since2(lo) \subseteq DroppedSince(lo)
    BY <1>9, <2>1
  <2> HIDE DEF Since2, hi, lo
  <2> QED BY <1>2, <1>6, <1>7, <1>10, <2>1, <2>2
<1>13. CASE log \ kept # {} /\ now > expireAt
  <2>1. PICK o \in log : o.score + Window <= expireAt
    BY <1>13 DEF LimiterInv, KeyExpiry
  <2>2. o.score \in Nat /\ o.score <= now - 1 - Window
    BY <1>2, <1>13, <2>1
  <2>3. \A d \in Dropped' : d.score > lo => d \in log \ {o}
    <3>1. ASSUME NEW d \in Dropped PROVE ~ (d.score > lo)
      <4>1. d.score < o.score + Lead /\ d.score \in Nat
        BY <1>5, <1>8, <2>1, <3>1
      <4> QED BY <1>2, <1>4, <2>2, <4>1
    <3>2. ~ (o.score > lo)
      BY <1>2, <1>4, <2>2
    <3> HIDE DEF lo
    <3> QED BY <1>3, <3>1, <3>2
  <2>4. Since2(lo) \subseteq log \ {o} /\ Since2(hi) \subseteq Since2(lo)
    <3>1. \A d \in Dropped' : d.score \in Nat
      BY <1>2, <1>3, <1>5
    <3> QED BY <1>2, <1>4, <2>3, <3>1
  <2> HIDE DEF Since2, hi, lo
  <2>5. IsFiniteSet(log \ {o}) /\ Cardinality(log \ {o}) < Limit /\ Cardinality(log \ {o}) \in Nat
    BY <1>2, <2>1, PartOf
  <2>6. /\ IsFiniteSet(Since2(lo)) /\ Cardinality(Since2(lo)) \in Nat
        /\ Cardinality(Since2(lo)) <= Cardinality(log \ {o})
    BY <2>4, <2>5, PartOf
  <2>7. Cardinality(Since2(hi)) \in Nat /\ Cardinality(Since2(hi)) <= Cardinality(Since2(lo))
    BY <2>4, <2>6, PartOf
  <2> QED BY <1>2, <2>5, <2>6, <2>7
<1>14. CASE log \ kept # {} /\ now <= expireAt
  <2>1. /\ \A d \in log \ kept : d.score \in Nat /\ d.score <= at - Window
        /\ \A x \in log : x.score > at - Window => x \in kept
    BY <1>2, <1>3, <1>14
  <2>2. Since2(hi) \subseteq DroppedSince(hi)
    <3>1. \A d \in log \ kept : ~ (d.score > hi)
      BY <1>2, <1>4, <2>1
    <3> HIDE DEF hi
    <3> QED BY <1>3, <1>9, <3>1
  <2>3. Cardinality(Since2(hi)) < Limit
    <3> HIDE DEF Since2, hi, lo
    <3> QED BY <1>2, <1>6, <1>7, <2>2
  <2>4. CASE \A d \in log \ kept : ~ (d.score > lo)
    <3>1. Since2(lo) \subseteq DroppedSince(lo)
      BY <1>3, <1>9, <2>4
    <3>2. \A x \in log : x.score = now => x \in log'
      BY <1>1, <1>2, <2>1
    <3> HIDE DEF Since2, hi, lo
    <3> QED BY <1>2, <1>6, <1>7, <1>10, <2>3, <3>1, <3>2
  <2>5. CASE \E d \in log \ kept : d.score > lo
    <3>1. PICK z \in log \ kept : z.score > lo
      BY <2>5
    <3>2. Lead = 0 /\ at = now /\ z.score = now - Window
      BY <1>2, <1>4, <2>1, <3>1
    <3>3. \A d \in Dropped : ~ (d.score > lo)
      <4>1. \A d \in Dropped : d.score \in Nat /\ d.score < z.score + Lead
        BY <1>5, <1>8, <3>1
      <4> QED BY <1>2, <3>2, <4>1
    <3>4. Since2(lo) \subseteq log
      BY <1>3, <3>3
    <3>5. Cardinality(Since2(lo)) <= Limit
      <4> HIDE DEF Since2
      <4>1. Cardinality(Since2(lo)) <= Cardinality(log) /\ Cardinality(Since2(lo)) \in Nat
            /\ Cardinality(log) \in Nat
        BY <1>2, <3>4, PartOf
      <4> QED BY <1>2, <4>1
    <3>6. \E x \in log' : x.score = now
      BY <1>1, <3>2
    <3> HIDE DEF Since2, hi, lo
    <3> QED BY <2>3, <3>2, <3>5, <3>6
  <2> QED BY <2>4, <2>5
<1> QED BY <1>2, <1>12, <1>13, <1>14

LEMMA AddsWindows ==
    ASSUME LimiterInv, LimiterTypes', FewDropped', LessThanTwice, MaxDelay < Window,
           NEW m, InTime(m), ScriptAdds(m), now' = now
    PROVE  LessThanTwice'
<1> DEFINE at == m.score
           lo == now - Window + Lead - 1
<1>1. /\ m.score = at /\ counted' = counted \cup {m} /\ m \in log' /\ now' = now
      /\ log' \subseteq counted' /\ IsFiniteSet(log') /\ Cardinality(log') <= Limit
      /\ Cardinality(log') \in Nat /\ LimiterTypes /\ LimiterTypes'
  <2>1. LimiterTypes /\ LimiterTypes'
    BY DEF LimiterInv
  <2>2. log' \subseteq counted'
    BY <2>1 DEF LimiterTypes, TypeOK
  <2> QED BY <2>1, <2>2, AddsEffect
<1>2. /\ now \in Nat /\ at \in Nat /\ now - MaxDelay <= at /\ at <= now
      /\ Window \in Nat \ {0} /\ Limit \in Nat \ {0}
      /\ \A x \in counted : x.score \in Nat /\ x.score <= now
  BY <1>1, ScriptFacts
<1>3. /\ Lead \in Nat /\ Lead' = Lead /\ MaxDelay \in Nat /\ MaxDelay <= Lead + 1
      /\ Lead >= 1 => MaxDelay = Lead + 1
      /\ Span = Window - 2 * Lead
  BY LeadFacts DEF Lead
<1>4. SUFFICES ASSUME NEW s \in Time
               PROVE  Cardinality({x \in counted' : s - Span < x.score /\ x.score <= s}) < 2 * Limit
  BY DEF LessThanTwice, Between, Span, Time
<1> DEFINE B == {x \in counted' : s - Span < x.score /\ x.score <= s}
           W == {d \in Dropped' : s - Span < d.score /\ d.score <= s}
           V == {x \in log' : s - Span < x.score /\ x.score <= s}
           D2(t) == {d \in Dropped' : d.score > t}
<1>5. s \in Nat /\ Span \in Int
  BY <1>2, <1>3 DEF Time
<1>6. CASE ~ (s - Span < at /\ at <= s)
  <2>1. B = Between(s - Span, s)
    BY <1>1, <1>6 DEF Between
  <2> HIDE DEF B
  <2> QED BY <2>1 DEF LessThanTwice, B
<1>7. CASE s - Span < at /\ at <= s
  <2>1. B \subseteq V \cup W
    BY DEF Dropped
  <2>2. /\ IsFiniteSet(Dropped') /\ IsFiniteSet(V) /\ Cardinality(V) \in Nat
        /\ Cardinality(V) <= Limit
    <3>1. IsFiniteSet(Dropped')
      BY <1>1, PartOf DEF LimiterTypes, Dropped
    <3>2. V \subseteq log'
      OBVIOUS
    <3> HIDE DEF V
    <3> QED BY <1>1, <1>2, <3>1, <3>2, PartOf
  <2>3. \A t : /\ IsFiniteSet(D2(t)) /\ Cardinality(D2(t)) \in Nat
               /\ W \subseteq D2(t) => /\ IsFiniteSet(W) /\ Cardinality(W) \in Nat
                                       /\ Cardinality(W) <= Cardinality(D2(t))
    <3> TAKE t
    <3>1. D2(t) \subseteq Dropped'
      OBVIOUS
    <3> HIDE DEF D2, W
    <3>2. IsFiniteSet(D2(t)) /\ Cardinality(D2(t)) \in Nat
      BY <2>2, <3>1, PartOf
    <3> QED BY <3>2, PartOf
  <2>4. /\ Cardinality(D2(now - Window + Lead)) < Limit
        /\ \/ Cardinality(D2(lo)) < Limit
           \/ /\ Lead = 0 /\ \E x \in log' : x.score = now
              /\ Cardinality(D2(lo)) <= Limit
    <3>1. /\ DroppedSince(now - Window + Lead)' = D2(now - Window + Lead)
          /\ DroppedSince(now - Window + Lead - 1)' = D2(lo)
          /\ Lead = 0 => DroppedSince(now - Window - 1)' = D2(lo)
      BY <1>1, <1>2, <1>3 DEF DroppedSince
    <3> HIDE DEF D2, lo
    <3> QED BY <1>1, <1>3, <3>1 DEF FewDropped
  <2>5. \A d \in Dropped' : d.score \in Nat
    BY <1>1, <1>2 DEF Dropped
  <2>6. ASSUME NEW t, W \subseteq D2(t), Cardinality(V) + Cardinality(D2(t)) < 2 * Limit
        PROVE  Cardinality(B) < 2 * Limit
    <3> HIDE DEF B, V, W, D2
    <3>1. /\ IsFiniteSet(W) /\ Cardinality(W) \in Nat
          /\ Cardinality(D2(t)) \in Nat /\ Cardinality(W) <= Cardinality(D2(t))
      BY <2>3, <2>6
    <3>2. IsFiniteSet(B) /\ Cardinality(B) <= Cardinality(V) + Cardinality(W)
      BY <2>1, <2>2, <3>1, TwoParts
    <3>3. Cardinality(B) \in Nat
      BY <3>2, FS_CardinalityType
    <3> QED BY <1>2, <2>2, <2>6, <3>1, <3>2, <3>3
  <2>7. CASE Lead >= 1
    <3>1. W \subseteq D2(lo)
      BY <1>2, <1>3, <1>5, <1>7, <2>5, <2>7
    <3> HIDE DEF W, V, B, D2, lo
    <3>2. Cardinality(D2(lo)) < Limit /\ Cardinality(D2(lo)) \in Nat
      BY <1>3, <2>3, <2>4, <2>7
    <3>3. Cardinality(V) + Cardinality(D2(lo)) < 2 * Limit
      BY <1>2, <2>2, <3>2
    <3>4. Cardinality(B) < 2 * Limit
      BY <2>6, <3>1, <3>3
    <3> QED BY <3>4 DEF B
  <2>8. CASE Lead = 0 /\ s >= now
    <3> DEFINE hi == now - Window + Lead
    <3>1. W \subseteq D2(hi)
      BY <1>2, <1>3, <1>5, <2>5, <2>8
    <3>2. Cardinality(D2(hi)) < Limit
      BY <2>4
    <3> HIDE DEF W, V, B, D2, lo, hi
    <3>3. Cardinality(D2(hi)) \in Nat
      BY <2>3
    <3>4. Cardinality(V) + Cardinality(D2(hi)) < 2 * Limit
      BY <1>2, <2>2, <3>2, <3>3
    <3>5. Cardinality(B) < 2 * Limit
      BY <2>6, <3>1, <3>4
    <3> QED BY <3>5 DEF B
  <2>9. CASE Lead = 0 /\ s < now
    <3>1. s = now - 1 /\ W \subseteq D2(lo)
      BY <1>2, <1>3, <1>5, <1>7, <2>5, <2>9
    <3>2. Cardinality(V) + Cardinality(D2(lo)) < 2 * Limit
      <4>1. Cardinality(D2(lo)) \in Nat
        <5> HIDE DEF D2, lo
        <5> QED BY <2>3
      <4>2. CASE Cardinality(D2(lo)) < Limit
        <5> HIDE DEF V, D2, lo
        <5> QED BY <1>2, <2>2, <4>1, <4>2
      <4>3. CASE Cardinality(D2(lo)) <= Limit /\ \E x \in log' : x.score = now
        <5>1. PICK x \in log' : x.score = now
          BY <4>3
        <5>2. V \subseteq log' /\ V # log'
          BY <1>2, <3>1, <5>1
        <5> HIDE DEF V, D2, lo
        <5>3. Cardinality(V) < Cardinality(log')
          BY <1>1, <5>2, PartOf
        <5> QED BY <1>1, <1>2, <2>2, <4>1, <4>3, <5>3
      <4> HIDE DEF V, D2, lo
      <4> QED BY <2>4, <4>2, <4>3
    <3> HIDE DEF W, V, B, D2, lo
    <3>3. Cardinality(B) < 2 * Limit
      BY <2>6, <3>1, <3>2
    <3> QED BY <3>3 DEF B
  <2> QED BY <1>2, <1>3, <1>5, <2>7, <2>8, <2>9
<1> QED BY <1>6, <1>7

LEMMA LossesKept ==
    ASSUME LimiterInv, LessThanTwice, MaxDelay < Window, [Next]_vars
    PROVE  LimiterInv' /\ LessThanTwice'
<1>1. LimiterTypes /\ LimiterTypes'
  BY TypesKept DEF LimiterInv
<1>2. Lead' = Lead /\ Lead \in Nat /\ MaxDelay \in Nat /\ Lead <= MaxDelay /\ Span' = Span
  BY LeadFacts DEF Lead, Span
<1>3. /\ now \in Nat /\ expireAt \in Nat /\ Window \in Nat /\ Limit \in Nat
      /\ log \subseteq counted /\ \A x \in counted : x.score \in Nat /\ x.score <= now
  BY <1>1, LimiterAssumption DEF LimiterTypes, TypeOK, Time, Member
<1>4. ASSUME UNCHANGED <<now, log, counted>>, expireAt' = expireAt
      PROVE  LimiterInv' /\ LessThanTwice'
  BY <1>1, <1>2, <1>4
     DEF LimiterInv, KeyExpiry, InOrder, FewDropped, DroppedSince, Dropped,
                LessThanTwice, Between
<1>5. CASE Tick
  <2>1. now' = now + 1 /\ UNCHANGED <<log, expireAt, counted>>
    BY <1>5 DEF Tick
  <2>2. KeyExpiry' /\ LessThanTwice'
    BY <1>2, <2>1 DEF LimiterInv, KeyExpiry, LessThanTwice, Between
  <2>3. InOrder'
    <3>1. \A d \in Dropped : d.score \in Nat
      BY <1>3 DEF Dropped
    <3> QED BY <1>2, <1>3, <2>1, <3>1 DEF LimiterInv, InOrder, Dropped
  <2>4. FewDropped'
    <3> DEFINE hi == now - Window + Lead
    <3>1. DroppedSince(now - Window + Lead)' = {d \in Dropped : d.score > hi + 1}
      BY <1>2, <1>3, <2>1 DEF DroppedSince, Dropped
    <3>2. DroppedSince(now - Window + Lead - 1)' = DroppedSince(hi)
      BY <1>2, <1>3, <2>1 DEF DroppedSince, Dropped
    <3>3. {d \in Dropped : d.score > hi + 1} \subseteq DroppedSince(hi)
      BY <1>2, <1>3 DEF DroppedSince, Dropped
    <3>4. hi \in Int /\ Cardinality(DroppedSince(hi)) < Limit
      BY <1>2, <1>3 DEF LimiterInv, FewDropped
    <3> HIDE DEF hi
    <3>5. Cardinality({d \in Dropped : d.score > hi + 1}) < Limit
      BY <1>1, <1>3, <3>3, <3>4, SinceFacts
    <3> QED BY <3>1, <3>2, <3>4, <3>5 DEF FewDropped
  <2> QED BY <1>1, <2>2, <2>3, <2>4 DEF LimiterInv
<1>6. ASSUME now' = now, NEW m, InTime(m), ScriptRefuses(m) PROVE LimiterInv' /\ LessThanTwice'
  <2>1. /\ log' = log /\ counted' = counted
        /\ expireAt' \in Nat /\ expireAt' > now
        /\ \E o \in log' : o.score + Window <= expireAt'
    BY <1>1, <1>6, RefusesEffect, LimiterAssumption
  <2>2. KeyExpiry'
    <3>1. \A x \in log : x.score \in Nat /\ x.score <= now
      BY <1>3
    <3> QED BY <1>3, <2>1, <3>1 DEF KeyExpiry
  <2> QED BY <1>1, <1>2, <1>6, <2>1, <2>2
          DEF LimiterInv, InOrder, FewDropped, DroppedSince, Dropped, LessThanTwice, Between
<1>7. ASSUME now' = now, NEW m, InTime(m), ScriptAdds(m) PROVE LimiterInv' /\ LessThanTwice'
  <2>1. KeyExpiry' /\ InOrder' /\ FewDropped'
    BY <1>1, <1>7, AddsInOrder, AddsFewDropped DEF LimiterInv
  <2>2. LessThanTwice'
    BY <1>1, <1>7, <2>1, AddsWindows
  <2> QED BY <1>1, <2>1, <2>2 DEF LimiterInv
<1> QED BY <1>1, <1>4, <1>5, <1>6, <1>7, StepKinds

LEMMA FirstState == Init => LimiterTypes /\ (MaxDelay < Window => LimiterInv /\ LessThanTwice)
<1> SUFFICES ASSUME Init PROVE LimiterTypes /\ (MaxDelay < Window => LimiterInv /\ LessThanTwice)
  OBVIOUS
<1>1. /\ now = 0 /\ log = {} /\ counted = {} /\ expireAt = 0
      /\ adrift = {} /\ member = [c \in Caller |-> None]
  BY DEF Init
<1>2. IsFiniteSet({}) /\ Cardinality({}) = 0
  BY FS_EmptySet
<1>3. Limit \in Nat \ {0} /\ Window \in Nat /\ MaxTime \in Nat /\ MaxDelay \in Nat
  BY LimiterAssumption
<1>4. LimiterTypes
  BY <1>1, <1>2, <1>3 DEF LimiterTypes, TypeOK, Time, Waiting
<1>5. KeyExpiry /\ InOrder
  BY <1>1 DEF KeyExpiry, InOrder, Dropped
<1>6. FewDropped
  <2>1. DroppedSince(now - Window + Lead) = {} /\ DroppedSince(now - Window + Lead - 1) = {}
    BY <1>1 DEF DroppedSince, Dropped
  <2> QED BY <1>2, <1>3, <2>1 DEF FewDropped
<1>7. LessThanTwice
  <2>1. \A f, t : Between(f, t) = {}
    BY <1>1 DEF Between
  <2> QED BY <1>2, <1>3, <2>1 DEF LessThanTwice
<1> QED BY <1>4, <1>5, <1>6, <1>7 DEF LimiterInv

----------------------------------------------------------------------------
(* The process.                                                            *)

\* What is at work in the process, by how far main has come.
ProcessInv ==
    /\ main  \in {"down", "up", "drain", "cancel", "close", "wait"}
    /\ open  = CASE main \in {"up", "drain", "cancel"} -> Backends
                 [] main = "close" -> {"pool"}
                 [] OTHER -> {}
    /\ busy  \subseteq Caller
    /\ \A c \in busy : ~Waiting(c)
    /\ job   \in {"off", "pass", "sleep"}
    /\ stray \in {"none", "pending", "working"}
    /\ main = "down" => job = "off" /\ stray = "none"
    /\ \A c \in Caller : Waiting(c) \/ c \in busy => main \in {"up", "drain"}
    /\ main \in {"close", "wait"} => job = "off"

\* A step of the server is a step of the limiter, or ends the process.
LEMMA LimiterSteps == ServerNext => [Next]_vars \/ Gone
<1> SUFFICES ASSUME ServerNext, ~Gone PROVE [Next]_vars
  OBVIOUS
<1>1. CASE Boot \/ Stop \/ Pass \/ PassEnds \/ JobExits \/ StrayBegins \/ StrayEnds
  BY <1>1 DEF Boot, Stop, Pass, PassEnds, JobExits, StrayBegins, StrayEnds
<1>2. CASE Main
  BY <1>2 DEF Main, Drained, DrainTimeout, CloseRedis, ClosePool, PoolClosed
<1>3. CASE Crash
  BY <1>3 DEF Crash
<1>4. CASE \E c \in Caller : Receive(c) \/ Limited(c) \/ Respond(c)
  BY <1>4 DEF Receive, Limited, Respond, Next
<1>5. CASE Tick \/ Redis
  BY <1>5 DEF Redis, Next
<1> QED BY <1>1, <1>2, <1>3, <1>4, <1>5 DEF ServerNext

LEMMA GoneTypes == LimiterTypes /\ Gone => LimiterTypes'
<1> SUFFICES ASSUME LimiterTypes, Gone PROVE LimiterTypes'
  OBVIOUS
<1>1. UNCHANGED <<now, adrift, log, expireAt, counted>> /\ member' = [c \in Caller |-> None]
  BY DEF Gone
<1> QED BY <1>1 DEF LimiterTypes, TypeOK, InTime, Waiting

LEMMA ProcessSteps == LimiterTypes /\ ProcessInv /\ [ServerNext]_serverVars => ProcessInv'
<1> SUFFICES ASSUME LimiterTypes, ProcessInv, [ServerNext]_serverVars PROVE ProcessInv'
  OBVIOUS
<1>1. None \notin Member /\ now \in Time /\ member \in [Caller -> Member \cup {None}]
  BY LimiterAssumption DEF LimiterTypes, TypeOK, Time, Member
<1>2. ASSUME Gone PROVE ProcessInv'
  BY <1>2 DEF Gone, ProcessInv, Waiting
<1>3. CASE Boot
  BY <1>3 DEF Boot, vars, ProcessInv, Waiting
<1>4. CASE Stop
  BY <1>4 DEF Stop, vars, ProcessInv, Waiting
<1>5. CASE Drained
  BY <1>5 DEF Drained, vars, ProcessInv, Waiting
<1>6. CASE CloseRedis
  BY <1>6 DEF CloseRedis, vars, ProcessInv, Waiting, Backends
<1>7. CASE ClosePool
  BY <1>7 DEF ClosePool, vars, ProcessInv, Waiting, Backends
<1>8. CASE DrainTimeout \/ PoolClosed \/ Crash
  BY <1>2, <1>8 DEF DrainTimeout, PoolClosed, Crash
<1>9. ASSUME NEW c \in Caller, Receive(c) PROVE ProcessInv'
  BY <1>1, <1>9 DEF Receive, Call, processVars, ProcessInv, Waiting
<1>10. ASSUME NEW c \in Caller, Return(c),
              busy' \in {busy, busy \cup {c}}, UNCHANGED <<main, open, job, stray>>
       PROVE  ProcessInv'
  BY <1>1, <1>10 DEF Return, ProcessInv, Waiting
<1>11. ASSUME NEW c \in Caller, Limited(c) PROVE ProcessInv'
  BY <1>10, <1>11 DEF Limited, Admit, FailOpen, Refuse
<1>12. ASSUME NEW c \in Caller, Respond(c) PROVE ProcessInv'
  BY <1>12 DEF Respond, vars, ProcessInv, Waiting
<1>13. CASE Pass \/ PassEnds \/ JobExits
  BY <1>13 DEF Pass, PassEnds, JobExits, Cancelled, vars, ProcessInv, Waiting
<1>14. CASE StrayBegins \/ StrayEnds
  BY <1>14 DEF StrayBegins, StrayEnds, vars, ProcessInv, Waiting
<1>15. CASE Tick /\ UNCHANGED processVars
  BY <1>15 DEF Tick, processVars, ProcessInv, Waiting
<1>16. CASE Redis
  BY <1>16 DEF Redis, Lose, Late, processVars, ProcessInv, Waiting
<1>17. CASE UNCHANGED serverVars
  BY <1>17 DEF serverVars, vars, processVars, ProcessInv, Waiting
<1> QED BY <1>3, <1>4, <1>5, <1>6, <1>7, <1>8, <1>9, <1>11, <1>12, <1>13, <1>14, <1>15, <1>16, <1>17
        DEF ServerNext, Main

----------------------------------------------------------------------------
(* The theorems.                                                           *)

\* What main has closed, what still runs and what the limiter remembers go
\* together in every state, through crashes, restarts and shutdowns.
THEOREM ServerInvariant == ServerSpec => [](LimiterTypes /\ ProcessInv)
<1>1. ServerInit => LimiterTypes /\ ProcessInv
  <2>1. ServerInit => ProcessInv
    BY DEF ServerInit, Init, ProcessInv, Waiting
  <2> QED BY <2>1, FirstState DEF ServerInit
<1>2. LimiterTypes /\ ProcessInv /\ [ServerNext]_serverVars => (LimiterTypes /\ ProcessInv)'
  <2> SUFFICES ASSUME LimiterTypes, ProcessInv, [ServerNext]_serverVars
               PROVE  LimiterTypes' /\ ProcessInv'
    OBVIOUS
  <2>1. [Next]_vars \/ Gone
    BY LimiterSteps DEF serverVars
  <2> QED BY <2>1, TypesKept, GoneTypes, ProcessSteps
<1> QED BY <1>1, <1>2, PTL DEF ServerSpec

\* The script never keeps more than Limit members, nor one for which none has found
\* room; main closes one thing after the other, and a process that has
\* gone leaves nothing running.
THEOREM ServerTypeCorrect == ServerSpec => []ServerTypeOK
<1>1. LimiterTypes /\ ProcessInv => ServerTypeOK
  BY DEF LimiterTypes, ProcessInv, ServerTypeOK
<1> QED BY <1>1, ServerInvariant, PTL

\* No request ever meets a closed Redis or a closed pool, and no pass of the
\* cleanup job a closed pool: main waits for them in the order in which it closes.
THEOREM NothingOnClosed == ServerSpec => []NothingRunsOnClosed
<1>1. ProcessInv => NothingRunsOnClosed
  BY DEF ProcessInv, NothingRunsOnClosed, Backends
<1> QED BY <1>1, ServerInvariant, PTL

\* A request is answered with 429 only when Limit others were counted less than a
\* window before the clock reading it came with, or Limit - 1 when an attempt of
\* its own, sent before, is in the log: whatever is lost, retried or late.
THEOREM RefusalsDue == ServerSpec => RefusedOnlyWhenFull
<1> DEFINE Others(c) == Between(member[c].score - Window, now) \ {member[c]}
           Due == \A c \in Caller :
                    (Waiting(c) /\ ~Waiting(c)' /\ c \notin busy' /\ main' # "down")
                      => Cardinality(Others(c)) >= IF member[c] \in log THEN Limit - 1 ELSE Limit
<1>1. LimiterTypes /\ [ServerNext]_serverVars => [Due]_serverVars
  <2> SUFFICES ASSUME LimiterTypes, [ServerNext]_serverVars,
                      NEW c \in Caller, Waiting(c), ~Waiting(c)', c \notin busy', main' # "down"
               PROVE  Cardinality(Others(c)) >= IF member[c] \in log THEN Limit - 1 ELSE Limit
    OBVIOUS
  <2> DEFINE m == member[c]
  <2>1. /\ member \in [Caller -> Member \cup {None}] /\ None \notin Member
        /\ now \in Time
    BY LimiterAssumption DEF LimiterTypes, TypeOK, Member, Time
  <2>2. m # None /\ member'[c] = None /\ InTime(m)
    BY DEF Waiting, LimiterTypes
  <2>3. Refuse(c)
    <3>1. ~ Gone /\ ~ UNCHANGED member
      BY <2>2 DEF Gone
    <3>2. \E d \in Caller : Receive(d) \/ Limited(d)
      BY <3>1 DEF ServerNext, Boot, Stop, Main, Drained, DrainTimeout, CloseRedis, ClosePool,
                  PoolClosed, Crash, Respond, Redis, Lose, Late, Pass, PassEnds, JobExits,
                  StrayBegins, StrayEnds, Tick, serverVars, vars
    <3>3. ASSUME NEW d \in Caller, Call(d) PROVE FALSE
      <4> DEFINE new == [score |-> now, by |-> d]
      <4>1. member' = [member EXCEPT ![d] = new] /\ new \in Member
        BY <2>1, <3>3 DEF Call, Member
      <4> HIDE DEF new
      <4> QED BY <2>1, <2>2, <4>1
    <3>4. ASSUME NEW d \in Caller, Return(d) PROVE d = c
      BY <2>1, <2>2, <3>4 DEF Return
    <3>5. PICK d \in Caller : Limited(d)
      BY <3>2, <3>3 DEF Receive
    <3>6. d = c
      BY <3>4, <3>5 DEF Limited, Admit, FailOpen, Refuse
    <3> QED BY <3>5, <3>6 DEF Limited
  <2>4. Kept(m.score) = log /\ Cardinality(log) = Limit
    BY <2>2, <2>3, RefusesEffect DEF Refuse
  <2>5. /\ log \subseteq counted /\ IsFiniteSet(counted) /\ IsFiniteSet(log)
        /\ Limit \in Nat \ {0} /\ \A x \in counted : x.score <= now
    BY <2>2, ScriptFacts
  <2>6. log \ {m} \subseteq Others(c) /\ Others(c) \subseteq counted
    BY <2>4, <2>5 DEF Kept, Between
  <2>7. Cardinality(log \ {m}) = IF m \in log THEN Limit - 1 ELSE Limit
    <3> HIDE DEF m
    <3>1. CASE m \in log
      BY <2>4, <2>5, <3>1, FS_RemoveElement
    <3>2. CASE m \notin log
      <4>1. log \ {m} = log
        BY <3>2
      <4> QED BY <2>4, <3>2, <4>1
    <3> QED BY <3>1, <3>2
  <2> HIDE DEF Others
  <2>8. IsFiniteSet(Others(c)) /\ Cardinality(log \ {m}) <= Cardinality(Others(c))
    BY <2>5, <2>6, PartOf
  <2>9. Cardinality(Others(c)) \in Nat
    BY <2>8, FS_CardinalityType
  <2> HIDE DEF m
  <2>10. Cardinality(Others(c)) >= IF m \in log THEN Limit - 1 ELSE Limit
    BY <2>5, <2>7, <2>8, <2>9
  <2> QED BY <2>10 DEF m
<1>2. ServerSpec => []LimiterTypes
  BY ServerInvariant, PTL
<1>3. ServerSpec => [][Due]_serverVars
  BY <1>1, <1>2, PTL DEF ServerSpec
<1> QED BY <1>3 DEF RefusedOnlyWhenFull

\* However long scripts wait for Redis, if it is less than the window: no span
\* of time sees twice as many requests counted as the limit, although the
\* whole log is forgotten when its oldest member leaves the window.
THEOREM FewerThanTwice ==
    ASSUME MaxDelay < Window
    PROVE  ServerSpec => []LessThanTwice
<1>1. ServerInit => LimiterInv /\ LessThanTwice
  BY FirstState DEF ServerInit
<1>2. LimiterInv /\ LessThanTwice /\ [ServerNext]_serverVars => (LimiterInv /\ LessThanTwice)'
  <2> SUFFICES ASSUME LimiterInv, LessThanTwice, [ServerNext]_serverVars
               PROVE  LimiterInv' /\ LessThanTwice'
    OBVIOUS
  <2>1. CASE [Next]_vars
    BY <2>1, LossesKept
  <2>2. CASE Gone
    <3>1. UNCHANGED <<now, adrift, log, expireAt, counted>>
      BY <2>2 DEF Gone
    <3>2. LimiterTypes'
      BY <2>2, GoneTypes DEF LimiterInv
    <3>3. Lead' = Lead /\ Span' = Span
      BY DEF Lead, Span
    <3> QED BY <3>1, <3>2, <3>3
            DEF LimiterInv, KeyExpiry, InOrder, FewDropped, DroppedSince, Dropped,
                LessThanTwice, Between
  <2> QED BY <2>1, <2>2, LimiterSteps DEF serverVars
<1> QED BY <1>1, <1>2, PTL DEF ServerSpec

=============================================================================
