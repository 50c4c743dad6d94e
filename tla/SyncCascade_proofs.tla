-------------------------- MODULE SyncCascade_proofs --------------------------
(***************************************************************************)
(* The safety of POST /sync across the tables, for any requests, devices   *)
(* and days, and of the figures kept in an account's own row.              *)
(*                                                                         *)
(* A request is a chain of statements.  Stage says what holds between two  *)
(* of them of the state so far and of the state the request began with;    *)
(* UpsertStage and DeleteStage show that a statement keeps it, and         *)
(* OutcomeFacts what it comes to once the aggregates are computed again.   *)
(* Across requests this takes CascadeInv: the properties themselves, with  *)
(* finitely many rollups, all of them numbers, so that sums are numbers.   *)
(*                                                                         *)
(* The theorems of Accounts are at the end: the emergency stops, and the   *)
(* figures of an account, whose properties follow from FiguresInv by what  *)
(* the operators compute.  That takes the lemmas which come first, about   *)
(* folds, sorting and pages, and those about the two ways to count a       *)
(* streak.                                                                 *)
(***************************************************************************)
EXTENDS SyncCascade, Accounts, FiniteSetTheorems, SequenceTheorems, WellFoundedInduction, TLAPS

----------------------------------------------------------------------------
(* Folds, and sums as the folds they are.                                  *)

LEMMA LeastNumber ==
    ASSUME NEW S \in SUBSET Nat, S # {}
    PROVE  \E m \in S : \A x \in S : m <= x
<1> DEFINE R == OpToRel(<, Nat)
<1>1. \E m \in S : \A y \in S : ~ (<<y, m>> \in R)
  <2> HIDE DEF R
  <2> QED BY NatLessThanWellFounded, WFMin DEF R
<1>2. PICK m \in S : \A y \in S : ~ (<<y, m>> \in R)
  BY <1>1
<1>3. ASSUME NEW y \in S PROVE m <= y
  <2>1. ~ (<<y, m>> \in R) /\ m \in Nat /\ y \in Nat
    BY <1>2, <1>3
  <2> QED BY <2>1 DEF OpToRel
<1> QED BY <1>3

\* g folds the subsets of S with up to n elements: F takes the element picked
\* from a set and what the rest of the set comes to, a member of T.
FoldUpTo(g, S, n, base, pick, F, T) ==
    LET D == {s \in SUBSET S : Cardinality(s) <= n}
    IN  /\ g = [s \in D |-> IF s = {} THEN base ELSE F[<<pick[s], g[s \ {pick[s]}]>>]]
        /\ \A s \in D : g[s] \in T

Folds(g, S, base, pick, F, T) ==
    /\ g = [s \in SUBSET S |-> IF s = {} THEN base ELSE F[<<pick[s], g[s \ {pick[s]}]>>]]
    /\ \A s \in SUBSET S : g[s] \in T

Picks(pick, S) == \A s \in SUBSET S : s # {} => pick[s] \in s

LEMMA RestSmaller ==
    ASSUME NEW S, IsFiniteSet(S), NEW s \in SUBSET S, NEW x \in s
    PROVE  /\ IsFiniteSet(s) /\ Cardinality(s) \in Nat /\ Cardinality(s) <= Cardinality(S)
           /\ Cardinality(s \ {x}) = Cardinality(s) - 1 /\ Cardinality(s \ {x}) \in Nat
<1>1. IsFiniteSet(s) /\ Cardinality(s) <= Cardinality(S)
  BY FS_Subset
<1>2. IsFiniteSet(s \ {x}) /\ Cardinality(s \ {x}) = Cardinality(s) - 1
  BY <1>1, FS_RemoveElement
<1> QED BY <1>1, <1>2, FS_CardinalityType

\* Such a g exists; the recursive functions that the library's folds choose are
\* of this form.
LEMMA FoldUpToExists ==
    ASSUME NEW S, IsFiniteSet(S), NEW base, NEW pick, Picks(pick, S),
           NEW T, base \in T, NEW F \in [S \X T -> T], NEW n \in Nat
    PROVE  \E g : FoldUpTo(g, S, n, base, pick, F, T)
<1> DEFINE Bad == {k \in Nat : ~ \E g : FoldUpTo(g, S, k, base, pick, F, T)}
           D(k) == {s \in SUBSET S : Cardinality(s) <= k}
<1>1. \A s \in SUBSET S : IsFiniteSet(s) /\ Cardinality(s) \in Nat
  BY FS_Subset, FS_CardinalityType
<1>2. SUFFICES ASSUME Bad # {} PROVE FALSE
  OBVIOUS
<1>3. PICK m \in Bad : \A x \in Bad : m <= x
  <2>1. Bad \in SUBSET Nat
    OBVIOUS
  <2> HIDE DEF Bad
  <2> QED BY <2>1, <1>2, LeastNumber
<1>4. CASE m = 0
  <2> DEFINE g == [s \in D(0) |-> base]
  <2>1. \A s \in D(0) : s = {}
    <3> TAKE s \in D(0)
    <3>1. IsFiniteSet(s) /\ Cardinality(s) = 0
      BY <1>1
    <3> QED BY <3>1, FS_EmptySet
  <2>2. g = [s \in D(0) |-> IF s = {} THEN base ELSE F[<<pick[s], g[s \ {pick[s]}]>>]]
    BY <2>1
  <2>3. FoldUpTo(g, S, 0, base, pick, F, T)
    <3>1. \A s \in D(0) : g[s] \in T
      OBVIOUS
    <3> HIDE DEF g
    <3> QED BY <2>2, <3>1 DEF FoldUpTo
  <2> QED BY <1>3, <1>4, <2>3
<1>5. CASE m > 0
  <2>1. m - 1 \in Nat /\ m \in Nat /\ m - 1 \notin Bad
    BY <1>3, <1>5
  <2>2. PICK g : FoldUpTo(g, S, m - 1, base, pick, F, T)
    BY <2>1
  <2> DEFINE Step(h, s) == IF s = {} THEN base ELSE F[<<pick[s], h[s \ {pick[s]}]>>]
             h == [s \in D(m) |-> Step(g, s)]
  <2>3. ASSUME NEW s \in D(m), s # {} PROVE s \ {pick[s]} \in D(m - 1)
    <3>1. pick[s] \in s /\ Cardinality(s) <= m
      BY <2>3 DEF Picks
    <3>2. Cardinality(s \ {pick[s]}) = Cardinality(s) - 1 /\ Cardinality(s) \in Nat
      BY <3>1, RestSmaller
    <3> QED BY <2>1, <3>1, <3>2
  <2>4. \A s \in D(m - 1) : s \in D(m) /\ g[s] = Step(g, s)
    <3>1. \A s \in D(m - 1) : s \in D(m)
      BY <1>1, <2>1
    <3>2. g = [s \in D(m - 1) |-> Step(g, s)]
      BY <2>2 DEF FoldUpTo
    <3> HIDE DEF D, Step
    <3> QED BY <3>1, <3>2
  <2>5. \A s \in D(m - 1) : h[s] = g[s]
    <3> HIDE DEF D, Step
    <3> QED BY <2>4
  <2>6. \A s \in D(m) : Step(g, s) = Step(h, s)
    <3> HIDE DEF D, h
    <3> QED BY <2>3, <2>5
  <2>7. h = [s \in D(m) |-> Step(h, s)]
    <3> HIDE DEF D, Step
    <3> QED BY <2>6
  <2>8. \A s \in D(m) : h[s] \in T
    <3>1. ASSUME NEW s \in D(m), s # {} PROVE F[<<pick[s], g[s \ {pick[s]}]>>] \in T
      <4>1. g[s \ {pick[s]}] \in T
        BY <2>2, <2>3, <3>1 DEF FoldUpTo
      <4>2. pick[s] \in S
        BY <3>1 DEF Picks
      <4> QED BY <4>1, <4>2
    <3> QED BY <3>1
  <2>9. FoldUpTo(h, S, m, base, pick, F, T)
    <3> HIDE DEF h
    <3> QED BY <2>7, <2>8 DEF FoldUpTo
  <2> QED BY <1>3, <2>9
<1> QED BY <1>3, <1>4, <1>5

LEMMA FoldExists ==
    ASSUME NEW S, IsFiniteSet(S), NEW base, NEW pick, Picks(pick, S),
           NEW T, base \in T, NEW F \in [S \X T -> T]
    PROVE  \E g : Folds(g, S, base, pick, F, T)
<1>1. \A s \in SUBSET S : Cardinality(s) <= Cardinality(S)
  BY FS_Subset
<1>2. {s \in SUBSET S : Cardinality(s) <= Cardinality(S)} = SUBSET S
  BY <1>1
<1>3. Cardinality(S) \in Nat
  BY FS_CardinalityType
<1>4. PICK g : FoldUpTo(g, S, Cardinality(S), base, pick, F, T)
  BY <1>3, FoldUpToExists
<1> QED BY <1>2, <1>4 DEF FoldUpTo, Folds

\* A sum of natural numbers is one.
LEMMA SumType ==
    ASSUME NEW f, IsFiniteSet(DOMAIN f), \A x \in DOMAIN f : f[x] \in Nat
    PROVE  SumFunction(f) \in Nat /\ (DOMAIN f = {} => SumFunction(f) = 0)
<1> DEFINE S == DOMAIN f
           One(s) == CHOOSE x \in s : TRUE
           Sums(g) == g = [s \in SUBSET S |-> IF s = {} THEN 0
                                              ELSE f[One(s)] + g[s \ {One(s)}]]
           it == CHOOSE g : Sums(g)
           pick == [s \in SUBSET S |-> One(s)]
           F == [p \in S \X Nat |-> f[p[1]] + p[2]]
<1>1. \A s \in SUBSET S : s # {} => One(s) \in s
  OBVIOUS
<1>2. Picks(pick, S)
  BY <1>1 DEF Picks
<1>3. F \in [S \X Nat -> Nat]
  OBVIOUS
<1>4. \A x \in S, n \in Nat : F[<<x, n>>] = f[x] + n
  OBVIOUS
<1>5. PICK g : Folds(g, S, 0, pick, F, Nat)
  <2> HIDE DEF F, pick
  <2> QED BY <1>2, <1>3, FoldExists
<1>6. \A s \in SUBSET S : /\ g[s] \in Nat
                          /\ g[s] = IF s = {} THEN 0 ELSE f[One(s)] + g[s \ {One(s)}]
  <2> HIDE DEF F
  <2>1. \A s \in SUBSET S : s \ {One(s)} \in SUBSET S
    OBVIOUS
  <2> HIDE DEF One
  <2>2. \A s \in SUBSET S : /\ g[s] \in Nat /\ g[s \ {One(s)}] \in Nat
                            /\ g[s] = IF s = {} THEN 0 ELSE F[<<One(s), g[s \ {One(s)}]>>]
    BY <1>5, <2>1 DEF Folds
  <2> QED BY <1>1, <1>4, <2>2
<1>7. Sums(g)
  <2>1. g = [s \in SUBSET S |-> g[s]]
    BY <1>5 DEF Folds
  <2> HIDE DEF One
  <2> QED BY <1>6, <2>1
<1>8. Sums(it)
  <2> HIDE DEF Sums
  <2> QED BY <1>7
<1>9. SumFunction(f) = it[S]
  BY DEF SumFunction, SumFunctionOnSet, FoldFunctionOnSet, MapThenFoldSet
<1>10. \A s \in SUBSET S : it[s] = g[s]
  <2> DEFINE Bad == {n \in Nat : \E s \in SUBSET S : Cardinality(s) = n /\ it[s] # g[s]}
  <2> HIDE DEF it
  <2>1. SUFFICES ASSUME Bad # {} PROVE FALSE
    BY FS_Subset, FS_CardinalityType
  <2>2. PICK m \in Bad : \A x \in Bad : m <= x
    <3>1. Bad \in SUBSET Nat
      OBVIOUS
    <3> HIDE DEF Bad
    <3> QED BY <3>1, <2>1, LeastNumber
  <2>3. PICK s \in SUBSET S : Cardinality(s) = m /\ it[s] # g[s]
    BY <2>2
  <2>4. it[s] = IF s = {} THEN 0 ELSE f[One(s)] + it[s \ {One(s)}]
    BY <1>8
  <2> HIDE DEF One
  <2>5. s # {}
    BY <1>6, <2>3, <2>4
  <2>6. Cardinality(s \ {One(s)}) = m - 1 /\ Cardinality(s \ {One(s)}) \in Nat /\ m \in Nat
    BY <1>1, <2>3, <2>5, RestSmaller
  <2>7. it[s \ {One(s)}] = g[s \ {One(s)}]
    <3>1. PICK c \in Nat : c = Cardinality(s \ {One(s)}) /\ c < m
      BY <2>6
    <3>2. c \notin Bad
      <4> HIDE DEF Bad
      <4> QED BY <2>2, <2>6, <3>1
    <3> QED BY <3>1, <3>2
  <2> QED BY <1>6, <2>3, <2>4, <2>5, <2>7
<1> QED BY <1>6, <1>9, <1>10

----------------------------------------------------------------------------
(* Sorting.                                                                *)

\* The members of S that R puts before x.
Earlier(R, S, x) == {y \in S : <<y, x>> \in R}

StrictOrder(R, S) ==
    /\ \A x \in S : <<x, x>> \notin R
    /\ \A x, y, z \in S : <<x, y>> \in R /\ <<y, z>> \in R => <<x, z>> \in R
    /\ \A x, y \in S : x # y => <<x, y>> \in R \/ <<y, x>> \in R

SortedBy(R, S, s) ==
    /\ s \in [1..Cardinality(S) -> S]
    /\ \A i, j \in 1..Cardinality(S) : i < j => <<s[i], s[j]>> \in R

\* The numbers up to n.
LEMMA UpTo ==
    ASSUME NEW n \in Nat
    PROVE  IsFiniteSet(1..n) /\ Cardinality(1..n) = n
BY FS_Interval

\* A finite set can be sorted: put each member where its number of earlier ones says.
LEMMA SortExists ==
    ASSUME NEW S, IsFiniteSet(S), NEW R, StrictOrder(R, S)
    PROVE  \E s : SortedBy(R, S, s)
<1> DEFINE n == Cardinality(S)
           f == [x \in S |-> Cardinality(Earlier(R, S, x)) + 1]
<1>1. n \in Nat
  BY FS_CardinalityType
<1>2. ASSUME NEW x \in S
      PROVE  /\ IsFiniteSet(Earlier(R, S, x)) /\ Cardinality(Earlier(R, S, x)) \in Nat
             /\ Cardinality(Earlier(R, S, x)) < n
  <2>1. Earlier(R, S, x) \in SUBSET S /\ Earlier(R, S, x) # S
    BY DEF Earlier, StrictOrder
  <2>2. /\ IsFiniteSet(Earlier(R, S, x)) /\ Cardinality(Earlier(R, S, x)) <= n
        /\ Cardinality(S) = Cardinality(Earlier(R, S, x)) => S = Earlier(R, S, x)
    BY <2>1, FS_Subset
  <2> QED BY <1>1, <2>1, <2>2, FS_CardinalityType
<1>3. ASSUME NEW x \in S, NEW y \in S, <<x, y>> \in R PROVE f[x] < f[y]
  <2>1. /\ Earlier(R, S, x) \in SUBSET Earlier(R, S, y)
        /\ x \in Earlier(R, S, y) /\ x \notin Earlier(R, S, x)
    BY <1>3 DEF Earlier, StrictOrder
  <2>2. /\ Cardinality(Earlier(R, S, x)) <= Cardinality(Earlier(R, S, y))
        /\ Cardinality(Earlier(R, S, y)) = Cardinality(Earlier(R, S, x)) =>
             Earlier(R, S, y) = Earlier(R, S, x)
    BY <2>1, <1>2, FS_Subset
  <2> QED BY <1>2, <2>1, <2>2
<1>4. f \in [S -> 1..n]
  BY <1>1, <1>2
<1>5. \A x, y \in S : f[x] = f[y] => x = y
  <2> TAKE x, y \in S
  <2>1. f[x] \in Int /\ f[y] \in Int
    BY <1>4
  <2>2. <<x, y>> \in R => f[x] < f[y]
    BY <1>3
  <2>3. <<y, x>> \in R => f[y] < f[x]
    BY <1>3
  <2> HIDE DEF f
  <2>4. f[x] = f[y] => ~ (f[x] < f[y]) /\ ~ (f[y] < f[x])
    BY <2>1
  <2> QED BY <2>2, <2>3, <2>4 DEF StrictOrder
<1>6. \A i \in 1..n : \E x \in S : f[x] = i
  <2> HIDE DEF f
  <2>1. f \in Injection(S, 1..n)
    BY <1>4, <1>5 DEF Injection, IsInjective
  <2>2. IsFiniteSet(1..n) /\ Cardinality(1..n) = Cardinality(S)
    BY <1>1, UpTo
  <2>3. f \in Surjection(S, 1..n)
    BY <2>1, <2>2, FS_Injection
  <2> QED BY <2>3 DEF Surjection
<1> DEFINE s == [i \in 1..n |-> CHOOSE x \in S : f[x] = i]
<1>7. \A i \in 1..n : s[i] \in S /\ f[s[i]] = i
  <2> HIDE DEF f
  <2> QED BY <1>6
<1>8. \A i, j \in 1..n : i < j => <<s[i], s[j]>> \in R
  <2> TAKE i, j \in 1..n
  <2> HAVE i < j
  <2>1. i \in Int /\ j \in Int
    BY <1>1
  <2>2. ~ (<<s[j], s[i]>> \in R)
    <3> HIDE DEF f, s
    <3> QED BY <1>3, <1>7, <2>1
  <2>3. s[i] # s[j]
    <3> HIDE DEF f, s
    <3> QED BY <1>7, <2>1
  <2> HIDE DEF s
  <2> QED BY <1>7, <2>2, <2>3 DEF StrictOrder
<1>9. s \in [1..n -> S]
  BY <1>7
<1> HIDE DEF s
<1> QED BY <1>8, <1>9 DEF SortedBy

\* Each member comes once, after as many as are earlier.
LEMMA SortFacts ==
    ASSUME NEW S, IsFiniteSet(S), NEW R, StrictOrder(R, S), NEW s, SortedBy(R, S, s)
    PROVE  /\ Cardinality(S) \in Nat
           /\ \A i, j \in 1..Cardinality(S) : s[i] = s[j] => i = j
           /\ \A x \in S : \E i \in 1..Cardinality(S) : s[i] = x
           /\ \A i \in 1..Cardinality(S) : Cardinality(Earlier(R, S, s[i])) = i - 1
<1> DEFINE n == Cardinality(S)
<1>1. n \in Nat
  BY FS_CardinalityType
<1>2. s \in [1..n -> S] /\ \A i, j \in 1..n : i < j => <<s[i], s[j]>> \in R
  BY DEF SortedBy
<1>3. \A i, j \in 1..n : s[i] = s[j] => i = j
  <2> TAKE i, j \in 1..n
  <2> HAVE s[i] = s[j]
  <2>1. i \in Int /\ j \in Int
    BY <1>1
  <2>2. ~ (i < j) /\ ~ (j < i)
    BY <1>2 DEF StrictOrder
  <2> QED BY <2>1, <2>2
<1>4. \A x \in S : \E i \in 1..n : s[i] = x
  <2>1. s \in Injection(1..n, S)
    BY <1>2, <1>3 DEF Injection, IsInjective
  <2>2. Cardinality(1..n) = n
    BY <1>1, UpTo
  <2>3. s \in Surjection(1..n, S)
    BY <2>1, <2>2, FS_Injection
  <2> QED BY <2>3 DEF Surjection
<1>5. ASSUME NEW i \in 1..n PROVE Cardinality(Earlier(R, S, s[i])) = i - 1
  <2> DEFINE g == [j \in 1..(i - 1) |-> s[j]]
             E == Earlier(R, S, s[i])
  <2>1. \A j \in 1..(i - 1) : j \in 1..n /\ j < i
    BY <1>1
  <2>2. \A y \in E : \E j \in 1..(i - 1) : s[j] = y
    <3> TAKE y \in E
    <3>1. PICK j \in 1..n : s[j] = y
      BY <1>4 DEF Earlier
    <3>2. <<s[j], s[i]>> \in R /\ s[i] \in S /\ s[j] \in S
      BY <1>2, <3>1 DEF Earlier
    <3>3. ~ (i < j) /\ i # j
      BY <1>2, <3>2 DEF StrictOrder
    <3>4. j \in 1..(i - 1)
      BY <1>1, <3>3
    <3> QED BY <3>1, <3>4
  <2>3. \A j \in 1..(i - 1) : s[j] \in E
    BY <1>2, <2>1 DEF Earlier
  <2>4. g \in Surjection(1..(i - 1), E)
    <3> HIDE DEF E
    <3> QED BY <2>2, <2>3 DEF Surjection
  <2>5. g \in Injection(1..(i - 1), E)
    <3> HIDE DEF E
    <3> QED BY <1>3, <2>1, <2>3 DEF Injection, IsInjective
  <2>6. IsFiniteSet(1..(i - 1)) /\ Cardinality(1..(i - 1)) = i - 1
    <3>1. PICK p \in Nat : p = i - 1
      BY <1>1
    <3>2. IsFiniteSet(1..p) /\ Cardinality(1..p) = p
      BY UpTo
    <3> QED BY <3>1, <3>2
  <2> HIDE DEF g, E
  <2>7. Cardinality(E) = i - 1
    BY <2>4, <2>5, <2>6, FS_Surjection
  <2> QED BY <2>7 DEF E
<1> QED BY <1>1, <1>3, <1>4, <1>5

----------------------------------------------------------------------------
(* Pages.                                                                  *)

LEMMA MinTwo ==
    ASSUME NEW a \in Int, NEW b \in Int
    PROVE  Min({a, b}) = IF a <= b THEN a ELSE b
<1> DEFINE m == IF a <= b THEN a ELSE b
<1>1. m \in {a, b} /\ \A y \in {a, b} : m <= y
  OBVIOUS
<1>2. \A x \in {a, b} : (\A y \in {a, b} : x <= y) => x = m
  OBVIOUS
<1> HIDE DEF m
<1> QED BY <1>1, <1>2 DEF Min, m

LEMMA MaxTwo ==
    ASSUME NEW a \in Int, NEW b \in Int
    PROVE  Max({a, b}) = IF a >= b THEN a ELSE b
<1> DEFINE m == IF a >= b THEN a ELSE b
<1>1. m \in {a, b} /\ \A y \in {a, b} : m >= y
  OBVIOUS
<1>2. \A x \in {a, b} : (\A y \in {a, b} : x >= y) => x = m
  OBVIOUS
<1> HIDE DEF m
<1> QED BY <1>1, <1>2 DEF Max, m

\* The first n of s, all of them if there are fewer.
First(s, n) == SubSeq(s, 1, IF n <= Len(s) THEN n ELSE Len(s))

\* What comes after the first n of s, up to n + k.
Following(s, n, k) == SubSeq(s, n + 1, IF n + k <= Len(s) THEN n + k ELSE Len(s))

LEMMA FirstFacts ==
    ASSUME NEW T, NEW s \in Seq(T), NEW n \in Nat
    PROVE  /\ First(s, n) \in Seq(T)
           /\ Len(First(s, n)) = IF n <= Len(s) THEN n ELSE Len(s)
           /\ \A i \in 1..Len(First(s, n)) : First(s, n)[i] = s[i]
           /\ n >= Len(s) => First(s, n) = s
<1>1. Len(s) \in Nat
  OBVIOUS
<1>2. CASE n <= Len(s)
  <2>1. First(s, n) = SubSeq(s, 1, n)
    BY <1>2 DEF First
  <2>2. n = Len(s) => First(s, n) = s
    BY <2>1, SubSeqFull
  <2> QED BY <1>1, <1>2, <2>1, <2>2
<1>3. CASE ~ (n <= Len(s))
  <2>1. First(s, n) = s
    BY <1>3, SubSeqFull DEF First
  <2> QED BY <1>1, <1>3, <2>1
<1> QED BY <1>2, <1>3

LEMMA FirstAndFollowing ==
    ASSUME NEW T, NEW s \in Seq(T), NEW n \in Nat, NEW k \in Nat
    PROVE  First(s, n) \o Following(s, n, k) = First(s, n + k)
<1> DEFINE f == Following(s, n, k)
           l == IF n >= Len(s) THEN 0 ELSE IF n + k <= Len(s) THEN k ELSE Len(s) - n
<1>1. Len(s) \in Nat /\ l \in Nat
  OBVIOUS
<1>2. f \in Seq(T) /\ Len(f) = l /\ \A i \in 1..l : f[i] = s[n + i]
  <2>1. CASE n >= Len(s)
    BY <2>1 DEF Following
  <2>2. CASE n < Len(s)
    BY <2>2 DEF Following
  <2> QED BY <2>1, <2>2
<1>3. /\ First(s, n) \in Seq(T) /\ Len(First(s, n)) \in Nat
      /\ Len(First(s, n)) = IF n <= Len(s) THEN n ELSE Len(s)
      /\ \A i \in 1..Len(First(s, n)) : First(s, n)[i] = s[i]
  BY FirstFacts
<1>4. n + k \in Nat
  OBVIOUS
<1>5. /\ First(s, n + k) \in Seq(T) /\ Len(First(s, n + k)) \in Nat
      /\ Len(First(s, n + k)) = IF n + k <= Len(s) THEN n + k ELSE Len(s)
      /\ \A i \in 1..Len(First(s, n + k)) : First(s, n + k)[i] = s[i]
  <2>1. PICK o \in Nat : o = n + k
    BY <1>4
  <2>2. /\ First(s, o) \in Seq(T)
        /\ Len(First(s, o)) = IF o <= Len(s) THEN o ELSE Len(s)
        /\ \A i \in 1..Len(First(s, o)) : First(s, o)[i] = s[i]
    BY FirstFacts
  <2> QED BY <1>1, <2>1, <2>2
<1> HIDE DEF f
<1>6. /\ First(s, n) \o f \in Seq(T)
      /\ Len(First(s, n) \o f) = Len(First(s, n + k))
  BY <1>1, <1>2, <1>3, <1>5
<1>7. ASSUME NEW i \in 1..Len(First(s, n + k))
      PROVE  (First(s, n) \o f)[i] = First(s, n + k)[i]
  <2>1. CASE i <= Len(First(s, n))
    <3>1. (First(s, n) \o f)[i] = First(s, n)[i]
      BY <1>2, <1>3, <1>6, <2>1
    <3> QED BY <1>3, <1>5, <2>1, <3>1
  <2>2. CASE i > Len(First(s, n))
    <3>1. Len(First(s, n)) = n /\ i - n \in 1..l
      <4>1. Len(First(s, n)) = n /\ i > n /\ i \in Int
        BY <1>1, <1>3, <1>5, <2>2
      <4>2. i <= n + k /\ i <= Len(s)
        BY <1>1, <1>5, <4>1
      <4> QED BY <1>1, <4>1, <4>2
    <3>2. (First(s, n) \o f)[i] = f[i - n]
      <4>1. i \in 1..(Len(First(s, n)) + Len(f)) /\ Len(First(s, n)) = n /\ i > n
        BY <1>1, <1>2, <2>2, <3>1
      <4>2. First(s, n) \in Seq(T) /\ f \in Seq(T)
        BY <1>2, <1>3
      <4> HIDE DEF l
      <4> QED BY <4>1, <4>2
    <3> QED BY <1>2, <1>5, <3>1, <3>2
  <2>3. i \in Int
    BY <1>5
  <2>4. i <= Len(First(s, n)) \/ i > Len(First(s, n))
    BY <1>3, <2>3
  <2> QED BY <2>1, <2>2, <2>4
<1>8. First(s, n) \o f = First(s, n + k)
  BY <1>5, <1>6, <1>7, SeqEqual
<1> QED BY <1>8 DEF f

\* The pages of a sequence, one after the other, are the sequence.
LEMMA PagesFlattened ==
    ASSUME NEW T, NEW s \in Seq(T), NEW k \in Nat \ {0}, NEW n \in Nat \ {0}, Len(s) <= n,
           NEW pages, pages = [p \in 1..n |-> Following(s, (p - 1) * k, k)]
    PROVE  FlattenSeq(pages) = s
<1> DEFINE Flat(g) == g = [i \in 1..n |-> IF i = 1 THEN pages[i] ELSE g[i - 1] \o pages[i]]
           h == [i \in 1..n |-> First(s, i * k)]
           it == CHOOSE g : Flat(g)
<1>1. Len(pages) = n /\ n # 0
  OBVIOUS
<1>2. FlattenSeq(pages) = it[n]
  BY <1>1 DEF FlattenSeq
<1>3. \A i \in 1..n : /\ i * k \in Nat /\ (i - 1) * k \in Nat
                      /\ i * k = (i - 1) * k + k
  OBVIOUS
<1>4. \A i \in 1..n : First(s, (i - 1) * k) \o pages[i] = First(s, i * k)
  <2> TAKE i \in 1..n
  <2>1. pages[i] = Following(s, (i - 1) * k, k)
    OBVIOUS
  <2>2. PICK o \in Nat : o = (i - 1) * k
    BY <1>3
  <2>3. First(s, o) \o Following(s, o, k) = First(s, o + k)
    BY FirstAndFollowing
  <2> QED BY <1>3, <2>1, <2>2, <2>3
<1>5. pages[1] = First(s, 1 * k)
  <2>1. pages[1] = Following(s, (1 - 1) * k, k)
    OBVIOUS
  <2>2. (1 - 1) * k = 0 /\ 1 * k = k
    OBVIOUS
  <2>3. Following(s, 0, k) = First(s, k)
    BY DEF Following, First
  <2> QED BY <2>1, <2>2, <2>3
<1>6. Flat(h)
  <2>1. ASSUME NEW i \in 1..n PROVE h[i] = IF i = 1 THEN pages[i] ELSE h[i - 1] \o pages[i]
    <3>1. CASE i = 1
      BY <3>1, <1>5
    <3>2. CASE i # 1
      <4>1. i - 1 \in 1..n
        BY <3>2
      <4>2. h[i - 1] = First(s, (i - 1) * k) /\ h[i] = First(s, i * k)
        BY <4>1
      <4> QED BY <3>2, <4>2, <1>4
    <3> QED BY <3>1, <3>2
  <2>2. h = [i \in 1..n |-> h[i]]
    OBVIOUS
  <2> HIDE DEF h
  <2> QED BY <2>1, <2>2
<1>7. Flat(it)
  <2> HIDE DEF Flat
  <2> QED BY <1>6
<1>8. \A i \in 1..n : it[i] = h[i]
  <2> DEFINE Bad == {i \in 1..n : it[i] # h[i]}
  <2> HIDE DEF it, h
  <2>1. SUFFICES ASSUME Bad # {} PROVE FALSE
    OBVIOUS
  <2>2. PICK m \in Bad : \A x \in Bad : m <= x
    <3>1. Bad \in SUBSET Nat
      OBVIOUS
    <3> HIDE DEF Bad
    <3> QED BY <3>1, <2>1, LeastNumber
  <2>3. CASE m = 1
    BY <1>6, <1>7, <2>2, <2>3
  <2>4. CASE m # 1
    <3>1. m - 1 \in 1..n /\ m - 1 \notin Bad
      <4>1. m \in 1..n
        BY <2>2
      <4>2. m - 1 \in 1..n /\ ~ (m <= m - 1)
        BY <2>4, <4>1
      <4> HIDE DEF Bad
      <4> QED BY <2>2, <4>2
    <3>2. it[m - 1] = h[m - 1]
      BY <3>1
    <3>3. m \in 1..n /\ it[m] = it[m - 1] \o pages[m]
      BY <1>7, <2>2, <2>4
    <3>4. h[m] = h[m - 1] \o pages[m]
      BY <1>6, <2>4, <3>3
    <3> QED BY <2>2, <3>2, <3>3, <3>4
  <2> QED BY <2>3, <2>4
<1>9. PICK l \in Nat : l = n * k
  OBVIOUS
<1>10. l >= Len(s)
  <2>1. n * k >= n
    OBVIOUS
  <2>2. l >= n
    BY <1>9, <2>1
  <2>3. PICK c \in Nat : c = Len(s)
    OBVIOUS
  <2>4. c <= n /\ n \in Nat
    BY <2>3
  <2>5. l >= c
    BY <2>2, <2>4
  <2> QED BY <2>3, <2>5
<1>11. First(s, l) = s
  BY <1>10, FirstFacts
<1>12. it[n] = First(s, n * k)
  <2> HIDE DEF it
  <2> QED BY <1>8
<1> HIDE DEF it
<1> QED BY <1>2, <1>9, <1>11, <1>12

----------------------------------------------------------------------------
(* The tables and what refers to what.                                     *)

LEMMA Names ==
    /\ Modes \in Table /\ Sess \in Table /\ Events \in Table /\ Rolls \in Table
    /\ Modes # Sess /\ Modes # Events /\ Modes # Rolls
    /\ Sess # Events /\ Sess # Rolls /\ Events # Rolls
    /\ Aggs \notin Table
BY DEF Table, Modes, Apps, Scheds, Sess, Events, Chips, Codes, Rolls, Aggs

LEMMA LiveRows ==
    ASSUME NEW rs
    PROVE  /\ \A t, k : <<t, k>> \in Live(rs) <=> t \in Table /\ k \in DOMAIN rs[t]
           /\ \A x \in Live(rs) : x = <<x[1], x[2]>> /\ x[1] \in Table /\ x[2] \in DOMAIN rs[x[1]]
BY DEF Live

LEMMA ParentRows ==
    ASSUME NEW t \in Table, NEW k, NEW v, NEW p \in Parents(t, k, v)
    PROVE  /\ p = <<p[1], p[2]>> /\ p[1] \in {Modes, Sess}
           /\ t # Modes /\ p[1] # t
           /\ t = Sess => p = <<Modes, v>>
           /\ t = Rolls => p[1] = Sess
           /\ p[1] = Sess => t \in {Events, Rolls}
           /\ t = Events => p \in {<<Sess, v[1]>>, <<Modes, v[2]>>}
BY DEF Parents, Table, Modes, Apps, Scheds, Sess, Events, Chips, Codes, Rolls

LEMMA EventParents ==
    ASSUME NEW k, NEW v
    PROVE  Parents(Events, k, v) = {<<Sess, v[1]>>, <<Modes, v[2]>>}
BY DEF Parents, Modes, Apps, Scheds, Sess, Events, Chips, Codes, Rolls

LEMMA SessionParents ==
    ASSUME NEW k, NEW v
    PROVE  Parents(Sess, k, v) = {<<Modes, v>>}
BY DEF Parents, Modes, Apps, Scheds, Sess, Events, Chips, Codes, Rolls

\* What refers to a row of S.
LEMMA ChildRows ==
    ASSUME NEW rs, NEW S
    PROVE  \A t, k : <<t, k>> \in Children(rs, S) <=>
             /\ t \in Table /\ k \in DOMAIN rs[t]
             /\ \E p \in S : p \in Parents(t, k, rs[t][k])
<1>1. Children(rs, S) = {x \in Live(rs) : \E p \in S : p \in Parents(x[1], x[2], rs[x[1]][x[2]])}
  BY DEF Children
<1> QED BY <1>1, LiveRows

\* Everything that refers to a doomed row is doomed: references are not longer
\* than from an event or a rollup to a session to a mode.
LEMMA DoomedClosed ==
    ASSUME NEW rs, NEW S, \A x \in S : x \in Live(rs),
           NEW t \in Table, NEW k \in DOMAIN rs[t],
           NEW p \in Parents(t, k, rs[t][k]), p \in Doomed(rs, S)
    PROVE  <<t, k>> \in Doomed(rs, S)
<1> DEFINE c == Children(rs, S)
           cc == Children(rs, c)
<1>1. Doomed(rs, S) = S \cup c \cup cc
  BY DEF Doomed
<1>2. CASE p \in S
  BY <1>1, <1>2, ChildRows
<1>3. CASE p \in c
  <2> HIDE DEF c
  <2>1. <<t, k>> \in Children(rs, c)
    BY <1>3, ChildRows
  <2> QED BY <1>1, <2>1 DEF c
<1>4. CASE p \in cc
  <2>1. p = <<p[1], p[2]>> /\ p[1] \in {Modes, Sess}
    BY ParentRows
  <2> HIDE DEF c
  <2>2. /\ p[1] \in Table /\ p[2] \in DOMAIN rs[p[1]]
        /\ \E q \in c : q \in Parents(p[1], p[2], rs[p[1]][p[2]])
    BY <1>4, <2>1, ChildRows
  <2>3. PICK q \in c : q \in Parents(p[1], p[2], rs[p[1]][p[2]])
    BY <2>2
  <2>4. q = <<q[1], q[2]>> /\ q[1] = Modes
    <3>1. p[1] # Modes
      BY <2>2, <2>3, ParentRows
    <3>2. p[1] = Sess
      BY <2>1, <3>1
    <3>3. q = <<Modes, rs[p[1]][p[2]]>>
      BY <2>2, <2>3, <3>2, ParentRows
    <3> QED BY <3>3
  <2>5. \E o \in S : o \in Parents(Modes, q[2], rs[Modes][q[2]])
    <3>1. <<Modes, q[2]>> \in Children(rs, S)
      BY <2>3, <2>4 DEF c
    <3> QED BY <3>1, ChildRows
  <2> QED BY <2>5, ParentRows, Names
<1> QED BY <1>1, <1>2, <1>3, <1>4

\* What is collected is doomed; of what is doomed, only events that are found
\* through their session alone are not collected.
LEMMA DoomedCollected ==
    ASSUME NEW rs, NEW t \in Table, NEW S,
           \A x \in S : x = <<t, x[2]>> /\ x[2] \in DOMAIN rs[t]
    PROVE  /\ S \cup Collected(rs, S) \subseteq Doomed(rs, S)
           /\ Doomed(rs, S) \subseteq Live(rs)
           /\ \A x \in Doomed(rs, S) \ (S \cup Collected(rs, S)) :
                /\ t = Modes /\ x[1] = Events
                /\ LET ev == rs[Events][x[2]] IN rs[Sess][ev[1]] # ev[2]
<1> DEFINE c == Children(rs, S)
           cc == Children(rs, c)
<1>1. Doomed(rs, S) = S \cup c \cup cc
  BY DEF Doomed
<1>2. Collected(rs, S) = c \cup {x \in cc : x[1] = Rolls}
  BY DEF Collected
<1>3. S \subseteq Live(rs) /\ \A x \in S : x = <<x[1], x[2]>> /\ x[1] = t
  BY LiveRows
<1>4. c \subseteq Live(rs) /\ cc \subseteq Live(rs)
  BY DEF Children
<1>5. ASSUME NEW x \in cc, x \notin S, x \notin c, x[1] # Rolls
      PROVE  /\ t = Modes /\ x[1] = Events
             /\ LET ev == rs[Events][x[2]] IN rs[Sess][ev[1]] # ev[2]
  <2>1. /\ x = <<x[1], x[2]>> /\ x[1] \in Table /\ x[2] \in DOMAIN rs[x[1]]
    BY <1>4, <1>5, LiveRows
  <2>2. PICK q \in c : q \in Parents(x[1], x[2], rs[x[1]][x[2]])
    <3> HIDE DEF c
    <3>1. <<x[1], x[2]>> \in Children(rs, c)
      BY <1>5, <2>1
    <3> QED BY <3>1, ChildRows
  <2>3. /\ q = <<q[1], q[2]>> /\ q[1] \in Table
        /\ \E p \in S : p \in Parents(q[1], q[2], rs[q[1]][q[2]])
    <3>1. q = <<q[1], q[2]>>
      BY <2>1, <2>2, ParentRows
    <3> QED BY <2>2, <3>1, ChildRows DEF c
  <2>4. PICK p \in S : p \in Parents(q[1], q[2], rs[q[1]][q[2]])
    BY <2>3
  <2>5. q[1] = Sess
    <3>1. q[1] # Modes
      BY <2>3, <2>4, ParentRows
    <3> QED BY <2>1, <2>2, <3>1, ParentRows
  <2>6. x[1] = Events
    BY <1>5, <2>1, <2>2, <2>5, ParentRows
  <2>7. p = <<Modes, rs[Sess][q[2]]>> /\ t = Modes
    BY <1>3, <2>3, <2>4, <2>5, ParentRows, Names
  <2> DEFINE ev == rs[Events][x[2]]
  <2>8. q = <<Sess, ev[1]>>
    BY <2>1, <2>2, <2>5, <2>6, ParentRows, Names
  <2>9. <<Modes, ev[2]>> \notin S
    <3>1. <<Modes, ev[2]>> \in Parents(x[1], x[2], rs[x[1]][x[2]])
      BY <2>6, EventParents
    <3>2. \A o \in S : o \notin Parents(x[1], x[2], rs[x[1]][x[2]])
      BY <1>5, <2>1, ChildRows DEF c
    <3> QED BY <3>1, <3>2
  <2> QED BY <2>4, <2>6, <2>7, <2>8, <2>9
<1> QED BY <1>1, <1>2, <1>3, <1>4, <1>5

----------------------------------------------------------------------------
(* What holds between two tables of a request.                             *)

RefsKept(rs) ==
    \A t \in Table : \A k \in DOMAIN rs[t] : Parents(t, k, rs[t][k]) \subseteq Live(rs)

UniqueKept(rs) ==
    \A t \in Table : \A k \in DOMAIN rs[t] : ~Clashes(rs[t], t, k, rs[t][k])

GoodRolls(r) ==
    /\ IsFiniteSet(DOMAIN r)
    /\ \A k \in DOMAIN r : k[2] \in Day /\ r[k] \in Nat

HasPut(req, t, k) == \E i \in Puts(req, t) : req[i].key = k

\* An event that is found through its session alone.
Missed(t, k) ==
    t = Events /\ LET ev == rows[Events][k] IN rows[Sess][ev[1]] # ev[2]

StageTypes(db) ==
    /\ db.rows = [t \in Table |-> db.rows[t]]
    /\ db.tomb = [t \in Table \cup {Aggs} |-> db.tomb[t]]
    /\ db.tomb[Aggs] = tomb[Aggs]

StageSound(db) == db.ok => RefsKept(db.rows) /\ UniqueKept(db.rows)

StageTombs(db) == \A t \in Table \ {Events} : DOMAIN db.rows[t] \cap db.tomb[t] = {}

StageDays(req, db) ==
    \A day : day \notin db.days \cup OwnDays(req) =>
        RollupsOf(db.rows[Rolls], day) = RollupsOf(rows[Rolls], day)

\* What has gone since the request began has a tombstone.
StageLeft(db) ==
    \A t \in Table : \A k \in DOMAIN rows[t] \ DOMAIN db.rows[t] :
        k \in db.tomb[t] \/ Missed(t, k)

\* What has come is in the request.
StageKeys(req, db) ==
    \A t \in Table : \A k \in DOMAIN db.rows[t] \ DOMAIN rows[t] : HasPut(req, t, k)

\* What has a tombstone since was there, or is in the request.
StageDue(req, db) ==
    \A t \in Table : \A k \in db.tomb[t] \ tomb[t] :
        /\ k \in DOMAIN rows[t] \/ HasPut(req, t, k)
        /\ k \in DOMAIN db.rows[t] => HasPut(req, t, k)

Stage(req, db) ==
    /\ StageTypes(db) /\ StageSound(db) /\ StageTombs(db)
    /\ GoodRolls(db.rows[Rolls]) /\ StageDays(req, db)
    /\ StageLeft(db) /\ StageKeys(req, db) /\ StageDue(req, db)

LEMMA RequestFacts ==
    ASSUME NEW req \in Request
    PROVE  /\ DOMAIN req \subseteq Nat /\ IsFiniteSet(DOMAIN req)
           /\ \A i, j \in DOMAIN req :
                req[i].put /\ req[i].t = req[j].t /\ req[i].key = req[j].key => i = j
           /\ \A i \in DOMAIN req : req[i].t = Rolls /\ req[i].put =>
                req[i].key[2] \in Day /\ req[i].val \in Nat
           /\ Dels(req, Events) = {}
<1>1. Valid(req)
  BY RequestAssumption
<1>2. req \in Seq(Range(req))
  BY <1>1 DEF Valid
<1>3. DOMAIN req = 1 .. Len(req) /\ Len(req) \in Nat
  BY <1>2
<1>4. IsFiniteSet(1 .. Len(req))
  BY <1>3, FS_Interval
<1> QED BY <1>1, <1>3, <1>4 DEF Valid, Dels

\* One table of db after the upserts at positions w.
Upserted(req, t, db, new, w) ==
    LET old == db.rows[t]
        K   == Keys(req, w)
    IN  /\ StageTypes(new) /\ new.days = db.days
        /\ \A u \in Table : u # t => new.rows[u] = db.rows[u] /\ new.tomb[u] = db.tomb[u]
        /\ DOMAIN new.rows[t] = DOMAIN old \cup K
        /\ new.tomb[t] = IF t = Events THEN db.tomb[t] ELSE db.tomb[t] \ K
        /\ w \subseteq Puts(req, t)
        /\ \A i \in w : new.rows[t][req[i].key] = req[i].val
        /\ \A k \in K : HasPut(req, t, k) /\ \E i \in w : req[i].key = k
        /\ \A k \in DOMAIN old \ K : new.rows[t][k] = old[k]
        /\ new.ok => /\ db.ok /\ Unique(req, t, old, w)
                     /\ Refers(db.rows, t, new.rows[t], K)

LEMMA UpsertFacts ==
    ASSUME NEW req \in Request, NEW t \in Table, NEW db, StageTypes(db),
           NEW w \in Written(req, t, db.rows[t])
    PROVE  Upserted(req, t, db, ApplyUpserts(db, t, req, w), w)
<1> DEFINE new == ApplyUpserts(db, t, req, w)
           old == db.rows[t]
           K   == Keys(req, w)
           r   == After(old, req, w)
<1>1. /\ new.rows = [db.rows EXCEPT ![t] = r] /\ new.days = db.days
      /\ new.tomb = [db.tomb EXCEPT ![t] = IF t = Events THEN @ ELSE @ \ K]
      /\ new.ok = (db.ok /\ Unique(req, t, old, w) /\ Refers(db.rows, t, r, K))
  BY DEF ApplyUpserts
<1>2. w \subseteq Puts(req, t) /\ w \subseteq DOMAIN req /\ \A i \in w : req[i].t = t
  BY DEF Written, Puts
<1>3. r = [k \in DOMAIN old \cup K |->
             IF k \in K THEN req[CHOOSE i \in w : req[i].key = k].val ELSE old[k]]
  BY DEF After
<1>4. K = {req[i].key : i \in w}
  BY DEF Keys
<1> HIDE DEF new, old, r, K
<1>5. \A i, j \in w : req[i].key = req[j].key => i = j
  BY <1>2, RequestFacts DEF Puts
<1>6. ASSUME NEW i \in w PROVE r[req[i].key] = req[i].val
  <2>1. (CHOOSE j \in w : req[j].key = req[i].key) = i
    BY <1>5, <1>6
  <2> QED BY <1>3, <1>4, <1>6, <2>1
<1>7. /\ DOMAIN r = DOMAIN old \cup K
      /\ \A k \in DOMAIN old \ K : r[k] = old[k]
  BY <1>3
<1>8. t # Aggs
  BY Names
<1>9. /\ new.rows = [u \in Table |-> new.rows[u]]
      /\ new.tomb = [u \in Table \cup {Aggs} |-> new.tomb[u]]
      /\ new.tomb[Aggs] = tomb[Aggs]
      /\ new.rows[t] = r
      /\ new.tomb[t] = IF t = Events THEN db.tomb[t] ELSE db.tomb[t] \ K
      /\ \A u \in Table : u # t => new.rows[u] = db.rows[u] /\ new.tomb[u] = db.tomb[u]
  BY <1>1, <1>8 DEF StageTypes
<1>10. StageTypes(new)
  BY <1>9 DEF StageTypes
<1>11. \A k \in K : HasPut(req, t, k) /\ \E i \in w : req[i].key = k
  BY <1>2, <1>4 DEF HasPut
<1>12. Upserted(req, t, db, new, w)
  BY <1>1, <1>2, <1>6, <1>7, <1>9, <1>10, <1>11 DEF Upserted, old, K
<1> QED BY <1>12 DEF new, old

LEMMA UpsertSound ==
    ASSUME NEW req \in Request, NEW t \in Table, NEW db, NEW new, NEW w,
           Upserted(req, t, db, new, w), StageTypes(db), StageSound(db)
    PROVE  StageSound(new)
<1> DEFINE old == db.rows[t]
           K   == Keys(req, w)
<1>1. /\ \A u \in Table : u # t => new.rows[u] = db.rows[u]
      /\ DOMAIN new.rows[t] = DOMAIN old \cup K
      /\ w \subseteq Puts(req, t)
      /\ \A i \in w : new.rows[t][req[i].key] = req[i].val
      /\ \A k \in K : \E i \in w : req[i].key = k
      /\ \A k \in DOMAIN old \ K : new.rows[t][k] = old[k]
      /\ new.ok => /\ db.ok /\ Unique(req, t, old, w)
                   /\ Refers(db.rows, t, new.rows[t], K)
  BY DEF Upserted
<1>2. SUFFICES ASSUME new.ok PROVE RefsKept(new.rows) /\ UniqueKept(new.rows)
  BY DEF StageSound
<1>3. RefsKept(db.rows) /\ UniqueKept(db.rows) /\ Unique(req, t, old, w)
      /\ Refers(db.rows, t, new.rows[t], K)
  BY <1>1, <1>2 DEF StageSound
<1>4. Live(db.rows) \subseteq Live(new.rows)
  <2> HIDE DEF K
  <2>1. ASSUME NEW u \in Table, NEW k \in DOMAIN db.rows[u] PROVE <<u, k>> \in Live(new.rows)
    <3>1. k \in DOMAIN new.rows[u]
      BY <1>1, <2>1
    <3> QED BY <3>1, LiveRows
  <2> QED BY <2>1, LiveRows
<1>5. RefsKept(new.rows)
  <2> HIDE DEF K
  <2> SUFFICES ASSUME NEW u \in Table, NEW k \in DOMAIN new.rows[u]
               PROVE  Parents(u, k, new.rows[u][k]) \subseteq Live(db.rows)
    BY <1>4 DEF RefsKept
  <2>1. CASE u = t /\ k \in K
    BY <1>3, <2>1 DEF Refers
  <2>2. CASE ~ (u = t /\ k \in K)
    <3>1. k \in DOMAIN db.rows[u] /\ new.rows[u][k] = db.rows[u][k]
      BY <1>1, <2>2
    <3> QED BY <1>3, <3>1 DEF RefsKept
  <2> QED BY <2>1, <2>2
<1>6. UniqueKept(new.rows)
  <2> SUFFICES ASSUME NEW u \in Table, NEW k \in DOMAIN new.rows[u],
                      NEW j \in DOMAIN new.rows[u], j # k,
                      new.rows[u][j] = new.rows[u][k], u \in {Scheds, Chips, Codes}
               PROVE  FALSE
    BY DEF UniqueKept, Clashes
  <2>1. CASE u # t
    <3>1. new.rows[u] = db.rows[u]
      BY <1>1, <2>1
    <3> QED BY <1>3, <3>1 DEF UniqueKept, Clashes
  <2>2. CASE u = t
    <3> DEFINE Before(i) == After(old, req, {h \in w : h < i})
    <3>1. \A i \in w : ~Clashes(Before(i), t, req[i].key, req[i].val)
      BY <1>3 DEF Unique
    <3>2. ASSUME NEW i \in w, NEW x \in DOMAIN old \ K
          PROVE  x \in DOMAIN Before(i) /\ Before(i)[x] = old[x]
      <4>1. x \notin Keys(req, {h \in w : h < i})
        BY <3>2 DEF Keys
      <4> QED BY <3>2, <4>1 DEF After
    <3>3. ASSUME NEW i \in w, NEW h \in w, h < i
          PROVE  req[h].key \in DOMAIN Before(i) /\ Before(i)[req[h].key] = req[h].val
      <4> DEFINE b == {g \in w : g < i}
      <4>1. req[h].key \in Keys(req, b)
        BY <3>3 DEF Keys
      <4>2. \A g \in w : req[g].key = req[h].key => g = h
        <5>1. \A g \in w : g \in DOMAIN req /\ req[g].t = t /\ req[g].put
          BY <1>1 DEF Puts
        <5> QED BY <3>3, <5>1, RequestFacts
      <4>3. (CHOOSE g \in b : req[g].key = req[h].key) = h
        BY <3>3, <4>2
      <4> HIDE DEF b
      <4>4. /\ req[h].key \in DOMAIN After(old, req, b)
            /\ After(old, req, b)[req[h].key] = req[h].val
        BY <4>1, <4>3 DEF After
      <4> QED BY <4>4 DEF b
    <3> DEFINE v == new.rows[t][k]
    <3>4. ASSUME NEW x \in DOMAIN new.rows[t], NEW i \in w, NEW y, y = req[i].key, x # y,
                 new.rows[t][x] = new.rows[t][y], x \in DOMAIN old \ K
          PROVE  FALSE
      <4>1. new.rows[t][x] = old[x] /\ new.rows[t][y] = req[i].val
        BY <1>1, <3>4
      <4>2. x \in DOMAIN Before(i) /\ Before(i)[x] = old[x]
        BY <3>2, <3>4
      <4> HIDE DEF Before, K
      <4> QED BY <2>2, <3>1, <3>4, <4>1, <4>2 DEF Clashes
    <3>5. ASSUME NEW h \in w, NEW i \in w, h < i, req[h].key # req[i].key,
                 new.rows[t][req[h].key] = new.rows[t][req[i].key]
          PROVE  FALSE
      <4>1. req[h].val = req[i].val
        BY <1>1, <3>5
      <4>2. req[h].key \in DOMAIN Before(i) /\ Before(i)[req[h].key] = req[h].val
        BY <3>3, <3>5
      <4> HIDE DEF Before, K
      <4> QED BY <2>2, <3>1, <3>5, <4>1, <4>2 DEF Clashes
    <3>6. \A i, h \in w : i < h \/ h < i \/ i = h
      <4>1. w \subseteq Nat
        BY <1>1, RequestFacts DEF Puts
      <4> QED BY <4>1
    <3>7. (k \in K \/ k \in DOMAIN old \ K) /\ (j \in K \/ j \in DOMAIN old \ K)
      BY <1>1, <2>2
    <3> HIDE DEF Before, K
    <3>8. CASE k \in K /\ j \in K
      <4>1. PICK i \in w : req[i].key = k
        BY <1>1, <3>8
      <4>2. PICK h \in w : req[h].key = j
        BY <1>1, <3>8
      <4> QED BY <2>2, <3>5, <3>6, <4>1, <4>2
    <3>9. CASE k \in K /\ j \in DOMAIN old \ K
      BY <1>1, <2>2, <3>4, <3>9
    <3>10. CASE j \in K /\ k \in DOMAIN old \ K
      BY <1>1, <2>2, <3>4, <3>10
    <3>11. CASE j \in DOMAIN old \ K /\ k \in DOMAIN old \ K
      <4>1. old[j] = old[k]
        BY <1>1, <2>2, <3>11
      <4> QED BY <1>3, <2>2, <3>11, <4>1 DEF UniqueKept, Clashes
    <3> QED BY <3>7, <3>8, <3>9, <3>10, <3>11
  <2> QED BY <2>1, <2>2
<1> QED BY <1>5, <1>6

LEMMA UpsertStage ==
    ASSUME NEW req \in Request, NEW t \in Table, NEW db, Stage(req, db),
           NEW w \in Written(req, t, db.rows[t])
    PROVE  Stage(req, ApplyUpserts(db, t, req, w))
<1> SUFFICES ASSUME NEW new, Upserted(req, t, db, new, w) PROVE Stage(req, new)
  BY UpsertFacts DEF Stage
<1> DEFINE old == db.rows[t]
           K   == Keys(req, w)
<1>1. /\ StageTypes(new) /\ new.days = db.days
      /\ \A u \in Table : u # t => new.rows[u] = db.rows[u] /\ new.tomb[u] = db.tomb[u]
      /\ DOMAIN new.rows[t] = DOMAIN old \cup K
      /\ new.tomb[t] = IF t = Events THEN db.tomb[t] ELSE db.tomb[t] \ K
      /\ w \subseteq Puts(req, t)
      /\ \A i \in w : new.rows[t][req[i].key] = req[i].val
      /\ \A k \in K : HasPut(req, t, k) /\ \E i \in w : req[i].key = k
      /\ \A k \in DOMAIN old \ K : new.rows[t][k] = old[k]
  BY DEF Upserted
<1>2. /\ StageTypes(db) /\ StageSound(db) /\ StageTombs(db)
      /\ GoodRolls(db.rows[Rolls]) /\ StageDays(req, db)
      /\ StageLeft(db) /\ StageKeys(req, db) /\ StageDue(req, db)
  BY DEF Stage
<1>3. K = {req[i].key : i \in w}
  BY DEF Keys
<1> HIDE DEF K
<1>4. StageSound(new)
  BY <1>2, UpsertSound
<1>5. StageTombs(new)
  <2> SUFFICES ASSUME NEW u \in Table \ {Events}
               PROVE  DOMAIN new.rows[u] \cap new.tomb[u] = {}
    BY DEF StageTombs
  <2>1. DOMAIN db.rows[u] \cap db.tomb[u] = {}
    BY <1>2 DEF StageTombs
  <2> QED BY <1>1, <2>1
<1>6. GoodRolls(new.rows[Rolls])
  <2>1. CASE t # Rolls
    BY <1>1, <1>2, <2>1, Names
  <2>2. CASE t = Rolls
    <3>1. /\ DOMAIN req \subseteq Nat /\ IsFiniteSet(DOMAIN req)
          /\ \A i \in w : i \in DOMAIN req /\ req[i].key[2] \in Day /\ req[i].val \in Nat
      BY <1>1, <2>2, RequestFacts DEF Puts
    <3>2. IsFiniteSet(K)
      <4>1. IsFiniteSet(w)
        BY <3>1, FS_Subset
      <4> DEFINE key == [i \in w |-> req[i].key]
      <4>2. key \in Surjection(w, K)
        BY <1>3 DEF Surjection
      <4> HIDE DEF key
      <4> QED BY <4>1, <4>2, FS_Surjection
    <3>3. IsFiniteSet(DOMAIN new.rows[Rolls])
      <4>1. IsFiniteSet(DOMAIN old)
        BY <1>2, <2>2 DEF GoodRolls
      <4>2. IsFiniteSet(DOMAIN old \cup K)
        <5> HIDE DEF old
        <5> QED BY <3>2, <4>1, FS_Union
      <4> QED BY <1>1, <2>2, <4>2
    <3>4. ASSUME NEW k \in DOMAIN new.rows[Rolls]
          PROVE  k[2] \in Day /\ new.rows[Rolls][k] \in Nat
      <4>1. CASE k \in K
        <5>1. PICK i \in w : req[i].key = k
          BY <1>1, <4>1
        <5> QED BY <1>1, <2>2, <3>1, <5>1
      <4>2. CASE k \in DOMAIN old \ K
        BY <1>1, <1>2, <2>2, <4>2 DEF GoodRolls
      <4> QED BY <1>1, <2>2, <3>4, <4>1, <4>2
    <3> QED BY <3>3, <3>4 DEF GoodRolls
  <2> QED BY <2>1, <2>2
<1>7. StageDays(req, new)
  <2>1. CASE t # Rolls
    BY <1>1, <1>2, <2>1, Names DEF StageDays
  <2>2. CASE t = Rolls
    <3> SUFFICES ASSUME NEW day, day \notin new.days \cup OwnDays(req)
                 PROVE  RollupsOf(new.rows[Rolls], day) = RollupsOf(db.rows[Rolls], day)
      BY <1>1, <1>2 DEF StageDays
    <3>1. \A k \in K : k[2] # day
      <4>1. \A k \in K : k \in Keys(req, Puts(req, Rolls))
        BY <1>1, <1>3, <2>2 DEF Keys
      <4> QED BY <4>1 DEF OwnDays
    <3>2. {j \in DOMAIN new.rows[Rolls] : j[2] = day} = {j \in DOMAIN old : j[2] = day}
      BY <1>1, <2>2, <3>1
    <3>3. \A j \in {i \in DOMAIN old : i[2] = day} : new.rows[Rolls][j] = old[j]
      BY <1>1, <2>2, <3>1
    <3> QED BY <2>2, <3>2, <3>3 DEF RollupsOf
  <2> QED BY <2>1, <2>2
<1>8. StageLeft(new)
  <2> SUFFICES ASSUME NEW u \in Table, NEW k \in DOMAIN rows[u] \ DOMAIN new.rows[u]
               PROVE  k \in new.tomb[u] \/ Missed(u, k)
    BY DEF StageLeft
  <2>1. k \notin DOMAIN db.rows[u] /\ (u = t => k \notin K)
    BY <1>1
  <2>2. k \in db.tomb[u] \/ Missed(u, k)
    BY <1>2, <2>1 DEF StageLeft
  <2> QED BY <1>1, <2>1, <2>2
<1>9. StageKeys(req, new)
  BY <1>1, <1>2 DEF StageKeys
<1>10. StageDue(req, new)
  <2> SUFFICES ASSUME NEW u \in Table, NEW k \in new.tomb[u] \ tomb[u]
               PROVE  /\ k \in DOMAIN rows[u] \/ HasPut(req, u, k)
                      /\ k \in DOMAIN new.rows[u] => HasPut(req, u, k)
    BY DEF StageDue
  <2>1. k \in db.tomb[u]
    BY <1>1
  <2>2. /\ k \in DOMAIN rows[u] \/ HasPut(req, u, k)
        /\ k \in DOMAIN db.rows[u] => HasPut(req, u, k)
    BY <1>2, <2>1 DEF StageDue
  <2> QED BY <1>1, <2>2
<1> QED BY <1>1, <1>4, <1>5, <1>6, <1>7, <1>8, <1>9, <1>10 DEF Stage

----------------------------------------------------------------------------
(* Deletions.                                                              *)

\* db after the rows in out are deleted and those in told have a tombstone.
Deleted(db, new, out, told, also) ==
    /\ StageTypes(new) /\ new.ok = db.ok
    /\ \A u \in Table : DOMAIN new.rows[u] = {k \in DOMAIN db.rows[u] : <<u, k>> \notin out}
    /\ \A u \in Table : \A k \in DOMAIN new.rows[u] : new.rows[u][k] = db.rows[u][k]
    /\ \A u \in Table : new.tomb[u] = db.tomb[u] \cup KeysIn(u, told)
    /\ new.days = db.days \cup {k[2] : k \in KeysIn(Rolls, also)}

LEMMA DeleteFacts ==
    ASSUME NEW t \in Table, NEW db, NEW keys, StageTypes(db)
    PROVE  LET S == {t} \X (keys \cap DOMAIN db.rows[t])
           IN  Deleted(db, ApplyDeletions(db, t, keys), Doomed(db.rows, S),
                       S \cup Collected(db.rows, S), Collected(db.rows, S))
<1> DEFINE new  == ApplyDeletions(db, t, keys)
           S    == {t} \X (keys \cap DOMAIN db.rows[t])
           also == Collected(db.rows, S)
           out  == Doomed(db.rows, S)
<1>1. /\ new.rows = Without(db.rows, out) /\ new.ok = db.ok
      /\ new.tomb = [u \in Table \cup {Aggs} |-> db.tomb[u] \cup KeysIn(u, S \cup also)]
      /\ new.days = db.days \cup {k[2] : k \in KeysIn(Rolls, also)}
  BY DEF ApplyDeletions
<1>2. \A x \in S \cup also : x[1] \in Table
  <2>1. \A x \in S : x[1] = t
    OBVIOUS
  <2>2. also \subseteq Live(db.rows)
    BY DEF Collected, Children
  <2> HIDE DEF S, also
  <2> QED BY <2>1, <2>2, LiveRows
<1>3. KeysIn(Aggs, S \cup also) = {}
  BY <1>2, Names DEF KeysIn
<1> HIDE DEF new, S, also, out
<1>4. new.rows = [u \in Table |-> [k \in {j \in DOMAIN db.rows[u] : <<u, j>> \notin out} |->
                                      db.rows[u][k]]]
  BY <1>1 DEF Without
<1>5. /\ new.rows = [u \in Table |-> new.rows[u]]
      /\ \A u \in Table : DOMAIN new.rows[u] = {k \in DOMAIN db.rows[u] : <<u, k>> \notin out}
      /\ \A u \in Table : \A k \in DOMAIN new.rows[u] : new.rows[u][k] = db.rows[u][k]
  BY <1>4
<1>6. /\ new.tomb = [u \in Table \cup {Aggs} |-> new.tomb[u]]
      /\ new.tomb[Aggs] = tomb[Aggs]
      /\ \A u \in Table : new.tomb[u] = db.tomb[u] \cup KeysIn(u, S \cup also)
  <2>1. \A u \in Table \cup {Aggs} : new.tomb[u] = db.tomb[u] \cup KeysIn(u, S \cup also)
    BY <1>1
  <2>2. new.tomb = [u \in Table \cup {Aggs} |-> new.tomb[u]]
    BY <1>1
  <2>3. new.tomb[Aggs] = db.tomb[Aggs] \cup {}
    BY <1>3, <2>1
  <2>4. db.tomb[Aggs] = tomb[Aggs]
    BY DEF StageTypes
  <2> QED BY <2>1, <2>2, <2>3, <2>4
<1>7. Deleted(db, new, out, S \cup also, also)
  BY <1>1, <1>5, <1>6 DEF Deleted, StageTypes
<1> QED BY <1>7 DEF new, S, also, out

LEMMA DeleteStage ==
    ASSUME NEW req \in Request, NEW t \in Table, NEW db, Stage(req, db),
           t = Modes => \A u \in Table \ {Modes} : db.rows[u] = rows[u]
    PROVE  Stage(req, ApplyDeletions(db, t, Dels(req, t)))
<1> DEFINE K    == Dels(req, t) \cap DOMAIN db.rows[t]
           S    == {t} \X K
           also == Collected(db.rows, S)
           out  == Doomed(db.rows, S)
           told == S \cup also
           new  == ApplyDeletions(db, t, Dels(req, t))
<1>1. /\ StageTypes(db) /\ StageSound(db) /\ StageTombs(db)
      /\ GoodRolls(db.rows[Rolls]) /\ StageDays(req, db)
      /\ StageLeft(db) /\ StageKeys(req, db) /\ StageDue(req, db)
  BY DEF Stage
<1>2. Deleted(db, new, out, told, also)
  BY <1>1, DeleteFacts
<1>3. /\ told \subseteq out /\ out \subseteq Live(db.rows)
      /\ \A x \in out \ told :
           /\ t = Modes /\ x[1] = Events
           /\ LET ev == db.rows[Events][x[2]] IN db.rows[Sess][ev[1]] # ev[2]
  <2>1. \A x \in S : x = <<t, x[2]>> /\ x[2] \in DOMAIN db.rows[t]
    OBVIOUS
  <2> HIDE DEF S
  <2>2. /\ S \cup Collected(db.rows, S) \subseteq Doomed(db.rows, S)
        /\ Doomed(db.rows, S) \subseteq Live(db.rows)
        /\ \A x \in Doomed(db.rows, S) \ (S \cup Collected(db.rows, S)) :
             /\ t = Modes /\ x[1] = Events
             /\ LET ev == db.rows[Events][x[2]] IN db.rows[Sess][ev[1]] # ev[2]
    BY <2>1, DoomedCollected
  <2> QED BY <2>2
<1>4. \A u \in Table : \A k \in DOMAIN db.rows[u] :
        \A p \in Parents(u, k, db.rows[u][k]) : p \in out => <<u, k>> \in out
  <2>1. S \subseteq out
    BY <1>3
  <2>2. \A x \in S : x \in Live(db.rows)
    BY <1>3, <2>1
  <2> HIDE DEF S
  <2> QED BY <2>2, DoomedClosed
<1>5. \A x \in S : x = <<t, x[2]>> /\ x[2] \in Dels(req, t)
  OBVIOUS
<1>6. told = S \cup also
  OBVIOUS
<1> HIDE DEF S, also, out, told, new, K
<1>7. /\ StageTypes(new) /\ new.ok = db.ok
      /\ \A u \in Table : DOMAIN new.rows[u] = {k \in DOMAIN db.rows[u] : <<u, k>> \notin out}
      /\ \A u \in Table : \A k \in DOMAIN new.rows[u] : new.rows[u][k] = db.rows[u][k]
      /\ \A u \in Table : new.tomb[u] = db.tomb[u] \cup KeysIn(u, told)
      /\ new.days = db.days \cup {k[2] : k \in KeysIn(Rolls, also)}
  BY <1>2 DEF Deleted
<1>8. \A u, k : k \in KeysIn(u, told) => <<u, k>> \in told
  <2> TAKE u, k
  <2> HAVE k \in KeysIn(u, told)
  <2>1. PICK x \in told : x[1] = u /\ x[2] = k
    BY DEF KeysIn
  <2>2. x \in Live(db.rows)
    BY <1>3
  <2> QED BY <2>1, <2>2, LiveRows
<1>9. \A u, k : <<u, k>> \in told => k \in KeysIn(u, told)
  BY DEF KeysIn
<1>10. StageSound(new)
  <2> SUFFICES ASSUME new.ok PROVE RefsKept(new.rows) /\ UniqueKept(new.rows)
    BY DEF StageSound
  <2>1. RefsKept(db.rows) /\ UniqueKept(db.rows)
    BY <1>1, <1>7 DEF StageSound
  <2>2. RefsKept(new.rows)
    <3> SUFFICES ASSUME NEW u \in Table, NEW k \in DOMAIN new.rows[u],
                        NEW p \in Parents(u, k, new.rows[u][k])
                 PROVE  p \in Live(new.rows)
      BY DEF RefsKept
    <3>1. /\ k \in DOMAIN db.rows[u] /\ <<u, k>> \notin out
          /\ p \in Parents(u, k, db.rows[u][k])
      BY <1>7
    <3>2. p \in Live(db.rows) /\ p \notin out
      BY <1>4, <2>1, <3>1 DEF RefsKept
    <3>3. /\ p = <<p[1], p[2]>> /\ p[1] \in Table /\ p[2] \in DOMAIN db.rows[p[1]]
      BY <3>2, LiveRows
    <3>4. p[2] \in DOMAIN new.rows[p[1]]
      BY <1>7, <3>2, <3>3
    <3> QED BY <3>3, <3>4, LiveRows
  <2>3. UniqueKept(new.rows)
    <3> SUFFICES ASSUME NEW u \in Table, NEW k \in DOMAIN new.rows[u],
                        NEW j \in DOMAIN new.rows[u], j # k,
                        new.rows[u][j] = new.rows[u][k], u \in {Scheds, Chips, Codes}
                 PROVE  FALSE
      BY DEF UniqueKept, Clashes
    <3>1. /\ j \in DOMAIN db.rows[u] /\ k \in DOMAIN db.rows[u]
          /\ new.rows[u][j] = db.rows[u][j] /\ new.rows[u][k] = db.rows[u][k]
      BY <1>7
    <3>2. ~Clashes(db.rows[u], u, k, db.rows[u][k])
      BY <2>1, <3>1 DEF UniqueKept
    <3> QED BY <3>1, <3>2 DEF Clashes
  <2> QED BY <2>2, <2>3
<1>11. StageTombs(new)
  <2> SUFFICES ASSUME NEW u \in Table \ {Events}, NEW k \in DOMAIN new.rows[u], k \in new.tomb[u]
               PROVE  FALSE
    BY DEF StageTombs
  <2>1. k \in DOMAIN db.rows[u] /\ <<u, k>> \notin out
    BY <1>7
  <2>2. k \notin db.tomb[u]
    BY <1>1, <2>1 DEF StageTombs
  <2>3. k \notin KeysIn(u, told)
    BY <1>3, <1>8, <2>1
  <2> QED BY <1>7, <2>2, <2>3
<1>12. GoodRolls(new.rows[Rolls])
  <2>1. DOMAIN new.rows[Rolls] \subseteq DOMAIN db.rows[Rolls] /\ Rolls \in Table
    BY <1>7, Names
  <2> QED BY <1>1, <1>7, <2>1, FS_Subset DEF GoodRolls
<1>13. StageDays(req, new)
  <2> SUFFICES ASSUME NEW day, day \notin new.days \cup OwnDays(req)
               PROVE  RollupsOf(new.rows[Rolls], day) = RollupsOf(db.rows[Rolls], day)
    BY <1>1, <1>7 DEF StageDays
  <2>1. ASSUME NEW k \in DOMAIN db.rows[Rolls], k[2] = day PROVE <<Rolls, k>> \notin out
    <3> SUFFICES ASSUME <<Rolls, k>> \in out PROVE FALSE
      OBVIOUS
    <3>1. <<Rolls, k>> \in told
      BY <1>3, Names
    <3>2. CASE <<Rolls, k>> \in S
      <4>1. t = Rolls /\ k \in Dels(req, Rolls)
        BY <1>5, <3>2
      <4> QED BY <2>1, <4>1 DEF OwnDays
    <3>3. CASE <<Rolls, k>> \in also
      <4>1. k \in KeysIn(Rolls, also)
        BY <3>3 DEF KeysIn
      <4> QED BY <1>7, <2>1, <4>1
    <3> QED BY <1>6, <3>1, <3>2, <3>3
  <2>2. {j \in DOMAIN new.rows[Rolls] : j[2] = day} = {j \in DOMAIN db.rows[Rolls] : j[2] = day}
    BY <1>7, <2>1, Names
  <2>3. \A j \in {i \in DOMAIN new.rows[Rolls] : i[2] = day} : new.rows[Rolls][j] = db.rows[Rolls][j]
    BY <1>7, Names
  <2> QED BY <2>2, <2>3 DEF RollupsOf
<1>14. StageLeft(new)
  <2> SUFFICES ASSUME NEW u \in Table, NEW k \in DOMAIN rows[u] \ DOMAIN new.rows[u]
               PROVE  k \in new.tomb[u] \/ Missed(u, k)
    BY DEF StageLeft
  <2>1. CASE k \notin DOMAIN db.rows[u]
    BY <1>1, <1>7, <2>1 DEF StageLeft
  <2>2. CASE k \in DOMAIN db.rows[u]
    <3>1. <<u, k>> \in out
      BY <1>7, <2>2
    <3>2. CASE <<u, k>> \in told
      BY <1>7, <1>9, <3>2
    <3>3. CASE <<u, k>> \notin told
      <4>1. /\ t = Modes /\ u = Events
            /\ LET ev == db.rows[Events][k] IN db.rows[Sess][ev[1]] # ev[2]
        BY <1>3, <3>1, <3>3
      <4>2. db.rows[Events] = rows[Events] /\ db.rows[Sess] = rows[Sess]
        BY <4>1, Names
      <4> QED BY <4>1, <4>2 DEF Missed
    <3> QED BY <3>2, <3>3
  <2> QED BY <2>1, <2>2
<1>15. StageKeys(req, new)
  BY <1>1, <1>7 DEF StageKeys
<1>16. StageDue(req, new)
  <2> SUFFICES ASSUME NEW u \in Table, NEW k \in new.tomb[u] \ tomb[u]
               PROVE  /\ k \in DOMAIN rows[u] \/ HasPut(req, u, k)
                      /\ k \in DOMAIN new.rows[u] => HasPut(req, u, k)
    BY DEF StageDue
  <2>1. CASE k \in db.tomb[u]
    BY <1>1, <1>7, <2>1 DEF StageDue
  <2>2. CASE k \in KeysIn(u, told)
    <3>1. <<u, k>> \in out /\ <<u, k>> \in Live(db.rows)
      BY <1>3, <1>8, <2>2
    <3>2. k \in DOMAIN db.rows[u] /\ k \notin DOMAIN new.rows[u]
      BY <1>7, <3>1, LiveRows
    <3> QED BY <1>1, <3>2 DEF StageKeys
  <2> QED BY <1>7, <2>1, <2>2
<1>17. Stage(req, new)
  BY <1>7, <1>10, <1>11, <1>12, <1>13, <1>14, <1>15, <1>16 DEF Stage
<1> QED BY <1>17 DEF new

----------------------------------------------------------------------------
(* A request, table after table.                                           *)

LEMMA SyncOneStage ==
    ASSUME NEW req \in Request, NEW t \in Table, NEW db, Stage(req, db),
           t = Modes => db.rows = rows, NEW out \in SyncOne(db, t, req)
    PROVE  Stage(req, out) /\ (t = Rolls => OwnDays(req) \subseteq out.days)
<1>1. PICK w \in Written(req, t, db.rows[t]) :
        LET up  == ApplyUpserts(db, t, req, w)
            new == IF Dels(req, t) = {} THEN up ELSE ApplyDeletions(up, t, Dels(req, t))
        IN  out = [rows |-> new.rows, tomb |-> new.tomb, ok |-> new.ok,
                   days |-> new.days \cup IF t = Rolls THEN OwnDays(req) ELSE {}]
  BY DEF SyncOne
<1> DEFINE up  == ApplyUpserts(db, t, req, w)
           new == IF Dels(req, t) = {} THEN up ELSE ApplyDeletions(up, t, Dels(req, t))
<1>2. Stage(req, up)
  BY UpsertStage
<1>3. t = Modes => \A u \in Table \ {Modes} : up.rows[u] = rows[u]
  <2>1. Upserted(req, t, db, up, w)
    BY UpsertFacts DEF Stage
  <2> HIDE DEF up
  <2> QED BY <2>1 DEF Upserted
<1> HIDE DEF up
<1>4. Stage(req, new)
  BY <1>2, <1>3, DeleteStage
<1>5. /\ out.rows = new.rows /\ out.tomb = new.tomb /\ out.ok = new.ok
      /\ out.days = new.days \cup IF t = Rolls THEN OwnDays(req) ELSE {}
  <2>1. out = [rows |-> new.rows, tomb |-> new.tomb, ok |-> new.ok,
               days |-> new.days \cup IF t = Rolls THEN OwnDays(req) ELSE {}]
    BY <1>1 DEF up
  <2> HIDE DEF new
  <2> QED BY <2>1
<1> HIDE DEF new
<1> QED BY <1>4, <1>5 DEF Stage, StageTypes, StageSound, StageTombs, StageDays, StageLeft,
                          StageKeys, StageDue

LEMMA SyncTablesStage ==
    ASSUME NEW req \in Request, NEW db, Stage(req, db), db.rows = rows,
           NEW out \in SyncTables(db, req)
    PROVE  Stage(req, out) /\ OwnDays(req) \subseteq out.days
<1> DEFINE One(dbs, t) == UNION {SyncOne(d, t, req) : d \in dbs}
           All(dbs) == \A d \in dbs : Stage(req, d)
           s1 == One({db}, Modes)
           s2 == One(s1, Apps)
           s3 == One(s2, Scheds)
           s4 == One(s3, Sess)
           s5 == One(s4, Events)
           s6 == One(s5, Chips)
           s7 == One(s6, Codes)
           s8 == One(s7, Rolls)
<1>1. /\ Modes \in Table /\ Rolls \in Table
      /\ \A t \in {Apps, Scheds, Sess, Events, Chips, Codes, Rolls} : t \in Table /\ t # Modes
  BY DEF Table, Modes, Apps, Scheds, Sess, Events, Chips, Codes, Rolls
<1>2. All(One({db}, Modes))
  BY <1>1, SyncOneStage
<1>3. \A t \in {Apps, Scheds, Sess, Events, Chips, Codes, Rolls} : \A dbs :
        All(dbs) => /\ All(One(dbs, t))
                    /\ t = Rolls => \A d \in One(dbs, t) : OwnDays(req) \subseteq d.days
  BY <1>1, SyncOneStage
<1>4. SyncTables(db, req) = s8
  BY DEF SyncTables
<1> HIDE DEF One, All
<1>5. All(s1) /\ All(s2) /\ All(s3) /\ All(s4)
  BY <1>2, <1>3
<1>6. All(s5) /\ All(s6) /\ All(s7)
  <2> HIDE DEF s4
  <2> QED BY <1>3, <1>5
<1>7. All(s8) /\ \A d \in s8 : OwnDays(req) \subseteq d.days
  <2> HIDE DEF s7
  <2> QED BY <1>3, <1>6
<1> HIDE DEF s8
<1> QED BY <1>4, <1>7 DEF All

----------------------------------------------------------------------------
(* The aggregates.                                                         *)

\* Whether a day has an aggregate, and which, depends on its rollups alone.
LEMMA AggregateOfRollups ==
    ASSUME NEW r, NEW s, NEW day, RollupsOf(r, day) = RollupsOf(s, day)
    PROVE  /\ day \in Days(r) <=> day \in Days(s)
           /\ Aggregate(r, day) = Aggregate(s, day)
<1>1. Aggregate(r, day) = Aggregate(s, day)
  BY DEF Aggregate
<1>2. DOMAIN RollupsOf(r, day) = DOMAIN RollupsOf(s, day)
  OBVIOUS
<1>3. {j \in DOMAIN r : j[2] = day} = {j \in DOMAIN s : j[2] = day}
  BY <1>2 DEF RollupsOf
<1> QED BY <1>1, <1>3 DEF Days

LEMMA AggregateType ==
    ASSUME NEW r, NEW day, GoodRolls(r)
    PROVE  /\ Aggregate(r, day) = [ms |-> Aggregate(r, day).ms,
                                   qualified |-> Aggregate(r, day).qualified,
                                   n |-> Aggregate(r, day).n]
           /\ Aggregate(r, day).ms \in Nat /\ Aggregate(r, day).qualified \in BOOLEAN
           /\ Aggregate(r, day).n \in Nat
<1> DEFINE rolls == RollupsOf(r, day)
           ms == SumFunction(rolls)
           sess == {k[1] : k \in DOMAIN rolls}
<1>1. /\ DOMAIN rolls \in SUBSET DOMAIN r
      /\ \A k \in DOMAIN rolls : rolls[k] = r[k] /\ k \in DOMAIN r
  BY DEF RollupsOf
<1>2. IsFiniteSet(DOMAIN rolls)
  <2> HIDE DEF rolls
  <2> QED BY <1>1, FS_Subset DEF GoodRolls
<1>3. ms \in Nat
  <2>1. \A k \in DOMAIN rolls : rolls[k] \in Nat
    BY <1>1 DEF GoodRolls
  <2> HIDE DEF rolls
  <2> QED BY <1>2, <2>1, SumType
<1>4. Cardinality(sess) \in Nat
  <2> HIDE DEF rolls
  <2> DEFINE of == [k \in DOMAIN rolls |-> k[1]]
  <2>1. of \in Surjection(DOMAIN rolls, sess)
    BY DEF Surjection
  <2> HIDE DEF of, sess
  <2>2. IsFiniteSet(sess)
    BY <1>2, <2>1, FS_Surjection
  <2> QED BY <2>2, FS_CardinalityType
<1>5. Aggregate(r, day) = [ms |-> ms, qualified |-> Qualified(ms), n |-> Cardinality(sess)]
  BY DEF Aggregate
<1>6. Qualified(ms) \in BOOLEAN
  BY <1>3, ThresholdAssumption DEF Qualified
<1> HIDE DEF ms, sess
<1> QED BY <1>3, <1>4, <1>5, <1>6

\* The days of the rollups are finitely many.
LEMMA FiniteDays ==
    ASSUME NEW r, GoodRolls(r)
    PROVE  IsFiniteSet(Days(r)) /\ Days(r) \subseteq Day
<1> DEFINE of == [k \in DOMAIN r |-> k[2]]
<1>1. of \in Surjection(DOMAIN r, Days(r))
  BY DEF Surjection, Days
<1> HIDE DEF of
<1>2. IsFiniteSet(Days(r))
  BY <1>1, FS_Surjection DEF GoodRolls
<1> QED BY <1>2 DEF Days, GoodRolls

LEMMA MetricsType ==
    ASSUME NEW r, GoodRolls(r)
    PROVE  /\ Metrics([day \in Days(r) |-> Aggregate(r, day)]) \in [streak : Nat, total : Nat]
           /\ Metrics([day \in Days(r) |-> Aggregate(r, day)]) # Nothing
<1> DEFINE a == [day \in Days(r) |-> Aggregate(r, day)]
           last == {day \in Days(r) : \A e \in Days(r) : e >= day => a[e].qualified}
           each == [day \in Days(r) |-> a[day].ms]
<1>1. Metrics(a) = [streak |-> Cardinality(last), total |-> SumFunction(each)]
  BY DEF Metrics
<1>2. Cardinality(last) \in Nat
  <2>1. last \in SUBSET Days(r)
    OBVIOUS
  <2> HIDE DEF last
  <2>2. IsFiniteSet(last)
    BY <2>1, FiniteDays, FS_Subset
  <2> QED BY <2>2, FS_CardinalityType
<1>3. SumFunction(each) \in Nat
  <2>1. \A day \in Days(r) : each[day] \in Nat
    BY AggregateType
  <2>2. DOMAIN each = Days(r)
    OBVIOUS
  <2> HIDE DEF each
  <2> QED BY <2>1, <2>2, FiniteDays, SumType
<1> HIDE DEF last, each
<1>4. [streak |-> Cardinality(last), total |-> SumFunction(each)] \in [streak : Nat, total : Nat]
  BY <1>2, <1>3
<1> QED BY <1>1, <1>4, RequestAssumption

----------------------------------------------------------------------------
(* The invariant.                                                          *)

\* The rows and the aggregates of db, given the aggregates a.
Consistent(rs, tb, a) ==
    /\ rs = [t \in Table |-> rs[t]]
    /\ tb = [t \in Table \cup {Aggs} |-> tb[t]]
    /\ RefsKept(rs) /\ UniqueKept(rs) /\ GoodRolls(rs[Rolls])
    /\ \A t \in Table \ {Events} : DOMAIN rs[t] \cap tb[t] = {}
    /\ tb[Aggs] \subseteq Day
    /\ a = [day \in Days(rs[Rolls]) |-> Aggregate(rs[Rolls], day)]
    /\ \A day \in Days(rs[Rolls]) : Aggregate(rs[Rolls], day).ms <= MaxInt

CascadeInv ==
    /\ Consistent(rows, tomb, agg)
    /\ board = Nothing \/ board \in [streak : Nat, total : Nat]
    /\ BoardCurrent
    /\ pending \in [Device -> Request \cup {Nothing}]

\* What a request that succeeds commits.
Committed(req, db) ==
    /\ Consistent(db.rows, db.tomb, db.agg)
    /\ StageLeft(db) /\ StageDue(req, db)
    /\ DOMAIN agg \ DOMAIN db.agg \subseteq db.tomb[Aggs]
    /\ db.tomb[Aggs] \ tomb[Aggs] \subseteq DOMAIN agg \ DOMAIN db.agg
    /\ db.days = {} => db.agg = agg

LEMMA OutcomeFacts ==
    ASSUME NEW req \in Request, Consistent(rows, tomb, agg),
           NEW out \in Outcomes(req), out.ok
    PROVE  Committed(req, out)
<1> DEFINE start == [rows |-> rows, tomb |-> tomb, days |-> {}, ok |-> TRUE]
<1>3. PICK db \in SyncTables(start, req) :
        out = IF db.days = {}
              THEN [rows |-> db.rows, agg |-> agg, tomb |-> db.tomb, days |-> {}, ok |-> db.ok]
              ELSE Recompute(db)
  BY DEF Outcomes
<1> DEFINE old == rows[Rolls]
           r   == db.rows[Rolls]
<1>1. Stage(req, start)
  <2>1. /\ start.rows = rows /\ start.tomb = tomb /\ start.days = {} /\ start.ok = TRUE
    OBVIOUS
  <2> HIDE DEF start
  <2> QED BY <2>1 DEF Consistent, Stage, StageTypes, StageSound, StageTombs, StageDays,
                      StageLeft, StageKeys, StageDue
<1>2. Stage(req, db) /\ OwnDays(req) \subseteq db.days
  <2>1. start.rows = rows
    OBVIOUS
  <2> HIDE DEF start
  <2> QED BY <1>1, <2>1, SyncTablesStage
<1> HIDE DEF start
<1>4. /\ StageTypes(db) /\ StageSound(db) /\ StageTombs(db) /\ GoodRolls(r)
      /\ StageLeft(db) /\ StageDue(req, db)
  BY <1>2 DEF Stage
<1>5. \A day : day \notin db.days =>
        /\ day \in Days(r) <=> day \in Days(old)
        /\ Aggregate(r, day) = Aggregate(old, day)
  BY <1>2, AggregateOfRollups DEF Stage, StageDays
<1>6. /\ agg = [day \in Days(old) |-> Aggregate(old, day)]
      /\ \A day \in Days(old) : Aggregate(old, day).ms <= MaxInt
      /\ tomb[Aggs] \subseteq Day /\ GoodRolls(old)
  BY DEF Consistent
<1>7. /\ db.rows = [t \in Table |-> db.rows[t]]
      /\ db.tomb = [t \in Table \cup {Aggs} |-> db.tomb[t]]
      /\ db.tomb[Aggs] = tomb[Aggs]
  BY <1>4 DEF StageTypes
<1>8. CASE db.days = {}
  <2>1. /\ out.rows = db.rows /\ out.agg = agg /\ out.tomb = db.tomb /\ db.ok /\ out.days = {}
    BY <1>3, <1>8
  <2>2. Days(r) = Days(old)
    BY <1>5, <1>8
  <2>3. agg = [day \in Days(r) |-> Aggregate(r, day)]
    BY <1>5, <1>6, <1>8, <2>2
  <2>4. \A day \in Days(r) : Aggregate(r, day).ms <= MaxInt
    BY <1>5, <1>6, <1>8, <2>2
  <2> HIDE DEF r, old
  <2>5. Consistent(out.rows, out.tomb, out.agg)
    BY <1>4, <1>6, <1>7, <2>1, <2>3, <2>4 DEF Consistent, StageSound, StageTombs, r
  <2>6. StageLeft(out) /\ StageDue(req, out)
    BY <1>4, <2>1 DEF StageLeft, StageDue
  <2> QED BY <1>7, <2>1, <2>5, <2>6 DEF Committed
<1>9. CASE db.days # {}
  <2> DEFINE full == db.days \cap Days(r)
             lost == (db.days \ full) \cap DOMAIN agg
  <2>1. /\ out.rows = db.rows /\ out.days = db.days
        /\ out.agg = [day \in (DOMAIN agg \ lost) \cup full |->
                        IF day \in full THEN Aggregate(r, day) ELSE agg[day]]
        /\ out.tomb = [db.tomb EXCEPT ![Aggs] = @ \cup lost]
        /\ out.ok = (db.ok /\ \A day \in full : Aggregate(r, day).ms <= MaxInt)
    BY <1>3, <1>9 DEF Recompute
  <2>2. db.ok /\ \A day \in full : Aggregate(r, day).ms <= MaxInt
    BY <2>1
  <2>3. DOMAIN agg = Days(old)
    BY <1>6
  <2> HIDE DEF r, old
  <2>4. (DOMAIN agg \ lost) \cup full = Days(r)
    BY <1>5, <2>3
  <2>5. \A day \in Days(r) : day \notin full =>
          /\ day \notin db.days /\ day \in Days(old) /\ agg[day] = Aggregate(r, day)
    BY <1>5, <1>6
  <2>6. out.agg = [day \in Days(r) |-> Aggregate(r, day)]
    <3> HIDE DEF full, lost
    <3> QED BY <2>1, <2>4, <2>5
  <2>7. \A day \in Days(r) : Aggregate(r, day).ms <= MaxInt
    BY <1>5, <1>6, <2>2, <2>5
  <2>8. /\ out.tomb = [t \in Table \cup {Aggs} |-> out.tomb[t]]
        /\ out.tomb[Aggs] = tomb[Aggs] \cup lost
        /\ \A t \in Table : out.tomb[t] = db.tomb[t]
    <3> HIDE DEF lost
    <3> QED BY <1>7, <2>1, Names
  <2>9. lost \subseteq Day
    BY <1>6, <2>3, FiniteDays
  <2>10. lost = DOMAIN agg \ DOMAIN out.agg
    BY <2>3, <2>5, <2>6, <1>5
  <2>11. out.rows[Rolls] = r
    BY <2>1 DEF r
  <2> HIDE DEF lost, full
  <2>12. Consistent(out.rows, out.tomb, out.agg)
    <3>1. RefsKept(out.rows) /\ UniqueKept(out.rows)
      BY <1>4, <2>1, <2>2 DEF StageSound
    <3>2. \A t \in Table \ {Events} : DOMAIN out.rows[t] \cap out.tomb[t] = {}
      BY <1>4, <2>1, <2>8 DEF StageTombs
    <3>3. out.rows = [t \in Table |-> out.rows[t]]
      BY <1>7, <2>1
    <3>4. out.tomb[Aggs] \subseteq Day
      BY <1>6, <2>8, <2>9
    <3> QED BY <1>4, <2>6, <2>7, <2>8, <2>11, <3>1, <3>2, <3>3, <3>4 DEF Consistent
  <2>13. StageLeft(out) /\ StageDue(req, out)
    BY <1>4, <2>1, <2>8 DEF StageLeft, StageDue
  <2>14. /\ DOMAIN agg \ DOMAIN out.agg \subseteq out.tomb[Aggs]
         /\ out.tomb[Aggs] \ tomb[Aggs] \subseteq DOMAIN agg \ DOMAIN out.agg
    BY <2>8, <2>10
  <2>15. out.days # {}
    BY <1>9, <2>1
  <2> QED BY <2>12, <2>13, <2>14, <2>15 DEF Committed
<1> QED BY <1>8, <1>9

LEMMA CascadeInit == Init => CascadeInv
<1> SUFFICES ASSUME Init PROVE CascadeInv
  OBVIOUS
<1>1. /\ rows = [t \in Table |-> rows[t]] /\ \A t \in Table : DOMAIN rows[t] = {}
      /\ tomb = [t \in Table \cup {Aggs} |-> tomb[t]] /\ tomb[Aggs] = {}
      /\ board = Nothing /\ pending = [d \in Device |-> Nothing]
  BY DEF Init
<1>2. DOMAIN rows[Rolls] = {} /\ Days(rows[Rolls]) = {}
  BY <1>1, Names DEF Days
<1>3. GoodRolls(rows[Rolls])
  BY <1>2, FS_EmptySet DEF GoodRolls
<1>4. agg = [day \in Days(rows[Rolls]) |-> Aggregate(rows[Rolls], day)]
  <2>1. agg = [day \in {} |-> Aggregate(rows[Rolls], day)]
    BY DEF Init
  <2> QED BY <1>2, <2>1
<1>5. Consistent(rows, tomb, agg)
  BY <1>1, <1>2, <1>3, <1>4 DEF Consistent, RefsKept, UniqueKept
<1>6. BoardCurrent
  BY <1>1 DEF Init, BoardCurrent
<1> QED BY <1>1, <1>5, <1>6 DEF CascadeInv

\* A served request keeps the invariant, and what it deletes it announces.
LEMMA ServeStep ==
    ASSUME CascadeInv, NEW d \in Device, NEW heard \in BOOLEAN, Serve(d, heard)
    PROVE  CascadeInv' /\ TombstoneLeft /\ TombstoneDue
<1>1. pending[d] \in Request /\ pending[d] # Nothing
  BY DEF CascadeInv, Serve
<1>2. PICK db \in Outcomes(pending[d]) :
        /\ db.ok
        /\ rows' = db.rows /\ agg' = db.agg /\ tomb' = db.tomb
        /\ board' = IF db.days = {} THEN board ELSE Metrics(db.agg)
  BY DEF Serve
<1>3. Committed(pending[d], db)
  BY <1>1, <1>2, OutcomeFacts DEF CascadeInv
<1>4. /\ rows' = db.rows /\ agg' = db.agg /\ tomb' = db.tomb
      /\ board' = IF db.days = {} THEN board ELSE Metrics(db.agg)
  BY <1>2
<1>5. Consistent(rows', tomb', agg')
  BY <1>3, <1>4 DEF Committed
<1>6. CascadeInv'
  <2>1. pending' \in [Device -> Request \cup {Nothing}]
    BY DEF CascadeInv, Serve
  <2>2. (board = Nothing \/ board \in [streak : Nat, total : Nat])' /\ BoardCurrent'
    <3>1. CASE db.days = {}
      <4>1. board' = board /\ agg' = agg
        BY <1>3, <1>4, <3>1 DEF Committed
      <4> QED BY <4>1 DEF CascadeInv, BoardCurrent
    <3>2. CASE db.days # {}
      <4>1. /\ agg' = [day \in Days(rows'[Rolls]) |-> Aggregate(rows'[Rolls], day)]
            /\ GoodRolls(rows'[Rolls]) /\ board' = Metrics(agg')
        BY <1>4, <1>5, <3>2 DEF Consistent
      <4>2. board' \in [streak : Nat, total : Nat] /\ board' # Nothing
        BY <4>1, MetricsType
      <4> QED BY <4>1, <4>2 DEF BoardCurrent
    <3> QED BY <3>1, <3>2
  <2> QED BY <1>5, <2>1, <2>2 DEF CascadeInv
<1>7. TombstoneLeft
  <2> SUFFICES ASSUME NEW x \in Live(rows) \ Live(rows')
               PROVE  \/ x[2] \in tomb'[x[1]]
                      \/ /\ x[1] = Events
                         /\ LET ev == rows[Events][x[2]] IN rows[Sess][ev[1]] # ev[2]
    BY <1>3, <1>4 DEF TombstoneLeft, Committed
  <2>1. /\ x = <<x[1], x[2]>> /\ x[1] \in Table
        /\ x[2] \in DOMAIN rows[x[1]] \ DOMAIN rows'[x[1]]
    BY LiveRows
  <2> QED BY <1>3, <1>4, <2>1 DEF Committed, StageLeft, Missed
<1>8. TombstoneDue
  <2> SUFFICES ASSUME NEW t \in Table, NEW k \in tomb'[t] \ tomb[t]
               PROVE  LET again == \E e \in Device : pending[e] # Nothing /\
                                     \E c \in ToSet(pending[e]) : c.t = t /\ c.key = k /\ c.put
                      IN  /\ k \in DOMAIN rows[t] \/ again
                          /\ k \in DOMAIN rows'[t] => t = Events /\ again
    BY <1>3, <1>4 DEF TombstoneDue, Committed
  <2>1. /\ k \in DOMAIN rows[t] \/ HasPut(pending[d], t, k)
        /\ k \in DOMAIN rows'[t] => HasPut(pending[d], t, k)
    BY <1>3, <1>4 DEF Committed, StageDue
  <2>2. HasPut(pending[d], t, k) => \E c \in ToSet(pending[d]) : c.t = t /\ c.key = k /\ c.put
    BY DEF HasPut, Puts, ToSet
  <2>3. k \in DOMAIN rows'[t] => t = Events
    BY <1>5 DEF Consistent
  <2> QED BY <1>1, <2>1, <2>2, <2>3
<1> QED BY <1>6, <1>7, <1>8

\* A step that leaves the rows and the aggregates alone and writes no tombstone.
LEMMA QuietStep ==
    ASSUME rows' = rows, agg' = agg, \A t \in Table \cup {Aggs} : tomb'[t] \subseteq tomb[t]
    PROVE  TombstoneLeft /\ TombstoneDue
BY DEF TombstoneLeft, TombstoneDue

LEMMA CascadeStep ==
    ASSUME CascadeInv, [Next]_vars
    PROVE  CascadeInv' /\ [TombstoneLeft /\ TombstoneDue]_vars
<1>1. CASE UNCHANGED vars
  BY <1>1 DEF vars, CascadeInv, BoardCurrent
<1>2. ASSUME NEW d \in Device, Post(d) PROVE CascadeInv' /\ TombstoneLeft /\ TombstoneDue
  <2>1. rows' = rows /\ agg' = agg /\ tomb' = tomb /\ board' = board
    BY <1>2 DEF Post
  <2>2. pending' \in [Device -> Request \cup {Nothing}]
    BY <1>2 DEF Post, CascadeInv
  <2>3. CascadeInv'
    BY <2>1, <2>2 DEF CascadeInv, BoardCurrent
  <2> QED BY <2>1, <2>3, QuietStep
<1>3. ASSUME NEW d \in Device, Refuse(d) PROVE UNCHANGED vars
  BY <1>3 DEF Refuse
<1>4. CASE CleanupTombstones
  <2>1. PICK t \in Table \cup {Aggs} : \E k \in tomb[t] : tomb' = [tomb EXCEPT ![t] = @ \ {k}]
    BY <1>4 DEF CleanupTombstones
  <2>2. rows' = rows /\ agg' = agg /\ board' = board /\ pending' = pending
    BY <1>4 DEF CleanupTombstones
  <2>3. Consistent(rows, tomb, agg)
    BY DEF CascadeInv
  <2>4. /\ tomb' = [u \in Table \cup {Aggs} |-> tomb'[u]]
        /\ \A u \in Table \cup {Aggs} : tomb'[u] \subseteq tomb[u]
    BY <2>1, <2>3 DEF Consistent
  <2>5. Consistent(rows', tomb', agg')
    BY <2>2, <2>3, <2>4 DEF Consistent
  <2>6. CascadeInv'
    BY <2>2, <2>5 DEF CascadeInv, BoardCurrent
  <2> QED BY <2>2, <2>4, <2>6, QuietStep
<1> QED BY <1>1, <1>2, <1>3, <1>4, ServeStep DEF Next

THEOREM CascadeInvariant == Spec => []CascadeInv
<1>1. Init => CascadeInv
  BY CascadeInit
<1>2. CascadeInv /\ [Next]_vars => CascadeInv'
  BY CascadeStep
<1> QED BY <1>1, <1>2, PTL DEF Spec

\* The tables keep their foreign keys and UNIQUE values whatever a request
\* upserts, deletes and makes the database delete, and every variable its type.
THEOREM CascadeTypeCorrect == Spec => []TypeOK
<1>1. CascadeInv => TypeOK
  <2> SUFFICES ASSUME CascadeInv PROVE TypeOK
    OBVIOUS
  <2>1. Consistent(rows, tomb, agg)
    BY DEF CascadeInv
  <2>2. \A x \in Live(rows) :
          /\ Parents(x[1], x[2], rows[x[1]][x[2]]) \subseteq Live(rows)
          /\ ~Clashes(rows[x[1]], x[1], x[2], rows[x[1]][x[2]])
    BY <2>1, LiveRows DEF Consistent, RefsKept, UniqueKept
  <2>3. DOMAIN rows = Table /\ DOMAIN tomb = Table \cup {Aggs} /\ tomb[Aggs] \subseteq Day
    BY <2>1 DEF Consistent
  <2>4. DOMAIN agg \subseteq Day
    BY <2>1, FiniteDays DEF Consistent
  <2>5. \A day \in DOMAIN agg :
          agg[day] \in [ms : 0 .. MaxInt, qualified : BOOLEAN, n : Nat]
    <3> TAKE day \in DOMAIN agg
    <3>1. /\ agg[day] = Aggregate(rows[Rolls], day) /\ Aggregate(rows[Rolls], day).ms <= MaxInt
          /\ GoodRolls(rows[Rolls])
      BY <2>1 DEF Consistent
    <3>2. Aggregate(rows[Rolls], day).ms \in 0 .. MaxInt
      BY <3>1, AggregateType, RequestAssumption
    <3> QED BY <3>1, <3>2, AggregateType
  <2> QED BY <2>2, <2>3, <2>4, <2>5 DEF CascadeInv, TypeOK
<1> QED BY <1>1, CascadeInvariant, PTL

\* The aggregates are what the committed rollups add up to, whichever of the
\* tables the request reached the rollups through (the affected days of Sync).
THEOREM AggregatesAgree == Spec => []AggregatesMatchRollups
<1>1. CascadeInv => AggregatesMatchRollups
  BY DEF CascadeInv, Consistent, AggregatesMatchRollups
<1> QED BY <1>1, CascadeInvariant, PTL

\* The leaderboard entry agrees with the aggregates.
THEOREM BoardAgrees == Spec => []BoardCurrent
<1>1. CascadeInv => BoardCurrent
  BY DEF CascadeInv
<1> QED BY <1>1, CascadeInvariant, PTL

\* No key is live and tombstoned, in the tables a client may delete from.
THEOREM NeverLiveAndGone == Spec => []NeverBoth
<1>1. CascadeInv => NeverBoth
  BY DEF CascadeInv, Consistent, NeverBoth
<1> QED BY <1>1, CascadeInvariant, PTL

\* What a request deletes, directly, by a cascade or with the last rollup of a
\* day, is announced by a tombstone, and nothing else is.
THEOREM DeletionsAnnounced == Spec => TombstonesMatchDeletions
<1>1. CascadeInv /\ [Next]_vars => [TombstoneLeft /\ TombstoneDue]_vars
  BY CascadeStep
<1> QED BY <1>1, CascadeInvariant, PTL DEF Spec, TombstonesMatchDeletions

----------------------------------------------------------------------------
(* Emergency stops (Accounts).  What a call answers was read before its    *)
(* UPDATE, so the induction needs that nothing comes between the two: a    *)
(* call that has read holds the row, and what it has read is what the row  *)
(* still has.                                                              *)

USE AccountsAssumption

\* A call that has read holds the row, which has not changed since.
ReadHeld ==
    \A h \in Handler : read[h] # None =>
        /\ read[h] \in User \X (0 .. MaxStops - 1)
        /\ locked[read[h][1]] = h
        /\ used[read[h][1]] = read[h][2]

StopsInv ==
    /\ used \in [User -> 0..MaxStops]
    /\ locked \in [User -> Handler \cup {None}]
    /\ DOMAIN read = Handler
    /\ answers \in [User -> Seq(Int \cup {None})]
    /\ EachStopCounted
    /\ ReadHeld

LEMMA StopsInit == AccountsInit => StopsInv
<1> SUFFICES ASSUME AccountsInit PROVE StopsInv
  OBVIOUS
<1>1. \A u \in User : answers[u] = <<>> /\ used[u] = 0 /\ Len(answers[u]) = 0
  BY DEF AccountsInit
<1> QED BY <1>1 DEF AccountsInit, StopsInv, EachStopCounted, ReadHeld

\* A call reads: nobody else holds the row.
LEMMA ReadStopsKeeps ==
    ASSUME StopsInv, NEW h \in Handler, NEW u \in User, ReadStops(h, u)
    PROVE  StopsInv'
<1> USE DEF StopsInv
<1>1. used[u] \in 0 .. MaxStops - 1
  BY DEF ReadStops
<1>2. ReadHeld'
  <2> SUFFICES ASSUME NEW g \in Handler, read'[g] # None
               PROVE  /\ read'[g] \in User \X (0 .. MaxStops - 1)
                      /\ locked'[read'[g][1]] = g
                      /\ used'[read'[g][1]] = read'[g][2]
    BY DEF ReadHeld
  <2>1. CASE g = h
    BY <2>1, <1>1 DEF ReadStops, LockRow
  <2>2. CASE g # h
    <3>1. read'[g] = read[g]
      BY <2>2 DEF ReadStops
    <3>2. read[g][1] # u
      BY <3>1 DEF ReadHeld, ReadStops, LockRow
    <3> QED BY <3>1, <3>2 DEF ReadHeld, ReadStops, LockRow
  <2> QED BY <2>1, <2>2
<1>3. EachStopCounted'
  BY DEF EachStopCounted, ReadStops
<1> QED BY <1>2, <1>3 DEF ReadStops, LockRow

\* The other calls' reads outlive a call that ends.
LEMMA UnlockKeeps ==
    ASSUME StopsInv, NEW h \in Handler, read[h] # None, Unlock(h),
           \A v \in User : v # read[h][1] => used'[v] = used[v]
    PROVE  ReadHeld'
<1> SUFFICES ASSUME NEW g \in Handler, read'[g] # None
             PROVE  /\ read'[g] \in User \X (0 .. MaxStops - 1)
                    /\ locked'[read'[g][1]] = g
                    /\ used'[read'[g][1]] = read'[g][2]
  BY DEF ReadHeld
<1>1. g # h /\ read'[g] = read[g]
  BY DEF Unlock, StopsInv
<1>2. read[g] \in User \X (0 .. MaxStops - 1) /\ read[g][1] # read[h][1]
  BY <1>1 DEF ReadHeld, StopsInv
<1> QED BY <1>1, <1>2 DEF Unlock, ReadHeld, StopsInv

\* A stop is used up: its answer, if any, is one less than the last one's.
LEMMA CommitStopKeeps ==
    ASSUME StopsInv, NEW h \in Handler, read[h] # None,
           NEW said \in {MaxStops - (read[h][2] + 1), None}, CommitStop(h, said)
    PROVE  StopsInv'
<1> DEFINE u == read[h][1]
           n == used[u]
<1>1. u \in User /\ n \in 0 .. MaxStops - 1 /\ read[h][2] = n
  BY DEF StopsInv, ReadHeld
<1>2. used' = [used EXCEPT ![u] = n + 1]
  BY DEF CommitStop, StopsInv
<1>3. answers' = [answers EXCEPT ![u] = Append(@, said)]
  BY DEF CommitStop
<1>4. said \in {MaxStops - (n + 1), None} /\ said \in Int \cup {None} /\ n + 1 <= MaxStops
  BY <1>1
<1>5. /\ answers[u] \in Seq(Int \cup {None}) /\ Len(answers[u]) = n
      /\ \A i \in 1..n : answers[u][i] \in {MaxStops - i, None}
  BY <1>1 DEF StopsInv, EachStopCounted
<1> HIDE DEF n
<1>6. /\ Append(answers[u], said) \in Seq(Int \cup {None})
      /\ Len(Append(answers[u], said)) = n + 1
      /\ \A i \in 1..n : Append(answers[u], said)[i] = answers[u][i]
      /\ Append(answers[u], said)[n + 1] = said
  BY <1>4, <1>5, AppendProperties
<1>7. answers'[u] = Append(answers[u], said) /\ used'[u] = n + 1
  BY <1>1, <1>2, <1>3 DEF StopsInv
<1> HIDE DEF u
<1>8. EachStopCounted'
  <2> SUFFICES ASSUME NEW v \in User
               PROVE  /\ used'[v] <= MaxStops
                      /\ Len(answers'[v]) = used'[v]
                      /\ \A i \in 1..used'[v] : answers'[v][i] \in {MaxStops - i, None}
    BY DEF EachStopCounted
  <2>1. CASE v = u
    <3>1. /\ used'[v] = n + 1 /\ used'[v] <= MaxStops /\ Len(answers'[v]) = n + 1
      BY <1>4, <1>6, <1>7, <2>1
    <3>2. ASSUME NEW i \in 1..(n + 1) PROVE answers'[v][i] \in {MaxStops - i, None}
      <4>1. CASE i \in 1..n
        BY <1>5, <1>6, <1>7, <2>1, <4>1
      <4>2. CASE i = n + 1
        BY <1>4, <1>6, <1>7, <2>1, <4>2
      <4> QED BY <1>1, <3>2, <4>1, <4>2
    <3> QED BY <3>1, <3>2
  <2>2. CASE v # u
    <3>1. answers'[v] = answers[v] /\ used'[v] = used[v]
      BY <1>2, <1>3, <2>2 DEF StopsInv
    <3> QED BY <3>1 DEF StopsInv, EachStopCounted
  <2> QED BY <2>1, <2>2
<1>9. answers' \in [User -> Seq(Int \cup {None})]
  BY <1>3, <1>6 DEF StopsInv
<1>10. ReadHeld'
  BY <1>2, UnlockKeeps DEF CommitStop, StopsInv, u
<1>11. used' \in [User -> 0..MaxStops]
  BY <1>1, <1>2 DEF StopsInv, n
<1> QED BY <1>8, <1>9, <1>10, <1>11 DEF CommitStop, Unlock, StopsInv

LEMMA FailStopKeeps ==
    ASSUME StopsInv, NEW h \in Handler, FailStop(h)
    PROVE  StopsInv'
<1>1. ReadHeld'
  BY UnlockKeeps DEF FailStop
<1> QED BY <1>1 DEF FailStop, Unlock, StopsInv, EachStopCounted

LEMMA StopsStep == StopsInv /\ [AccountsNext]_accountVars => StopsInv'
<1> SUFFICES ASSUME StopsInv, [AccountsNext]_accountVars PROVE StopsInv'
  OBVIOUS
<1>1. ASSUME UNCHANGED stopVars PROVE StopsInv'
  BY <1>1 DEF stopVars, StopsInv, EachStopCounted, ReadHeld
<1>2. ASSUME NEW u \in User, NEW n \in Name, UpdateMe(u, n) PROVE StopsInv'
  BY <1>1, <1>2 DEF UpdateMe
<1>3. ASSUME NEW u \in User, NEW b \in BOOLEAN, UpdatePrivacyPreferences(u, b) PROVE StopsInv'
  BY <1>1, <1>3 DEF UpdatePrivacyPreferences
<1>4. ASSUME NEW u \in User, NEW d \in 1..MaxDay, NEW ms \in 0..MaxMs, SyncDay(u, d, ms)
      PROVE  StopsInv'
  BY <1>1, <1>4 DEF SyncDay
<1>5. CASE UNCHANGED accountVars
  BY <1>1, <1>5 DEF accountVars
<1>6. ASSUME NEW h \in Handler, GrantStop(h) \/ CommitUnanswered(h) PROVE StopsInv'
  BY <1>6, CommitStopKeeps DEF GrantStop, CommitUnanswered, CommitStop
<1> QED BY <1>2, <1>3, <1>4, <1>5, <1>6, ReadStopsKeeps, FailStopKeeps DEF AccountsNext

\* However the calls of UseEmergencyStop overlap and whichever of them fail, each
\* stop used up is counted once, none beyond the last, and answers its own
\* number or, when its COMMIT is applied and reported as failed, nothing.
THEOREM StopsCounted == AccountsSpec => []EachStopCounted
<1>1. StopsInv => EachStopCounted
  BY DEF StopsInv
<1> QED BY <1>1, StopsInit, StopsStep, PTL DEF AccountsSpec

----------------------------------------------------------------------------
(* Streaks, as SQL and Go count them.                                      *)

LEMMA NewestType ==
    ASSUME NEW days \in [1..MaxDay -> Nat]
    PROVE  /\ NewestFirst(days) \in Seq(Nat)
           /\ (\A d \in 1..MaxDay : days[d] = 0) => NewestFirst(days) = << >>
<1> DEFINE held == {d \in 1..MaxDay : days[d] > 0}
           R == {p \in held \X held : p[1] > p[2]}
           at == OrderBy(held, R)
<1>1. IsFiniteSet(held) /\ Cardinality(held) \in Nat
  <2>1. IsFiniteSet(1..MaxDay)
    BY UpTo
  <2> QED BY <2>1, FS_Subset, FS_CardinalityType
<1>2. StrictOrder(R, held)
  BY DEF StrictOrder
<1>3. PICK s : SortedBy(R, held, s)
  <2> HIDE DEF R, held
  <2> QED BY <1>1, <1>2, SortExists
<1>5. at \in [1..Cardinality(held) -> held]
  <2> HIDE DEF R, held
  <2> QED BY <1>3 DEF SortedBy, OrderBy
<1>6. NewestFirst(days) = [i \in DOMAIN at |-> days[at[i]]]
  BY DEF NewestFirst
<1>7. NewestFirst(days) \in [1..Cardinality(held) -> Nat]
  <2>1. \A d \in held : days[d] \in Nat
    OBVIOUS
  <2> HIDE DEF at, held
  <2> QED BY <1>5, <1>6, <2>1
<1>8. (\A d \in 1..MaxDay : days[d] = 0) => Cardinality(held) = 0
  <2>1. (\A d \in 1..MaxDay : days[d] = 0) => held = {}
    OBVIOUS
  <2> QED BY <2>1, FS_EmptySet
<1> HIDE DEF held
<1>9. PICK n \in Nat : n = Cardinality(held)
  BY <1>1
<1> HIDE DEF R, at
<1>10. NewestFirst(days) \in [1..n -> Nat]
  BY <1>7, <1>9
<1>11. NewestFirst(days) \in Seq(Nat) /\ (n = 0 => NewestFirst(days) = << >>)
  BY <1>10
<1> QED BY <1>8, <1>9, <1>11

LEMMA TotalType ==
    ASSUME NEW list \in Seq(Nat)
    PROVE  Total(list) \in Nat /\ (list = << >> => Total(list) = 0)
<1>1. Total(list) = SumFunction(list)
  BY DEF Total, FoldSeq, FoldFunction, FoldFunctionOnSet, SumFunction, SumFunctionOnSet
<1>2. IsFiniteSet(DOMAIN list) /\ \A x \in DOMAIN list : list[x] \in Nat
  <2>1. PICK n \in Nat : DOMAIN list = 1..n
    OBVIOUS
  <2>2. IsFiniteSet(1..n)
    BY UpTo
  <2> QED BY <2>1, <2>2
<1>3. list = << >> => DOMAIN list = {}
  OBVIOUS
<1> QED BY <1>1, <1>2, <1>3, SumType

\* The first k rows qualify and the one after them, if any, does not.
IsStreak(list, k) ==
    /\ k \in 0..Len(list)
    /\ \A j \in 1..k : Qualified(list[j])
    /\ k < Len(list) => ~ Qualified(list[k + 1])

LEMMA StreakExists ==
    ASSUME NEW list \in Seq(Nat)
    PROVE  \E k \in 0..Len(list) : IsStreak(list, k)
<1> DEFINE Bad == {i \in 1..Len(list) : ~ Qualified(list[i])}
<1>1. CASE Bad = {}
  <2>1. Len(list) \in 0..Len(list) /\ \A j \in 1..Len(list) : Qualified(list[j])
    BY <1>1
  <2> QED BY <2>1 DEF IsStreak
<1>2. CASE Bad # {}
  <2>1. PICK m \in Bad : \A x \in Bad : m <= x
    <3>1. Bad \in SUBSET Nat
      OBVIOUS
    <3> HIDE DEF Bad
    <3> QED BY <3>1, <1>2, LeastNumber
  <2>2. m - 1 \in 0..Len(list) /\ (m - 1) + 1 = m
    <3>1. PICK n \in Nat : Len(list) = n
      OBVIOUS
    <3>2. m \in 1..n
      BY <3>1
    <3> HIDE DEF Bad
    <3> QED BY <3>1, <3>2
  <2>3. \A j \in 1..(m - 1) : Qualified(list[j])
    <3> TAKE j \in 1..(m - 1)
    <3>1. j \in 1..Len(list) /\ ~ (m <= j)
      OBVIOUS
    <3> QED BY <2>1, <3>1
  <2>4. ~ Qualified(list[m])
    BY <2>1
  <2> QED BY <2>2, <2>3, <2>4 DEF IsStreak
<1> QED BY <1>1, <1>2

\* The window query counts the streak.
LEMMA SqlCounts ==
    ASSUME NEW list \in Seq(Nat), NEW k, IsStreak(list, k)
    PROVE  SqlStreak(list) = k
<1>1. k \in Nat /\ k <= Len(list) /\ DOMAIN list = 1..Len(list) /\ Len(list) \in Nat
  BY DEF IsStreak
<1>2. ASSUME NEW i \in DOMAIN list PROVE (\A j \in 1..i : Qualified(list[j])) <=> i \in 1..k
  <2>1. CASE i \in 1..k
    BY <1>1, <2>1 DEF IsStreak
  <2>2. CASE i \notin 1..k
    <3>1. k + 1 \in 1..i /\ k < Len(list)
      BY <1>1, <2>2
    <3> QED BY <2>2, <3>1 DEF IsStreak
  <2> QED BY <2>1, <2>2
<1>3. UnbrokenRows(list) = 1..k
  BY <1>1, <1>2 DEF UnbrokenRows
<1>4. Cardinality(1..k) = k
  BY <1>1, UpTo
<1> QED BY <1>3, <1>4 DEF SqlStreak

LEMMA GreatestOne ==
    ASSUME NEW n \in Nat, NEW s \in SUBSET (1..n), s # {}
    PROVE  Max(s) \in s /\ \A x \in s : x <= Max(s)
<1> DEFINE Up == {n - x : x \in s}
<1>1. PICK m \in Up : \A y \in Up : m <= y
  <2>1. \A x \in s : n - x \in Nat
    OBVIOUS
  <2>2. Up \in SUBSET Nat /\ Up # {}
    BY <2>1
  <2> HIDE DEF Up
  <2> QED BY <2>2, LeastNumber
<1>2. PICK x \in s : m = n - x
  OBVIOUS
<1>3. ASSUME NEW y \in s PROVE y <= x
  <2>1. n - y \in Up
    OBVIOUS
  <2>2. n - x <= n - y
    BY <1>1, <1>2, <2>1
  <2>3. x \in Int /\ y \in Int
    OBVIOUS
  <2> QED BY <2>2, <2>3
<1> QED BY <1>3 DEF Max

LEMMA SmallestOne ==
    ASSUME NEW n \in Nat, NEW s \in SUBSET (1..n), s # {}
    PROVE  Min(s) \in s /\ \A x \in s : Min(s) <= x
<1>1. s \in SUBSET Nat
  OBVIOUS
<1>2. \E m \in s : \A x \in s : m <= x
  BY <1>1, LeastNumber
<1> QED BY <1>2 DEF Min

\* What the loop keeps.
Count == [count : Nat, broken : BOOLEAN]

\* One row of the loop that stops.
Counted(c, ms) ==
    IF c.broken \/ ~ Qualified(ms)
    THEN [c EXCEPT !.broken = TRUE] ELSE [c EXCEPT !.count = @ + 1]

LEMMA CountedType ==
    ASSUME NEW c \in Count, NEW ms
    PROVE  /\ Counted(c, ms) \in Count
           /\ c.broken \/ ~ Qualified(ms) =>
                Counted(c, ms).count = c.count /\ Counted(c, ms).broken
           /\ ~ (c.broken \/ ~ Qualified(ms)) =>
                Counted(c, ms).count = c.count + 1 /\ ~ Counted(c, ms).broken
<1>1. CASE c.broken \/ ~ Qualified(ms)
  <2>1. Counted(c, ms) = [c EXCEPT !.broken = TRUE]
    BY <1>1 DEF Counted
  <2> QED BY <1>1, <2>1 DEF Count
<1>2. CASE ~ (c.broken \/ ~ Qualified(ms))
  <2>1. Counted(c, ms) = [c EXCEPT !.count = @ + 1]
    BY <1>2 DEF Counted
  <2> QED BY <1>2, <2>1 DEF Count
<1> QED BY <1>1, <1>2

LEMMA ConsecutiveLoop ==
    ASSUME NEW list \in Seq(Nat)
    PROVE  \E it : /\ ConsecutiveQualified(list) = it[1..Len(list)].count
                   /\ it[1..0] = [count |-> 0, broken |-> FALSE]
                   /\ \A i \in 1..Len(list) : it[1..i] = Counted(it[1..(i - 1)], list[i])
<1> DEFINE n == Len(list)
           S == 1..n
           T == Count
           base == [count |-> 0, broken |-> FALSE]
           Iter(g) == g = [s \in SUBSET S |-> IF s = {} THEN base
                                              ELSE Counted(g[s \ {Max(s)}], list[Max(s)])]
           it == CHOOSE g : Iter(g)
           pick == [s \in SUBSET S |-> Max(s)]
           F == [p \in S \X T |-> Counted(p[2], list[p[1]])]
<1>1. n \in Nat /\ DOMAIN list = S /\ IsFiniteSet(S)
  BY UpTo
<1>2. \A s \in SUBSET S : s # {} => Max(s) \in s
  BY <1>1, GreatestOne
<1>3. Picks(pick, S)
  BY <1>2 DEF Picks
<1>4. \A c \in T : \A ms : Counted(c, ms) \in T
  BY CountedType
<1>5. F \in [S \X T -> T] /\ \A x \in S, c \in T : F[<<x, c>>] = Counted(c, list[x])
  <2> HIDE DEF T
  <2> QED BY <1>4
<1>6. base \in T
  BY DEF Count
<1>7. PICK g : Folds(g, S, base, pick, F, T)
  <2> HIDE DEF F, pick, base, T, S
  <2> QED BY <1>1, <1>3, <1>5, <1>6, FoldExists
<1>8. \A s \in SUBSET S : g[s] = IF s = {} THEN base ELSE Counted(g[s \ {Max(s)}], list[Max(s)])
  <2> HIDE DEF F, base, T, S
  <2>1. \A s \in SUBSET S : s \ {Max(s)} \in SUBSET S
    OBVIOUS
  <2>2. \A s \in SUBSET S : /\ g[s \ {Max(s)}] \in T
                            /\ g[s] = IF s = {} THEN base ELSE F[<<Max(s), g[s \ {Max(s)}]>>]
    BY <1>7, <2>1 DEF Folds
  <2>3. \A s \in SUBSET S : s # {} => Max(s) \in S
    BY <1>2
  <2> QED BY <1>5, <2>2, <2>3
<1>9. Iter(g)
  <2>1. g = [s \in SUBSET S |-> g[s]]
    BY <1>7 DEF Folds
  <2> HIDE DEF base, S
  <2> QED BY <1>8, <2>1
<1>10. Iter(it)
  <2> HIDE DEF Iter
  <2> QED BY <1>9
<1>11. ConsecutiveQualified(list) = it[S].count
  BY <1>1 DEF ConsecutiveQualified, FoldLeft, MapThenFoldSet, Counted
<1> HIDE DEF it
<1>12. it[1..0] = base
  <2>1. 1..0 = {} /\ {} \in SUBSET S
    OBVIOUS
  <2> HIDE DEF base, S
  <2> QED BY <1>10, <2>1
<1>13. \A i \in 1..n : it[1..i] = Counted(it[1..(i - 1)], list[i])
  <2> TAKE i \in 1..n
  <2>1. i \in Nat /\ 1 <= i /\ i <= n
    BY <1>1
  <2>5. 1..i \in SUBSET S /\ i \in 1..i /\ \A x \in 1..i : x <= i /\ x \in Int
    <3> HIDE DEF n
    <3> QED BY <1>1, <2>1
  <2>2. Max(1..i) = i
    <3>1. Max(1..i) \in 1..i /\ i <= Max(1..i)
      <4> HIDE DEF n
      <4> QED BY <1>1, <2>1, <2>5, GreatestOne
    <3>2. Max(1..i) \in Int /\ i \in Int /\ Max(1..i) <= i
      BY <1>1, <2>1, <2>5, <3>1
    <3> QED BY <3>1, <3>2
  <2>3. (1..i) \ {i} = 1..(i - 1)
    BY <1>1
  <2>4. it[1..i] = Counted(it[(1..i) \ {Max(1..i)}], list[Max(1..i)])
    <3>1. 1..i # {}
      BY <2>5
    <3> HIDE DEF S, base
    <3> QED BY <1>10, <2>5, <3>1
  <2> QED BY <2>2, <2>3, <2>4
<1> QED BY <1>11, <1>12, <1>13

\* The loop that stops counts it too.
LEMMA GoCounts ==
    ASSUME NEW list \in Seq(Nat), NEW k, IsStreak(list, k)
    PROVE  ConsecutiveQualified(list) = k
<1> DEFINE n == Len(list)
           Right(c, i) == /\ c \in Count
                          /\ c.count = IF k <= i THEN k ELSE i
                          /\ c.broken <=> k < i
<1>1. k \in Nat /\ n \in Nat /\ k <= n
  BY DEF IsStreak
<1>2. PICK it : /\ ConsecutiveQualified(list) = it[1..Len(list)].count
                /\ it[1..0] = [count |-> 0, broken |-> FALSE]
                /\ \A i \in 1..Len(list) : it[1..i] = Counted(it[1..(i - 1)], list[i])
  BY ConsecutiveLoop
<1>3. \A i \in 0..n : Right(it[1..i], i)
  <2> DEFINE Bad == {i \in 0..n : ~ Right(it[1..i], i)}
  <2>1. SUFFICES ASSUME Bad # {} PROVE FALSE
    OBVIOUS
  <2>2. PICK m \in Bad : \A x \in Bad : m <= x
    <3>1. Bad \in SUBSET Nat
      OBVIOUS
    <3> HIDE DEF Bad
    <3> QED BY <3>1, <2>1, LeastNumber
  <2>3. m # 0
    <3>1. Right([count |-> 0, broken |-> FALSE], 0)
      BY <1>1 DEF Count
    <3> HIDE DEF Right
    <3> QED BY <1>2, <2>2, <3>1
  <2>4. m \in 1..n /\ m - 1 \in 0..n /\ m - 1 \notin Bad
    <3>1. m \in 0..n
      OBVIOUS
    <3>2. m \in 1..n /\ m - 1 \in 0..n /\ ~ (m <= m - 1)
      BY <1>1, <2>3, <3>1
    <3> HIDE DEF Bad
    <3> QED BY <2>2, <3>2
  <2> DEFINE c == it[1..(m - 1)]
  <2>5. Right(c, m - 1)
    <3> HIDE DEF Right
    <3> QED BY <2>4
  <2>6. it[1..m] = Counted(c, list[m])
    BY <1>2, <2>4
  <2> HIDE DEF c
  <2>7. Right(Counted(c, list[m]), m)
    <3>1. m - 1 \in Nat /\ m \in Nat
      BY <1>1, <2>4
    <3>2. k = m - 1 => ~ Qualified(list[m])
      BY <1>1, <2>4 DEF IsStreak
    <3>3. k > m - 1 => Qualified(list[m])
      BY <1>1, <2>4 DEF IsStreak
    <3>4. CASE k < m - 1
      BY <1>1, <2>5, <3>1, <3>4, CountedType
    <3>5. CASE k = m - 1
      BY <1>1, <2>5, <3>1, <3>2, <3>5, CountedType
    <3>6. CASE k > m - 1
      BY <1>1, <2>5, <3>1, <3>3, <3>6, CountedType
    <3> QED BY <1>1, <3>1, <3>4, <3>5, <3>6
  <2> HIDE DEF Right
  <2> QED BY <2>2, <2>6, <2>7
<1>4. Right(it[1..n], n)
  BY <1>1, <1>3
<1> QED BY <1>1, <1>2, <1>4

\* What the loop over all the days keeps.
Best == [current : Nat, longest : Nat]

\* One row of the loop from the oldest day to the newest.
Extended(ms, c) ==
    LET current == IF Qualified(ms) THEN c.current + 1 ELSE 0
    IN  [current |-> current, longest |-> Max({current, c.longest})]

LEMMA ExtendedType ==
    ASSUME NEW c \in Best, NEW ms
    PROVE  /\ Extended(ms, c) \in Best
           /\ Extended(ms, c).current = IF Qualified(ms) THEN c.current + 1 ELSE 0
           /\ Extended(ms, c).longest = IF Extended(ms, c).current >= c.longest
                                        THEN Extended(ms, c).current ELSE c.longest
<1> DEFINE current == IF Qualified(ms) THEN c.current + 1 ELSE 0
<1>1. current \in Nat /\ c.longest \in Nat
  BY DEF Best
<1> HIDE DEF current
<1>2. Max({current, c.longest}) = IF current >= c.longest THEN current ELSE c.longest
  BY <1>1, MaxTwo
<1>3. Extended(ms, c) = [current |-> current, longest |-> Max({current, c.longest})]
  BY DEF Extended, current
<1> QED BY <1>1, <1>2, <1>3 DEF Best, current

\* it says what the loop has after the rows of an interval up to the n-th, the oldest.
DescendsTo(list, n, it) ==
    /\ LongestQualified(list) = it[1..n].longest
    /\ it[(n + 1)..n] = [current |-> 0, longest |-> 0]
    /\ \A i \in 1..n : it[i..n] = Extended(list[i], it[(i + 1)..n])

LEMMA LongestLoop ==
    ASSUME NEW list \in Seq(Nat), NEW n, n = Len(list)
    PROVE  \E it : DescendsTo(list, n, it)
<1> DEFINE S == 1..n
           T == Best
           base == [current |-> 0, longest |-> 0]
           Iter(g) == g = [s \in SUBSET S |-> IF s = {} THEN base
                                              ELSE Extended(list[Min(s)], g[s \ {Min(s)}])]
           it == CHOOSE g : Iter(g)
           pick == [s \in SUBSET S |-> Min(s)]
           F == [p \in S \X T |-> Extended(list[p[1]], p[2])]
<1>1. n \in Nat /\ DOMAIN list = S
  OBVIOUS
<1>2. \A s \in SUBSET S : s # {} => Min(s) \in s
  BY <1>1, SmallestOne
<1>3. Picks(pick, S) /\ IsFiniteSet(S)
  <2>1. Picks(pick, S)
    BY <1>2 DEF Picks
  <2>2. IsFiniteSet(1..n)
    BY <1>1, UpTo
  <2> QED BY <2>1, <2>2
<1>4. \A c \in T : \A ms : Extended(ms, c) \in T
  BY ExtendedType
<1>5. F \in [S \X T -> T] /\ \A x \in S, c \in T : F[<<x, c>>] = Extended(list[x], c)
  <2> HIDE DEF T
  <2> QED BY <1>4
<1>6. base \in T
  BY DEF Best
<1>7. PICK g : Folds(g, S, base, pick, F, T)
  <2> HIDE DEF F, pick, base, T, S
  <2> QED BY <1>1, <1>3, <1>5, <1>6, FoldExists
<1>8. \A s \in SUBSET S : g[s] = IF s = {} THEN base ELSE Extended(list[Min(s)], g[s \ {Min(s)}])
  <2> HIDE DEF F, base, T, S
  <2>1. \A s \in SUBSET S : s \ {Min(s)} \in SUBSET S
    OBVIOUS
  <2>2. \A s \in SUBSET S : /\ g[s \ {Min(s)}] \in T
                            /\ g[s] = IF s = {} THEN base ELSE F[<<Min(s), g[s \ {Min(s)}]>>]
    BY <1>7, <2>1 DEF Folds
  <2>3. \A s \in SUBSET S : s # {} => Min(s) \in S
    BY <1>2
  <2> QED BY <1>5, <2>2, <2>3
<1>9. Iter(g)
  <2>1. g = [s \in SUBSET S |-> g[s]]
    BY <1>7 DEF Folds
  <2> HIDE DEF base, S
  <2> QED BY <1>8, <2>1
<1>10. Iter(it)
  <2> HIDE DEF Iter
  <2> QED BY <1>9
<1>11. LongestQualified(list) = it[S].longest
  BY <1>1 DEF LongestQualified, FoldRight, MapThenFoldSet, Extended
<1> HIDE DEF it
<1>12. it[(n + 1)..n] = base
  <2>1. (n + 1)..n = {} /\ {} \in SUBSET S
    BY <1>1
  <2> HIDE DEF base, S
  <2> QED BY <1>10, <2>1
<1>13. \A i \in 1..n : it[i..n] = Extended(list[i], it[(i + 1)..n])
  <2> TAKE i \in 1..n
  <2>1. i \in Nat /\ 1 <= i /\ i <= n
    BY <1>1
  <2>2. i..n \in SUBSET S /\ i \in i..n /\ \A x \in i..n : i <= x /\ x \in Int
    BY <1>1, <2>1
  <2>3. Min(i..n) = i
    <3>1. Min(i..n) \in i..n /\ Min(i..n) <= i
      BY <1>1, <2>1, <2>2, SmallestOne
    <3>2. Min(i..n) \in Int /\ i \in Int /\ i <= Min(i..n)
      BY <1>1, <2>1, <2>2, <3>1
    <3> QED BY <3>1, <3>2
  <2>4. (i..n) \ {i} = (i + 1)..n
    BY <1>1
  <2>5. it[i..n] = Extended(list[Min(i..n)], it[(i..n) \ {Min(i..n)}])
    <3>1. i..n # {}
      BY <2>2
    <3> HIDE DEF S, base
    <3> QED BY <1>10, <2>2, <3>1
  <2> QED BY <2>3, <2>4, <2>5
<1> QED BY <1>11, <1>12, <1>13 DEF DescendsTo

\* n qualified rows in a row, from the i-th on at the earliest.
StretchFrom(list, i, n) ==
    \E a \in i..(Len(list) + 1 - n) : \A j \in a..(a + n - 1) : Qualified(list[j])

\* c is what the loop has when it has come down to the i-th row.
LongestFrom(list, i, c) ==
    /\ c \in Best
    /\ i + c.current <= Len(list) + 1
    /\ \A j \in i..(i + c.current - 1) : Qualified(list[j])
    /\ i + c.current <= Len(list) => ~ Qualified(list[i + c.current])
    /\ StretchFrom(list, i, c.longest)
    /\ ~ StretchFrom(list, i, c.longest + 1)

LEMMA LongestStep ==
    ASSUME NEW list \in Seq(Nat), NEW i \in 1..Len(list), NEW c, LongestFrom(list, i + 1, c)
    PROVE  LongestFrom(list, i, Extended(list[i], c))
<1> DEFINE e == Extended(list[i], c)
<1>1. PICK n \in Nat : n = Len(list)
  OBVIOUS
<1>2. PICK k \in Nat, l \in Nat : k = c.current /\ l = c.longest
  BY DEF LongestFrom, Best
<1>3. /\ e \in Best
      /\ e.current = IF Qualified(list[i]) THEN k + 1 ELSE 0
      /\ e.longest = IF e.current >= l THEN e.current ELSE l
  BY <1>2, ExtendedType DEF LongestFrom
<1> HIDE DEF e
<1>4. PICK k2 \in Nat, l2 \in Nat : k2 = e.current /\ l2 = e.longest
  BY <1>3 DEF Best
<1>5. /\ k2 = IF Qualified(list[i]) THEN k + 1 ELSE 0
      /\ l2 = IF k2 >= l THEN k2 ELSE l
  BY <1>3, <1>4
<1>6. i \in 1..n
  BY <1>1
<1>7. /\ i + 1 + k <= n + 1
      /\ \A j \in (i + 1)..(i + 1 + k - 1) : Qualified(list[j])
      /\ i + 1 + k <= n => ~ Qualified(list[i + 1 + k])
  BY <1>1, <1>2 DEF LongestFrom
<1>8. i + k2 <= n + 1
  BY <1>5, <1>6, <1>7
<1>9. \A j \in i..(i + k2 - 1) : Qualified(list[j])
  <2> TAKE j \in i..(i + k2 - 1)
  <2>1. Qualified(list[i]) /\ k2 = k + 1
    BY <1>5, <1>6
  <2>2. j = i \/ j \in (i + 1)..(i + 1 + k - 1)
    BY <1>6, <2>1
  <2> QED BY <1>7, <2>1, <2>2
<1>10. i + k2 <= n => ~ Qualified(list[i + k2])
  <2>1. CASE Qualified(list[i])
    <3>1. i + k2 = i + 1 + k
      BY <1>5, <1>6, <2>1
    <3> QED BY <1>7, <3>1
  <2>2. CASE ~ Qualified(list[i])
    <3>1. i + k2 = i
      BY <1>5, <1>6, <2>2
    <3> QED BY <2>2, <3>1
  <2> QED BY <2>1, <2>2
<1>11. StretchFrom(list, i, l2)
  <2>1. CASE k2 >= l
    <3>1. l2 = k2 /\ i \in i..(n + 1 - k2)
      BY <1>5, <1>6, <1>8, <2>1
    <3> QED BY <1>1, <1>9, <3>1 DEF StretchFrom
  <2>2. CASE ~ (k2 >= l)
    <3>1. l2 = l
      BY <1>5, <2>2
    <3>2. PICK a \in (i + 1)..(n + 1 - l) : \A j \in a..(a + l - 1) : Qualified(list[j])
      BY <1>1, <1>2 DEF LongestFrom, StretchFrom
    <3>3. a \in i..(n + 1 - l)
      BY <1>6
    <3> QED BY <1>1, <3>1, <3>2, <3>3 DEF StretchFrom
  <2> QED BY <2>1, <2>2
<1>12. ~ StretchFrom(list, i, l2 + 1)
  <2> SUFFICES ASSUME NEW a \in i..(n + 1 - (l2 + 1)),
                      \A j \in a..(a + (l2 + 1) - 1) : Qualified(list[j])
               PROVE  FALSE
    BY <1>1 DEF StretchFrom
  <2>1. l2 >= l /\ l2 >= k2 /\ a \in Int
    BY <1>5, <1>6
  <2>2. CASE a = i
    <3>1. i \in a..(a + (l2 + 1) - 1)
      BY <1>6, <2>2
    <3>2. Qualified(list[i])
      BY <3>1
    <3>3. k2 = k + 1
      BY <1>5, <3>2
    <3>4. i + k2 \in a..(a + (l2 + 1) - 1) /\ i + k2 <= n
      BY <1>6, <2>1, <2>2
    <3> QED BY <1>10, <3>4
  <2>3. CASE a # i
    <3>1. a \in (i + 1)..(n + 1 - (l + 1))
      BY <1>6, <2>1, <2>3
    <3>2. \A j \in a..(a + (l + 1) - 1) : j \in a..(a + (l2 + 1) - 1)
      BY <2>1
    <3>3. StretchFrom(list, i + 1, l + 1)
      BY <1>1, <3>1, <3>2 DEF StretchFrom
    <3> QED BY <1>2, <3>3 DEF LongestFrom
  <2> QED BY <2>2, <2>3
<1>13. LongestFrom(list, i, e)
  BY <1>1, <1>3, <1>4, <1>8, <1>9, <1>10, <1>11, <1>12 DEF LongestFrom
<1> QED BY <1>13 DEF e

\* The loop finds the longest stretch.
LEMMA LongestFound ==
    ASSUME NEW list \in Seq(Nat)
    PROVE  /\ LongestQualified(list) \in Nat
           /\ StretchFrom(list, 1, LongestQualified(list))
           /\ ~ StretchFrom(list, 1, LongestQualified(list) + 1)
<1>1. PICK n \in Nat : n = Len(list)
  OBVIOUS
<1>2. PICK it : DescendsTo(list, n, it)
  BY <1>1, LongestLoop
<1>6. /\ LongestQualified(list) = it[1..n].longest
      /\ it[(n + 1)..n] = [current |-> 0, longest |-> 0]
      /\ \A i \in 1..n : it[i..n] = Extended(list[i], it[(i + 1)..n])
  BY <1>2 DEF DescendsTo
<1> DEFINE At(l) == LongestFrom(list, n + 1 - l, it[(n + 1 - l)..n])
<1>3. At(0)
  <2> DEFINE c == [current |-> 0, longest |-> 0]
  <2>1. c \in Best /\ c.current = 0 /\ c.longest = 0
    BY DEF Best
  <2> HIDE DEF c
  <2>2. StretchFrom(list, n + 1, 0)
    <3>1. n + 1 \in (n + 1)..(Len(list) + 1 - 0) /\ (n + 1)..(n + 1 + 0 - 1) = {}
      BY <1>1
    <3> QED BY <3>1 DEF StretchFrom
  <2>3. ~ StretchFrom(list, n + 1, 0 + 1)
    <3>1. (n + 1)..(Len(list) + 1 - (0 + 1)) = {}
      BY <1>1
    <3> QED BY <3>1 DEF StretchFrom
  <2>4. (n + 1)..(n + 1 + 0 - 1) = {} /\ n + 1 + 0 = n + 1 /\ ~ (n + 1 <= n) /\ n + 1 - 0 = n + 1
    BY <1>1
  <2>5. LongestFrom(list, n + 1, c)
    BY <1>1, <2>1, <2>2, <2>3, <2>4 DEF LongestFrom
  <2> QED BY <1>6, <2>4, <2>5 DEF c
<1>4. \A l \in 0..n : At(l)
  <2> DEFINE Bad == {l \in 0..n : ~ At(l)}
  <2>1. SUFFICES ASSUME Bad # {} PROVE FALSE
    OBVIOUS
  <2> HIDE DEF At
  <2>2. PICK m \in Bad : \A x \in Bad : m <= x
    <3>1. Bad \in SUBSET Nat
      OBVIOUS
    <3> HIDE DEF Bad
    <3> QED BY <3>1, <2>1, LeastNumber
  <2>3. m \in 0..n /\ m # 0 /\ ~ At(m)
    BY <1>3, <2>2
  <2>4. m - 1 \in 0..n /\ ~ (m <= m - 1)
    BY <1>1, <2>3
  <2>5. At(m - 1)
    BY <2>2, <2>4
  <2>11. m \in Nat /\ m >= 1 /\ m <= n /\ n \in Nat
    BY <2>3
  <2>6. PICK i \in 1..n : i = n + 1 - m
    <3>1. n + 1 - m \in 1..n
      BY <2>11
    <3> QED BY <3>1
  <2>7. i + 1 = n + 1 - (m - 1)
    BY <1>1, <2>3, <2>6
  <2>8. LongestFrom(list, i + 1, it[(i + 1)..n])
    BY <2>5, <2>7 DEF At
  <2>9. LongestFrom(list, i, Extended(list[i], it[(i + 1)..n]))
    BY <1>1, <2>8, LongestStep
  <2>10. At(m)
    BY <1>6, <2>6, <2>9 DEF At
  <2> QED BY <2>3, <2>10
<1>5. LongestFrom(list, 1, it[1..n])
  <2>1. n \in 0..n /\ n + 1 - n = 1
    BY <1>1
  <2>2. At(n)
    <3> HIDE DEF At
    <3> QED BY <1>4, <2>1
  <2> QED BY <2>1, <2>2
<1> QED BY <1>6, <1>5 DEF LongestFrom, Best

----------------------------------------------------------------------------
(* The figures of an account.                                              *)

\* The metrics are those of the aggregates, and names are unique.
FiguresInv ==
    /\ username \in [User -> Name] /\ IsInjective(username)
    /\ aggs \in [User -> [1..MaxDay -> Nat]]
    /\ metrics \in [User -> [streak : Nat, focus : Nat]]
    /\ \A u \in User : /\ metrics[u].streak = SqlStreak(NewestFirst(aggs[u]))
                       /\ metrics[u].focus = Total(NewestFirst(aggs[u]))

\* What a leaderboard is ordered by, as a relation.
RankOrder(m) == {p \in User \X User : Ahead(m, p[1], p[2])}

LEMMA RankStrict ==
    ASSUME FiguresInv, NEW m \in Metric, NEW S \in SUBSET User
    PROVE  StrictOrder(RankOrder(m), S)
<1>1. \A u \in User : metrics[u][m] \in Nat /\ username[u] \in Nat
  BY DEF FiguresInv, Metric
<1>2. \A u, v \in User : u # v => username[u] # username[v]
  BY DEF FiguresInv, IsInjective
<1>3. \A u, v \in User : <<u, v>> \in RankOrder(m) <=> Ahead(m, u, v)
  BY DEF RankOrder
<1>4. \A u \in User : ~ Ahead(m, u, u)
  BY <1>1 DEF Ahead
<1>5. \A u, v, w \in User : Ahead(m, u, v) /\ Ahead(m, v, w) => Ahead(m, u, w)
  BY <1>1 DEF Ahead
<1>6. \A u, v \in User : u # v => Ahead(m, u, v) \/ Ahead(m, v, u)
  BY <1>1, <1>2 DEF Ahead
<1> QED BY <1>3, <1>4, <1>5, <1>6 DEF StrictOrder

LEMMA RankedSorted ==
    ASSUME FiguresInv, NEW m \in Metric, NEW S \in SUBSET User
    PROVE  IsFiniteSet(S) /\ SortedBy(RankOrder(m), S, Ranked(m, S))
<1>1. IsFiniteSet(S) /\ Cardinality(S) \in Nat
  BY FS_Subset, FS_CardinalityType
<1> DEFINE R == {p \in S \X S : Ahead(m, p[1], p[2])}
<1>2. PICK s : SortedBy(RankOrder(m), S, s)
  BY <1>1, RankStrict, SortExists
<1>3. \A u, v \in S : <<u, v>> \in R <=> <<u, v>> \in RankOrder(m)
  BY DEF RankOrder
<1> HIDE DEF R
<1>4. Ranked(m, S) = OrderBy(S, R)
  BY DEF Ranked, R
<1>5. SortedBy(R, S, s)
  BY <1>2, <1>3 DEF SortedBy
<1>6. SortedBy(R, S, Ranked(m, S))
  BY <1>4, <1>5 DEF SortedBy, OrderBy
<1>7. SortedBy(RankOrder(m), S, Ranked(m, S))
  BY <1>3, <1>6 DEF SortedBy
<1> QED BY <1>1, <1>7

\* The rank that the user's own request answers.
LEMMA RankCounts ==
    ASSUME FiguresInv, NEW m \in Metric, NEW u \in User
    PROVE  /\ GetLeaderboardRank(m, u) \in 1..Cardinality(RankedWith(u))
           /\ Ranked(m, RankedWith(u))[GetLeaderboardRank(m, u)] = u
           /\ GetLeaderboardRank(m, u) = 1 + Cardinality({v \in Visible : Ahead(m, v, u)})
<1> DEFINE S == RankedWith(u)
           all == Ranked(m, S)
           r == GetLeaderboardRank(m, u)
<1>1. S \in SUBSET User /\ u \in S
  BY DEF RankedWith, Visible
<1>2. IsFiniteSet(S) /\ SortedBy(RankOrder(m), S, all) /\ StrictOrder(RankOrder(m), S)
  BY <1>1, RankedSorted, RankStrict
<1>3. DOMAIN all = 1..Cardinality(S)
  BY <1>2 DEF SortedBy
<1>4. r = CHOOSE i \in DOMAIN all : all[i] = u
  BY DEF GetLeaderboardRank
<1> HIDE DEF r, all, S
<1>5. /\ \E i \in 1..Cardinality(S) : all[i] = u
      /\ \A i \in 1..Cardinality(S) : Cardinality(Earlier(RankOrder(m), S, all[i])) = i - 1
      /\ Cardinality(S) \in Nat
  BY <1>1, <1>2, SortFacts
<1>6. r \in 1..Cardinality(S) /\ all[r] = u
  BY <1>3, <1>4, <1>5
<1>7. Earlier(RankOrder(m), S, u) = {v \in Visible : Ahead(m, v, u)}
  <2>1. <<u, u>> \notin RankOrder(m)
    BY <1>1, <1>2 DEF StrictOrder
  <2>2. \A v \in User : <<v, u>> \in RankOrder(m) <=> Ahead(m, v, u)
    BY DEF RankOrder
  <2> QED BY <1>1, <2>1, <2>2 DEF Earlier, S, RankedWith
<1>8. Cardinality({v \in Visible : Ahead(m, v, u)}) = r - 1
  BY <1>5, <1>6, <1>7
<1>9. r = 1 + Cardinality({v \in Visible : Ahead(m, v, u)})
  BY <1>5, <1>6, <1>8
<1> QED BY <1>6, <1>9 DEF r, all, S

\* The pages one after the other.
LEMMA PagesRanked ==
    ASSUME FiguresInv, NEW m \in Metric, NEW k \in 1..Cardinality(User)
    PROVE  FlattenSeq([p \in 1..Cardinality(User) |-> ListLeaderboardEntries(m, p, k)])
             = Ranked(m, Visible)
<1> DEFINE s == Ranked(m, Visible)
           n == Cardinality(User)
           pages == [p \in 1..n |-> ListLeaderboardEntries(m, p, k)]
<1>1. Visible \in SUBSET User
  BY DEF Visible
<1>2. n \in Nat /\ Cardinality(Visible) \in Nat /\ Cardinality(Visible) <= n
  BY <1>1, FS_Subset, FS_CardinalityType
<1>3. s \in [1..Cardinality(Visible) -> Visible]
  BY <1>1, RankedSorted DEF SortedBy
<1> HIDE DEF s
<1>4. s \in Seq(Visible) /\ Len(s) = Cardinality(Visible)
  BY <1>2, <1>3
<1>5. k \in Nat \ {0} /\ n \in Nat \ {0} /\ Len(s) <= n
  BY <1>2, <1>4
<1>6. \A p \in 1..n : ListLeaderboardEntries(m, p, k) = Following(s, (p - 1) * k, k)
  <2> TAKE p \in 1..n
  <2>1. (p - 1) * k \in Nat
    BY <1>5
  <2>2. PICK o \in Nat : o = (p - 1) * k
    BY <2>1
  <2>3. o + k \in Int /\ Len(s) \in Int
    BY <1>4, <1>5
  <2>4. Min({o + k, Len(s)}) = IF o + k <= Len(s) THEN o + k ELSE Len(s)
    BY <2>3, MinTwo
  <2>5. Offset(p, k) = o
    BY <2>2 DEF Offset
  <2>6. ListLeaderboardEntries(m, p, k) = SubSeq(s, o + 1, Min({o + k, Len(s)}))
    BY <2>5 DEF ListLeaderboardEntries, s
  <2> QED BY <2>2, <2>4, <2>6 DEF Following
<1>7. pages = [p \in 1..n |-> Following(s, (p - 1) * k, k)]
  BY <1>6
<1>8. FlattenSeq(pages) = s
  <2> HIDE DEF pages, n
  <2> QED BY <1>4, <1>5, <1>7, PagesFlattened
<1> QED BY <1>8 DEF s

LEMMA RanksFollow == FiguresInv => RanksAgree
<1> SUFFICES ASSUME FiguresInv, NEW m \in Metric, NEW k \in 1..Cardinality(User)
             PROVE  LET pages == FlattenSeq([p \in 1..Cardinality(User) |->
                                               ListLeaderboardEntries(m, p, k)])
                        rank  == [u \in User |-> GetLeaderboardRank(m, u)]
                    IN  /\ ToSet(pages) = Visible
                        /\ \A r \in DOMAIN pages : rank[pages[r]] = r
                        /\ \A u \in User :
                             rank[u] = 1 + Cardinality({v \in Visible : Ahead(m, v, u)})
  BY DEF RanksAgree
<1> DEFINE s == Ranked(m, Visible)
           n == Cardinality(Visible)
           rank == [u \in User |-> GetLeaderboardRank(m, u)]
<1>1. Visible \in SUBSET User
  BY DEF Visible
<1>2. IsFiniteSet(Visible) /\ SortedBy(RankOrder(m), Visible, s) /\ StrictOrder(RankOrder(m), Visible)
  BY <1>1, RankedSorted, RankStrict
<1>3. s \in [1..n -> Visible]
  BY <1>2 DEF SortedBy
<1> HIDE DEF s
<1>4. /\ \A i, j \in 1..n : s[i] = s[j] => i = j
      /\ \A x \in Visible : \E i \in 1..n : s[i] = x
  BY <1>2, SortFacts
<1>5. ToSet(s) = Visible
  BY <1>3, <1>4 DEF ToSet
<1>6. \A i \in DOMAIN s : rank[s[i]] = i
  <2> TAKE i \in DOMAIN s
  <2>1. s[i] \in Visible /\ s[i] \in User /\ i \in 1..n
    BY <1>1, <1>3
  <2>2. RankedWith(s[i]) = Visible
    BY <2>1 DEF RankedWith
  <2>3. GetLeaderboardRank(m, s[i]) \in 1..n /\ s[GetLeaderboardRank(m, s[i])] = s[i]
    BY <2>1, <2>2, RankCounts DEF s
  <2> QED BY <1>4, <2>1, <2>3
<1>7. \A u \in User : rank[u] = 1 + Cardinality({v \in Visible : Ahead(m, v, u)})
  BY RankCounts
<1>8. FlattenSeq([p \in 1..Cardinality(User) |-> ListLeaderboardEntries(m, p, k)]) = s
  BY PagesRanked DEF s
<1> QED BY <1>5, <1>6, <1>7, <1>8

\* What is left of a streak in the days that are read.
LEMMA RecentStreak ==
    ASSUME NEW list \in Seq(Nat), NEW k, IsStreak(list, k), NEW n \in Nat
    PROVE  /\ First(list, n) \in Seq(Nat)
           /\ IsStreak(First(list, n), IF k <= n THEN k ELSE n)
<1>1. PICK l \in Nat : l = Len(list)
  OBVIOUS
<1>2. /\ k \in Nat /\ k <= l
      /\ \A j \in 1..k : Qualified(list[j])
      /\ k < l => ~ Qualified(list[k + 1])
  BY <1>1 DEF IsStreak
<1> DEFINE f == First(list, n)
           c == IF k <= n THEN k ELSE n
<1>3. /\ f \in Seq(Nat)
      /\ Len(f) = IF n <= l THEN n ELSE l
      /\ \A i \in 1..Len(f) : f[i] = list[i]
  BY <1>1, FirstFacts
<1> HIDE DEF f
<1>4. c \in 0..Len(f)
  BY <1>2, <1>3
<1>5. \A j \in 1..c : Qualified(f[j])
  <2> TAKE j \in 1..c
  <2>1. j \in 1..Len(f) /\ j \in 1..k
    BY <1>2, <1>3
  <2> QED BY <1>2, <1>3, <2>1
<1>6. c < Len(f) => ~ Qualified(f[c + 1])
  <2> HAVE c < Len(f)
  <2>1. c = k /\ k < l /\ k + 1 \in 1..Len(f)
    BY <1>2, <1>3
  <2> QED BY <1>2, <1>3, <2>1
<1>7. IsStreak(f, c)
  BY <1>4, <1>5, <1>6 DEF IsStreak
<1> QED BY <1>3, <1>7 DEF f

LEMMA StatsFollow == FiguresInv => StatsAgreeUpToRecentDays
<1> SUFFICES ASSUME FiguresInv, NEW u \in User
             PROVE  LET list    == NewestFirst(aggs[u])
                        streak  == metrics[u].streak
                        longest == Stats(u).longest
                        Stretch(n) == \E i \in 0..(Len(list) - n) :
                                        \A j \in 1..n : Qualified(list[i + j])
                    IN  /\ streak <= RecentDays => Stats(u).current = streak
                        /\ streak > RecentDays => Stats(u).current = RecentDays
                        /\ Stats(u).total = metrics[u].focus
                        /\ longest >= streak
                        /\ longest <= Len(list)
                        /\ Stretch(longest)
                        /\ ~ Stretch(longest + 1)
  BY DEF StatsAgreeUpToRecentDays
<1> DEFINE list == NewestFirst(aggs[u])
           streak  == metrics[u].streak
           Stretch(n) == \E i \in 0..(Len(list) - n) :
                           \A j \in 1..n : Qualified(list[i + j])
<1>1. list \in Seq(Nat)
  BY NewestType DEF FiguresInv
<1>2. streak = SqlStreak(list) /\ metrics[u].focus = Total(list)
  BY DEF FiguresInv
<1>3. /\ Stats(u).current = ConsecutiveQualified(RecentAggregates(u))
      /\ Stats(u).longest = LongestQualified(list)
      /\ Stats(u).total = Total(list)
  BY DEF Stats
<1>4. RecentAggregates(u) = SubSeq(list, 1, Min({RecentDays, Len(list)}))
  BY DEF RecentAggregates
<1> HIDE DEF list, streak
<1>5. PICK l \in Nat : l = Len(list)
  BY <1>1
<1>6. PICK k \in 0..Len(list) : IsStreak(list, k)
  BY <1>1, StreakExists
<1>7. k \in Nat /\ k <= l /\ RecentDays \in Nat
  BY <1>5, <1>6
<1>8. streak = k
  BY <1>1, <1>2, <1>6, SqlCounts
<1>9. Stats(u).current = IF k <= RecentDays THEN k ELSE RecentDays
  <2>1. RecentAggregates(u) = First(list, RecentDays)
    <3>1. l \in Int /\ RecentDays \in Int
      BY <1>7
    <3>2. Min({RecentDays, l}) = IF RecentDays <= l THEN RecentDays ELSE l
      BY <3>1, MinTwo
    <3> QED BY <1>4, <1>5, <3>2 DEF First
  <2>2. /\ First(list, RecentDays) \in Seq(Nat)
        /\ IsStreak(First(list, RecentDays), IF k <= RecentDays THEN k ELSE RecentDays)
    BY <1>1, <1>6, <1>7, RecentStreak
  <2> QED BY <1>3, <2>1, <2>2, GoCounts
<1>10. /\ streak <= RecentDays => Stats(u).current = streak
       /\ streak > RecentDays => Stats(u).current = RecentDays
  BY <1>7, <1>8, <1>9
<1>11. PICK longest \in Nat : longest = Stats(u).longest
  BY <1>1, <1>3, LongestFound
<1>12. StretchFrom(list, 1, longest) /\ ~ StretchFrom(list, 1, longest + 1)
  BY <1>1, <1>3, <1>11, LongestFound
<1>13. \A n \in Nat : StretchFrom(list, 1, n) <=> Stretch(n)
  <2> TAKE n \in Nat
  <2>1. ASSUME StretchFrom(list, 1, n) PROVE Stretch(n)
    <3>1. PICK a \in 1..(l + 1 - n) : \A j \in a..(a + n - 1) : Qualified(list[j])
      BY <1>5, <2>1 DEF StretchFrom
    <3>2. a - 1 \in 0..(l - n) /\ \A j \in 1..n : a - 1 + j \in a..(a + n - 1)
      BY <1>5
    <3> QED BY <1>5, <3>1, <3>2
  <2>2. ASSUME Stretch(n) PROVE StretchFrom(list, 1, n)
    <3>1. PICK i \in 0..(l - n) : \A j \in 1..n : Qualified(list[i + j])
      BY <1>5, <2>2
    <3>2. i + 1 \in 1..(l + 1 - n)
      BY <1>5
    <3>3. \A j \in (i + 1)..((i + 1) + n - 1) : j - i \in 1..n /\ i + (j - i) = j
      BY <1>5
    <3>4. \A j \in (i + 1)..((i + 1) + n - 1) : Qualified(list[j])
      BY <3>1, <3>3
    <3> QED BY <1>5, <3>2, <3>4 DEF StretchFrom
  <2> QED BY <2>1, <2>2
<1>14. Stretch(longest) /\ ~ Stretch(longest + 1)
  <2>1. longest + 1 \in Nat
    OBVIOUS
  <2> HIDE DEF Stretch
  <2> QED BY <1>12, <1>13, <2>1
<1>15. longest <= l
  BY <1>5, <1>12 DEF StretchFrom
<1>16. longest >= k
  <2> SUFFICES ASSUME ~ (longest >= k) PROVE FALSE
    OBVIOUS
  <2>1. /\ 1 \in 1..(l + 1 - (longest + 1))
        /\ \A j \in 1..(1 + (longest + 1) - 1) : j \in 1..k
    BY <1>7
  <2>2. \A j \in 1..k : Qualified(list[j])
    BY <1>6 DEF IsStreak
  <2>3. StretchFrom(list, 1, longest + 1)
    BY <1>5, <2>1, <2>2 DEF StretchFrom
  <2> QED BY <1>12, <2>3
<1>17. Stats(u).total = metrics[u].focus
  BY <1>2, <1>3
<1> HIDE DEF Stretch
<1>18. /\ Stats(u).longest >= streak /\ Stats(u).longest <= Len(list)
       /\ Stretch(Stats(u).longest) /\ ~ Stretch(Stats(u).longest + 1)
  BY <1>5, <1>8, <1>11, <1>14, <1>15, <1>16
<1> QED BY <1>10, <1>17, <1>18 DEF Stretch, list, streak

LEMMA FiguresInit == AccountsInit => FiguresInv
<1> SUFFICES ASSUME AccountsInit PROVE FiguresInv
  OBVIOUS
<1> DEFINE none == [d \in 1..MaxDay |-> 0]
<1>1. none \in [1..MaxDay -> Nat] /\ \A d \in 1..MaxDay : none[d] = 0
  OBVIOUS
<1> HIDE DEF none
<1>2. NewestFirst(none) = << >>
  BY <1>1, NewestType
<1>9. << >> \in Seq(Nat)
  OBVIOUS
<1>3. Total(<< >>) = 0
  BY <1>9, TotalType
<1>4. SqlStreak(<< >>) = 0
  <2>1. IsStreak(<< >>, 0)
    BY DEF IsStreak
  <2>2. << >> \in Seq(Nat)
    OBVIOUS
  <2> QED BY <2>1, <2>2, SqlCounts
<1>5. username \in [User -> Name] /\ IsInjective(username)
  BY DEF AccountsInit
<1>6. \A u \in User : aggs[u] = none
  BY DEF AccountsInit, none
<1>7. aggs \in [User -> [1..MaxDay -> Nat]]
  <2>1. aggs = [u \in User |-> none]
    BY DEF AccountsInit, none
  <2> QED BY <1>1, <2>1
<1>8. /\ metrics \in [User -> [streak : Nat, focus : Nat]]
      /\ \A u \in User : metrics[u].streak = 0 /\ metrics[u].focus = 0
  BY DEF AccountsInit
<1> QED BY <1>2, <1>3, <1>4, <1>5, <1>6, <1>7, <1>8 DEF FiguresInv

\* A change of name.
LEMMA FiguresUpdateMe ==
    ASSUME FiguresInv, NEW u \in User, NEW n \in Name, UpdateMe(u, n)
    PROVE  FiguresInv'
<1>1. username' = [username EXCEPT ![u] = n] /\ \A v \in User \ {u} : username[v] # n
  BY DEF UpdateMe, Taken
<1>2. username' \in [User -> Name]
  BY <1>1 DEF FiguresInv
<1>3. IsInjective(username')
  BY <1>1 DEF FiguresInv, IsInjective
<1>4. aggs' = aggs /\ metrics' = metrics
  BY DEF UpdateMe, focusVars
<1> QED BY <1>2, <1>3, <1>4 DEF FiguresInv

\* A sync: the metrics are made anew from the aggregates it leaves.
LEMMA FiguresSyncDay ==
    ASSUME FiguresInv, NEW u \in User, NEW d \in 1..MaxDay, NEW ms \in 0..MaxMs,
           SyncDay(u, d, ms)
    PROVE  FiguresInv'
<1>1. /\ aggs' = [aggs EXCEPT ![u][d] = ms]
      /\ metrics' = [metrics EXCEPT ![u] = [streak |-> SqlStreak(NewestFirst(aggs'[u])),
                                            focus  |-> Total(NewestFirst(aggs'[u]))]]
      /\ username' = username
  BY DEF SyncDay, RefreshLeaderboardMetrics, profileVars
<1>2. ms \in Nat
  OBVIOUS
<1>3. /\ aggs' \in [User -> [1..MaxDay -> Nat]]
      /\ \A v \in User : v # u => aggs'[v] = aggs[v]
  BY <1>1, <1>2 DEF FiguresInv
<1>4. PICK days \in [1..MaxDay -> Nat] : days = aggs'[u]
  BY <1>3
<1> DEFINE list == NewestFirst(days)
<1>5. list \in Seq(Nat)
  BY NewestType
<1> HIDE DEF list
<1>6. SqlStreak(list) \in Nat
  <2>1. PICK k \in 0..Len(list) : IsStreak(list, k)
    BY <1>5, StreakExists
  <2>2. SqlStreak(list) = k
    BY <1>5, <2>1, SqlCounts
  <2> QED BY <1>5, <2>2
<1>7. Total(list) \in Nat
  BY <1>5, TotalType
<1>8. metrics' = [metrics EXCEPT ![u] = [streak |-> SqlStreak(list), focus |-> Total(list)]]
  BY <1>1, <1>4 DEF list
<1>9. metrics' \in [User -> [streak : Nat, focus : Nat]]
  BY <1>6, <1>7, <1>8 DEF FiguresInv
<1>10. /\ metrics'[u].streak = SqlStreak(list) /\ metrics'[u].focus = Total(list)
       /\ \A v \in User : v # u => metrics'[v] = metrics[v]
  BY <1>8 DEF FiguresInv
<1>11. list = NewestFirst(aggs'[u])
  BY <1>4 DEF list
<1>12. \A v \in User : /\ metrics'[v].streak = SqlStreak(NewestFirst(aggs'[v]))
                       /\ metrics'[v].focus = Total(NewestFirst(aggs'[v]))
  BY <1>3, <1>10, <1>11 DEF FiguresInv
<1> QED BY <1>1, <1>3, <1>9, <1>12 DEF FiguresInv

LEMMA FiguresStep == FiguresInv /\ [AccountsNext]_accountVars => FiguresInv'
<1> SUFFICES ASSUME FiguresInv, [AccountsNext]_accountVars PROVE FiguresInv'
  OBVIOUS
<1>1. ASSUME username' = username, UNCHANGED focusVars PROVE FiguresInv'
  BY <1>1 DEF FiguresInv, focusVars
<1>2. ASSUME NEW u \in User, NEW n \in Name, UpdateMe(u, n) PROVE FiguresInv'
  BY <1>2, FiguresUpdateMe
<1>3. ASSUME NEW u \in User, NEW shown \in BOOLEAN, UpdatePrivacyPreferences(u, shown)
      PROVE  FiguresInv'
  BY <1>1, <1>3 DEF UpdatePrivacyPreferences
<1>4. ASSUME NEW h \in Handler, NEW u \in User, ReadStops(h, u) PROVE FiguresInv'
  BY <1>1, <1>4 DEF ReadStops, profileVars
<1>5. ASSUME NEW h \in Handler, GrantStop(h) \/ CommitUnanswered(h) PROVE FiguresInv'
  BY <1>1, <1>5 DEF GrantStop, CommitUnanswered, CommitStop, profileVars
<1>6. ASSUME NEW h \in Handler, FailStop(h) PROVE FiguresInv'
  BY <1>1, <1>6 DEF FailStop, profileVars
<1>7. ASSUME NEW u \in User, NEW d \in 1..MaxDay, NEW ms \in 0..MaxMs, SyncDay(u, d, ms)
      PROVE  FiguresInv'
  BY <1>7, FiguresSyncDay
<1>8. CASE UNCHANGED accountVars
  BY <1>1, <1>8 DEF accountVars, profileVars
<1> QED BY <1>2, <1>3, <1>4, <1>5, <1>6, <1>7, <1>8 DEF AccountsNext

\* The metrics of every account are those of its aggregates, and no two
\* accounts have the same name, whatever profile updates, stops and syncs come.
THEOREM FiguresInvariant == AccountsSpec => []FiguresInv
<1>1. AccountsInit => FiguresInv
  BY FiguresInit
<1>2. FiguresInv /\ [AccountsNext]_accountVars => FiguresInv'
  BY FiguresStep
<1> QED BY <1>1, <1>2, PTL DEF AccountsSpec

\* Turning the pages shows each visible user once and nobody else, on the row
\* that is the rank answered to that user; a user who has opted out is told a
\* rank with as many visible users ahead: for any number of users, any page
\* size and any figures (ListLeaderboardEntries, GetLeaderboardRank).
THEOREM RanksAlwaysAgree == AccountsSpec => []RanksAgree
<1>1. FiguresInv => RanksAgree
  BY RanksFollow
<1> QED BY <1>1, FiguresInvariant, PTL

\* Go's loop over the days that it reads and the window query of the metrics
\* count the same streak when it lies within those days; of a longer one Go
\* answers only those days, fewer than the metrics hold.  The longest streak
\* that Go answers is not cut, and is a stretch of qualified days that cannot be
\* extended.  For any number of days and any focus times (loadStatsForUser and
\* RefreshLeaderboardMetrics).
THEOREM StatsAgreeWhereRead == AccountsSpec => []StatsAgreeUpToRecentDays
<1>1. FiguresInv => StatsAgreeUpToRecentDays
  BY StatsFollow
<1> QED BY <1>1, FiguresInvariant, PTL

=============================================================================
