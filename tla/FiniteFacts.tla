----------------------------- MODULE FiniteFacts -----------------------------
(***************************************************************************)
(* Facts about numbers and finite sets that the proofs share.  An          *)
(* induction is put as a first-order argument: a set of counterexamples,   *)
(* were it not empty, would have a least one.                              *)
(***************************************************************************)
EXTENDS Integers, FiniteSetTheorems, TLAPS

\* A product of natural numbers is one.
LEMMA MulNat == ASSUME NEW a \in Nat, NEW b \in Nat PROVE a * b \in Nat
OBVIOUS

\* A set of natural numbers has a least element.
LEMMA LeastExists ==
  ASSUME NEW S \in SUBSET Nat, S # {}
  PROVE  \E m \in S : \A k \in S : m <= k
<1> DEFINE Initials == {0 .. m : m \in S}
<1>1. Initials \subseteq FiniteSubsetsOf(Nat) /\ Initials # {}
  <2>1. ASSUME NEW m \in S  PROVE 0 .. m \in FiniteSubsetsOf(Nat)
    <3>1. IsFiniteSet(0 .. m)
      BY FS_Interval
    <3> QED
      BY <3>1 DEF FiniteSubsetsOf
  <2> QED
    BY <2>1
<1>2. PICK I \in Initials : \A J \in Initials : ~(<<J, I>> \in StrictSubsetOrdering(Nat))
  <2> HIDE DEF Initials
  <2> QED
    BY <1>1, FS_StrictSubsetOrderingWellFounded, WFMin
<1>3. PICK m \in S : I = 0 .. m
  OBVIOUS
<1>4. ASSUME NEW k \in S, k < m  PROVE FALSE
  <2>1. 0 .. k \in Initials /\ 0 .. k \subseteq 0 .. m /\ m \in 0 .. m /\ m \notin 0 .. k
    BY <1>4
  <2>2. <<0 .. k, 0 .. m>> \in StrictSubsetOrdering(Nat)
    BY <2>1 DEF StrictSubsetOrdering
  <2> QED
    BY <1>2, <1>3, <2>1, <2>2
<1> QED
  BY <1>4

\* A finite set of natural numbers has a greatest element.
LEMMA GreatestExists ==
  ASSUME NEW S \in SUBSET Nat, IsFiniteSet(S), S # {}
  PROVE  \E m \in S : \A k \in S : k <= m
<1> DEFINE Bad == {X \in SUBSET S : X # {} /\ ~ \E m \in X : \A k \in X : k <= m}
<1> SUFFICES ASSUME Bad # {} PROVE FALSE
  OBVIOUS
<1>1. Bad \subseteq FiniteSubsetsOf(S)
  BY FS_Subset DEF FiniteSubsetsOf
<1>2. PICK X \in Bad : \A Y \in Bad : ~(<<Y, X>> \in StrictSubsetOrdering(S))
  <2> HIDE DEF Bad
  <2> QED
    BY <1>1, FS_StrictSubsetOrderingWellFounded, WFMin
<1>3. PICK x \in X : TRUE
  OBVIOUS
<1>4. <<X \ {x}, X>> \in StrictSubsetOrdering(S)
  BY <1>3 DEF StrictSubsetOrdering
<1>5. X \ {x} \notin Bad
  BY <1>2, <1>4
<1>6. CASE X = {x}
  BY <1>6, <1>3
<1>7. CASE X # {x}
  <2>1. PICK m \in X \ {x} : \A k \in X \ {x} : k <= m
    BY <1>3, <1>5, <1>7
  <2>2. \A k \in X : k <= IF x <= m THEN m ELSE x
    BY <2>1, <1>3
  <2> QED
    BY <2>1, <2>2, <1>3
<1> QED
  BY <1>6, <1>7

\* R orders S strictly and totally.
Orders(R, S) ==
  /\ \A x \in S : <<x, x>> \notin R
  /\ \A x, y, z \in S : <<x, y>> \in R /\ <<y, z>> \in R => <<x, z>> \in R
  /\ \A x, y \in S : x # y => <<x, y>> \in R \/ <<y, x>> \in R

\* How many are below an element.
Places(R, S) == [x \in S |-> Cardinality({y \in S : <<y, x>> \in R})]

\* Of sets of subsets of a finite set, some member is smallest.
LEMMA SmallestSubset ==
  ASSUME NEW S, IsFiniteSet(S), NEW B \in SUBSET SUBSET S, B # {}
  PROVE  \E s \in B : \A x \in s : s \ {x} \notin B
<1>1. B \subseteq FiniteSubsetsOf(S)
  BY FS_Subset DEF FiniteSubsetsOf
<1>2. PICK s \in B : \A t \in B : ~(<<t, s>> \in StrictSubsetOrdering(S))
  BY <1>1, FS_StrictSubsetOrderingWellFounded, WFMin
<1>3. \A x \in s : <<s \ {x}, s>> \in StrictSubsetOrdering(S)
  BY DEF StrictSubsetOrdering
<1> QED
  BY <1>2, <1>3

\* A strict total order on a finite set numbers its elements from 0: an element's
\* number is how many are below it.
LEMMA PlacesInAnOrder ==
  ASSUME NEW S, IsFiniteSet(S), NEW R, Orders(R, S)
  PROVE  /\ \A x \in S : Places(R, S)[x] \in 0 .. Cardinality(S) - 1
         /\ \A x, y \in S : <<x, y>> \in R => Places(R, S)[x] < Places(R, S)[y]
         /\ \A x, y \in S : Places(R, S)[x] = Places(R, S)[y] => x = y
         /\ \A i \in 1 .. Cardinality(S) : \E x \in S : Places(R, S)[x] = i - 1
<1> DEFINE P == Places(R, S)
<1> USE DEF Orders, Places
<1> DEFINE Below(x) == {y \in S : <<y, x>> \in R}
<1>0. Cardinality(S) \in Nat
  BY FS_CardinalityType
<1>1. ASSUME NEW x \in S
      PROVE  IsFiniteSet(Below(x)) /\ Cardinality(Below(x)) \in Nat
             /\ Cardinality(Below(x)) < Cardinality(S)
  <2>1. Below(x) \in SUBSET S /\ Below(x) # S
    OBVIOUS
  <2> HIDE DEF Below
  <2> QED
    BY <2>1, <1>0, FS_Subset, FS_CardinalityType
<1>2. \A x \in S : P[x] = Cardinality(Below(x))
  OBVIOUS
<1>3. \A x \in S : P[x] \in 0 .. Cardinality(S) - 1
  <2> HIDE DEF Below
  <2> QED
    BY <1>0, <1>1, <1>2
<1>4. ASSUME NEW x \in S, NEW y \in S, <<x, y>> \in R
      PROVE  P[x] < P[y]
  <2>1. Below(x) \in SUBSET Below(y)
    BY <1>4
  <2>4. x \in Below(y) /\ x \notin Below(x)
    BY <1>4
  <2> HIDE DEF Below
  <2>2. IsFiniteSet(Below(y)) /\ Cardinality(Below(y)) \in Nat /\ Cardinality(Below(x)) \in Nat
    BY <1>1
  <2>3. Cardinality(Below(x)) < Cardinality(Below(y))
    BY <2>1, <2>2, <2>4, FS_Subset
  <2> QED
    BY <2>3, <1>2
<1>5. ASSUME NEW x \in S, NEW y \in S, P[x] = P[y]
      PROVE  x = y
  <2>1. P[x] \in Int
    BY <1>3
  <2>2. ~(P[x] < P[y]) /\ ~(P[y] < P[x])
    BY <2>1, <1>5
  <2> QED
    BY <1>4, <2>2
<1>6. ASSUME NEW i \in 1 .. Cardinality(S)
      PROVE  \E x \in S : P[x] = i - 1
  <2> DEFINE T == 0 .. Cardinality(S) - 1
  <2>1. IsFiniteSet(T) /\ Cardinality(T) = Cardinality(S)
    <3> DEFINE n == Cardinality(S)
    <3>1. 0 \in Int /\ n - 1 \in Int /\ (0 > n - 1 => n = 0) /\ (n - 1) - 0 + 1 = n
      BY <1>0
    <3> HIDE DEF n
    <3>2. IsFiniteSet(0 .. n - 1) /\ Cardinality(0 .. n - 1) = n
      BY <3>1, FS_Interval
    <3> QED
      BY <3>2 DEF n
  <2>2. P \in [S -> T]
    BY <1>3
  <2>3. P \in Injection(S, T)
    BY <2>2, <1>5 DEF Injection, IsInjective
  <2> HIDE DEF T
  <2>4. P \in Surjection(S, T)
    BY <2>1, <2>3, FS_Injection
  <2>5. i - 1 \in T
    BY <1>0 DEF T
  <2> QED
    BY <2>4, <2>5 DEF Surjection
<1> QED
  BY <1>3, <1>4, <1>5, <1>6

\* The values of a function on a finite set are finitely many, and as many as the
\* set has elements when no two of those share a value.
LEMMA ValuesAreFinite ==
  ASSUME NEW S, IsFiniteSet(S), NEW F, F = [x \in S |-> F[x]]
  PROVE  /\ IsFiniteSet({F[x] : x \in S})
         /\ Cardinality({F[x] : x \in S}) <= Cardinality(S)
         /\ (\A x, y \in S : F[x] = F[y] => x = y)
            => Cardinality({F[x] : x \in S}) = Cardinality(S)
<1> DEFINE V == {F[x] : x \in S}
<1>1. F \in Surjection(S, V)
  BY DEF Surjection
<1>2. (\A x, y \in S : F[x] = F[y] => x = y) => F \in Injection(S, V)
  BY DEF Injection, IsInjective
<1> HIDE DEF V
<1>3. IsFiniteSet(V) /\ Cardinality(V) <= Cardinality(S)
      /\ (Cardinality(V) = Cardinality(S) <=> F \in Injection(S, V))
  BY <1>1, FS_Surjection
<1> QED
  BY <1>2, <1>3 DEF V

\* A finite set is a part of it and the rest.
LEMMA PartAndRest ==
  ASSUME NEW S, IsFiniteSet(S), NEW A \in SUBSET S
  PROVE  /\ IsFiniteSet(A) /\ Cardinality(A) \in Nat /\ Cardinality(S) \in Nat
         /\ Cardinality(S \ A) \in Nat /\ Cardinality(A) <= Cardinality(S)
         /\ Cardinality(A) + Cardinality(S \ A) = Cardinality(S)
<1>1. IsFiniteSet(A) /\ Cardinality(A) <= Cardinality(S)
  BY FS_Subset
<1>2. S \cap A = A
  OBVIOUS
<1>3. IsFiniteSet(S \ A) /\ Cardinality(S \ A) = Cardinality(S) - Cardinality(S \cap A)
  BY FS_Difference
<1>4. Cardinality(S \ A) = Cardinality(S) - Cardinality(A)
  BY <1>2, <1>3
<1>5. Cardinality(A) \in Nat /\ Cardinality(S) \in Nat /\ Cardinality(S \ A) \in Nat
  BY <1>1, <1>3, FS_CardinalityType
<1> DEFINE s == Cardinality(S)
           a == Cardinality(A)
           rest == Cardinality(S \ A)
<1>6. s \in Nat /\ a \in Nat /\ rest = s - a /\ rest \in Nat
  BY <1>4, <1>5
<1> HIDE DEF s, a, rest
<1>7. a + rest = s
  BY <1>6
<1> QED
  BY <1>1, <1>5, <1>7 DEF s, a, rest
=============================================================================
