----------------------------- MODULE Units_proofs -----------------------------
(***************************************************************************)
(* Lemmas about rounding, for every set of unit sizes that has the byte.   *)
(***************************************************************************)
EXTENDS Units, FiniteFacts, FiniteSetTheorems, TLAPS

LEMMA Division ==
  ASSUME NEW a \in Nat, NEW u \in Nat \ {0}
  PROVE  /\ a \div u \in Nat /\ a % u \in Nat /\ a % u < u
         /\ a = (a \div u) * u + (a % u)
OBVIOUS

\* RoundUpMi never rounds down, and by less than a unit.
LEMMA RoundUpBounds ==
  ASSUME NEW n \in Nat, NEW u \in Nat \ {0}
  PROVE  /\ RoundUp(n, u) \in Nat
         /\ n <= RoundUp(n, u) /\ RoundUp(n, u) <= n + u - 1
<1>1. CASE n = 0
  BY <1>1 DEF RoundUp
<1>2. CASE n > 0
  <2> DEFINE a == n + u - 1
             q == a \div u
             x == q * u
  <2>1. a \in Nat
    BY <1>2
  <2>2. q \in Nat /\ a % u \in Nat /\ a % u < u /\ a = x + (a % u)
    BY <2>1, Division
  <2>3. x \in Nat
    BY <2>2, MulNat
  <2>4. RoundUp(n, u) = x
    BY <1>2 DEF RoundUp
  <2> HIDE DEF x, q
  <2>5. n <= x /\ x <= n + u - 1
    BY <2>2, <2>3
  <2> QED
    BY <2>3, <2>4, <2>5
<1> QED
  BY <1>1, <1>2

LEMMA UnitType ==
  ASSUME NEW n \in Nat \ {0}
  PROVE  UnitOf(n) \in Nat \ {0} /\ UnitOf(n) <= n
<1> DEFINE S == {u \in UnitSizes : u <= n}
<1>0. \A u \in UnitSizes : u \in Nat /\ u # 0
  BY UnitSizesAssumption
<1>1. S \in SUBSET Nat /\ S # {}
  <2>1. 1 \in S
    BY UnitSizesAssumption
  <2> QED
    BY <1>0, <2>1
<1>2. IsFiniteSet(S)
  <2>1. S \in SUBSET (1 .. n) /\ IsFiniteSet(1 .. n)
    BY <1>0, FS_Interval
  <2> HIDE DEF S
  <2> QED
    BY <2>1, FS_Subset
<1>3. \E m \in S : \A k \in S : k <= m
  <2> HIDE DEF S
  <2> QED
    BY <1>1, <1>2, GreatestExists
<1>4. \E m \in UnitSizes : m <= n /\ \A v \in UnitSizes : v <= n => v <= m
  BY <1>3
<1>5. UnitOf(n) \in UnitSizes /\ UnitOf(n) <= n
  BY <1>4 DEF UnitOf
<1> QED
  BY <1>0, <1>5

\* What a printed quantity denotes is within a twentieth of the quantity, and
\* less than one byte.
LEMMA PrintedIsNear ==
  ASSUME NEW n \in Nat
  PROVE  /\ Printed(n) \in Nat
         /\ 19 * n <= 20 * Printed(n) /\ 20 * Printed(n) <= 21 * n + 18
<1>1. CASE n = 0
  BY <1>1 DEF Printed
<1>2. CASE n # 0
  <2> DEFINE u == UnitOf(n)
             down == (10 * n) \div u
             rest == (10 * n) % u
             t == Tenths(n)
  <2>1. u \in Nat \ {0} /\ u <= n
    BY <1>2, UnitType
  <2>2. down \in Nat /\ rest \in Nat /\ rest < u /\ 10 * n = down * u + rest
    BY <2>1, Division
  <2>3. (t = down + 1 /\ 2 * rest >= u) \/ (t = down /\ 2 * rest <= u)
    <3>1. t = IF 2 * rest > u \/ (2 * rest = u /\ down % 2 = 1) THEN down + 1 ELSE down
      BY DEF Tenths
    <3> HIDE DEF t, u, down, rest
    <3> QED
      BY <2>1, <2>2, <3>1
  <2>4. Printed(n) = (t * u + 9) \div 10
    BY <1>2 DEF Printed
  <2> HIDE DEF t, u, down, rest
  <2> DEFINE x == down * u
             y == t * u
  <2>5. x \in Nat
    BY <2>1, <2>2, MulNat
  <2>6. (y = x + u /\ 2 * rest >= u) \/ (y = x /\ 2 * rest <= u)
    <3>1. (down + 1) * u = down * u + u
      BY <2>1, <2>2
    <3> QED
      BY <2>3, <3>1
  <2>7. 10 * n = x + rest /\ Printed(n) = (y + 9) \div 10
    BY <2>2, <2>4
  <2> HIDE DEF x, y
  <2>8. y \in Nat /\ 2 * y <= 20 * n + u /\ 2 * y >= 20 * n - u
    BY <2>1, <2>2, <2>5, <2>6, <2>7
  <2>9. Printed(n) \in Nat /\ 10 * Printed(n) >= y /\ 10 * Printed(n) <= y + 9
    BY <2>7, <2>8
  <2> QED
    BY <2>1, <2>8, <2>9
<1> QED
  BY <1>1, <1>2
=============================================================================
