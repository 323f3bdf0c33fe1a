--------------------------- MODULE Manifest_proofs ---------------------------
(***************************************************************************)
(* Proofs about the pod template and its static findings, for every set of *)
(* containers, every quantity a manifest may name and every cluster.       *)
(***************************************************************************)
EXTENDS Manifest, RiskFormula_proofs, Units_proofs

-----------------------------------------------------------------------------
(* Sums over a finite set.  A fold is a recursive function, and what it     *)
(* computes is known once such a function is known to exist.                *)

Picked(s) == CHOOSE x \in s : TRUE

SumStep(amount, g, s) == IF s = {} THEN 0 ELSE amount[Picked(s)] + g[s \ {Picked(s)}]

Sums(amount, S, g) == g = [s \in SUBSET S |-> SumStep(amount, g, s)]

LEMMA TotalIsSum ==
  ASSUME NEW amount, NEW S
  PROVE  Total(amount, S) = (CHOOSE g : Sums(amount, S, g))[S]
BY DEF Total, MapThenSumSet, MapThenFoldSet, Sums, SumStep, Picked

LEMMA SumsExist ==
  ASSUME NEW S, IsFiniteSet(S), NEW amount \in [S -> Nat]
  PROVE  \E g \in [SUBSET S -> Nat] : Sums(amount, S, g)
<1> DEFINE Upto(g, k) == \A s \in SUBSET S : Cardinality(s) <= k => g[s] = SumStep(amount, g, s)
           Bad == {k \in Nat : ~ \E g \in [SUBSET S -> Nat] : Upto(g, k)}
<1>1. \A s \in SUBSET S : /\ IsFiniteSet(s) /\ Cardinality(s) \in Nat /\ Cardinality(s) <= Cardinality(S)
                          /\ Cardinality(s) = 0 <=> s = {}
  BY FS_Subset, FS_CardinalityType, FS_EmptySet
<1>2. \A s \in SUBSET S : s # {} =>
        /\ Picked(s) \in s /\ Picked(s) \in S /\ s \ {Picked(s)} \in SUBSET S
        /\ Cardinality(s \ {Picked(s)}) = Cardinality(s) - 1
  <2> SUFFICES ASSUME NEW s \in SUBSET S, s # {}
               PROVE  /\ Picked(s) \in s /\ Picked(s) \in S /\ s \ {Picked(s)} \in SUBSET S
                      /\ Cardinality(s \ {Picked(s)}) = Cardinality(s) - 1
    OBVIOUS
  <2>1. Picked(s) \in s
    BY DEF Picked
  <2> QED
    BY <1>1, <2>1, FS_RemoveElement
<1>3. \A g \in [SUBSET S -> Nat], s \in SUBSET S : SumStep(amount, g, s) \in Nat
  <2> SUFFICES ASSUME NEW g \in [SUBSET S -> Nat], NEW s \in SUBSET S
               PROVE  SumStep(amount, g, s) \in Nat
    OBVIOUS
  <2>1. CASE s = {}
    BY <2>1 DEF SumStep
  <2>2. CASE s # {}
    <3>1. amount[Picked(s)] \in Nat /\ g[s \ {Picked(s)}] \in Nat
      BY <1>2, <2>2
    <3> QED
      BY <2>2, <3>1 DEF SumStep
  <2> QED
    BY <2>1, <2>2
<1>4. ASSUME NEW k \in Nat, NEW g \in [SUBSET S -> Nat], Upto(g, k)
      PROVE  \E h \in [SUBSET S -> Nat] : Upto(h, k + 1) /\ h = [s \in SUBSET S |-> SumStep(amount, g, s)]
  <2> DEFINE h == [s \in SUBSET S |-> SumStep(amount, g, s)]
  <2>1. h \in [SUBSET S -> Nat]
    BY <1>3
  <2>2. \A s \in SUBSET S : Cardinality(s) <= k => h[s] = g[s]
    BY <1>4
  <2>3. ASSUME NEW s \in SUBSET S, Cardinality(s) <= k + 1
        PROVE  h[s] = SumStep(amount, h, s)
    <3>1. CASE s = {}
      BY <3>1 DEF SumStep
    <3>2. CASE s # {}
      <4>1. Cardinality(s \ {Picked(s)}) <= k /\ s \ {Picked(s)} \in SUBSET S
        BY <1>1, <1>2, <2>3, <3>2
      <4>2. h[s \ {Picked(s)}] = g[s \ {Picked(s)}]
        BY <2>2, <4>1
      <4> QED
        BY <3>2, <4>2 DEF SumStep
    <3> QED
      BY <3>1, <3>2
  <2> QED
    BY <2>1, <2>3
<1>5. Bad = {}
  <2> SUFFICES ASSUME Bad # {} PROVE FALSE
    OBVIOUS
  <2>1. PICK k \in Bad : \A m \in Bad : k <= m
    <3>1. Bad \in SUBSET Nat
      OBVIOUS
    <3> HIDE DEF Bad
    <3> QED
      BY <3>1, LeastExists
  <2>2. CASE k = 0
    <3> DEFINE g == [s \in SUBSET S |-> 0]
    <3>1. g \in [SUBSET S -> Nat]
      OBVIOUS
    <3>2. \A s \in SUBSET S : Cardinality(s) <= 0 => s = {}
      BY <1>1
    <3>3. Upto(g, 0)
      BY <3>2 DEF SumStep
    <3> QED
      BY <2>1, <2>2, <3>1, <3>3
  <2>3. CASE k # 0
    <3>0. k \in Nat
      BY <2>1
    <3>1. k - 1 \in Nat /\ k - 1 \notin Bad
      <4> HIDE DEF Bad
      <4> QED
        BY <2>1, <2>3, <3>0
    <3>2. PICK g \in [SUBSET S -> Nat] : Upto(g, k - 1)
      BY <3>1
    <3>3. (k - 1) + 1 = k
      BY <2>1
    <3> HIDE DEF Upto
    <3>4. \E h \in [SUBSET S -> Nat] : Upto(h, (k - 1) + 1)
      BY <1>4, <3>1, <3>2
    <3> QED
      BY <2>1, <3>3, <3>4
  <2> QED
    BY <2>2, <2>3
<1>6. Cardinality(S) \in Nat
  BY <1>1
<1>7. PICK g \in [SUBSET S -> Nat] : Upto(g, Cardinality(S))
  BY <1>5, <1>6
<1>8. \A s \in SUBSET S : g[s] = SumStep(amount, g, s)
  BY <1>1, <1>7
<1>9. Sums(amount, S, g)
  BY <1>8 DEF Sums
<1> QED
  BY <1>9

AddsUp(amount, S, g) ==
  /\ g \in [SUBSET S -> Nat]
  /\ Total(amount, S) = g[S]
  /\ g[{}] = 0
  /\ \A s \in SUBSET S : s # {} =>
       /\ Picked(s) \in s /\ Picked(s) \in S
       /\ g[s] = amount[Picked(s)] + g[s \ {Picked(s)}]

\* A total is the value, on the whole set, of a function that adds up subsets.
LEMMA TotalAddsUp ==
  ASSUME NEW S, IsFiniteSet(S), NEW amount \in [S -> Nat]
  PROVE  \E g : AddsUp(amount, S, g)
<1> DEFINE g == CHOOSE h : Sums(amount, S, h)
<1>1. Sums(amount, S, g)
  BY SumsExist
<1>2. Total(amount, S) = g[S]
  BY TotalIsSum
<1>3. PICK f \in [SUBSET S -> Nat] : Sums(amount, S, f)
  BY SumsExist
<1> HIDE DEF g
<1>4. \A s \in SUBSET S : g[s] = SumStep(amount, g, s) /\ f[s] = SumStep(amount, f, s)
  BY <1>1, <1>3 DEF Sums
<1>5. \A s : s # {} => Picked(s) \in s
  BY DEF Picked
<1>6. {s \in SUBSET S : g[s] # f[s]} = {}
  <2> DEFINE B == {s \in SUBSET S : g[s] # f[s]}
  <2> SUFFICES ASSUME B # {} PROVE FALSE
    OBVIOUS
  <2>1. PICK s \in B : \A x \in s : s \ {x} \notin B
    <3>1. B \in SUBSET SUBSET S
      OBVIOUS
    <3> HIDE DEF B
    <3> QED
      BY <3>1, SmallestSubset
  <2>2. s # {}
    BY <1>4 DEF SumStep
  <2>3. g[s \ {Picked(s)}] = f[s \ {Picked(s)}]
    BY <1>5, <2>1, <2>2
  <2> QED
    BY <1>4, <2>2, <2>3 DEF SumStep
<1>7. g = [s \in SUBSET S |-> g[s]]
  BY <1>1 DEF Sums
<1>8. g \in [SUBSET S -> Nat]
  BY <1>6, <1>7
<1>9. g[{}] = 0 /\ \A s \in SUBSET S : s # {} => g[s] = amount[Picked(s)] + g[s \ {Picked(s)}]
  BY <1>4 DEF SumStep
<1> QED
  BY <1>2, <1>5, <1>8, <1>9 DEF AddsUp

LEMMA TotalType ==
  ASSUME NEW S, IsFiniteSet(S), NEW amount \in [S -> Nat]
  PROVE  Total(amount, S) \in Nat
<1>1. PICK g : AddsUp(amount, S, g)
  BY TotalAddsUp
<1> QED
  BY <1>1 DEF AddsUp

\* Where every amount is at most another, so is the total.
LEMMA TotalIsMonotone ==
  ASSUME NEW S, IsFiniteSet(S), NEW a \in [S -> Nat], NEW b \in [S -> Nat],
         \A c \in S : a[c] <= b[c]
  PROVE  Total(a, S) <= Total(b, S)
<1>1. PICK f : AddsUp(a, S, f)
  BY TotalAddsUp
<1>2. PICK g : AddsUp(b, S, g)
  BY TotalAddsUp
<1> DEFINE B == {s \in SUBSET S : ~(f[s] <= g[s])}
<1>3. ASSUME B # {} PROVE FALSE
  <2>1. PICK s \in B : \A x \in s : s \ {x} \notin B
    <3>1. B \in SUBSET SUBSET S
      OBVIOUS
    <3> HIDE DEF B
    <3> QED
      BY <1>3, <3>1, SmallestSubset
  <2>2. s \in SUBSET S /\ s # {}
    <3>1. f[{}] = 0 /\ g[{}] = 0 /\ 0 <= 0
      BY <1>1, <1>2 DEF AddsUp
    <3> QED
      BY <3>1
  <2> DEFINE x == Picked(s)
             r == s \ {x}
  <2>3. /\ x \in s /\ x \in S /\ r \in SUBSET S
        /\ f[s] = a[x] + f[r] /\ g[s] = b[x] + g[r]
    BY <1>1, <1>2, <2>2 DEF AddsUp
  <2>4. f[r] <= g[r]
    BY <2>1, <2>3
  <2>5. a[x] \in Nat /\ b[x] \in Nat /\ a[x] <= b[x] /\ f[r] \in Nat /\ g[r] \in Nat
    BY <1>1, <1>2, <2>3 DEF AddsUp
  <2>6. ~(f[s] <= g[s])
    OBVIOUS
  <2> HIDE DEF x, r
  <2> QED
    BY <2>3, <2>4, <2>5, <2>6
<1>4. f[S] <= g[S]
  BY <1>3
<1> QED
  BY <1>1, <1>2, <1>4 DEF AddsUp

\* Changing one amount changes the total by as much.
LEMMA TotalFollows ==
  ASSUME NEW S, IsFiniteSet(S), NEW a \in [S -> Nat], NEW c \in S, NEW q \in Nat
  PROVE  Total([a EXCEPT ![c] = q], S) + a[c] = Total(a, S) + q
<1> DEFINE b == [a EXCEPT ![c] = q]
<1>0. b \in [S -> Nat] /\ b[c] = q /\ a[c] \in Nat /\ \A x \in S : x # c => b[x] = a[x]
  OBVIOUS
<1> HIDE DEF b
<1>1. PICK f : AddsUp(a, S, f)
  BY TotalAddsUp
<1>2. PICK g : AddsUp(b, S, g)
  BY <1>0, TotalAddsUp
<1> DEFINE Same(s) == IF c \in s THEN g[s] + a[c] = f[s] + q ELSE g[s] = f[s]
           B == {s \in SUBSET S : ~Same(s)}
<1>3. ASSUME B # {} PROVE FALSE
  <2>1. PICK s \in B : \A x \in s : s \ {x} \notin B
    <3>1. B \in SUBSET SUBSET S
      OBVIOUS
    <3> HIDE DEF B
    <3> QED
      BY <1>3, <3>1, SmallestSubset
  <2>2. s \in SUBSET S /\ s # {}
    BY <1>1, <1>2 DEF AddsUp
  <2> DEFINE x == Picked(s)
             r == s \ {x}
  <2>3. /\ x \in s /\ x \in S /\ r \in SUBSET S
        /\ f[s] = a[x] + f[r] /\ g[s] = b[x] + g[r]
    BY <1>1, <1>2, <2>2 DEF AddsUp
  <2>4. Same(r) /\ ~Same(s)
    BY <2>1, <2>3
  <2>5. a[x] \in Nat /\ b[x] \in Nat /\ f[r] \in Nat /\ g[r] \in Nat
    BY <1>0, <1>1, <1>2, <2>3 DEF AddsUp
  <2>6. c \in s <=> x = c \/ c \in r
    BY <2>3
  <2>7. x = c => c \notin r
    OBVIOUS
  <2> HIDE DEF x, r
  <2>8. CASE x = c
    <3>1. g[r] = f[r] /\ ~(g[s] + a[c] = f[s] + q)
      BY <2>4, <2>6, <2>7, <2>8
    <3> QED
      BY <1>0, <2>3, <2>5, <2>8, <3>1
  <2>9. CASE x # c /\ c \in s
    <3>1. g[r] + a[c] = f[r] + q /\ ~(g[s] + a[c] = f[s] + q) /\ b[x] = a[x]
      BY <1>0, <2>3, <2>4, <2>6, <2>9
    <3> QED
      BY <1>0, <2>3, <2>5, <3>1
  <2>10. CASE c \notin s
    <3>1. g[r] = f[r] /\ ~(g[s] = f[s]) /\ b[x] = a[x]
      BY <1>0, <2>3, <2>4, <2>6, <2>10
    <3> QED
      BY <2>3, <2>5, <3>1
  <2> QED
    BY <2>8, <2>9, <2>10
<1>4. Same(S)
  BY <1>3
<1> QED
  BY <1>1, <1>2, <1>4 DEF AddsUp, b

\* A total is no less than any of its amounts, and zero when they all are.
LEMMA TotalCovers ==
  ASSUME NEW S, IsFiniteSet(S), NEW a \in [S -> Nat]
  PROVE  /\ \A c \in S : a[c] <= Total(a, S)
         /\ (\A c \in S : a[c] = 0) => Total(a, S) = 0
<1>1. ASSUME NEW c \in S
      PROVE  a[c] <= Total(a, S)
  <2>1. [a EXCEPT ![c] = 0] \in [S -> Nat]
    OBVIOUS
  <2>2. Total([a EXCEPT ![c] = 0], S) \in Nat /\ Total(a, S) \in Nat
    BY <2>1, TotalType
  <2>3. Total([a EXCEPT ![c] = 0], S) + a[c] = Total(a, S) + 0
    BY TotalFollows
  <2>4. a[c] \in Nat
    OBVIOUS
  <2> QED
    BY <2>2, <2>3, <2>4
<1>2. ASSUME \A c \in S : a[c] = 0
      PROVE  Total(a, S) = 0
  <2>1. PICK f : AddsUp(a, S, f)
    BY TotalAddsUp
  <2> DEFINE B == {s \in SUBSET S : f[s] # 0}
  <2>2. ASSUME B # {} PROVE FALSE
    <3>1. PICK s \in B : \A x \in s : s \ {x} \notin B
      <4>1. B \in SUBSET SUBSET S
        OBVIOUS
      <4> HIDE DEF B
      <4> QED
        BY <2>2, <4>1, SmallestSubset
    <3>2. s \in SUBSET S /\ s # {}
      BY <2>1 DEF AddsUp
    <3>3. Picked(s) \in s /\ a[Picked(s)] = 0 /\ f[s] = a[Picked(s)] + f[s \ {Picked(s)}]
      BY <1>2, <2>1, <3>2 DEF AddsUp
    <3>4. f[s \ {Picked(s)}] = 0
      BY <3>1, <3>2, <3>3
    <3> QED
      BY <3>3, <3>4
  <2>3. f[S] = 0
    BY <2>2
  <2> QED
    BY <2>1, <2>3 DEF AddsUp
<1> QED
  BY <1>1, <1>2

-----------------------------------------------------------------------------
(* What a manifest may say, and what is made of it.                         *)

MemSaid == MemQuantities \cup Pastable.mem
MaySay(res) == IF res = "mem" THEN MemSaid ELSE CpuQuantities

LEMMA TwoResources ==
  /\ Resources = {"mem", "cpu"}
  /\ Quantities["mem"] = MemQuantities /\ Quantities["cpu"] = CpuQuantities
  /\ Quantities["mem"] \cup Pastable["mem"] = MemSaid
  /\ Quantities["cpu"] \cup Pastable["cpu"] = CpuQuantities
  /\ \A res \in Resources : MaySay(res) \in SUBSET Nat
<1>1. Resources = {"mem", "cpu"}
  BY DEF Resources, Quantities
<1>2. Quantities["mem"] = MemQuantities /\ Quantities["cpu"] = CpuQuantities
  BY DEF Quantities
<1>3. Pastable["cpu"] = CpuQuantities
  BY <1>1, <1>2 DEF Pastable, AsPrinted
<1>4. Pastable["mem"] = {Printed(q) : q \in MemQuantities}
  BY <1>1, <1>2 DEF Pastable, AsPrinted
<1>5. MemSaid \in SUBSET Nat /\ CpuQuantities \in SUBSET Nat
  BY <1>4, PrintedIsNear, ManifestAssumption DEF MemSaid
<1>6. \A res \in Resources : MaySay(res) \in SUBSET Nat
  BY <1>1, <1>5 DEF MaySay
<1> QED
  BY <1>1, <1>2, <1>3, <1>6 DEF MemSaid

\* What is declared of one container, and its effective resources: with a limit
\* there is a request, and it is no more than the limit.
LEMMA OfType ==
  ASSUME spec \in SpecsOver(MemSaid), NEW c \in Containers, NEW res \in Resources
  PROVE  /\ spec[c][res] \in Declared(MaySay(res))
         /\ spec[c][res].req \in Nat \cup {Absent} /\ spec[c][res].lim \in Nat \cup {Absent}
         /\ Of(c, res).lim = spec[c][res].lim
         /\ Of(c, res).req \in Nat \cup {Absent}
         /\ Of(c, res).lim # Absent => Of(c, res).req # Absent /\ Of(c, res).req <= Of(c, res).lim
         /\ Of(c, res).req = IF Of(c, res).defaulted THEN spec[c][res].lim ELSE spec[c][res].req
         /\ Of(c, res).defaulted = (spec[c][res].req = Absent /\ spec[c][res].lim # Absent)
         /\ Reserved(c, res) \in Nat
<1>1. spec[c] \in [mem : Declared(MemSaid), cpu : Declared(CpuQuantities)]
  BY DEF SpecsOver
<1>2. spec[c][res] \in Declared(MaySay(res))
  <2>1. CASE res = "mem"
    BY <1>1, <2>1 DEF MaySay
  <2>2. CASE res = "cpu"
    BY <1>1, <2>2 DEF MaySay
  <2> QED
    BY <2>1, <2>2, TwoResources
<1>3. MaySay(res) \in SUBSET Nat
  BY TwoResources
<1> DEFINE r == spec[c][res]
<1>4. /\ r.req \in Nat \cup {Absent} /\ r.lim \in Nat \cup {Absent}
      /\ r.req = Absent \/ r.lim = Absent \/ r.req <= r.lim
  BY <1>2, <1>3 DEF Declared
<1> DEFINE missing == r.req = Absent /\ r.lim # Absent
<1>5. /\ Of(c, res).lim = r.lim /\ Of(c, res).defaulted = missing
      /\ Of(c, res).req = IF missing THEN r.lim ELSE r.req
  BY DEF Of, Effective
<1> HIDE DEF r
<1>6. /\ Of(c, res).req \in Nat \cup {Absent}
      /\ Of(c, res).lim # Absent => Of(c, res).req # Absent /\ Of(c, res).req <= Of(c, res).lim
  BY <1>4, <1>5 DEF Absent
<1>7. Reserved(c, res) \in Nat
  BY <1>6 DEF Reserved, Absent
<1> QED
  BY <1>2, <1>4, <1>5, <1>6, <1>7 DEF r

Reserves(res) == [c \in Collected |-> Reserved(c, res)]
Limits == [c \in Collected |-> Of(c, "mem").lim]
AllBounded == Collected # {} /\ \A c \in Collected : Of(c, "mem").lim # Absent

LEMMA CollectedType ==
  ASSUME spec \in SpecsOver(MemSaid)
  PROVE  /\ Collected \in SUBSET Containers /\ IsFiniteSet(Collected)
         /\ \A res \in Resources : Reserves(res) \in [Collected -> Nat]
         /\ \A res \in Resources : Reservation(res) = Total(Reserves(res), Collected)
         /\ \A res \in Resources : Reservation(res) \in Nat
         /\ AllBounded => Limits \in [Collected -> Nat]
         /\ MemLimit = IF AllBounded THEN Total(Limits, Collected) ELSE Unbounded
         /\ MemLimit \in Nat \cup {Unbounded}
         /\ AllBounded <=> MemLimit # Unbounded
<1>1. Collected \in SUBSET Containers
  BY DEF Collected
<1>2. IsFiniteSet(Collected)
  BY <1>1, ManifestAssumption, FS_Subset
<1>3. \A res \in Resources : Reserves(res) \in [Collected -> Nat]
  BY <1>1, OfType DEF Reserves
<1>4. \A res \in Resources : Reservation(res) = Total(Reserves(res), Collected)
  BY DEF Reservation, Reserves
<1>5. \A res \in Resources : Reservation(res) \in Nat
  BY <1>2, <1>3, <1>4, TotalType
<1>6. AllBounded => Limits \in [Collected -> Nat]
  BY <1>1, OfType, TwoResources DEF AllBounded, Limits
<1>7. MemLimit = IF AllBounded THEN Total(Limits, Collected) ELSE Unbounded
  BY DEF MemLimit, AllBounded, Limits
<1>8. AllBounded => Total(Limits, Collected) \in Nat
  BY <1>2, <1>6, TotalType
<1>9. MemLimit \in Nat \cup {Unbounded} /\ (AllBounded <=> MemLimit # Unbounded)
  BY <1>7, <1>8 DEF Unbounded
<1> QED
  BY <1>1, <1>2, <1>3, <1>4, <1>5, <1>6, <1>7, <1>9

Scored == ScoreOf(cluster, Shape)
Said == ReportOf(Scored)

LEMMA ShapeType ==
  ASSUME spec \in SpecsOver(MemSaid)
  PROVE  /\ Shape \in Workloads
         /\ Shape.request = Reservation("mem") /\ Shape.limit = MemLimit
<1>1. Reservation("mem") \in Nat /\ MemLimit \in Nat \cup {Unbounded}
  BY CollectedType, TwoResources
<1>2. {n \in NodeNames : Self \in cluster.tenants[n]} \in SUBSET NodeNames
  OBVIOUS
<1> QED
  BY <1>1, <1>2 DEF Shape, Workloads

\* A finding on a container, told by its rule.
LEMMA FindingOn ==
  ASSUME NEW c, NEW s, NEW f
  PROVE  f \in FindingsOn(c, s) <=>
           \/ f = Finding("CAP101", c, "warn") /\ \A res \in Resources : Of(c, res).req = Absent
           \/ f = Finding("CAP102", c, UncappedSeverity(s))
                /\ \A res \in Resources : Of(c, res).lim = Absent
           \/ f = Finding("CAP103", c, "info") /\ Implicit(Of(c, "mem"))
           \/ f = Finding("CAP104", c, "warn") /\ FloorOnly(c, "mem")
           \/ f = Finding("CAP105", c, "info") /\ Implicit(Of(c, "cpu"))
           \/ f = Finding("CAP106", c, "info") /\ FloorOnly(c, "cpu")
<1> DEFINE A == \A res \in Resources : Of(c, res).req = Absent
           B == \A res \in Resources : Of(c, res).lim = Absent
           I == Implicit(Of(c, "mem"))
           J == Implicit(Of(c, "cpu"))
           F == FloorOnly(c, "mem")
           G == FloorOnly(c, "cpu")
           On(g) == CASE g.rule = "CAP101" -> A
                      [] g.rule = "CAP102" -> B
                      [] g.rule = "CAP103" -> I
                      [] g.rule = "CAP104" -> F
                      [] g.rule = "CAP105" -> J
                      [] g.rule = "CAP106" -> G
<1>1. FindingsOn(c, s) =
        {g \in {Finding("CAP101", c, "warn"), Finding("CAP102", c, UncappedSeverity(s)),
                Finding("CAP103", c, "info"), Finding("CAP104", c, "warn"),
                Finding("CAP105", c, "info"), Finding("CAP106", c, "info")} : On(g)}
  BY DEF FindingsOn
<1> HIDE DEF A, B, F, G, I, J
<1>2. \A rule, severity : Finding(rule, c, severity).rule = rule
  BY DEF Finding
<1>3. /\ \A x : On(Finding("CAP101", c, x)) = A
      /\ \A x : On(Finding("CAP102", c, x)) = B
      /\ \A x : On(Finding("CAP103", c, x)) = I
      /\ \A x : On(Finding("CAP104", c, x)) = F
      /\ \A x : On(Finding("CAP105", c, x)) = J
      /\ \A x : On(Finding("CAP106", c, x)) = G
  BY <1>2
<1> HIDE DEF On
<1>4. f \in FindingsOn(c, s) <=>
        \/ f = Finding("CAP101", c, "warn") /\ A
        \/ f = Finding("CAP102", c, UncappedSeverity(s)) /\ B
        \/ f = Finding("CAP103", c, "info") /\ I
        \/ f = Finding("CAP104", c, "warn") /\ F
        \/ f = Finding("CAP105", c, "info") /\ J
        \/ f = Finding("CAP106", c, "info") /\ G
  BY <1>1, <1>3
<1> QED
  BY <1>4 DEF A, B, F, G, I, J

LEMMA FindingsType ==
  ASSUME NEW s
  PROVE  UNION {FindingsOn(c, s) : c \in Collected} \in SUBSET Findings
<1>1. \A c \in Collected : FindingsOn(c, s) \in SUBSET Findings
  BY FindingOn DEF Finding, Findings, Rules, UncappedSeverity, Collected
<1> QED
  BY <1>1

LEMMA SaidType ==
  ASSUME spec \in SpecsOver(MemSaid), cluster \in Clusters
  PROVE  /\ ReportOK(Said) /\ Scored \in ScoreRecords
         /\ Said.qos = QoS /\ Said.mem = Reservation("mem") /\ Said.cpu = Reservation("cpu")
         /\ Said.limit = MemLimit /\ Said.score = Scored
         /\ Said.findings = UNION {FindingsOn(c, Scored) : c \in Collected}
<1>1. Scored \in ScoreRecords
  BY ShapeType, ScoreOfType DEF Scored
<1>2. /\ Said.qos = QoS /\ Said.mem = Reservation("mem") /\ Said.cpu = Reservation("cpu")
      /\ Said.limit = MemLimit /\ Said.score = Scored
      /\ Said.findings = UNION {FindingsOn(c, Scored) : c \in Collected}
  BY DEF Said, ReportOf
<1>3. Said.qos \in {"none", "BestEffort", "Burstable", "Guaranteed"}
  BY <1>2 DEF QoS
<1>4. Said.mem \in Nat /\ Said.cpu \in Nat /\ Said.limit \in Nat \cup {Unbounded}
  BY <1>2, CollectedType, TwoResources
<1>5. Said.score.risk \in Risks
  BY <1>1, <1>2 DEF ScoreRecords
<1>6. Said.findings \subseteq Findings
  BY <1>2, FindingsType
<1> QED
  BY <1>1, <1>2, <1>3, <1>4, <1>5, <1>6 DEF ReportOK

-----------------------------------------------------------------------------
(* The same facts about the state an edit leads to.                         *)

Manifested == spec \in SpecsOver(MemSaid) /\ cluster \in Clusters

OfFacts ==
  \A c \in Containers, res \in Resources :
    /\ spec[c][res].req \in Nat \cup {Absent} /\ spec[c][res].lim \in Nat \cup {Absent}
    /\ Of(c, res).lim = spec[c][res].lim
    /\ Of(c, res).req \in Nat \cup {Absent}
    /\ Of(c, res).lim # Absent => Of(c, res).req # Absent /\ Of(c, res).req <= Of(c, res).lim
    /\ Of(c, res).req = IF Of(c, res).defaulted THEN spec[c][res].lim ELSE spec[c][res].req
    /\ Of(c, res).defaulted = (spec[c][res].req = Absent /\ spec[c][res].lim # Absent)
    /\ Reserved(c, res) \in Nat
    /\ Reserved(c, res) = IF Of(c, res).req = Absent THEN 0 ELSE Of(c, res).req

SumFacts ==
  /\ Collected \in SUBSET Containers /\ IsFiniteSet(Collected)
  /\ \A res \in Resources : Reserves(res) \in [Collected -> Nat]
  /\ \A res \in Resources : Reservation(res) = Total(Reserves(res), Collected)
  /\ \A res \in Resources : Reservation(res) \in Nat
  /\ AllBounded => Limits \in [Collected -> Nat]
  /\ MemLimit = IF AllBounded THEN Total(Limits, Collected) ELSE Unbounded
  /\ MemLimit \in Nat \cup {Unbounded}
  /\ AllBounded <=> MemLimit # Unbounded

ReportFacts ==
  /\ Shape \in Workloads /\ Shape.request = Reservation("mem") /\ Shape.limit = MemLimit
  /\ ReportOK(Said) /\ Scored \in ScoreRecords
  /\ Said.qos = QoS /\ Said.mem = Reservation("mem") /\ Said.cpu = Reservation("cpu")
  /\ Said.limit = MemLimit /\ Said.score = Scored
  /\ Said.findings = UNION {FindingsOn(c, Scored) : c \in Collected}

LEMMA Meaning == Manifested => OfFacts /\ SumFacts /\ ReportFacts
<1> SUFFICES ASSUME Manifested PROVE OfFacts /\ SumFacts /\ ReportFacts
  OBVIOUS
<1> USE DEF Manifested
<1>1. OfFacts
  BY OfType DEF OfFacts, Reserved
<1>2. SumFacts
  BY CollectedType DEF SumFacts
<1>3. ReportFacts
  BY ShapeType, SaidType DEF ReportFacts
<1> QED
  BY <1>1, <1>2, <1>3

LEMMA MeaningNext == Manifested' => OfFacts' /\ SumFacts' /\ ReportFacts'
BY Meaning, PTL

-----------------------------------------------------------------------------
(* One edit.                                                                *)

Edited(c, res, r) ==
  /\ Manifested
  /\ c \in Containers /\ res \in Resources /\ r \in Declared(MaySay(res))
  /\ spec' = [spec EXCEPT ![c][res] = r]
  /\ UNCHANGED <<cluster, role>>

LEMMA EditKeepsRest ==
  ASSUME NEW c, NEW res, NEW r, Edited(c, res, r)
  PROVE  /\ Manifested' /\ Collected' = Collected
         /\ spec'[c][res] = r /\ Of(c, res)' = Effective(r)
         /\ \A d \in Containers, e \in Resources :
              d # c \/ e # res => /\ spec'[d][e] = spec[d][e]
                                  /\ Of(d, e)' = Of(d, e)
                                  /\ Reserved(d, e)' = Reserved(d, e)
<1> USE DEF Edited
<1>1. spec \in [Containers -> [mem : Declared(MemSaid), cpu : Declared(CpuQuantities)]]
  BY DEF Manifested, SpecsOver
<1>2. Resources = {"mem", "cpu"} /\ MaySay("mem") = MemSaid /\ MaySay("cpu") = CpuQuantities
  BY TwoResources DEF MaySay
<1>3. spec' = [spec EXCEPT ![c] = [spec[c] EXCEPT ![res] = r]]
  OBVIOUS
<1>4. [spec[c] EXCEPT ![res] = r] \in [mem : Declared(MemSaid), cpu : Declared(CpuQuantities)]
  <2>1. CASE res = "mem"
    BY <1>1, <1>2, <2>1
  <2>2. CASE res = "cpu"
    BY <1>1, <1>2, <2>2
  <2> QED
    BY <1>2, <2>1, <2>2
<1>5. Manifested'
  BY <1>1, <1>3, <1>4 DEF Manifested, SpecsOver
<1>6. Collected' = Collected
  BY DEF Collected
<1>7. spec'[c][res] = r
  BY <1>1, <1>2
<1>8. Of(c, res)' = Effective(r)
  BY <1>7 DEF Of
<1>9. ASSUME NEW d \in Containers, NEW e \in Resources, d # c \/ e # res
      PROVE  spec'[d][e] = spec[d][e] /\ Of(d, e)' = Of(d, e) /\ Reserved(d, e)' = Reserved(d, e)
  <2>1. spec'[d][e] = spec[d][e]
    BY <1>1, <1>2, <1>9
  <2>2. Of(d, e)' = Of(d, e)
    BY <2>1 DEF Of
  <2> QED
    BY <2>1, <2>2 DEF Reserved
<1> QED
  BY <1>5, <1>6, <1>7, <1>8, <1>9

\* The reservation of a resource follows the container that was edited, and
\* only where that container was and the resource is the one.
LEMMA ReservationFollows ==
  ASSUME NEW c, NEW res, NEW r, Edited(c, res, r)
  PROVE  /\ \A e \in Resources :
              e # res \/ c \notin Collected \/ Reserved(c, res)' = Reserved(c, res)
                => Reservation(e)' = Reservation(e)
         /\ c \in Collected =>
              Reservation(res)' + Reserved(c, res) = Reservation(res) + Reserved(c, res)'
<1> USE DEF Edited
<1>1. SumFacts /\ OfFacts /\ SumFacts' /\ OfFacts'
  BY Meaning, MeaningNext, EditKeepsRest
<1>2. \A d \in Collected : d \in Containers
  BY <1>1 DEF SumFacts
<1>3. \A e \in Resources : Reservation(e) = Total(Reserves(e), Collected)
  BY <1>1 DEF SumFacts
<1>4. \A e \in Resources : Reservation(e)' = Total(Reserves(e)', Collected)
  BY <1>1, EditKeepsRest DEF SumFacts
<1>5. \A e \in Resources : Reserves(e)' = [d \in Collected |-> Reserved(d, e)']
  BY EditKeepsRest DEF Reserves
<1>6. ASSUME NEW e \in Resources,
             e # res \/ c \notin Collected \/ Reserved(c, res)' = Reserved(c, res)
      PROVE  Reservation(e)' = Reservation(e)
  <2>1. ASSUME NEW d \in Collected
        PROVE  Reserved(d, e)' = Reserved(d, e)
    <3>1. CASE d # c \/ e # res
      BY <1>2, <3>1, EditKeepsRest
    <3>2. CASE d = c /\ e = res
      <4>1. Reserved(c, res)' = Reserved(c, res)
        BY <1>6, <3>2
      <4> QED
        BY <3>2, <4>1 DEF Reserved, Of
    <3> QED
      BY <3>1, <3>2
  <2>2. Reserves(e)' = Reserves(e)
    BY <1>5, <2>1 DEF Reserves
  <2> QED
    BY <1>3, <1>4, <2>2
<1>7. ASSUME c \in Collected
      PROVE  Reservation(res)' + Reserved(c, res) = Reservation(res) + Reserved(c, res)'
  <2> DEFINE a == Reserves(res)
             q == Reserved(c, res)'
  <2>1. q \in Nat
    BY <1>1 DEF OfFacts
  <2>2. a \in [Collected -> Nat] /\ IsFiniteSet(Collected)
    BY <1>1 DEF SumFacts
  <2>3. a[c] = Reserved(c, res)
    BY <1>7 DEF Reserves
  <2>4. \A d \in Collected : d # c => Reserved(d, res)' = Reserved(d, res)
    BY <1>2, EditKeepsRest
  <2>5. Reserves(res)' = [a EXCEPT ![c] = q]
    BY <1>5, <1>7, <2>4 DEF Reserves
  <2> HIDE DEF a, q
  <2>6. Total([a EXCEPT ![c] = q], Collected) + a[c] = Total(a, Collected) + q
    BY <1>7, <2>1, <2>2, TotalFollows
  <2> QED
    BY <1>3, <1>4, <2>3, <2>5, <2>6 DEF a, q
<1> QED
  BY <1>6, <1>7

\* Editing a limit moves a reservation only where the request follows it, and
\* then CAP103 or CAP105 was among the findings.
LEMMA MovedWasAnnounced ==
  ASSUME NEW c, NEW res, NEW r, Edited(c, res, r),
         r.req = spec[c][res].req, spec[c][res].lim # Absent,
         <<Said'.mem, Said'.cpu>> # <<Said.mem, Said.cpu>>
  PROVE  c \in Flagged(ImplicitRule(res), Said)
<1> USE DEF Edited
<1>1. OfFacts /\ ReportFacts /\ OfFacts' /\ ReportFacts'
  BY Meaning, MeaningNext, EditKeepsRest
<1>2. Resources = {"mem", "cpu"}
  BY TwoResources
<1>3. \E e \in Resources : Reservation(e)' # Reservation(e)
  BY <1>1, <1>2 DEF ReportFacts
<1>4. c \in Collected /\ Reserved(c, res)' # Reserved(c, res)
  BY <1>3, ReservationFollows
<1>5. Of(c, res).req # Of(c, res)'.req
  BY <1>4 DEF Reserved
<1>6. spec[c][res].req = Absent
  BY <1>5, EditKeepsRest DEF Of, Effective
<1>7. Implicit(Of(c, res))
  BY <1>1, <1>6 DEF OfFacts, Implicit
<1>8. Finding(ImplicitRule(res), c, "info") \in FindingsOn(c, Scored)
  BY <1>2, <1>7, FindingOn DEF ImplicitRule
<1>9. Finding(ImplicitRule(res), c, "info") \in Said.findings
  BY <1>1, <1>4, <1>8 DEF ReportFacts
<1> QED
  BY <1>9 DEF Flagged, Finding

\* The container a spelled-out request belongs to: its effective resources are
\* the same but for the flag, so everything the pod is judged by is the same.
LEMMA SpelledOutIsTheSame ==
  ASSUME NEW c, NEW res, NEW r, Edited(c, res, r), c \in Collected,
         Implicit(Of(c, res)), r = [spec[c][res] EXCEPT !.req = spec[c][res].lim]
  PROVE  /\ \A d \in Collected, e \in Resources :
              /\ Of(d, e)'.req = Of(d, e).req /\ Of(d, e)'.lim = Of(d, e).lim
              /\ Of(d, e)'.defaulted = (Of(d, e).defaulted /\ ~(d = c /\ e = res))
         /\ QoS' = QoS /\ Shape' = Shape /\ Scored' = Scored
         /\ Reservation("mem")' = Reservation("mem") /\ Reservation("cpu")' = Reservation("cpu")
         /\ MemLimit' = MemLimit
<1>0. spec'[c][res] = r
  BY EditKeepsRest
<1> USE DEF Edited
<1>1. OfFacts /\ SumFacts /\ OfFacts' /\ SumFacts' /\ Collected' = Collected
  BY Meaning, MeaningNext, EditKeepsRest
<1>2. \A d \in Collected : d \in Containers
  BY <1>1 DEF SumFacts
<1>3. spec[c][res] \in [req : MaySay(res) \cup {Absent}, lim : MaySay(res) \cup {Absent}]
  BY OfType DEF Manifested, Declared
<1>4. spec[c][res].req = Absent /\ spec[c][res].lim # Absent /\ Of(c, res).defaulted = TRUE
  BY <1>1, <1>2 DEF OfFacts, Implicit
<1>5. r.req = spec[c][res].lim /\ r.lim = spec[c][res].lim
  BY <1>3
<1>6. /\ Of(c, res)'.req = Of(c, res).req /\ Of(c, res)'.lim = Of(c, res).lim
      /\ Of(c, res)'.defaulted = FALSE
  <2>1. Of(c, res)' = [req |-> r.lim, lim |-> r.lim, defaulted |-> FALSE]
    <3>1. r.req # Absent /\ r.req = r.lim
      BY <1>4, <1>5
    <3>2. (r.req = Absent /\ r.lim # Absent) = FALSE
      BY <3>1
    <3>3. Effective(r) = [req |-> r.req, lim |-> r.lim, defaulted |-> FALSE]
      BY <3>2 DEF Effective
    <3>4. Of(c, res)' = Effective(r)
      BY <1>0 DEF Of
    <3> QED
      BY <3>1, <3>3, <3>4
  <2>2. Of(c, res).req = r.lim /\ Of(c, res).lim = r.lim
    BY <1>4, <1>5 DEF Of, Effective
  <2> QED
    BY <2>1, <2>2
<1>7. ASSUME NEW d \in Collected, NEW e \in Resources
      PROVE  /\ Of(d, e)'.req = Of(d, e).req /\ Of(d, e)'.lim = Of(d, e).lim
             /\ Of(d, e)'.defaulted = (Of(d, e).defaulted /\ ~(d = c /\ e = res))
  <2>1. CASE d = c /\ e = res
    BY <1>6, <2>1 DEF Of
  <2>2. CASE d # c \/ e # res
    <3>1. Of(d, e)' = Of(d, e)
      BY <1>2, <2>2, EditKeepsRest
    <3>2. Of(d, e).defaulted \in BOOLEAN
      BY DEF Of, Effective
    <3> QED
      BY <2>2, <3>1, <3>2
  <2> QED
    BY <2>1, <2>2
<1>8. \A d \in Collected : Guaranteed(d)' = Guaranteed(d)
  <2> SUFFICES ASSUME NEW d \in Collected PROVE Guaranteed(d)' = Guaranteed(d)
    OBVIOUS
  <2> QED
    BY <1>7 DEF Guaranteed
<1>9. \A d \in Collected : Declares(d)' = Declares(d)
  <2> SUFFICES ASSUME NEW d \in Collected PROVE Declares(d)' = Declares(d)
    OBVIOUS
  <2>1. \A e \in Resources :
          (Of(d, e)'.lim # Absent \/ (Of(d, e)'.req # Absent /\ ~Of(d, e)'.defaulted))
            <=> (Of(d, e).lim # Absent \/ (Of(d, e).req # Absent /\ ~Of(d, e).defaulted))
    BY <1>4, <1>1, <1>2, <1>7 DEF OfFacts
  <2> QED
    BY <2>1 DEF Declares
<1>10. QoS' = QoS
  BY <1>1, <1>8, <1>9 DEF QoS
<1>11. \A e \in Resources : Reservation(e)' = Reservation(e)
  BY <1>6, ReservationFollows DEF Reserved
<1>12. MemLimit' = MemLimit
  <2>1. \A d \in Collected : Of(d, "mem")'.lim = Of(d, "mem").lim
    BY <1>7, TwoResources
  <2>2. Limits' = Limits /\ AllBounded' = AllBounded
    BY <1>1, <2>1 DEF Limits, AllBounded
  <2> QED
    BY <1>1, <2>2 DEF SumFacts
<1>13. Shape' = Shape
  BY <1>11, <1>12, TwoResources DEF Shape
<1>14. Scored' = Scored
  BY <1>13 DEF Scored
<1> QED
  BY <1>7, <1>10, <1>11, <1>12, <1>13, <1>14, TwoResources

FindingFacts ==
  \A c, s, f :
    f \in FindingsOn(c, s) <=>
      \/ f = Finding("CAP101", c, "warn") /\ \A res \in Resources : Of(c, res).req = Absent
      \/ f = Finding("CAP102", c, UncappedSeverity(s))
           /\ \A res \in Resources : Of(c, res).lim = Absent
      \/ f = Finding("CAP103", c, "info") /\ Implicit(Of(c, "mem"))
      \/ f = Finding("CAP104", c, "warn") /\ FloorOnly(c, "mem")
      \/ f = Finding("CAP105", c, "info") /\ Implicit(Of(c, "cpu"))
      \/ f = Finding("CAP106", c, "info") /\ FloorOnly(c, "cpu")

LEMMA FindingHere == FindingFacts
BY FindingOn DEF FindingFacts

LEMMA FindingNext == FindingFacts'
BY FindingHere, PTL

LEMMA SpelledOutDropsOne ==
  ASSUME NEW c, NEW res, NEW r, Edited(c, res, r), c \in Collected,
         Implicit(Of(c, res)), r = [spec[c][res] EXCEPT !.req = spec[c][res].lim]
  PROVE  Said' = [Said EXCEPT !.findings = @ \ {Finding(ImplicitRule(res), c, "info")}]
<1> DEFINE F == Finding(ImplicitRule(res), c, "info")
           s == Scored
<1>1. /\ OfFacts /\ SumFacts /\ ReportFacts /\ OfFacts' /\ SumFacts' /\ ReportFacts'
      /\ Collected' = Collected
  BY Meaning, MeaningNext, EditKeepsRest DEF Edited
<1>2. \A d \in Collected, e \in Resources :
        /\ Of(d, e)'.req = Of(d, e).req /\ Of(d, e)'.lim = Of(d, e).lim
        /\ Of(d, e)'.defaulted = (Of(d, e).defaulted /\ ~(d = c /\ e = res))
  BY SpelledOutIsTheSame
<1>3. Scored' = s
  BY SpelledOutIsTheSame
<1>4. ASSUME NEW d \in Collected
      PROVE  FindingsOn(d, Scored)' = FindingsOn(d, Scored) \ {F}
  <2>1. Resources = {"mem", "cpu"} /\ d \in Containers /\ res \in Resources
    BY <1>1, TwoResources DEF SumFacts, Edited
  <2>2. (\A e \in Resources : Of(d, e)'.req = Absent) <=> (\A e \in Resources : Of(d, e).req = Absent)
    BY <1>2
  <2>3. (\A e \in Resources : Of(d, e)'.lim = Absent) <=> (\A e \in Resources : Of(d, e).lim = Absent)
    BY <1>2
  <2>4. \A e \in Resources :
          Implicit(Of(d, e))' <=> Implicit(Of(d, e)) /\ ~(d = c /\ e = res)
    BY <1>2 DEF Implicit
  <2>5. \A e \in Resources : FloorOnly(d, e)' <=> FloorOnly(d, e)
    <3> SUFFICES ASSUME NEW e \in Resources PROVE FloorOnly(d, e)' <=> FloorOnly(d, e)
      OBVIOUS
    <3>1. (\E o \in Resources : Of(d, o)'.lim # Absent) <=> (\E o \in Resources : Of(d, o).lim # Absent)
      BY <1>2
    <3>2. CASE d = c /\ e = res
      <4>1. Of(c, res).lim # Absent
        BY DEF Implicit
      <4>2. ~FloorOnly(d, e)
        BY <3>2, <4>1 DEF FloorOnly
      <4>3. ~FloorOnly(d, e)'
        BY <1>2, <3>2, <4>1 DEF FloorOnly
      <4> QED
        BY <4>2, <4>3
    <3>3. CASE ~(d = c /\ e = res)
      <4>1. Of(d, e)'.defaulted = (Of(d, e).defaulted /\ ~(d = c /\ e = res))
        BY <1>2
      <4>2. Of(d, e)'.defaulted <=> Of(d, e).defaulted
        BY <3>3, <4>1
      <4> QED
        BY <1>2, <3>1, <4>2 DEF FloorOnly
    <3> QED
      BY <3>2, <3>3
  <2>6. \A k \in Rules, x \in {"info", "warn", "critical"} :
          F = Finding(k, d, x) <=> d = c /\ k = ImplicitRule(res) /\ x = "info"
    BY DEF Finding
  <2>7. ImplicitRule("mem") = "CAP103" /\ ImplicitRule("cpu") = "CAP105"
    BY DEF ImplicitRule
  <2>8. \A f : f \in FindingsOn(d, s)' <=> f \in FindingsOn(d, s) /\ f # F
    <3> SUFFICES ASSUME NEW f PROVE f \in FindingsOn(d, s)' <=> f \in FindingsOn(d, s) /\ f # F
      OBVIOUS
    <3> QED
      BY FindingHere, FindingNext, <1>3, <2>1, <2>2, <2>3, <2>4, <2>5, <2>6, <2>7 DEF FindingFacts, Rules, UncappedSeverity
  <2> QED
    BY <1>3, <2>8
<1>5. Said.findings = UNION {FindingsOn(d, Scored) : d \in Collected}
  BY <1>1 DEF ReportFacts
<1>6. Said'.findings = UNION {FindingsOn(d, Scored)' : d \in Collected}
  BY <1>1 DEF ReportFacts
<1>7. Said'.findings = Said.findings \ {F}
  <2>1. Said'.findings = UNION {FindingsOn(d, Scored) \ {F} : d \in Collected}
    BY <1>4, <1>6
  <2> HIDE DEF F
  <2> QED
    BY <1>5, <2>1
<1>8. /\ Said'.qos = Said.qos /\ Said'.mem = Said.mem /\ Said'.cpu = Said.cpu
      /\ Said'.limit = Said.limit /\ Said'.score = Said.score
  BY <1>1, SpelledOutIsTheSame DEF ReportFacts
<1>9. /\ Said = [qos |-> Said.qos, mem |-> Said.mem, cpu |-> Said.cpu, limit |-> Said.limit,
                  score |-> Said.score, findings |-> Said.findings]
      /\ Said' = [qos |-> Said'.qos, mem |-> Said'.mem, cpu |-> Said'.cpu, limit |-> Said'.limit,
                   score |-> Said'.score, findings |-> Said'.findings]
  BY DEF Said, ReportOf
<1> QED
  BY <1>7, <1>8, <1>9

-----------------------------------------------------------------------------
(* Bounding a workload.                                                     *)

\* Less memory per byte requested, on every node that counts, is no worse a blast
\* radius.
LEMMA LessPerByteIsNoWorse ==
  ASSUME NEW k \in Clusters, NEW v \in Workloads, NEW u \in Workloads, u.nodes = v.nodes,
         \A n \in Scorable(k, v) :
           Ceiling(k, u, n) * EffectiveRequest(v) <= Ceiling(k, v, n) * EffectiveRequest(u)
  PROVE  ScoreOf(k, v).scored => ~Exceeds(ScoreOf(k, u).risk, ScoreOf(k, v).risk)
<1> DEFINE x == EffectiveRequest(v)
           y == EffectiveRequest(u)
<1>1. x \in Nat \ {0} /\ y \in Nat \ {0}
  BY EffectiveRequestType
<1>2. Scorable(k, u) = Scorable(k, v)
  BY DEF Scorable, CandidateNodes, Occupied
<1> SUFFICES ASSUME ScoreOf(k, v).scored PROVE ~Exceeds(ScoreOf(k, u).risk, ScoreOf(k, v).risk)
  OBVIOUS
<1>3. WorstNodes(k, v) # {}
  BY ScoreOfType DEF Unscored
<1>4. PICK a \in WorstNodes(k, v) : ScoreOf(k, v) = ScoreAt(k, v, a)
  BY <1>3, ScoreOfType
<1>5. a \in Scorable(k, v) /\ ScoreOf(k, v).risk = RiskOn(k, v, a)
  BY <1>4 DEF WorstNodes, ScoreAt
<1>6. CASE WorstNodes(k, u) = {}
  <2>1. ScoreOf(k, u).risk = NoRisk
    BY <1>6, ScoreOfType DEF Unscored
  <2>2. RiskOn(k, v, a) \in Risks
    BY <1>5, ScorableNodes, RiskOnType
  <2>3. RiskOn(k, v, a).num * 1 \in Nat /\ 0 * RiskOn(k, v, a).den = 0
    BY <2>2 DEF Risks
  <2> QED
    BY <1>5, <2>1, <2>3 DEF Exceeds, NoRisk
<1>7. CASE WorstNodes(k, u) # {}
  <2>1. PICK b \in WorstNodes(k, u) : ScoreOf(k, u) = ScoreAt(k, u, b)
    BY <1>7, ScoreOfType
  <2>2. b \in Scorable(k, u) /\ ScoreOf(k, u).risk = RiskOn(k, u, b)
    BY <2>1 DEF WorstNodes, ScoreAt
  <2>3. b \in Scorable(k, v) /\ b \in NodeNames /\ k.alloc[b] > 0
    BY <1>2, <2>2, ScorableNodes
  <2> DEFINE h == Log2[Neighbors(k, b, Self)]
             z == SpotHalves(k.spot[b])
             p == Ceiling(k, u, b)
             q == Ceiling(k, v, b)
  <2>4. p \in Nat /\ q \in Nat /\ p > 0 /\ q > 0 /\ p * x <= q * y
    BY <2>3, CeilingType
  <2>5. h \in Nat /\ z \in Nat
    BY <2>3, NeighborsType, Log2Assumption DEF SpotHalves
  <2>6. /\ RiskOn(k, u, b) = [num |-> p * h * z, den |-> 2 * y]
        /\ RiskOn(k, v, b) = [num |-> q * h * z, den |-> 2 * x]
    BY <1>1, <2>4 DEF RiskOn, Compute
  <2>7. PICK i \in Nat : RiskOn(k, v, a) = [num |-> i, den |-> 2 * x]
    BY <1>5, ScorableNodes, RiskOnForm
  <2>8. ~Exceeds(RiskOn(k, v, b), RiskOn(k, v, a))
    BY <1>4, <2>3 DEF WorstNodes
  <2> HIDE DEF h, z, p, q, x, y
  <2> DEFINE j == q * h * z
             g == p * h * z
  <2>9. j \in Nat /\ g \in Nat /\ 2 * x \in Nat \ {0} /\ 2 * y \in Nat \ {0}
    BY <1>1, <2>4, <2>5, MulNat
  <2>10. j <= i
    BY <2>6, <2>7, <2>8, <2>9, SameDenominator
  <2>11. g * x <= j * y
    <3>1. h * z \in Nat
      BY <2>5, MulNat
    <3>2. g * x = (p * x) * (h * z) /\ j * y = (q * y) * (h * z)
      BY <1>1, <2>4, <2>5
    <3>3. p * x \in Nat /\ q * y \in Nat
      BY <1>1, <2>4, MulNat
    <3> DEFINE A == p * x
               B == q * y
               C == h * z
    <3>4. A \in Nat /\ B \in Nat /\ C \in Nat /\ A <= B
      BY <2>4, <3>1, <3>3
    <3> HIDE DEF A, B, C
    <3>5. A * C <= B * C
      BY <3>4
    <3> QED
      BY <3>2, <3>5 DEF A, B, C
  <2>12. j * y <= i * y
    BY <1>1, <2>9, <2>10
  <2> HIDE DEF j, g
  <2>13. g * (2 * x) <= i * (2 * y)
    <3>1. g * x \in Nat /\ j * y \in Nat /\ i * y \in Nat
      BY <1>1, <2>9, MulNat
    <3>2. g * x <= i * y
      BY <2>11, <2>12, <3>1 
    <3>3. g * (2 * x) = 2 * (g * x) /\ i * (2 * y) = 2 * (i * y)
      BY <1>1, <2>9
    <3> QED
      BY <3>1, <3>2, <3>3
  <2>14. RiskOn(k, u, b) = [num |-> g, den |-> 2 * y]
    BY <2>6 DEF g
  <2>15. g * (2 * x) \in Nat /\ i * (2 * y) \in Nat
    BY <2>9, MulNat
  <2> QED
    BY <1>5, <2>2, <2>7, <2>13, <2>14, <2>15 DEF Exceeds
<1> QED
  BY <1>6, <1>7

\* The edit that bounds a pod wrote the one limit that was missing.  Either some
\* memory was reserved already and no less is now, or all of the limit is.
LEMMA BoundingRaisesRequest ==
  ASSUME NEW c, NEW res, NEW r, Edited(c, res, r),
         r.req = spec[c][res].req \/ r.lim = spec[c][res].lim,
         MemLimit = Unbounded, MemLimit' # Unbounded,
         \A d \in Collected : spec'[d]["mem"].req # 0
  PROVE  /\ Reservation("mem") <= Reservation("mem")'
         /\ Reservation("mem") = 0 => MemLimit' = Reservation("mem")'
<1>1. /\ OfFacts /\ SumFacts /\ OfFacts' /\ SumFacts' /\ Collected' = Collected
      /\ c \in Containers /\ res \in Resources
  BY Meaning, MeaningNext, EditKeepsRest DEF Edited
<1>2. "mem" \in Resources /\ \A d \in Collected : d \in Containers
  BY <1>1, TwoResources DEF SumFacts
<1>3. ~AllBounded /\ AllBounded'
  BY <1>1 DEF SumFacts
<1>4. PICK b \in Collected : Of(b, "mem").lim = Absent /\ Of(b, "mem")'.lim # Absent
  BY <1>1, <1>3 DEF AllBounded
<1>5. c = b /\ res = "mem"
  BY <1>2, <1>4, EditKeepsRest
<1>6. c \in Collected /\ spec[c]["mem"].lim = Absent /\ r.lim # Absent /\ spec'[c]["mem"] = r
  <2>1. spec'[c][res] = r
    BY EditKeepsRest
  <2>2. Of(c, "mem").lim = spec[c]["mem"].lim
    BY <1>1, <1>2 DEF OfFacts
  <2>3. Of(c, "mem")'.lim = spec'[c]["mem"].lim
    BY <1>1, <1>2 DEF OfFacts
  <2>4. Of(c, "mem").lim = Absent /\ Of(c, "mem")'.lim # Absent
    BY <1>4, <1>5 DEF Of
  <2> QED
    BY <1>4, <1>5, <2>1, <2>2, <2>3, <2>4
<1>7. r.req = spec[c]["mem"].req
  BY <1>5, <1>6
<1>8. Of(c, "mem").req = r.req
  BY <1>1, <1>2, <1>6, <1>7 DEF OfFacts
<1>9. Of(c, "mem")'.req = IF r.req = Absent THEN r.lim ELSE r.req
  BY <1>1, <1>2, <1>6 DEF OfFacts
<1>10. /\ Reserved(c, "mem") \in Nat /\ Reserved(c, "mem")' \in Nat
       /\ Reservation("mem") \in Nat /\ Reservation("mem")' \in Nat
  BY <1>1, <1>2 DEF OfFacts, SumFacts
<1>11. Reserved(c, "mem") <= Reserved(c, "mem")'
  <2>1. Reserved(c, "mem") = IF r.req = Absent THEN 0 ELSE r.req
    BY <1>1, <1>2, <1>8 DEF OfFacts
  <2>2. Reserved(c, "mem")' = IF r.req = Absent THEN r.lim ELSE r.req
    BY <1>1, <1>2, <1>6, <1>9 DEF OfFacts
  <2> QED
    BY <1>10, <2>1, <2>2
<1>12. Reservation("mem")' + Reserved(c, "mem") = Reservation("mem") + Reserved(c, "mem")'
  BY <1>5, <1>6, ReservationFollows
<1>13. Reservation("mem") <= Reservation("mem")'
  BY <1>10, <1>11, <1>12
<1>14. ASSUME Reservation("mem") = 0
       PROVE  MemLimit' = Reservation("mem")'
  <2>1. \A d \in Collected : Reserved(d, "mem") = 0
    <3>1. SUFFICES ASSUME NEW d \in Collected PROVE Reserved(d, "mem") = 0
      OBVIOUS
    <3>2. Reserves("mem") \in [Collected -> Nat] /\ Reservation("mem") = Total(Reserves("mem"), Collected)
      BY <1>1, <1>2 DEF SumFacts
    <3>3. Reserves("mem")[d] <= Total(Reserves("mem"), Collected)
      BY <1>1, <3>2, TotalCovers DEF SumFacts
    <3>4. Reserves("mem")[d] = Reserved(d, "mem")
      BY DEF Reserves
    <3> QED
      BY <1>14, <3>2, <3>3, <3>4
  <2>2. ASSUME NEW d \in Collected
        PROVE  Reserved(d, "mem")' = Of(d, "mem")'.lim
    <3>1. Of(d, "mem")'.lim # Absent /\ spec'[d]["mem"].req # 0
      BY <1>1, <1>3 DEF AllBounded
    <3>2. CASE d = c
      <4>1. r.req = Absent
        <5>1. r.req # 0
          BY <1>6, <3>1, <3>2
        <5>2. Reserved(c, "mem") = 0
          BY <1>6, <2>1
        <5> QED
          BY <1>1, <1>2, <1>8, <5>1, <5>2 DEF OfFacts
      <4>2. Of(c, "mem")'.req = r.lim /\ Of(c, "mem")'.lim = r.lim
        BY <1>1, <1>2, <1>6, <1>9, <4>1 DEF OfFacts
      <4>3. Reserved(c, "mem")' = r.lim
        BY <1>1, <1>2, <1>6, <4>2 DEF OfFacts
      <4> QED
        BY <3>2, <4>2, <4>3 DEF Reserved, Of
    <3>3. CASE d # c
      <4>1. /\ spec'[d]["mem"] = spec[d]["mem"] /\ Of(d, "mem")' = Of(d, "mem")
            /\ Reserved(d, "mem")' = Reserved(d, "mem")
        BY <1>2, <3>3, EditKeepsRest
      <4>2. Of(d, "mem").req # Absent /\ Reserved(d, "mem") = Of(d, "mem").req
        BY <1>1, <1>2, <3>1, <4>1 DEF OfFacts
      <4>3. Of(d, "mem").req = 0
        BY <2>1, <4>2
      <4>4. Of(d, "mem").req = spec[d]["mem"].lim
        BY <1>1, <1>2, <3>1, <4>1, <4>3 DEF OfFacts
      <4> QED
        BY <1>1, <1>2, <4>1, <4>2, <4>4 DEF OfFacts
    <3> QED
      BY <3>2, <3>3
  <2>3. Limits' = Reserves("mem")'
    BY <1>1, <2>2 DEF Limits, Reserves
  <2>4. MemLimit' = Total(Limits', Collected) /\ Reservation("mem")' = Total(Reserves("mem")', Collected)
    BY <1>1, <1>2, <1>3 DEF SumFacts
  <2> QED
    BY <2>3, <2>4
<1> QED
  BY <1>13, <1>14

\* Bounding a pod is no worse for its neighbors, unless nothing was reserved and
\* the request assumed is more than a node has.
LEMMA BoundingIsNoWorse ==
  ASSUME NEW c, NEW res, NEW r, Edited(c, res, r), cluster \in Clusters0,
         r.req = spec[c][res].req \/ r.lim = spec[c][res].lim,
         MemLimit = Unbounded, MemLimit' # Unbounded,
         \A d \in Collected : spec'[d]["mem"].req # 0
  PROVE  Said.score.scored /\ Exceeds(Said'.score.risk, Said.score.risk) =>
           Said.mem = 0 /\ FloorOverNode' /\ Said'.score.ceiling <= Said'.mem
<1> DEFINE v == Shape
           u == Shape'
           q == Reservation("mem")
           p == Reservation("mem")'
           L == MemLimit'
<1>1. SumFacts /\ ReportFacts /\ SumFacts' /\ ReportFacts'
  BY Meaning, MeaningNext, EditKeepsRest DEF Edited
<1>2. /\ v \in Workloads /\ u \in Workloads /\ u.nodes = v.nodes
      /\ v.request = q /\ v.limit = Unbounded /\ u.request = p /\ u.limit = L
  <2>1. u.nodes = v.nodes
    BY DEF Shape, Edited
  <2> QED
    BY <1>1, <2>1 DEF ReportFacts
<1>3. p \in Nat /\ q \in Nat /\ L \in Nat
  BY <1>1, TwoResources DEF SumFacts
<1>4. q <= p /\ (q = 0 => L = p)
  BY BoundingRaisesRequest
<1>5. cluster \in Clusters /\ cluster' = cluster
  BY DEF Edited, Manifested
<1>6. Scored = ScoreOf(cluster, v) /\ Scored' = ScoreOf(cluster, u)
  BY <1>5 DEF Scored
<1>10. /\ Scorable(cluster, u) = Scorable(cluster, v)
       /\ FloorOverNode' <=> \E n \in Scorable(cluster, v) : cluster.alloc[n] < RequestFloor
  <2>1. Scorable(cluster, u) = Scorable(cluster, v)
    BY <1>2 DEF Scorable, CandidateNodes, Occupied
  <2> QED
    BY <1>5, <2>1 DEF FloorOverNode
<1> HIDE DEF v, u, p, q, L
<1>7. ASSUME ~FloorOverNode' \/ q # 0 \/ p = 0, NEW n \in Scorable(cluster, v)
      PROVE  Ceiling(cluster, u, n) * EffectiveRequest(v) <= Ceiling(cluster, v, n) * EffectiveRequest(u)
  <2> DEFINE A == cluster.alloc[n]
             C == Ceiling(cluster, u, n)
             x == EffectiveRequest(v)
             y == EffectiveRequest(u)
  <2>1. /\ A \in Nat /\ A > 0 /\ n \in NodeNames
        /\ ~FloorOverNode' => RequestFloor <= A
    <3>1. n \in NodeNames /\ A > 0
      BY <1>2, <1>5, <1>7, ScorableNodes
    <3>2. A \in Nat
      BY <1>5, <3>1 DEF Clusters
    <3>3. ~FloorOverNode' => ~(A < RequestFloor)
      BY <1>7, <1>10
    <3> QED
      BY <3>1, <3>2, <3>3, RequestFloorAssumption
  <2>2. x \in Nat \ {0} /\ y \in Nat \ {0}
    BY <1>2, EffectiveRequestType
  <2>3. x = (IF q = 0 THEN RequestFloor ELSE q) /\ y = (IF p = 0 THEN RequestFloor ELSE p)
    BY <1>2, <1>3 DEF EffectiveRequest
  <2>4. C = IF L > 0 /\ L < A THEN L ELSE A
    BY <1>2, <1>3 DEF Ceiling, CeilingIsLimit, Unbounded
  <2>5. Ceiling(cluster, v, n) = A
    BY <1>2 DEF Ceiling, CeilingIsLimit
  <2>6. RequestFloor \in Nat \ {0}
    BY RequestFloorAssumption
  <2> HIDE DEF A, C, x, y
  <2>7. C \in Nat /\ C <= A
    BY <1>3, <2>1, <2>4
  <2>8. CASE x <= y
    <3>1. C * x <= A * x
      BY <2>1, <2>2, <2>7
    <3>2. A * x <= A * y
      BY <2>1, <2>2, <2>8
    <3>3. C * x \in Nat /\ A * x \in Nat /\ A * y \in Nat
      BY <2>1, <2>2, <2>7, MulNat
    <3>4. C * x <= A * y
      BY <3>1, <3>2, <3>3
    <3> QED
      BY <2>5, <3>4 DEF A, C, x, y
  <2>9. CASE ~(x <= y)
    <3>1. q = 0 /\ p > 0 /\ y = p /\ x = RequestFloor /\ L = p
      BY <1>3, <1>4, <2>2, <2>3, <2>6, <2>9
    <3>2. C <= y /\ x <= A
      BY <1>3, <1>7, <2>1, <2>4, <3>1
    <3>3. C * x <= y * x
      BY <2>2, <2>7, <3>2
    <3>4. y * x <= y * A
      BY <2>1, <2>2, <3>2
    <3>5. C * x \in Nat /\ y * x \in Nat /\ y * A \in Nat /\ y * A = A * y
      BY <2>1, <2>2, <2>7, MulNat
    <3>6. C * x <= A * y
      BY <3>3, <3>4, <3>5
    <3> QED
      BY <2>5, <3>6 DEF A, C, x, y
  <2> QED
    BY <2>8, <2>9
<1>8. Said.score = ScoreOf(cluster, v) /\ Said'.score = ScoreOf(cluster, u)
      /\ Said.mem = q /\ Said'.mem = p
  BY <1>1, <1>6 DEF ReportFacts, p, q
<1> SUFFICES ASSUME ScoreOf(cluster, v).scored,
                    Exceeds(ScoreOf(cluster, u).risk, ScoreOf(cluster, v).risk)
             PROVE  q = 0 /\ FloorOverNode' /\ ScoreOf(cluster, u).ceiling <= p
  BY <1>8
<1>9. FloorOverNode' /\ q = 0 /\ p # 0 /\ L = p
  <2>1. ~(~FloorOverNode' \/ q # 0 \/ p = 0)
    <3> SUFFICES ASSUME ~FloorOverNode' \/ q # 0 \/ p = 0 PROVE FALSE
      OBVIOUS
    <3>1. \A n \in Scorable(cluster, v) :
            Ceiling(cluster, u, n) * EffectiveRequest(v) <= Ceiling(cluster, v, n) * EffectiveRequest(u)
      BY <1>7
    <3> QED
      BY <1>2, <1>5, <3>1, LessPerByteIsNoWorse
  <2> QED
    BY <1>4, <2>1
<1>11. WorstNodes(cluster, u) # {}
  <2> SUFFICES ASSUME WorstNodes(cluster, u) = {} PROVE FALSE
    OBVIOUS
  <2>1. ScoreOf(cluster, u).risk = NoRisk
    BY <1>2, <1>5, ScoreOfType DEF Unscored
  <2>2. ScoreOf(cluster, v).risk \in Risks
    BY <1>2, <1>5, ScoreOfType DEF ScoreRecords
  <2> QED
    BY <2>1, <2>2 DEF Exceeds, NoRisk, Risks
<1>12. PICK b \in WorstNodes(cluster, u) : ScoreOf(cluster, u) = ScoreAt(cluster, u, b)
  BY <1>2, <1>5, <1>11, ScoreOfType
<1>13. b \in NodeNames /\ ScoreOf(cluster, u).ceiling = Ceiling(cluster, u, b)
  BY <1>2, <1>5, <1>12, ScorableNodes DEF WorstNodes, ScoreAt
<1>14. Ceiling(cluster, u, b) <= L
  <2>1. cluster.alloc[b] \in Nat
    BY <1>5, <1>13 DEF Clusters
  <2> QED
    BY <1>2, <1>3, <1>9, <2>1 DEF Ceiling, CeilingIsLimit, Unbounded
<1> QED
  BY <1>9, <1>13, <1>14

-----------------------------------------------------------------------------
(* The inductive invariant.  A report describes the manifest it was made    *)
(* of, and the manifest differs from the one the report before described by *)
(* one edit: what the next scan will say is already bound to what that      *)
(* report said, before it says it.                                          *)

Faithful == Reported => report = Said

SpelledOutInv ==
  last.act = "spelled out" /\ AsPrinted(last.resource, last.from) = last.from =>
    Said = [last.report EXCEPT !.findings =
              @ \ {Finding(ImplicitRule(last.resource), last.container, "info")}]

MovedInv ==
  last.act = "limit edited" /\ last.from # Absent
    /\ <<Said.mem, Said.cpu>> # <<last.report.mem, last.report.cpu>>
  => last.container \in Flagged(ImplicitRule(last.resource), last.report)

BoundedInv ==
  /\ last.report.score.scored /\ last.report.limit = Unbounded /\ Said.limit # Unbounded
  /\ \A c \in Collected : spec[c]["mem"].req # 0
  /\ Exceeds(Said.score.risk, last.report.score.risk)
  => last.report.mem = 0 /\ FloorOverNode /\ Said.score.ceiling <= Said.mem

IInv ==
  /\ TypeOK
  /\ cluster \in Clusters0
  /\ Faithful
  /\ SpelledOutInv
  /\ MovedInv
  /\ BoundedInv

LEMMA NoReportType == ReportOK(NoReport)
BY DEF ReportOK, NoReport, Unscored, NoRisk, Risks, Findings

LEMMA InvInit == Init => IInv
<1> SUFFICES ASSUME Init PROVE IInv
  OBVIOUS
<1>1. cluster \in Clusters0 /\ cluster \in Clusters /\ role \in [Containers -> RoleKinds]
  BY ManifestAssumption DEF Init
<1>2. spec \in SpecsOver(MemQuantities \cup Pastable.mem)
  <2>1. Declared(MemQuantities) \subseteq Declared(MemQuantities \cup Pastable.mem)
    BY DEF Declared
  <2> QED
    BY <2>1 DEF Init, SpecsOver
<1>3. last.act = "none" /\ last.from = Absent /\ last.report = NoReport /\ report = NoReport /\ pc = "scan"
  BY DEF Init
<1>4. TypeOK
  BY <1>1, <1>2, <1>3, NoReportType DEF TypeOK
<1>5. Faithful /\ SpelledOutInv /\ MovedInv
  BY <1>3 DEF Faithful, Reported, SpelledOutInv, MovedInv
<1>6. BoundedInv
  BY <1>3 DEF BoundedInv, NoReport, Unscored
<1> QED
  BY <1>1, <1>4, <1>5, <1>6 DEF IInv

LEMMA InvManifested == IInv => Manifested
BY DEF IInv, TypeOK, Manifested, MemSaid

LEMMA SaidStays ==
  ASSUME UNCHANGED <<cluster, role, spec>>
  PROVE  Said' = Said /\ FloorOverNode' = FloorOverNode
<1>1. /\ Collected' = Collected
      /\ \A c, res : Of(c, res)' = Of(c, res) /\ Reserved(c, res)' = Reserved(c, res)
  BY DEF Collected, Of, Reserved
<1>2. MemLimit' = MemLimit /\ \A res : Reservation(res)' = Reservation(res)
  BY <1>1 DEF MemLimit, Reservation
<1>3. \A c : /\ Guaranteed(c)' = Guaranteed(c) /\ Declares(c)' = Declares(c)
             /\ \A res : FloorOnly(c, res)' = FloorOnly(c, res)
  BY <1>1 DEF Guaranteed, Declares, FloorOnly
<1>4. QoS' = QoS
  BY <1>1, <1>3 DEF QoS
<1>5. Shape' = Shape
  BY <1>2 DEF Shape
<1>7. Scored' = Scored /\ FloorOverNode' = FloorOverNode
  BY <1>5 DEF Scored, FloorOverNode
<1>6. \A c, s : FindingsOn(c, s)' = FindingsOn(c, s)
  BY <1>1, <1>3 DEF FindingsOn
<1> QED
  BY <1>1, <1>2, <1>4, <1>6, <1>7 DEF Said, ReportOf

LEMMA InvScan == ASSUME IInv, Scan PROVE IInv'
<1>1. report' = Said /\ pc' = "reported" /\ UNCHANGED <<cluster, role, spec, last>>
  BY DEF Scan, Said, Scored
<1>2. Said' = Said /\ FloorOverNode' = FloorOverNode
  BY <1>1, SaidStays
<1>3. ReportOK(Said)
  BY InvManifested, Meaning DEF ReportFacts
<1>4. TypeOK'
  BY <1>1, <1>3 DEF IInv, TypeOK
<1>5. Faithful'
  BY <1>1, <1>2 DEF Faithful
<1>6. SpelledOutInv' /\ MovedInv' /\ BoundedInv'
  BY <1>1, <1>2 DEF IInv, SpelledOutInv, MovedInv, BoundedInv, Collected
<1> QED
  BY <1>1, <1>4, <1>5, <1>6 DEF IInv

\* Any edit the three actions make: of a limit, which leaves the request, or of
\* a request, which leaves the limit; and of the right request when spelled out.
LEMMA InvEdit ==
  ASSUME IInv, NEW act, NEW c \in Containers, NEW res \in Resources, NEW r, Edit(act, c, res, r),
         r.req = spec[c][res].req \/ r.lim = spec[c][res].lim,
         act = "limit edited" => r.req = spec[c][res].req,
         act = "spelled out" =>
           /\ c \in Collected /\ Implicit(Of(c, res))
           /\ r = [spec[c][res] EXCEPT !.req = AsPrinted(res, spec[c][res].lim)]
  PROVE  IInv'
<1>1. /\ pc = "reported" /\ pc' = "scan"
      /\ spec' = [spec EXCEPT ![c][res] = r]
      /\ last' = [act |-> act, container |-> c, resource |-> res,
                  from |-> spec[c][res].lim, report |-> report]
      /\ UNCHANGED <<cluster, role, report>>
  BY DEF Edit
<1>2. r \in Declared(MaySay(res))
  <2>1. Quantities[res] \cup Pastable[res] = MaySay(res)
    BY TwoResources DEF MaySay
  <2> QED
    BY <2>1 DEF Edit
<1>3. Edited(c, res, r)
  BY <1>1, <1>2, InvManifested DEF Edited
<1>4. report = Said /\ last'.report = Said
  BY <1>1 DEF IInv, Faithful, Reported
<1>5. last'.act = act /\ last'.container = c /\ last'.resource = res /\ last'.from = spec[c][res].lim
  BY <1>1
<1>6. OfFacts /\ SumFacts /\ ReportFacts /\ Manifested' /\ SumFacts' /\ ReportFacts' /\ Collected' = Collected
  BY <1>3, InvManifested, Meaning, MeaningNext, EditKeepsRest
<1>7. TypeOK'
  <2>1. spec[c][res].lim \in Nat \cup {Absent}
    BY <1>6 DEF OfFacts
  <2>2. (spec \in SpecsOver(MemQuantities \cup Pastable.mem))'
    BY <1>6 DEF Manifested, MemSaid
  <2> QED
    BY <1>1, <1>5, <2>1, <2>2 DEF IInv, TypeOK
<1>8. Faithful'
  BY <1>1 DEF Faithful, Reported
<1>9. SpelledOutInv'
  <2> SUFFICES ASSUME act = "spelled out", AsPrinted(res, spec[c][res].lim) = spec[c][res].lim
               PROVE  Said' = [Said EXCEPT !.findings = @ \ {Finding(ImplicitRule(res), c, "info")}]
    BY <1>4, <1>5 DEF SpelledOutInv
  <2>1. c \in Collected /\ Implicit(Of(c, res)) /\ r = [spec[c][res] EXCEPT !.req = spec[c][res].lim]
    OBVIOUS
  <2> QED
    BY <1>3, <2>1, SpelledOutDropsOne
<1>10. MovedInv'
  <2> SUFFICES ASSUME act = "limit edited", spec[c][res].lim # Absent,
                      <<Said'.mem, Said'.cpu>> # <<Said.mem, Said.cpu>>
               PROVE  c \in Flagged(ImplicitRule(res), Said)
    BY <1>4, <1>5 DEF MovedInv
  <2> QED
    BY <1>3, MovedWasAnnounced
<1>11. BoundedInv'
  <2> SUFFICES ASSUME Said.score.scored, Said.limit = Unbounded, Said'.limit # Unbounded,
                      \A d \in Collected : spec'[d]["mem"].req # 0,
                      Exceeds(Said'.score.risk, Said.score.risk)
               PROVE  Said.mem = 0 /\ FloorOverNode' /\ Said'.score.ceiling <= Said'.mem
    BY <1>4, <1>6 DEF BoundedInv
  <2>1. MemLimit = Unbounded /\ MemLimit' # Unbounded /\ cluster \in Clusters0
    BY <1>6 DEF ReportFacts, IInv
  <2> QED
    BY <1>3, <2>1, BoundingIsNoWorse
<1> QED
  BY <1>1, <1>7, <1>8, <1>9, <1>10, <1>11 DEF IInv

LEMMA InvNext == ASSUME IInv, [Next]_vars PROVE IInv'
<1>1. CASE Scan
  BY <1>1, InvScan
<1>2. \A c \in Containers, res \in Resources :
        spec[c][res] = [req |-> spec[c][res].req, lim |-> spec[c][res].lim]
  <2> SUFFICES ASSUME NEW c \in Containers, NEW res \in Resources
               PROVE  spec[c][res] = [req |-> spec[c][res].req, lim |-> spec[c][res].lim]
    OBVIOUS
  <2>1. spec[c][res] \in Declared(MaySay(res))
    BY InvManifested, OfType DEF Manifested
  <2> QED
    BY <2>1 DEF Declared
<1>3. ASSUME NEW c \in Containers, NEW res \in Resources, NEW q, EditLimit(c, res, q)
      PROVE  IInv'
  <2> DEFINE r == [spec[c][res] EXCEPT !.lim = q]
  <2>1. r.req = spec[c][res].req
    BY <1>2
  <2>2. Edit("limit edited", c, res, r)
    BY <1>3 DEF EditLimit
  <2> HIDE DEF r
  <2> QED
    BY <2>1, <2>2, InvEdit
<1>4. ASSUME NEW c \in Containers, NEW res \in Resources, NEW q, EditRequest(c, res, q)
      PROVE  IInv'
  <2> DEFINE r == [spec[c][res] EXCEPT !.req = q]
  <2>1. r.lim = spec[c][res].lim
    BY <1>2
  <2>2. Edit("request edited", c, res, r)
    BY <1>4 DEF EditRequest
  <2> HIDE DEF r
  <2> QED
    BY <2>1, <2>2, InvEdit
<1>5. ASSUME NEW c \in Containers, NEW res \in Resources, SpellOut(c, res)
      PROVE  IInv'
  <2> DEFINE r == [spec[c][res] EXCEPT !.req = AsPrinted(res, spec[c][res].lim)]
  <2>1. r.lim = spec[c][res].lim
    BY <1>2
  <2>2. Edit("spelled out", c, res, r) /\ Finding(ImplicitRule(res), c, "info") \in report.findings
    BY <1>5 DEF SpellOut
  <2>3. c \in Collected /\ Implicit(Of(c, res))
    <3>1. report = Said
      BY <2>2 DEF Edit, IInv, Faithful, Reported
    <3>2. Said.findings = UNION {FindingsOn(d, Scored) : d \in Collected}
      BY InvManifested, Meaning DEF ReportFacts
    <3>3. PICK d \in Collected : Finding(ImplicitRule(res), c, "info") \in FindingsOn(d, Scored)
      BY <2>2, <3>1, <3>2
    <3> QED
      BY <3>3, FindingHere, TwoResources DEF FindingFacts, Finding, ImplicitRule
  <2> HIDE DEF r
  <2>4. r.req = spec[c][res].req \/ r.lim = spec[c][res].lim
    BY <2>1
  <2> QED
    BY <2>2, <2>3, <2>4, InvEdit DEF r
<1>6. CASE UNCHANGED vars
  <2>1. UNCHANGED <<cluster, role, spec, pc, report, last>>
    BY <1>6 DEF vars
  <2>2. Said' = Said /\ FloorOverNode' = FloorOverNode
    BY <2>1, SaidStays
  <2> QED
    BY <2>1, <2>2 DEF IInv, TypeOK, Faithful, Reported, SpelledOutInv, MovedInv, BoundedInv, Collected
<1> QED
  BY <1>1, <1>3, <1>4, <1>5, <1>6 DEF Next

\* A report says what a scan of the manifest says; what one edit may do to the
\* next report, the state already determines.
THEOREM ReportsAreOfTheManifest == Spec => []IInv
<1>1. IInv /\ [Next]_vars => IInv'
  BY InvNext
<1> QED
  BY <1>1, InvInit, PTL DEF Spec

\* Every report, and every template an owner can write, is in range.
THEOREM TypeCorrect == Spec => []TypeOK
BY ReportsAreOfTheManifest, PTL DEF IInv

\* CAP103 and CAP105, done as they say when what they say is exact, remove
\* themselves and change nothing else a report says.
THEOREM SpellingOutChangesNothing == Spec => []SpellingOutIsNeutral
<1>1. IInv => SpellingOutIsNeutral
  BY DEF IInv, Faithful, SpelledOutInv, SpellingOutIsNeutral
<1> QED
  BY <1>1, ReportsAreOfTheManifest, PTL

\* No reservation moves when a limit is edited unless CAP103 or CAP105 said of
\* that container that it would.
THEOREM NothingMovesSilently == Spec => []MovesAreAnnounced
<1>1. IInv => MovesAreAnnounced
  BY DEF IInv, Faithful, MovedInv, MovesAreAnnounced
<1> QED
  BY <1>1, ReportsAreOfTheManifest, PTL

\* The edit that gives a pod its first complete memory limit does not raise its
\* blast radius, wherever its reservation ends up and whatever --request-floor is;
\* unless nothing was reserved and the floor is more than a node has, and then the
\* score it rises to has a ratio of at most one.
THEOREM BoundingPays == Spec => []BoundingIsRewarded
<1>1. IInv => BoundingIsRewarded
  <2> SUFFICES ASSUME IInv, Reported, last.report.score.scored, last.report.limit = Unbounded,
                      report.limit # Unbounded, \A c \in Collected : spec[c].mem.req # 0,
                      Exceeds(report.score.risk, last.report.score.risk)
               PROVE  last.report.mem = 0 /\ FloorOverNode /\ report.score.ceiling <= report.mem
    BY DEF BoundingIsRewarded, JustBounded, RiskRose
  <2>1. report = Said
    BY DEF IInv, Faithful
  <2>2. \A c \in Collected : spec[c]["mem"].req # 0
    OBVIOUS
  <2> QED
    BY <2>1, <2>2 DEF IInv, BoundedInv
<1> QED
  BY <1>1, ReportsAreOfTheManifest, PTL

\* The class is BestEffort, and CAP101 is reported, exactly where the authors of
\* the manifest declared nothing, for all that defaulting fills in.
THEOREM ClassIsOfTheAuthors == Spec => []BestEffortIsUndeclared
<1>1. IInv => BestEffortIsUndeclared
  <2> SUFFICES ASSUME IInv, Reported
               PROVE  /\ report.qos = "BestEffort" <=> \A c \in Collected : Undeclared(c)
                      /\ Flagged("CAP101", report) = {c \in Collected : Undeclared(c)}
    BY DEF BestEffortIsUndeclared
  <2>1. report = Said /\ OfFacts /\ SumFacts /\ ReportFacts
    BY InvManifested, Meaning DEF IInv, Faithful
  <2>2. \A c \in Collected, res \in Resources :
          /\ spec[c][res] = [req |-> spec[c][res].req, lim |-> spec[c][res].lim]
          /\ c \in Containers
    <3> SUFFICES ASSUME NEW c \in Collected, NEW res \in Resources
                 PROVE  /\ spec[c][res] = [req |-> spec[c][res].req, lim |-> spec[c][res].lim]
                        /\ c \in Containers
      OBVIOUS
    <3>1. c \in Containers
      BY <2>1 DEF SumFacts
    <3>2. spec[c][res] \in Declared(MaySay(res))
      BY <3>1, InvManifested, OfType DEF Manifested
    <3> QED
      BY <3>1, <3>2 DEF Declared
  <2>3. ASSUME NEW c \in Collected, NEW res \in Resources
        PROVE  /\ spec[c][res] = [req |-> Absent, lim |-> Absent] <=> Of(c, res).req = Absent
               /\ Of(c, res).lim # Absent \/ (Of(c, res).req # Absent /\ ~Of(c, res).defaulted)
                    <=> Of(c, res).req # Absent
    <3> DEFINE a == spec[c][res].req
               b == spec[c][res].lim
               o == Of(c, res)
    <3>1. spec[c][res] = [req |-> Absent, lim |-> Absent] <=> a = Absent /\ b = Absent
      BY <2>2
    <3>2. /\ o.lim = b /\ o.req = (IF o.defaulted THEN b ELSE a)
          /\ o.defaulted = (a = Absent /\ b # Absent)
          /\ o.lim # Absent => o.req # Absent
      BY <2>1, <2>2 DEF OfFacts
    <3> HIDE DEF a, b, o
    <3>3. CASE a = Absent /\ b # Absent
      <4>1. o.defaulted = TRUE /\ o.req = b
        BY <3>2, <3>3
      <4> QED
        BY <3>1, <3>2, <3>3, <4>1 DEF o
    <3>4. CASE ~(a = Absent /\ b # Absent)
      <4>1. o.defaulted = FALSE /\ o.req = a
        BY <3>2, <3>4
      <4> QED
        BY <3>1, <3>2, <3>4, <4>1 DEF o
    <3> QED
      BY <3>3, <3>4
  <2>4. \A c \in Collected : /\ Undeclared(c) <=> \A res \in Resources : Of(c, res).req = Absent
                             /\ Declares(c) <=> ~Undeclared(c)
    BY <2>3 DEF Undeclared, Declares
  <2>5. \A c \in Collected : Guaranteed(c) => ~Undeclared(c)
    BY <2>1, <2>2, <2>4, TwoResources DEF Guaranteed, OfFacts
  <2>6. report.qos = "BestEffort" <=> \A c \in Collected : Undeclared(c)
    <3>1. CASE Collected = {}
      BY <2>1, <3>1 DEF ReportFacts, QoS
    <3>2. CASE Collected # {} /\ \A c \in Collected : Guaranteed(c)
      BY <2>1, <2>5, <3>2 DEF ReportFacts, QoS
    <3>3. CASE Collected # {} /\ ~ \A c \in Collected : Guaranteed(c)
      BY <2>1, <2>4, <3>3 DEF ReportFacts, QoS
    <3> QED
      BY <3>1, <3>2, <3>3
  <2>7. ASSUME NEW d
        PROVE  d \in Flagged("CAP101", report) <=> d \in Collected /\ Undeclared(d)
    <3>1. d \in Flagged("CAP101", report) <=>
            \E c \in Collected : \E f \in FindingsOn(c, Scored) : f.rule = "CAP101" /\ f.container = d
      BY <2>1 DEF Flagged, ReportFacts
    <3>2. \A c \in Collected : \A f \in FindingsOn(c, Scored) :
            f.rule = "CAP101" => f.container = c /\ \A res \in Resources : Of(c, res).req = Absent
      BY FindingHere DEF FindingFacts, Finding
    <3>3. \A c \in Collected : (\A res \in Resources : Of(c, res).req = Absent) =>
            Finding("CAP101", c, "warn") \in FindingsOn(c, Scored)
      BY FindingHere DEF FindingFacts
    <3>4. Finding("CAP101", d, "warn").rule = "CAP101" /\ Finding("CAP101", d, "warn").container = d
      BY DEF Finding
    <3> QED
      BY <2>4, <3>1, <3>2, <3>3, <3>4
  <2> QED
    BY <2>6, <2>7
<1> QED
  BY <1>1, ReportsAreOfTheManifest, PTL

\* A Guaranteed pod with a score is never said to be able to consume more than
\* was reserved for it: its limits and requests sum to the same number.
THEOREM ClassAgreesWithScore == Spec => []GuaranteedIsTight
<1>1. IInv => GuaranteedIsTight
  <2> SUFFICES ASSUME IInv, Reported, report.qos = "Guaranteed", report.limit > 0, report.score.scored
               PROVE  report.score.ceiling <= report.mem
    BY DEF GuaranteedIsTight
  <2>1. report = Said /\ OfFacts /\ SumFacts /\ ReportFacts /\ cluster \in Clusters
    BY InvManifested, Meaning DEF IInv, Faithful, Manifested
  <2>2. Collected # {} /\ \A c \in Collected : Guaranteed(c)
    BY <2>1 DEF ReportFacts, QoS
  <2>3. \A c \in Collected : Of(c, "mem").lim # Absent /\ Reserved(c, "mem") = Of(c, "mem").lim
    BY <2>1, <2>2, TwoResources DEF Guaranteed, OfFacts, SumFacts
  <2>4. AllBounded /\ Reserves("mem") = Limits
    BY <2>2, <2>3 DEF AllBounded, Reserves, Limits
  <2>5. MemLimit = Reservation("mem") /\ MemLimit \in Nat /\ MemLimit > 0
    BY <2>1, <2>4, TwoResources DEF SumFacts, ReportFacts
  <2>6. Shape \in Workloads /\ Shape.limit = MemLimit /\ Scored.scored
    BY <2>1 DEF ReportFacts
  <2>7. PICK n \in WorstNodes(cluster, Shape) : Scored = ScoreAt(cluster, Shape, n)
    BY <2>1, <2>6, ScoreOfType DEF Scored, Unscored
  <2>8. n \in NodeNames /\ cluster.alloc[n] \in Nat
    BY <2>1, <2>6, <2>7, ScorableNodes DEF WorstNodes, Clusters
  <2>9. Scored.ceiling = Ceiling(cluster, Shape, n)
    BY <2>7 DEF ScoreAt
  <2>10. Ceiling(cluster, Shape, n) <= MemLimit
    BY <2>5, <2>6, <2>8 DEF Ceiling, CeilingIsLimit, Unbounded
  <2> QED
    BY <2>1, <2>5, <2>9, <2>10 DEF ReportFacts
<1> QED
  BY <1>1, ReportsAreOfTheManifest, PTL

\* CAP102 is critical exactly when the blast radius of the pod is not zero: when
\* there is a neighbor on the node it can consume.
THEOREM CriticalIsHarmful == Spec => []UncappedIsCriticalIfHarmful
<1>1. IInv => UncappedIsCriticalIfHarmful
  <2> SUFFICES ASSUME IInv, Reported, NEW f \in report.findings, f.rule = "CAP102"
               PROVE  f.severity = "critical" <=> report.score.risk.num > 0
    BY DEF UncappedIsCriticalIfHarmful
  <2>1. report = Said /\ OfFacts /\ SumFacts /\ ReportFacts /\ cluster \in Clusters
    BY InvManifested, Meaning DEF IInv, Faithful, Manifested
  <2>2. PICK c \in Collected : f \in FindingsOn(c, Scored)
    BY <2>1 DEF ReportFacts
  <2>3. f = Finding("CAP102", c, UncappedSeverity(Scored)) /\ Of(c, "mem").lim = Absent
    BY <2>2, FindingHere, TwoResources DEF FindingFacts, Finding
  <2>4. f.severity = UncappedSeverity(Scored)
    BY <2>3 DEF Finding
  <2>5. MemLimit = Unbounded
    BY <2>1, <2>2, <2>3 DEF SumFacts, AllBounded
  <2>6. Shape \in Workloads /\ Shape.limit = Unbounded /\ report.score = Scored
    BY <2>1, <2>5 DEF ReportFacts
  <2>7. CASE WorstNodes(cluster, Shape) = {}
    <3>1. Scored = Unscored
      BY <2>1, <2>6, <2>7, ScoreOfType DEF Scored
    <3> QED
      BY <2>4, <2>6, <3>1 DEF Unscored, NoRisk, UncappedSeverity
  <2>8. CASE WorstNodes(cluster, Shape) # {}
    <3>1. PICK n \in WorstNodes(cluster, Shape) : Scored = ScoreAt(cluster, Shape, n)
      BY <2>1, <2>6, <2>8, ScoreOfType DEF Scored
    <3>2. n \in NodeNames /\ cluster.alloc[n] > 0
      BY <2>1, <2>6, <3>1, ScorableNodes DEF WorstNodes
    <3> DEFINE k == Neighbors(cluster, n, Self)
               a == Ceiling(cluster, Shape, n)
               z == SpotHalves(cluster.spot[n])
    <3>3. /\ Scored.scored = TRUE /\ Scored.neighbors = k
          /\ Scored.fromNode = ~CeilingIsLimit(cluster, Shape, n)
          /\ Scored.risk = RiskOn(cluster, Shape, n)
      BY <3>1 DEF ScoreAt
    <3>4. ~CeilingIsLimit(cluster, Shape, n)
      BY <2>6 DEF CeilingIsLimit
    <3>5. UncappedSeverity(Scored) = "critical" <=> k > 0
      BY <3>3, <3>4 DEF UncappedSeverity
    <3>6. a \in Nat /\ a > 0 /\ EffectiveRequest(Shape) \in Nat \ {0}
      BY <2>1, <2>6, <3>2, CeilingType, EffectiveRequestType
    <3>7. RiskOn(cluster, Shape, n).num = a * Log2[k] * z
      BY <3>6 DEF RiskOn, Compute
    <3>8. k \in DOMAIN Log2 /\ k \in Nat /\ z \in Nat /\ z > 0
      BY <2>1, <3>2, NeighborsType DEF SpotHalves
    <3>9. Log2[k] \in Nat /\ Log2[0] = 0 /\ (k > 0 => Log2[k] > 0)
      <4>1. 0 \in DOMAIN Log2
        BY ZeroNeighbors, Log2Assumption
      <4> HIDE DEF k
      <4> QED
        BY <3>8, <4>1, Log2Assumption
    <3> HIDE DEF k, a, z
    <3>10. Log2[k] > 0 => a * Log2[k] * z > 0
      <4> SUFFICES ASSUME Log2[k] > 0 PROVE a * Log2[k] * z > 0
        OBVIOUS
      <4> DEFINE l == Log2[k]
                 m == a * l
      <4>1. l \in Nat /\ l > 0
        BY <3>9
      <4> HIDE DEF l
      <4>2. m \in Nat /\ m > 0
        BY <3>6, <4>1, MulNat
      <4> HIDE DEF m
      <4>3. m * z > 0
        BY <3>8, <4>2
      <4> QED
        BY <4>3 DEF m, l
    <3>11. k = 0 => a * Log2[k] * z = 0
      BY <3>6, <3>8, <3>9
    <3> QED
      BY <2>4, <2>6, <3>3, <3>5, <3>7, <3>8, <3>9, <3>10, <3>11
  <2> QED
    BY <2>7, <2>8
<1> QED
  BY <1>1, ReportsAreOfTheManifest, PTL
=============================================================================
