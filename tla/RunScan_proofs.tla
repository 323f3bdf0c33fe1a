---------------------------- MODULE RunScan_proofs ----------------------------
(***************************************************************************)
(* Proofs about a run of the tool and the run after it, for any set of     *)
(* namespaces, workloads and nodes, any cluster and any command lines.     *)
(***************************************************************************)
EXTENDS RunScan, FiniteFacts

-----------------------------------------------------------------------------
(* Sorted lists.                                                            *)

\* Before orders the keys of one length totally.
LEMMA KeysAreOrdered ==
  ASSUME NEW n \in Nat, NEW a \in [1 .. n -> Int], NEW b \in [1 .. n -> Int],
         NEW c \in [1 .. n -> Int]
  PROVE  /\ ~Before(a, a)
         /\ Before(a, b) /\ Before(b, c) => Before(a, c)
         /\ a # b => Before(a, b) \/ Before(b, a)
<1>1. ~Before(a, a)
  BY DEF Before
<1>2. ASSUME Before(a, b), Before(b, c)
      PROVE  Before(a, c)
  <2>1. PICK i \in 1 .. n : a[i] < b[i] /\ \A j \in 1 .. i - 1 : a[j] = b[j]
    BY <1>2 DEF Before
  <2>2. PICK k \in 1 .. n : b[k] < c[k] /\ \A j \in 1 .. k - 1 : b[j] = c[j]
    BY <1>2 DEF Before
  <2>3. CASE i < k
    <3>1. b[i] = c[i] /\ \A j \in 1 .. i - 1 : b[j] = c[j]
      BY <2>2, <2>3
    <3> QED
      BY <2>1, <3>1 DEF Before
  <2>4. CASE i = k
    BY <2>1, <2>2, <2>4 DEF Before
  <2>5. CASE k < i
    <3>1. a[k] = b[k] /\ \A j \in 1 .. k - 1 : a[j] = b[j]
      BY <2>1, <2>5
    <3> QED
      BY <2>2, <3>1 DEF Before
  <2> QED
    BY <2>3, <2>4, <2>5
<1>3. ASSUME a # b
      PROVE  Before(a, b) \/ Before(b, a)
  <2> DEFINE D == {i \in 1 .. n : a[i] # b[i]}
  <2>1. D \in SUBSET Nat
    OBVIOUS
  <2>5. D # {}
    <3>1. PICK i \in 1 .. n : a[i] # b[i]
      BY <1>3
    <3>2. i \in D
      BY <3>1
    <3> QED
      BY <3>2
  <2>2. PICK i \in D : \A k \in D : i <= k
    <3> HIDE DEF D
    <3> QED
      BY <2>1, <2>5, LeastExists
  <2>3. \A j \in 1 .. i - 1 : a[j] = b[j]
    BY <2>2
  <2>4. a[i] < b[i] \/ b[i] < a[i]
    BY <2>2
  <2> QED
    BY <2>2, <2>3, <2>4 DEF Before
<1> QED
  BY <1>1, <1>2, <1>3

\* K gives the elements of S keys of one length, no two of them the same.
TellsApart(K, S) ==
  /\ \E n \in Nat : K \in [S -> [1 .. n -> Int]]
  /\ \A x, y \in S : K[x] = K[y] => x = y

\* s has every element of S once, in the order of their keys.
Lists(s, K, S) ==
  /\ s \in [1 .. Cardinality(S) -> S]
  /\ \A x \in S : \E i \in 1 .. Cardinality(S) : s[i] = x
  /\ \A i, j \in 1 .. Cardinality(S) : i < j => Before(K[s[i]], K[s[j]])
  /\ \A i, j \in 1 .. Cardinality(S) : s[i] = s[j] => i = j

\* As long as the keys tell the elements apart, every place is somebody's, and a
\* list with everybody in their place is sorted.
LEMMA ListedInOrder ==
  ASSUME NEW S, IsFiniteSet(S), NEW K, TellsApart(K, S)
  PROVE  /\ \A i \in 1 .. Cardinality(S) :
              \E x \in S : Cardinality({y \in S : Before(K[y], K[x])}) = i - 1
         /\ \A s \in [1 .. Cardinality(S) -> S] :
              (\A i \in 1 .. Cardinality(S) :
                 Cardinality({y \in S : Before(K[y], K[s[i]])}) = i - 1)
              => Lists(s, K, S)
<1>a. PICK n \in Nat : K \in [S -> [1 .. n -> Int]]
  BY DEF TellsApart
<1>b. \A x, y \in S : K[x] = K[y] => x = y
  BY DEF TellsApart
<1> USE <1>a, <1>b
<1> DEFINE R == {p \in S \X S : Before(K[p[1]], K[p[2]])}
           P == Places(R, S)
           c == Cardinality(S)
<1>0. c \in Nat
  BY FS_CardinalityType
<1>1. \A x, y \in S : <<x, y>> \in R <=> Before(K[x], K[y])
  OBVIOUS
<1>2. Orders(R, S)
  <2> HIDE DEF R
  <2>1. ASSUME NEW x \in S
        PROVE  <<x, x>> \notin R
    <3>1. K[x] \in [1 .. n -> Int]
      OBVIOUS
    <3>2. ~Before(K[x], K[x])
      BY <3>1, KeysAreOrdered, Zenon
    <3> QED
      BY <1>1, <3>2
  <2>2. ASSUME NEW x \in S, NEW y \in S, NEW z \in S, <<x, y>> \in R, <<y, z>> \in R
        PROVE  <<x, z>> \in R
    <3>1. Before(K[x], K[y]) /\ Before(K[y], K[z])
      BY <1>1, <2>2
    <3>2. Before(K[x], K[z])
      BY <3>1, KeysAreOrdered
    <3> QED
      BY <1>1, <3>2
  <2>3. ASSUME NEW x \in S, NEW y \in S, x # y
        PROVE  <<x, y>> \in R \/ <<y, x>> \in R
    <3>1. Before(K[x], K[y]) \/ Before(K[y], K[x])
      BY <2>3, KeysAreOrdered
    <3> QED
      BY <1>1, <3>1
  <2> QED
    BY <2>1, <2>2, <2>3 DEF Orders
<1>3. ASSUME NEW x \in S
      PROVE  P[x] = Cardinality({y \in S : Before(K[y], K[x])})
  <2>1. {y \in S : <<y, x>> \in R} = {y \in S : Before(K[y], K[x])}
    BY <1>1
  <2> QED
    BY <2>1 DEF Places
<1>4. /\ \A x \in S : P[x] \in 0 .. c - 1
      /\ \A x, y \in S : <<x, y>> \in R => P[x] < P[y]
      /\ \A x, y \in S : P[x] = P[y] => x = y
      /\ \A i \in 1 .. c : \E x \in S : P[x] = i - 1
  <2> HIDE DEF R
  <2> QED
    BY <1>2, PlacesInAnOrder
<1> HIDE DEF P, R
<1>5. \A i \in 1 .. c : \E x \in S : Cardinality({y \in S : Before(K[y], K[x])}) = i - 1
  BY <1>3, <1>4
<1>6. ASSUME NEW s \in [1 .. c -> S],
             \A i \in 1 .. c : Cardinality({y \in S : Before(K[y], K[s[i]])}) = i - 1
      PROVE  /\ \A x \in S : \E i \in 1 .. c : s[i] = x
             /\ \A i, j \in 1 .. c : i < j => Before(K[s[i]], K[s[j]])
             /\ \A i, j \in 1 .. c : s[i] = s[j] => i = j
  <2>1. ASSUME NEW i \in 1 .. c
        PROVE  s[i] \in S /\ P[s[i]] = i - 1
    BY <1>3, <1>6
  <2>2. ASSUME NEW x \in S
        PROVE  \E i \in 1 .. c : s[i] = x
    <3>1. P[x] + 1 \in 1 .. c /\ P[x] \in Int
      BY <1>0, <1>4
    <3>2. PICK i \in 1 .. c : i = P[x] + 1
      BY <3>1
    <3>3. P[s[i]] = P[x] /\ s[i] \in S
      BY <2>1, <3>1, <3>2
    <3> QED
      BY <1>4, <3>3
  <2>3. ASSUME NEW i \in 1 .. c, NEW j \in 1 .. c, i < j
        PROVE  Before(K[s[i]], K[s[j]])
    <3>1. P[s[i]] = i - 1 /\ P[s[j]] = j - 1 /\ s[i] \in S /\ s[j] \in S /\ i \in Int /\ j \in Int
      BY <2>1
    <3>2. P[s[i]] # P[s[j]] /\ ~(P[s[j]] < P[s[i]])
      BY <2>3, <3>1
    <3>3. s[i] # s[j]
      BY <3>2
    <3>4. <<s[i], s[j]>> \in R
      BY <1>2, <1>4, <3>1, <3>2, <3>3 DEF Orders
    <3> QED
      BY <1>1, <3>1, <3>4
  <2>4. ASSUME NEW i \in 1 .. c, NEW j \in 1 .. c, s[i] = s[j]
        PROVE  i = j
    <3>1. i - 1 = j - 1 /\ i \in Int /\ j \in Int
      BY <2>1, <2>4
    <3> QED
      BY <3>1
  <2> QED
    BY <2>2, <2>3, <2>4
<1> QED
  BY <1>5, <1>6 DEF Lists

-----------------------------------------------------------------------------
(* Findings and rows.                                                       *)

AnyFinding == [rule : Nat, severity : Severities, ns : Nat, ref : [ns : Nat, kind : Nat, name : Nat],
               risk : Nat]

\* A finding on a workload carries its namespace; one on a namespace, no workload.
WellFormed(f) ==
  /\ f \in AnyFinding
  /\ IF f.rule = 201 THEN f.ref = NoRef ELSE f.ref.ns = f.ns

FindingKeys(S) == [f \in S |-> FindingKey(f)]

LEMMA FindingsAreToldApart ==
  ASSUME NEW S, \A f \in S : WellFormed(f)
  PROVE  TellsApart(FindingKeys(S), S)
<1>1. ASSUME NEW f \in S
      PROVE  FindingKey(f) \in [1 .. 6 -> Int]
  <2>1. Rank(f.severity) \in Int
    BY DEF Rank, WellFormed, AnyFinding, Severities
  <2> QED
    BY <2>1 DEF FindingKey, WellFormed, AnyFinding
<1>2. ASSUME NEW f \in S, NEW g \in S, FindingKey(f) = FindingKey(g)
      PROVE  f = g
  <2>1. /\ -Rank(f.severity) = -Rank(g.severity) /\ -f.risk = -g.risk /\ f.ns = g.ns
        /\ f.ref.name = g.ref.name /\ f.rule = g.rule /\ f.ref.kind = g.ref.kind
    BY <1>2 DEF FindingKey
  <2>2. f.severity = g.severity
    BY <2>1 DEF Rank, WellFormed, AnyFinding, Severities
  <2>3. f.ref = g.ref
    BY <2>1 DEF WellFormed, AnyFinding, NoRef
  <2>4. f.risk = g.risk
    BY <2>1 DEF WellFormed, AnyFinding
  <2> QED
    BY <2>1, <2>2, <2>3, <2>4 DEF WellFormed, AnyFinding
<1>3. FindingKeys(S) \in [S -> [1 .. 6 -> Int]]
  BY <1>1 DEF FindingKeys
<1> QED
  BY <1>2, <1>3 DEF TellsApart, FindingKeys

LEMMA TriageLists ==
  ASSUME NEW S, IsFiniteSet(S), \A f \in S : WellFormed(f)
  PROVE  Lists(Triage(S), FindingKeys(S), S)
<1> DEFINE K == FindingKeys(S)
<1>1. TellsApart(K, S)
  BY FindingsAreToldApart
<1>2. \A x \in S : {y \in S : Before(K[y], K[x])} = {y \in S : Before(FindingKey(y), FindingKey(x))}
  BY DEF FindingKeys
<1>3. ASSUME NEW i \in 1 .. Cardinality(S)
      PROVE  Triage(S)[i] \in S /\ Cardinality({y \in S : Before(K[y], K[Triage(S)[i]])}) = i - 1
  <2>1. PICK x \in S : Cardinality({y \in S : Before(K[y], K[x])}) = i - 1
    BY <1>1, ListedInOrder
  <2>2. Cardinality({y \in S : Before(FindingKey(y), FindingKey(x))}) = i - 1
    BY <1>2, <2>1
  <2>3. Triage(S)[i] = CHOOSE z \in S : Cardinality({y \in S : Before(FindingKey(y), FindingKey(z))}) = i - 1
    BY DEF Triage, InOrder
  <2> QED
    BY <1>2, <2>2, <2>3
<1>4. Triage(S) \in [1 .. Cardinality(S) -> S]
  BY <1>3 DEF Triage, InOrder
<1> DEFINE s == Triage(S)
<1> HIDE DEF K
<1>5. s \in [1 .. Cardinality(S) -> S]
      /\ \A i \in 1 .. Cardinality(S) : Cardinality({y \in S : Before(K[y], K[s[i]])}) = i - 1
  BY <1>3, <1>4
<1> HIDE DEF s
<1>6. Lists(s, K, S)
  BY <1>1, <1>5, ListedInOrder
<1> QED
  BY <1>6 DEF s, K
\* Of finitely many nodes one is the largest, and the first of those that tie.
LEMMA LargestIsANode ==
  ASSUME cluster \in Clusters, NEW S \in SUBSET Nodes, S # {}
  PROVE  Largest(S) \in S
<1> DEFINE alloc == cluster.alloc
           F == [n \in S |-> alloc[n]]
           V == {F[n] : n \in S}
<1>1. IsFiniteSet(S) /\ S \in SUBSET Nat /\ \A n \in S : alloc[n] \in Nat
  <2>1. cluster.alloc \in [Nodes -> Nat]
    BY RunScanAssumption DEF ClusterStates
  <2> QED
    BY <2>1, RunScanAssumption, FS_Subset
<1>2. PICK most \in V : \A v \in V : v <= most
  <2>1. V \in SUBSET Nat /\ V # {} /\ F = [n \in S |-> F[n]]
    BY <1>1
  <2>2. IsFiniteSet(V)
    <3> HIDE DEF F
    <3> QED
      BY <1>1, <2>1, ValuesAreFinite
  <2> HIDE DEF V
  <2> QED
    BY <2>1, <2>2, GreatestExists
<1> DEFINE T == {n \in S : alloc[n] = most}
<1>3. T \in SUBSET Nat /\ T # {}
  BY <1>1, <1>2
<1>4. PICK n \in T : \A m \in T : n <= m
  <2> HIDE DEF T
  <2> QED
    BY <1>3, LeastExists
<1>5. \A m \in S : alloc[m] < alloc[n] \/ (alloc[m] = alloc[n] /\ n <= m)
  <2> SUFFICES ASSUME NEW m \in S, ~(alloc[m] < alloc[n])
               PROVE  alloc[m] = alloc[n] /\ n <= m
    OBVIOUS
  <2>1. alloc[m] <= most /\ alloc[n] = most /\ most \in Nat /\ alloc[m] \in Nat
    BY <1>1, <1>2, <1>4
  <2>2. m \in T
    BY <2>1
  <2> QED
    BY <1>4, <2>1, <2>2
<1> QED
  BY <1>4, <1>5 DEF Largest

\* A score is what its node makes it, and a workload that endangers somebody was
\* scored and has a neighbor.
LEMMA ScoreType ==
  ASSUME cluster \in Clusters, NEW r \in Refs
  PROVE  /\ ScoreOf(r) \in [scored : BOOLEAN, risk : Nat, neighbors : Nat, hypothetical : BOOLEAN]
         /\ ScoreOf(r).risk > 0 => ScoreOf(r).scored /\ ScoreOf(r).neighbors > 0
         /\ ~ScoreOf(r).scored => ScoreOf(r).risk = 0
<1> DEFINE n == CandidateNode(r, Listed)
           N == Tenants(n) \ {r}
           scored == n # Nowhere /\ cluster.alloc[n] > 0
<1>1. N \in SUBSET Refs
  BY DEF Tenants
<1>2. n \in Nodes \cup {Nowhere}
  <2>1. Listed \in SUBSET Nodes
    BY DEF Listed
  <2> QED
    BY <2>1, LargestIsANode DEF CandidateNode
<1>3. ScoreOf(r) =
        [scored |-> scored,
         risk |-> IF scored THEN Ceiling(r, n) * Cardinality(N) ELSE 0,
         neighbors |-> IF scored THEN Cardinality(N) ELSE 0,
         hypothetical |-> n \notin {Nowhere, cluster.on[r]}]
  BY DEF ScoreOf, ScoreAmong
<1> HIDE DEF n, N
<1>4. Cardinality(N) \in Nat
  BY <1>1, RunScanAssumption, FS_Subset, FS_CardinalityType
<1>5. scored => Ceiling(r, n) \in Nat
  <2>1. cluster.alloc \in [Nodes -> Nat] /\ cluster.limit \in [Refs -> Nat]
    BY RunScanAssumption DEF ClusterStates
  <2> QED
    BY <1>2, <2>1 DEF Ceiling
<1> HIDE DEF scored
<1>6. CASE ~scored
  <2>1. ScoreOf(r) = [scored |-> FALSE, risk |-> 0, neighbors |-> 0,
                      hypothetical |-> n \notin {Nowhere, cluster.on[r]}]
    BY <1>3, <1>6, Zenon DEF scored
  <2> QED
    BY <2>1
<1>7. CASE scored
  <2>1. Ceiling(r, n) * Cardinality(N) \in Nat
        /\ (Ceiling(r, n) * Cardinality(N) > 0 => Cardinality(N) > 0)
    BY <1>4, <1>5, <1>7
  <2> QED
    BY <1>3, <1>4, <1>7, <2>1
<1> QED
  BY <1>6, <1>7

RowKeys(T) == [row \in T |-> RowKey(row)]
RowsOf(refs) == {RowOf(r) : r \in refs}
Built == Ranked(RowsOf(inv.workloads))

\* Build gives every workload of the inventory one row, riskiest first.
LEMMA RowsAreListed ==
  ASSUME inv.workloads \in SUBSET Refs, \A r \in inv.workloads : scores[r].risk \in Nat
  PROVE  /\ Lists(Built, RowKeys(RowsOf(inv.workloads)), RowsOf(inv.workloads))
         /\ Cardinality(RowsOf(inv.workloads)) = Cardinality(inv.workloads)
         /\ IsFiniteSet(inv.workloads)
<1> DEFINE T == RowsOf(inv.workloads)
           K == RowKeys(T)
           F == [r \in inv.workloads |-> RowOf(r)]
<1>1. IsFiniteSet(inv.workloads)
  BY RunScanAssumption, FS_Subset
<1>2. T = {F[r] : r \in inv.workloads} /\ F = [r \in inv.workloads |-> F[r]]
  BY DEF RowsOf
<1>3. \A r, q \in inv.workloads : F[r] = F[q] => r = q
  BY DEF RowOf
<1>4. IsFiniteSet(T) /\ Cardinality(T) = Cardinality(inv.workloads)
  <2> DEFINE W == inv.workloads
  <2>1. F = [r \in W |-> F[r]] /\ IsFiniteSet(W) /\ \A r, q \in W : F[r] = F[q] => r = q
    BY <1>1, <1>2, <1>3
  <2> HIDE DEF F, T, W
  <2>2. IsFiniteSet({F[r] : r \in W}) /\ Cardinality({F[r] : r \in W}) = Cardinality(W)
    BY <2>1, ValuesAreFinite
  <2> QED
    BY <1>2, <2>2 DEF W
<1>5. ASSUME NEW row \in T
      PROVE  row.ref \in inv.workloads /\ row = RowOf(row.ref) /\ RowKey(row) \in [1 .. 4 -> Int]
  <2>1. PICK r \in inv.workloads : row = RowOf(r)
    BY DEF RowsOf
  <2>2. row.ref = r /\ row.score = scores[r]
    BY <2>1 DEF RowOf
  <2>3. r \in [ns : Namespaces, kind : Nat, name : Nat] /\ scores[r].risk \in Nat
    BY RunScanAssumption
  <2>4. Namespaces \subseteq Nat
    BY RunScanAssumption
  <2>5. r.ns \in Int /\ r.kind \in Int /\ r.name \in Int
    <3>1. r.ns \in Nat /\ r.kind \in Nat /\ r.name \in Nat
      BY <2>3, <2>4
    <3> QED
      BY <3>1
  <2>6. -scores[r].risk \in Int
    <3>1. \A k \in Nat : -k \in Int
      OBVIOUS
    <3> QED
      BY <2>3, <3>1
  <2> QED
    BY <2>1, <2>2, <2>5, <2>6 DEF RowKey
<1>6. ASSUME NEW a \in T, NEW b \in T, RowKey(a) = RowKey(b)
      PROVE  a = b
  <2>1. a.ref.ns = b.ref.ns /\ a.ref.name = b.ref.name /\ a.ref.kind = b.ref.kind
    BY <1>6 DEF RowKey
  <2>2. a.ref \in [ns : Namespaces, kind : Nat, name : Nat]
        /\ b.ref \in [ns : Namespaces, kind : Nat, name : Nat]
    BY <1>5, RunScanAssumption
  <2>3. a.ref = b.ref
    BY <2>1, <2>2
  <2> QED
    BY <1>5, <2>3
<1>7. TellsApart(K, T)
  <2> HIDE DEF T
  <2>1. K \in [T -> [1 .. 4 -> Int]]
    BY <1>5 DEF RowKeys
  <2> QED
    BY <1>6, <2>1 DEF TellsApart, RowKeys
<1>8. \A x \in T : {y \in T : Before(K[y], K[x])} = {y \in T : Before(RowKey(y), RowKey(x))}
  BY DEF RowKeys
<1> DEFINE s == Built
<1>9. ASSUME NEW i \in 1 .. Cardinality(T)
      PROVE  s[i] \in T /\ Cardinality({y \in T : Before(K[y], K[s[i]])}) = i - 1
  <2>1. s[i] = CHOOSE z \in T : Cardinality({y \in T : Before(RowKey(y), RowKey(z))}) = i - 1
    BY DEF InOrder, Ranked, Built
  <2> HIDE DEF T, K, s
  <2>2. PICK x \in T : Cardinality({y \in T : Before(K[y], K[x])}) = i - 1
    BY <1>4, <1>7, ListedInOrder
  <2>3. Cardinality({y \in T : Before(RowKey(y), RowKey(x))}) = i - 1
    BY <1>8, <2>2
  <2> QED
    BY <1>8, <2>1, <2>3
<1>10. s \in [1 .. Cardinality(T) -> T]
  BY <1>9 DEF InOrder, Ranked, Built
<1> HIDE DEF s, K, T
<1>11. Lists(s, K, T)
  BY <1>4, <1>7, <1>9, <1>10, ListedInOrder
<1> QED
  BY <1>1, <1>4, <1>11 DEF s, K, T
-----------------------------------------------------------------------------
(* What a run asked with the flags f comes to, if it comes to an end.       *)

AskedScope(f) ==
  IF f.allNS THEN NoNamespace
  ELSE IF f.namespace # NoNamespace THEN f.namespace ELSE DefaultNamespace

InAsked(f, ns) == AskedScope(f) = NoNamespace \/ ns = AskedScope(f)

LookedAt(f) ==
  [workloads |-> {r \in Refs : InAsked(f, r.ns)},
   namespaces |-> {ns \in Namespaces : InAsked(f, ns)}]

ScoresOf(f) == [r \in LookedAt(f).workloads |-> ScoreOf(r)]

KeepsSystem(f) == f.includeSystem \/ AskedScope(f) \in SystemNamespaces
SystemIn(f) == {r \in LookedAt(f).workloads : r.ns \in SystemNamespaces}
ProviderIn(f) == LookedAt(f).namespaces \cap SystemNamespaces

Shown(f) ==
  IF KeepsSystem(f) THEN LookedAt(f)
  ELSE [workloads |-> LookedAt(f).workloads \ SystemIn(f),
        namespaces |-> LookedAt(f).namespaces \ ProviderIn(f)]

Hidden(f) ==
  IF KeepsSystem(f) THEN Nothing
  ELSE [workloads |-> Cardinality(SystemIn(f)), namespaces |-> Cardinality(ProviderIn(f))]

Detected(f) ==
  UNION ({WorkloadFindings(r, ScoreOf(r)) : r \in Shown(f).workloads} \cup
         {NamespaceFindings(ns) : ns \in Shown(f).namespaces})

Found(f) == Triage(Detected(f))

\* The greatest blast radius of what is shown.
Riskiest(f) ==
  LET risks == {0} \cup {ScoreOf(r).risk : r \in {q \in Shown(f).workloads : ScoreOf(q).scored}}
  IN  CHOOSE m \in risks : \A k \in risks : k <= m

Verdict(f) == IF Crossed(f, [maxRisk |-> Riskiest(f), findings |-> Found(f)]) THEN 2 ELSE 0

LEMMA ShownType ==
  ASSUME NEW f
  PROVE  /\ LookedAt(f).workloads \in SUBSET Refs /\ LookedAt(f).namespaces \in SUBSET Namespaces
         /\ Shown(f).workloads \in SUBSET LookedAt(f).workloads
         /\ Shown(f).namespaces \in SUBSET LookedAt(f).namespaces
         /\ IsFiniteSet(LookedAt(f).workloads) /\ IsFiniteSet(Shown(f).workloads)
         /\ IsFiniteSet(Shown(f).namespaces)
<1>1. LookedAt(f).workloads \in SUBSET Refs /\ LookedAt(f).namespaces \in SUBSET Namespaces
  BY DEF LookedAt
<1>2. Shown(f).workloads \in SUBSET LookedAt(f).workloads
      /\ Shown(f).namespaces \in SUBSET LookedAt(f).namespaces
  BY DEF Shown
<1>3. IsFiniteSet(Refs) /\ IsFiniteSet(Namespaces)
  BY RunScanAssumption
<1>4. Shown(f).workloads \in SUBSET Refs /\ Shown(f).namespaces \in SUBSET Namespaces
  BY <1>1, <1>2
<1> QED
  BY <1>1, <1>2, <1>3, <1>4, FS_Subset

\* What a finding on a workload, and one on a namespace, looks like.
LEMMA WorkloadFindingsType ==
  ASSUME cluster \in Clusters, NEW r \in Refs, NEW x \in WorkloadFindings(r, ScoreOf(r))
  PROVE  /\ x = Finding(x.rule, x.severity, r.ns, r, ScoreOf(r).risk)
         /\ x.rule \in {102, 107, 301} /\ x.severity \in Severities
         /\ x.rule = 301 => x.severity = "critical" /\ ScoreOf(r).risk > 0
         /\ WellFormed(x)
<1>1. /\ x = Finding(x.rule, x.severity, r.ns, r, ScoreOf(r).risk)
      /\ x.rule \in {102, 107, 301} /\ x.severity \in Severities
      /\ x.rule = 301 => x.severity = "critical" /\ ScoreOf(r).risk > 0
  <2> DEFINE s == ScoreOf(r)
             harmful == s.scored /\ s.risk > 0
  <2>1. cluster.shape[r] \in Shapes
    BY RunScanAssumption DEF ClusterStates
  <2> HIDE DEF s
  <2>2. CASE cluster.shape[r] = "clean"
    <3>1. x \in {}
      BY <2>2 DEF WorkloadFindings, s
    <3> QED
      BY <3>1
  <2>3. CASE cluster.shape[r] = "uncapped"
    <3>1. x = Finding(102, IF harmful THEN "critical" ELSE "warn", r.ns, r, s.risk)
      BY <2>3 DEF WorkloadFindings, s
    <3> QED
      BY <3>1 DEF Finding, Severities, s
  <2>4. CASE cluster.shape[r] = "wasteful" /\ harmful
    <3>1. x = Finding(107, "warn", r.ns, r, s.risk) \/ x = Finding(301, "critical", r.ns, r, s.risk)
      BY <2>4 DEF WorkloadFindings, s
    <3> QED
      BY <2>4, <3>1 DEF Finding, Severities, s
  <2>5. CASE cluster.shape[r] = "wasteful" /\ ~harmful
    <3>1. x = Finding(107, "info", r.ns, r, s.risk)
      BY <2>5 DEF WorkloadFindings, s
    <3> QED
      BY <3>1 DEF Finding, Severities, s
  <2> QED
    BY <2>1, <2>2, <2>3, <2>4, <2>5 DEF Shapes
<1>2. r \in [ns : Nat, kind : Nat, name : Nat] /\ ScoreOf(r).risk \in Nat
  <2>1. r \in [ns : Namespaces, kind : Nat, name : Nat] /\ Namespaces \subseteq Nat
    BY RunScanAssumption
  <2> QED
    BY <2>1, ScoreType
<1>3. WellFormed(x)
  <2>1. x.ref = r /\ x.ns = r.ns /\ x.risk = ScoreOf(r).risk /\ x.rule \in Nat /\ x.rule # 201
    BY <1>1 DEF Finding
  <2>2. x = [rule |-> x.rule, severity |-> x.severity, ns |-> r.ns, ref |-> r, risk |-> ScoreOf(r).risk]
    BY <1>1 DEF Finding
  <2>3. r.ns \in Nat
    BY <1>2
  <2>4. x \in AnyFinding
    BY <1>1, <1>2, <2>1, <2>2, <2>3 DEF AnyFinding
  <2> QED
    BY <2>1, <2>4 DEF WellFormed
<1> QED
  BY <1>1, <1>3

LEMMA NamespaceFindingsType ==
  ASSUME NEW ns \in Namespaces, NEW x \in NamespaceFindings(ns)
  PROVE  WellFormed(x) /\ x.rule = 201
<1>1. x.rule = 201 /\ x.ns = ns /\ x.ref = NoRef /\ x.risk = 0 /\ x.severity \in Severities
      /\ x = Finding(201, x.severity, ns, NoRef, 0)
  BY DEF NamespaceFindings, Finding, Severities
<1>2. ns \in Nat
  BY RunScanAssumption
<1> QED
  BY <1>1, <1>2 DEF WellFormed, AnyFinding, Finding, NoRef
\* At most two findings on one workload, at most one on a namespace.
LEMMA FindingsAreFinite ==
  ASSUME NEW r
  PROVE  IsFiniteSet(WorkloadFindings(r, ScoreOf(r))) \/ cluster.shape[r] \notin Shapes
<1> DEFINE a == Finding(107, "warn", r.ns, r, ScoreOf(r).risk)
           b == Finding(301, "critical", r.ns, r, ScoreOf(r).risk)
<1>1. \A x : IsFiniteSet({x})
  BY FS_Singleton
<1>2. IsFiniteSet({})
  BY FS_EmptySet
<1>3. IsFiniteSet({a, b})
  <2>1. {a, b} = {a} \cup {b}
    OBVIOUS
  <2> HIDE DEF a, b
  <2>2. IsFiniteSet({a}) /\ IsFiniteSet({b})
    BY <1>1
  <2>3. IsFiniteSet({a} \cup {b})
    BY <2>2, FS_Union, Zenon
  <2> QED
    BY <2>1, <2>3
<1> QED
  BY <1>1, <1>2, <1>3 DEF WorkloadFindings, Shapes

LEMMA DetectedType ==
  ASSUME cluster \in Clusters, NEW f
  PROVE  /\ IsFiniteSet(Detected(f))
         /\ \A x \in Detected(f) : WellFormed(x)
         /\ \A x \in Detected(f) :
              x.rule = 301 => /\ x.ref \in Shown(f).workloads
                              /\ x = Finding(301, "critical", x.ref.ns, x.ref, ScoreOf(x.ref).risk)
                              /\ ScoreOf(x.ref).risk > 0
<1> DEFINE W == Shown(f).workloads
           M == Shown(f).namespaces
           F == [r \in W |-> WorkloadFindings(r, ScoreOf(r))]
           G == [ns \in M |-> NamespaceFindings(ns)]
           Fs == {F[r] : r \in W}
           Gs == {G[ns] : ns \in M}
<1>1. W \in SUBSET Refs /\ M \in SUBSET Namespaces /\ IsFiniteSet(W) /\ IsFiniteSet(M)
  BY ShownType
<1>2. Detected(f) = UNION (Fs \cup Gs)
  BY DEF Detected
<1>3. \A S \in Fs : IsFiniteSet(S)
  <2>1. ASSUME NEW r \in W
        PROVE  IsFiniteSet(F[r])
    <3>1. cluster.shape[r] \in Shapes
      BY <1>1, RunScanAssumption DEF ClusterStates
    <3> QED
      BY <3>1, FindingsAreFinite
  <2> QED
    BY <2>1
<1>4. \A S \in Gs : IsFiniteSet(S)
  <2>1. \A ns \in M : IsFiniteSet(NamespaceFindings(ns))
    BY FS_Singleton, FS_EmptySet DEF NamespaceFindings
  <2> QED
    BY <2>1
<1>5. IsFiniteSet(Fs) /\ IsFiniteSet(Gs)
  <2>1. F = [r \in W |-> F[r]] /\ G = [ns \in M |-> G[ns]]
    OBVIOUS
  <2> HIDE DEF F, G, W, M
  <2> QED
    BY <1>1, <2>1, ValuesAreFinite
<1>6. IsFiniteSet(Detected(f))
  <2> HIDE DEF Fs, Gs
  <2> QED
    BY <1>2, <1>3, <1>4, <1>5, FS_Union, FS_UNION
<1>7. ASSUME NEW x \in Detected(f)
      PROVE  \/ \E r \in W : x \in WorkloadFindings(r, ScoreOf(r))
             \/ \E ns \in M : x \in NamespaceFindings(ns)
  BY <1>2
<1>8. ASSUME NEW x \in Detected(f)
      PROVE  WellFormed(x)
  <2> HIDE DEF W, M
  <2> QED
    BY <1>1, <1>7, WorkloadFindingsType, NamespaceFindingsType
<1>9. ASSUME NEW x \in Detected(f), x.rule = 301
      PROVE  /\ x.ref \in W
             /\ x = Finding(301, "critical", x.ref.ns, x.ref, ScoreOf(x.ref).risk)
             /\ ScoreOf(x.ref).risk > 0
  <2> HIDE DEF W, M
  <2>1. CASE \E ns \in M : x \in NamespaceFindings(ns)
    BY <1>1, <1>9, <2>1, NamespaceFindingsType
  <2>2. CASE \E r \in W : x \in WorkloadFindings(r, ScoreOf(r))
    <3>1. PICK r \in W : x \in WorkloadFindings(r, ScoreOf(r))
      BY <2>2
    <3>2. /\ x = Finding(x.rule, x.severity, r.ns, r, ScoreOf(r).risk)
          /\ x.severity = "critical" /\ ScoreOf(r).risk > 0
      BY <1>1, <1>9, <3>1, WorkloadFindingsType
    <3>3. x.ref = r
      BY <3>2 DEF Finding
    <3> QED
      BY <1>9, <3>2, <3>3
  <2> QED
    BY <1>7, <2>1, <2>2
<1> QED
  BY <1>6, <1>8, <1>9

\* Detect's list has every finding once.
LEMMA FoundType ==
  ASSUME cluster \in Clusters, NEW f
  PROVE  /\ Lists(Found(f), FindingKeys(Detected(f)), Detected(f))
         /\ Cardinality(Detected(f)) \in Nat
         /\ DOMAIN Found(f) = 1 .. Cardinality(Detected(f))
         /\ Len(Found(f)) = Cardinality(Detected(f))
         /\ \A i \in DOMAIN Found(f) : Found(f)[i] \in Detected(f)
         /\ \A i \in DOMAIN Found(f) : WellFormed(Found(f)[i])
<1>1. IsFiniteSet(Detected(f)) /\ \A x \in Detected(f) : WellFormed(x)
  BY DetectedType
<1>2. Lists(Found(f), FindingKeys(Detected(f)), Detected(f))
  BY <1>1, TriageLists DEF Found
<1>3. Cardinality(Detected(f)) \in Nat
  BY <1>1, FS_CardinalityType
<1>4. Found(f) \in [1 .. Cardinality(Detected(f)) -> Detected(f)]
  BY <1>2 DEF Lists
<1>5. Found(f) \in Seq(Detected(f)) /\ Len(Found(f)) = Cardinality(Detected(f))
  BY <1>3, <1>4
<1> QED
  BY <1>1, <1>2, <1>3, <1>4, <1>5
-----------------------------------------------------------------------------
(* The inductive invariant: what is known at each stage, and what is left   *)
(* known when a run that printed its report is over.                        *)

FromCollect == {"collect", "score", "hide", "detect", "build", "render", "gate"}
ToHide == {"validate", "connect", "resolve", "collect", "score", "hide"}
FromHide == {"hide", "detect", "build", "render", "gate"}
FromDetect == {"detect", "build", "render", "gate"}
FromBuild == {"build", "render", "gate"}

Reached(stages) == pc \in stages \/ printed.complete

\* A report is printed in full before a verdict is given, and only then.
OutcomeInv ==
  /\ printed.complete => pc \in {"gate", "exited"}
  /\ pc = "gate" => printed.complete
  /\ pc # "exited" => exit = Running
  /\ pc = "exited" => exit # Running /\ (exit \in {0, 2} <=> printed.complete)

InventoryInv ==
  /\ Reached(FromCollect) => scope = AskedScope(flags)
  /\ pc \in {"score", "hide"} => inv = LookedAt(flags)
  /\ pc \in ToHide => hidden = Nothing
  /\ Reached(FromHide) => scores = ScoresOf(flags)
  /\ Reached(FromDetect) => inv = Shown(flags) /\ hidden = Hidden(flags)
  /\ Reached(FromBuild) => findings = Found(flags)

PrintedFrom(r) ==
  [complete |-> TRUE,
   rows |-> [i \in DOMAIN r.rows |-> TableRow(r.rows[i])],
   cut |-> IF flags.json THEN 0 ELSE Cut(ReportNow, flags.top),
   contradictions |-> Contradictions(r), tail |-> Rest(r), summary |-> Summary(r)]

\* The report the gate reads is the one that was built, but for the rows cut.
ReportInv ==
  /\ pc = "render" => report = ReportNow
  /\ printed.complete =>
       /\ report = IF flags.json THEN ReportNow ELSE Limited(ReportNow, flags.top)
       /\ printed = PrintedFrom(report)
  /\ pc = "exited" /\ printed.complete => exit = Verdict(flags)

\* The run before came to what its flags and the cluster make of it.
PreviousInv ==
  /\ prev # NoRun =>
       /\ prev.flags \in Flags
       /\ prev.exit = Verdict(prev.flags)
       /\ prev.report.counts = Tallies(Found(prev.flags))
  /\ \A row \in Rows(prev.rows) : row.ref \in Refs /\ row.score = ScoreOf(row.ref)

RunInv == OutcomeInv /\ InventoryInv /\ ReportInv /\ PreviousInv

\* None of it changes while the cluster does not.
LEMMA Steady ==
  ASSUME cluster' = cluster, NEW f
  PROVE  /\ ScoresOf(f)' = ScoresOf(f)
         /\ Found(f)' = Found(f)
         /\ Verdict(f)' = Verdict(f)
         /\ \A r : ScoreOf(r)' = ScoreOf(r)
<1>1. \A r : ScoreOf(r)' = ScoreOf(r)
  BY DEF ScoreOf, ScoreAmong, CandidateNode, Largest, Listed, Ceiling, Tenants
<1>2. ScoresOf(f)' = ScoresOf(f)
  BY <1>1 DEF ScoresOf, LookedAt, InAsked, AskedScope, DefaultNamespace
<1>3. Detected(f)' = Detected(f)
  <2>1. \A r : WorkloadFindings(r, ScoreOf(r))' = WorkloadFindings(r, ScoreOf(r))
    BY <1>1 DEF WorkloadFindings
  <2>2. \A ns : NamespaceFindings(ns)' = NamespaceFindings(ns)
    BY DEF NamespaceFindings
  <2> QED
    BY <2>1, <2>2 DEF Detected
<1>4. Found(f)' = Found(f)
  BY <1>3 DEF Found
<1>5. Riskiest(f)' = Riskiest(f)
  BY <1>1 DEF Riskiest
<1> QED
  BY <1>1, <1>2, <1>4, <1>5 DEF Verdict

LEMMA SameReport ==
  ASSUME UNCHANGED <<cluster, inv, scores, hidden, findings>>
  PROVE  ReportNow' = ReportNow
<1>1. \A r : RowOf(r)' = RowOf(r)
  BY DEF RowOf, Count
<1>2. {RowOf(r) : r \in inv.workloads}' = {RowOf(r) : r \in inv.workloads}
  BY <1>1
<1>3. Ranked({RowOf(r) : r \in inv.workloads})' = Ranked({RowOf(r) : r \in inv.workloads})
  BY <1>2
<1>4. MaxRisk(inv.workloads)' = MaxRisk(inv.workloads)
  BY DEF MaxRisk
<1>5. MaxRiskRef(inv.workloads)' = MaxRiskRef(inv.workloads)
  BY <1>4 DEF MaxRiskRef
<1> QED
  BY <1>3, <1>4, <1>5 DEF ReportNow

LEMMA SameVerdict ==
  ASSUME UNCHANGED <<cluster, prev>>, PreviousInv
  PROVE  PreviousInv'
BY Steady DEF PreviousInv, Rows

LEMMA SameInventory ==
  ASSUME UNCHANGED <<cluster, flags, scope, inv, scores, hidden, findings, pc, printed>>, InventoryInv
  PROVE  InventoryInv'
BY Steady DEF InventoryInv, Reached

\* The greatest of finitely many risks, or zero.
LEMMA RiskiestType ==
  ASSUME cluster \in Clusters, NEW f
  PROVE  /\ Riskiest(f) \in Nat
         /\ \A r \in Shown(f).workloads : ScoreOf(r).risk \in Nat /\ ScoreOf(r).risk <= Riskiest(f)
         /\ Riskiest(f) > 0 => \E r \in Shown(f).workloads : ScoreOf(r).risk = Riskiest(f)
<1> DEFINE W == Shown(f).workloads
           V == {q \in W : ScoreOf(q).scored}
           F == [r \in V |-> ScoreOf(r).risk]
           G == {F[r] : r \in V}
           S == {0} \cup G
<1>1. W \in SUBSET Refs /\ IsFiniteSet(W)
  BY ShownType
<1>2. \A r \in W : ScoreOf(r).risk \in Nat /\ (~ScoreOf(r).scored => ScoreOf(r).risk = 0)
  BY <1>1, ScoreType
<1>3. IsFiniteSet(V)
  BY <1>1, FS_Subset
<1>4. IsFiniteSet(G)
  <2>1. F = [r \in V |-> F[r]]
    OBVIOUS
  <2> HIDE DEF F, V
  <2> QED
    BY <1>3, <2>1, ValuesAreFinite
<1>5. S \in SUBSET Nat /\ S # {} /\ IsFiniteSet(S)
  <2>1. S \in SUBSET Nat
    <3>1. \A r \in V : F[r] \in Nat
      BY <1>2
    <3> HIDE DEF F, V
    <3> QED
      BY <3>1
  <2>2. IsFiniteSet({0})
    BY FS_Singleton
  <2> HIDE DEF G
  <2> QED
    BY <1>4, <2>1, <2>2, FS_Union
<1>6. G = {ScoreOf(r).risk : r \in V}
  OBVIOUS
<1>7. Riskiest(f) = CHOOSE m \in S : \A k \in S : k <= m
  BY <1>6 DEF Riskiest
<1>8. \E m \in S : \A k \in S : k <= m
  <2> HIDE DEF S
  <2> QED
    BY <1>5, GreatestExists
<1>9. Riskiest(f) \in S /\ \A k \in S : k <= Riskiest(f)
  <2> HIDE DEF S
  <2> QED
    BY <1>7, <1>8
<1>10. Riskiest(f) \in Nat
  BY <1>5, <1>9
<1>11. ASSUME NEW r \in W
       PROVE  ScoreOf(r).risk <= Riskiest(f)
  <2>1. CASE ScoreOf(r).scored
    <3>1. ScoreOf(r).risk \in S
      BY <1>6, <2>1
    <3> HIDE DEF S
    <3> QED
      BY <1>9, <3>1
  <2>2. CASE ~ScoreOf(r).scored
    BY <1>2, <1>10, <2>2
  <2> QED
    BY <2>1, <2>2
<1>12. Riskiest(f) > 0 => \E r \in W : ScoreOf(r).risk = Riskiest(f)
  <2>1. Riskiest(f) = 0 \/ \E r \in V : ScoreOf(r).risk = Riskiest(f)
    BY <1>6, <1>9
  <2> QED
    BY <2>1
<1> QED
  BY <1>2, <1>10, <1>11, <1>12

\* The scores of what is shown are those of what was looked at.
LEMMA KnownScores ==
  ASSUME NEW f, scores = ScoresOf(f), NEW r \in Shown(f).workloads
  PROVE  scores[r] = ScoreOf(r)
BY ShownType DEF ScoresOf

LEMMA MaxRiskIsRiskiest ==
  ASSUME NEW f, scores = ScoresOf(f), inv = Shown(f)
  PROVE  MaxRisk(inv.workloads) = Riskiest(f)
<1>1. \A r \in inv.workloads : scores[r] = ScoreOf(r)
  BY KnownScores
<1>2. {q \in inv.workloads : scores[q].scored} = {q \in Shown(f).workloads : ScoreOf(q).scored}
  BY <1>1
<1>3. {scores[r].risk : r \in {q \in inv.workloads : scores[q].scored}}
      = {ScoreOf(r).risk : r \in {q \in Shown(f).workloads : ScoreOf(q).scored}}
  BY <1>1, <1>2
<1> QED
  BY <1>3 DEF MaxRisk, Riskiest

\* The order of the findings and all of the report but its rows, when it is built
\* and after the table has cut it.
LEMMA BuiltReport ==
  ASSUME cluster \in Clusters, NEW f, scores = ScoresOf(f), inv = Shown(f),
         findings = Found(f), NEW k, NEW r \in {ReportNow, Limited(ReportNow, k)}
  PROVE  /\ r.findings = Found(f) /\ r.counts = Tallies(Found(f)) /\ r.hidden = hidden
         /\ r.maxRisk = Riskiest(f) /\ r.maxRisk \in Nat
         /\ r.maxRiskRef = MaxRiskRef(inv.workloads)
         /\ r.scored = Cardinality({q \in inv.workloads : scores[q].scored})
         /\ r.unscored = Cardinality({q \in inv.workloads : ~scores[q].scored})
         /\ \A g : Crossed(g, r) <=> Crossed(g, [maxRisk |-> Riskiest(f), findings |-> Found(f)])
<1>1. MaxRisk(inv.workloads) = Riskiest(f)
  BY MaxRiskIsRiskiest
<1>2. /\ r.findings = Found(f) /\ r.counts = Tallies(Found(f)) /\ r.hidden = hidden
      /\ r.maxRisk = Riskiest(f)
      /\ r.maxRiskRef = MaxRiskRef(inv.workloads)
      /\ r.scored = Cardinality({q \in inv.workloads : scores[q].scored})
      /\ r.unscored = Cardinality({q \in inv.workloads : ~scores[q].scored})
  <2> DEFINE R == ReportNow
  <2>1. /\ R.findings = Found(f) /\ R.counts = Tallies(Found(f)) /\ R.hidden = hidden
        /\ R.maxRisk = Riskiest(f)
        /\ R.maxRiskRef = MaxRiskRef(inv.workloads)
        /\ R.scored = Cardinality({q \in inv.workloads : scores[q].scored})
        /\ R.unscored = Cardinality({q \in inv.workloads : ~scores[q].scored})
    BY <1>1 DEF ReportNow
  <2>2. {"findings", "counts", "hidden", "maxRisk", "maxRiskRef", "scored", "unscored"}
        \subseteq DOMAIN R
    BY DEF ReportNow
  <2>3. \E rows : r = R \/ r = [R EXCEPT !.rows = rows]
    BY DEF Limited
  <2> HIDE DEF R
  <2> QED
    BY <2>1, <2>2, <2>3
<1>3. r.maxRisk \in Nat
  BY <1>2, RiskiestType
<1> QED
  BY <1>2, <1>3 DEF Crossed

\* The rows, whole: as many as there are workloads, each about one of them.
LEMMA BuiltRows ==
  ASSUME cluster \in Clusters, NEW f, scores = ScoresOf(f), inv = Shown(f)
  PROVE  /\ ReportNow.rows = Built
         /\ Lists(Built, RowKeys(RowsOf(inv.workloads)), RowsOf(inv.workloads))
         /\ Cardinality(RowsOf(inv.workloads)) = Cardinality(inv.workloads)
         /\ Cardinality(inv.workloads) \in Nat
         /\ Built \in Seq(RowsOf(inv.workloads)) /\ Len(Built) = Cardinality(inv.workloads)
<1>1. inv.workloads \in SUBSET Refs
  BY ShownType
<1>2. \A r \in inv.workloads : scores[r].risk \in Nat
  BY KnownScores, RiskiestType
<1>3. /\ Lists(Built, RowKeys(RowsOf(inv.workloads)), RowsOf(inv.workloads))
      /\ Cardinality(RowsOf(inv.workloads)) = Cardinality(inv.workloads)
      /\ Cardinality(inv.workloads) \in Nat
  BY <1>1, <1>2, RowsAreListed, FS_CardinalityType
<1>4. Built \in [1 .. Cardinality(inv.workloads) -> RowsOf(inv.workloads)]
  BY <1>3 DEF Lists
<1>5. Built \in Seq(RowsOf(inv.workloads)) /\ Len(Built) = Cardinality(inv.workloads)
  BY <1>3, <1>4
<1>6. ReportNow.rows = Built
  BY DEF ReportNow, Built, RowsOf
<1> QED
  BY <1>3, <1>5, <1>6
-----------------------------------------------------------------------------
(* One step of a run at a time.                                             *)

IInv == TypeOK /\ RunInv

LEMMA StartsWell == Init => IInv
<1> SUFFICES ASSUME Init PROVE IInv
  OBVIOUS
<1> USE RunScanAssumption DEF Init
<1>1. TypeOK
  BY DEF TypeOK, NoInventory, Nothing, NoReport, NoOutput, Running, NoNamespace
<1>2. OutcomeInv
  BY DEF OutcomeInv, NoOutput
<1>3. InventoryInv
  BY DEF InventoryInv, Reached, NoOutput, FromCollect, ToHide, FromHide, FromDetect, FromBuild
<1>4. ReportInv
  BY DEF ReportInv, NoOutput
<1>5. PreviousInv
  BY DEF PreviousInv, NoRun, Rows
<1> QED
  BY <1>1, <1>2, <1>3, <1>4, <1>5 DEF IInv, RunInv

\* Before the report is printed there is nothing in the invariant about the
\* outcome, and the run before does not change.
LEMMA BeforeRender ==
  ASSUME IInv, UNCHANGED <<cluster, printed, prev>>,
         pc \notin {"render", "gate", "exited"},
         pc' \notin {"render", "gate"},
         pc' # "exited" => UNCHANGED exit,
         pc' = "exited" => exit' = 1
  PROVE  ~printed.complete /\ ~printed'.complete /\ OutcomeInv' /\ ReportInv' /\ PreviousInv'
<1> USE DEF IInv, RunInv
<1>1. ~printed.complete /\ ~printed'.complete
  BY DEF OutcomeInv
<1>2. OutcomeInv'
  BY <1>1 DEF OutcomeInv, Running
<1>3. ReportInv'
  BY <1>1 DEF ReportInv
<1>4. PreviousInv'
  BY SameVerdict
<1> QED
  BY <1>1, <1>2, <1>3, <1>4

LEMMA ValidateStep == IInv /\ Validate => IInv'
<1> SUFFICES ASSUME IInv, Validate PROVE IInv'
  OBVIOUS
<1> USE DEF Validate, Exit, Go
<1>1. ~printed'.complete /\ OutcomeInv' /\ ReportInv' /\ PreviousInv'
  BY BeforeRender
<1>2. TypeOK'
  BY DEF IInv, TypeOK
<1>3. InventoryInv'
  BY <1>1 DEF IInv, RunInv, InventoryInv, Reached, FromCollect, ToHide, FromHide, FromDetect, FromBuild
<1> QED
  BY <1>1, <1>2, <1>3 DEF IInv, RunInv

LEMMA ConnectStep == IInv /\ Connect => IInv'
<1> SUFFICES ASSUME IInv, Connect PROVE IInv'
  OBVIOUS
<1> USE DEF Connect, Exit, Go
<1>1. ~printed'.complete /\ OutcomeInv' /\ ReportInv' /\ PreviousInv'
  BY BeforeRender
<1>2. TypeOK'
  BY DEF IInv, TypeOK
<1>3. InventoryInv'
  BY <1>1 DEF IInv, RunInv, InventoryInv, Reached, FromCollect, ToHide, FromHide, FromDetect, FromBuild
<1> QED
  BY <1>1, <1>2, <1>3 DEF IInv, RunInv

LEMMA ResolveStep == IInv /\ ResolveNamespace => IInv'
<1> SUFFICES ASSUME IInv, ResolveNamespace PROVE IInv'
  OBVIOUS
<1> USE DEF ResolveNamespace, Exit, Go
<1>1. ~printed'.complete /\ OutcomeInv' /\ ReportInv' /\ PreviousInv'
  BY BeforeRender
<1>2. scope' = AskedScope(flags)'
  BY DEF AskedScope, DefaultNamespace
<1>3. scope' \in Namespaces \cup {NoNamespace}
  BY RunScanAssumption DEF IInv, TypeOK, Flags, DefaultNamespace
<1>4. TypeOK'
  BY <1>3 DEF IInv, TypeOK
<1>5. InventoryInv'
  BY <1>1, <1>2 DEF IInv, RunInv, InventoryInv, Reached, FromCollect, ToHide, FromHide, FromDetect, FromBuild
<1> QED
  BY <1>1, <1>4, <1>5 DEF IInv, RunInv

LEMMA CollectStep == IInv /\ CollectInventory => IInv'
<1> SUFFICES ASSUME IInv, CollectInventory PROVE IInv'
  OBVIOUS
<1> USE DEF CollectInventory, Exit, Go
<1>1. ~printed'.complete /\ OutcomeInv' /\ ReportInv' /\ PreviousInv'
  BY BeforeRender
<1>2. scope = AskedScope(flags)
  BY DEF IInv, RunInv, InventoryInv, Reached, FromCollect
<1>3. scope' = AskedScope(flags)'
  BY <1>2 DEF AskedScope, DefaultNamespace
<1>4. pc' = "score" => inv' = LookedAt(flags)'
  <2>1. LookedAt(flags)' = LookedAt(flags)
    BY DEF LookedAt, InAsked, AskedScope, DefaultNamespace
  <2>2. pc' = "score" => inv' = LookedAt(flags)
    BY <1>2 DEF LookedAt, InAsked, InScope
  <2> QED
    BY <2>1, <2>2
<1>5. inv'.workloads \subseteq Refs /\ inv'.namespaces \subseteq Namespaces
  BY DEF IInv, TypeOK
<1>6. TypeOK'
  BY <1>5 DEF IInv, TypeOK
<1>7. InventoryInv'
  BY <1>1, <1>3, <1>4 DEF IInv, RunInv, InventoryInv, Reached, FromCollect, ToHide, FromHide, FromDetect, FromBuild
<1> QED
  BY <1>1, <1>6, <1>7 DEF IInv, RunInv

\* What the flags ask for depends on nothing that a stage changes.
LEMMA SameQuestion ==
  ASSUME UNCHANGED <<cluster, flags>>
  PROVE  /\ AskedScope(flags)' = AskedScope(flags)
         /\ LookedAt(flags)' = LookedAt(flags)
         /\ Shown(flags)' = Shown(flags)
         /\ Hidden(flags)' = Hidden(flags)
         /\ ScoresOf(flags)' = ScoresOf(flags)
         /\ Found(flags)' = Found(flags)
         /\ Verdict(flags)' = Verdict(flags)
<1>1. AskedScope(flags)' = AskedScope(flags)
  BY DEF AskedScope, DefaultNamespace
<1>2. LookedAt(flags)' = LookedAt(flags)
  BY <1>1 DEF LookedAt, InAsked
<1>3. Shown(flags)' = Shown(flags) /\ Hidden(flags)' = Hidden(flags)
  BY <1>1, <1>2 DEF Shown, Hidden, KeepsSystem, SystemIn, ProviderIn
<1> QED
  BY <1>1, <1>2, <1>3, Steady

LEMMA ScoreStep == IInv /\ Score => IInv'
<1> SUFFICES ASSUME IInv, Score PROVE IInv'
  OBVIOUS
<1> USE DEF Score, Exit, Go
<1>1. ~printed'.complete /\ OutcomeInv' /\ ReportInv' /\ PreviousInv'
  BY BeforeRender
<1>2. scope = AskedScope(flags) /\ inv = LookedAt(flags)
  BY DEF IInv, RunInv, InventoryInv, Reached, FromCollect
<1>3. scores' = ScoresOf(flags)
  BY <1>2 DEF ScoresOf
<1>4. TypeOK'
  BY DEF IInv, TypeOK
<1>5. InventoryInv'
  BY <1>1, <1>2, <1>3, SameQuestion
    DEF IInv, RunInv, InventoryInv, Reached, FromCollect, ToHide, FromHide, FromDetect, FromBuild
<1> QED
  BY <1>1, <1>4, <1>5 DEF IInv, RunInv

LEMMA HiddenType == \A f : Hidden(f) \in [workloads : Nat, namespaces : Nat]
<1> SUFFICES ASSUME NEW f PROVE Hidden(f) \in [workloads : Nat, namespaces : Nat]
  OBVIOUS
<1>1. IsFiniteSet(Refs) /\ IsFiniteSet(Namespaces)
  BY RunScanAssumption
<1>2. SystemIn(f) \in SUBSET Refs /\ ProviderIn(f) \in SUBSET Namespaces
  BY ShownType DEF SystemIn, ProviderIn
<1>3. Cardinality(SystemIn(f)) \in Nat /\ Cardinality(ProviderIn(f)) \in Nat
  BY <1>1, <1>2, FS_Subset, FS_CardinalityType
<1> QED
  BY <1>3 DEF Hidden, Nothing

LEMMA HideStep == IInv /\ HideSystem => IInv'
<1> SUFFICES ASSUME IInv, HideSystem PROVE IInv'
  OBVIOUS
<1> USE DEF HideSystem, Exit, Go
<1>1. ~printed'.complete /\ OutcomeInv' /\ ReportInv' /\ PreviousInv'
  BY BeforeRender
<1>2. /\ scope = AskedScope(flags) /\ inv = LookedAt(flags) /\ scores = ScoresOf(flags)
      /\ hidden = Nothing
  BY DEF IInv, RunInv, InventoryInv, Reached, FromCollect, ToHide, FromHide
<1>3. inv' = Shown(flags)
  BY <1>2 DEF Shown, KeepsSystem, SystemIn, ProviderIn
<1>4. hidden' = Hidden(flags)
  BY <1>2 DEF Hidden, KeepsSystem, SystemIn, ProviderIn
<1>5. TypeOK'
  <2>1. hidden' \in [workloads : Nat, namespaces : Nat]
    BY <1>4, HiddenType
  <2>2. inv'.workloads \subseteq Refs /\ inv'.namespaces \subseteq Namespaces
    BY <1>3, ShownType
  <2> QED
    BY <2>1, <2>2 DEF IInv, TypeOK
<1>6. InventoryInv'
  BY <1>1, <1>2, <1>3, <1>4, SameQuestion
    DEF IInv, RunInv, InventoryInv, Reached, FromCollect, ToHide, FromHide, FromDetect, FromBuild
<1> QED
  BY <1>1, <1>5, <1>6 DEF IInv, RunInv

LEMMA DetectStep == IInv /\ Detect => IInv'
<1> SUFFICES ASSUME IInv, Detect PROVE IInv'
  OBVIOUS
<1> USE DEF Detect, Exit, Go
<1>1. ~printed'.complete /\ OutcomeInv' /\ ReportInv' /\ PreviousInv'
  BY BeforeRender
<1>2. /\ scope = AskedScope(flags) /\ inv = Shown(flags) /\ scores = ScoresOf(flags)
      /\ hidden = Hidden(flags)
  BY DEF IInv, RunInv, InventoryInv, Reached, FromCollect, FromHide, FromDetect
<1>3. findings' = Found(flags)
  <2>1. \A r \in inv.workloads : WorkloadFindings(r, scores[r]) = WorkloadFindings(r, ScoreOf(r))
    BY <1>2, KnownScores
  <2>2. {WorkloadFindings(r, scores[r]) : r \in inv.workloads}
        = {WorkloadFindings(r, ScoreOf(r)) : r \in inv.workloads}
    BY <2>1
  <2> QED
    BY <1>2, <2>2 DEF Found, Detected
<1>4. TypeOK'
  BY DEF IInv, TypeOK
<1>5. InventoryInv'
  BY <1>1, <1>2, <1>3, SameQuestion
    DEF IInv, RunInv, InventoryInv, Reached, FromCollect, ToHide, FromHide, FromDetect, FromBuild
<1> QED
  BY <1>1, <1>4, <1>5 DEF IInv, RunInv

LEMMA BuildStep == IInv /\ Build => IInv'
<1> SUFFICES ASSUME IInv, Build PROVE IInv'
  OBVIOUS
<1> USE DEF Build, Exit, Go
<1>1. ~printed.complete /\ ~printed'.complete
  BY DEF IInv, RunInv, OutcomeInv
<1>2. /\ scope = AskedScope(flags) /\ inv = Shown(flags) /\ scores = ScoresOf(flags)
      /\ hidden = Hidden(flags) /\ findings = Found(flags)
  BY DEF IInv, RunInv, InventoryInv, Reached, FromCollect, FromHide, FromDetect, FromBuild
<1>3. OutcomeInv'
  BY <1>1 DEF IInv, RunInv, OutcomeInv
<1>4. ReportInv'
  BY <1>1, SameReport DEF ReportInv
<1>5. PreviousInv'
  BY SameVerdict DEF IInv, RunInv
<1>6. TypeOK'
  <2>1. report'.maxRisk \in Nat
    BY <1>2, BuiltReport DEF IInv, TypeOK
  <2> QED
    BY <2>1 DEF IInv, TypeOK
<1>7. InventoryInv'
  BY <1>1, <1>2, SameQuestion
    DEF InventoryInv, Reached, FromCollect, ToHide, FromHide, FromDetect, FromBuild
<1> QED
  BY <1>3, <1>4, <1>5, <1>6, <1>7 DEF IInv, RunInv

LEMMA CutType ==
  ASSUME Len(ReportNow.rows) \in Nat, flags \in Flags
  PROVE  Cut(ReportNow, flags.top) \in Nat
BY DEF Cut, Flags

LEMMA RenderStep == IInv /\ Render => IInv'
<1> SUFFICES ASSUME IInv, Render PROVE IInv'
  OBVIOUS
<1> USE DEF Render, Exit, Go
<1>1. ~printed.complete
  BY DEF IInv, RunInv, OutcomeInv
<1>2. /\ scope = AskedScope(flags) /\ inv = Shown(flags) /\ scores = ScoresOf(flags)
      /\ hidden = Hidden(flags) /\ findings = Found(flags)
  BY DEF IInv, RunInv, InventoryInv, Reached, FromCollect, FromHide, FromDetect, FromBuild
<1>3. report = ReportNow /\ ReportNow' = ReportNow
  BY SameReport DEF IInv, RunInv, ReportInv
<1>4. report' = IF flags.json THEN ReportNow ELSE Limited(ReportNow, flags.top)
  BY <1>3
<1>5. \/ pc' = "gate" /\ exit' = exit /\ printed'.complete
      \/ pc' = "exited" /\ exit' = 1 /\ ~printed'.complete
  BY <1>1
<1>6. OutcomeInv'
  BY <1>5 DEF IInv, RunInv, OutcomeInv, Running
<1>7. ReportInv'
  <2>1. printed'.complete => printed' = PrintedFrom(report)'
    BY <1>1, <1>3 DEF PrintedFrom
  <2> QED
    BY <1>3, <1>4, <1>5, <2>1 DEF ReportInv
<1>8. PreviousInv'
  BY SameVerdict DEF IInv, RunInv
<1>9. TypeOK'
  <2>1. report'.maxRisk \in Nat
    BY <1>2, <1>4, BuiltReport DEF IInv, TypeOK
  <2>2. Cut(ReportNow, flags.top) \in Nat
    <3>1. Len(ReportNow.rows) \in Nat
      BY <1>2, BuiltRows DEF IInv, TypeOK
    <3> QED
      BY <3>1, CutType DEF IInv, TypeOK
  <2>3. printed'.cut \in Nat
    BY <1>3, <2>2 DEF IInv, TypeOK
  <2> QED
    BY <1>5, <2>1, <2>3 DEF IInv, TypeOK
<1>10. InventoryInv'
  BY <1>2, <1>5, SameQuestion
    DEF InventoryInv, Reached, FromCollect, ToHide, FromHide, FromDetect, FromBuild
<1> QED
  BY <1>6, <1>7, <1>8, <1>9, <1>10 DEF IInv, RunInv

LEMMA GateStep == IInv /\ Gate => IInv'
<1> SUFFICES ASSUME IInv, Gate PROVE IInv'
  OBVIOUS
<1> USE DEF Gate, Exit, Go
<1>1. printed.complete
  BY DEF IInv, RunInv, OutcomeInv
<1>2. /\ scope = AskedScope(flags) /\ inv = Shown(flags) /\ scores = ScoresOf(flags)
      /\ hidden = Hidden(flags) /\ findings = Found(flags)
  BY <1>1 DEF IInv, RunInv, InventoryInv, Reached
<1>3. /\ report = IF flags.json THEN ReportNow ELSE Limited(ReportNow, flags.top)
      /\ printed = PrintedFrom(report)
  BY <1>1 DEF IInv, RunInv, ReportInv
<1>4. exit' = Verdict(flags)
  <2>1. Crossed(flags, report) <=> Crossed(flags, [maxRisk |-> Riskiest(flags), findings |-> Found(flags)])
    BY <1>2, <1>3, BuiltReport DEF IInv, TypeOK
  <2> QED
    BY <2>1 DEF Verdict
<1>5. exit' \in {0, 2}
  OBVIOUS
<1>6. OutcomeInv'
  BY <1>1, <1>5 DEF OutcomeInv, Running
<1>7. ReportInv'
  <2>1. ReportNow' = ReportNow
    BY SameReport
  <2>2. PrintedFrom(report)' = PrintedFrom(report)
    BY <2>1 DEF PrintedFrom
  <2> QED
    BY <1>1, <1>3, <1>4, <2>1, <2>2, SameQuestion DEF ReportInv
<1>8. PreviousInv'
  BY SameVerdict DEF IInv, RunInv
<1>9. TypeOK'
  BY <1>5 DEF IInv, TypeOK
<1>10. InventoryInv'
  BY <1>1, <1>2, SameQuestion
    DEF InventoryInv, Reached, FromCollect, ToHide, FromHide, FromDetect, FromBuild
<1> QED
  BY <1>6, <1>7, <1>8, <1>9, <1>10 DEF IInv, RunInv

\* What is printed is the beginning of the rows that were built, and the count of
\* the others.
LEMMA PrintedRows ==
  ASSUME IInv, printed.complete
  PROVE  \E n \in Nat :
           /\ DOMAIN report.rows = 1 .. n /\ DOMAIN printed.rows = 1 .. n /\ Len(printed.rows) = n
           /\ n <= Len(Built) /\ printed.cut = Len(Built) - n
           /\ n = 0 => Len(Built) = 0
           /\ \A i \in 1 .. n : report.rows[i] = Built[i] /\ printed.rows[i] = TableRow(Built[i])
<1>1. /\ scope = AskedScope(flags) /\ inv = Shown(flags) /\ scores = ScoresOf(flags)
      /\ hidden = Hidden(flags) /\ findings = Found(flags)
  BY DEF IInv, RunInv, InventoryInv, Reached
<1>2. /\ report = IF flags.json THEN ReportNow ELSE Limited(ReportNow, flags.top)
      /\ printed = PrintedFrom(report)
  BY DEF IInv, RunInv, ReportInv
<1>3. /\ ReportNow.rows = Built /\ Len(Built) \in Nat
      /\ Built \in Seq(RowsOf(inv.workloads))
  BY <1>1, BuiltRows DEF IInv, TypeOK
<1>4. flags.top \in Int
  BY DEF IInv, TypeOK, Flags
<1> DEFINE short == ~flags.json /\ flags.top \in 1 .. Len(Built) - 1
           n == IF short THEN flags.top ELSE Len(Built)
<1>5. report.rows = IF short THEN SubSeq(Built, 1, flags.top) ELSE Built
  <2>1. "rows" \in DOMAIN ReportNow
    BY DEF ReportNow
  <2>2. Limited(ReportNow, flags.top).rows
        = IF flags.top \in 1 .. Len(Built) - 1 THEN SubSeq(Built, 1, flags.top) ELSE Built
    BY <1>3, <2>1 DEF Limited
  <2> QED
    BY <1>2, <1>3, <2>2
<1>6. n \in Nat /\ n <= Len(Built) /\ (n = 0 => Len(Built) = 0)
  BY <1>3, <1>4
<1>7. DOMAIN report.rows = 1 .. n /\ \A i \in 1 .. n : report.rows[i] = Built[i]
  BY <1>3, <1>4, <1>5
<1>8. printed.rows = [i \in 1 .. n |-> TableRow(report.rows[i])]
  BY <1>2, <1>7 DEF PrintedFrom
<1>9. DOMAIN printed.rows = 1 .. n /\ Len(printed.rows) = n
      /\ \A i \in 1 .. n : printed.rows[i] = TableRow(Built[i])
  <2> HIDE DEF n
  <2> QED
    BY <1>6, <1>7, <1>8
<1>10. printed.cut = Len(Built) - n
  <2>1. printed.cut = IF flags.json THEN 0 ELSE Cut(ReportNow, flags.top)
    BY <1>2 DEF PrintedFrom
  <2> QED
    BY <1>3, <1>4, <2>1 DEF Cut
<1> HIDE DEF n
<1> QED
  BY <1>6, <1>7, <1>9, <1>10

\* A built row is about a workload that is shown, and has its score.
LEMMA RowOfBuilt ==
  ASSUME IInv, printed.complete, NEW i \in 1 .. Len(Built)
  PROVE  /\ Built[i].ref \in inv.workloads /\ Built[i] = RowOf(Built[i].ref)
         /\ Built[i].score = scores[Built[i].ref]
         /\ scores[Built[i].ref] = ScoreOf(Built[i].ref)
         /\ Built[i].ref \in Refs
<1>1. inv = Shown(flags) /\ scores = ScoresOf(flags)
  BY DEF IInv, RunInv, InventoryInv, Reached
<1>2. Built \in Seq(RowsOf(inv.workloads))
  BY <1>1, BuiltRows DEF IInv, TypeOK
<1>3. PICK r \in inv.workloads : Built[i] = RowOf(r)
  BY <1>2 DEF RowsOf
<1>4. Built[i].ref = r /\ Built[i].score = scores[r]
  BY <1>3 DEF RowOf
<1>5. scores[r] = ScoreOf(r) /\ r \in Refs
  BY <1>1, KnownScores, ShownType
<1> QED
  BY <1>3, <1>4, <1>5

\* Every row printed has the score of its workload.
LEMMA PrintedScores ==
  ASSUME IInv, printed.complete, NEW row \in Rows(printed.rows)
  PROVE  row.ref \in Refs /\ row.ref \in inv.workloads /\ row.score = ScoreOf(row.ref)
<1>1. PICK n \in Nat :
        /\ DOMAIN printed.rows = 1 .. n /\ n <= Len(Built)
        /\ \A i \in 1 .. n : printed.rows[i] = TableRow(Built[i])
  BY PrintedRows
<1>2. Len(Built) \in Nat
  <2>1. inv = Shown(flags) /\ scores = ScoresOf(flags)
    BY DEF IInv, RunInv, InventoryInv, Reached
  <2> QED
    BY <2>1, BuiltRows DEF IInv, TypeOK
<1>3. PICK i \in 1 .. n : row = TableRow(Built[i])
  BY <1>1 DEF Rows
<1>4. i \in 1 .. Len(Built)
  BY <1>1, <1>2
<1>5. row.ref = Built[i].ref /\ row.score = Built[i].score
  BY <1>3 DEF TableRow
<1> QED
  BY <1>4, <1>5, RowOfBuilt

LEMMA RerunStep == ASSUME NEW f \in FlagSets PROVE IInv /\ Rerun(f) => IInv'
<1> SUFFICES ASSUME IInv, Rerun(f) PROVE IInv'
  OBVIOUS
<1> USE DEF Rerun
<1>1. OutcomeInv'
  BY DEF OutcomeInv, NoOutput
<1>2. InventoryInv'
  BY DEF InventoryInv, Reached, NoOutput, FromCollect, ToHide, FromHide, FromDetect, FromBuild
<1>3. ReportInv'
  BY DEF ReportInv, NoOutput
<1>4. PreviousInv'
  <2>1. prev' = [flags |-> flags, exit |-> exit, report |-> report, rows |-> printed.rows]
    OBVIOUS
  <2>2. /\ flags \in Flags /\ exit = Verdict(flags) /\ report.counts = Tallies(Found(flags))
    <3>1. inv = Shown(flags) /\ scores = ScoresOf(flags) /\ findings = Found(flags)
      BY DEF IInv, RunInv, InventoryInv, Reached
    <3>2. report.counts = Tallies(Found(flags))
      BY <3>1, BuiltReport DEF IInv, TypeOK, RunInv, ReportInv
    <3> QED
      BY <3>2 DEF IInv, TypeOK, RunInv, ReportInv
  <2>3. \A row \in Rows(printed.rows) : row.ref \in Refs /\ row.score = ScoreOf(row.ref)
    BY PrintedScores
  <2>4. prev'.flags = flags /\ prev'.exit = exit /\ prev'.report.counts = report.counts
        /\ prev'.rows = printed.rows
    BY <2>1
  <2>5. Verdict(flags) = Verdict(prev.flags)' /\ Found(flags) = Found(prev.flags)'
    BY <2>4, Steady
  <2>6. prev'.flags \in Flags /\ prev'.exit = Verdict(prev.flags)'
        /\ prev'.report.counts = Tallies(Found(prev.flags)')
    BY <2>2, <2>4, <2>5
  <2>7. \A row \in Rows(prev.rows)' : row.ref \in Refs /\ row.score = ScoreOf(row.ref)'
    BY <2>3, <2>4, Steady DEF Rows
  <2> QED
    BY <2>6, <2>7 DEF PreviousInv
<1>5. TypeOK'
  BY RunScanAssumption
    DEF IInv, TypeOK, NoInventory, Nothing, NoReport, NoOutput, Running, NoNamespace
<1> QED
  BY <1>1, <1>2, <1>3, <1>4, <1>5 DEF IInv, RunInv
\* At every stage of every run, what is known is what the flags and the cluster
\* make of it: runScan keeps nothing from the run before.
THEOREM StagesAgree == Spec => []IInv
<1>1. Init => IInv
  BY StartsWell
<1>2. IInv /\ [Next]_vars => IInv'
  <2> SUFFICES ASSUME IInv, [Next]_vars PROVE IInv'
    OBVIOUS
  <2>1. CASE Validate
    BY <2>1, ValidateStep
  <2>2. CASE Connect
    BY <2>2, ConnectStep
  <2>3. CASE ResolveNamespace
    BY <2>3, ResolveStep
  <2>4. CASE CollectInventory
    BY <2>4, CollectStep
  <2>5. CASE Score
    BY <2>5, ScoreStep
  <2>6. CASE HideSystem
    BY <2>6, HideStep
  <2>7. CASE Detect
    BY <2>7, DetectStep
  <2>8. CASE Build
    BY <2>8, BuildStep
  <2>9. CASE Render
    BY <2>9, RenderStep
  <2>10. CASE Gate
    BY <2>10, GateStep
  <2>11. CASE \E f \in FlagSets : Rerun(f)
    BY <2>11, RerunStep
  <2>12. CASE UNCHANGED vars
    <3> USE <2>12 DEF vars, IInv, RunInv
    <3>1. TypeOK'
      BY DEF TypeOK
    <3>2. OutcomeInv'
      BY DEF OutcomeInv
    <3>3. InventoryInv'
      BY SameInventory
    <3>4. ReportInv'
      <4>1. ReportNow' = ReportNow /\ Verdict(flags)' = Verdict(flags)
        BY SameReport, SameQuestion
      <4>2. PrintedFrom(report)' = PrintedFrom(report)
        BY <4>1 DEF PrintedFrom
      <4> QED
        BY <4>1, <4>2 DEF ReportInv
    <3>5. PreviousInv'
      BY SameVerdict
    <3> QED
      BY <3>1, <3>2, <3>3, <3>4, <3>5
  <2> QED
    BY <2>1, <2>2, <2>3, <2>4, <2>5, <2>6, <2>7, <2>8, <2>9, <2>10, <2>11, <2>12 DEF Next
<1> QED
  BY <1>1, <1>2, PTL DEF Spec

\* Every reachable state is well typed; in particular --top never cuts a negative
\* number of rows.
THEOREM TypeCorrect == Spec => []TypeOK
BY StagesAgree, PTL DEF IInv

-----------------------------------------------------------------------------
(* The properties.                                                          *)

\* What a complete run knows.
LEMMA WhenPrinted ==
  ASSUME IInv, printed.complete
  PROVE  /\ cluster \in Clusters /\ flags \in Flags
         /\ scope = AskedScope(flags) /\ inv = Shown(flags) /\ scores = ScoresOf(flags)
         /\ hidden = Hidden(flags) /\ findings = Found(flags)
         /\ report \in {ReportNow, Limited(ReportNow, flags.top)}
         /\ printed = PrintedFrom(report)
         /\ pc = "exited" => exit = Verdict(flags)
BY DEF IInv, TypeOK, RunInv, InventoryInv, Reached, ReportInv

\* A workload has one score, whatever is asked of one cluster: scoring precedes
\* everything that narrows the report.
THEOREM ScoreIsOfTheNode == Spec => []OneScorePerWorkload
<1>1. IInv => OneScorePerWorkload
  <2> SUFFICES ASSUME IInv, printed.complete,
                      NEW a \in Rows(printed.rows), NEW b \in Rows(prev.rows), a.ref = b.ref
               PROVE  a.score = b.score
    BY DEF OneScorePerWorkload
  <2>1. a.score = ScoreOf(a.ref)
    BY PrintedScores
  <2>2. b.score = ScoreOf(b.ref)
    BY DEF IInv, RunInv, PreviousInv
  <2> QED
    BY <2>1, <2>2
<1> QED
  BY <1>1, StagesAgree, PTL

\* Worst finds the severest of a list that has one, and what it is compared with
\* is crossed exactly when a finding crosses it.
LEMMA WorstDecides ==
  ASSUME NEW s, NEW n \in Nat, DOMAIN s = 1 .. n, n > 0,
         \A i \in 1 .. n : s[i].severity \in Severities, NEW floor
  PROVE  AtLeast(Worst(s), floor) <=> \E i \in 1 .. n : Rank(s[i].severity) >= Rank(floor)
<1> DEFINE S == {s[i].severity : i \in DOMAIN s}
<1>1. \A x \in Severities : Rank(x) \in 1 .. 3
  BY DEF Severities, Rank
<1>2. Rank(floor) \in 0 .. 3
  BY DEF Rank
<1>3. S \subseteq Severities /\ S # {}
  OBVIOUS
<1>4. \E x \in S : \A y \in S : Rank(y) <= Rank(x)
  <2>1. CASE "critical" \in S
    <3>1. \A y \in S : Rank(y) <= Rank("critical")
      BY <1>3 DEF Severities, Rank
    <3> QED
      BY <2>1, <3>1
  <2>2. CASE "critical" \notin S /\ "warn" \in S
    <3>1. \A y \in S : Rank(y) <= Rank("warn")
      BY <1>3, <2>2 DEF Severities, Rank
    <3> QED
      BY <2>2, <3>1
  <2>3. CASE "critical" \notin S /\ "warn" \notin S
    <3>1. \A y \in S : y = "info"
      BY <1>3, <2>3 DEF Severities
    <3> QED
      BY <1>3, <3>1 DEF Rank
  <2> QED
    BY <2>1, <2>2, <2>3
<1>5. \E x \in S : \A i \in DOMAIN s : Rank(s[i].severity) <= Rank(x)
  BY <1>4
<1>6. Worst(s) \in S /\ \A i \in DOMAIN s : Rank(s[i].severity) <= Rank(Worst(s))
  BY <1>5 DEF Worst
<1>7. PICK k \in 1 .. n : Worst(s) = s[k].severity
  BY <1>6
<1> HIDE DEF S
<1>8. \A i \in 1 .. n : Rank(s[i].severity) \in Int
  BY <1>1
<1> QED
  BY <1>2, <1>6, <1>7, <1>8 DEF AtLeast
\* The two gates, as gate computes them, and as the documentation states them.
Crosses ==
  \/ /\ flags.riskThreshold > 0
     /\ \E r \in inv.workloads : scores[r].risk > flags.riskThreshold
  \/ \E i \in DOMAIN findings :
       flags.failOn # "none" /\ Rank(findings[i].severity) >= Rank(flags.failOn)

LEMMA VerdictIsExact ==
  ASSUME IInv, printed.complete
  PROVE  Verdict(flags) = IF Crosses THEN 2 ELSE 0
<1>1. /\ cluster \in Clusters /\ flags \in Flags
      /\ inv = Shown(flags) /\ scores = ScoresOf(flags) /\ findings = Found(flags)
  BY WhenPrinted
<1>2. flags.riskThreshold \in Nat
  BY <1>1 DEF Flags
<1>3. Riskiest(flags) > flags.riskThreshold
        <=> \E r \in inv.workloads : scores[r].risk > flags.riskThreshold
  <2>1. \A r \in inv.workloads : scores[r] = ScoreOf(r)
    BY <1>1, KnownScores
  <2>2. /\ Riskiest(flags) \in Nat
        /\ \A r \in inv.workloads : ScoreOf(r).risk \in Nat /\ ScoreOf(r).risk <= Riskiest(flags)
        /\ Riskiest(flags) > 0 => \E r \in inv.workloads : ScoreOf(r).risk = Riskiest(flags)
    BY <1>1, RiskiestType
  <2> QED
    BY <1>2, <2>1, <2>2
<1> DEFINE n == Cardinality(Detected(flags))
<1>4. /\ n \in Nat /\ DOMAIN findings = 1 .. n /\ Len(findings) = n
      /\ \A i \in 1 .. n : findings[i].severity \in Severities
  <2>1. /\ n \in Nat /\ DOMAIN findings = 1 .. n /\ Len(findings) = n
        /\ \A i \in 1 .. n : WellFormed(findings[i])
    BY <1>1, FoundType
  <2> QED
    BY <2>1 DEF WellFormed, AnyFinding
<1> HIDE DEF n
<1>5. findings # <<>> <=> n > 0
  <2>1. n = 0 => findings = <<>>
    <3>1. findings \in [1 .. n -> Detected(flags)]
      BY <1>1, FoundType DEF Lists, n
    <3> QED
      BY <3>1
  <2>2. findings = <<>> => n = 0
    BY <1>4
  <2> QED
    BY <1>4, <2>1, <2>2
<1>6. findings # <<>> /\ AtLeast(Worst(findings), flags.failOn)
        <=> \E i \in DOMAIN findings : Rank(findings[i].severity) >= Rank(flags.failOn)
  <2>1. CASE n > 0
    BY <1>4, <1>5, <2>1, WorstDecides
  <2>2. CASE n = 0
    BY <1>4, <1>5, <2>2
  <2> QED
    BY <1>4, <2>1, <2>2
<1>7. Crossed(flags, [maxRisk |-> Riskiest(flags), findings |-> Found(flags)])
        <=> \/ flags.riskThreshold > 0 /\ Riskiest(flags) > flags.riskThreshold
            \/ flags.failOn # "none" /\ findings # <<>> /\ AtLeast(Worst(findings), flags.failOn)
  BY <1>1 DEF Crossed
<1>8. Crossed(flags, [maxRisk |-> Riskiest(flags), findings |-> Found(flags)]) <=> Crosses
  BY <1>3, <1>6, <1>7 DEF Crosses
<1> QED
  BY <1>8 DEF Verdict

\* A verdict is given on a report printed in full, and it is right about what the
\* report contains, whatever --top cut from the rows the gate goes on to read.
THEOREM VerdictIsHonest == Spec => []GateIsHonest
<1>1. IInv => GateIsHonest
  <2> SUFFICES ASSUME IInv, pc = "exited"
               PROVE  /\ exit \in {0, 2} <=> printed.complete
                      /\ exit = 2 => Crosses
                      /\ exit = 0 => ~Crosses
    BY DEF GateIsHonest, Crosses
  <2>1. exit \in {0, 2} <=> printed.complete
    BY DEF IInv, RunInv, OutcomeInv
  <2>2. printed.complete => exit = IF Crosses THEN 2 ELSE 0
    BY WhenPrinted, VerdictIsExact
  <2> QED
    BY <2>1, <2>2
<1> QED
  BY <1>1, StagesAgree, PTL

\* The verdict and the counts of a run are functions of what was asked of the
\* cluster: neither --output nor --top is.
THEOREM PresentationIsFree == Spec => []PresentationDoesNotGate
<1>1. IInv => PresentationDoesNotGate
  <2> SUFFICES ASSUME IInv, pc = "exited", exit # 1, prev # NoRun,
                      flags = [prev.flags EXCEPT !.json = flags.json, !.top = flags.top]
               PROVE  exit = prev.exit /\ report.counts = prev.report.counts
    BY DEF PresentationDoesNotGate
  <2>1. printed.complete
    BY DEF IInv, TypeOK, RunInv, OutcomeInv, Running
  <2>2. exit = Verdict(flags) /\ report.counts = Tallies(Found(flags))
    BY <2>1, WhenPrinted, BuiltReport
  <2> DEFINE g == prev.flags
  <2>3. g \in Flags /\ prev.exit = Verdict(g) /\ prev.report.counts = Tallies(Found(g))
    BY DEF IInv, RunInv, PreviousInv
  <2>4. /\ flags.allNS = g.allNS /\ flags.namespace = g.namespace
        /\ flags.includeSystem = g.includeSystem
        /\ flags.riskThreshold = g.riskThreshold /\ flags.failOn = g.failOn
    <3> HIDE DEF g
    <3>1. flags = [g EXCEPT !.json = flags.json, !.top = flags.top]
      BY DEF g
    <3> QED
      BY <2>3, <3>1 DEF Flags
  <2> HIDE DEF g
  <2>5. AskedScope(flags) = AskedScope(g)
    BY <2>4 DEF AskedScope
  <2>6. LookedAt(flags) = LookedAt(g)
    BY <2>5 DEF LookedAt, InAsked
  <2>7. Shown(flags) = Shown(g)
    BY <2>4, <2>5, <2>6 DEF Shown, KeepsSystem, SystemIn, ProviderIn
  <2>8. Found(flags) = Found(g) /\ Riskiest(flags) = Riskiest(g)
    BY <2>7 DEF Found, Detected, Riskiest
  <2>9. Verdict(flags) = Verdict(g)
    BY <2>4, <2>8 DEF Verdict, Crossed
  <2> QED
    BY <2>2, <2>3, <2>8, <2>9
<1> QED
  BY <1>1, StagesAgree, PTL
\* What was looked at is what is shown and what is hidden.
LEMMA ShownAndHidden ==
  ASSUME NEW f
  PROVE  /\ Cardinality(Shown(f).workloads) \in Nat /\ Hidden(f).workloads \in Nat
         /\ Cardinality(LookedAt(f).workloads) \in Nat
         /\ Cardinality(Shown(f).workloads) + Hidden(f).workloads
              = Cardinality(LookedAt(f).workloads)
<1> DEFINE L == LookedAt(f).workloads
           Y == SystemIn(f)
<1>1. IsFiniteSet(L) /\ IsFiniteSet(Shown(f).workloads)
  BY ShownType
<1>2. Y \in SUBSET L
  BY DEF SystemIn
<1>3. IsFiniteSet(Y) /\ Cardinality(Y) \in Nat /\ Cardinality(L) \in Nat
      /\ Cardinality(Shown(f).workloads) \in Nat
  <2> HIDE DEF L, Y
  <2> QED
    BY <1>1, <1>2, FS_Subset, FS_CardinalityType
<1>4. Cardinality(L \ Y) = Cardinality(L) - Cardinality(Y)
  <2>1. L \cap Y = Y
    BY <1>2
  <2> HIDE DEF L, Y
  <2>2. Cardinality(L \ Y) = Cardinality(L) - Cardinality(L \cap Y)
    BY <1>1, <1>3, FS_Difference
  <2> QED
    BY <2>1, <2>2
<1>5. CASE KeepsSystem(f)
  <2>1. Shown(f).workloads = L /\ Hidden(f).workloads = 0
    BY <1>5 DEF Shown, Hidden, Nothing
  <2> HIDE DEF L
  <2> QED
    BY <1>3, <2>1 DEF L
<1>6. CASE ~KeepsSystem(f)
  <2>1. Shown(f).workloads = L \ Y /\ Hidden(f).workloads = Cardinality(Y)
    BY <1>6 DEF Shown, Hidden
  <2> HIDE DEF L, Y
  <2> QED
    BY <1>3, <1>4, <2>1 DEF L, Y
<1> QED
  BY <1>5, <1>6

\* Every workload of the scope is on a row, cut and counted, or hidden and counted.
THEOREM NothingIsLost == Spec => []NothingVanishes
<1>1. IInv => NothingVanishes
  <2> SUFFICES ASSUME IInv, printed.complete
               PROVE  Len(printed.rows) + printed.cut + report.hidden.workloads
                        = Cardinality({r \in Refs : InScope(r.ns)})
    BY DEF NothingVanishes
  <2>1. /\ cluster \in Clusters /\ scope = AskedScope(flags) /\ inv = Shown(flags)
        /\ scores = ScoresOf(flags) /\ hidden = Hidden(flags)
    BY WhenPrinted
  <2>2. {r \in Refs : InScope(r.ns)} = LookedAt(flags).workloads
    BY <2>1 DEF InScope, LookedAt, InAsked
  <2>3. report.hidden = Hidden(flags)
    BY <2>1, WhenPrinted, BuiltReport
  <2>4. Len(Built) = Cardinality(Shown(flags).workloads)
    BY <2>1, BuiltRows
  <2>5. Len(printed.rows) \in Nat /\ printed.cut = Len(Built) - Len(printed.rows)
    BY PrintedRows
  <2>6. /\ Cardinality(Shown(flags).workloads) \in Nat /\ Hidden(flags).workloads \in Nat
        /\ Cardinality(Shown(flags).workloads) + Hidden(flags).workloads
             = Cardinality(LookedAt(flags).workloads)
    BY ShownAndHidden
  <2>7. report.hidden.workloads = Hidden(flags).workloads
    BY <2>3
  <2>8. Cardinality({r \in Refs : InScope(r.ns)}) = Cardinality(LookedAt(flags).workloads)
    BY <2>2
  <2>9. Len(printed.rows) + printed.cut = Cardinality(Shown(flags).workloads)
    BY <2>4, <2>5, <2>6
  <2>10. Len(printed.rows) + printed.cut + report.hidden.workloads
         = Cardinality(Shown(flags).workloads) + Hidden(flags).workloads
    BY <2>7, <2>9
  <2> QED
    BY <2>6, <2>8, <2>10
<1> QED
  BY <1>1, StagesAgree, PTL

\* A workload that was scored has the risk it has.
LEMMA ScoredIsTrue ==
  ASSUME NEW r \in Refs, ScoreOf(r).scored
  PROVE  ScoreOf(r).risk = TrueRisk(r)
<1> DEFINE n == CandidateNode(r, Listed)
<1>1. n # Nowhere /\ cluster.alloc[n] > 0
      /\ ScoreOf(r).risk = Ceiling(r, n) * Cardinality(Tenants(n) \ {r})
  BY DEF ScoreOf, ScoreAmong
<1>2. CASE ~cluster.nodesReadable
  <2>1. n = Nowhere
    BY <1>2 DEF Listed, CandidateNode
  <2> QED
    BY <1>1, <2>1
<1>3. CASE cluster.nodesReadable
  <2>1. Listed = Nodes
    BY <1>3 DEF Listed
  <2>2. n = CandidateNode(r, Nodes) /\ (Nodes = {} => n = Nowhere)
    BY <2>1 DEF CandidateNode
  <2> HIDE DEF n
  <2> QED
    BY <1>1, <2>2 DEF TrueRisk
<1> QED
  BY <1>2, <1>3

\* A run that passes its threshold while the cluster does not, hid what crosses
\* it or could not score it, and the report it passes on has both counts.
THEOREM NoSilentPass == Spec => []VacuousPassIsVisible
<1>1. IInv => VacuousPassIsVisible
  <2> DEFINE S == {r \in Refs : InScope(r.ns)}
             Y == S \ inv.workloads
             U == {r \in inv.workloads : ~scores[r].scored}
  <2> SUFFICES ASSUME IInv, exit = 0, flags.riskThreshold > 0
               PROVE  /\ report.hidden.workloads = Cardinality(Y)
                      /\ report.unscored = Cardinality(U)
                      /\ \A r \in S : TrueRisk(r) > flags.riskThreshold => r \in Y \cup U
    BY DEF VacuousPassIsVisible
  <2>1. pc = "exited" /\ printed.complete
    BY DEF IInv, RunInv, OutcomeInv, Running
  <2>2. /\ cluster \in Clusters /\ scope = AskedScope(flags) /\ inv = Shown(flags)
        /\ scores = ScoresOf(flags) /\ hidden = Hidden(flags) /\ findings = Found(flags)
        /\ flags \in Flags
    BY <2>1, WhenPrinted
  <2>3. \A r \in inv.workloads : ~(scores[r].risk > flags.riskThreshold)
    <3>1. ~Crosses
      BY <2>1, WhenPrinted, VerdictIsExact
    <3> QED
      BY <3>1 DEF Crosses
  <2>4. \A r \in S : TrueRisk(r) > flags.riskThreshold => r \in Y \cup U
    <3> SUFFICES ASSUME NEW r \in S, r \in inv.workloads, TrueRisk(r) > flags.riskThreshold
                 PROVE  ~scores[r].scored
      OBVIOUS
    <3>1. scores[r] = ScoreOf(r) /\ r \in Refs
      BY <2>2, KnownScores
    <3> QED
      BY <2>3, <3>1, ScoredIsTrue
  <2>5. report.hidden = Hidden(flags) /\ report.unscored = Cardinality(U)
    BY <2>1, <2>2, WhenPrinted, BuiltReport
  <2>6. Cardinality(Y) = Hidden(flags).workloads
    <3> DEFINE W == inv.workloads
    <3>1. S = LookedAt(flags).workloads
      BY <2>2 DEF InScope, LookedAt, InAsked
    <3>2. IsFiniteSet(S) /\ IsFiniteSet(W) /\ W \in SUBSET S
      BY <2>2, <3>1, ShownType
    <3>3. S \cap W = W
      BY <3>2
    <3>4. Cardinality(W) + Hidden(flags).workloads = Cardinality(S)
          /\ Cardinality(W) \in Nat /\ Cardinality(S) \in Nat /\ Hidden(flags).workloads \in Nat
      BY <2>2, <3>1, ShownAndHidden
    <3> HIDE DEF S, W
    <3>5. Cardinality(S \ W) = Cardinality(S) - Cardinality(W)
      BY <3>2, <3>3, FS_Difference
    <3> QED
      BY <3>4, <3>5 DEF W
  <2> QED
    BY <2>4, <2>5, <2>6
<1> QED
  BY <1>1, StagesAgree, PTL

\* The rows go from the riskiest down, and every workload has one.
LEMMA RowsGoDown ==
  ASSUME IInv, printed.complete
  PROVE  /\ Len(Built) \in Nat
         /\ \A i \in 1 .. Len(Built) : Built[i].score.risk \in Nat
         /\ \A i, j \in 1 .. Len(Built) : i < j => Built[j].score.risk <= Built[i].score.risk
         /\ \A i, j \in 1 .. Len(Built) : Built[i].ref = Built[j].ref => i = j
         /\ \A r \in inv.workloads : \E i \in 1 .. Len(Built) : Built[i].ref = r
<1> DEFINE T == RowsOf(inv.workloads)
           K == RowKeys(T)
           n == Len(Built)
<1>1. cluster \in Clusters /\ inv = Shown(flags) /\ scores = ScoresOf(flags)
  BY WhenPrinted
<1>2. Lists(Built, K, T) /\ n \in Nat /\ n = Cardinality(T)
  BY <1>1, BuiltRows
<1>3. \A i \in 1 .. n : Built[i] \in T
  BY <1>2 DEF Lists
<1>4. \A i \in 1 .. n : Built[i].score.risk \in Nat
  BY <1>1, RowOfBuilt, RiskiestType
<1>5. ASSUME NEW i \in 1 .. n, NEW j \in 1 .. n, i < j
      PROVE  Built[j].score.risk <= Built[i].score.risk
  <2>1. Before(K[Built[i]], K[Built[j]])
    <3> HIDE DEF K, T
    <3> QED
      BY <1>2, <1>5 DEF Lists
  <2>2. Before(RowKey(Built[i]), RowKey(Built[j]))
    BY <1>3, <2>1 DEF RowKeys
  <2> DEFINE p == Built[i].score.risk
             q == Built[j].score.risk
  <2>3. p \in Nat /\ q \in Nat
    BY <1>4
  <2> DEFINE a == RowKey(Built[i])
             b == RowKey(Built[j])
  <2>4. DOMAIN a = 1 .. 4 /\ a[1] = -p /\ b[1] = -q
    BY DEF RowKey
  <2> HIDE DEF a, b, p, q
  <2>5. PICK k \in 1 .. 4 : a[k] < b[k] /\ \A m \in 1 .. k - 1 : a[m] = b[m]
    BY <2>2, <2>4 DEF Before, a, b
  <2>6. CASE k = 1
    BY <2>3, <2>4, <2>5, <2>6 DEF p, q
  <2>7. CASE k > 1
    <3>1. -p = -q
      BY <2>4, <2>5, <2>7
    <3> QED
      BY <2>3, <3>1 DEF p, q
  <2> QED
    BY <2>6, <2>7
<1>6. ASSUME NEW i \in 1 .. n, NEW j \in 1 .. n, Built[i].ref = Built[j].ref
      PROVE  i = j
  <2>1. Built[i] = Built[j]
    BY <1>6, RowOfBuilt
  <2> HIDE DEF K, T
  <2> QED
    BY <1>2, <2>1 DEF Lists
<1>7. ASSUME NEW r \in inv.workloads
      PROVE  \E i \in 1 .. n : Built[i].ref = r
  <2>1. RowOf(r) \in T
    BY DEF RowsOf
  <2>3. RowOf(r).ref = r
    BY DEF RowOf
  <2> HIDE DEF K, T
  <2>2. PICK i \in 1 .. n : Built[i] = RowOf(r)
    BY <1>2, <2>1 DEF Lists
  <2> QED
    BY <2>2, <2>3
<1> QED
  BY <1>2, <1>4, <1>5, <1>6, <1>7

\* Among workloads that tie, one comes first in the order of the inventory.
LEMMA SomebodyIsFirst ==
  ASSUME NEW S \in SUBSET Refs, S # {}
  PROVE  \E r \in S :
           \A q \in S \ {r} : Before(<<r.ns, r.kind, r.name>>, <<q.ns, q.kind, q.name>>)
<1> DEFINE K == [r \in S |-> <<r.ns, r.kind, r.name>>]
<1>1. IsFiniteSet(S) /\ \A r \in S : r \in [ns : Namespaces, kind : Nat, name : Nat]
  BY RunScanAssumption, FS_Subset
<1>2. \A r \in S : r.ns \in Nat /\ r.kind \in Nat /\ r.name \in Nat
  <2>1. Namespaces \subseteq Nat
    BY RunScanAssumption
  <2> QED
    BY <1>1, <2>1
<1>3. K \in [S -> [1 .. 3 -> Int]]
  BY <1>2
<1>4. \A r, q \in S : K[r] = K[q] => r = q
  BY <1>1
<1>5. \A r \in S : K[r] = <<r.ns, r.kind, r.name>>
  OBVIOUS
<1> HIDE DEF K
<1>6. TellsApart(K, S)
  BY <1>3, <1>4 DEF TellsApart
<1>7. Cardinality(S) \in Nat /\ Cardinality(S) > 0
  BY <1>1, FS_CardinalityType, FS_EmptySet
<1>8. 1 \in 1 .. Cardinality(S)
  BY <1>7
<1>9. PICK r \in S : Cardinality({y \in S : Before(K[y], K[r])}) = 1 - 1
  <2>1. IsFiniteSet(S)
    BY <1>1
  <2>2. \A i \in 1 .. Cardinality(S) :
          \E x \in S : Cardinality({y \in S : Before(K[y], K[x])}) = i - 1
    BY <1>6, <2>1, ListedInOrder
  <2> QED
    BY <1>8, <2>2
<1>10. {y \in S : Before(K[y], K[r])} = {}
  <2> DEFINE B == {y \in S : Before(K[y], K[r])}
  <2>1. B \in SUBSET S
    OBVIOUS
  <2>2. Cardinality(B) = 0
    BY <1>9
  <2> HIDE DEF B
  <2>3. B = {}
    BY <1>1, <2>1, <2>2, FS_Subset, FS_EmptySet
  <2> QED
    BY <2>3 DEF B
<1>11. ASSUME NEW q \in S \ {r}
       PROVE  Before(K[r], K[q])
  <2>1. K[r] # K[q] /\ ~Before(K[q], K[r])
    BY <1>4, <1>10
  <2>2. K[r] \in [1 .. 3 -> Int] /\ K[q] \in [1 .. 3 -> Int]
    BY <1>3
  <2>3. Before(K[r], K[q]) \/ Before(K[q], K[r])
    BY <2>1, <2>2, KeysAreOrdered
  <2> QED
    BY <2>1, <2>3
<1> QED
  BY <1>5, <1>11

\* --top cuts from the end of a list sorted by risk, and the headline is its head.
THEOREM TopIsRiskiest == Spec => []TopShowsTheRiskiest
<1>1. IInv => TopShowsTheRiskiest
  <2> DEFINE first == printed.rows[1].score.risk
  <2> SUFFICES ASSUME IInv, printed.complete, printed.rows # <<>>
               PROVE  /\ report.maxRisk = first
                      /\ IF first = 0 THEN printed.summary.riskiest = NoRef
                         ELSE /\ printed.summary.riskiest \in inv.workloads
                              /\ scores[printed.summary.riskiest].risk = first
                      /\ \A r \in inv.workloads, row \in Rows(printed.rows) :
                           r \notin {q.ref : q \in Rows(printed.rows)} => scores[r].risk <= row.score.risk
    BY DEF TopShowsTheRiskiest
  <2>1. /\ cluster \in Clusters /\ inv = Shown(flags) /\ scores = ScoresOf(flags)
        /\ findings = Found(flags) /\ report \in {ReportNow, Limited(ReportNow, flags.top)}
        /\ printed = PrintedFrom(report)
    BY WhenPrinted
  <2>2. /\ report.maxRisk = Riskiest(flags) /\ report.maxRiskRef = MaxRiskRef(inv.workloads)
        /\ MaxRisk(inv.workloads) = Riskiest(flags)
    BY <2>1, BuiltReport, MaxRiskIsRiskiest
  <2>3. /\ Riskiest(flags) \in Nat
        /\ \A r \in inv.workloads : ScoreOf(r).risk \in Nat /\ ScoreOf(r).risk <= Riskiest(flags)
        /\ Riskiest(flags) > 0 => \E r \in inv.workloads : ScoreOf(r).risk = Riskiest(flags)
    BY <2>1, RiskiestType
  <2>4. \A r \in inv.workloads : scores[r] = ScoreOf(r)
    BY <2>1, KnownScores
  <2>5. PICK n \in Nat :
          /\ DOMAIN printed.rows = 1 .. n /\ n <= Len(Built)
          /\ \A i \in 1 .. n : printed.rows[i] = TableRow(Built[i])
          /\ Len(printed.rows) = n
    BY PrintedRows
  <2>6. n > 0
    <3>1. CASE n = 0
      <4>1. printed.rows = [i \in DOMAIN report.rows |-> TableRow(report.rows[i])]
        BY <2>1 DEF PrintedFrom
      <4>2. printed.rows = <<>>
        BY <2>5, <3>1, <4>1
      <4> QED
        BY <4>2
    <3> QED
      BY <2>5, <3>1
  <2>7. /\ Len(Built) \in Nat
        /\ \A i \in 1 .. Len(Built) : Built[i].score.risk \in Nat
        /\ \A i, j \in 1 .. Len(Built) : i < j => Built[j].score.risk <= Built[i].score.risk
        /\ \A r \in inv.workloads : \E i \in 1 .. Len(Built) : Built[i].ref = r
    BY RowsGoDown
  <2>8. \A i \in 1 .. Len(Built) :
          Built[i].ref \in inv.workloads /\ Built[i].score.risk = scores[Built[i].ref].risk
    BY RowOfBuilt
  <2>9. first = Built[1].score.risk /\ 1 \in 1 .. Len(Built)
    <3>1. 1 \in 1 .. n /\ 1 \in 1 .. Len(Built)
      BY <2>5, <2>6, <2>7
    <3>2. printed.rows[1] = TableRow(Built[1])
      BY <2>5, <3>1
    <3> QED
      BY <3>1, <3>2 DEF TableRow
  <2>10. \A r \in inv.workloads : ScoreOf(r).risk <= first
    <3> SUFFICES ASSUME NEW r \in inv.workloads PROVE ScoreOf(r).risk <= first
      OBVIOUS
    <3>1. PICK i \in 1 .. Len(Built) : Built[i].ref = r
      BY <2>7
    <3>2. Built[i].score.risk = ScoreOf(r).risk
      BY <2>4, <2>8, <3>1
    <3>3. Built[i].score.risk <= Built[1].score.risk
      <4>1. i = 1 \/ 1 < i
        BY <2>7
      <4> QED
        BY <2>7, <2>9, <4>1
    <3> QED
      BY <2>9, <3>2, <3>3
  <2>11. first = Riskiest(flags)
    <3>1. first \in Nat /\ first <= Riskiest(flags)
      <4>1. first = ScoreOf(Built[1].ref).risk /\ Built[1].ref \in inv.workloads
        BY <2>4, <2>8, <2>9
      <4> HIDE DEF first
      <4> QED
        BY <2>3, <4>1
    <3>2. Riskiest(flags) > 0 => Riskiest(flags) <= first
      BY <2>3, <2>10
    <3> HIDE DEF first
    <3> QED
      BY <2>3, <3>1, <3>2
  <2>12. report.maxRisk = first
    BY <2>2, <2>11
  <2>13. printed.summary.riskiest = MaxRiskRef(inv.workloads)
    BY <2>1, <2>2 DEF PrintedFrom, Summary
  <2>14. ASSUME first = 0
         PROVE  printed.summary.riskiest = NoRef
    BY <2>2, <2>11, <2>13, <2>14 DEF MaxRiskRef
  <2>15. ASSUME first # 0
         PROVE  /\ printed.summary.riskiest \in inv.workloads
                /\ scores[printed.summary.riskiest].risk = first
    <3> DEFINE S == {r \in inv.workloads : scores[r].risk = MaxRisk(inv.workloads)}
    <3> HIDE DEF first
    <3>1. S \in SUBSET Refs
      BY <2>1, ShownType
    <3>2. S # {}
      BY <2>2, <2>3, <2>4, <2>11, <2>15
    <3>3. MaxRiskRef(inv.workloads) = CHOOSE r \in S :
            \A q \in S \ {r} : Before(<<r.ns, r.kind, r.name>>, <<q.ns, q.kind, q.name>>)
      BY <2>2, <2>11, <2>15 DEF MaxRiskRef
    <3>4. MaxRiskRef(inv.workloads) \in S
      <4> HIDE DEF S
      <4> QED
        BY <3>1, <3>2, <3>3, SomebodyIsFirst
    <3> QED
      BY <2>2, <2>11, <2>13, <3>4
  <2>16. ASSUME NEW r \in inv.workloads, NEW row \in Rows(printed.rows),
                r \notin {q.ref : q \in Rows(printed.rows)}
         PROVE  scores[r].risk <= row.score.risk
    <3> HIDE DEF first
    <3>1. PICK j \in 1 .. Len(Built) : Built[j].ref = r
      BY <2>7
    <3>2. PICK i \in 1 .. n : row = TableRow(Built[i])
      BY <2>5 DEF Rows
    <3>3. ~(j <= n)
      <4>1. SUFFICES ASSUME j <= n PROVE FALSE
        OBVIOUS
      <4>2. j \in 1 .. n
        BY <4>1, <2>5
      <4>3. printed.rows[j] \in Rows(printed.rows)
        BY <2>5, <4>2 DEF Rows
      <4>4. printed.rows[j].ref = r
        <5>1. printed.rows[j] = TableRow(Built[j])
          BY <2>5, <4>2
        <5> QED
          BY <3>1, <5>1 DEF TableRow
      <4> QED
        BY <2>16, <4>3, <4>4
    <3>4. i < j /\ i \in 1 .. Len(Built)
      BY <2>5, <2>7, <3>3
    <3>5. Built[j].score.risk <= Built[i].score.risk
      BY <2>7, <3>4
    <3> QED
      BY <2>8, <3>1, <3>2, <3>5 DEF TableRow
  <2> HIDE DEF first
  <2> QED
    BY <2>12, <2>14, <2>15, <2>16
<1> QED
  BY <1>1, StagesAgree, PTL
\* The findings of a complete run, by index: the contradictions are about
\* different workloads that are shown and endanger somebody.
LEMMA ListedFindings ==
  ASSUME IInv, printed.complete
  PROVE  \E n \in Nat :
           /\ DOMAIN findings = 1 .. n /\ Len(findings) = n
           /\ \A i \in 1 .. n : findings[i].severity \in Severities
           /\ \A i \in 1 .. n :
                findings[i].rule = 301 =>
                  findings[i].ref \in inv.workloads /\ ScoreOf(findings[i].ref).risk > 0
           /\ \A i, j \in 1 .. n :
                findings[i].rule = 301 /\ findings[j].rule = 301
                  /\ findings[i].ref = findings[j].ref => i = j
<1> DEFINE D == Detected(flags)
           n == Cardinality(D)
<1>1. cluster \in Clusters /\ inv = Shown(flags) /\ findings = Found(flags)
  BY WhenPrinted
<1>2. /\ Lists(findings, FindingKeys(D), D) /\ n \in Nat /\ DOMAIN findings = 1 .. n
      /\ Len(findings) = n /\ \A i \in 1 .. n : findings[i] \in D /\ WellFormed(findings[i])
  BY <1>1, FoundType
<1>3. \A x \in D : x.rule = 301 =>
        /\ x.ref \in inv.workloads /\ ScoreOf(x.ref).risk > 0
        /\ x = Finding(301, "critical", x.ref.ns, x.ref, ScoreOf(x.ref).risk)
  BY <1>1, DetectedType
<1> HIDE DEF n, D
<1>4. \A i \in 1 .. n : findings[i].severity \in Severities
  BY <1>2 DEF WellFormed, AnyFinding
<1>5. ASSUME NEW i \in 1 .. n, NEW j \in 1 .. n, findings[i].rule = 301, findings[j].rule = 301,
             findings[i].ref = findings[j].ref
      PROVE  i = j
  <2>1. findings[i] = findings[j]
    BY <1>2, <1>3, <1>5
  <2> QED
    BY <1>2, <2>1 DEF Lists, n
<1> QED
  BY <1>2, <1>3, <1>4, <1>5

\* The sections of the table add up to its summary.
LEMMA SectionsAddUp ==
  ASSUME IInv, printed.complete
  PROVE  /\ printed.tail + printed.contradictions = Len(findings)
         /\ printed.summary.findings = Len(findings)
         /\ printed.summary.contradictions = printed.contradictions
         /\ printed.contradictions = Cardinality({i \in DOMAIN findings : findings[i].rule = 301})
         /\ report.findings = findings
<1>1. /\ cluster \in Clusters /\ inv = Shown(flags) /\ scores = ScoresOf(flags)
      /\ findings = Found(flags) /\ report \in {ReportNow, Limited(ReportNow, flags.top)}
      /\ printed = PrintedFrom(report)
  BY WhenPrinted
<1>2. report.findings = findings /\ report.counts = Tallies(findings)
  BY <1>1, BuiltReport
<1>3. PICK n \in Nat : /\ DOMAIN findings = 1 .. n /\ Len(findings) = n
                       /\ \A i \in 1 .. n : findings[i].severity \in Severities
  BY ListedFindings
<1> DEFINE I == 1 .. n
           C == {i \in I : findings[i].rule = 301}
           R == {i \in I : findings[i].rule # 301}
           X == {i \in I : findings[i].severity = "critical"}
           W == {i \in I : findings[i].severity = "warn"}
           N == {i \in I : findings[i].severity = "info"}
<1>4. IsFiniteSet(I) /\ Cardinality(I) = n
  BY <1>3, FS_Interval
<1>5. Cardinality(C) + Cardinality(R) = n /\ Cardinality(C) \in Nat /\ Cardinality(R) \in Nat
  <2>1. C \in SUBSET I /\ R = I \ C
    OBVIOUS
  <2> HIDE DEF I, C, R
  <2> QED
    BY <1>4, <2>1, PartAndRest
<1>6. /\ Cardinality(X) + Cardinality(W) + Cardinality(N) = n
      /\ Cardinality(X) \in Nat /\ Cardinality(W) \in Nat /\ Cardinality(N) \in Nat
  <2>1. X \in SUBSET I /\ W \in SUBSET (I \ X)
    OBVIOUS
  <2>2. N = (I \ X) \ W
    BY <1>3 DEF Severities
  <2> HIDE DEF I, X, W, N
  <2>3. IsFiniteSet(I \ X)
    BY <1>4, FS_Difference
  <2>4. Cardinality(X) + Cardinality(I \ X) = n /\ Cardinality(X) \in Nat /\ Cardinality(I \ X) \in Nat
    BY <1>4, <2>1, PartAndRest
  <2>5. Cardinality(W) + Cardinality(N) = Cardinality(I \ X)
        /\ Cardinality(W) \in Nat /\ Cardinality(N) \in Nat
    BY <2>1, <2>2, <2>3, PartAndRest
  <2> QED
    BY <2>4, <2>5
<1>7. printed.contradictions = Cardinality(C) /\ printed.tail = Cardinality(R)
  BY <1>1, <1>2, <1>3 DEF PrintedFrom, Contradictions, Rest, Count
<1>8. /\ report.counts.critical = Cardinality(X) /\ report.counts.warn = Cardinality(W)
      /\ report.counts.info = Cardinality(N)
  BY <1>2, <1>3 DEF Tallies, Count
<1>9. /\ printed.summary.findings = report.counts.critical + report.counts.warn + report.counts.info
      /\ printed.summary.contradictions = Contradictions(report)
      /\ printed.contradictions = Contradictions(report)
  BY <1>1 DEF PrintedFrom, Summary
<1> HIDE DEF I, X, W, N, R
<1>10. printed.tail + printed.contradictions = Len(findings) /\ printed.summary.findings = Len(findings)
  BY <1>3, <1>5, <1>6, <1>7, <1>8, <1>9
<1>11. printed.contradictions = Cardinality({i \in DOMAIN findings : findings[i].rule = 301})
  BY <1>3, <1>7 DEF C, I
<1> QED
  BY <1>2, <1>9, <1>10, <1>11

\* The summary counts the workloads there are: those on a row and those cut.
LEMMA WorkloadsAddUp ==
  ASSUME IInv, printed.complete
  PROVE  /\ IsFiniteSet(inv.workloads) /\ Cardinality(inv.workloads) \in Nat
         /\ printed.summary.workloads = Cardinality(inv.workloads)
         /\ printed.summary.workloads = Len(printed.rows) + printed.cut
         /\ Len(printed.rows) \in Nat /\ printed.cut \in Nat
<1> DEFINE W == inv.workloads
           Y == {q \in W : scores[q].scored}
<1>1. /\ cluster \in Clusters /\ inv = Shown(flags) /\ scores = ScoresOf(flags)
      /\ findings = Found(flags) /\ report \in {ReportNow, Limited(ReportNow, flags.top)}
      /\ printed = PrintedFrom(report)
  BY WhenPrinted
<1>2. report.scored = Cardinality(Y) /\ report.unscored = Cardinality({q \in W : ~scores[q].scored})
  BY <1>1, BuiltReport
<1>3. printed.summary.workloads = report.scored + report.unscored
  BY <1>1 DEF PrintedFrom, Summary
<1>4. IsFiniteSet(W)
  BY <1>1, ShownType
<1>5. Y \in SUBSET W /\ {q \in W : ~scores[q].scored} = W \ Y
  OBVIOUS
<1>6. Len(Built) = Cardinality(W) /\ Cardinality(W) \in Nat
  BY <1>1, BuiltRows
<1>7. Len(printed.rows) \in Nat /\ printed.cut = Len(Built) - Len(printed.rows)
      /\ Len(printed.rows) <= Len(Built)
  BY PrintedRows
<1> HIDE DEF W, Y
<1>8. Cardinality(Y) + Cardinality(W \ Y) = Cardinality(W)
  BY <1>4, <1>5, PartAndRest
<1>9. printed.summary.workloads = Cardinality(W)
  BY <1>2, <1>3, <1>5, <1>8
<1>10. printed.cut \in Nat /\ Len(printed.rows) + printed.cut = Cardinality(W)
  BY <1>6, <1>7
<1> QED
  BY <1>4, <1>6, <1>7, <1>9, <1>10 DEF W

\* A row of the table, and the findings that are on its workload.
LEMMA RowsCountFindings ==
  ASSUME IInv, printed.complete, NEW row \in Rows(printed.rows)
  PROVE  /\ row.score.scored => row.findings = Count(findings, LAMBDA f : f.ref = row.ref)
         /\ row.contradiction <=> \E i \in DOMAIN findings :
                                     findings[i].ref = row.ref /\ findings[i].rule = 301
         /\ ~(row.contradiction /\ row.soleTenant)
<1>1. PICK n \in Nat :
        /\ DOMAIN printed.rows = 1 .. n /\ n <= Len(Built)
        /\ \A i \in 1 .. n : printed.rows[i] = TableRow(Built[i])
  BY PrintedRows
<1>2. Len(Built) \in Nat
  BY RowsGoDown
<1>3. PICK k \in 1 .. n : row = TableRow(Built[k])
  BY <1>1 DEF Rows
<1>4. k \in 1 .. Len(Built)
  BY <1>1, <1>2
<1> DEFINE r == Built[k].ref
           On == {i \in DOMAIN findings : findings[i].ref = r /\ findings[i].rule = 301}
<1>5. Built[k] = RowOf(r) /\ scores[r] = ScoreOf(r) /\ r \in Refs
  BY <1>4, RowOfBuilt
<1>6. PICK m \in Nat :
        /\ DOMAIN findings = 1 .. m
        /\ \A i \in 1 .. m : findings[i].rule = 301 => ScoreOf(findings[i].ref).risk > 0
  BY ListedFindings
<1> HIDE DEF r
<1>7. /\ row.ref = r /\ row.score = ScoreOf(r)
      /\ row.contradiction = (row.score.scored /\ Cardinality(On) > 0)
      /\ row.soleTenant = SoleTenant(row.score)
      /\ row.score.scored => row.findings = Count(findings, LAMBDA f : f.ref = r)
  BY <1>3, <1>5 DEF TableRow, RowOf, Count
<1>8. IsFiniteSet(On) /\ Cardinality(On) \in Nat
  <2>1. On \in SUBSET (1 .. m) /\ IsFiniteSet(1 .. m)
    BY <1>6, FS_Interval
  <2> HIDE DEF On
  <2> QED
    BY <2>1, FS_Subset, FS_CardinalityType
<1>9. Cardinality(On) > 0 <=> On # {}
  <2> HIDE DEF On
  <2> QED
    BY <1>8, FS_EmptySet
<1>10. cluster \in Clusters
  BY WhenPrinted
<1>11. ASSUME On # {}
       PROVE  row.score.scored /\ ~row.soleTenant
  <2>1. ScoreOf(r).risk > 0
    BY <1>6, <1>11
  <2>2. ScoreOf(r).scored /\ ScoreOf(r).neighbors > 0 /\ ScoreOf(r).neighbors \in Nat
    BY <1>5, <1>10, <2>1, ScoreType
  <2>3. ScoreOf(r).neighbors # 0
    BY <2>2
  <2>4. ~SoleTenant(row.score)
    BY <1>7, <2>3 DEF SoleTenant
  <2>5. ~row.soleTenant
    BY <1>7, <2>4, Zenon
  <2>6. row.score.scored
    BY <1>7, <2>2, Zenon
  <2> QED
    BY <2>5, <2>6
<1>12. row.contradiction <=> On # {}
  BY <1>7, <1>9, <1>11
<1> QED
  BY <1>7, <1>11, <1>12

\* The rows that are flagged, and those that were cut, answer for the contradictions.
LEMMA FlagsAddUp ==
  ASSUME IInv, printed.complete
  PROVE  LET flagged == {row \in Rows(printed.rows) : row.contradiction}
         IN  /\ Cardinality(flagged) <= printed.contradictions
             /\ printed.contradictions <= Cardinality(flagged) + printed.cut
<1> DEFINE W == inv.workloads
           R == Rows(printed.rows)
           F == {row \in R : row.contradiction}
           P == {row.ref : row \in R}
           C == {i \in DOMAIN findings : findings[i].rule = 301}
           X == {findings[i].ref : i \in C}
<1>1. PICK m \in Nat :
        /\ DOMAIN findings = 1 .. m
        /\ \A i \in 1 .. m : findings[i].rule = 301 => findings[i].ref \in W
        /\ \A i, j \in 1 .. m :
             findings[i].rule = 301 /\ findings[j].rule = 301
               /\ findings[i].ref = findings[j].ref => i = j
  BY ListedFindings
<1>2. printed.contradictions = Cardinality(C)
  BY SectionsAddUp
<1>3. IsFiniteSet(X) /\ Cardinality(X) = Cardinality(C)
  <2> DEFINE G == [i \in C |-> findings[i].ref]
  <2>1. \A i, j \in C : findings[i].ref = findings[j].ref => i = j
    BY <1>1
  <2>3. C \in SUBSET (1 .. m) /\ IsFiniteSet(1 .. m)
    BY <1>1, FS_Interval
  <2> HIDE DEF C
  <2>2. /\ X = {G[i] : i \in C} /\ G = [i \in C |-> G[i]]
        /\ \A i, j \in C : G[i] = G[j] => i = j
    BY <2>1
  <2> HIDE DEF X, G
  <2>4. IsFiniteSet(C)
    BY <2>3, FS_Subset
  <2> QED
    BY <2>2, <2>4, ValuesAreFinite
<1>4. X \in SUBSET W
  BY <1>1
<1>5. PICK n \in Nat :
        /\ DOMAIN printed.rows = 1 .. n /\ n <= Len(Built) /\ Len(printed.rows) = n
        /\ \A i \in 1 .. n : printed.rows[i] = TableRow(Built[i])
  BY PrintedRows
<1>6. Len(Built) \in Nat
      /\ \A i, j \in 1 .. Len(Built) : Built[i].ref = Built[j].ref => i = j
  BY RowsGoDown
<1>7. \A i \in 1 .. n : i \in 1 .. Len(Built) /\ printed.rows[i].ref = Built[i].ref
  <2>1. \A i \in 1 .. n : i \in 1 .. Len(Built)
    BY <1>5, <1>6
  <2>2. \A b : TableRow(b).ref = b.ref
    BY DEF TableRow
  <2> QED
    BY <1>5, <2>1, <2>2
<1>8. \A a, b \in R : a.ref = b.ref => a = b
  BY <1>5, <1>6, <1>7 DEF Rows
<1>9. IsFiniteSet(P) /\ Cardinality(P) = n
  <2> DEFINE I == 1 .. n
             G == [i \in I |-> printed.rows[i].ref]
  <2>1. P = {G[i] : i \in I} /\ G = [i \in I |-> G[i]]
    BY <1>5 DEF Rows
  <2>2. \A i, j \in I : G[i] = G[j] => i = j
    BY <1>6, <1>7
  <2>3. IsFiniteSet(I) /\ Cardinality(I) = n
    BY FS_Interval
  <2> HIDE DEF I, P, G
  <2> QED
    BY <2>1, <2>2, <2>3, ValuesAreFinite
<1>10. P \in SUBSET W
  BY PrintedScores
<1>11. \A row \in R : row.contradiction <=> row.ref \in X
  <2> SUFFICES ASSUME NEW row \in R PROVE row.contradiction <=> row.ref \in X
    OBVIOUS
  <2>1. row.contradiction <=> \E i \in DOMAIN findings :
                                 findings[i].ref = row.ref /\ findings[i].rule = 301
    BY RowsCountFindings
  <2>2. row.ref \in X <=> \E i \in DOMAIN findings :
                             findings[i].ref = row.ref /\ findings[i].rule = 301
    OBVIOUS
  <2> HIDE DEF X
  <2> QED
    BY <2>1, <2>2
<1>12. IsFiniteSet(R)
  <2> DEFINE I == 1 .. n
             G == [i \in I |-> printed.rows[i]]
  <2>1. R = {G[i] : i \in I} /\ G = [i \in I |-> G[i]]
    BY <1>5 DEF Rows
  <2>2. IsFiniteSet(I)
    BY FS_Interval
  <2> HIDE DEF I, G, R
  <2> QED
    BY <2>1, <2>2, ValuesAreFinite
<1>13. Cardinality(F) = Cardinality(X \cap P)
  <2> DEFINE G == [row \in F |-> row.ref]
  <2>0. \A row : row \in F <=> row \in R /\ row.ref \in X
    BY <1>11, Zenon
  <2>1. {G[row] : row \in F} = X \cap P /\ G = [row \in F |-> G[row]]
    <3> HIDE DEF F, X, R
    <3> QED
      BY <2>0
  <2>2. \A a, b \in F : G[a] = G[b] => a = b
    BY <1>8
  <2>3. F \in SUBSET R
    OBVIOUS
  <2> HIDE DEF F, G, R, X, P
  <2>4. IsFiniteSet(F)
    BY <1>12, <2>3, FS_Subset
  <2> QED
    BY <2>1, <2>2, <2>4, ValuesAreFinite
<1>14. IsFiniteSet(W) /\ Cardinality(W) = Len(printed.rows) + printed.cut /\ printed.cut \in Nat
  BY WorkloadsAddUp
<1> HIDE DEF F, P, C, X, R, W
<1>15. X \cap P \in SUBSET X /\ X \ (X \cap P) \in SUBSET (W \ P)
  BY <1>4
<1>16. /\ Cardinality(X \cap P) + Cardinality(X \ (X \cap P)) = Cardinality(X)
       /\ Cardinality(X \cap P) \in Nat /\ Cardinality(X \ (X \cap P)) \in Nat
       /\ Cardinality(X) \in Nat
  BY <1>3, <1>15, PartAndRest
<1>17. Cardinality(P) + Cardinality(W \ P) = Cardinality(W) /\ Cardinality(W \ P) \in Nat
       /\ Cardinality(P) \in Nat
  BY <1>10, <1>14, PartAndRest
<1>18. IsFiniteSet(W \ P)
  BY <1>14, FS_Difference
<1>19. Cardinality(X \ (X \cap P)) <= Cardinality(W \ P)
  BY <1>15, <1>18, FS_Subset
<1>20. Cardinality(W \ P) = printed.cut
  BY <1>5, <1>9, <1>14, <1>17
<1>21. Cardinality(X) = printed.contradictions
  BY <1>2, <1>3
<1>22. Cardinality(F) <= printed.contradictions
  BY <1>13, <1>16, <1>21
<1>23. printed.contradictions <= Cardinality(F) + printed.cut
  BY <1>13, <1>14, <1>16, <1>19, <1>20, <1>21
<1> QED
  BY <1>22, <1>23 DEF F, R

\* Every heading of the table agrees with the summary under it, and the rows
\* with the findings listed.
THEOREM SummaryReconciles == Spec => []TalliesReconcile
<1>1. IInv => TalliesReconcile
  <2> SUFFICES ASSUME IInv, printed.complete
               PROVE  TalliesReconcile
    BY DEF TalliesReconcile
  <2>1. report.findings = findings
    BY SectionsAddUp
  <2>2. /\ printed.tail + printed.contradictions = printed.summary.findings
        /\ printed.summary.findings = Len(report.findings)
        /\ printed.summary.contradictions = printed.contradictions
    BY <2>1, SectionsAddUp
  <2>3. printed.summary.workloads = Len(printed.rows) + printed.cut
    BY WorkloadsAddUp
  <2>4. \A row \in Rows(printed.rows) :
          /\ row.score.scored => row.findings = Count(report.findings, LAMBDA f : f.ref = row.ref)
          /\ ~(row.contradiction /\ row.soleTenant)
    BY <2>1, RowsCountFindings
  <2> QED
    BY <2>2, <2>3, <2>4, FlagsAddUp DEF TalliesReconcile
<1> QED
  BY <1>1, StagesAgree, PTL
=============================================================================
