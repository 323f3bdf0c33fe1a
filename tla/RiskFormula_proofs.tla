------------------------- MODULE RiskFormula_proofs --------------------------
(***************************************************************************)
(* Lemmas about the formula and the choice of the worst node, for every    *)
(* increasing log table and every request floor.                           *)
(***************************************************************************)
EXTENDS RiskFormula, FiniteFacts, FiniteSetTheorems, TLAPS

-----------------------------------------------------------------------------
(* The formula.                                                             *)

\* Fractions over one denominator compare as their numerators do.
LEMMA SameDenominator ==
  ASSUME NEW a \in Nat, NEW b \in Nat, NEW d \in Nat \ {0}
  PROVE  Exceeds([num |-> a, den |-> d], [num |-> b, den |-> d]) <=> a > b
<1>1. a > b => a * d > b * d
  OBVIOUS
<1>2. b >= a => b * d >= a * d
  OBVIOUS
<1>3. a * d \in Nat /\ b * d \in Nat
  BY MulNat
<1> QED
  BY <1>1, <1>2, <1>3 DEF Exceeds

\* The neighbor count of any node is within the log table.
LEMMA NeighborsType ==
  ASSUME NEW c \in Clusters, NEW n \in NodeNames
  PROVE  Neighbors(c, n, Self) \in DOMAIN Log2 /\ Neighbors(c, n, Self) \in Nat
<1> DEFINE T == c.tenants[n] \ {Self}
<1>1. T \in SUBSET Refs
  BY DEF Clusters
<1>2. IsFiniteSet(T) /\ Cardinality(T) <= Cardinality(Refs)
  BY <1>1, RefsAssumption, FS_Subset
<1>3. Cardinality(T) \in Nat /\ Cardinality(Refs) \in Nat
  BY <1>2, RefsAssumption, FS_CardinalityType
<1>4. DOMAIN Log2 = 0 .. Cardinality(Refs)
  BY Log2Assumption
<1> QED
  BY <1>2, <1>3, <1>4 DEF Neighbors

LEMMA EffectiveRequestType ==
  ASSUME NEW v \in Workloads
  PROVE  EffectiveRequest(v) \in Nat \ {0}
BY RequestFloorAssumption DEF EffectiveRequest, Workloads

LEMMA CeilingType ==
  ASSUME NEW c \in Clusters, NEW v \in Workloads, NEW n \in NodeNames
  PROVE  /\ Ceiling(c, v, n) \in Nat
         /\ c.alloc[n] > 0 => Ceiling(c, v, n) > 0
BY DEF Ceiling, CeilingIsLimit, Clusters, Workloads, Unbounded

LEMMA ComputeType ==
  ASSUME NEW ceiling \in Nat, NEW request \in Nat,
         NEW k \in DOMAIN Log2, NEW s \in BOOLEAN
  PROVE  Compute(ceiling, request, k, s) \in Risks
<1>1. Log2[k] \in Nat
  BY Log2Assumption
<1>2. SpotHalves(s) \in Nat
  BY DEF SpotHalves
<1>3. ceiling * Log2[k] * SpotHalves(s) \in Nat
  BY <1>1, <1>2, MulNat
<1>4. CASE request <= 0 \/ ceiling <= 0
  BY <1>4 DEF Compute, NoRisk, Risks
<1>5. CASE ~(request <= 0 \/ ceiling <= 0)
  <2>1. 2 * request \in Nat \ {0}
    BY <1>5
  <2> QED
    BY <1>3, <1>5, <2>1 DEF Compute, Risks
<1> QED
  BY <1>4, <1>5

LEMMA RiskOnType ==
  ASSUME NEW c \in Clusters, NEW v \in Workloads, NEW n \in NodeNames
  PROVE  RiskOn(c, v, n) \in Risks
<1>1. c.spot[n] \in BOOLEAN
  BY DEF Clusters
<1> QED
  BY <1>1, NeighborsType, EffectiveRequestType, CeilingType, ComputeType DEF RiskOn

\* On nodes that report memory every risk of one workload has the same
\* denominator: this is what makes the loop's comparisons transitive.
LEMMA RiskOnForm ==
  ASSUME NEW c \in Clusters, NEW v \in Workloads, NEW n \in NodeNames, c.alloc[n] > 0
  PROVE  \E k \in Nat : RiskOn(c, v, n) = [num |-> k, den |-> 2 * EffectiveRequest(v)]
<1> DEFINE k == Ceiling(c, v, n) * Log2[Neighbors(c, n, Self)] * SpotHalves(c.spot[n])
<1>1. EffectiveRequest(v) \in Nat \ {0} /\ Ceiling(c, v, n) \in Nat /\ Ceiling(c, v, n) > 0
  BY EffectiveRequestType, CeilingType
<1>2. RiskOn(c, v, n) = [num |-> k, den |-> 2 * EffectiveRequest(v)]
  BY <1>1 DEF RiskOn, Compute
<1>3. RiskOn(c, v, n) \in Risks
  BY RiskOnType
<1>4. k \in Nat
  BY <1>2, <1>3 DEF Risks
<1> QED
  BY <1>2, <1>4

LEMMA ScorableNodes ==
  ASSUME NEW c \in Clusters, NEW v \in Workloads
  PROVE  /\ CandidateNodes(c, v) \subseteq NodeNames
         /\ Scorable(c, v) \subseteq CandidateNodes(c, v)
         /\ \A n \in Scorable(c, v) : n \in NodeNames /\ c.alloc[n] > 0
BY DEF CandidateNodes, Scorable, Occupied, Largest, Clusters, Workloads

\* What a strictly worse node beats, it exceeds together with all before it.
LEMMA WorseIsTransitive ==
  ASSUME NEW c \in Clusters, NEW v \in Workloads,
         NEW a \in Scorable(c, v), NEW b \in Scorable(c, v), NEW m \in Scorable(c, v),
         Exceeds(RiskOn(c, v, a), RiskOn(c, v, b)),
         ~Exceeds(RiskOn(c, v, m), RiskOn(c, v, b))
  PROVE  ~Exceeds(RiskOn(c, v, m), RiskOn(c, v, a))
<1> DEFINE d == 2 * EffectiveRequest(v)
<1>1. d \in Nat \ {0}
  BY EffectiveRequestType
<1>2. PICK i \in Nat : RiskOn(c, v, a) = [num |-> i, den |-> d]
  BY ScorableNodes, RiskOnForm
<1>3. PICK j \in Nat : RiskOn(c, v, b) = [num |-> j, den |-> d]
  BY ScorableNodes, RiskOnForm
<1>4. PICK k \in Nat : RiskOn(c, v, m) = [num |-> k, den |-> d]
  BY ScorableNodes, RiskOnForm
<1> HIDE DEF d
<1>5. i > j /\ ~(k > j)
  BY <1>1, <1>2, <1>3, <1>4, SameDenominator
<1>6. ~(k > i)
  BY <1>5
<1> QED
  BY <1>1, <1>2, <1>4, <1>6, SameDenominator

LEMMA NotWorseThanItself ==
  ASSUME NEW r \in Risks
  PROVE  ~Exceeds(r, r)
<1>1. r.num * r.den \in Nat
  BY MulNat DEF Risks
<1> QED
  BY <1>1 DEF Exceeds

\* On scorable nodes, worse and not worse leave no third possibility.
LEMMA WorseThanBeaten ==
  ASSUME NEW c \in Clusters, NEW v \in Workloads,
         NEW a \in Scorable(c, v), NEW b \in Scorable(c, v), NEW m \in Scorable(c, v),
         Exceeds(RiskOn(c, v, a), RiskOn(c, v, b)),
         ~Exceeds(RiskOn(c, v, m), RiskOn(c, v, b))
  PROVE  Exceeds(RiskOn(c, v, a), RiskOn(c, v, m))
<1> DEFINE d == 2 * EffectiveRequest(v)
<1>1. d \in Nat \ {0}
  BY EffectiveRequestType
<1>2. PICK i \in Nat : RiskOn(c, v, a) = [num |-> i, den |-> d]
  BY ScorableNodes, RiskOnForm
<1>3. PICK j \in Nat : RiskOn(c, v, b) = [num |-> j, den |-> d]
  BY ScorableNodes, RiskOnForm
<1>4. PICK k \in Nat : RiskOn(c, v, m) = [num |-> k, den |-> d]
  BY ScorableNodes, RiskOnForm
<1> HIDE DEF d
<1>5. i > j /\ ~(k > j)
  BY <1>1, <1>2, <1>3, <1>4, SameDenominator
<1>6. i > k
  BY <1>5
<1> QED
  BY <1>1, <1>2, <1>4, <1>6, SameDenominator

-----------------------------------------------------------------------------
(* The same workload with another memory request.                           *)

Asking(v, p) == [v EXCEPT !.request = p]

\* Only the denominator of a risk depends on the request: neither the nodes
\* that can be scored nor what makes one worse than another does.
LEMMA RequestScalesRisk ==
  ASSUME NEW c \in Clusters, NEW v \in Workloads, NEW p \in Nat \ {0}
  PROVE  /\ Asking(v, p) \in Workloads
         /\ Scorable(c, Asking(v, p)) = Scorable(c, v)
         /\ EffectiveRequest(Asking(v, p)) = p
         /\ \A n : Ceiling(c, Asking(v, p), n) = Ceiling(c, v, n)
         /\ \A n \in Scorable(c, v) : \E k \in Nat :
              /\ RiskOn(c, v, n) = [num |-> k, den |-> 2 * EffectiveRequest(v)]
              /\ RiskOn(c, Asking(v, p), n) = [num |-> k, den |-> 2 * p]
<1> DEFINE u == Asking(v, p)
<1>1. u \in Workloads /\ u.request = p /\ u.nodes = v.nodes /\ u.limit = v.limit
  BY DEF Asking, Workloads
<1>2. Scorable(c, u) = Scorable(c, v)
  BY <1>1 DEF Scorable, CandidateNodes, Occupied
<1>3. EffectiveRequest(u) = p
  BY <1>1 DEF EffectiveRequest
<1>4. \A n : Ceiling(c, u, n) = Ceiling(c, v, n)
  BY <1>1 DEF Ceiling, CeilingIsLimit
<1>5. ASSUME NEW n \in Scorable(c, v)
      PROVE  \E k \in Nat : /\ RiskOn(c, v, n) = [num |-> k, den |-> 2 * EffectiveRequest(v)]
                            /\ RiskOn(c, u, n) = [num |-> k, den |-> 2 * p]
  <2> DEFINE k == Ceiling(c, v, n) * Log2[Neighbors(c, n, Self)] * SpotHalves(c.spot[n])
  <2>1. n \in NodeNames /\ c.alloc[n] > 0
    BY ScorableNodes
  <2>2. EffectiveRequest(v) \in Nat \ {0} /\ Ceiling(c, v, n) \in Nat /\ Ceiling(c, v, n) > 0
    BY <2>1, EffectiveRequestType, CeilingType
  <2>3. RiskOn(c, v, n) = [num |-> k, den |-> 2 * EffectiveRequest(v)]
    BY <2>2 DEF RiskOn, Compute
  <2>4. RiskOn(c, u, n) = [num |-> k, den |-> 2 * p]
    <3> HIDE DEF u
    <3> QED
      BY <1>3, <1>4, <2>2 DEF RiskOn, Compute
  <2>5. RiskOn(c, v, n) \in Risks
    BY <2>1, RiskOnType
  <2>6. k \in Nat
    BY <2>3, <2>5 DEF Risks
  <2> QED
    BY <2>3, <2>4, <2>6
<1> QED
  BY <1>1, <1>2, <1>3, <1>4, <1>5

LEMMA RequestKeepsWorst ==
  ASSUME NEW c \in Clusters, NEW v \in Workloads, NEW p \in Nat \ {0}
  PROVE  WorstNodes(c, Asking(v, p)) = WorstNodes(c, v)
<1> DEFINE d == 2 * EffectiveRequest(v)
           e == 2 * p
<1>1. d \in Nat \ {0} /\ e \in Nat \ {0}
  BY EffectiveRequestType
<1>2. ASSUME NEW n \in Scorable(c, v), NEW m \in Scorable(c, v)
      PROVE  Exceeds(RiskOn(c, Asking(v, p), m), RiskOn(c, Asking(v, p), n))
               <=> Exceeds(RiskOn(c, v, m), RiskOn(c, v, n))
  <2>1. PICK i \in Nat : RiskOn(c, v, n) = [num |-> i, den |-> d]
                         /\ RiskOn(c, Asking(v, p), n) = [num |-> i, den |-> e]
    BY RequestScalesRisk
  <2>2. PICK j \in Nat : RiskOn(c, v, m) = [num |-> j, den |-> d]
                         /\ RiskOn(c, Asking(v, p), m) = [num |-> j, den |-> e]
    BY RequestScalesRisk
  <2> HIDE DEF d, e
  <2> QED
    BY <1>1, <2>1, <2>2, SameDenominator
<1>3. Scorable(c, Asking(v, p)) = Scorable(c, v)
  BY RequestScalesRisk
<1> QED
  BY <1>2, <1>3 DEF WorstNodes

\* Two worst nodes carry one risk.
LEMMA WorstIsOne ==
  ASSUME NEW c \in Clusters, NEW v \in Workloads,
         NEW a \in WorstNodes(c, v), NEW b \in WorstNodes(c, v)
  PROVE  SameRisk(RiskOn(c, v, a), RiskOn(c, v, b))
<1> DEFINE d == 2 * EffectiveRequest(v)
<1>1. d \in Nat \ {0}
  BY EffectiveRequestType
<1>2. a \in Scorable(c, v) /\ b \in Scorable(c, v)
  BY DEF WorstNodes
<1>3. PICK i \in Nat : RiskOn(c, v, a) = [num |-> i, den |-> d]
  BY <1>2, ScorableNodes, RiskOnForm
<1>4. PICK j \in Nat : RiskOn(c, v, b) = [num |-> j, den |-> d]
  BY <1>2, ScorableNodes, RiskOnForm
<1>5. ~Exceeds(RiskOn(c, v, a), RiskOn(c, v, b)) /\ ~Exceeds(RiskOn(c, v, b), RiskOn(c, v, a))
  BY <1>2 DEF WorstNodes
<1> HIDE DEF d
<1>6. i = j
  BY <1>1, <1>3, <1>4, <1>5, SameDenominator
<1> QED
  BY <1>3, <1>4, <1>6 DEF SameRisk

-----------------------------------------------------------------------------
(* The score.                                                               *)

LEMMA ZeroNeighbors == 0 \in 0 .. Cardinality(Refs)
BY RefsAssumption, FS_CardinalityType

ScoreRecords ==
  [scored : BOOLEAN, risk : Risks, ceiling : Nat, fromNode : BOOLEAN,
   node : NodeNames \cup {NoNode}, neighbors : 0 .. Cardinality(Refs), spot : BOOLEAN]

\* A workload is scored on a node that is the worst it could be on, or not at all.
LEMMA ScoreOfType ==
  ASSUME NEW c \in Clusters, NEW v \in Workloads
  PROVE  /\ ScoreOf(c, v) \in ScoreRecords
         /\ WorstNodes(c, v) = {} => ScoreOf(c, v) = Unscored
         /\ WorstNodes(c, v) # {} =>
              \E n \in WorstNodes(c, v) :
                /\ n = (CHOOSE k \in WorstNodes(c, v) : \A m \in WorstNodes(c, v) : k <= m)
                /\ ScoreOf(c, v) = ScoreAt(c, v, n)
<1> DEFINE worst == WorstNodes(c, v)
<1>1. worst \in SUBSET NodeNames /\ worst \in SUBSET Nat
  BY ScorableNodes, NodeNamesAssumption DEF WorstNodes
<1>2. 0 \in 0 .. Cardinality(Refs)
  BY ZeroNeighbors
<1>3. CASE worst = {}
  <2>1. ScoreOf(c, v) = Unscored
    BY <1>3 DEF ScoreOf
  <2>2. NoRisk \in Risks
    BY DEF NoRisk, Risks
  <2> QED
    BY <1>2, <1>3, <2>1, <2>2 DEF Unscored, ScoreRecords
<1>4. CASE worst # {}
  <2> DEFINE n == CHOOSE k \in worst : \A m \in worst : k <= m
  <2>1. n \in worst
    <3>1. \E k \in worst : \A m \in worst : k <= m
      <4> HIDE DEF worst
      <4> QED
        BY <1>1, <1>4, LeastExists
    <3> QED
      BY <3>1
  <2>2. ScoreOf(c, v) = ScoreAt(c, v, n)
    BY <1>4 DEF ScoreOf
  <2>3. n \in NodeNames
    BY <1>1, <2>1
  <2> HIDE DEF n
  <2>4. /\ RiskOn(c, v, n) \in Risks /\ Ceiling(c, v, n) \in Nat
        /\ Neighbors(c, n, Self) \in 0 .. Cardinality(Refs) /\ c.spot[n] \in BOOLEAN
    BY <2>3, RiskOnType, CeilingType, NeighborsType, Log2Assumption DEF Clusters
  <2>5. CeilingIsLimit(c, v, n) \in BOOLEAN
    BY DEF CeilingIsLimit
  <2>6. ScoreAt(c, v, n) \in ScoreRecords
    BY <2>3, <2>4, <2>5 DEF ScoreAt, ScoreRecords
  <2> QED
    BY <1>4, <2>1, <2>2, <2>6 DEF n
<1> QED
  BY <1>3, <1>4
=============================================================================
