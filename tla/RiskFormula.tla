----------------------------- MODULE RiskFormula -----------------------------
(***************************************************************************)
(* The blast-radius formula of internal/risk and the choice of the nodes a *)
(* workload is scored against, as operators on a cluster and a workload.   *)
(*                                                                         *)
(*     risk = ceiling / request * log2(1 + neighbors) * spot_factor        *)
(*                                                                         *)
(* A risk is kept as an exact fraction [num, den] so that scores compare   *)
(* the way the float64 values of the program do, without rounding: the     *)
(* logarithm is a table of positive integers (any increasing table will    *)
(* do) and the spot factor 1.5 : 1.0 is 3 : 2.                             *)
(***************************************************************************)
EXTENDS Integers, FiniteSets

CONSTANTS
  NodeNames,     \* names of nodes, numbered in the order sort.Strings gives them
  Refs,          \* workloads, by reference
  Self,          \* the workload being scored
  Log2,          \* Log2[n] stands for log2(1 + n), scaled
  RequestFloor   \* --request-floor: the request assumed when none is declared

ASSUME NodeNamesAssumption == NodeNames \subseteq Nat \ {0} /\ IsFiniteSet(NodeNames)
ASSUME RefsAssumption == Self \in Refs /\ IsFiniteSet(Refs)
ASSUME Log2Assumption ==
  /\ Log2 \in [0 .. Cardinality(Refs) -> Nat]
  /\ Log2[0] = 0
  /\ \A i, j \in DOMAIN Log2 : i < j => Log2[i] < Log2[j]
ASSUME RequestFloorAssumption == RequestFloor \in Nat \ {0}

Unbounded == -1        \* MemLimit returned bounded = false
NoNode == 0              \* Score.Node of a workload that was not scored

(***************************************************************************)
(* A cluster as the scorer sees it: the nodes that were listed, and for    *)
(* every name its allocatable memory, capacity type and tenants.           *)
(* A workload: its memory request and limit, the node names its pods name, *)
(* and how many live pods it has (Pending ones included).                  *)
(***************************************************************************)
Clusters ==
  [known   : SUBSET NodeNames,
   alloc   : [NodeNames -> Nat],
   spot    : [NodeNames -> BOOLEAN],
   tenants : [NodeNames -> SUBSET Refs]]

Workloads ==
  [request : Nat, limit : Nat \cup {Unbounded}, nodes : SUBSET NodeNames, pods : Nat]

Risks == [num : Nat, den : Nat \ {0}]
NoRisk == [num |-> 0, den |-> 1]

\* r > s and r = s on float64 scores.
Exceeds(r, s) == r.num * s.den > s.num * r.den
SameRisk(r, s) == r.num * s.den = s.num * r.den

SpotHalves(spot) == IF spot THEN 3 ELSE 2

Compute(ceiling, request, neighbors, spot) ==
  IF request <= 0 \/ ceiling <= 0
  THEN NoRisk
  ELSE [num |-> ceiling * Log2[neighbors] * SpotHalves(spot), den |-> 2 * request]

Neighbors(cluster, n, self) == Cardinality(cluster.tenants[n] \ {self})

EffectiveRequest(w) == IF w.request <= 0 THEN RequestFloor ELSE w.request

\* Mutation: the limit is believed without asking whether there is one.
LimitBelowNode(cluster, w, n) == w.limit < cluster.alloc[n]

\* Mutation: the greater of the two is the ceiling.
LimitAboveNode(cluster, w, n) == w.limit # Unbounded /\ w.limit > cluster.alloc[n]

CeilingIsLimit(cluster, w, n) ==
  /\ w.limit # Unbounded
  /\ w.limit > 0
  /\ w.limit < cluster.alloc[n]

Ceiling(cluster, w, n) ==
  IF CeilingIsLimit(cluster, w, n) THEN w.limit ELSE cluster.alloc[n]

RiskOn(cluster, w, n) ==
  Compute(Ceiling(cluster, w, n), EffectiveRequest(w),
          Neighbors(cluster, n, Self), cluster.spot[n])

\* The nodes the workload occupies that were listed; failing those, the first
\* of the largest listed nodes (the API lists nodes in name order).
Occupied(cluster, w) == w.nodes \cap cluster.known

Largest(cluster) ==
  {n \in cluster.known :
     \A m \in cluster.known :
        \/ cluster.alloc[m] < cluster.alloc[n]
        \/ cluster.alloc[m] = cluster.alloc[n] /\ n <= m}

CandidateNodes(cluster, w) ==
  IF Occupied(cluster, w) # {} THEN Occupied(cluster, w) ELSE Largest(cluster)

IsHypothetical(cluster, w) == Occupied(cluster, w) = {} /\ Largest(cluster) # {}

Scorable(cluster, w) == {n \in CandidateNodes(cluster, w) : cluster.alloc[n] > 0}

\* The scorable nodes on which the blast radius is the greatest.
WorstNodes(cluster, w) ==
  {n \in Scorable(cluster, w) :
     \A m \in Scorable(cluster, w) :
        ~Exceeds(RiskOn(cluster, w, m), RiskOn(cluster, w, n))}

(***************************************************************************)
(* The score of a workload as the rest of the tool uses it.  Among nodes   *)
(* that are equally bad the first in name order is reported.               *)
(***************************************************************************)
Unscored == [scored |-> FALSE, risk |-> NoRisk, ceiling |-> 0, fromNode |-> FALSE,
             node |-> NoNode, neighbors |-> 0, spot |-> FALSE]

ScoreAt(cluster, w, n) ==
  [scored |-> TRUE, risk |-> RiskOn(cluster, w, n), ceiling |-> Ceiling(cluster, w, n),
   fromNode |-> ~CeilingIsLimit(cluster, w, n), node |-> n,
   neighbors |-> Neighbors(cluster, n, Self), spot |-> cluster.spot[n]]

ScoreOf(cluster, w) ==
  LET worst == WorstNodes(cluster, w)
  IN  IF worst = {} THEN Unscored
      ELSE ScoreAt(cluster, w, CHOOSE n \in worst : \A m \in worst : n <= m)
=============================================================================
