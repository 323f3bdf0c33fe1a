----------------------------- MODULE ScoredScan -----------------------------
(***************************************************************************)
(* risk.All on the inventory collect.Collect hands it: what the races and  *)
(* the denials of a scan come to in the number that is printed.  The score *)
(* of the inventory is set against the score the same formula gives on the *)
(* cluster itself, in the states it was really in.                         *)
(***************************************************************************)
EXTENDS CollectRequirements

CONSTANTS
  Alloc, Spot,      \* of a node: allocatable memory, capacity type
  Request, Limit,   \* of a workload: memory request, memory limit or Unbounded
  Log2, RequestFloor

Unbounded == -1

ASSUME FiniteClusterAssumption == IsFiniteSet(Nodes) /\ IsFiniteSet(Objects)
ASSUME ScoredScanAssumption ==
  /\ Alloc \in [Nodes -> Nat]
  /\ Spot \in [Nodes -> BOOLEAN]
  /\ Request \in [RefSpace -> Nat]
  /\ Limit \in [RefSpace -> Nat \cup {Unbounded}]
  /\ Log2 \in [0 .. Cardinality(RefSpace) -> Nat]
  /\ Log2[0] = 0
  /\ \A i, j \in DOMAIN Log2 : i < j => Log2[i] < Log2[j]
  /\ RequestFloor \in Nat \ {0}

\* The formula, for the workload r.
Formula(r) == INSTANCE RiskFormula WITH
                NodeNames <- Nodes,
                Refs <- RefSpace,
                Self <- r

\* The inventory as the scorer reads it: nodes that were listed, their tenants.
ClusterWith(known, who) ==
  [known |-> known,
   alloc |-> [n \in Nodes |-> IF n \in known THEN Alloc[n] ELSE 0],
   spot |-> [n \in Nodes |-> n \in known /\ Spot[n]],
   tenants |-> who]

WorkloadOn(r, names, count) ==
  [request |-> Request[r], limit |-> Limit[r], nodes |-> names, pods |-> count]

\* scores[r], computed from what the scan read.
ScoreRead(r) ==
  Formula(r)!ScoreOf(ClusterWith(nodes, tenants), WorkloadOn(r, NodesOf(r), RunningPods(r)))

\* The score r has in state t of the cluster.
TruePods(t, r) == {p \in Pods : Alive(t, p) /\ TrueOwner(t, p) = r}
TrueShape(t, r) ==
  WorkloadOn(r, {t.pods[p].node : p \in TruePods(t, r)} \ {Nowhere}, Cardinality(TruePods(t, r)))
TrueScore(t, r) ==
  Formula(r)!ScoreOf(ClusterWith(t.nodes, [n \in Nodes |-> TrueTenants(t, n)]), TrueShape(t, r))

NoRiskier(r, s, u) == ~Formula(r)!Exceeds(s.risk, u.risk)

-----------------------------------------------------------------------------
(* A workload that did not move while everything around it did.             *)

\* The reads being apart, a pod that was alive at one time may be put down to an
\* owner it had at another, even one it never had while it lived.
MayBePutDownTo(r) ==
  {p \in Pods : (\E t \in Past : Alive(t, p)) /\ \E t \in Past : TrueOwner(t, p) = r}

StoodStill(r) ==
  LET shape == TrueShape(Now, r)
  IN  /\ shape.nodes # {}
      /\ \A t \in Past : shape.nodes \subseteq t.nodes /\ TrueShape(t, r) = shape
      /\ \A t \in Past : TruePods(t, r) = MayBePutDownTo(r)

\* Neighbors that were on the node all along, and those that ever were: a pod
\* seen in one state may be put down to the owner it had in another.
LastingTenants(n) ==
  {TrueOwner(Now, p) :
     p \in {q \in Pods : \A t \in Past : AliveOn(t, q, n) /\ TrueOwner(t, q) = TrueOwner(Now, q)}}
PassingTenants(n) ==
  {TrueOwner(t, p) : t \in Past, p \in {q \in Pods : \E u \in Past : AliveOn(u, q, n)}}

ScoreAmong(r, Tenancy(_)) ==
  LET shape == TrueShape(Now, r)
  IN  Formula(r)!ScoreOf(ClusterWith(shape.nodes, [n \in Nodes |-> Tenancy(n)]), shape)

-----------------------------------------------------------------------------
\* A scan of a cluster that holds still, and that warns of nothing, prints the
\* score of every workload as it is: its risk, and the node, ceiling, neighbors
\* and capacity type that explain it.
QuietScoreIsTrue ==
  Done /\ Len(history) = 1 /\ warnings = {} =>
    \A r \in workloads : ScoreRead(r) = TrueScore(Now, r)

\* Whatever reads are denied, a reported blast radius is never above the true
\* one as long as the owners of pods are readable: a denial can hide a risk and
\* never make one up, which is what the warning promises.
DenialOnlyUnderstates ==
  Done /\ Len(history) = 1 /\ {"replicasets", "jobs"} \cap warnings = {} =>
    \A r \in workloads : NoRiskier(r, ScoreRead(r), TrueScore(Now, r))

\* The reads of a scan are not a snapshot, and the score of a workload may be
\* one it had in no state of the cluster.  It is bounded all the same: not below
\* what its lasting neighbors alone make of it, unless those of other namespaces
\* were denied, and not above what all that ever passed by would.
ScoreIsBracketed ==
  Done /\ {"nodes", "replicasets", "jobs"} \cap warnings = {} =>
    \A r \in workloads : StoodStill(r) =>
      /\ Clusterwide => NoRiskier(r, ScoreAmong(r, LastingTenants), ScoreRead(r))
      /\ NoRiskier(r, ScoreRead(r), ScoreAmong(r, PassingTenants))

-----------------------------------------------------------------------------
(* Statements of the documentation, for the record.                         *)

\* collect.go:107 and docs/rbac.md:48: with the cluster-wide pods denied,
\* "neighbor counts are a lower bound and risk scores are therefore understated".
ScoresAreUnderstated ==
  Done /\ Len(history) = 1 /\ "podsClusterWide" \in warnings =>
    \A r \in workloads : NoRiskier(r, ScoreRead(r), TrueScore(Now, r))
=============================================================================
