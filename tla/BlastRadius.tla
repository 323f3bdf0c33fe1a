----------------------------- MODULE BlastRadius -----------------------------
(***************************************************************************)
(* risk.Of: the scoring loop over a workload's candidate nodes, one action *)
(* per iteration, followed by what the tool does with a score: price a     *)
(* smaller request with Score.Project, and, once somebody has pasted the   *)
(* proposal into a manifest, score the workload afresh.                    *)
(***************************************************************************)
EXTENDS RiskFormula

CONSTANTS
  ClusterInputs,   \* the clusters a scan may find
  WorkloadInputs   \* the shapes of Self it may find in a cluster: [cluster -> set]

ASSUME InputsAssumption ==
  /\ ClusterInputs \subseteq Clusters
  /\ \A c \in ClusterInputs : WorkloadInputs[c] \subseteq Workloads

VARIABLES
  cluster,   \* *model.Inventory, the part the scorer reads
  w,         \* *model.Workload
  pc,        \* where Of is
  todo,      \* candidate nodes the loop has not reached
  score,     \* the Score being built
  priced     \* the projection made from the last score, if any

vars == <<cluster, w, pc, todo, score, priced>>

Sources == {"container limit", "node allocatable", "none"}
Reasons == {"", "node list unavailable", "no node available to score against",
            "no node reported allocatable memory"}

Scores ==
  [scored : BOOLEAN, risk : Risks, ceiling : Nat, source : Sources,
   node : NodeNames \cup {NoNode}, neighbors : 0 .. Cardinality(Refs), spot : BOOLEAN,
   request : Nat, assumed : BOOLEAN, hypothetical : BOOLEAN, reason : Reasons]

NoScore ==
  [scored |-> FALSE, risk |-> NoRisk, ceiling |-> 0, source |-> "none",
   node |-> NoNode, neighbors |-> 0, spot |-> FALSE,
   request |-> 0, assumed |-> FALSE, hypothetical |-> FALSE, reason |-> ""]

NotPriced == [request |-> 0, risk |-> NoRisk]
Prices == [request : Nat, risk : Risks]

\* Mutation: the projection forgets the capacity type.
ProjectOnDemand(s, request, ceiling) == Compute(ceiling, request, s.neighbors, FALSE)

Project(s, request, ceiling) == Compute(ceiling, request, s.neighbors, s.spot)

Init ==
  /\ cluster \in ClusterInputs
  /\ w \in WorkloadInputs[cluster]
  /\ pc = "start"
  /\ todo = {}
  /\ score = NoScore
  /\ priced = NotPriced

\* The head of Of: settle the request, find the candidates or give up.
Begin ==
  /\ pc = "start"
  /\ LET settled == [NoScore EXCEPT !.request = EffectiveRequest(w),
                                    !.assumed = w.request <= 0]
     IN  IF CandidateNodes(cluster, w) = {}
         THEN /\ score' = [settled EXCEPT !.reason =
                             IF cluster.known = {} THEN "node list unavailable"
                             ELSE "no node available to score against"]
              /\ pc' = "done"
              /\ todo' = {}
         ELSE /\ score' = [settled EXCEPT !.hypothetical = IsHypothetical(cluster, w)]
              /\ pc' = "scoring"
              /\ todo' = CandidateNodes(cluster, w)
  /\ UNCHANGED <<cluster, w, priced>>

\* The loop visits nodes in name order.
NextNode(n) == n \in todo /\ \A m \in todo : n <= m

\* Mutation: the capacity type of an earlier node stays on the row.
ScoreOnStale(s, n) ==
  [s EXCEPT !.scored = TRUE, !.risk = RiskOn(cluster, w, n), !.node = n,
            !.ceiling = Ceiling(cluster, w, n),
            !.source = IF CeilingIsLimit(cluster, w, n) THEN "container limit"
                       ELSE "node allocatable",
            !.neighbors = Neighbors(cluster, n, Self),
            !.spot = IF s.scored THEN @ ELSE cluster.spot[n]]

ScoreOn(s, n) ==
  [s EXCEPT !.scored = TRUE,
            !.risk = RiskOn(cluster, w, n),
            !.ceiling = Ceiling(cluster, w, n),
            !.source = IF CeilingIsLimit(cluster, w, n) THEN "container limit"
                       ELSE "node allocatable",
            !.node = n,
            !.neighbors = Neighbors(cluster, n, Self),
            !.spot = cluster.spot[n]]

\* Mutation: the first node wins.
BeatsNothing(n) == ~score.scored
\* Mutation: the last of several equally bad nodes wins.
BeatsOrTies(n) == ~score.scored \/ ~Exceeds(score.risk, RiskOn(cluster, w, n))

Beats(n) == ~score.scored \/ Exceeds(RiskOn(cluster, w, n), score.risk)

\* Mutation: a node that reports no memory is scored.
ConsiderAny(n) ==
  /\ pc = "scoring"
  /\ NextNode(n)
  /\ todo' = todo \ {n}
  /\ score' = IF Beats(n) THEN ScoreOn(score, n) ELSE score
  /\ UNCHANGED <<cluster, w, pc, priced>>

\* Mutation: an unscorable node is looked at for ever.
ConsiderStuck(n) ==
  /\ pc = "scoring"
  /\ NextNode(n)
  /\ cluster.alloc[n] > 0
  /\ todo' = todo \ {n}
  /\ score' = IF Beats(n) THEN ScoreOn(score, n) ELSE score
  /\ UNCHANGED <<cluster, w, pc, priced>>

\* One iteration: a node that reports no memory is skipped, and a node replaces
\* the score so far only when it is strictly worse.
Consider(n) ==
  /\ pc = "scoring"
  /\ NextNode(n)
  /\ todo' = todo \ {n}
  /\ score' = IF cluster.alloc[n] > 0 /\ Beats(n) THEN ScoreOn(score, n) ELSE score
  /\ UNCHANGED <<cluster, w, pc, priced>>

Finish ==
  /\ pc = "scoring"
  /\ todo = {}
  /\ pc' = "done"
  /\ score' = IF score.scored THEN score
              ELSE [score EXCEPT !.reason = "no node reported allocatable memory"]
  /\ UNCHANGED <<cluster, w, todo, priced>>

\* A recommendation exists only for a declared request; it proposes a smaller
\* one, and priceRecommendation projects a score only when there is one.
Price(p) ==
  /\ pc = "done"
  /\ priced = NotPriced
  /\ p \in 1 .. (w.request - 1)
  /\ score.scored
  /\ priced' = [request |-> p, risk |-> Project(score, p, score.ceiling)]
  /\ UNCHANGED <<cluster, w, pc, todo, score>>

\* The owner applies the proposal and scans again.
Rescan ==
  /\ pc = "done"
  /\ priced.request > 0
  /\ w.request # priced.request
  /\ w' = [w EXCEPT !.request = priced.request]
  /\ pc' = "start"
  /\ todo' = {}
  /\ score' = NoScore
  /\ UNCHANGED <<cluster, priced>>

Next ==
  \/ Begin
  \/ \E n \in NodeNames : Consider(n)
  \/ Finish
  \/ \E p \in 1 .. w.request : Price(p)
  \/ Rescan

Spec == Init /\ [][Next]_vars /\ WF_vars(Begin \/ (\E n \in NodeNames : Consider(n)) \/ Finish)

-----------------------------------------------------------------------------
TypeOK ==
  /\ cluster \in Clusters
  /\ w \in Workloads
  /\ pc \in {"start", "scoring", "done"}
  /\ todo \in SUBSET NodeNames
  /\ score \in Scores
  /\ priced \in Prices

\* The reported blast radius is the worst over the nodes the workload sits on:
\* no scorable candidate node has a greater one ("the mean across nodes would
\* hide the one node where this workload sits next to thirty neighbors").
WorstOccupiedNode ==
  pc = "done" =>
    \A n \in Scorable(cluster, w) :
      score.scored /\ ~Exceeds(RiskOn(cluster, w, n), score.risk)

\* The loop computes ScoreOf, which is what the other modules take a score to
\* be, ties included: of equally bad nodes the first in name order is reported,
\* so that two scans of one cluster print one row.
LoopIsScoreOf ==
  pc = "done" =>
    ScoreOf(cluster, w) =
      [scored |-> score.scored, risk |-> score.risk, ceiling |-> score.ceiling,
       fromNode |-> score.source = "node allocatable", node |-> score.node,
       neighbors |-> score.neighbors, spot |-> score.spot]

\* Every input printed beside the number is that of the node on the row and of the
\* workload, is marked as assumed or as a forecast when it is, and together they
\* yield the number: a reader who recomputes the formula from the row gets the row.
RowExplainsItself ==
  pc = "done" /\ score.scored =>
    /\ score.node \in CandidateNodes(cluster, w)
    /\ score.risk = Compute(score.ceiling, score.request, score.neighbors, score.spot)
    /\ score.ceiling = Ceiling(cluster, w, score.node)
    /\ score.neighbors = Neighbors(cluster, score.node, Self)
    /\ score.source = "container limit" <=> score.ceiling < cluster.alloc[score.node]
    /\ score.spot = cluster.spot[score.node]
    /\ score.request = EffectiveRequest(w)
    /\ score.assumed <=> w.request <= 0
    /\ score.hypothetical <=> IsHypothetical(cluster, w)

\* A recommendation is evaluated against the arithmetic of the finding that
\* prompted it: once the proposal is applied, a fresh scan of the same cluster
\* reports the risk the recommendation announced.
ProjectionHolds ==
  pc = "done" /\ priced.request > 0 /\ w.request = priced.request =>
    SameRisk(score.risk, priced.risk)

\* Scoring ends for every cluster, whatever its nodes report.
ScoringEnds == pc = "start" ~> pc = "done"

\* The loop implements the promise: a verdict appears once, and it is a worst node.
Promise == INSTANCE WorstNode WITH
             verdict <- IF pc = "done" THEN score.node ELSE -1
PromiseKept == Promise!Spec

-----------------------------------------------------------------------------
(* Statements of comments in the source, for the record.                    *)

\* risk.go:168: the largest node is "the roomiest ceiling it could inherit and
\* therefore its worst case".
HypotheticalIsWorstCase ==
  pc = "done" /\ score.hypothetical =>
    \A n \in cluster.known :
      cluster.alloc[n] > 0 => ~Exceeds(RiskOn(cluster, w, n), score.risk)
=============================================================================
