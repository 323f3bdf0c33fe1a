-------------------------- MODULE BlastRadius_proofs --------------------------
(***************************************************************************)
(* Proofs about the scoring loop, for every cluster, every workload, every *)
(* increasing log table and every request floor.                           *)
(***************************************************************************)
EXTENDS BlastRadius, RiskFormula_proofs, FiniteSetTheorems, TLAPS

-----------------------------------------------------------------------------
(* Type correctness.                                                        *)

LEMMA NoScoreType == NoScore \in Scores
<1>1. 0 \in 0 .. Cardinality(Refs)
  BY RefsAssumption, FS_CardinalityType
<1> QED
  BY <1>1 DEF NoScore, Scores, Risks, NoRisk, Sources, Reasons, NoNode

\* One field of a score at a time.
LEMMA ScoreFields ==
  ASSUME NEW s \in Scores
  PROVE  /\ \A r \in Nat : [s EXCEPT !.request = r] \in Scores
         /\ \A b \in BOOLEAN : [s EXCEPT !.assumed = b] \in Scores
         /\ \A b \in BOOLEAN : [s EXCEPT !.hypothetical = b] \in Scores
         /\ \A q \in Reasons : [s EXCEPT !.reason = q] \in Scores
<1>1. \A r \in Nat : [s EXCEPT !.request = r] \in Scores
  BY DEF Scores
<1>2. \A b \in BOOLEAN : [s EXCEPT !.assumed = b] \in Scores
  BY DEF Scores
<1>3. \A b \in BOOLEAN : [s EXCEPT !.hypothetical = b] \in Scores
  BY DEF Scores
<1>4. \A q \in Reasons : [s EXCEPT !.reason = q] \in Scores
  BY DEF Scores
<1> QED
  BY <1>1, <1>2, <1>3, <1>4

\* Everything risk.Of builds, and everything a projection returns, is in range
\* for every cluster and workload the assumptions allow.
THEOREM TypeCorrect == Spec => []TypeOK
<1>1. Init => TypeOK
  <2> SUFFICES ASSUME Init PROVE TypeOK
    OBVIOUS
  <2>1. cluster \in Clusters /\ w \in Workloads
    BY InputsAssumption DEF Init
  <2>2. score \in Scores /\ priced \in Prices
    BY NoScoreType DEF Init, NoScore, NotPriced, Scores, Prices, Risks, NoRisk, Sources, Reasons, NoNode
  <2> QED
    BY <2>1, <2>2 DEF Init, TypeOK
<1>2. TypeOK /\ [Next]_vars => TypeOK'
  <2> SUFFICES ASSUME TypeOK, [Next]_vars PROVE TypeOK'
    OBVIOUS
  <2> USE DEF TypeOK
  <2>1. CASE Begin
    <3>1. EffectiveRequest(w) \in Nat /\ CandidateNodes(cluster, w) \subseteq NodeNames
      BY EffectiveRequestType, ScorableNodes
    <3> DEFINE settled == [NoScore EXCEPT !.request = EffectiveRequest(w),
                                            !.assumed = w.request <= 0]
    <3>3. settled \in Scores
      <4> DEFINE requested == [NoScore EXCEPT !.request = EffectiveRequest(w)]
      <4>1. requested \in Scores
        BY <3>1, NoScoreType, ScoreFields
      <4>2. (w.request <= 0) \in BOOLEAN
        OBVIOUS
      <4>3. settled = [requested EXCEPT !.assumed = w.request <= 0]
        OBVIOUS
      <4> HIDE DEF requested, settled
      <4> QED
        BY <4>1, <4>2, <4>3, ScoreFields, Zenon
    <3>4. \A r \in Reasons : [settled EXCEPT !.reason = r] \in Scores
      BY <3>3, ScoreFields
    <3>5. [settled EXCEPT !.hypothetical = IsHypothetical(cluster, w)] \in Scores
      <4> HIDE DEF settled
      <4>1. IsHypothetical(cluster, w) \in BOOLEAN
        BY DEF IsHypothetical
      <4> QED
        BY <3>3, <4>1, ScoreFields, Zenon
    <3>6. CASE CandidateNodes(cluster, w) = {}
      <4> DEFINE r == IF cluster.known = {} THEN "node list unavailable"
                      ELSE "no node available to score against"
      <4>1. r \in Reasons
        BY DEF Reasons
      <4>2. score' = [settled EXCEPT !.reason = r] /\ pc' = "done" /\ todo' = {}
        BY <2>1, <3>6 DEF Begin
      <4> HIDE DEF r, settled
      <4>3. score' \in Scores
        BY <3>4, <4>1, <4>2
      <4> QED
        BY <2>1, <4>2, <4>3 DEF Begin
    <3>7. CASE CandidateNodes(cluster, w) # {}
      <4>1. /\ score' = [settled EXCEPT !.hypothetical = IsHypothetical(cluster, w)]
            /\ pc' = "scoring" 
            /\ todo' = CandidateNodes(cluster, w)
        BY <2>1, <3>7 DEF Begin
      <4> HIDE DEF settled
      <4>2. score' \in Scores
        BY <3>5, <4>1
      <4> QED
        BY <2>1, <3>1, <4>1, <4>2 DEF Begin
    <3> QED
      BY <3>6, <3>7
  <2>2. ASSUME NEW n \in NodeNames, Consider(n) PROVE TypeOK'
    <3>1. /\ RiskOn(cluster, w, n) \in Risks
          /\ Ceiling(cluster, w, n) \in Nat
          /\ Neighbors(cluster, n, Self) \in DOMAIN Log2
          /\ cluster.spot[n] \in BOOLEAN
      BY RiskOnType, CeilingType, NeighborsType DEF Clusters
    <3>2. ScoreOn(score, n) \in Scores
      BY <3>1, Log2Assumption DEF ScoreOn, Scores, Sources
    <3>3. score' \in Scores /\ todo' \in SUBSET NodeNames
      BY <2>2, <3>2 DEF Consider
    <3> QED
      BY <2>2, <3>3 DEF Consider
  <2>3. CASE Finish
    BY <2>3 DEF Finish, Scores, Reasons
  <2>4. ASSUME NEW p \in 1 .. w.request, Price(p) PROVE TypeOK'
    <3>1. /\ score.neighbors \in DOMAIN Log2 
          /\ score.ceiling \in Nat 
          /\ score.spot \in BOOLEAN
      BY Log2Assumption DEF Scores
    <3>2. p \in Nat
      BY <2>4 DEF Workloads
    <3>3. Project(score, p, score.ceiling) \in Risks
      BY <3>1, <3>2, ComputeType DEF Project
    <3>4. priced' \in Prices
      BY <2>4, <3>2, <3>3 DEF Price, Prices
    <3> QED
      BY <2>4, <3>4 DEF Price
  <2>5. CASE Rescan
    BY <2>5, NoScoreType DEF Rescan, Workloads, Prices
  <2>6. CASE UNCHANGED vars
    BY <2>6 DEF vars
  <2> QED
    BY <2>1, <2>2, <2>3, <2>4, <2>5, <2>6 DEF Next
<1> QED
  BY <1>1, <1>2, PTL DEF Spec

-----------------------------------------------------------------------------
(* The loop invariant and what follows from it.                             *)

\* Between iterations the score is the worst of the nodes already considered,
\* and it is the score of one of them.
LoopInv ==
  /\ pc = "start" => ~score.scored /\ score.node = NoNode
  /\ pc # "start" => todo \subseteq CandidateNodes(cluster, w)
  /\ pc = "done" => todo = {}
  /\ ~score.scored => score.node = NoNode
  /\ score.scored => /\ score.node \in Scorable(cluster, w)
                     /\ score.risk = RiskOn(cluster, w, score.node)
  /\ pc # "start" =>
       \A n \in Scorable(cluster, w) \ todo :
         score.scored /\ ~Exceeds(RiskOn(cluster, w, n), score.risk)

LEMMA LoopInvInit == Init => LoopInv
<1> SUFFICES ASSUME Init PROVE LoopInv
  OBVIOUS
<1>1. pc = "start" /\ ~score.scored /\ score.node = NoNode
  BY DEF Init, NoScore
<1> QED
  BY <1>1 DEF LoopInv

LEMMA LoopInvBegin == ASSUME TypeOK, LoopInv, Begin PROVE LoopInv'
<1>1. ~score'.scored /\ score'.node = NoNode
  BY NoScoreType DEF Begin, NoScore, Scores
<1>2. /\ UNCHANGED <<cluster, w>>
      /\ CandidateNodes(cluster, w)' = CandidateNodes(cluster, w)
      /\ Scorable(cluster, w)' = Scorable(cluster, w)
  BY DEF Begin
<1>3. pc' # "start" /\ todo' = CandidateNodes(cluster, w)
  BY DEF Begin
<1>4. pc' = "done" => todo' = {}
  BY DEF Begin
<1>5. Scorable(cluster, w) \ todo' = {}
  BY <1>3, ScorableNodes DEF TypeOK
<1> QED
  BY <1>1, <1>2, <1>3, <1>4, <1>5 DEF LoopInv

LEMMA LoopInvConsider ==
  ASSUME TypeOK, LoopInv, NEW n \in NodeNames, Consider(n)
  PROVE  LoopInv'
<1> USE DEF TypeOK
<1>1. /\ UNCHANGED <<cluster, w, pc>>
      /\ pc = "scoring"
      /\ todo' = todo \ {n}
      /\ n \in CandidateNodes(cluster, w)
  BY DEF Consider, NextNode, LoopInv
<1>2. /\ CandidateNodes(cluster, w)' = CandidateNodes(cluster, w)
      /\ Scorable(cluster, w)' = Scorable(cluster, w)
      /\ \A m : RiskOn(cluster, w, m)' = RiskOn(cluster, w, m)
  BY <1>1
<1>3. todo' \subseteq CandidateNodes(cluster, w)
  BY <1>1 DEF LoopInv
<1>4. CASE cluster.alloc[n] > 0 /\ Beats(n)
  <2>1. score' = ScoreOn(score, n)
    BY <1>4 DEF Consider
  <2>2. /\ score'.scored
        /\ score'.node = n
        /\ score'.risk = RiskOn(cluster, w, n)
    BY <2>1 DEF ScoreOn, Scores
  <2>3. n \in Scorable(cluster, w)
    BY <1>1, <1>4 DEF Scorable
  <2>4. ASSUME NEW m \in Scorable(cluster, w) \ todo'
        PROVE  ~Exceeds(RiskOn(cluster, w, m), RiskOn(cluster, w, n))
    <3>1. CASE m = n
      BY <3>1, RiskOnType, NotWorseThanItself
    <3>2. CASE m # n
      <4>1. m \in Scorable(cluster, w) \ todo
        BY <1>1, <3>2
      <4>2. score.scored /\ ~Exceeds(RiskOn(cluster, w, m), score.risk)
        BY <1>1, <4>1 DEF LoopInv
      <4>3. /\ Exceeds(RiskOn(cluster, w, n), score.risk)
            /\ score.node \in Scorable(cluster, w)
            /\ score.risk = RiskOn(cluster, w, score.node)
        BY <1>4, <4>2 DEF Beats, LoopInv
      <4> QED
        BY <2>3, <4>2, <4>3, WorseIsTransitive
    <3> QED
      BY <3>1, <3>2
  <2> QED
    BY <1>1, <1>2, <1>3, <2>2, <2>3, <2>4 DEF LoopInv
<1>5. CASE ~(cluster.alloc[n] > 0 /\ Beats(n))
  <2>1. score' = score
    BY <1>5 DEF Consider
  <2>2. ASSUME NEW m \in Scorable(cluster, w) \ todo'
        PROVE  score.scored /\ ~Exceeds(RiskOn(cluster, w, m), score.risk)
    <3>1. CASE m = n
      BY <1>5, <3>1, ScorableNodes DEF Beats
    <3>2. CASE m # n
      BY <1>1, <3>2 DEF LoopInv
    <3> QED
      BY <3>1, <3>2
  <2> QED
    BY <1>1, <1>2, <1>3, <2>1, <2>2 DEF LoopInv
<1> QED
  BY <1>4, <1>5

LEMMA LoopInvFinish == ASSUME TypeOK, LoopInv, Finish PROVE LoopInv'
<1>1. /\ UNCHANGED <<cluster, w, todo>>
      /\ todo = {}
      /\ pc = "scoring"
      /\ pc' = "done"
  BY DEF Finish
<1>2. score'.scored = score.scored /\ score'.node = score.node /\ score'.risk = score.risk
  BY DEF Finish, TypeOK, Scores
<1>3. /\ CandidateNodes(cluster, w)' = CandidateNodes(cluster, w)
      /\ Scorable(cluster, w)' = Scorable(cluster, w)
      /\ \A m : RiskOn(cluster, w, m)' = RiskOn(cluster, w, m)
  BY <1>1
<1> QED
  BY <1>1, <1>2, <1>3 DEF LoopInv

LEMMA LoopInvRest ==
  ASSUME TypeOK, LoopInv, Rescan \/ (\E p \in 1 .. w.request : Price(p)) \/ UNCHANGED vars
  PROVE  LoopInv'
<1>1. CASE Rescan
  <2>1. pc' = "start" /\ ~score'.scored /\ score'.node = NoNode
    BY <1>1 DEF Rescan, NoScore
  <2> QED
    BY <2>1 DEF LoopInv
<1>2. CASE (\E p \in 1 .. w.request : Price(p)) \/ UNCHANGED vars
  <2>1. UNCHANGED <<cluster, w, pc, todo, score>>
    BY <1>2 DEF Price, vars
  <2>2. /\ CandidateNodes(cluster, w)' = CandidateNodes(cluster, w)
        /\ Scorable(cluster, w)' = Scorable(cluster, w)
        /\ \A m : RiskOn(cluster, w, m)' = RiskOn(cluster, w, m)
    BY <2>1
  <2> QED
    BY <2>1, <2>2 DEF LoopInv
<1> QED
  BY <1>1, <1>2

THEOREM LoopInvariant == Spec => []LoopInv
<1>1. TypeOK /\ LoopInv /\ [Next]_vars => LoopInv'
  <2> SUFFICES ASSUME TypeOK, LoopInv, [Next]_vars PROVE LoopInv'
    OBVIOUS
  <2> QED
    BY LoopInvBegin, LoopInvConsider, LoopInvFinish, LoopInvRest DEF Next
<1> QED
  BY <1>1, LoopInvInit, TypeCorrect, PTL DEF Spec

\* The blast radius reported is the worst over the scorable candidate nodes:
\* no averaging, no node skipped, no early stop.
THEOREM WorstNodeReported == Spec => []WorstOccupiedNode
<1>1. LoopInv => WorstOccupiedNode
  BY DEF LoopInv, WorstOccupiedNode
<1> QED
  BY <1>1, LoopInvariant, PTL

\* The inputs carried by a score are those of the node it names.
RowInv ==
  /\ pc # "start" =>
       /\ score.request = EffectiveRequest(w)
       /\ score.assumed <=> w.request <= 0
       /\ score.hypothetical <=> IsHypothetical(cluster, w)
  /\ score.scored =>
       /\ score.ceiling = Ceiling(cluster, w, score.node)
       /\ score.neighbors = Neighbors(cluster, score.node, Self)
       /\ score.spot = cluster.spot[score.node]
       /\ score.source = "container limit" <=> CeilingIsLimit(cluster, w, score.node)

LEMMA RowInvInit == Init => RowInv
<1> SUFFICES ASSUME Init PROVE RowInv
  OBVIOUS
<1>1. pc = "start" /\ ~score.scored
  BY DEF Init, NoScore
<1> QED
  BY <1>1 DEF RowInv

LEMMA RowInvBegin == ASSUME TypeOK, Begin PROVE RowInv'
<1>1. ~score'.scored /\ score'.request = EffectiveRequest(w)
  BY NoScoreType DEF Begin, NoScore, Scores
<1>2. score'.assumed <=> w.request <= 0
  BY NoScoreType DEF Begin, NoScore, Scores
<1>3. score'.hypothetical <=> IsHypothetical(cluster, w)
  <2>1. CASE CandidateNodes(cluster, w) = {}
    <3>1. ~score'.hypothetical
      BY <2>1, NoScoreType DEF Begin, NoScore, Scores
    <3>2. ~IsHypothetical(cluster, w)
      BY <2>1 DEF CandidateNodes, IsHypothetical
    <3> QED
      BY <3>1, <3>2
  <2>2. CASE CandidateNodes(cluster, w) # {}
    BY <2>2, NoScoreType DEF Begin, NoScore, Scores
  <2> QED
    BY <2>1, <2>2
<1>4. UNCHANGED <<cluster, w>>
  BY DEF Begin
<1>5. EffectiveRequest(w)' = EffectiveRequest(w) /\ IsHypothetical(cluster, w)' = IsHypothetical(cluster, w)
  BY <1>4
<1> QED
  BY <1>1, <1>2, <1>3, <1>4, <1>5 DEF RowInv

LEMMA RowInvConsider ==
  ASSUME TypeOK, RowInv, NEW n \in NodeNames, Consider(n)
  PROVE  RowInv'
<1>1. UNCHANGED <<cluster, w, pc>> /\ pc = "scoring"
  BY DEF Consider
<1>2. /\ EffectiveRequest(w)' = EffectiveRequest(w)
      /\ IsHypothetical(cluster, w)' = IsHypothetical(cluster, w)
      /\ \A m : /\ Ceiling(cluster, w, m)' = Ceiling(cluster, w, m)
              /\ CeilingIsLimit(cluster, w, m)' = CeilingIsLimit(cluster, w, m)
              /\ Neighbors(cluster, m, Self)' = Neighbors(cluster, m, Self)
  BY <1>1
<1>3. CASE score' = ScoreOn(score, n)
  <2>1. /\ score'.scored
        /\ score'.node = n
        /\ score'.request = score.request
        /\ score'.assumed = score.assumed
        /\ score'.hypothetical = score.hypothetical
        /\ score'.ceiling = Ceiling(cluster, w, n)
        /\ score'.neighbors = Neighbors(cluster, n, Self)
        /\ score'.spot = cluster.spot[n]
        /\ score'.source = IF CeilingIsLimit(cluster, w, n) THEN "container limit"
                           ELSE "node allocatable"
    BY <1>3 DEF ScoreOn, TypeOK, Scores
  <2> QED
    BY <1>1, <1>2, <2>1 DEF RowInv
<1>4. CASE score' = score
  BY <1>1, <1>2, <1>4 DEF RowInv
<1> QED
  BY <1>3, <1>4 DEF Consider

LEMMA RowInvFinish == ASSUME TypeOK, RowInv, Finish PROVE RowInv'
<1>1. UNCHANGED <<cluster, w>> /\ pc = "scoring"
  BY DEF Finish
<1>2. /\ score'.scored = score.scored
      /\ score'.node = score.node
      /\ score'.request = score.request
      /\ score'.assumed = score.assumed
      /\ score'.hypothetical = score.hypothetical
      /\ score'.ceiling = score.ceiling
      /\ score'.neighbors = score.neighbors
      /\ score'.spot = score.spot
      /\ score'.source = score.source
  BY DEF Finish, TypeOK, Scores
<1>3. /\ EffectiveRequest(w)' = EffectiveRequest(w)
      /\ IsHypothetical(cluster, w)' = IsHypothetical(cluster, w)
      /\ \A m : /\ Ceiling(cluster, w, m)' = Ceiling(cluster, w, m)
              /\ CeilingIsLimit(cluster, w, m)' = CeilingIsLimit(cluster, w, m)
              /\ Neighbors(cluster, m, Self)' = Neighbors(cluster, m, Self)
  BY <1>1
<1> QED
  BY <1>1, <1>2, <1>3 DEF RowInv

LEMMA RowInvRest ==
  ASSUME RowInv, Rescan \/ (\E p \in 1 .. w.request : Price(p)) \/ UNCHANGED vars
  PROVE  RowInv'
<1>1. CASE Rescan
  <2>1. pc' = "start" /\ ~score'.scored
    BY <1>1 DEF Rescan, NoScore
  <2> QED
    BY <2>1 DEF RowInv
<1>2. CASE (\E p \in 1 .. w.request : Price(p)) \/ UNCHANGED vars
  <2>1. UNCHANGED <<cluster, w, pc, score>>
    BY <1>2 DEF Price, vars
  <2>2. /\ EffectiveRequest(w)' = EffectiveRequest(w)
        /\ IsHypothetical(cluster, w)' = IsHypothetical(cluster, w)
        /\ \A m : /\ Ceiling(cluster, w, m)' = Ceiling(cluster, w, m)
                /\ CeilingIsLimit(cluster, w, m)' = CeilingIsLimit(cluster, w, m)
                /\ Neighbors(cluster, m, Self)' = Neighbors(cluster, m, Self)
    BY <2>1
  <2> QED
    BY <2>1, <2>2 DEF RowInv
<1> QED
  BY <1>1, <1>2

LEMMA RowInvariant == Spec => []RowInv
<1>1. TypeOK /\ RowInv /\ [Next]_vars => RowInv'
  <2> SUFFICES ASSUME TypeOK, RowInv, [Next]_vars PROVE RowInv'
    OBVIOUS
  <2> QED
    BY RowInvBegin, RowInvConsider, RowInvFinish, RowInvRest DEF Next
<1> QED
  BY <1>1, RowInvInit, TypeCorrect, PTL DEF Spec

\* Whatever order the nodes were scored in, what is printed beside a risk, the
\* ceiling, the neighbors, the capacity type and the request, is that of the node
\* it names and of the workload, and yields the risk.
THEOREM RowExplained == Spec => []RowExplainsItself
<1>1. TypeOK /\ LoopInv /\ RowInv => RowExplainsItself
  <2> SUFFICES ASSUME TypeOK, LoopInv, RowInv, pc = "done", score.scored
               PROVE  RowExplainsItself
    BY DEF RowExplainsItself
  <2>1. /\ score.node \in Scorable(cluster, w)
        /\ score.risk = RiskOn(cluster, w, score.node)
    BY DEF LoopInv
  <2>2. score.node \in CandidateNodes(cluster, w) /\ score.node \in NodeNames
    BY <2>1, ScorableNodes DEF TypeOK
  <2>3. /\ score.request = EffectiveRequest(w)
        /\ score.ceiling = Ceiling(cluster, w, score.node)
        /\ score.neighbors = Neighbors(cluster, score.node, Self)
        /\ score.spot = cluster.spot[score.node]
        /\ score.source = "container limit" <=> CeilingIsLimit(cluster, w, score.node)
        /\ score.assumed <=> w.request <= 0
        /\ score.hypothetical <=> IsHypothetical(cluster, w)
    BY DEF RowInv
  <2>4. score.risk = Compute(score.ceiling, score.request, score.neighbors, score.spot)
    BY <2>1, <2>3 DEF RiskOn
  <2>5. CeilingIsLimit(cluster, w, score.node)
          <=> Ceiling(cluster, w, score.node) < cluster.alloc[score.node]
    BY <2>2 DEF Ceiling, CeilingIsLimit, TypeOK, Clusters, Workloads, Unbounded
  <2> QED
    BY <2>2, <2>3, <2>4, <2>5 DEF RowExplainsItself
<1> QED
  BY <1>1, RowInvariant, TypeCorrect, LoopInvariant, PTL

-----------------------------------------------------------------------------
(* The loop implements its promise.                                         *)

\* The abstract module reads the cluster with the same operators.
LEMMA SameOperators ==
  ASSUME NEW c, NEW v
  PROVE  /\ Promise!Scorable(c, v) = Scorable(c, v)
         /\ \A n : Promise!RiskOn(c, v, n) = RiskOn(c, v, n)
         /\ Promise!WorstNodes(c, v) = WorstNodes(c, v)
<1>1. Promise!CandidateNodes(c, v) = CandidateNodes(c, v)
  BY DEF Promise!CandidateNodes, CandidateNodes, Promise!Occupied, Occupied,
         Promise!Largest, Largest
<1>2. Promise!Scorable(c, v) = Scorable(c, v)
  BY <1>1 DEF Promise!Scorable, Scorable
<1>3. ASSUME NEW n PROVE Promise!RiskOn(c, v, n) = RiskOn(c, v, n)
  BY DEF Promise!RiskOn, RiskOn, Promise!Compute, Compute, Promise!Ceiling, Ceiling,
         Promise!CeilingIsLimit, CeilingIsLimit, Promise!EffectiveRequest, EffectiveRequest,
         Promise!Neighbors, Neighbors, Promise!Cardinality, Cardinality, Promise!NoRisk, NoRisk,
         Promise!SpotHalves, SpotHalves, Promise!Unbounded, Unbounded
<1>4. ASSUME NEW r, NEW s PROVE Promise!Exceeds(r, s) = Exceeds(r, s)
  BY DEF Promise!Exceeds, Exceeds
<1>5. Promise!WorstNodes(c, v) = WorstNodes(c, v)
  BY <1>2, <1>3, <1>4 DEF Promise!WorstNodes, WorstNodes
<1> QED
  BY <1>2, <1>3, <1>5

LEMMA SameTypes == Promise!Clusters = Clusters /\ Promise!Workloads = Workloads
  BY DEF Promise!Clusters, Clusters, Promise!Workloads, Workloads, Promise!Unbounded, Unbounded

verdict == IF pc = "done" THEN score.node ELSE -1

LEMMA VerdictDecided ==
  ASSUME TypeOK, LoopInv, verdict = -1, UNCHANGED <<cluster, w>>,
         pc' = "done", LoopInv'
  PROVE  (verdict' = NoNode /\ Scorable(cluster, w) = {}) \/ verdict' \in WorstNodes(cluster, w)
<1>1. verdict' = score'.node /\ todo' = {}
  BY DEF verdict, LoopInv
<1>2. /\ Scorable(cluster, w)' = Scorable(cluster, w)
      /\ \A m : RiskOn(cluster, w, m)' = RiskOn(cluster, w, m)
  OBVIOUS
<1>3. \A m \in Scorable(cluster, w) :
        score'.scored /\ ~Exceeds(RiskOn(cluster, w, m), score'.risk)
  BY <1>1, <1>2 DEF LoopInv
<1>4. CASE score'.scored
  <2>1. /\ score'.node \in Scorable(cluster, w)
        /\ score'.risk = RiskOn(cluster, w, score'.node)
    BY <1>2, <1>4 DEF LoopInv
  <2> QED
    BY <1>1, <1>3, <2>1 DEF WorstNodes
<1>5. CASE ~score'.scored
  BY <1>1, <1>3, <1>5 DEF LoopInv
<1> QED
  BY <1>4, <1>5

\* risk.Of refines "name a worst node": the verdict appears in one step, it
\* names a node no other exceeds, and nothing is scored only when nothing can be.
THEOREM PromiseIsKept == Spec => PromiseKept
<1>1. Init => Promise!Init
  <2> SUFFICES ASSUME Init PROVE Promise!Init
    OBVIOUS
  <2>1. cluster \in Clusters /\ w \in Workloads /\ pc = "start"
    BY InputsAssumption DEF Init
  <2> QED
    BY <2>1, SameTypes DEF Promise!Init, Promise!Undecided
<1>2. ASSUME TypeOK, TypeOK', LoopInv, LoopInv', [Next]_vars
      PROVE  [Promise!Next]_<<cluster, w, verdict>>
  <2>1. CASE Begin \/ Finish
    <3>1. UNCHANGED <<cluster, w>> /\ pc # "done" /\ verdict = -1
      BY <2>1 DEF Begin, Finish, verdict
    <3>2. CASE pc' = "done"
      <4>1. (verdict' = NoNode /\ Scorable(cluster, w) = {}) \/ verdict' \in WorstNodes(cluster, w)
        BY <1>2, <3>1, <3>2, VerdictDecided
      <4>2. verdict' \in WorstNodes(cluster, w) => Scorable(cluster, w) # {}
        BY DEF WorstNodes
      <4>3. Promise!Decide
        BY <3>1, <4>1, <4>2, SameOperators
           DEF Promise!Decide, verdict, Promise!Undecided, Promise!NoNode, NoNode
      <4> QED
        BY <4>3 DEF Promise!Next
    <3>3. CASE pc' # "done"
      BY <3>1, <3>3 DEF verdict
    <3> QED
      BY <3>2, <3>3
  <2>2. ASSUME NEW n \in NodeNames, Consider(n) PROVE UNCHANGED <<cluster, w, verdict>>
    BY <2>2 DEF Consider, verdict
  <2>3. ASSUME NEW p \in 1 .. w.request, Price(p) PROVE UNCHANGED <<cluster, w, verdict>>
    BY <2>3 DEF Price, verdict
  <2>4. CASE Rescan
    <3>1. pc = "done" /\ pc' = "start" /\ UNCHANGED cluster
      BY <2>4 DEF Rescan
    <3>2. score.node # -1
      BY <1>2, NodeNamesAssumption DEF TypeOK, Scores, NoNode
    <3>3. verdict = score.node /\ verdict' = -1
      BY <3>1 DEF verdict
    <3>4. w' \in Workloads /\ w' = [w EXCEPT !.request = w'.request]
      BY <1>2, <2>4 DEF Rescan, TypeOK, Workloads
    <3>5. Promise!Reconsider
      BY <3>1, <3>2, <3>3, <3>4, SameTypes DEF Promise!Reconsider, Promise!Undecided, verdict
    <3> QED
      BY <3>5 DEF Promise!Next
  <2>5. CASE UNCHANGED vars
    BY <2>5 DEF vars, verdict
  <2> QED
    BY <1>2, <2>1, <2>2, <2>3, <2>4, <2>5 DEF Next
<1>3. [Promise!Next]_<<cluster, w, verdict>> => [Promise!Next]_Promise!avars
  BY DEF Promise!avars, verdict
<1> QED
  BY <1>1, <1>2, <1>3, TypeCorrect, LoopInvariant, PTL DEF Spec, PromiseKept, Promise!Spec

-----------------------------------------------------------------------------
(* Ties: which of several equally bad nodes is reported.                    *)

\* The nodes are visited in order, and what is kept is strictly worse than
\* every node before it.  A score that was never taken is blank.
FirstInv ==
  /\ pc # "start" => \A n \in CandidateNodes(cluster, w) \ todo, m \in todo : n < m
  /\ pc # "start" /\ score.scored =>
       /\ score.node \notin todo
       /\ \A n \in Scorable(cluster, w) \ todo :
            n < score.node => Exceeds(score.risk, RiskOn(cluster, w, n))
  /\ score.scored => score.source \in {"container limit", "node allocatable"}
  /\ ~score.scored =>
       /\ score.risk = NoRisk /\ score.ceiling = 0 /\ score.source = "none"
       /\ score.neighbors = 0 /\ score.spot = FALSE

LEMMA NoScoreIsBlank ==
  /\ ~NoScore.scored /\ NoScore.risk = NoRisk /\ NoScore.ceiling = 0 /\ NoScore.source = "none"
  /\ NoScore.neighbors = 0 /\ NoScore.spot = FALSE
BY DEF NoScore

LEMMA FirstInvInit == Init => FirstInv
<1> SUFFICES ASSUME Init PROVE FirstInv
  OBVIOUS
<1>1. pc = "start" /\ score = NoScore
  BY DEF Init
<1> QED
  BY <1>1, NoScoreIsBlank DEF FirstInv

LEMMA FirstInvBegin == ASSUME TypeOK, Begin PROVE FirstInv'
<1>1. /\ score'.scored = NoScore.scored /\ score'.risk = NoScore.risk /\ score'.ceiling = NoScore.ceiling
      /\ score'.source = NoScore.source /\ score'.neighbors = NoScore.neighbors /\ score'.spot = NoScore.spot
  BY NoScoreType DEF Begin, Scores
<1>2. todo' = CandidateNodes(cluster, w) /\ CandidateNodes(cluster, w)' = CandidateNodes(cluster, w)
  BY DEF Begin
<1> QED
  BY <1>1, <1>2, NoScoreIsBlank DEF FirstInv

LEMMA FirstInvConsider ==
  ASSUME TypeOK, LoopInv, FirstInv, NEW n \in NodeNames, Consider(n)
  PROVE  FirstInv'
<1>1. /\ UNCHANGED <<cluster, w, pc>>
      /\ pc = "scoring"
      /\ todo' = todo \ {n}
      /\ n \in todo /\ todo \subseteq CandidateNodes(cluster, w)
      /\ \A m \in todo : n <= m
  BY DEF Consider, NextNode, LoopInv
<1>2. /\ CandidateNodes(cluster, w)' = CandidateNodes(cluster, w)
      /\ Scorable(cluster, w)' = Scorable(cluster, w)
      /\ \A m : RiskOn(cluster, w, m)' = RiskOn(cluster, w, m)
  BY <1>1
<1>3. /\ todo \subseteq Nat /\ CandidateNodes(cluster, w) \subseteq Nat
      /\ Scorable(cluster, w) \subseteq CandidateNodes(cluster, w)
  BY ScorableNodes, NodeNamesAssumption DEF TypeOK
<1>4. \A i \in CandidateNodes(cluster, w) \ todo', m \in todo' : i < m
  <2> SUFFICES ASSUME NEW i \in CandidateNodes(cluster, w) \ todo', NEW m \in todo'
               PROVE  i < m
    OBVIOUS
  <2>1. CASE i = n
    BY <1>1, <1>3, <2>1
  <2>2. CASE i # n
    BY <1>1, <2>2 DEF FirstInv
  <2> QED
    BY <2>1, <2>2
<1>5. CASE cluster.alloc[n] > 0 /\ Beats(n)
  <2>1. score' = ScoreOn(score, n) /\ n \in Scorable(cluster, w)
    BY <1>1, <1>5 DEF Consider, Scorable
  <2>2. /\ score'.scored
        /\ score'.node = n
        /\ score'.risk = RiskOn(cluster, w, n)
        /\ score'.source \in {"container limit", "node allocatable"}
    BY <2>1 DEF ScoreOn, TypeOK, Scores
  <2>3. ASSUME NEW m \in Scorable(cluster, w) \ todo', m < n
        PROVE  Exceeds(RiskOn(cluster, w, n), RiskOn(cluster, w, m))
    <3>1. m \in Scorable(cluster, w) \ todo
      BY <1>1, <1>3, <2>3
    <3>2. score.scored /\ ~Exceeds(RiskOn(cluster, w, m), score.risk)
      BY <1>1, <3>1 DEF LoopInv
    <3>3. /\ Exceeds(RiskOn(cluster, w, n), score.risk)
          /\ score.node \in Scorable(cluster, w)
          /\ score.risk = RiskOn(cluster, w, score.node)
      BY <1>5, <3>2 DEF Beats, LoopInv
    <3> QED
      BY <2>1, <3>2, <3>3, WorseThanBeaten DEF TypeOK
  <2> QED
    BY <1>1, <1>2, <1>4, <2>2, <2>3 DEF FirstInv
<1>6. CASE ~(cluster.alloc[n] > 0 /\ Beats(n))
  <2>1. score' = score
    BY <1>6 DEF Consider
  <2>2. ASSUME score.scored, NEW m \in Scorable(cluster, w) \ todo', m < score.node
        PROVE  Exceeds(score.risk, RiskOn(cluster, w, m))
    <3>1. score.node \in CandidateNodes(cluster, w) \ todo
      BY <1>1, <1>3, <2>2 DEF FirstInv, LoopInv
    <3>2. score.node < n
      BY <1>1, <3>1 DEF FirstInv
    <3>3. m # n
      BY <1>3, <2>2, <3>1, <3>2, <1>1
    <3> QED
      BY <1>1, <2>2, <3>3 DEF FirstInv
  <2> QED
    BY <1>1, <1>2, <1>4, <2>1, <2>2 DEF FirstInv
<1> QED
  BY <1>5, <1>6

LEMMA FirstInvFinish == ASSUME TypeOK, FirstInv, Finish PROVE FirstInv'
<1>1. UNCHANGED <<cluster, w, todo>> /\ pc = "scoring"
  BY DEF Finish
<1>2. /\ score'.scored = score.scored /\ score'.node = score.node /\ score'.risk = score.risk
      /\ score'.ceiling = score.ceiling /\ score'.source = score.source
      /\ score'.neighbors = score.neighbors /\ score'.spot = score.spot
  BY DEF Finish, TypeOK, Scores
<1>3. /\ CandidateNodes(cluster, w)' = CandidateNodes(cluster, w)
      /\ Scorable(cluster, w)' = Scorable(cluster, w)
      /\ \A m : RiskOn(cluster, w, m)' = RiskOn(cluster, w, m)
  BY <1>1
<1> QED
  BY <1>1, <1>2, <1>3 DEF FirstInv

LEMMA FirstInvRest ==
  ASSUME FirstInv, Rescan \/ (\E p \in 1 .. w.request : Price(p)) \/ UNCHANGED vars
  PROVE  FirstInv'
<1>1. CASE Rescan
  <2>1. pc' = "start" /\ score' = NoScore
    BY <1>1 DEF Rescan
  <2> QED
    BY <2>1, NoScoreIsBlank DEF FirstInv
<1>2. CASE (\E p \in 1 .. w.request : Price(p)) \/ UNCHANGED vars
  <2>1. UNCHANGED <<cluster, w, pc, todo, score>>
    BY <1>2 DEF Price, vars
  <2>2. /\ CandidateNodes(cluster, w)' = CandidateNodes(cluster, w)
        /\ Scorable(cluster, w)' = Scorable(cluster, w)
        /\ \A m : RiskOn(cluster, w, m)' = RiskOn(cluster, w, m)
    BY <2>1
  <2> QED
    BY <2>1, <2>2 DEF FirstInv
<1> QED
  BY <1>1, <1>2

LEMMA FirstInvariant == Spec => []FirstInv
<1>1. TypeOK /\ LoopInv /\ FirstInv /\ [Next]_vars => FirstInv'
  <2> SUFFICES ASSUME TypeOK, LoopInv, FirstInv, [Next]_vars PROVE FirstInv'
    OBVIOUS
  <2> QED
    BY FirstInvBegin, FirstInvConsider, FirstInvFinish, FirstInvRest DEF Next
<1> QED
  BY <1>1, FirstInvInit, TypeCorrect, LoopInvariant, PTL DEF Spec

\* The loop computes ScoreOf: of equally bad nodes the first in name order is
\* on the row, and a workload that cannot be scored has a blank one.
THEOREM LoopScores == Spec => []LoopIsScoreOf
<1>1. ASSUME TypeOK, LoopInv, RowInv, FirstInv PROVE LoopIsScoreOf
  <2> USE <1>1
  <2> DEFINE worst == WorstNodes(cluster, w)
             row == [scored |-> score.scored, risk |-> score.risk, ceiling |-> score.ceiling,
                     fromNode |-> score.source = "node allocatable", node |-> score.node,
                     neighbors |-> score.neighbors, spot |-> score.spot]
  <2> SUFFICES ASSUME pc = "done" PROVE ScoreOf(cluster, w) = row
    BY DEF LoopIsScoreOf
  <2>1. todo = {} /\ worst \subseteq Scorable(cluster, w) /\ Scorable(cluster, w) \subseteq Nat
    BY ScorableNodes, NodeNamesAssumption DEF LoopInv, WorstNodes, TypeOK
  <2>2. CASE ~score.scored
    <3>1. worst = {}
      BY <2>1, <2>2 DEF LoopInv
    <3>2. /\ score.scored = FALSE /\ score.risk = NoRisk /\ score.ceiling = 0
          /\ (score.source = "node allocatable") = FALSE
          /\ score.node = NoNode /\ score.neighbors = 0 /\ score.spot = FALSE
      BY <2>2 DEF FirstInv, LoopInv, TypeOK, Scores
    <3>3. row = Unscored
      <4> HIDE <1>1
      <4> QED
        BY <3>2, Zenon DEF Unscored
    <3> QED
      BY <3>1, <3>3 DEF ScoreOf
  <2>3. CASE score.scored
    <3> DEFINE n == score.node
    <3>1. n \in Scorable(cluster, w) /\ score.risk = RiskOn(cluster, w, n)
      BY <2>3 DEF LoopInv
    <3>2. n \in worst
      BY <2>1, <2>3, <3>1 DEF LoopInv, WorstNodes
    <3>3. \A m \in worst : n <= m
      <4> SUFFICES ASSUME NEW m \in worst, m < n PROVE FALSE
        BY <2>1, <3>1
      <4>1. Exceeds(RiskOn(cluster, w, n), RiskOn(cluster, w, m))
        BY <2>1, <2>3, <3>1 DEF FirstInv
      <4> QED
        BY <3>1, <4>1 DEF WorstNodes
    <3>4. n = CHOOSE k \in worst : \A m \in worst : k <= m
      <4>1. \A k \in worst : (\A m \in worst : k <= m) => k = n
        BY <2>1, <3>2, <3>3
      <4> QED
        BY <3>2, <3>3, <4>1
    <3>5. ScoreOf(cluster, w) = ScoreAt(cluster, w, n)
      BY <3>2, <3>4 DEF ScoreOf
    <3>6. /\ score.scored = TRUE
          /\ score.ceiling = Ceiling(cluster, w, n)
          /\ score.neighbors = Neighbors(cluster, n, Self)
          /\ score.spot = cluster.spot[n]
          /\ (score.source = "node allocatable") = ~CeilingIsLimit(cluster, w, n)
      BY <2>3 DEF RowInv, FirstInv, TypeOK, Scores
    <3>7. row = ScoreAt(cluster, w, n)
      <4> HIDE <1>1
      <4> QED
        BY <3>1, <3>6, Zenon DEF ScoreAt
    <3> QED
      BY <3>5, <3>7
  <2> QED
    BY <2>2, <2>3
<1> QED
  BY <1>1, TypeCorrect, LoopInvariant, RowInvariant, FirstInvariant, PTL

-----------------------------------------------------------------------------
(* What a recommendation says it will do to the score.                      *)

\* A price is the risk, at the proposed request, of a node that is worst for it.
PriceInv ==
  priced.request > 0 =>
    \E n \in WorstNodes(cluster, Asking(w, priced.request)) :
      priced.risk = RiskOn(cluster, Asking(w, priced.request), n)

LEMMA PriceInvPrice ==
  ASSUME TypeOK, LoopInv, RowInv, NEW p \in 1 .. w.request, Price(p)
  PROVE  PriceInv'
<1> USE DEF TypeOK
<1> DEFINE n == score.node
<1>1. /\ pc = "done" /\ score.scored /\ UNCHANGED <<cluster, w>>
      /\ priced' = [request |-> p, risk |-> Project(score, p, score.ceiling)]
      /\ p \in Nat \ {0}
  BY DEF Price, Workloads
<1>2. n \in Scorable(cluster, w) /\ score.risk = RiskOn(cluster, w, n) /\ todo = {}
  BY <1>1 DEF LoopInv
<1>3. n \in WorstNodes(cluster, w)
  BY <1>1, <1>2 DEF LoopInv, WorstNodes
<1>4. n \in WorstNodes(cluster, Asking(w, p))
  BY <1>1, <1>3, RequestKeepsWorst
<1>5. /\ EffectiveRequest(Asking(w, p)) = p
      /\ Ceiling(cluster, Asking(w, p), n) = Ceiling(cluster, w, n)
  BY <1>1, RequestScalesRisk
<1>6. Project(score, p, score.ceiling) = RiskOn(cluster, Asking(w, p), n)
  BY <1>1, <1>5 DEF Project, RiskOn, RowInv
<1>7. priced'.request = p /\ priced'.risk = RiskOn(cluster, Asking(w, p), n)
  BY <1>1, <1>6
<1> QED
  BY <1>1, <1>4, <1>7 DEF PriceInv

LEMMA PriceInvRescan ==
  ASSUME TypeOK, PriceInv, Rescan
  PROVE  PriceInv'
<1>1. /\ UNCHANGED <<cluster, priced>>
      /\ w' = [w EXCEPT !.request = priced.request]
      /\ priced.request > 0 /\ priced.request \in Nat
  BY DEF Rescan, TypeOK, Prices
<1>2. Asking(w', priced.request) = Asking(w, priced.request)
  BY <1>1 DEF Asking, TypeOK, Workloads
<1> QED
  BY <1>1, <1>2 DEF PriceInv

LEMMA PriceInvariant == Spec => []PriceInv
<1>1. Init => PriceInv
  BY DEF Init, PriceInv, NotPriced
<1>2. TypeOK /\ LoopInv /\ RowInv /\ PriceInv /\ [Next]_vars => PriceInv'
  <2> SUFFICES ASSUME TypeOK, LoopInv, RowInv, PriceInv, [Next]_vars PROVE PriceInv'
    OBVIOUS
  <2>1. CASE Begin \/ Finish \/ (\E n \in NodeNames : Consider(n)) \/ UNCHANGED vars
    <3>1. UNCHANGED <<cluster, w, priced>>
      BY <2>1 DEF Begin, Finish, Consider, vars
    <3> QED
      BY <3>1 DEF PriceInv
  <2> QED
    BY <2>1, PriceInvPrice, PriceInvRescan DEF Next
<1> QED
  BY <1>1, <1>2, TypeCorrect, LoopInvariant, RowInvariant, PTL DEF Spec

\* A recommendation that is taken delivers what it announced: the next scan of
\* the cluster reports the projected risk, whichever node it now names.
THEOREM ProjectionsHold == Spec => []ProjectionHolds
<1>1. ASSUME TypeOK, LoopInv, PriceInv PROVE ProjectionHolds
  <2> USE <1>1
  <2> SUFFICES ASSUME pc = "done", priced.request > 0, w.request = priced.request
               PROVE  SameRisk(score.risk, priced.risk)
    BY DEF ProjectionHolds
  <2>1. Asking(w, priced.request) = w
    BY DEF Asking, TypeOK, Workloads
  <2>2. PICK n \in WorstNodes(cluster, w) : priced.risk = RiskOn(cluster, w, n)
    BY <2>1 DEF PriceInv
  <2>3. todo = {} /\ n \in Scorable(cluster, w)
    BY DEF LoopInv, WorstNodes
  <2>4. score.scored
    BY <2>3 DEF LoopInv
  <2>5. score.node \in WorstNodes(cluster, w) /\ score.risk = RiskOn(cluster, w, score.node)
    BY <2>3, <2>4 DEF LoopInv, WorstNodes
  <2> QED
    BY <2>2, <2>5, WorstIsOne DEF TypeOK
<1> QED
  BY <1>1, TypeCorrect, LoopInvariant, PriceInvariant, PTL
=============================================================================
