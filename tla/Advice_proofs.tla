---------------------------- MODULE Advice_proofs ----------------------------
(***************************************************************************)
(* Proofs about the recommendations, for every cluster, every workload and *)
(* every setting of the flags the command line accepts.  What depends on   *)
(* the rounding of a printed number is proved at the default proportions.  *)
(***************************************************************************)
EXTENDS Advice, RiskFormula_proofs, Units_proofs

-----------------------------------------------------------------------------
(* Rounding.                                                                *)

\* A factor of at least one never loses a unit.
LEMMA ScaledCovers ==
  ASSUME NEW b \in Nat, NEW f \in Factors
  PROVE  Scaled(b, f) \in Nat /\ (f.num >= f.den => b <= Scaled(b, f))
<1> DEFINE q == Scaled(b, f)
           u == f.den
<1>1. f.num \in Nat /\ u \in Nat \ {0}
  BY DEF Factors
<1>2. b * f.num \in Nat
  BY <1>1, MulNat
<1>3. q \in Nat /\ b * f.num < q * u + u
  <2> DEFINE a == b * f.num
  <2>1. q = a \div u
    BY DEF Scaled
  <2> HIDE DEF a, u
  <2>2. a \div u \in Nat /\ a % u \in Nat /\ a % u < u /\ a = (a \div u) * u + (a % u)
    BY <1>1, <1>2, Division DEF a
  <2> HIDE DEF q
  <2>3. q * u \in Nat
    BY <1>1, <2>1, <2>2, MulNat
  <2>4. q \in Nat /\ a < q * u + u
    BY <1>1, <2>1, <2>2, <2>3
  <2> QED
    BY <2>4 DEF a
<1>4. ASSUME f.num >= f.den, q < b
      PROVE  FALSE
  <2>1. q + 1 <= b
    BY <1>3, <1>4
  <2> HIDE DEF q, u
  <2>2. (q + 1) * u <= b * u
    BY <1>1, <1>3, <2>1
  <2>3. b * u <= b * f.num
    BY <1>1, <1>4 DEF u
  <2>4. (q + 1) * u = q * u + u
    BY <1>1, <1>3
  <2>5. q * u \in Nat /\ b * u \in Nat
    BY <1>1, <1>3, MulNat
  <2> QED
    BY <1>1, <1>2, <1>3, <2>2, <2>3, <2>4, <2>5
<1> QED
  BY <1>3, <1>4

\* What is proposed covers what the busiest pod uses, and is not under the floor.
LEMMA ProposedCovers ==
  ASSUME NEW use \in Nat
  PROVE  /\ Proposed(use) \in Nat \ {0} /\ MinRequest <= Proposed(use) /\ use <= Proposed(use)
         /\ Proposed(use) = MinRequest \/ Proposed(use) = RoundUpMi(Scaled(use, Headroom))
<1>1. /\ Headroom \in Factors /\ Headroom.num >= Headroom.den
      /\ MinRequest \in Nat \ {0} /\ Mi \in Nat \ {0}
  BY FlagsAssumption, UnitSizesAssumption
<1>2. Scaled(use, Headroom) \in Nat /\ use <= Scaled(use, Headroom)
  BY <1>1, ScaledCovers
<1>3. /\ RoundUpMi(Scaled(use, Headroom)) \in Nat
      /\ Scaled(use, Headroom) <= RoundUpMi(Scaled(use, Headroom))
  BY <1>1, <1>2, RoundUpBounds DEF RoundUpMi
<1> QED
  BY <1>1, <1>2, <1>3 DEF Proposed

-----------------------------------------------------------------------------
(* Findings have their types.                                               *)

\* A recommendation is made only when it shrinks the request.
LEMMA AdviseCuts ==
  ASSUME NEW request \in Nat, NEW use \in Nat
  PROVE  /\ MemBand(request, use) \in Bands
         /\ MemBand(request, use) = "advise" =>
              /\ request > 0 /\ use > 0 /\ MoreThan(request, use, Divergence)
              /\ Proposed(use) < request
<1>1. Proposed(use) \in Nat
  BY ProposedCovers
<1>2. CASE request <= 0 \/ use <= 0
  <2>1. MemBand(request, use) = "none"
    BY <1>2 DEF MemBand
  <2> QED
    BY <2>1 DEF Bands
<1>3. CASE request > 0 /\ use > 0 /\ MoreThan(request, use, Divergence)
  <2>1. MemBand(request, use) = IF AtLeast(request, use, IdleRatio) THEN "idle"
                                ELSE IF Proposed(use) >= request THEN "floor" ELSE "advise"
    BY <1>3 DEF MemBand
  <2> QED
    BY <1>1, <1>3, <2>1 DEF Bands
<1>4. CASE request > 0 /\ use > 0 /\ ~MoreThan(request, use, Divergence)
  <2>1. MemBand(request, use) = IF use > request THEN "under" ELSE "none"
    BY <1>4 DEF MemBand
  <2> QED
    BY <2>1 DEF Bands
<1> QED
  BY <1>2, <1>3, <1>4

LEMMA PriceType ==
  ASSUME NEW s \in ScoreRecords, NEW current \in Nat, NEW proposed \in Nat
  PROVE  PriceRecommendation(s, current, proposed) \in Recs
<1> DEFINE after == IF s.scored THEN Compute(s.ceiling, proposed, s.neighbors, s.spot) ELSE s.risk
           raises == s.scored /\ s.risk.num > 0 /\ Raises(after, s.risk)
           guard == IF ~raises THEN "none" ELSE IF s.fromNode THEN SetLimit ELSE LowerLimit
<1>1. /\ s.risk \in Risks /\ s.ceiling \in Nat /\ s.neighbors \in DOMAIN Log2 /\ s.spot \in BOOLEAN
  BY Log2Assumption DEF ScoreRecords
<1>2. after \in Risks
  BY <1>1, ComputeType
<1>3. raises \in BOOLEAN
  BY DEF Raises, ScoreRecords
<1>4. guard \in {"none", SetLimit, LowerLimit}
  OBVIOUS
<1>5. PriceRecommendation(s, current, proposed)
        = [current |-> current, proposed |-> proposed, before |-> s.risk, after |-> after,
           raises |-> raises, guard |-> guard]
  BY DEF PriceRecommendation
<1> HIDE DEF after, raises, guard
<1> QED
  BY <1>1, <1>2, <1>3, <1>4, <1>5 DEF Recs

\* What a recommendation is made of.
LEMMA Advised ==
  ASSUME NEW s \in ScoreRecords, NEW request \in Nat, NEW use \in Nat,
         MemBand(request, use) = "advise"
  PROVE  /\ MemFinding(s, request, use).band = "advise"
         /\ MemFinding(s, request, use).rec = PriceRecommendation(s, request, Proposed(use))
         /\ MemFinding(s, request, use).rec.current = request
         /\ MemFinding(s, request, use).rec.proposed = Proposed(use)
         /\ MemFinding(s, request, use).contradiction
              = Contradiction(s, PriceRecommendation(s, request, Proposed(use)))
<1>1. /\ MemFinding(s, request, use).band = "advise"
      /\ MemFinding(s, request, use).rec = PriceRecommendation(s, request, Proposed(use))
      /\ MemFinding(s, request, use).contradiction
           = Contradiction(s, PriceRecommendation(s, request, Proposed(use)))
  BY DEF MemFinding
<1>2. /\ PriceRecommendation(s, request, Proposed(use)).current = request
      /\ PriceRecommendation(s, request, Proposed(use)).proposed = Proposed(use)
  BY DEF PriceRecommendation
<1> QED
  BY <1>1, <1>2

LEMMA BandOf ==
  ASSUME NEW s, NEW request, NEW use
  PROVE  MemFinding(s, request, use).band = MemBand(request, use)
BY DEF MemFinding

Contradictions ==
  [why : {"none", NoLimitSet, LimitStays}, ceiling : Nat, saved : Nat,
   node : NodeNames \cup {NoNode}, neighbors : 0 .. Cardinality(Refs)]

LEMMA ContradictionType ==
  ASSUME NEW s \in ScoreRecords, NEW rec \in Recs, rec.raises => rec.proposed <= rec.current
  PROVE  Contradiction(s, rec) \in Contradictions
<1>1. CASE ~rec.raises
  <2>1. Contradiction(s, rec) = NoContradiction
    BY <1>1 DEF Contradiction
  <2> QED
    BY <2>1, ZeroNeighbors DEF NoContradiction, Contradictions
<1>2. CASE rec.raises
  <2> DEFINE saved == rec.current - rec.proposed
             why == IF s.fromNode THEN NoLimitSet ELSE LimitStays
  <2>1. saved \in Nat
    BY <1>2 DEF Recs
  <2>2. why \in {"none", NoLimitSet, LimitStays}
    OBVIOUS
  <2>3. Contradiction(s, rec) = [why |-> why, ceiling |-> s.ceiling, node |-> s.node,
                                 neighbors |-> s.neighbors, saved |-> saved]
    BY <1>2 DEF Contradiction
  <2> HIDE DEF saved, why
  <2> QED
    BY <2>1, <2>2, <2>3 DEF ScoreRecords, Contradictions
<1> QED
  BY <1>1, <1>2

LEMMA NoRecType == NoRec \in Recs /\ NoRec.raises = FALSE
<1>1. NoRisk \in Risks
  BY DEF NoRisk, Risks
<1> QED
  BY <1>1 DEF NoRec, Recs

LEMMA MemFindingType ==
  ASSUME NEW s \in ScoreRecords, NEW request \in Nat, NEW use \in Nat
  PROVE  FindingOK(MemFinding(s, request, use))
<1> DEFINE band == MemBand(request, use)
           rec == IF band = "advise" THEN PriceRecommendation(s, request, Proposed(use)) ELSE NoRec
           severity == IF band = "none" THEN "none"
                       ELSE IF band = "under" \/ rec.raises THEN "warn" ELSE "info"
<1>1. band \in Bands
  BY AdviseCuts
<1>2. rec \in Recs /\ (rec.raises => rec.proposed <= rec.current)
  <2>1. CASE band = "advise"
    <3>1. Proposed(use) \in Nat /\ Proposed(use) < request
      BY <2>1, AdviseCuts, ProposedCovers
    <3>2. rec = PriceRecommendation(s, request, Proposed(use)) /\ rec \in Recs
      BY <2>1, <3>1, PriceType
    <3>3. rec.proposed = Proposed(use) /\ rec.current = request
      BY <3>2 DEF PriceRecommendation
    <3> HIDE DEF rec
    <3> QED
      BY <3>1, <3>2, <3>3
  <2>2. CASE band # "advise"
    <3>1. rec = NoRec
      BY <2>2
    <3> QED
      BY <3>1, NoRecType
  <2> QED
    BY <2>1, <2>2
<1>3. severity \in {"none", "info", "warn"}
  OBVIOUS
<1>4. MemFinding(s, request, use) = [band |-> band, severity |-> severity, rec |-> rec,
                                     contradiction |-> Contradiction(s, rec)]
  BY DEF MemFinding
<1> HIDE DEF band, rec, severity
<1>5. Contradiction(s, rec) \in Contradictions
  BY <1>2, ContradictionType
<1> QED
  BY <1>1, <1>2, <1>3, <1>4, <1>5 DEF FindingOK, Contradictions

LEMMA NoFindingType == FindingOK(NoFinding)
<1>1. NoContradiction \in Contradictions
  BY ZeroNeighbors DEF NoContradiction, Contradictions
<1> QED
  BY <1>1, NoRecType DEF NoFinding, FindingOK, Bands, Contradictions

LEMMA CpuFindingType ==
  ASSUME NEW request \in Nat, NEW use \in Nat
  PROVE  CpuFinding(request, use) \in [band : Bands, current : Nat, proposed : Nat]
<1> DEFINE band == CpuBand(request, use)
           number == RoundUpMilli(Scaled(use, Headroom))
<1>1. band \in Bands
  BY DEF CpuBand, Bands
<1>2. number \in Nat
  <2>1. Scaled(use, Headroom) \in Nat
    BY ScaledCovers, FlagsAssumption
  <2> QED
    BY <2>1, RoundUpBounds DEF RoundUpMilli
<1>3. CpuFinding(request, use)
        = [band |-> band, current |-> IF band = "advise" THEN request ELSE 0,
           proposed |-> IF band = "advise" THEN number ELSE 0]
  BY DEF CpuFinding
<1> HIDE DEF band, number
<1> QED
  BY <1>1, <1>2, <1>3

-----------------------------------------------------------------------------
(* The inductive invariant: a report is about the workload as it is, and    *)
(* advice that was followed was about the workload as it was.               *)

Followed == {"applied", "applied as printed", "applied with guard"}

ReportedInv ==
  pc = "reported" => score = ScoreOf(cluster, w) /\ finding = MemFinding(score, w.request, usage)

FollowedInv ==
  last.act \in Followed =>
    \E v \in Workloads :
      /\ last.finding = MemFinding(ScoreOf(cluster, v), v.request, usage)
      /\ last.finding.band = "advise"
      /\ w.request \in Numbers(last.finding.rec)
      /\ last.act = "applied" => w = Asking(v, last.finding.rec.proposed)

IInv == TypeOK /\ ReportedInv /\ FollowedInv

LEMMA WorkloadType ==
  ASSUME NEW v \in Workloads, NEW request \in Nat, NEW limit \in Nat \cup {Unbounded}
  PROVE  /\ [v EXCEPT !.request = request] \in Workloads
         /\ [v EXCEPT !.request = request].request = request
         /\ [v EXCEPT !.limit = limit] \in Workloads
         /\ [v EXCEPT !.request = request, !.limit = limit] \in Workloads
         /\ [v EXCEPT !.request = request, !.limit = limit].request = request
BY DEF Workloads

LEMMA NumberType ==
  ASSUME NEW f, FindingOK(f), NEW number \in Numbers(f.rec)
  PROVE  number \in Nat
<1>1. f.rec.proposed \in Nat
  BY DEF FindingOK, Recs
<1> QED
  BY <1>1, PrintedIsNear DEF Numbers

LEMMA StartsWell == Init => IInv
<1> SUFFICES ASSUME Init PROVE IInv
  OBVIOUS
<1>1. cluster \in Clusters /\ w \in Workloads /\ usage \in Nat /\ cpu \in [request : Nat, usage : Nat]
  BY AdviceInputsAssumption DEF Init
<1>2. Unscored \in ScoreRecords
  <2>1. NoRisk \in Risks
    BY DEF NoRisk, Risks
  <2> QED
    BY <2>1, ZeroNeighbors DEF Unscored, ScoreRecords
<1>3. NoCpuFinding \in [band : Bands, current : Nat, proposed : Nat]
  BY DEF NoCpuFinding, Bands
<1>4. 0 \in 0 .. MaxSamples
  BY AdviceInputsAssumption
<1>5. last.act = "none" /\ last.finding = NoFinding
  BY DEF Init
<1>6. TypeOK
  BY <1>1, <1>2, <1>3, <1>4, <1>5, NoFindingType DEF Init, TypeOK, ScoreRecords
<1> QED
  BY <1>5, <1>6 DEF Init, IInv, ReportedInv, FollowedInv, Followed

LEMMA ScanStep == IInv /\ Scan => IInv'
<1> SUFFICES ASSUME IInv, Scan PROVE IInv'
  OBVIOUS
<1> USE DEF IInv
<1>1. /\ score' = ScoreOf(cluster, w) /\ finding' = MemFinding(score', w.request, usage)
      /\ cpuFinding' = CpuFinding(cpu.request, cpu.usage) /\ pc' = "reported"
      /\ UNCHANGED <<cluster, w, usage, cpu, last, samples>>
  BY DEF Scan
<1>2. cluster \in Clusters /\ w \in Workloads /\ usage \in Nat /\ w.request \in Nat
      /\ cpu.request \in Nat /\ cpu.usage \in Nat
  BY DEF TypeOK, Workloads
<1>3. score' \in ScoreRecords
  BY <1>1, <1>2, ScoreOfType
<1>4. FindingOK(finding')
  BY <1>1, <1>2, <1>3, MemFindingType
<1>5. cpuFinding' \in [band : Bands, current : Nat, proposed : Nat]
  BY <1>1, <1>2, CpuFindingType
<1>6. TypeOK'
  BY <1>1, <1>3, <1>4, <1>5 DEF TypeOK, ScoreRecords
<1>7. ReportedInv'
  BY <1>1 DEF ReportedInv
<1>8. FollowedInv'
  BY <1>1 DEF FollowedInv
<1> QED
  BY <1>6, <1>7, <1>8

\* Whatever the owner does, the report stays what it was until the next scan.
LEMMA OwnerStep ==
  ASSUME IInv, NEW act \in {"applied", "applied as printed", "guard landed",
                            "applied with guard", "cpu applied"},
         Owner(act), w' \in Workloads, cpu' \in [request : Nat, usage : Nat]
  PROVE  TypeOK' /\ ReportedInv' /\ last'.act = act /\ last'.finding = finding
<1>1. /\ pc' = "scan" /\ last'.act = act /\ last'.finding = finding
      /\ UNCHANGED <<cluster, usage, score, finding, cpuFinding, samples>>
  BY DEF Owner
<1>2. ReportedInv'
  BY <1>1 DEF ReportedInv
<1>3. FindingOK(finding)' /\ FindingOK(last'.finding)
  BY <1>1 DEF IInv, TypeOK
<1> QED
  BY <1>1, <1>2, <1>3 DEF IInv, TypeOK

LEMMA RecommendedFollows ==
  ASSUME IInv, Recommended
  PROVE  /\ finding = MemFinding(ScoreOf(cluster, w), w.request, usage)
         /\ finding.band = "advise" /\ FindingOK(finding)
BY DEF IInv, Recommended, ReportedInv, TypeOK

LEMMA ApplyAloneStep ==
  ASSUME IInv, NEW number \in Numbers(finding.rec), ApplyAlone(number)
  PROVE  IInv'
<1> DEFINE act == IF Exactly(number) THEN "applied" ELSE "applied as printed"
<1>1. Recommended /\ w' = [w EXCEPT !.request = number] /\ UNCHANGED cpu /\ Owner(act)
  BY DEF ApplyAlone
<1>2. /\ finding = MemFinding(ScoreOf(cluster, w), w.request, usage)
      /\ finding.band = "advise" /\ FindingOK(finding)
  BY <1>1, RecommendedFollows
<1>3. number \in Nat
  BY <1>2, NumberType
<1>4. w \in Workloads
  BY DEF IInv, TypeOK
<1>5. w' \in Workloads /\ w'.request = number
  BY <1>1, <1>3, <1>4, WorkloadType
<1>6. cpu' \in [request : Nat, usage : Nat]
  BY <1>1 DEF IInv, TypeOK
<1>7. TypeOK' /\ ReportedInv' /\ last'.act = act /\ last'.finding = finding
  BY <1>1, <1>5, <1>6, OwnerStep
<1>8. UNCHANGED <<cluster, usage>>
  BY <1>1 DEF Owner
<1>9. last'.act = "applied" => w' = Asking(w, last'.finding.rec.proposed)
  BY <1>1, <1>7 DEF Exactly, Asking
<1>10. FollowedInv'
  BY <1>2, <1>4, <1>5, <1>7, <1>8, <1>9 DEF FollowedInv
<1> QED
  BY <1>7, <1>10 DEF IInv

LEMMA ApplyWithLimitStep ==
  ASSUME IInv, NEW number \in Numbers(finding.rec), NEW limit \in Landable,
         ApplyWithLimit(number, limit)
  PROVE  IInv'
<1>1. /\ Recommended /\ w' = [w EXCEPT !.request = number, !.limit = limit]
      /\ UNCHANGED cpu /\ Owner("applied with guard")
  BY DEF ApplyWithLimit
<1>2. /\ finding = MemFinding(ScoreOf(cluster, w), w.request, usage)
      /\ finding.band = "advise" /\ FindingOK(finding)
  BY <1>1, RecommendedFollows
<1>3. number \in Nat /\ limit \in Nat
  BY <1>2, NumberType, AdviceInputsAssumption
<1>4. w \in Workloads
  BY DEF IInv, TypeOK
<1>5. w' \in Workloads /\ w'.request = number
  BY <1>1, <1>3, <1>4, WorkloadType
<1>6. cpu' \in [request : Nat, usage : Nat]
  BY <1>1 DEF IInv, TypeOK
<1>7. TypeOK' /\ ReportedInv' /\ last'.act = "applied with guard" /\ last'.finding = finding
  BY <1>1, <1>5, <1>6, OwnerStep
<1>8. UNCHANGED <<cluster, usage>>
  BY <1>1 DEF Owner
<1>9. FollowedInv'
  BY <1>2, <1>4, <1>5, <1>7, <1>8 DEF FollowedInv
<1> QED
  BY <1>7, <1>9 DEF IInv

LEMMA LandLimitStep ==
  ASSUME IInv, NEW limit \in Landable, LandLimit(limit)
  PROVE  IInv'
<1>1. /\ w' = [w EXCEPT !.limit = limit] /\ UNCHANGED cpu /\ Owner("guard landed")
  BY DEF LandLimit
<1>2. w \in Workloads /\ limit \in Nat
  BY AdviceInputsAssumption DEF IInv, TypeOK
<1>3. w' \in Workloads
  <2>1. 0 \in Nat
    OBVIOUS
  <2> QED
    BY <1>1, <1>2, <2>1, WorkloadType
<1>4. cpu' \in [request : Nat, usage : Nat]
  BY <1>1 DEF IInv, TypeOK
<1>5. TypeOK' /\ ReportedInv' /\ last'.act = "guard landed"
  BY <1>1, <1>3, <1>4, OwnerStep
<1> QED
  BY <1>5 DEF IInv, FollowedInv, Followed

LEMMA ApplyCpuStep ==
  ASSUME IInv, ApplyCpu
  PROVE  IInv'
<1>1. /\ cpu' = [cpu EXCEPT !.request = cpuFinding.proposed] /\ UNCHANGED w
      /\ Owner("cpu applied")
  BY DEF ApplyCpu
<1>2. w' \in Workloads /\ cpu' \in [request : Nat, usage : Nat]
  BY <1>1 DEF IInv, TypeOK
<1>3. TypeOK' /\ ReportedInv' /\ last'.act = "cpu applied"
  BY <1>1, <1>2, OwnerStep
<1> QED
  BY <1>3 DEF IInv, FollowedInv, Followed

LEMMA ResampleStep ==
  ASSUME IInv, NEW use \in Usages, Resample(use)
  PROVE  IInv'
<1>1. /\ samples < MaxSamples /\ usage' = use /\ samples' = samples + 1 /\ pc' = "scan"
      /\ last'.act = "resampled" /\ last'.finding = NoFinding
      /\ UNCHANGED <<cluster, w, cpu, score, finding, cpuFinding>>
  BY DEF Resample
<1>2. use \in Nat /\ samples' \in 0 .. MaxSamples
  <2>1. MaxSamples \in Nat /\ Usages \subseteq Nat
    BY AdviceInputsAssumption
  <2>2. samples \in 0 .. MaxSamples
    BY DEF IInv, TypeOK
  <2> QED
    BY <1>1, <2>1, <2>2
<1>3. TypeOK'
  BY <1>1, <1>2, NoFindingType DEF IInv, TypeOK
<1> QED
  BY <1>1, <1>3 DEF IInv, ReportedInv, FollowedInv, Followed

\* Whatever the owner does, in whatever order, every report is about the
\* workload as it then is, and what was followed was the tool's own advice.
THEOREM AdviceIsTraceable == Spec => []IInv
<1>1. Init => IInv
  BY StartsWell
<1>2. IInv /\ [Next]_vars => IInv'
  <2> SUFFICES ASSUME IInv, [Next]_vars PROVE IInv'
    OBVIOUS
  <2>1. CASE Scan
    BY <2>1, ScanStep
  <2>2. CASE OwnerActs
    BY <2>2, ApplyAloneStep, ApplyWithLimitStep, LandLimitStep DEF OwnerActs
  <2>3. CASE ApplyCpu
    BY <2>3, ApplyCpuStep
  <2>4. CASE \E use \in Usages : Resample(use)
    BY <2>4, ResampleStep
  <2>5. CASE UNCHANGED vars
    BY <2>5 DEF vars, IInv, TypeOK, ReportedInv, FollowedInv
  <2> QED
    BY <2>1, <2>2, <2>3, <2>4, <2>5 DEF Next
<1> QED
  BY <1>1, <1>2, PTL DEF Spec

\* Scores, findings and recommendations keep their types.
THEOREM TypeCorrect == Spec => []TypeOK
BY AdviceIsTraceable, PTL DEF IInv

-----------------------------------------------------------------------------
(* The contradiction.                                                       *)

\* What a recommendation announces is what a scan reports once it is taken alone:
\* of the request, only the denominator of the risk depends.
LEMMA PriceIsNextScore ==
  ASSUME NEW c \in Clusters, NEW v \in Workloads, NEW p \in Nat \ {0}, v.request > 0,
         ScoreOf(c, Asking(v, p)).scored
  PROVE  LET s == ScoreOf(c, v)
             t == ScoreOf(c, Asking(v, p))
         IN  /\ s.scored /\ t.ceiling = s.ceiling /\ t.node = s.node /\ t.neighbors = s.neighbors
             /\ t.risk = Compute(s.ceiling, p, s.neighbors, s.spot)
             /\ ~s.fromNode => v.limit = s.ceiling
<1> DEFINE s == ScoreOf(c, v)
           t == ScoreOf(c, Asking(v, p))
           worst == WorstNodes(c, v)
           n == CHOOSE k \in worst : \A m \in worst : k <= m
<1>1. Asking(v, p) \in Workloads /\ EffectiveRequest(Asking(v, p)) = p
      /\ \A m : Ceiling(c, Asking(v, p), m) = Ceiling(c, v, m)
  BY RequestScalesRisk
<1>2. WorstNodes(c, Asking(v, p)) = worst
  BY RequestKeepsWorst
<1>3. worst # {}
  BY <1>1, <1>2, ScoreOfType DEF Unscored
<1>4. s = ScoreAt(c, v, n)
  BY <1>3 DEF ScoreOf
<1>5. t = ScoreAt(c, Asking(v, p), n)
  BY <1>2, <1>3 DEF ScoreOf
<1> HIDE DEF n, s, t, worst
<1>6. s.scored /\ s.ceiling = Ceiling(c, v, n) /\ s.node = n
      /\ s.neighbors = Neighbors(c, n, Self) /\ s.spot = c.spot[n]
      /\ s.fromNode = ~CeilingIsLimit(c, v, n)
  BY <1>4 DEF ScoreAt
<1>7. t.ceiling = Ceiling(c, v, n) /\ t.node = n /\ t.neighbors = Neighbors(c, n, Self)
      /\ t.risk = RiskOn(c, Asking(v, p), n)
  BY <1>1, <1>5 DEF ScoreAt
<1>8. t.risk = Compute(s.ceiling, p, s.neighbors, s.spot)
  BY <1>1, <1>6, <1>7 DEF RiskOn
<1>9. ~s.fromNode => v.limit = s.ceiling
  BY <1>6 DEF Ceiling
<1> QED
  BY <1>6, <1>7, <1>8, <1>9 DEF s, t

\* A contradiction is reported exactly when taking the recommendation alone makes
\* the next scan report a blast radius above the tolerance, for the reason given.
THEOREM ContradictionIsReal == Spec => []ContradictionIsExact
<1>1. IInv => ContradictionIsExact
  <2> DEFINE rec == last.finding.rec
             reason == last.finding.contradiction
  <2> SUFFICES ASSUME IInv, pc = "reported", last.act = "applied", score.scored
               PROVE  /\ SameRisk(score.risk, rec.after)
                      /\ reason # NoContradiction
                           <=> rec.before.num > 0 /\ Raises(score.risk, rec.before)
                      /\ reason # NoContradiction =>
                           /\ <<score.ceiling, score.node, score.neighbors>>
                                = <<reason.ceiling, reason.node, reason.neighbors>>
                           /\ w.request + reason.saved = rec.current
                           /\ reason.why = LimitStays => w.limit = reason.ceiling
    BY DEF ContradictionIsExact
  <2>1. cluster \in Clusters /\ usage \in Nat /\ score = ScoreOf(cluster, w)
    BY DEF IInv, TypeOK, ReportedInv
  <2>2. PICK v \in Workloads :
          /\ last.finding = MemFinding(ScoreOf(cluster, v), v.request, usage)
          /\ last.finding.band = "advise"
          /\ w = Asking(v, rec.proposed)
    BY DEF IInv, FollowedInv, Followed
  <2> DEFINE s == ScoreOf(cluster, v)
             p == Proposed(usage)
  <2>3. v.request \in Nat /\ s \in ScoreRecords /\ MemBand(v.request, usage) = "advise"
    BY <2>1, <2>2, ScoreOfType, BandOf DEF Workloads
  <2>4. /\ rec = PriceRecommendation(s, v.request, p)
        /\ rec.current = v.request /\ rec.proposed = p
        /\ reason = Contradiction(s, rec)
    BY <2>1, <2>2, <2>3, Advised
  <2>5. v.request > 0 /\ p \in Nat \ {0} /\ p < v.request
    BY <2>1, <2>3, AdviseCuts, ProposedCovers
  <2>6. w = Asking(v, p) /\ w.request = p /\ w.limit = v.limit
    BY <2>2, <2>4 DEF Asking, Workloads
  <2>7. /\ s.scored /\ score.ceiling = s.ceiling /\ score.node = s.node
        /\ score.neighbors = s.neighbors
        /\ score.risk = Compute(s.ceiling, p, s.neighbors, s.spot)
        /\ ~s.fromNode => v.limit = s.ceiling
    BY <2>1, <2>5, <2>6, PriceIsNextScore
  <2> HIDE DEF rec, reason, s, p
  <2>8. /\ rec.after = score.risk /\ rec.before = s.risk
        /\ rec.raises = (s.risk.num > 0 /\ Raises(score.risk, s.risk))
    BY <2>4, <2>7 DEF PriceRecommendation
  <2>9. SameRisk(score.risk, rec.after)
    BY <2>8 DEF SameRisk
  <2>10. reason = IF ~rec.raises THEN NoContradiction
                  ELSE [why |-> IF s.fromNode THEN NoLimitSet ELSE LimitStays,
                        ceiling |-> s.ceiling, node |-> s.node, neighbors |-> s.neighbors,
                        saved |-> rec.current - rec.proposed]
    BY <2>4 DEF Contradiction
  <2>11. reason # NoContradiction <=> rec.raises
    BY <2>10 DEF NoContradiction, NoLimitSet, LimitStays
  <2>12. ASSUME reason # NoContradiction
         PROVE  /\ <<score.ceiling, score.node, score.neighbors>>
                     = <<reason.ceiling, reason.node, reason.neighbors>>
                /\ w.request + reason.saved = rec.current
                /\ reason.why = LimitStays => w.limit = reason.ceiling
    <3>1. /\ reason.ceiling = s.ceiling /\ reason.node = s.node /\ reason.neighbors = s.neighbors
          /\ reason.saved = rec.current - rec.proposed
          /\ reason.why = LimitStays => ~s.fromNode
      BY <2>10, <2>11, <2>12 DEF NoLimitSet, LimitStays
    <3>2. w.request + reason.saved = rec.current
      BY <2>3, <2>4, <2>5, <2>6, <3>1
    <3> QED
      BY <2>6, <2>7, <3>1, <3>2
  <2>13. reason # NoContradiction <=> rec.before.num > 0 /\ Raises(score.risk, rec.before)
    BY <2>8, <2>11
  <2> QED
    BY <2>9, <2>12, <2>13 DEF rec, reason
<1> QED
  BY <1>1, AdviceIsTraceable, PTL

-----------------------------------------------------------------------------
(* The numbers.  The exact one, whatever the flags; the printed one, at the *)
(* default proportions, whatever the unit sizes.                            *)

\* The exact number covers what the busiest pod uses and shrinks the request,
\* and once it is the request, it is not proposed a second time.
ExactNumberIsSound ==
  pc = "reported" /\ finding.band = "advise" =>
    /\ finding.rec.current = w.request
    /\ MinRequest <= finding.rec.proposed
    /\ usage <= finding.rec.proposed /\ finding.rec.proposed < finding.rec.current

ExactAdviceIsFinal ==
  pc = "reported" /\ last.act \in Followed /\ w.request = last.finding.rec.proposed =>
    finding.band # "advise"

\* --divergence 2, --headroom 1.25 and a --min-request of five Mi or more that
\* prints as itself; its default is 32Mi.
DefaultProportions ==
  /\ Divergence = [num |-> 2, den |-> 1] /\ Headroom = [num |-> 5, den |-> 4]
  /\ 5 * Mi <= MinRequest
  /\ Printed(MinRequest) = MinRequest

LEMMA ReportedAdvice ==
  ASSUME IInv, pc = "reported", finding.band = "advise"
  PROVE  /\ w.request \in Nat /\ usage \in Nat \ {0}
         /\ MoreThan(w.request, usage, Divergence)
         /\ finding.rec.current = w.request /\ finding.rec.proposed = Proposed(usage)
         /\ Proposed(usage) < w.request
<1>1. /\ finding = MemFinding(ScoreOf(cluster, w), w.request, usage)
      /\ usage \in Nat /\ w.request \in Nat /\ ScoreOf(cluster, w) \in ScoreRecords
  BY ScoreOfType DEF IInv, TypeOK, ReportedInv, Workloads
<1>2. MemBand(w.request, usage) = "advise"
  BY <1>1, BandOf
<1> QED
  BY <1>1, <1>2, Advised, AdviseCuts

LEMMA FollowedAdvice ==
  ASSUME IInv, last.act \in Followed
  PROVE  /\ usage \in Nat
         /\ last.finding.rec.proposed = Proposed(usage)
         /\ w.request \in {Proposed(usage), Printed(Proposed(usage))}
<1>1. PICK v \in Workloads :
        /\ last.finding = MemFinding(ScoreOf(cluster, v), v.request, usage)
        /\ last.finding.band = "advise"
        /\ w.request \in Numbers(last.finding.rec)
  BY DEF IInv, FollowedInv
<1>2. usage \in Nat /\ v.request \in Nat /\ ScoreOf(cluster, v) \in ScoreRecords
  BY ScoreOfType DEF IInv, TypeOK, Workloads
<1>3. MemBand(v.request, usage) = "advise"
  BY <1>1, BandOf
<1>4. last.finding.rec.proposed = Proposed(usage)
  BY <1>1, <1>2, <1>3, Advised
<1> QED
  BY <1>1, <1>2, <1>4 DEF Numbers

\* Whatever the flags, the number proposed is worth putting in front of a human.
THEOREM ExactSound == Spec => []ExactNumberIsSound
<1>1. IInv => ExactNumberIsSound
  BY ReportedAdvice, ProposedCovers DEF ExactNumberIsSound
<1> QED
  BY <1>1, AdviceIsTraceable, PTL

\* Whatever the flags, a proposal that became the request is not repeated.
THEOREM ExactFinal == Spec => []ExactAdviceIsFinal
<1>1. IInv => ExactAdviceIsFinal
  <2> SUFFICES ASSUME IInv, pc = "reported", last.act \in Followed,
                      w.request = last.finding.rec.proposed, finding.band = "advise"
               PROVE  FALSE
    BY DEF ExactAdviceIsFinal
  <2>1. usage \in Nat /\ w.request = Proposed(usage)
    BY FollowedAdvice
  <2>2. Proposed(usage) < w.request /\ Proposed(usage) \in Nat
    BY <2>1, ReportedAdvice, ProposedCovers
  <2> QED
    BY <2>1, <2>2
<1> QED
  BY <1>1, AdviceIsTraceable, PTL

\* At the default proportions, pasting what was printed neither starves the pod
\* nor leaves the request over-provisioned.
LEMMA PrintedIsSound ==
  ASSUME DefaultProportions, NEW use \in Nat
  PROVE  /\ Printed(Proposed(use)) \in Nat /\ use <= Printed(Proposed(use))
         /\ Printed(Proposed(use)) <= Proposed(use) \/ Printed(Proposed(use)) <= 2 * use
<1> DEFINE p == Proposed(use)
           q == Printed(p)
           scaled == (use * 5) \div 4
<1>1. Mi \in Nat \ {0} /\ MinRequest \in Nat \ {0} /\ 5 * Mi <= MinRequest
  BY FlagsAssumption, UnitSizesAssumption DEF DefaultProportions
<1>2. p \in Nat \ {0} /\ MinRequest <= p /\ use <= p
      /\ (p = MinRequest \/ p = RoundUpMi(scaled))
  <2>1. Scaled(use, Headroom) = scaled
    BY DEF Scaled, DefaultProportions
  <2> QED
    BY <2>1, ProposedCovers
<1>3. scaled \in Nat /\ 4 * scaled <= 5 * use /\ 5 * use <= 4 * scaled + 3
  OBVIOUS
<1>4. RoundUpMi(scaled) <= scaled + Mi - 1 /\ scaled <= RoundUpMi(scaled)
      /\ RoundUpMi(scaled) \in Nat
  BY <1>1, <1>3, RoundUpBounds DEF RoundUpMi
<1>5. q \in Nat /\ 19 * p <= 20 * q /\ 20 * q <= 21 * p + 18
  BY <1>2, PrintedIsNear
<1>6. Printed(MinRequest) = MinRequest
  BY DEF DefaultProportions
<1>7. CASE p = MinRequest
  <2>1. q = p
    BY <1>6, <1>7
  <2> HIDE DEF p, q
  <2> QED
    BY <1>2, <2>1 DEF p, q
<1>8. CASE p = RoundUpMi(scaled)
  <2> DEFINE r == RoundUpMi(scaled)
  <2>1. r = p
    BY <1>8
  <2> HIDE DEF p, q, scaled, r
  <2>2. use <= q
    BY <1>1, <1>2, <1>3, <1>4, <1>5, <2>1 DEF r
  <2>3. q <= 2 * use
    BY <1>1, <1>2, <1>3, <1>4, <1>5, <2>1 DEF r
  <2> QED
    BY <1>5, <2>2, <2>3 DEF p, q
<1> QED
  BY <1>2, <1>7, <1>8

\* At the default proportions a number is put in front of a human only when,
\* exact or printed, it covers what the busiest pod uses and shrinks the request.
THEOREM RecommendationSound ==
  ASSUME DefaultProportions
  PROVE  Spec => []RecommendationIsSound
<1>1. IInv => RecommendationIsSound
  <2> SUFFICES ASSUME IInv, pc = "reported", finding.band = "advise"
               PROVE  /\ finding.rec.current = w.request
                      /\ MinRequest <= finding.rec.proposed
                      /\ \A number \in Numbers(finding.rec) :
                           usage <= number /\ number < finding.rec.current
    BY DEF RecommendationIsSound
  <2> DEFINE p == Proposed(usage)
             q == Printed(p)
  <2>1. /\ w.request \in Nat /\ usage \in Nat \ {0} /\ MoreThan(w.request, usage, Divergence)
        /\ finding.rec.current = w.request /\ finding.rec.proposed = p /\ p < w.request
    BY ReportedAdvice
  <2>2. p \in Nat \ {0} /\ MinRequest <= p /\ usage <= p
    BY <2>1, ProposedCovers
  <2>3. q \in Nat /\ usage <= q /\ (q <= p \/ q <= 2 * usage)
    BY <2>1, PrintedIsSound
  <2>4. w.request > 2 * usage
    BY <2>1 DEF MoreThan, DefaultProportions
  <2>5. Numbers(finding.rec) = {p, q}
    BY <2>1 DEF Numbers
  <2> HIDE DEF p, q
  <2>6. q < w.request
    BY <2>1, <2>2, <2>3, <2>4
  <2> QED
    BY <2>1, <2>2, <2>3, <2>5, <2>6
<1> QED
  BY <1>1, AdviceIsTraceable, PTL

\* At the default proportions advice that was taken, to the byte or as it was
\* printed, is not given again for the same sample.
THEOREM AdviceIsFinal ==
  ASSUME DefaultProportions
  PROVE  Spec => []TakenAdviceIsFinal
<1>1. IInv => TakenAdviceIsFinal
  <2> SUFFICES ASSUME IInv, pc = "reported", last.act \in Followed, finding.band = "advise"
               PROVE  FALSE
    BY DEF TakenAdviceIsFinal, Followed
  <2> DEFINE p == Proposed(usage)
             q == Printed(p)
  <2>1. /\ w.request \in Nat /\ usage \in Nat \ {0} /\ MoreThan(w.request, usage, Divergence)
        /\ p < w.request
    BY ReportedAdvice
  <2>2. p \in Nat
    BY <2>1, ProposedCovers
  <2>3. w.request \in {p, q}
    BY FollowedAdvice
  <2>4. q \in Nat /\ (q <= p \/ q <= 2 * usage)
    BY <2>1, PrintedIsSound
  <2>5. w.request > 2 * usage
    BY <2>1 DEF MoreThan, DefaultProportions
  <2> HIDE DEF p, q
  <2> QED
    BY <2>1, <2>2, <2>3, <2>4, <2>5
<1> QED
  BY <1>1, AdviceIsTraceable, PTL
=============================================================================
