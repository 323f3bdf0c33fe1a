------------------------------- MODULE Advice --------------------------------
(***************************************************************************)
(* The recommendations of internal/detect, and what becomes of a workload  *)
(* whose owner follows them: scan, read the finding, change the manifest,  *)
(* scan again.  Memory is counted in bytes of which Mi make a mebibyte,    *)
(* factors given on the command line are fractions [num, den].             *)
(***************************************************************************)
EXTENDS RiskFormula, Units

CONSTANTS
  Divergence, Headroom, IdleRatio,   \* --divergence, --headroom, --idle-ratio
  Tolerance,                         \* RiskIncreaseTolerance
  MinRequest,                        \* --min-request
  Mi,                                \* bytes in a mebibyte
  Clusters0, Workloads0,             \* the inputs of a first scan: [cluster -> set]
  Cpus,                              \* CPU requests and usages, in millicores
  Usages,                            \* observed memory, the busiest pod
  Landable,                          \* memory limits an owner may choose
  MaxSamples                         \* bound: how often usage is sampled anew

Factors == [num : Nat \ {0}, den : Nat \ {0}]

\* validate: divergence > 1, headroom >= 1, idle ratio > divergence.
ASSUME FlagsAssumption ==
  /\ {Divergence, Headroom, IdleRatio, Tolerance} \subseteq Factors
  /\ Divergence.num > Divergence.den
  /\ Headroom.num >= Headroom.den
  /\ IdleRatio.num * Divergence.den > Divergence.num * IdleRatio.den
  /\ MinRequest \in Nat \ {0}
  /\ Mi \in UnitSizes
ASSUME AdviceInputsAssumption ==
  /\ Clusters0 \subseteq Clusters
  /\ \A c \in Clusters0 : Workloads0[c] \subseteq Workloads
  /\ Usages \subseteq Nat
  /\ Landable \subseteq Nat
  /\ Cpus \subseteq [request : Nat, usage : Nat]
  /\ MaxSamples \in Nat

VARIABLES
  cluster, w,   \* the inventory and the workload
  usage,        \* inv.Usage[w].MemBytes; 0 when there is none
  cpu,          \* [request, usage], in millicores
  pc,           \* "scan" or "reported"
  score,        \* the workload's score in the last report
  finding,      \* CAP107/CAP108 of the last report
  cpuFinding,   \* CAP109 of the last report
  last,         \* what the owner did since, and on which recommendation
  samples

vars == <<cluster, w, usage, cpu, pc, score, finding, cpuFinding, last, samples>>

-----------------------------------------------------------------------------
RoundUpMi(n) == RoundUp(n, Mi)
RoundUpMilli(n) == RoundUp(n, 10)

\* a > b * f, a >= b * f and int64(b * f), on float64 in the program.
MoreThan(a, b, f) == a * f.den > b * f.num
AtLeast(a, b, f) == a * f.den >= b * f.num
Scaled(b, f) == (b * f.num) \div f.den

\* Mutation: the --min-request floor is forgotten.
ProposedUnfloored(use) == RoundUpMi(Scaled(use, Headroom))

Proposed(use) ==
  LET rounded == RoundUpMi(Scaled(use, Headroom))
  IN  IF rounded < MinRequest THEN MinRequest ELSE rounded

\* usageFindings and memOverProvisioned: which of its answers the tool gives.
\* Mutation: a proposal equal to the request is still printed.
MemBandRepeating(request, use) ==
  IF request <= 0 \/ use <= 0 \/ ~MoreThan(request, use, Divergence) THEN "none"
  ELSE IF AtLeast(request, use, IdleRatio) THEN "idle"
  ELSE IF Proposed(use) > request THEN "floor" ELSE "advise"

MemBand(request, use) ==
  CASE request <= 0 \/ use <= 0 -> "none"
    [] request > 0 /\ use > 0 /\ MoreThan(request, use, Divergence) ->
         IF AtLeast(request, use, IdleRatio) THEN "idle"
         ELSE IF Proposed(use) >= request THEN "floor"
         ELSE "advise"
    [] request > 0 /\ use > 0 /\ ~MoreThan(request, use, Divergence) ->
         IF use > request THEN "under" ELSE "none"

CpuBand(request, use) ==
  IF request > 0 /\ use > 0 /\ MoreThan(request, use, Divergence)
  THEN IF AtLeast(request, use, IdleRatio) THEN "idle" ELSE "advise"
  ELSE "none"

\* risk > before * (1 + tolerance)
Raises(after, before) ==
  Exceeds(after, [num |-> before.num * (Tolerance.num + Tolerance.den),
                  den |-> before.den * Tolerance.den])

NoRec == [current |-> 0, proposed |-> 0, before |-> NoRisk, after |-> NoRisk,
          raises |-> FALSE, guard |-> "none"]

SetLimit == "set a memory limit"
LowerLimit == "lower the memory limit alongside the request"

\* Mutation: a limited workload is taken to be safe.
PriceUnbounded(s, current, proposed) ==
  LET after == IF s.scored THEN Compute(s.ceiling, proposed, s.neighbors, s.spot) ELSE s.risk
      raises == s.scored /\ s.fromNode /\ s.risk.num > 0 /\ Raises(after, s.risk)
  IN  [current |-> current, proposed |-> proposed, before |-> s.risk, after |-> after,
       raises |-> raises, guard |-> IF raises THEN SetLimit ELSE "none"]

\* What a smaller memory request does to blast radius, by the same arithmetic.
PriceRecommendation(s, current, proposed) ==
  LET after == IF s.scored THEN Compute(s.ceiling, proposed, s.neighbors, s.spot) ELSE s.risk
      raises == s.scored /\ s.risk.num > 0 /\ Raises(after, s.risk)
  IN  [current |-> current, proposed |-> proposed, before |-> s.risk, after |-> after,
       raises |-> raises,
       guard |-> IF ~raises THEN "none" ELSE IF s.fromNode THEN SetLimit ELSE LowerLimit]

\* CAP301 explains itself by the score of the recommendation it derives from.
NoLimitSet == "with no memory limit set, the request is all that holds it"
LimitStays == "the memory limit stays while the request drops"
NoContradiction == [why |-> "none", ceiling |-> 0, node |-> NoNode, neighbors |-> 0, saved |-> 0]

Contradiction(s, rec) ==
  IF ~rec.raises THEN NoContradiction
  ELSE [why |-> IF s.fromNode THEN NoLimitSet ELSE LimitStays,
        ceiling |-> s.ceiling, node |-> s.node, neighbors |-> s.neighbors,
        saved |-> rec.current - rec.proposed]

NoFinding == [band |-> "none", severity |-> "none", rec |-> NoRec,
              contradiction |-> NoContradiction]

\* The recommendation of CAP107, its severity, and the CAP301 derived from it.
MemFinding(s, request, use) ==
  LET band == MemBand(request, use)
      rec == IF band = "advise" THEN PriceRecommendation(s, request, Proposed(use)) ELSE NoRec
  IN  [band |-> band,
       severity |-> IF band = "none" THEN "none"
                    ELSE IF band = "under" \/ rec.raises THEN "warn"
                    ELSE "info",
       rec |-> rec,
       contradiction |-> Contradiction(s, rec)]

CpuFinding(request, use) ==
  LET band == CpuBand(request, use)
  IN  [band |-> band, current |-> IF band = "advise" THEN request ELSE 0,
       proposed |-> IF band = "advise" THEN RoundUpMilli(Scaled(use, Headroom)) ELSE 0]

NoCpuFinding == [band |-> "none", current |-> 0, proposed |-> 0]

-----------------------------------------------------------------------------
Init ==
  /\ cluster \in Clusters0
  /\ w \in Workloads0[cluster]
  /\ usage \in Usages
  /\ cpu \in Cpus
  /\ pc = "scan"
  /\ score = Unscored
  /\ finding = NoFinding
  /\ cpuFinding = NoCpuFinding
  /\ last = [act |-> "none", finding |-> NoFinding]
  /\ samples = 0

\* One run of the tool, from score to findings.
Scan ==
  /\ pc = "scan"
  /\ score' = ScoreOf(cluster, w)
  /\ finding' = MemFinding(score', w.request, usage)
  /\ cpuFinding' = CpuFinding(cpu.request, cpu.usage)
  /\ pc' = "reported"
  /\ UNCHANGED <<cluster, w, usage, cpu, last, samples>>

Owner(act) ==
  /\ pc' = "scan"
  /\ last' = [act |-> act, finding |-> finding]
  /\ UNCHANGED <<cluster, usage, score, finding, cpuFinding, samples>>

Recommended == pc = "reported" /\ finding.band = "advise"

\* The number an owner takes from the report: the exact one of the JSON, or the
\* one printed, which the text of the finding carries in either format.
Numbers(rec) == {rec.proposed, Printed(rec.proposed)}
Exactly(number) == number = finding.rec.proposed

\* The owner pastes the number and nothing else, if the API admits it.
ApplyAlone(number) ==
  /\ Recommended
  /\ w.limit = Unbounded \/ number <= w.limit
  /\ w' = [w EXCEPT !.request = number]
  /\ UNCHANGED cpu
  /\ Owner(IF Exactly(number) THEN "applied" ELSE "applied as printed")

\* The owner does what the guard says first: any limit under the old ceiling
\* that the API admits, at or above the request.
LandLimit(limit) ==
  /\ Recommended
  /\ finding.rec.guard = SetLimit
  /\ limit \in w.request .. (score.ceiling - 1)
  /\ w' = [w EXCEPT !.limit = limit]
  /\ UNCHANGED cpu
  /\ Owner("guard landed")

\* ... or lowers the limit alongside the request.
ApplyWithLimit(number, limit) ==
  /\ Recommended
  /\ finding.rec.guard = LowerLimit
  /\ limit \in number .. (w.limit - 1)
  /\ w' = [w EXCEPT !.request = number, !.limit = limit]
  /\ UNCHANGED cpu
  /\ Owner("applied with guard")

\* The CPU number is pasted when it differs from what the manifest says.
ApplyCpu ==
  /\ pc = "reported"
  /\ cpuFinding.band = "advise"
  /\ cpuFinding.proposed # cpu.request
  /\ cpu' = [cpu EXCEPT !.request = cpuFinding.proposed]
  /\ UNCHANGED w
  /\ Owner("cpu applied")

\* Load moves, and metrics-server serves another instant.
Resample(use) ==
  /\ pc = "reported"
  /\ samples < MaxSamples
  /\ use # usage
  /\ usage' = use
  /\ samples' = samples + 1
  /\ pc' = "scan"
  /\ last' = [act |-> "resampled", finding |-> NoFinding]
  /\ UNCHANGED <<cluster, w, cpu, score, finding, cpuFinding>>

OwnerActs ==
  \/ \E number \in Numbers(finding.rec) :
       ApplyAlone(number) \/ \E limit \in Landable : ApplyWithLimit(number, limit)
  \/ \E limit \in Landable : LandLimit(limit)

Next ==
  \/ Scan
  \/ OwnerActs
  \/ ApplyCpu
  \/ \E use \in Usages : Resample(use)

\* Somebody runs the tool after every change, and memory advice is acted upon.
Spec == Init /\ [][Next]_vars /\ WF_vars(Scan) /\ WF_vars(OwnerActs)

-----------------------------------------------------------------------------
Recs == [current : Nat, proposed : Nat, before : Risks, after : Risks,
         raises : BOOLEAN, guard : {"none", SetLimit, LowerLimit}]
Bands == {"none", "idle", "floor", "advise", "under"}

FindingOK(f) ==
  f \in [band : Bands, severity : {"none", "info", "warn"}, rec : Recs,
         contradiction : [why : {"none", NoLimitSet, LimitStays}, ceiling : Nat, saved : Nat,
                          node : NodeNames \cup {NoNode}, neighbors : 0 .. Cardinality(Refs)]]

TypeOK ==
  /\ cluster \in Clusters
  /\ w \in Workloads
  /\ usage \in Nat
  /\ cpu \in [request : Nat, usage : Nat]
  /\ pc \in {"scan", "reported"}
  /\ score \in [scored : BOOLEAN, risk : Risks, ceiling : Nat, fromNode : BOOLEAN, node : NodeNames \cup {NoNode},
                neighbors : 0 .. Cardinality(Refs), spot : BOOLEAN]
  /\ FindingOK(finding)
  /\ cpuFinding \in [band : Bands, current : Nat, proposed : Nat]
  /\ last.act \in {"none", "applied", "applied as printed", "guard landed", "applied with guard",
                   "cpu applied", "resampled"}
  /\ FindingOK(last.finding)
  /\ samples \in 0 .. MaxSamples

\* A number is put in front of a human only when it is not below --min-request
\* and, printed or exact, covers what the busiest pod uses and really shrinks the
\* request: at the default headroom, a tenth of a unit is too little to matter.
RecommendationIsSound ==
  pc = "reported" /\ finding.band = "advise" =>
    /\ finding.rec.current = w.request
    /\ MinRequest <= finding.rec.proposed
    /\ \A number \in Numbers(finding.rec) : usage <= number /\ number < finding.rec.current

\* Advice that was taken is not given again: with the same sample, a scan after
\* the change recommends no other memory request, although what was pasted may
\* be a little more or less than what was proposed.
TakenAdviceIsFinal ==
  pc = "reported" /\ last.act \in {"applied", "applied as printed", "applied with guard"} =>
    finding.band # "advise"

\* A contradiction is reported exactly when taking the recommendation alone
\* makes the next scan report a blast radius above the tolerance, and that scan
\* finds the ceiling and the neighbors the contradiction named as the reason.
ContradictionIsExact ==
  pc = "reported" /\ last.act = "applied" /\ score.scored =>
    LET rec == last.finding.rec
        reason == last.finding.contradiction
    IN  /\ SameRisk(score.risk, rec.after)
        /\ reason # NoContradiction <=> rec.before.num > 0 /\ Raises(score.risk, rec.before)
        /\ reason # NoContradiction =>
             /\ <<score.ceiling, score.node, score.neighbors>>
                  = <<reason.ceiling, reason.node, reason.neighbors>>
             /\ w.request + reason.saved = rec.current
             /\ reason.why = LimitStays => w.limit = reason.ceiling

\* Following the advice comes to an end.
AdviceSettles == <>[](pc = "reported" => finding.band # "advise")

-----------------------------------------------------------------------------
(* Statements of the documentation, for the record.                         *)

\* README.md:181: the guard is "set a memory limit" when none exists; and
\* contradiction.go:44 gives "with no memory limit set" as the reason.
GuardFitsTheWorkload ==
  pc = "reported"
    /\ (finding.rec.guard = SetLimit \/ finding.contradiction.why = NoLimitSet)
  => w.limit = Unbounded
=============================================================================
