# capsize, specified

TLA+ models of capsize, a read-only CLI that reads a Kubernetes cluster with LIST
calls, scores how much damage each workload could do to its neighbors ("blast
radius"), compares that with what cost advice would do, and ends with an exit code
for CI. The models are translated from the Go source; paths below are relative to
the repository.

The program is sequential and keeps nothing between runs. What is hard about it is
elsewhere: it reads a cluster that goes on changing, through permissions that may
deny any one read; it computes one number in several places that must agree; it
gives advice that people follow, and is then run again on the result; and its
exit code must be about what it printed.

## 1. Inventory

| component | source | state | operations | correct when |
|---|---|---|---|---|
| collector | `internal/collect/collect.go` | the inventory being built: nodes with their tenants, owner maps, workloads, namespaces, usage, warnings | fourteen reads in a fixed order, owner resolution, attribution | nothing in scope is lost without a warning, nothing is made up, a denied read is not an empty one |
| scorer | `internal/risk/risk.go` | one `Score` per workload | `Compute`, `Of` (a loop over candidate nodes), `Project`, `All` | the worst occupied node is reported, with the inputs of that node; a projection is what the next scan reports |
| pod shape | `internal/model/model.go` | containers after defaulting | `Effective`, `MemRequest`, `MemLimit`, `QoS` | class, reservation, score and findings tell the same story about one template |
| static findings | `internal/detect/detect.go` `shapeFindings` | none | CAP101..CAP106 | as above; severity follows harm |
| usage findings | `detect.go` `usageFindings`, `memOverProvisioned`, `priceRecommendation`; `contradiction.go` | none | CAP107..CAP109, CAP301 | recommended numbers are usable, contradictions exact, advice comes to an end when it is followed |
| guardrails | `model.go` `Ungoverned`, `detect.go` `namespaceFindings` | `GuardrailsUnknown` per namespace | CAP201 | never made out of a denied read |
| findings list | `internal/detect/finding.go` | none | `Sort`, `Worst`, `AtLeast` | triage order, the gate's comparison |
| provider namespaces | `internal/model/system.go` | the inventory | `HideSystem` (in place) | what is hidden is counted; scores do not change |
| report, table | `internal/output/report.go`, `table.go` | `Report`; `Limit` shortens it | `Build`, `Limit`, sections, one write | totals reconcile; `--top` hides the least risky |
| pipeline and gate | `cmd/scan.go`, `cmd/root.go` | the stage reached | `validate`, `resolveNamespace`, `runScan`, `gate`, `Execute` | exit 0 and 2 are verdicts on a printed report, 1 is none |
| client | `internal/k8s/client.go` | kubeconfig | `Connect`, one accessor per LIST | each call answers or fails |
| transport, guard | `internal/k8s/transport.go`, `internal/guard` | none | rejects verbs other than GET | stateless |
| units | `internal/units` | none | rounding, formatting | recommendations are rounded up; what is printed can be pasted |
| buildinfo, version, hooks, CI, e2e, docs capture | | | | outside the program's logic |

Interactions are plain calls: `runScan` calls the collector (which calls the client
once per read), `risk.All`, `HideSystem`, `detect.Run`, `output.Build`, a renderer, `gate`.
The shared mutable state is the `Inventory` (filled by the collector, narrowed by
`HideSystem` after scoring) and the `Report` (shortened by the table, read by the gate
afterwards). The cluster is shared with the rest of the world.

The hard behaviours, each listed with its line and the properties that cover it under
`hazards` in `PROJECT.json`:

* interleaving: the reads of a scan are not a snapshot; LimitRanges and ResourceQuotas
  of one namespace are two reads, pods and their owners three;
* partial failure: any read may be denied, and fallbacks compose;
* order: scoring before hiding, rendering before gating;
* sequences: scan, follow the advice, scan again;
* numbers that leave the program as text: a recommendation is printed to one decimal and pasted;
* boundaries: nodes without memory, zero limits, a proposal equal to the request,
  `--top` equal to the number of rows.

There are no threads, timeouts or retries in the program, and nothing survives a
crash, so no model has any.

## 2. Modules

| module | models |
|---|---|
| `RiskFormula` | `risk.Compute`, `Node.Neighbors`, the ceiling, `candidateNodes`, and `ScoreOf`, the score as a function of cluster and workload |
| `WorstNode` | abstract specification: a verdict names a worst scorable node, or none |
| `BlastRadius` | `risk.Of`: `Begin`, one `Consider` per node, `Finish`; then `Price` (`Score.Project`) and `Rescan` by an owner who applied the proposal |
| `Collect` | `collect.Collect`, an action per read, beside a cluster that changes |
| `CollectRequirements` | what an inventory owes its reader, against the states the cluster was really in |
| `ScoredScan` | the collector composed with the scorer: `risk.All` on the inventory that a racing, partly denied scan read, against the score the same formula gives on the cluster |
| `Units` | rounding up, and `units.Bytes` as the quantity its text denotes |
| `Manifest` | a template edited line by line by its owner, and what is reported of it after each edit |
| `Advice` | the recommendations, and owners who follow them |
| `RunScan` | `cmd.runScan` from flags to exit code, twice, over scores observed or forecast |
| `MC*` | the instances TLC checks |
| `FiniteFacts`, `RiskFormula_proofs`, `Units_proofs` | lemmas about finite sets, about the formula and about printed numbers |
| `BlastRadius_proofs`, `Collect_proofs`, `Manifest_proofs`, `Advice_proofs`, `RunScan_proofs` | the theorems of section 5 |

How state corresponds to code:

* `RiskFormula` describes a cluster as a record of functions from node names: `known` is
  `Inventory.Nodes`, `alloc`, `spot` and `tenants` are the fields of `Node`. Node names are
  numbers, in the order `sort.Strings` puts them. A workload is `[request, limit, nodes, pods]`,
  `limit = Unbounded` when `MemLimit` returns false. A risk is an exact fraction `[num, den]`; float64
  is compared as if exact, the logarithm is any increasing table `Log2` with `Log2[0] = 0`, and the
  spot factor 1.5 is 3/2. `--request-floor` is a constant.
* `Collect` keeps `history`, the states the cluster has been in since the scan began; a LIST
  sees the last one. Its other variables are the locals of the function (`podRef`, `owners` for
  `rsOwner` and `jobOwner`, `warnings` by the read each reports) and the fields of the inventory.
  `MayFail` names the reads an instance may deny. `orphans`, a map written in the same loop as
  `podRef`, is derived from it. One LIST call is one action and is taken to be atomic.
* `ScoredScan` instantiates `RiskFormula` once per workload. `ScoreRead(r)` is `scores[r]`: the formula on `nodes`, `tenants`
  and the nodes of the pods put down to `r`. `TrueScore(t, r)` is the same formula on a state `t` of the cluster. A workload `StoodStill` when, in all states of
  the scan, its pods are the same, on the same listed nodes, and no other pod could be put down to it. What a node
  or a template says of memory is fixed; what changes is who runs where, what is listed and what can be read.
* `Units.Printed(n)` is the number of bytes `Bytes(n)` stands for: one decimal of the largest unit that fits, to the
  nearest, ties to even as `strconv.FormatFloat` has it, a fraction of a byte rounded up as Kubernetes does when it parses. CPU is printed to the
  millicore and is exact. An instance has its own unit sizes (4 and 44 in `Advice`, 20 in `Manifest`), so that small numbers show
  the rounding a Gi shows.
* `Manifest` has containers with a role (`init` containers are dropped by `containersOf`, native
  sidecars kept) and, per resource, a request and a limit that may be `Absent`. `Edit` admits
  what API validation admits, `request <= limit`. `SpellOut` does what CAP103 and CAP105 say with the number they print.
* `Advice` counts memory in units of which `Mi` make a mebibyte and has the flags as fractions. The
  workload moves under the owner's hands: `ApplyAlone` pastes the number, the exact one
  of the JSON or the printed one, `LandLimit` does what the
  guard says first, `ApplyWithLimit` lowers the limit alongside, `ApplyCpu` pastes the CPU number,
  `Resample` is metrics-server at another instant.
* `RunScan` has one action per stage of `runScan`, with the early return of each. Scores and
  findings come from a simplified cluster (at most one node per workload, one shape per workload): the
  rules themselves are the business of the modules above. A score keeps every branch of `Of`: the workload's own node, or, when
  it has no pods or its node was not listed, a forecast on the largest node (`candidateNodes`; the forecast is scored, tallied and gated
  like any other, whatever the comment at `model.go:106` says), the limit where it is below the node, and no score without a node or
  with one that reports no memory. Its risk is ceiling times neighbors: the logarithm and the spot factor are left to `BlastRadius`. `Render` both prints and, for a table,
  shortens the report, as `Table` does; `printed` holds the
  rows with their flags, the counts of the sections and the summary, which is written from the shortened report. `Rerun` starts the tool again on the same cluster with any other flags.

`Collect` takes a pod's controller reference as fixed, as it is in Kubernetes for the owners a scan
resolves. `BlastRadius` and `Advice` take the inventory as fixed between a recommendation and the
scan that follows it, apart from what the owner did.

Names marked "Mutation" in the modules are faulty variants of the definition they precede; each
property is broken by one of them, so that a property that cannot fail would be noticed.

## 3. Runs

Passing runs.

| run | instance | what it shows |
|---|---|---|
| `BlastRadius_two` | two nodes listed in any combination, one self and two others, allocatable memory 0, 2, 4, requests 0, 1, 3, limits absent, 0, 2, 3 | `WorstOccupiedNode`, `RowExplainsItself` (ceiling, source, neighbors and capacity type of the node named, request of the workload, what is assumed or forecast marked as such), `LoopIsScoreOf` (the loop is the function the other modules use, ties included), `ProjectionHolds` over price, apply, rescan; `PromiseKept`: the loop implements `WorstNode`; `ScoringEnds` |
| `Collect_denied` | `-n`, six reads may be denied in any combination, 144 clusters of two nodes and six pods, owner chains whole or cut | `StableTenantsCounted`; `QuietScoreIsTrue`: where nothing was denied, every part of every score is the cluster's; `DenialOnlyUnderstates`: whatever is denied, a reported score is not above the true one while owners are readable |
| `Collect_guardrails` | `-A`, each of four guardrails present or not, five reads may be denied | `UngovernedWasMissing`, `QuietScanIsExact` |
| `Collect_race` | `-A`, ten objects and pods and a node that may come, go, be scheduled or finish, a deployment with two replicasets one of which may be missing, two changes anywhere between the reads, two reads and both metrics calls deniable, any subset of samples | what stood still is reported, `NoNeighborInvented`, `UngovernedWasMissing`, `UsageIsOfItsPods`: what a workload is said to use, live pods of its own used, `ScanEnds`; `ScoreIsBracketed`: the score of a workload that stood still lies between what its lasting neighbors and what all that ever passed make of it |
| `Advice_default` | divergence 2, headroom 5/4, idle ratio 6, tolerance 5 %, requests and usages on both sides of every threshold, two nodes, proposals printed above, below and as they are, one resampling | `RecommendationIsSound`, `TakenAdviceIsFinal`, `ContradictionIsExact`, `AdviceSettles` |
| `Manifest_pair` | two containers, the second a sidecar or an init container, on a roomy node alone or with a neighbor, or on two nodes smaller than `--request-floor` or of no memory, every template over three memory quantities (one of which is not printed exactly) and one of CPU, each of which may be absent, and every edit between them | the class, the reservation, the score and CAP101..CAP106 agree; hygiene advice that prints exactly is neutral; silent moves are announced; bounding a workload does not raise its risk unless a request of zero is written, or the score was divided by a `--request-floor` above the memory of a node, and then to a ratio of at most one |
| `RunScan_twice` | three workloads in two of three namespaces, one of them beside the others, alone, or without pods and forecast on a crowded node or an empty larger one, nodes readable or not or without memory, 43 command lines (`--top` negative, 0 and 2), every ordered pair of them on 38 clusters | `OneScorePerWorkload`, `NothingVanishes`, `TalliesReconcile`, `TopShowsTheRiskiest`, `GateIsHonest`, `PresentationDoesNotGate`; `VacuousPassIsVisible`: every workload above a threshold that was passed, running or forecast, is one of those hidden or unscored, and both are counted |

Why the bounds are enough. The proofs lift nearly all of it to any number. Two changes of the cluster are the least that replaces one guardrail by the other between
two reads, or lets a pod be created and scheduled within one scan; two reads denied at once are the least for fallbacks to
compose, and `Collect_denied` has six. A score between states needs one change between the node or pod list and the owners, a score that belongs to no state two. A pod put down to an owner it never
had while it lived needs a second replicaset and two changes, the end of the pod and the return of its replicaset. In `Advice` two scans after a recommendation are enough to see it repeated,
and nothing bounds the number of scans: only resampling is bounded (`MaxSamples`), because usage that
moves for ever makes any advice move for ever. In `Manifest` nothing is bounded but the values. In `RunScan`
`MaxRuns = 2`, since what is compared is a pair of runs.

Deadlock is checked in `Manifest_pair`; the other systems really stop: scoring and scanning end, advice is exhausted,
the process exits.

Runs that end in a violation state what a doc or a comment says and show an execution in which the code does otherwise.

| run | statement | what happens |
|---|---|---|
| `BlastRadius_forecast` | `risk.go:166` | another node, no larger, but spot or more crowded, is worse than the largest |
| `Collect_metrics` | `docs/rbac.md:36`, `:51` | pod metrics denied: a note, and neither a `warning:` line nor an entry in `warnings[]`; `TestEveryDeniedReadIsReported` leaves that row of the page out |
| `Collect_lowerbound` | `collect.go:107`, `docs/rbac.md:48` | replicasets denied too: one deployment counts as many neighbors, and a score "understated" is above the true one |
| `Advice_guardfits` | `README.md:181` | "set a memory limit" to a workload that has one, at or above the node's memory, "with no memory limit set" (`contradiction.go:46`) |
| `Manifest_spelled` | `units.go:1`, `detect.go:129` | a limit of 1280Mi: "spell out requests.memory: 1.2Gi" reserves 51Mi less and the pod is no longer Guaranteed; a limit of 1500Mi: 1.5Gi is above it and refused |

Noticed on the way and not made into runs:

* `candidateNodes` also calls hypothetical a workload whose running pods sit on nodes that were not listed, and scores
  workloads without pods, where the comments (`risk.go:74`, `model.go:106`) say otherwise;
* discovery of `metrics.k8s.io` denied is a note as well, the one an unreachable server gets, and when metrics are available the note on
  missing samples is kept in the report but not shown by the table (`table.go:50`);
* CPU advice is rounded up to 10m and, unlike memory, not compared with the request, so that a request of 5m over a use of 2m is advised to become 10m
  (`detect.go:204`); nothing says that a CPU proposal is a cut;
* guardrails of a namespace are two reads: one replaced by the other in between leaves a namespace that was always governed reported as
  ungoverned. `UngovernedWasMissing` says only that each of the two was missing at some time;
* CAP101 fires for a container that declares nothing in a pod whose other containers make it Burstable, and prints "the pod
  is Burstable and is evicted first" (`detect.go:103`), while `model.go:148` says the class decides and BestEffort goes first;
* a printed recommendation may be below the exact one, and below what `a request of %s would hold %s headroom` promises of it
  (`detect.go:341`), against "rounded up, never down" (`units.go:50`); that it still covers usage at the default headroom is part of `RecommendationIsSound`;
* "lower-risk workload(s) hidden by --top" (`table.go:109`) can be of equal risk (`TopShowsTheRiskiest` allows it), and then the workload the summary and the gate
  name can be among them: it is the first in the order of the inventory, by kind before name, the first row the first by name;
* a row that was not scored shows no count of its findings;
* a guard that has landed does not make the recommendation safe (`finding.go:93`) when the limit is close to the old ceiling;
  the guard looks at the worst node only, and the ceiling it asks to lower may be another node's;
* with `--headroom` above `--divergence` the `--min-request` floor is given as a reason for requests far above it;
* a container that declares CPU only has no memory limit and no finding; a memory limit of zero makes a pod Guaranteed to
  `QoS` and unbounded to the scorer; writing a limit can raise a score that was divided by the request floor: where an explicit request of zero stands, and
  where the floor is above a node's memory (`FloorOverNode`), which `--request-floor` admits;
* `--risk-threshold` does not see hidden system workloads, and passes vacuously when the node list is denied (every workload is
  unscored, and a warning says so): `VacuousPassIsVisible` says that those are the only ones and that their counts are there to see; `-n` with a namespace that does not exist reports it as ungoverned.

## 4. Fairness

Safety needs none. `Collect` has weak fairness of the scan's steps: the API server answers every call, with data or an
error, and the function has no loop that waits. `BlastRadius` has it for the steps of `Of`, which is ordinary execution. `Advice`
assumes that the tool is run after a change and that advice on memory is eventually acted upon; without the second
assumption the advice simply stays. `Manifest` and `RunScan` have no liveness property: one is driven by an owner, the other is a straight line.

## 5. Proofs

TLAPS proves every invariant the passing runs check, and the refinement, for every value of the constants that their modules' assumptions admit:
any number of nodes, objects, containers and workloads, any increasing log table, any flags. The assumptions are the
`ASSUME`s of the modules, each of which TLC evaluates in a run, and one hypothesis that is stated where it is used
(`DefaultProportions`). Each component has one inductive invariant; the properties follow from it.

**Scoring** (`BlastRadius_proofs`). `LoopInv`: the score so far belongs to one scorable candidate, its risk is that node's, and no scorable
node already visited exceeds it. The properties speak of the end of the loop and are not inductive.

* `TypeCorrect`, `LoopInvariant`; `WorstNodeReported`, from `LoopInv` with nothing left to visit.
* `RowExplained`: `RowInv` adds that ceiling, source, neighbors and capacity type are those of the node named, and request and marks those of the workload.
* `LoopScores`: `FirstInv` adds that no node visited before the one kept is as bad. The nodes are visited in name order, so the loop computes
  `ScoreOf`, the function that all other modules use.
* `ProjectionsHold`: `PriceInv` remembers what was priced; the worst nodes do not depend on the request (`RequestKeepsWorst`), because all
  risks of one workload are over the same denominator.
* `PromiseIsKept`: `Spec => PromiseKept`; every step of the loop is a stutter of `WorstNode` except the last, which is its `Decide`, and a rescan, which is its `Reconsider`.

**Collector** (`Collect_proofs`). `SnapshotInv`: each list that has been read is the answer of *one* state in `history`, for all of it, or a
warning stands for it; owner maps, tenants, workloads, namespaces, guardrails and usage are tied to those states. Every read is one step, and a
change of the cluster only adds a state, so each part has a lemma for the read that establishes it and one (`Meanwhile`) for all other steps.

* `TypeCorrect`, `ReadsAreSnapshots`; `MissingWasMissing`, `StableReported`, `NeighborsAreReal`, `StableCounted`, `UsageIsReal`, `QuietIsExact`.
* `NeighborsAreReal` and `UsageIsReal` share `ResolvedToItsOwn`: whatever a pod is put down to is the owner it had in some state, or, where a denial hid that, one on the way to it.
* The proof of `NeighborsAreReal` failed at first, for a good reason: `TrueOwner`, the reference for whom a pod belongs to, passed over any parent
  of the controller, where the collector passes over a ReplicaSet to a Deployment and a Job to a CronJob only. No instance had another pair. `PassedOver` now says so.

**Scores of what was read** (`Collect_proofs`, last part; the theorems are about `ScoredScan`). No further induction: `SnapshotInv` says what the formula was
given, and the formula is shown to be monotone. `FiniteClusterAssumption` (finitely many nodes and objects) is needed here, since a tenant set is counted.

* `QuietScoresAreTrue`: `QuietScanIsExact` has nodes and tenants right, `NodesReadTruly` the nodes and pods of the workload, so that the formula is given the cluster itself.
* `DenialsOnlyUnderstate`: with the owners readable, denials take nodes and tenants away and change nothing else. `CrowdingNeverHelps` says that, over the same
  scored nodes, more tenants on each never make a worst node less bad, whichever node the worst then is; without nodes nothing is scored (`UnscoredIsNoRiskier`).
* `ScoresAreBracketed`: the same lemma twice, with `LastingCounted` (who was there all along is counted) and `TenantsPassed` (who is counted was there once).
* The proof of `ScoresAreBracketed` failed at first, for a good reason: the property was too strong, twice, and no instance was large enough to say so. The scan reads
  pods before replicasets and tells them apart by name, so a pod of a replicaset that was missing may end, the replicaset return, and the scan put the
  dead pod down to a deployment that never had it, with its node. The deployment's own pods had stood still; `StoodStill` now asks that no pod could be
  put down to it either (`MayBePutDownTo`). And with the cluster-wide pods denied, neighbors of other namespaces are lost however long they last, so
  the lower bound holds when they were read (`Clusterwide`). `MCCollect` has a second replicaset for the first.

**Pod shape** (`Manifest_proofs`). `IInv`: a report is what a scan says of the template it was made of (`Faithful`), and what one edit can have done to
the *next* report already holds of the state it leads to, before the scan (`SpelledOutInv`, `MovedInv`, `BoundedInv`).

* `TypeCorrect`, `ReportsAreOfTheManifest`; `ClassIsOfTheAuthors`, `ClassAgreesWithScore`, `CriticalIsHarmful`, `SpellingOutChangesNothing`, `NothingMovesSilently`.
* `BoundingPays` needs that a sum follows each of its terms (`TotalFollows`), that bounding a pod either finds some memory reserved, and reserves no less, or
  reserves all of the limit it sets (`BoundingRaisesRequest`), and that less ceiling per byte requested on every node is no worse a score (`LessPerByteIsNoWorse`). When nothing was reserved before,
  the score was divided by `--request-floor`; nothing relates that to the nodes, and the theorem has the case in which it is above one: the
  ceiling is then at most what is reserved afterwards.

**Advice** (`Advice_proofs`). `IInv`: a report is of the workload as it is, and the advice last followed was made for a workload with the same usage that this one came from.

* `TypeCorrect`, `AdviceIsTraceable`, `ContradictionIsReal`, for all flags.
* `ExactSound`, `ExactFinal`: for all flags, of the exact number.
* `RecommendationSound`, `AdviceIsFinal`: also of the printed number, under `DefaultProportions`: divergence 2, headroom 1.25, a `--min-request` of at least 5 Mi that prints as
  itself. The defaults of `cmd/root.go` (2, 1.25, 32Mi) and the instance of `Advice_default` satisfy it. It cannot be dropped: a headroom
  near 1 lets a printed number fall below usage. `Units_proofs` bounds what printing does: `PrintedIsNear`, within a twentieth and a byte.

**Pipeline** (`RunScan_proofs`). `IInv`: at every stage, what is known is what flags and cluster make of it, and the run before, if there was one, ended as
such a run ends. It is the conjunction of `OutcomeInv`, `InventoryInv`, `ReportInv` and `PreviousInv`, one lemma per stage.

* `TypeCorrect`, `StagesAgree`; `ScoreIsOfTheNode`, `VerdictIsHonest`, `PresentationIsFree`, `NothingIsLost`, `NoSilentPass`, `TopIsRiskiest`, `SummaryReconciles`.
* `NoSilentPass` rests on `ScoredIsTrue`: whatever was asked for, a scored workload is scored against all tenants of its node, or of the largest node when it is forecast.
* Sorting is `InOrder`: the i-th element is the one with i - 1 before it. `ListedInOrder` proves that this is a permutation in order for every finite set whose keys tell its members apart.

How the proofs get by without induction over data. The library's induction theorems take operators as parameters, which the installed provers cannot
instantiate. What they are used for elsewhere is done here by a least counterexample, which is first-order: a non-empty set of naturals has a least
member (`LeastExists`), and among finite sets a non-empty collection has one all of whose subsets by one element are outside it (`SmallestSubset`). A sum is a
recursive function inside a `CHOOSE`, and `SumsExist` shows in the same way that the function exists.

The formula is instantiated once per workload in `ScoredScan`. Lemmas of `RiskFormula_proofs` are not available for such an instance; the few that are needed are
proved for it directly, from the definitions of the instance (`RiskReadForm`, `ScoreReadForm`).

Only model-checked: the liveness properties `ScoringEnds`, `ScanEnds` and `AdviceSettles`, which are out of the prover's reach.

## 6. Not modelled

* float64 rounding and int64 overflow: quantities of 8 PiB would be needed for the first.
* The text of findings, warnings and tables, colors, column layout, word wrap, the JSON encoding; of printed quantities `Ratio` and `Score`, which nobody pastes.
* The HTTP transport's verb filter and the source-scanning guard tests, which have no state.
* client-go: authentication, paging (a LIST is one consistent read), rate limits, context cancellation (the command passes a background context).
* Labels that mark spot capacity are a Boolean; which namespaces are the provider's is a constant set.

## 7. Plan

1. Done: the modules and runs above; the scoring loop, the collector, the scores of what it read, the pod shape, the advice and the pipeline proved.
2. Considered and left: an abstract specification of a scan as a choice between the first and the last state of the cluster would say no more than
   `StableTenantsCounted`, `NoNeighborInvented` and `ScoreIsBracketed` together.
3. Stays with TLC: liveness.
