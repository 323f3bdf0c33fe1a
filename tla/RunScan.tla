------------------------------- MODULE RunScan -------------------------------
(***************************************************************************)
(* cmd.runScan, from the flags to the exit code: one action per stage, any *)
(* of which may end the run.  The user may then run the tool again, with   *)
(* other flags, against a cluster that has not changed.                    *)
(***************************************************************************)
EXTENDS Integers, FiniteSets, Sequences

CONSTANTS
  Namespaces,         \* numbered in the order sort.Strings puts them
  SystemNamespaces,   \* those model.SystemNamespace recognises
  ContextNamespace,   \* of the kubeconfig context, NoNamespace when it names none
  NamespaceDefault,   \* the namespace called "default"
  Refs,               \* workloads, [ns, kind, name], all numbers
  Nodes,              \* numbered in the order the API lists them
  Clusters,           \* what a scan may find
  FlagSets,           \* the command lines
  MaxRuns             \* bound: runs of the tool

NoNamespace == 0      \* -n not given; as a scope, every namespace
Nowhere == 0          \* no pod on a node, or no node to score against
Severities == {"info", "warn", "critical"}
Shapes == {"clean", "uncapped", "wasteful"}

\* on: the node of a workload's pods; limit: its memory limit over its request, 0
\* without one; alloc: a node's memory in the same units; shape: what a workload's
\* manifest and its usage look like.
ClusterStates ==
  [on : [Refs -> Nodes \cup {Nowhere}], limit : [Refs -> Nat], alloc : [Nodes -> Nat],
   shape : [Refs -> Shapes], ungoverned : SUBSET Namespaces, nodesReadable : BOOLEAN]

Flags ==
  [bad : BOOLEAN, allNS : BOOLEAN, namespace : Namespaces \cup {NoNamespace},
   includeSystem : BOOLEAN, json : BOOLEAN, top : Int,
   riskThreshold : Nat, failOn : Severities \cup {"none"}]

ASSUME RunScanAssumption ==
  /\ Namespaces \subseteq Nat \ {0} /\ IsFiniteSet(Namespaces)
  /\ SystemNamespaces \subseteq Namespaces
  /\ ContextNamespace \in Namespaces \cup {NoNamespace}
  /\ NamespaceDefault \in Namespaces
  /\ Refs \subseteq [ns : Namespaces, kind : Nat, name : Nat] /\ IsFiniteSet(Refs)
  /\ Clusters \subseteq ClusterStates
  /\ Nodes \subseteq Nat \ {Nowhere} /\ IsFiniteSet(Nodes)
  /\ FlagSets \subseteq Flags
  /\ MaxRuns \in Nat \ {0}

VARIABLES
  cluster, flags,
  pc,         \* the stage about to run
  scope,      \* the namespace resolved
  inv,        \* [workloads, namespaces] of the inventory
  scores,     \* scores[w.Ref]
  hidden,     \* [workloads, namespaces] HideSystem removed
  findings,   \* detect.Run's list
  report,
  printed,    \* what stdout holds
  exit,       \* the exit code; Running before
  prev,       \* the run before, if any
  runs

vars == <<cluster, flags, pc, scope, inv, scores, hidden, findings, report, printed, exit,
          prev, runs>>

-----------------------------------------------------------------------------
(* Scoring: BlastRadius has the loop; here a workload sits on one node.     *)

Running == -1
Tenants(n) == {r \in Refs : cluster.on[r] = n}

Listed == IF cluster.nodesReadable THEN Nodes ELSE {}

\* The roomiest node, the first of those that tie.
Largest(nodes) ==
  CHOOSE n \in nodes : \A m \in nodes :
    cluster.alloc[m] < cluster.alloc[n] \/ (cluster.alloc[m] = cluster.alloc[n] /\ n <= m)

\* A workload without pods is forecast on the largest node.
CandidateNode(r, nodes) ==
  IF cluster.on[r] \in nodes THEN cluster.on[r]
  ELSE IF nodes = {} THEN Nowhere ELSE Largest(nodes)

Ceiling(r, n) ==
  IF cluster.limit[r] \in 1 .. cluster.alloc[n] - 1 THEN cluster.limit[r] ELSE cluster.alloc[n]

\* The logarithm and the spot factor are left out: a neighbor counts for one.
\* A node that reports no memory cannot be scored against.
ScoreAmong(r, n, neighbors) ==
  LET scored == n # Nowhere /\ cluster.alloc[n] > 0
  IN  [scored |-> scored,
       risk |-> IF scored THEN Ceiling(r, n) * Cardinality(neighbors) ELSE 0,
       neighbors |-> IF scored THEN Cardinality(neighbors) ELSE 0,
       hypothetical |-> n \notin {Nowhere, cluster.on[r]}]

\* Mutation: only what the report is about counts as a neighbor.
ScoreInScope(r) ==
  LET n == CandidateNode(r, Listed)
  IN  ScoreAmong(r, n, (Tenants(n) \cap inv.workloads) \ {r})

ScoreOf(r) ==
  LET n == CandidateNode(r, Listed)
  IN  ScoreAmong(r, n, Tenants(n) \ {r})

SoleTenant(s) == s.scored /\ s.neighbors = 0

-----------------------------------------------------------------------------
(* Findings: Manifest and Advice have the rules; a workload has one shape.  *)

Rank(severity) ==
  CASE severity = "critical" -> 3
    [] severity = "warn" -> 2
    [] severity = "info" -> 1
    [] OTHER -> 0

\* Mutation: at least is read as above.
AtLeastStrict(severity, floor) == Rank(severity) > Rank(floor)
AtLeast(severity, floor) == Rank(severity) >= Rank(floor)

NoRef == [ns |-> 0, kind |-> 0, name |-> 0]
Finding(rule, severity, ns, ref, risk) ==
  [rule |-> rule, severity |-> severity, ns |-> ns, ref |-> ref, risk |-> risk]

\* What is said of a workload r with score s.
WorkloadFindings(r, s) ==
  LET harmful == s.scored /\ s.risk > 0
      of(rule, severity) == Finding(rule, severity, r.ns, r, s.risk)
  IN  CASE cluster.shape[r] = "clean" -> {}
        [] cluster.shape[r] = "uncapped" -> {of(102, IF harmful THEN "critical" ELSE "warn")}
        [] cluster.shape[r] = "wasteful" /\ harmful -> {of(107, "warn"), of(301, "critical")}
        [] cluster.shape[r] = "wasteful" /\ ~harmful -> {of(107, "info")}

WorkloadsOf(ns) == {r \in Refs : r.ns = ns}

\* Namespace.Workloads was counted by the collector, before anything was hidden.
NamespaceFindings(ns) ==
  IF ns \in cluster.ungoverned
  THEN {Finding(201, IF WorkloadsOf(ns) # {} THEN "warn" ELSE "info", ns, NoRef, 0)}
  ELSE {}

\* Worst severity first, then highest blast radius, then by identity.
Before(keys1, keys2) ==
  \E i \in DOMAIN keys1 :
    keys1[i] < keys2[i] /\ \A j \in 1 .. i - 1 : keys1[j] = keys2[j]

\* An element's place in a sorted list is one more than how many go before it.
InOrder(S, Key(_)) ==
  [i \in 1 .. Cardinality(S) |->
     CHOOSE x \in S : Cardinality({y \in S : Before(Key(y), Key(x))}) = i - 1]

\* A number for the name, the rule and the kind serves the order the code gives strings.
FindingKey(f) == <<-Rank(f.severity), -f.risk, f.ns, f.ref.name, f.rule, f.ref.kind>>
Triage(S) == InOrder(S, FindingKey)

-----------------------------------------------------------------------------
(* The report.                                                              *)

\* Mutation: rows stay in the order of the inventory.
RowKeyByName(row) == <<row.ref.ns, row.ref.kind, row.ref.name>>
\* Equal risks go by namespace and name; the kind is left of the earlier sort.
RowKey(row) == <<-row.score.risk, row.ref.ns, row.ref.name, row.ref.kind>>
Ranked(rows) == InOrder(rows, RowKey)

\* How many of the list a loop over it counts.
Count(s, Test(_)) == Cardinality({i \in DOMAIN s : Test(s[i])})

RowOf(r) ==
  [ref |-> r, score |-> scores[r],
   findings |-> Count(findings, LAMBDA f : f.ref = r),
   contradictions |-> Count(findings, LAMBDA f : f.ref = r /\ f.rule = 301)]

MaxRisk(refs) ==
  LET risks == {0} \cup {scores[r].risk : r \in {q \in refs : scores[q].scored}}
  IN  CHOOSE m \in risks : \A k \in risks : k <= m

\* The first in the order of the inventory; a risk of zero is nobody's.
MaxRiskRef(refs) ==
  IF MaxRisk(refs) = 0 THEN NoRef
  ELSE LET riskiest == {r \in refs : scores[r].risk = MaxRisk(refs)}
       IN  CHOOSE r \in riskiest :
             \A q \in riskiest \ {r} : Before(<<r.ns, r.kind, r.name>>, <<q.ns, q.kind, q.name>>)

\* Mutation: what is neither critical nor informative is not counted.
TalliesWithoutWarn(s) ==
  [critical |-> Count(s, LAMBDA f : f.severity = "critical"), warn |-> 0,
   info |-> Count(s, LAMBDA f : f.severity = "info")]
Tallies(s) ==
  [critical |-> Count(s, LAMBDA f : f.severity = "critical"),
   warn |-> Count(s, LAMBDA f : f.severity = "warn"),
   info |-> Count(s, LAMBDA f : f.severity = "info")]

ReportNow ==
  [rows |-> Ranked({RowOf(r) : r \in inv.workloads}),
   findings |-> findings,
   namespaces |-> {ns \in inv.namespaces : ns \in cluster.ungoverned},
   counts |-> Tallies(findings),
   hidden |-> hidden,
   maxRisk |-> MaxRisk(inv.workloads),
   maxRiskRef |-> MaxRiskRef(inv.workloads),
   scored |-> Cardinality({r \in inv.workloads : scores[r].scored}),
   unscored |-> Cardinality({r \in inv.workloads : ~scores[r].scored})]

\* Mutation: the comparison with the number of rows is missing.
CutUnchecked(r, n) == IF n = 0 THEN 0 ELSE Len(r.rows) - n
\* Report.Limit: how many rows --top hides.
Cut(r, n) == IF n <= 0 \/ n >= Len(r.rows) THEN 0 ELSE Len(r.rows) - n

\* Mutation: the findings of the rows that are cut are cut too.
LimitedWithFindings(r, n) ==
  LET rows == SubSeq(r.rows, 1, Len(r.rows) - Cut(r, n))
      kept == {rows[i].ref : i \in DOMAIN rows}
  IN  [r EXCEPT !.rows = rows, !.findings = SelectSeq(@, LAMBDA f : f.ref \in kept)]
\* The table shortens the rows of the very report the gate reads afterwards.
Limited(r, n) == [r EXCEPT !.rows = IF n \in 1 .. Len(@) - 1 THEN SubSeq(@, 1, n) ELSE @]

\* Contradictions have a banner and a section of their own; the findings section
\* is the rest.
Contradictions(r) == Count(r.findings, LAMBDA f : f.rule = 301)
Rest(r) == Count(r.findings, LAMBDA f : f.rule # 301)

Summary(r) ==
  [workloads |-> r.scored + r.unscored,
   findings |-> r.counts.critical + r.counts.warn + r.counts.info,
   contradictions |-> Contradictions(r), riskiest |-> r.maxRiskRef]

\* A line of the table: a workload that was not scored has its reason there and
\* neither flags nor findings.
NotShown == -1
TableRow(row) ==
  [ref |-> row.ref, score |-> row.score,
   contradiction |-> row.score.scored /\ row.contradictions > 0,
   soleTenant |-> SoleTenant(row.score),
   findings |-> IF row.score.scored THEN row.findings ELSE NotShown]

Worst(s) ==
  CHOOSE severity \in {s[i].severity : i \in DOMAIN s} :
    \A i \in DOMAIN s : Rank(s[i].severity) <= Rank(severity)

\* gate: has the cluster crossed a line the caller drew?
Crossed(f, r) ==
  \/ f.riskThreshold > 0 /\ r.maxRisk > f.riskThreshold
  \/ f.failOn # "none" /\ r.findings # <<>> /\ AtLeast(Worst(r.findings), f.failOn)

-----------------------------------------------------------------------------
NoInventory == [workloads |-> {}, namespaces |-> {}]
Nothing == [workloads |-> 0, namespaces |-> 0]
NoReport == [rows |-> <<>>, findings |-> <<>>, namespaces |-> {},
             counts |-> [critical |-> 0, warn |-> 0, info |-> 0],
             hidden |-> Nothing, maxRisk |-> 0, maxRiskRef |-> NoRef,
             scored |-> 0, unscored |-> 0]
NoOutput == [complete |-> FALSE, rows |-> <<>>, cut |-> 0, contradictions |-> 0, tail |-> 0,
             summary |-> Summary(NoReport)]
NoRun == [flags |-> [bad |-> TRUE], exit |-> Running, report |-> NoReport, rows |-> <<>>]

Init ==
  /\ cluster \in Clusters
  /\ flags \in FlagSets
  /\ pc = "validate"
  /\ scope = NoNamespace
  /\ inv = NoInventory
  /\ scores = <<>>
  /\ hidden = Nothing
  /\ findings = <<>>
  /\ report = NoReport
  /\ printed = NoOutput
  /\ exit = Running
  /\ prev = NoRun
  /\ runs = 1

\* Every error is Execute's exit code 1.
Exit(code) == pc' = "exited" /\ exit' = code
Go(stage) == pc' = stage /\ UNCHANGED exit

\* Flags are refused before any call is made.
Validate ==
  /\ pc = "validate"
  /\ IF flags.bad THEN Exit(1) ELSE Go("connect")
  /\ UNCHANGED <<cluster, flags, scope, inv, scores, hidden, findings, report, printed, prev, runs>>

\* Client.DefaultNamespace, which Connect settles.
DefaultNamespace ==
  IF ContextNamespace = NoNamespace THEN NamespaceDefault ELSE ContextNamespace

Connect ==
  /\ pc = "connect"
  /\ Go("resolve") \/ Exit(1)
  /\ UNCHANGED <<cluster, flags, scope, inv, scores, hidden, findings, report, printed, prev, runs>>

ResolveNamespace ==
  /\ pc = "resolve"
  /\ IF flags.allNS /\ flags.namespace # NoNamespace THEN Exit(1) ELSE Go("collect")
  /\ scope' = IF flags.allNS THEN NoNamespace
              ELSE IF flags.namespace # NoNamespace THEN flags.namespace
              ELSE DefaultNamespace
  /\ UNCHANGED <<cluster, flags, inv, scores, hidden, findings, report, printed, prev, runs>>

InScope(ns) == scope = NoNamespace \/ ns = scope

\* Module Collect has the reads; only a denied pod list ends the scan.
CollectInventory ==
  /\ pc = "collect"
  /\ \/ /\ Go("score")
        /\ inv' = [workloads |-> {r \in Refs : InScope(r.ns)},
                   namespaces |-> {ns \in Namespaces : InScope(ns)}]
     \/ /\ Exit(1)
        /\ UNCHANGED inv
  /\ UNCHANGED <<cluster, flags, scope, scores, hidden, findings, report, printed, prev, runs>>

\* Score first, against the complete inventory.
Score ==
  /\ pc = "score"
  /\ scores' = [r \in inv.workloads |-> ScoreOf(r)]
  /\ Go("hide")
  /\ UNCHANGED <<cluster, flags, scope, inv, hidden, findings, report, printed, prev, runs>>

\* Mutation: what is hidden is not counted.
HideSystemSilently ==
  /\ pc = "hide"
  /\ inv' = IF flags.includeSystem \/ scope \in SystemNamespaces THEN inv
            ELSE [workloads |-> {r \in inv.workloads : r.ns \notin SystemNamespaces},
                  namespaces |-> inv.namespaces \ SystemNamespaces]
  /\ Go("detect")
  /\ UNCHANGED <<cluster, flags, scope, scores, hidden, findings, report, printed, prev, runs>>

\* Only then does the reporting scope narrow, unless a system namespace is asked for.
HideSystem ==
  /\ pc = "hide"
  /\ LET system == {r \in inv.workloads : r.ns \in SystemNamespaces}
         provider == inv.namespaces \cap SystemNamespaces
     IN  IF flags.includeSystem \/ scope \in SystemNamespaces
         THEN UNCHANGED <<inv, hidden>>
         ELSE /\ inv' = [workloads |-> inv.workloads \ system,
                         namespaces |-> inv.namespaces \ provider]
              /\ hidden' = [workloads |-> Cardinality(system),
                            namespaces |-> Cardinality(provider)]
  /\ Go("detect")
  /\ UNCHANGED <<cluster, flags, scope, scores, findings, report, printed, prev, runs>>

Detect ==
  /\ pc = "detect"
  /\ findings' = Triage(UNION ({WorkloadFindings(r, scores[r]) : r \in inv.workloads} \cup
                               {NamespaceFindings(ns) : ns \in inv.namespaces}))
  /\ Go("build")
  /\ UNCHANGED <<cluster, flags, scope, inv, scores, hidden, report, printed, prev, runs>>

Build ==
  /\ pc = "build"
  /\ report' = ReportNow
  /\ Go("render")
  /\ UNCHANGED <<cluster, flags, scope, inv, scores, hidden, findings, printed, prev, runs>>

\* The table is built in memory and written once; stdout may refuse it.
Render ==
  /\ pc = "render"
  /\ report' = IF flags.json THEN report ELSE Limited(report, flags.top)
  /\ \/ /\ Go("gate")
        /\ printed' = [complete |-> TRUE,
                       rows |-> [i \in DOMAIN report'.rows |-> TableRow(report'.rows[i])],
                       cut |-> IF flags.json THEN 0 ELSE Cut(report, flags.top),
                       contradictions |-> Contradictions(report'),
                       tail |-> Rest(report'), summary |-> Summary(report')]
     \/ /\ Exit(1)
        /\ UNCHANGED printed
  /\ UNCHANGED <<cluster, flags, scope, inv, scores, hidden, findings, prev, runs>>

Gate ==
  /\ pc = "gate"
  /\ Exit(IF Crossed(flags, report) THEN 2 ELSE 0)
  /\ UNCHANGED <<cluster, flags, scope, inv, scores, hidden, findings, report, printed, prev, runs>>

\* The same cluster, once more.
Rerun(f) ==
  /\ pc = "exited"
  /\ runs < MaxRuns
  /\ printed.complete
  /\ prev' = [flags |-> flags, exit |-> exit, report |-> report, rows |-> printed.rows]
  /\ flags' = f
  /\ pc' = "validate"
  /\ scope' = NoNamespace
  /\ inv' = NoInventory
  /\ scores' = <<>>
  /\ hidden' = Nothing
  /\ findings' = <<>>
  /\ report' = NoReport
  /\ printed' = NoOutput
  /\ exit' = Running
  /\ runs' = runs + 1
  /\ UNCHANGED cluster

Next ==
  \/ Validate
  \/ Connect
  \/ ResolveNamespace
  \/ CollectInventory
  \/ Score
  \/ HideSystem
  \/ Detect
  \/ Build
  \/ Render
  \/ Gate
  \/ \E f \in FlagSets : Rerun(f)

Spec == Init /\ [][Next]_vars

-----------------------------------------------------------------------------
TypeOK ==
  /\ cluster \in Clusters
  /\ flags \in Flags
  /\ pc \in {"validate", "connect", "resolve", "collect", "score", "hide", "detect",
             "build", "render", "gate", "exited"}
  /\ scope \in Namespaces \cup {NoNamespace}
  /\ inv.workloads \subseteq Refs /\ inv.namespaces \subseteq Namespaces
  /\ hidden \in [workloads : Nat, namespaces : Nat]
  /\ report.maxRisk \in Nat
  /\ printed.cut \in Nat
  /\ exit \in {Running, 0, 1, 2}
  /\ runs \in 1 .. MaxRuns

Rows(rows) == {rows[i] : i \in DOMAIN rows}

\* What a workload endangers, or would once it starts, whether or not anybody
\* could look: on a node that reports no memory, as much as its limit allows.
TrueRisk(r) ==
  IF Nodes = {} THEN 0
  ELSE LET n == CandidateNode(r, Nodes)
       IN  (IF cluster.alloc[n] > 0 THEN Ceiling(r, n) ELSE cluster.limit[r])
             * Cardinality(Tenants(n) \ {r})

\* A score is a property of the node, not of the question: whatever is asked of
\* one cluster, with -n, -A or --include-system, a workload has one score, the
\* forecast of a workload without pods included.
OneScorePerWorkload ==
  printed.complete =>
    \A a \in Rows(printed.rows), b \in Rows(prev.rows) : a.ref = b.ref => a.score = b.score

\* "A hidden count the reader cannot see is indistinguishable from a clean
\* scan": every workload of the scope is on a row, cut by --top and counted as
\* such, or hidden and counted as such.
NothingVanishes ==
  printed.complete =>
    Len(printed.rows) + printed.cut + report.hidden.workloads
      = Cardinality({r \in Refs : InScope(r.ns)})

\* The headings reconcile with the summary: the findings section and the
\* contradictions add up to the total of the severities, every row that was
\* scored counts its findings, and the rows that are flagged, with those that
\* were cut, account for the contradictions listed.
TalliesReconcile ==
  printed.complete =>
    LET flagged == {row \in Rows(printed.rows) : row.contradiction}
    IN  /\ printed.tail + printed.contradictions = printed.summary.findings
        /\ printed.summary.findings = Len(report.findings)
        /\ printed.summary.workloads = Len(printed.rows) + printed.cut
        /\ printed.summary.contradictions = printed.contradictions
        /\ \A row \in Rows(printed.rows) :
             /\ row.score.scored =>
                  row.findings = Count(report.findings, LAMBDA f : f.ref = row.ref)
             /\ ~(row.contradiction /\ row.soleTenant)
        /\ Cardinality(flagged) <= printed.contradictions
        /\ printed.contradictions <= Cardinality(flagged) + printed.cut

\* --top hides only what is no riskier than anything it shows, and the summary's
\* highest blast radius is that of the first row, whichever of the workloads it
\* ties with the summary names.
TopShowsTheRiskiest ==
  printed.complete /\ printed.rows # <<>> =>
    LET first == printed.rows[1].score.risk
    IN  /\ report.maxRisk = first
        /\ IF first = 0 THEN printed.summary.riskiest = NoRef
           ELSE /\ printed.summary.riskiest \in inv.workloads
                /\ scores[printed.summary.riskiest].risk = first
        /\ \A r \in inv.workloads, row \in Rows(printed.rows) :
             r \notin {q.ref : q \in Rows(printed.rows)} => scores[r].risk <= row.score.risk

\* docs/json-contract.md, Exit codes: a verdict is given on a report that was
\* printed in full, and it is about what that report contains.
GateIsHonest ==
  pc = "exited" =>
    LET crosses == \/ /\ flags.riskThreshold > 0
                      /\ \E r \in inv.workloads : scores[r].risk > flags.riskThreshold
                   \/ \E i \in DOMAIN findings :
                        flags.failOn # "none" /\ Rank(findings[i].severity) >= Rank(flags.failOn)
    IN  /\ exit \in {0, 2} <=> printed.complete
        /\ exit = 2 => crosses
        /\ exit = 0 => ~crosses

\* A threshold that is passed may be passed for want of looking, and the report
\* says how often: when the exit code is 0, every workload of the scope that
\* endangers more than the threshold allows, where it runs or on the node it is
\* forecast on, is one of those hidden, as many as the report says are hidden,
\* or one of those shown without a score, as many as it says are unscored.
VacuousPassIsVisible ==
  exit = 0 /\ flags.riskThreshold > 0 =>
    LET inScope == {r \in Refs : InScope(r.ns)}
        dropped == inScope \ inv.workloads
        unscored == {r \in inv.workloads : ~scores[r].scored}
    IN  /\ report.hidden.workloads = Cardinality(dropped)
        /\ report.unscored = Cardinality(unscored)
        /\ \A r \in inScope :
             TrueRisk(r) > flags.riskThreshold => r \in dropped \cup unscored

\* Asking for JSON, or for fewer rows, changes the verdict of no scan, although
\* the table shortens the report the gate goes on to read.
PresentationDoesNotGate ==
  pc = "exited" /\ exit # 1 /\ prev # NoRun
    /\ flags = [prev.flags EXCEPT !.json = flags.json, !.top = flags.top]
  => exit = prev.exit /\ report.counts = prev.report.counts
=============================================================================
