------------------------------- MODULE Manifest -------------------------------
(***************************************************************************)
(* A pod template as its owner edits it, and what capsize makes of it:     *)
(* effective resources, QoS class, blast radius and the static findings    *)
(* CAP101 .. CAP106, scan after scan.                                      *)
(***************************************************************************)
EXTENDS RiskFormula, Units, FiniteSetsExt

CONSTANTS
  Containers,      \* names of the containers of the pod, init containers included
  Roles,           \* the roles they may have: a set of [Containers -> RoleKinds]
  MemQuantities,   \* what a manifest may say of memory
  CpuQuantities,   \* and of CPU
  Clusters0        \* the clusters the workload may run in

RoleKinds == {"container", "sidecar", "init"}
Absent == -1

ASSUME ManifestAssumption ==
  /\ IsFiniteSet(Containers)
  /\ Roles \subseteq [Containers -> RoleKinds]
  /\ MemQuantities \subseteq Nat
  /\ CpuQuantities \subseteq Nat
  /\ Clusters0 \subseteq Clusters

\* A request and a limit, either of which may be left out.
Declared(Q) ==
  {r \in [req : Q \cup {Absent}, lim : Q \cup {Absent}] :
     r.req = Absent \/ r.lim = Absent \/ r.req <= r.lim}
Quantities == [mem |-> MemQuantities, cpu |-> CpuQuantities]
Resources == DOMAIN Quantities
SpecsOver(Q) == [Containers -> [mem : Declared(Q), cpu : Declared(CpuQuantities)]]

\* The number a report shows for a quantity: CPU is printed to the millicore.
AsPrinted(res, q) == IF res = "mem" THEN Printed(q) ELSE q
Pastable == [res \in Resources |-> {AsPrinted(res, q) : q \in Quantities[res]}]

VARIABLES
  cluster, role,   \* where the pods run, and what kind each container is
  spec,            \* the pod template
  pc,              \* "scan" or "reported"
  report,          \* what the last scan said of the workload
  last             \* the owner's last edit, and the report it answered

vars == <<cluster, role, spec, pc, report, last>>

-----------------------------------------------------------------------------
(* The API defaults a missing request to the limit, and the collector       *)
(* repeats it, because a template shows only what its author wrote.         *)

\* Mutation: the template is believed as written.
AsWritten(r) == [req |-> r.req, lim |-> r.lim, defaulted |-> FALSE]

Effective(r) ==
  LET missing == r.req = Absent /\ r.lim # Absent
  IN  [req |-> IF missing THEN r.lim ELSE r.req, lim |-> r.lim, defaulted |-> missing]

\* Ordinary init containers do not run alongside the rest, native sidecars do.
Collected == {c \in Containers : role[c] # "init"}

Of(c, res) == Effective(spec[c][res])

\* Mutation: an absent request is not zero.
ReservedRaw(c, res) == Of(c, res).req
Reserved(c, res) == IF Of(c, res).req = Absent THEN 0 ELSE Of(c, res).req

Total(amount, S) == MapThenSumSet(LAMBDA c : amount[c], S)
Reservation(res) == Total([c \in Collected |-> Reserved(c, res)], Collected)

\* One container without a memory limit makes the pod unbounded.
MemLimit ==
  IF Collected = {} \/ \E c \in Collected : Of(c, "mem").lim = Absent THEN Unbounded
  ELSE Total([c \in Collected |-> Of(c, "mem").lim], Collected)

Declares(c) ==
  \E res \in Resources :
    Of(c, res).lim # Absent \/ (Of(c, res).req # Absent /\ ~Of(c, res).defaulted)

\* Mutation: CPU alone decides.
GuaranteedByCpu(c) == Of(c, "cpu").lim # Absent /\ Of(c, "cpu").req = Of(c, "cpu").lim
\* Mutation: a defaulted request does not count.
GuaranteedIfSpelled(c) ==
  \A res \in Resources :
    Of(c, res).lim # Absent /\ Of(c, res).req = Of(c, res).lim /\ ~Of(c, res).defaulted

Guaranteed(c) ==
  \A res \in Resources : Of(c, res).lim # Absent /\ Of(c, res).req = Of(c, res).lim

QoS ==
  IF Collected = {} THEN "BestEffort"
  ELSE IF \A c \in Collected : Guaranteed(c) THEN "Guaranteed"
  ELSE IF \A c \in Collected : ~Declares(c) THEN "BestEffort"
  ELSE "Burstable"

Shape == [request |-> Reservation("mem"), limit |-> MemLimit,
          nodes |-> {n \in NodeNames : Self \in cluster.tenants[n]}, pods |-> 1]

-----------------------------------------------------------------------------
(* shapeFindings.                                                           *)

\* Mutation: a node to oneself is as bad as a shared one.
UncappedSeverityAnyNode(s) == IF s.scored /\ s.fromNode THEN "critical" ELSE "warn"
UncappedSeverity(s) ==
  IF s.scored /\ s.fromNode /\ s.neighbors > 0 THEN "critical" ELSE "warn"

\* Mutation: a limit of zero is not a limit.
ImplicitIfPositive(r) == r.lim > 0 /\ r.defaulted
\* The request follows the limit, and the manifest does not say so.
Implicit(r) == r.lim # Absent /\ r.defaulted

\* A floor without a ceiling; with no limit of either kind CAP102 says it.
FloorOnly(c, res) ==
  /\ Of(c, res).req # Absent
  /\ ~Of(c, res).defaulted
  /\ Of(c, res).lim = Absent
  /\ \E other \in Resources : Of(c, other).lim # Absent

Finding(rule, c, severity) == [rule |-> rule, container |-> c, severity |-> severity]

FindingsOn(c, s) ==
  {f \in {Finding("CAP101", c, "warn"), Finding("CAP102", c, UncappedSeverity(s)),
          Finding("CAP103", c, "info"), Finding("CAP104", c, "warn"),
          Finding("CAP105", c, "info"), Finding("CAP106", c, "info")} :
     CASE f.rule = "CAP101" -> \A res \in Resources : Of(c, res).req = Absent
       [] f.rule = "CAP102" -> \A res \in Resources : Of(c, res).lim = Absent
       [] f.rule = "CAP103" -> Implicit(Of(c, "mem"))
       [] f.rule = "CAP104" -> FloorOnly(c, "mem")
       [] f.rule = "CAP105" -> Implicit(Of(c, "cpu"))
       [] f.rule = "CAP106" -> FloorOnly(c, "cpu")}

ReportOf(s) ==
  [qos |-> QoS, mem |-> Reservation("mem"), cpu |-> Reservation("cpu"), limit |-> MemLimit,
   score |-> s, findings |-> UNION {FindingsOn(c, s) : c \in Collected}]

NoReport == [qos |-> "none", mem |-> 0, cpu |-> 0, limit |-> Unbounded,
             score |-> Unscored, findings |-> {}]

ImplicitRule(res) == IF res = "mem" THEN "CAP103" ELSE "CAP105"

-----------------------------------------------------------------------------
Init ==
  /\ cluster \in Clusters0
  /\ role \in Roles
  /\ spec \in SpecsOver(MemQuantities)
  /\ pc = "scan"
  /\ report = NoReport
  /\ last = [act |-> "none", container |-> "none", resource |-> "none",
             from |-> Absent, report |-> NoReport]

Scan ==
  /\ pc = "scan"
  /\ report' = ReportOf(ScoreOf(cluster, Shape))
  /\ pc' = "reported"
  /\ UNCHANGED <<cluster, role, spec, last>>

\* The owner changes one line of the manifest, to something the API admits.
Edit(act, c, res, r) ==
  /\ pc = "reported"
  /\ r \in Declared(Quantities[res] \cup Pastable[res])
  /\ r # spec[c][res]
  /\ spec' = [spec EXCEPT ![c][res] = r]
  /\ last' = [act |-> act, container |-> c, resource |-> res,
              from |-> spec[c][res].lim, report |-> report]
  /\ pc' = "scan"
  /\ UNCHANGED <<cluster, role, report>>

EditLimit(c, res, q) == Edit("limit edited", c, res, [spec[c][res] EXCEPT !.lim = q])
EditRequest(c, res, q) == Edit("request edited", c, res, [spec[c][res] EXCEPT !.req = q])

\* What CAP103 and CAP105 ask for: the request spelled out, as they print it,
\* unless the API refuses it for being above the limit.
SpellOut(c, res) ==
  /\ Finding(ImplicitRule(res), c, "info") \in report.findings
  /\ Edit("spelled out", c, res, [spec[c][res] EXCEPT !.req = AsPrinted(res, spec[c][res].lim)])

Next ==
  \/ Scan
  \/ \E c \in Containers, res \in Resources :
       \/ \E q \in Quantities[res] \cup {Absent} : EditLimit(c, res, q) \/ EditRequest(c, res, q)
       \/ SpellOut(c, res)

Spec == Init /\ [][Next]_vars

-----------------------------------------------------------------------------
Rules == {"CAP101", "CAP102", "CAP103", "CAP104", "CAP105", "CAP106"}
Findings == [rule : Rules, container : Containers, severity : {"info", "warn", "critical"}]
ReportOK(r) ==
  /\ r.qos \in {"none", "BestEffort", "Burstable", "Guaranteed"}
  /\ r.mem \in Nat /\ r.cpu \in Nat /\ r.limit \in Nat \cup {Unbounded}
  /\ r.score.risk \in Risks
  /\ r.findings \subseteq Findings

TypeOK ==
  /\ cluster \in Clusters
  /\ role \in [Containers -> RoleKinds]
  /\ spec \in SpecsOver(MemQuantities \cup Pastable.mem)
  /\ pc \in {"scan", "reported"}
  /\ ReportOK(report)
  /\ last.from \in Nat \cup {Absent} /\ ReportOK(last.report)

Reported == pc = "reported"
Undeclared(c) == \A res \in Resources : spec[c][res] = [req |-> Absent, lim |-> Absent]
JustBounded ==
  Reported /\ last.report.score.scored /\ last.report.limit = Unbounded /\ report.limit # Unbounded
RiskRose == Exceeds(report.score.risk, last.report.score.risk)
FloorOverNode == \E n \in Scorable(cluster, Shape) : cluster.alloc[n] < RequestFloor
Flagged(rule, r) == {f.container : f \in {g \in r.findings : g.rule = rule}}

\* The class comes out of defaulted resources and still says what the authors
\* wrote: a pod is BestEffort exactly when no long-lived container declares
\* anything, and CAP101 names exactly the containers that declare nothing.
BestEffortIsUndeclared ==
  Reported =>
    /\ report.qos = "BestEffort" <=> \A c \in Collected : Undeclared(c)
    /\ Flagged("CAP101", report) = {c \in Collected : Undeclared(c)}

\* The class and the score agree: what a Guaranteed pod may consume is what was
\* reserved for it, so that no ratio above one is printed beside the class.
GuaranteedIsTight ==
  Reported /\ report.qos = "Guaranteed" /\ report.limit > 0 /\ report.score.scored =>
    report.score.ceiling <= report.mem

\* CAP102 is critical exactly when the workload endangers somebody: its blast
\* radius, computed elsewhere and for the whole pod, is not zero.
UncappedIsCriticalIfHarmful ==
  Reported =>
    \A f \in report.findings :
      f.rule = "CAP102" => (f.severity = "critical" <=> report.score.risk.num > 0)

\* CAP103 and CAP105 are manifest hygiene: doing what they say, when what they
\* say is exact, removes them and changes neither reservation nor class nor blast
\* radius nor any other finding.
SpellingOutIsNeutral ==
  Reported /\ last.act = "spelled out" /\ AsPrinted(last.resource, last.from) = last.from =>
    report = [last.report EXCEPT !.findings =
                @ \ {Finding(ImplicitRule(last.resource), last.container, "info")}]

\* "so the reservation cannot move silently when someone edits the limit": if
\* editing a limit moved what is reserved, the report before had said it would.
MovesAreAnnounced ==
  Reported /\ last.act = "limit edited" /\ last.from # Absent
    /\ <<report.mem, report.cpu>> # <<last.report.mem, last.report.cpu>>
  => last.container \in Flagged(ImplicitRule(last.resource), last.report)

\* The edit that bounds a workload does not raise its blast radius, however it
\* moves the reservation, as long as nobody writes a request of zero.  The one
\* exception is a score that was divided by a --request-floor greater than the
\* memory of a node the workload may be on: it may rise, to a ratio of at most one.
BoundingIsRewarded ==
  JustBounded /\ (\A c \in Collected : spec[c].mem.req # 0) /\ RiskRose =>
    /\ last.report.mem = 0 /\ FloorOverNode
    /\ report.score.ceiling <= report.mem

-----------------------------------------------------------------------------
(* Statements of the documentation, for the record.                         *)

\* detect.go:129: "spell out requests.memory: %s so the reservation cannot move
\* silently", with a number that units.go:1 says "can be pasted straight into a
\* manifest": whoever does so moves neither the reservation nor the class.
SpellingOutKeepsTheReservation ==
  Reported /\ last.act = "spelled out" =>
    /\ <<report.mem, report.cpu>> = <<last.report.mem, last.report.cpu>>
    /\ report.qos = last.report.qos
=============================================================================
