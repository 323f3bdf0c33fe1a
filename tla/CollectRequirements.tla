------------------------- MODULE CollectRequirements -------------------------
(***************************************************************************)
(* What an inventory owes its reader, stated against the states the        *)
(* cluster was really in while it was being read.                          *)
(***************************************************************************)
EXTENDS Collect

Done == pc = "done"
ControllerKinds == {"Deployment", "StatefulSet", "DaemonSet", "CronJob"}
ReadOf == [k \in ControllerKinds |->
             CASE k = "Deployment" -> "deployments"
               [] k = "StatefulSet" -> "statefulsets"
               [] k = "DaemonSet" -> "daemonsets"
               [] k = "CronJob" -> "cronjobs"]

\* The controller a pod really answers to in state t: a replicaset or a job is
\* passed over for the deployment or cronjob above it, while it exists.
PassedOver(c) ==
  <<c.kind, Controller[c].kind>> \in {<<"ReplicaSet", "Deployment">>, <<"Job", "CronJob">>}

TrueOwner(t, p) ==
  LET c == Controller[p] IN
  IF c \in t.objs /\ PassedOver(c) THEN Controller[c]
  ELSE IF c.kind \in {"StatefulSet", "DaemonSet", "Job"} THEN c
  ELSE p

AliveOn(t, p, n) == Alive(t, p) /\ t.pods[p].node = n

TrueTenants(t, n) ==
  IF n \in t.nodes THEN {TrueOwner(t, p) : p \in {q \in Pods : AliveOn(t, q, n)}} ELSE {}

TrueOrphans(t) ==
  {TrueOwner(t, p) : p \in {q \in Pods : Alive(t, q) /\ TrueOwner(t, q).kind \in {"Pod", "Job"}}}

TrueWorkloads(t) ==
  {o \in t.objs \cup TrueOrphans(t) :
     o.kind \in ControllerKinds \cup {"Pod", "Job"} /\ InNamespace(o, Scope)
       /\ (o.kind = "Job" => o \in TrueOrphans(t))}

NoLimitRange(t, ns) == ObjectsOf(t, "LimitRange", ns) = {}
NoQuota(t, ns) == ObjectsOf(t, "ResourceQuota", ns) = {}

ScopeNamespaces(t) ==
  IF Scope # AllNamespaces THEN {Scope}
  ELSE {o.ns : o \in ObjectsOf(t, "Namespace", AllNamespaces)}

\* Mutation: a namespace needs a LimitRange.
UngovernedByLimits(ns) == ns \in nsRows /\ ns \notin unreadable /\ limits[ns] = {}

\* Namespace.Ungoverned: what CAP201 reports.
Ungoverned(ns) ==
  /\ ns \in nsRows
  /\ ns \notin unreadable
  /\ limits[ns] = {}
  /\ quotas[ns] = {}

OwnerReadable(p) ==
  /\ Controller[p].kind = "ReplicaSet" => "replicasets" \notin warnings
  /\ Controller[p].kind = "Job" => "jobs" \notin warnings

Ancestors(p) ==
  LET up(o) == IF o \in RefSpace THEN {Controller[o]} ELSE {}
  IN  {p} \cup up(p) \cup up(Controller[p])

\* The owner a pod had at some time of the scan or, when a denial hid it, something
\* on the way to it.
BelongedTo(p, r) ==
  \/ \E t \in Past : r = TrueOwner(t, p)
  \/ ~OwnerReadable(p) /\ r \in Ancestors(p)

\* The pods of a workload that were alive at some time of the scan.
PodsOf(r) == {p \in Pods : (\E t \in Past : Alive(t, p)) /\ BelongedTo(p, r)}

-----------------------------------------------------------------------------
\* A scan of a cluster that holds still, and that warns of nothing, is the
\* cluster: no workload, neighbor or missing guardrail more or less.
QuietScanIsExact ==
  Done /\ Len(history) = 1 /\ warnings = {} =>
    /\ nodes = Now.nodes
    /\ \A n \in Nodes : tenants[n] = TrueTenants(Now, n)
    /\ workloads = TrueWorkloads(Now)
    /\ {ns \in Namespaces : Ungoverned(ns)} =
         {ns \in ScopeNamespaces(Now) : NoLimitRange(Now, ns) /\ NoQuota(Now, ns)}

\* However reads are denied and whatever changes meanwhile, a controller that
\* stood still is reported, or the read that would have shown it is warned of.
StableWorkloadsReported ==
  Done => \A o \in Objects :
    /\ o.kind \in ControllerKinds
    /\ InNamespace(o, Scope)
    /\ \A t \in Past : o \in t.objs
    => o \in workloads \/ ReadOf[o.kind] \in warnings

\* A pod that stood still on a node that did too is counted there, under its
\* true owner, in every scope, or one of the warnings accounts for it.
StableTenantsCounted ==
  Done => \A p \in Pods, n \in Nodes :
    /\ \A t \in Past : n \in t.nodes /\ AliveOn(t, p, n)
    /\ \A t, u \in Past : TrueOwner(t, p) = TrueOwner(u, p)
    => \/ TrueOwner(Now, p) \in tenants[n]
       \/ "nodes" \in warnings
       \/ "podsClusterWide" \in warnings /\ p.ns # Scope
       \/ ~OwnerReadable(p)

\* A neighbor is never made up: behind every tenant there is a pod that was
\* alive on that node, and the tenant is the owner that pod had at some time of
\* the scan, or, when a denial hid the owner, something on the way to it.
NoNeighborInvented ==
  \A n \in Nodes : \A r \in tenants[n] :
    \E p \in Pods :
      /\ \E t \in Past : AliveOn(t, p, n)
      /\ BelongedTo(p, r)

\* CAP201 is never made out of a denied read: each of the two guardrails it says
\* is missing was missing at some time during the scan.
UngovernedWasMissing ==
  \A ns \in Namespaces : Ungoverned(ns) =>
    /\ \E t \in Past : NoLimitRange(t, ns)
    /\ \E t \in Past : NoQuota(t, ns)

\* What a workload is said to use, live pods of its own used: behind the samples
\* counted there are as many pods that were alive during the scan and belonged to
\* the workload, the worst of them used what is reported, and there are no more of
\* them than the replicas the same row counts.  Metrics-server samples the pods at
\* an instant of its own, so it also knows pods that have gone and misses others.
UsageIsOfItsPods ==
  \A r \in DOMAIN usage :
    /\ usage[r].samples <= RunningPods(r)
    /\ \E S \in (SUBSET PodsOf(r)) \ {{}} :
         /\ usage[r].samples = Cardinality(S)
         /\ usage[r].mem = MaxOf({MemOf[p] : p \in S})

\* A scan ends, with a report or with an error, as long as the API answers.
ScanEnds == <>(pc \in {"done", "failed"})

-----------------------------------------------------------------------------
(* For the record: what docs/rbac.md says of every denied read.             *)

\* The list of pod metrics denied is a warning, as every other denial is.  It is
\* not: the code leaves a note.
DeniedMetricsAreWarned ==
  Done /\ metrics.note = "read failed" => "podmetrics" \in warnings

=============================================================================
