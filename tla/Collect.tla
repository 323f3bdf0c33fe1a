------------------------------- MODULE Collect -------------------------------
(***************************************************************************)
(* collect.Collect: a cluster read into an inventory with nothing but LIST *)
(* calls.  Every call is an action of its own, because the cluster goes on *)
(* changing between two calls and because RBAC, or the network, may refuse *)
(* any one of them.                                                        *)
(*                                                                         *)
(* `history` is the sequence of states the cluster has been in since the   *)
(* scan began; the last one is what a LIST sees now.                       *)
(***************************************************************************)
EXTENDS Integers, FiniteSets, Sequences

CONSTANTS
  Namespaces,    \* numbered in the order sort.Strings puts them
  Scope,         \* the namespace of -n, or AllNamespaces
  Nodes,         \* node names, numbered in the order sort.Strings puts them
  Pods,          \* pods, [kind |-> "Pod", ns, name]
  Objects,       \* the other API objects, [kind, ns, name]
  Controller,    \* owner reference with controller: true of a pod or object
  MemOf,         \* what metrics-server last sampled for a pod
  WithMetrics,   \* ~ --no-metrics
  MayFail,       \* the reads that may be denied or fail
  Starts,        \* states the cluster may be in when the scan starts
  Mutable,       \* pods and objects that may change during the scan
  MutableNodes,  \* nodes that may
  MaxChanges     \* bound: changes of the cluster during one scan

AllNamespaces == 0
NoController == [kind |-> "none", ns |-> 0, name |-> "none"]
Nowhere == 0         \* spec.nodeName of a pod that is not scheduled
RefSpace == Pods \cup Objects

Reads == {"nodes", "pods", "podsInScope", "replicasets", "jobs", "deployments",
          "statefulsets", "daemonsets", "cronjobs", "namespaces", "limitranges",
          "resourcequotas", "metrics.k8s.io", "podmetrics"}

Phases == {"absent", "Pending", "Running", "Terminal"}

ClusterStates ==
  [nodes : SUBSET Nodes, objs : SUBSET Objects,
   pods : [Pods -> [phase : Phases, node : Nodes \cup {Nowhere}]]]

ASSUME ScopeAssumption == 
  /\ Namespaces \subseteq Nat \ {0}
  /\ Scope \in Namespaces \cup {AllNamespaces}
ASSUME NodesAssumption == Nodes \subseteq Nat \ {Nowhere}
ASSUME ObjectsAssumption ==
  /\ IsFiniteSet(Pods)
  /\ \A p \in Pods : p.kind = "Pod"
  /\ \A o \in Objects : o.kind # "Pod"
  /\ \A o \in RefSpace : o.ns \in Namespaces
  /\ Controller \in [RefSpace -> Objects \cup {NoController}]
  /\ \A o \in RefSpace : Controller[o] # NoController => Controller[o].ns = o.ns
ASSUME BoundsAssumption ==
  /\ MayFail \subseteq Reads
  /\ Starts \subseteq ClusterStates
  /\ MutableNodes \subseteq Nodes
  /\ MaxChanges \in Nat
  /\ MemOf \in [Pods -> Nat]

VARIABLES
  history,     \* the cluster
  pc,          \* the read in flight
  nodes,       \* inv.Nodes
  listed,      \* the pods the scan saw alive, with the node each names
  owners,      \* rsOwner and jobOwner: the intermediate objects that resolve
  podRef,      \* pod -> owning workload
  tenants,     \* Node.Tenants
  workloads,   \* inv.Workloads, by reference
  nsTodo,      \* namespaces whose guardrails are still to be read
  nsRows,      \* inv.Namespaces
  limits,      \* Namespace.LimitRanges
  quotas,      \* Namespace.ResourceQuotas
  unreadable,  \* Namespace.GuardrailsUnknown
  usage,       \* inv.Usage
  metrics,     \* [available, note]
  warnings     \* the warnings, each by the read it reports

scanVars == <<pc, nodes, listed, owners, podRef, tenants, workloads, nsTodo, nsRows,
              limits, quotas, unreadable, usage, metrics, warnings>>
vars == <<history, scanVars>>

-----------------------------------------------------------------------------
(* The cluster.                                                             *)

Now == history[Len(history)]
Past == {history[i] : i \in 1 .. Len(history)}

InNamespace(o, ns) == ns = AllNamespaces \/ o.ns = ns
Exists(t, p) == t.pods[p].phase # "absent"
IsTerminal(t, p) == t.pods[p].phase = "Terminal"
Alive(t, p) == Exists(t, p) /\ ~IsTerminal(t, p)

ObjectsOf(t, kind, ns) == {o \in t.objs : o.kind = kind /\ InNamespace(o, ns)}

Change(t) ==
  /\ pc \notin {"done", "failed"}
  /\ Len(history) <= MaxChanges
  /\ history' = Append(history, t)
  /\ UNCHANGED scanVars

CreateObject(o) == o \notin Now.objs /\ Change([Now EXCEPT !.objs = @ \cup {o}])
DeleteObject(o) == o \in Now.objs /\ Change([Now EXCEPT !.objs = @ \ {o}])
NodeJoins(n) == n \notin Now.nodes /\ Change([Now EXCEPT !.nodes = @ \cup {n}])
NodeLeaves(n) == n \in Now.nodes /\ Change([Now EXCEPT !.nodes = @ \ {n}])

SetPod(p, phase, node) ==
  Change([Now EXCEPT !.pods[p] = [phase |-> phase, node |-> node]])

PodCreated(p) == ~Exists(Now, p) /\ SetPod(p, "Pending", Nowhere)
PodScheduled(p, n) ==
  /\ Now.pods[p].phase = "Pending"
  /\ Now.pods[p].node = Nowhere
  /\ n \in Now.nodes
  /\ SetPod(p, "Running", n)
PodFinishes(p) ==
  /\ Now.pods[p].phase = "Running"
  /\ SetPod(p, "Terminal", Now.pods[p].node)
PodDeleted(p) == Exists(Now, p) /\ SetPod(p, "absent", Nowhere)

ClusterChanges ==
  \/ \E o \in Mutable \cap Objects : CreateObject(o) \/ DeleteObject(o)
  \/ \E n \in MutableNodes : NodeJoins(n) \/ NodeLeaves(n)
  \/ \E p \in Mutable \cap Pods :
       PodCreated(p) \/ PodFinishes(p) \/ PodDeleted(p) \/ \E n \in Nodes : PodScheduled(p, n)

-----------------------------------------------------------------------------
(* The scan.                                                                *)

\* A read either answers or fails; only those of MayFail fail.
Answers(read) == IF read \in MayFail THEN BOOLEAN ELSE {TRUE}
\* Mutation: a denied read goes unsaid.
NeverWarn(ok, warning) == UNCHANGED warnings
WarnUnless(ok, warning) == warnings' = IF ok THEN warnings ELSE warnings \cup {warning}

Clusterwide == "podsClusterWide" \notin warnings
OwnerNamespace == IF Clusterwide THEN AllNamespaces ELSE Scope

ReadNodes ==
  /\ pc = "nodes"
  /\ \E ok \in Answers("nodes") :
       /\ nodes' = IF ok THEN Now.nodes ELSE {}
       /\ WarnUnless(ok, "nodes")
  /\ pc' = "pods"
  /\ UNCHANGED <<history, listed, owners, podRef, tenants, workloads, nsTodo, nsRows,
                 limits, quotas, unreadable, usage, metrics>>

\* Mutation: tenancy is read in the scope only.
ListedPodsOfScope(t, ns) ==
  [p \in {q \in Pods : InNamespace(q, Scope) /\ Alive(t, q)} |-> t.pods[p].node]

\* Pods in phase Succeeded or Failed hold no resources and are dropped.
ListedPods(t, ns) ==
  [p \in {q \in Pods : InNamespace(q, ns) /\ Alive(t, q)} |-> t.pods[p].node]

\* Tenancy is read cluster-wide whatever the scope.  Denied, -A has no
\* inventory to report, and -n falls back to its own namespace and says so.
ReadPods ==
  /\ pc = "pods"
  /\ \E ok \in Answers("pods") :
       \/ /\ ok
          /\ listed' = ListedPods(Now, AllNamespaces)
          /\ pc' = "replicasets"
          /\ UNCHANGED warnings
       \/ /\ ~ok
          /\ Scope = AllNamespaces
          /\ pc' = "failed"
          /\ UNCHANGED <<listed, warnings>>
       \/ /\ ~ok
          /\ Scope # AllNamespaces
          /\ warnings' = warnings \cup {"podsClusterWide"}
          /\ pc' = "podsInScope"
          /\ UNCHANGED listed
  /\ UNCHANGED <<history, nodes, owners, podRef, tenants, workloads, nsTodo, nsRows,
                 limits, quotas, unreadable, usage, metrics>>

ReadPodsInScope ==
  /\ pc = "podsInScope"
  /\ \E ok \in Answers("podsInScope") :
       /\ listed' = IF ok THEN ListedPods(Now, Scope) ELSE listed
       /\ pc' = IF ok THEN "replicasets" ELSE "failed"
  /\ UNCHANGED <<history, nodes, owners, podRef, tenants, workloads, nsTodo, nsRows,
                 limits, quotas, unreadable, usage, metrics, warnings>>

\* ReplicaSets and Jobs are read only to resolve pods to their controllers.
Resolving(t, kind, ownerKind) ==
  {o \in ObjectsOf(t, kind, OwnerNamespace) : Controller[o].kind = ownerKind}

ReadOwners(read, kind, ownerKind, next) ==
  /\ pc = read
  /\ \E ok \in Answers(read) :
       /\ owners' = IF ok THEN owners \cup Resolving(Now, kind, ownerKind) ELSE owners
       /\ WarnUnless(ok, read)
  /\ pc' = next
  /\ UNCHANGED <<history, nodes, listed, podRef, tenants, workloads, nsTodo, nsRows,
                 limits, quotas, unreadable, usage, metrics>>

ReadReplicaSets == ReadOwners("replicasets", "ReplicaSet", "Deployment", "jobs")
ReadJobs == ReadOwners("jobs", "Job", "CronJob", "attribute")

\* Mutation: a replicaset always has a deployment.
ResolveOwnerUnchecked(p) ==
  LET c == Controller[p] IN
  CASE c.kind = "ReplicaSet" -> Controller[c]
    [] c.kind = "Job" /\ c \in owners -> Controller[c]
    [] c.kind \in {"StatefulSet", "DaemonSet"} -> c
    [] c.kind = "Job" /\ c \notin owners -> c
    [] OTHER -> p

\* A replicaset that was not read, or has no deployment, leaves the pod to
\* itself; a job leaves it to the job.
ResolveOwner(p) ==
  LET c == Controller[p] IN
  CASE c.kind \in {"ReplicaSet", "Job"} /\ c \in owners -> Controller[c]
    [] c.kind \in {"StatefulSet", "DaemonSet"} -> c
    [] c.kind = "Job" /\ c \notin owners -> c
    [] OTHER -> p

\* Mutation: a pod that is not scheduled yet is everybody's neighbor.
TenantsPendingToo(n) == {ResolveOwner(p) : p \in {q \in DOMAIN listed : listed[q] \in {n, Nowhere}}}
\* Mutation: every pod is a tenant of its own.
TenantsPerPod(n) == {p \in DOMAIN listed : listed[p] = n}
TenantsOn(n) == {ResolveOwner(p) : p \in {q \in DOMAIN listed : listed[q] = n}}

\* The loop over the pods: who owns each, and who shares which listed node.
Attribute ==
  /\ pc = "attribute"
  /\ podRef' = [p \in DOMAIN listed |-> ResolveOwner(p)]
  /\ tenants' = [n \in Nodes |-> IF n \in nodes THEN TenantsOn(n) ELSE {}]
  /\ pc' = "deployments"
  /\ UNCHANGED <<history, nodes, listed, owners, workloads, nsTodo, nsRows,
                 limits, quotas, unreadable, usage, metrics, warnings>>

\* Mutation: the set of nodes is made anew for every pod.
NodesOfLast(ref) ==
  LET all == {listed[p] : p \in {q \in DOMAIN podRef : podRef[q] = ref}} \ {Nowhere}
  IN  {n \in all : n = CHOOSE m \in all : TRUE}

RunningPods(ref) == Cardinality({p \in DOMAIN podRef : podRef[p] = ref})
NodesOf(ref) == {listed[p] : p \in {q \in DOMAIN podRef : podRef[q] = ref}} \ {Nowhere}

\* Workloads come from the controllers, so that one scaled to zero is seen.
ReadControllers(read, kind, next) ==
  /\ pc = read
  /\ \E ok \in Answers(read) :
       /\ workloads' = IF ok THEN workloads \cup ObjectsOf(Now, kind, Scope) ELSE workloads
       /\ WarnUnless(ok, read)
  /\ pc' = next
  /\ UNCHANGED <<history, nodes, listed, owners, podRef, tenants, nsTodo, nsRows,
                 limits, quotas, unreadable, usage, metrics>>

ReadDeployments == ReadControllers("deployments", "Deployment", "statefulsets")
ReadStatefulSets == ReadControllers("statefulsets", "StatefulSet", "daemonsets")
ReadDaemonSets == ReadControllers("daemonsets", "DaemonSet", "cronjobs")
ReadCronJobs == ReadControllers("cronjobs", "CronJob", "orphans")

\* Uncontrolled pods and standalone jobs have no template: their pod is it.
Orphans ==
  {podRef[p] : p \in {q \in DOMAIN podRef : podRef[q].kind \in {"Pod", "Job"}}}

AddOrphans ==
  /\ pc = "orphans"
  /\ workloads' = workloads \cup {r \in Orphans : InNamespace(r, Scope)}
  /\ pc' = "namespaces"
  /\ UNCHANGED <<history, nodes, listed, owners, podRef, tenants, nsTodo, nsRows,
                 limits, quotas, unreadable, usage, metrics, warnings>>

\* Mutation: only namespaces with a workload are checked.
NamespaceNamesInUse(t, ok) ==
  IF Scope # AllNamespaces THEN {Scope} ELSE {r.ns : r \in workloads}

\* With -n no read is made; with -A denied, only namespaces known to hold a
\* workload are left to check.
NamespaceNames(t, ok) ==
  IF Scope # AllNamespaces THEN {Scope}
  ELSE IF ok THEN {o.ns : o \in ObjectsOf(t, "Namespace", AllNamespaces)}
  ELSE {r.ns : r \in workloads}

ReadNamespaces ==
  /\ pc = "namespaces"
  /\ \E ok \in IF Scope = AllNamespaces THEN Answers("namespaces") ELSE {TRUE} :
       /\ nsTodo' = NamespaceNames(Now, ok)
       /\ WarnUnless(ok, "namespaces")
  /\ pc' = "guardrails"
  /\ UNCHANGED <<history, nodes, listed, owners, podRef, tenants, workloads, nsRows,
                 limits, quotas, unreadable, usage, metrics>>

Current == CHOOSE ns \in nsTodo : \A m \in nsTodo : ns <= m

\* Mutation: a denied list of guardrails is an empty one.
MarkNothing(ok) == UNCHANGED unreadable
\* A denied guardrail read is not an absent guardrail: it marks the namespace.
MarkUnless(ok) == unreadable' = IF ok THEN unreadable ELSE unreadable \cup {Current}

ReadLimitRanges ==
  /\ pc = "guardrails"
  /\ nsTodo # {}
  /\ \E ok \in Answers("limitranges") :
       /\ limits' = IF ok THEN [limits EXCEPT ![Current] = ObjectsOf(Now, "LimitRange", Current)]
                    ELSE limits
       /\ MarkUnless(ok)
  /\ pc' = "resourcequotas"
  /\ UNCHANGED <<history, nodes, listed, owners, podRef, tenants, workloads, nsTodo, nsRows,
                 quotas, usage, metrics, warnings>>

\* Mutation: a namespace that cannot be read is tried again.
ReadResourceQuotasAgain ==
  /\ pc = "resourcequotas"
  /\ nsRows' = nsRows \cup {Current}
  /\ pc' = "guardrails"
  /\ UNCHANGED <<history, nodes, listed, owners, podRef, tenants, workloads, nsTodo, limits,
                 quotas, unreadable, usage, metrics, warnings>>

ReadResourceQuotas ==
  /\ pc = "resourcequotas"
  /\ \E ok \in Answers("resourcequotas") :
       /\ quotas' = IF ok THEN [quotas EXCEPT ![Current] = ObjectsOf(Now, "ResourceQuota", Current)]
                    ELSE quotas
       /\ MarkUnless(ok)
  /\ nsRows' = nsRows \cup {Current}
  /\ nsTodo' = nsTodo \ {Current}
  /\ pc' = "guardrails"
  /\ UNCHANGED <<history, nodes, listed, owners, podRef, tenants, workloads, limits,
                 usage, metrics, warnings>>

\* One warning for all the namespaces that could not be checked.
EndGuardrails ==
  /\ pc = "guardrails"
  /\ nsTodo = {}
  /\ WarnUnless(unreadable = {}, "guardrails")
  /\ pc' = "metrics.k8s.io"
  /\ UNCHANGED <<history, nodes, listed, owners, podRef, tenants, workloads, nsTodo, nsRows,
                 limits, quotas, unreadable, usage, metrics>>

Note(available, note) == metrics' = [available |-> available, note |-> note]

ProbeMetrics ==
  /\ pc = "metrics.k8s.io"
  /\ \/ /\ ~WithMetrics
        /\ Note(FALSE, "skipped")
        /\ pc' = "done"
     \/ /\ WithMetrics
        /\ \E ok \in Answers("metrics.k8s.io") :
             /\ Note(FALSE, IF ok THEN "" ELSE "unavailable")
             /\ pc' = IF ok THEN "podmetrics" ELSE "done"
  /\ UNCHANGED <<history, nodes, listed, owners, podRef, tenants, workloads, nsTodo, nsRows,
                 limits, quotas, unreadable, usage, warnings>>

\* metrics-server reports what it scraped a while ago: any pod of the scope that
\* has existed since the scan began may have a sample, and any may lack one.
Sampled == {p \in Pods : InNamespace(p, Scope) /\ \E t \in Past : Exists(t, p)}

MaxOf(S) == CHOOSE m \in S : \A k \in S : k <= m

\* Mutation: a sample of an unknown pod is credited to the pod.
UsageOfStrangers(samples) ==
  LET ref(p) == IF p \in DOMAIN podRef THEN podRef[p] ELSE p
      of(r) == {p \in samples : ref(p) = r}
  IN  [r \in {ref(p) : p \in samples} |->
         [mem |-> MaxOf({MemOf[p] : p \in of(r)}), samples |-> Cardinality(of(r))]]

\* Samples of pods the scan did not see are dropped; of the others the worst
\* pod of a workload wins.
UsageFrom(samples) ==
  LET known == samples \cap DOMAIN podRef
      of(ref) == {p \in known : podRef[p] = ref}
  IN  [ref \in {podRef[p] : p \in known} |->
         [mem |-> MaxOf({MemOf[p] : p \in of(ref)}), samples |-> Cardinality(of(ref))]]

ReadPodMetrics ==
  /\ pc = "podmetrics"
  /\ \E ok \in Answers("podmetrics"), samples \in SUBSET Sampled :
       \/ /\ ok
          /\ usage' = UsageFrom(samples)
          /\ Note(TRUE, IF DOMAIN usage' = {} THEN "no samples" ELSE "")
       \/ /\ ~ok
          /\ Note(FALSE, "read failed")
          /\ UNCHANGED usage
  /\ pc' = "done"
  /\ UNCHANGED <<history, nodes, listed, owners, podRef, tenants, workloads, nsTodo, nsRows,
                 limits, quotas, unreadable, warnings>>

-----------------------------------------------------------------------------
Empty == [x \in {} |-> Nowhere]

Init ==
  /\ \E t \in Starts : history = <<t>>
  /\ pc = "nodes"
  /\ nodes = {}
  /\ listed = Empty
  /\ owners = {}
  /\ podRef = Empty
  /\ tenants = [n \in Nodes |-> {}]
  /\ workloads = {}
  /\ nsTodo = {}
  /\ nsRows = {}
  /\ limits = [ns \in Namespaces |-> {}]
  /\ quotas = [ns \in Namespaces |-> {}]
  /\ unreadable = {}
  /\ usage = Empty
  /\ metrics = [available |-> FALSE, note |-> ""]
  /\ warnings = {}

ScanStep ==
  \/ ReadNodes
  \/ ReadPods
  \/ ReadPodsInScope
  \/ ReadReplicaSets
  \/ ReadJobs
  \/ Attribute
  \/ ReadDeployments
  \/ ReadStatefulSets
  \/ ReadDaemonSets
  \/ ReadCronJobs
  \/ AddOrphans
  \/ ReadNamespaces
  \/ ReadLimitRanges
  \/ ReadResourceQuotas
  \/ EndGuardrails
  \/ ProbeMetrics
  \/ ReadPodMetrics

Next == ScanStep \/ ClusterChanges

\* The API server answers every call, with data or with an error.
Spec == Init /\ [][Next]_vars /\ WF_vars(ScanStep)

-----------------------------------------------------------------------------
TypeOK ==
  /\ history \in Seq(ClusterStates)
  /\ Len(history) \in 1 .. MaxChanges + 1
  /\ pc \in Reads \cup {"attribute", "orphans", "guardrails", "done", "failed"}
  /\ nodes \subseteq Nodes
  /\ DOMAIN listed \subseteq Pods /\ listed \in [DOMAIN listed -> Nodes \cup {Nowhere}]
  /\ owners \subseteq Objects
  /\ DOMAIN podRef \subseteq DOMAIN listed /\ podRef \in [DOMAIN podRef -> RefSpace]
  /\ tenants \in [Nodes -> SUBSET RefSpace]
  /\ workloads \subseteq RefSpace
  /\ nsTodo \subseteq Namespaces
  /\ nsRows \subseteq Namespaces
  /\ limits \in [Namespaces -> SUBSET Objects]
  /\ quotas \in [Namespaces -> SUBSET Objects]
  /\ unreadable \subseteq Namespaces
  /\ DOMAIN usage \subseteq RefSpace /\ usage \in [DOMAIN usage -> [mem : Nat, samples : Nat]]
  /\ metrics.available \in BOOLEAN
  /\ warnings \subseteq Reads \cup {"podsClusterWide", "guardrails"}
=============================================================================
