---------------------------- MODULE Collect_proofs ----------------------------
(***************************************************************************)
(* Proofs about the collector, for every cluster, every scope, every way   *)
(* the cluster may change during a scan and every combination of denied    *)
(* reads.                                                                  *)
(*                                                                         *)
(* The inductive invariant says of each part of the inventory that it is   *)
(* the answer of one state the cluster was in, or that a warning stands in *)
(* its place.  No two parts need be answers of the same state.             *)
(* The last part carries that over to the scores that are computed from    *)
(* the inventory.                                                          *)
(***************************************************************************)
EXTENDS ScoredScan, FiniteFacts, TLAPS

-----------------------------------------------------------------------------
(* The stages of a scan, by what has been read before them.                 *)

FromMetrics == {"metrics.k8s.io", "podmetrics", "done"}
FromGuardrails == {"guardrails", "resourcequotas"} \cup FromMetrics
FromNamespaces == {"namespaces"} \cup FromGuardrails
FromOrphans == {"orphans"} \cup FromNamespaces
FromCronJobs == {"cronjobs"} \cup FromOrphans
FromDaemonSets == {"daemonsets"} \cup FromCronJobs
FromStatefulSets == {"statefulsets"} \cup FromDaemonSets
FromDeployments == {"deployments"} \cup FromStatefulSets
FromAttribute == {"attribute"} \cup FromDeployments
FromJobs == {"jobs"} \cup FromAttribute
FromReplicaSets == {"replicasets"} \cup FromJobs

OfKind(S, kind) == {o \in S : o.kind = kind}

-----------------------------------------------------------------------------
(* The inductive invariant.                                                 *)

NodesAreOfOneState ==
  IF pc = "nodes" THEN nodes = {}
  ELSE \/ "nodes" \in warnings /\ nodes = {}
       \/ \E t \in Past : nodes = t.nodes

PodsAreOfOneState ==
  /\ pc \in {"nodes", "pods"} => Clusterwide
  /\ pc = "podsInScope" => ~Clusterwide
  /\ IF pc \in FromReplicaSets THEN \E t \in Past : listed = ListedPods(t, OwnerNamespace)
     ELSE listed = Empty

OwnersAreOfOneState(read, kind, ownerKind, after) ==
  IF pc \in after
  THEN \/ read \in warnings /\ OfKind(owners, kind) = {}
       \/ \E t \in Past : OfKind(owners, kind) = Resolving(t, kind, ownerKind)
  ELSE OfKind(owners, kind) = {}

OwnersInv ==
  /\ \A o \in owners : o.kind \in {"ReplicaSet", "Job"}
  /\ OwnersAreOfOneState("replicasets", "ReplicaSet", "Deployment", FromJobs)
  /\ OwnersAreOfOneState("jobs", "Job", "CronJob", FromAttribute)

TenancyFollows ==
  IF pc \in FromDeployments
  THEN /\ podRef = [p \in DOMAIN listed |-> ResolveOwner(p)]
       /\ tenants = [n \in Nodes |-> IF n \in nodes THEN TenantsOn(n) ELSE {}]
  ELSE podRef = Empty /\ tenants = [n \in Nodes |-> {}]

ControllersAreOfOneState(read, kind, after) ==
  IF pc \in after
  THEN \/ read \in warnings /\ OfKind(workloads, kind) = {}
       \/ \E t \in Past : OfKind(workloads, kind) = ObjectsOf(t, kind, Scope)
  ELSE OfKind(workloads, kind) = {}

WorkloadsInv ==
  /\ ControllersAreOfOneState("deployments", "Deployment", FromStatefulSets)
  /\ ControllersAreOfOneState("statefulsets", "StatefulSet", FromDaemonSets)
  /\ ControllersAreOfOneState("daemonsets", "DaemonSet", FromCronJobs)
  /\ ControllersAreOfOneState("cronjobs", "CronJob", FromOrphans)
  /\ {o \in workloads : o.kind \notin ControllerKinds} =
       IF pc \in FromNamespaces THEN {r \in Orphans : InNamespace(r, Scope)} ELSE {}

NamespacesInv ==
  /\ pc \in FromGuardrails =>
       \/ "namespaces" \in warnings
       \/ \E t \in Past : nsTodo \cup nsRows = NamespaceNames(t, TRUE)
  /\ pc = "resourcequotas" => nsTodo # {}
  /\ pc \in FromMetrics => nsTodo = {} /\ ("guardrails" \in warnings \/ unreadable = {})
  /\ pc \notin FromGuardrails => nsRows = {} /\ nsTodo = {}

GuardrailsAreOfOneState ==
  \A ns \in Namespaces \ unreadable :
    /\ ns \in nsRows \/ (pc = "resourcequotas" /\ ns = Current) =>
         \E t \in Past : limits[ns] = ObjectsOf(t, "LimitRange", ns)
    /\ ns \in nsRows => \E t \in Past : quotas[ns] = ObjectsOf(t, "ResourceQuota", ns)

UsageInv ==
  \/ usage = Empty
  \/ pc = "done" /\ \E samples \in SUBSET Pods : usage = UsageFrom(samples)

SnapshotInv ==
  /\ NodesAreOfOneState
  /\ PodsAreOfOneState
  /\ OwnersInv
  /\ TenancyFollows
  /\ WorkloadsInv
  /\ NamespacesInv
  /\ GuardrailsAreOfOneState
  /\ UsageInv

-----------------------------------------------------------------------------
(* The cluster.                                                             *)

LEMMA NowType ==
  ASSUME TypeOK
  PROVE  Now \in ClusterStates /\ Now \in Past /\ Past \subseteq ClusterStates
<1>1. Len(history) \in 1 .. Len(history)
  BY DEF TypeOK
<1>2. \A i \in 1 .. Len(history) : history[i] \in ClusterStates
  BY DEF TypeOK
<1> QED
  BY <1>1, <1>2 DEF Now, Past

\* Whatever happens to the cluster leaves the scan as it is, and is one more
\* state that the cluster has been in.
LEMMA ChangeIsLegal ==
  ASSUME TypeOK, ClusterChanges
  PROVE  \E t \in ClusterStates : Change(t)
<1>1. Now \in ClusterStates
  BY NowType
<1>2. ASSUME NEW o \in Mutable \cap Objects, CreateObject(o) \/ DeleteObject(o)
      PROVE  \E t \in ClusterStates : Change(t)
  <2>1. [Now EXCEPT !.objs = @ \cup {o}] \in ClusterStates /\ [Now EXCEPT !.objs = @ \ {o}] \in ClusterStates
    BY <1>1 DEF ClusterStates
  <2> QED
    BY <1>2, <2>1 DEF CreateObject, DeleteObject
<1>3. ASSUME NEW n \in MutableNodes, NodeJoins(n) \/ NodeLeaves(n)
      PROVE  \E t \in ClusterStates : Change(t)
  <2>1. [Now EXCEPT !.nodes = @ \cup {n}] \in ClusterStates /\ [Now EXCEPT !.nodes = @ \ {n}] \in ClusterStates
    BY <1>1, BoundsAssumption DEF ClusterStates
  <2> QED
    BY <1>3, <2>1 DEF NodeJoins, NodeLeaves
<1>4. ASSUME NEW p \in Pods, NEW phase \in Phases, NEW n \in Nodes \cup {Nowhere}, SetPod(p, phase, n)
      PROVE  \E t \in ClusterStates : Change(t)
  <2>1. [Now EXCEPT !.pods[p] = [phase |-> phase, node |-> n]] \in ClusterStates
    BY <1>1 DEF ClusterStates
  <2> QED
    BY <1>4, <2>1 DEF SetPod
<1>5. ASSUME NEW p \in Mutable \cap Pods,
             PodCreated(p) \/ PodFinishes(p) \/ PodDeleted(p) \/ \E n \in Nodes : PodScheduled(p, n)
      PROVE  \E t \in ClusterStates : Change(t)
  <2>1. Now.pods[p].node \in Nodes \cup {Nowhere}
    BY <1>1 DEF ClusterStates
  <2>2. {"Pending", "Running", "Terminal", "absent"} \subseteq Phases
    BY DEF Phases
  <2> QED
    BY <1>4, <1>5, <2>1, <2>2 DEF PodCreated, PodFinishes, PodDeleted, PodScheduled
<1> QED
  BY <1>2, <1>3, <1>5 DEF ClusterChanges

LEMMA ChangeGrowsPast ==
  ASSUME TypeOK, NEW t \in ClusterStates, Change(t)
  PROVE  /\ history' \in Seq(ClusterStates)
         /\ Len(history') = Len(history) + 1 /\ Len(history') <= MaxChanges + 1
         /\ Past \subseteq Past'
         /\ UNCHANGED scanVars
         /\ pc \notin {"done", "failed"}
<1>1. history \in Seq(ClusterStates) /\ Len(history) \in Nat
  BY DEF TypeOK
<1>2. history' = Append(history, t)
  BY DEF Change
<1>3. history' \in Seq(ClusterStates) /\ Len(history') = Len(history) + 1
  BY <1>1, <1>2
<1>4. \A i \in 1 .. Len(history) : i \in 1 .. Len(history') /\ history'[i] = history[i]
  BY <1>1, <1>2
<1>5. Past \subseteq Past'
  BY <1>4 DEF Past
<1>6. Len(history) <= MaxChanges
  BY DEF Change
<1> QED
  BY <1>1, <1>3, <1>5, <1>6, BoundsAssumption DEF Change

LEMMA ScanStepKeepsHistory == ScanStep => UNCHANGED history
BY DEF ScanStep, ReadNodes, ReadPods, ReadPodsInScope, ReadReplicaSets, ReadJobs, ReadOwners,
       Attribute, ReadDeployments, ReadStatefulSets, ReadDaemonSets, ReadCronJobs, ReadControllers,
       AddOrphans, ReadNamespaces, ReadLimitRanges, ReadResourceQuotas, EndGuardrails, ProbeMetrics,
       ReadPodMetrics

\* What the cluster has been, it has been.
LEMMA PastGrows ==
  ASSUME TypeOK, [Next]_vars
  PROVE  Past \subseteq Past'
<1>1. CASE UNCHANGED history
  BY <1>1 DEF Past
<1>2. CASE ClusterChanges
  BY <1>2, ChangeIsLegal, ChangeGrowsPast
<1> QED
  BY <1>1, <1>2, ScanStepKeepsHistory DEF Next, vars

-----------------------------------------------------------------------------
(* Type correctness.                                                        *)

LEMMA OwnersPassOver ==
  ASSUME OwnersInv, NEW c \in owners
  PROVE  PassedOver(c)
<1>1. CASE c.kind = "ReplicaSet"
  <2>1. c \in OfKind(owners, "ReplicaSet")
    BY <1>1 DEF OfKind
  <2>2. PICK t \in Past : c \in Resolving(t, "ReplicaSet", "Deployment")
    BY <2>1 DEF OwnersInv, OwnersAreOfOneState
  <2> QED
    BY <1>1, <2>2 DEF Resolving, PassedOver
<1>2. CASE c.kind = "Job"
  <2>1. c \in OfKind(owners, "Job")
    BY <1>2 DEF OfKind
  <2>2. PICK t \in Past : c \in Resolving(t, "Job", "CronJob")
    BY <2>1 DEF OwnersInv, OwnersAreOfOneState
  <2> QED
    BY <1>2, <2>2 DEF Resolving, PassedOver
<1> QED
  BY <1>1, <1>2 DEF OwnersInv

\* A controller is an object of the pod's own namespace.
LEMMA ControllerType ==
  ASSUME NEW o \in RefSpace, Controller[o].kind # "none"
  PROVE  Controller[o] \in Objects /\ Controller[o].ns = o.ns
BY ObjectsAssumption DEF NoController, RefSpace

LEMMA ResolveOwnerType ==
  ASSUME TypeOK, OwnersInv, NEW p \in Pods
  PROVE  ResolveOwner(p) \in RefSpace /\ ResolveOwner(p).ns = p.ns
<1> DEFINE c == Controller[p]
<1>1. p \in RefSpace
  BY DEF RefSpace
<1>2. CASE c \in owners
  <2>1. PassedOver(c)
    BY <1>2, OwnersPassOver
  <2>2. c.kind \in {"ReplicaSet", "Job"} /\ Controller[c].kind # "none"
    BY <2>1 DEF PassedOver
  <2>3. c \in RefSpace /\ c.ns = p.ns
    BY <1>1, <2>2, ControllerType DEF RefSpace
  <2>4. Controller[c] \in Objects /\ Controller[c].ns = c.ns
    BY <2>2, <2>3, ControllerType
  <2>5. ResolveOwner(p) = Controller[c]
    BY <1>2, <2>2 DEF ResolveOwner
  <2> QED
    BY <2>3, <2>4, <2>5 DEF RefSpace
<1>3. CASE c \notin owners /\ c.kind \in {"StatefulSet", "DaemonSet", "Job"}
  <2>1. ResolveOwner(p) = c
    BY <1>3 DEF ResolveOwner
  <2> QED
    BY <1>1, <1>3, <2>1, ControllerType DEF RefSpace
<1>4. CASE c \notin owners /\ c.kind \notin {"StatefulSet", "DaemonSet", "Job"}
  <2>1. ResolveOwner(p) = p
    BY <1>4 DEF ResolveOwner
  <2> QED
    BY <1>1, <2>1
<1> QED
  BY <1>2, <1>3, <1>4

\* Reading the namespaces in order is well defined.
LEMMA CurrentType ==
  ASSUME TypeOK, nsTodo # {}
  PROVE  Current \in nsTodo /\ Current \in Namespaces
<1>1. nsTodo \subseteq Nat
  BY ScopeAssumption DEF TypeOK
<1>2. \E ns \in nsTodo : \A m \in nsTodo : ns <= m
  BY <1>1, LeastExists
<1> QED
  BY <1>2 DEF Current, TypeOK

\* Finitely many samples have a greatest one.
LEMMA MaxOfType ==
  ASSUME NEW S \in SUBSET Pods, S # {}
  PROVE  MaxOf({MemOf[p] : p \in S}) \in {MemOf[p] : p \in S}
<1> DEFINE M == {MemOf[p] : p \in S}
<1>1. M \in SUBSET Nat /\ M # {}
  BY BoundsAssumption
<1>2. IsFiniteSet(S)
  BY ObjectsAssumption, FS_Subset
<1>3. IsFiniteSet(M)
  <2>1. [p \in S |-> MemOf[p]] \in Surjection(S, M)
    BY DEF Surjection
  <2> QED
    BY <1>2, <2>1, FS_Surjection
<1>4. \E m \in M : \A k \in M : k <= m
  BY <1>1, <1>3, GreatestExists
<1> QED
  BY <1>4 DEF MaxOf

\* What is credited to a workload: some of its counted pods, the worst of them.
LEMMA UsageFromFacts ==
  ASSUME TypeOK, NEW samples \in SUBSET Pods
  PROVE  /\ DOMAIN UsageFrom(samples) = {podRef[p] : p \in samples \cap DOMAIN podRef}
         /\ UsageFrom(samples) \in [DOMAIN UsageFrom(samples) -> [mem : Nat, samples : Nat]]
         /\ \A r \in DOMAIN UsageFrom(samples) :
              /\ UsageFrom(samples)[r].samples <= RunningPods(r)
              /\ \E S \in (SUBSET {p \in DOMAIN podRef : podRef[p] = r}) \ {{}} :
                   /\ UsageFrom(samples)[r].samples = Cardinality(S)
                   /\ UsageFrom(samples)[r].mem = MaxOf({MemOf[p] : p \in S})
<1> DEFINE known == samples \cap DOMAIN podRef
           of(r) == {p \in known : podRef[p] = r}
           U == UsageFrom(samples)
<1>1. U = [r \in {podRef[p] : p \in known} |->
             [mem |-> MaxOf({MemOf[p] : p \in of(r)}), samples |-> Cardinality(of(r))]]
  BY DEF UsageFrom
<1>2. DOMAIN U = {podRef[p] : p \in known}
  BY <1>1
<1>3. ASSUME NEW r \in DOMAIN U
      PROVE  /\ U[r] \in [mem : Nat, samples : Nat]
             /\ U[r].samples <= RunningPods(r)
             /\ \E S \in (SUBSET {p \in DOMAIN podRef : podRef[p] = r}) \ {{}} :
                  /\ U[r].samples = Cardinality(S)
                  /\ U[r].mem = MaxOf({MemOf[p] : p \in S})
  <2> DEFINE all == {p \in DOMAIN podRef : podRef[p] = r}
  <2>1. of(r) \in SUBSET Pods /\ of(r) # {} /\ of(r) \subseteq all /\ all \in SUBSET Pods
    BY <1>2 DEF TypeOK
  <2>2. MaxOf({MemOf[p] : p \in of(r)}) \in {MemOf[p] : p \in of(r)}
    <3> HIDE DEF of, all
    <3> QED
      BY <2>1, MaxOfType
  <2>3. IsFiniteSet(all) /\ IsFiniteSet(of(r))
    <3> HIDE DEF of, all
    <3> QED
      BY <2>1, ObjectsAssumption, FS_Subset
  <2>4. Cardinality(of(r)) \in Nat /\ Cardinality(all) \in Nat /\ Cardinality(of(r)) <= Cardinality(all)
    <3> HIDE DEF of, all
    <3> QED
      BY <2>1, <2>3, FS_Subset, FS_CardinalityType
  <2>6. U[r] = [mem |-> MaxOf({MemOf[p] : p \in of(r)}), samples |-> Cardinality(of(r))]
    BY <1>1, <1>2
  <2>7. RunningPods(r) = Cardinality(all)
    BY DEF RunningPods
  <2>8. PICK q \in of(r) : MemOf[q] = U[r].mem
    BY <2>2, <2>6
  <2>9. MemOf[q] \in Nat
    BY <2>1, BoundsAssumption
  <2>10. U[r].samples <= RunningPods(r)
    <3> HIDE DEF of, all, U
    <3> QED
      BY <2>4, <2>6, <2>7
  <2>11. U[r] \in [mem : Nat, samples : Nat]
    BY <2>4, <2>6, <2>8, <2>9
  <2>12. /\ of(r) \in (SUBSET all) \ {{}}
         /\ U[r].samples = Cardinality(of(r))
         /\ U[r].mem = MaxOf({MemOf[p] : p \in of(r)})
    <3> HIDE DEF of, all, U
    <3> QED
      BY <2>1, <2>6
  <2> QED
    BY <2>10, <2>11, <2>12
<1>4. U \in [DOMAIN U -> [mem : Nat, samples : Nat]]
  BY <1>1, <1>2, <1>3
<1> QED
  BY <1>2, <1>3, <1>4

LEMMA TypeInit == Init => TypeOK
<1> SUFFICES ASSUME Init PROVE TypeOK
  OBVIOUS
<1>1. PICK t \in Starts : history = <<t>>
  BY DEF Init
<1>2. t \in ClusterStates
  BY BoundsAssumption
<1>3. history \in Seq(ClusterStates) /\ Len(history) = 1
  BY <1>1, <1>2
<1>4. 1 \in 1 .. MaxChanges + 1
  BY BoundsAssumption
<1> QED
  BY <1>3, <1>4 DEF Init, TypeOK, Empty, Reads

LEMMA TypeStep ==
  ASSUME TypeOK, SnapshotInv, [Next]_vars
  PROVE  TypeOK'
<1>1. CASE ClusterChanges
  BY <1>1, ChangeIsLegal, ChangeGrowsPast DEF TypeOK, scanVars, Exists
<1> USE NowType DEF TypeOK, Reads, WarnUnless, Answers
<1>2. CASE ReadNodes
  BY <1>2 DEF ReadNodes, ClusterStates
<1>3. ASSUME NEW ns, NEW t \in ClusterStates
      PROVE  DOMAIN ListedPods(t, ns) \subseteq Pods /\ ListedPods(t, ns) \in [DOMAIN ListedPods(t, ns) -> Nodes \cup {Nowhere}]
  BY DEF ListedPods, ClusterStates
<1>4. CASE ReadPods
  <2>1. pc = "pods" /\ podRef = Empty
    BY <1>4 DEF ReadPods, SnapshotInv, TenancyFollows, FromDeployments, FromStatefulSets, FromDaemonSets,
                FromCronJobs, FromOrphans, FromNamespaces, FromGuardrails, FromMetrics
  <2> QED
    BY <1>3, <1>4, <2>1 DEF ReadPods, Empty
<1>5. CASE ReadPodsInScope
  <2>1. pc = "podsInScope" /\ podRef = Empty
    BY <1>5 DEF ReadPodsInScope, SnapshotInv, TenancyFollows, FromDeployments, FromStatefulSets, FromDaemonSets,
                FromCronJobs, FromOrphans, FromNamespaces, FromGuardrails, FromMetrics
  <2> QED
    BY <1>3, <1>5, <2>1 DEF ReadPodsInScope, Empty
<1>6. ASSUME NEW t \in ClusterStates, NEW kind, NEW ns
      PROVE  ObjectsOf(t, kind, ns) \subseteq Objects
  BY DEF ObjectsOf, ClusterStates
<1>7. CASE ReadReplicaSets
  BY <1>6, <1>7 DEF ReadReplicaSets, ReadOwners, Resolving
<1>8. CASE ReadJobs
  BY <1>6, <1>8 DEF ReadJobs, ReadOwners, Resolving
<1>9. CASE Attribute
  <2>1. \A p \in DOMAIN listed : ResolveOwner(p) \in RefSpace
    BY ResolveOwnerType DEF SnapshotInv
  <2> QED
    BY <1>9, <2>1 DEF Attribute, TenantsOn
<1>10. CASE ReadDeployments
  BY <1>6, <1>10 DEF ReadDeployments, ReadControllers, RefSpace
<1>11. CASE ReadStatefulSets
  BY <1>6, <1>11 DEF ReadStatefulSets, ReadControllers, RefSpace
<1>12. CASE ReadDaemonSets
  BY <1>6, <1>12 DEF ReadDaemonSets, ReadControllers, RefSpace
<1>13. CASE ReadCronJobs
  BY <1>6, <1>13 DEF ReadCronJobs, ReadControllers, RefSpace
<1>14. CASE AddOrphans
  <2>1. Orphans \subseteq RefSpace
    BY DEF Orphans
  <2> QED
    BY <1>14, <2>1 DEF AddOrphans
<1>15. CASE ReadNamespaces
  <2>1. ASSUME NEW ok \in BOOLEAN
        PROVE  NamespaceNames(Now, ok) \subseteq Namespaces
    <3>1. \A o \in RefSpace : o.ns \in Namespaces
      BY ObjectsAssumption
    <3>2. \A o \in ObjectsOf(Now, "Namespace", AllNamespaces) : o \in RefSpace
      BY <1>6 DEF RefSpace
    <3> QED
      BY <3>1, <3>2, ScopeAssumption DEF NamespaceNames
  <2> QED
    BY <1>15, <2>1 DEF ReadNamespaces
<1>16. CASE ReadLimitRanges
  BY <1>6, <1>16, CurrentType DEF ReadLimitRanges, MarkUnless
<1>17. CASE ReadResourceQuotas
  <2>1. Current \in Namespaces
    BY <1>17, CurrentType DEF ReadResourceQuotas, SnapshotInv, NamespacesInv
  <2> QED
    BY <1>6, <1>17, <2>1 DEF ReadResourceQuotas, MarkUnless
<1>18. CASE EndGuardrails
  BY <1>18 DEF EndGuardrails
<1>19. CASE ProbeMetrics
  <2>1. PICK note : metrics' = [available |-> FALSE, note |-> note]
    BY <1>19 DEF ProbeMetrics, Note
  <2>2. pc' \in {"done", "podmetrics"}
    BY <1>19 DEF ProbeMetrics
  <2>3. metrics'.available \in BOOLEAN
    BY <2>1
  <2> QED
    BY <1>19, <2>2, <2>3 DEF ProbeMetrics
<1>20. CASE ReadPodMetrics
  <2>1. Sampled \subseteq Pods
    BY DEF Sampled
  <2>2. ASSUME NEW samples \in SUBSET Sampled
        PROVE  /\ DOMAIN UsageFrom(samples) \subseteq RefSpace
               /\ UsageFrom(samples) \in [DOMAIN UsageFrom(samples) -> [mem : Nat, samples : Nat]]
    <3>1. samples \in SUBSET Pods
      BY <2>1
    <3>2. \A p \in samples \cap DOMAIN podRef : podRef[p] \in RefSpace
      OBVIOUS
    <3>3. /\ DOMAIN UsageFrom(samples) = {podRef[p] : p \in samples \cap DOMAIN podRef}
          /\ UsageFrom(samples) \in [DOMAIN UsageFrom(samples) -> [mem : Nat, samples : Nat]]
      BY <3>1, UsageFromFacts
    <3> QED
      BY <3>2, <3>3
  <2>3. usage' = usage \/ \E samples \in SUBSET Sampled : usage' = UsageFrom(samples)
    BY <1>20 DEF ReadPodMetrics
  <2>4. PICK note : Note(TRUE, note) \/ Note(FALSE, note)
    BY <1>20 DEF ReadPodMetrics
  <2>5. metrics'.available \in BOOLEAN
    <3>1. CASE metrics' = [available |-> TRUE, note |-> note]
      BY <3>1
    <3>2. CASE metrics' = [available |-> FALSE, note |-> note]
      BY <3>2
    <3> QED
      BY <2>4, <3>1, <3>2 DEF Note
  <2> QED
    BY <1>20, <2>2, <2>3, <2>5 DEF ReadPodMetrics
<1>21. CASE UNCHANGED vars
  BY <1>21 DEF vars, scanVars
<1> QED
  BY <1>1, <1>2, <1>4, <1>5, <1>7, <1>8, <1>9, <1>10, <1>11, <1>12, <1>13, <1>14, <1>15, <1>16,
     <1>17, <1>18, <1>19, <1>20, <1>21 DEF Next, ScanStep

-----------------------------------------------------------------------------
(* Each part of the inventory is the answer of one state.                   *)

LEMMA WarningsGrow == [Next]_vars => warnings \subseteq warnings'
<1> SUFFICES ASSUME [Next]_vars PROVE warnings \subseteq warnings'
  OBVIOUS
<1>1. CASE ClusterChanges
  BY <1>1 DEF ClusterChanges, CreateObject, DeleteObject, NodeJoins, NodeLeaves, PodCreated, PodScheduled,
              PodFinishes, PodDeleted, SetPod, Change, scanVars
<1>2. CASE ScanStep
  BY <1>2 DEF WarnUnless, ScanStep, ReadNodes, ReadPods, ReadPodsInScope, ReadReplicaSets, ReadJobs,
       ReadOwners, Attribute, ReadDeployments, ReadStatefulSets, ReadDaemonSets, ReadCronJobs,
       ReadControllers, AddOrphans, ReadNamespaces, ReadLimitRanges, ReadResourceQuotas, EndGuardrails,
       ProbeMetrics, ReadPodMetrics
<1> QED
  BY <1>1, <1>2 DEF Next, vars, scanVars

\* Only the read of the pods says that tenancy is not cluster-wide.
LEMMA OneWarning ==
  ASSUME ScanStep, ~ReadPods
  PROVE  "podsClusterWide" \in warnings' <=> "podsClusterWide" \in warnings
<1> USE DEF WarnUnless
<1>1. CASE ReadNodes
  BY <1>1 DEF ReadNodes
<1>2. CASE ReadReplicaSets \/ ReadJobs
  BY <1>2 DEF ReadReplicaSets, ReadJobs, ReadOwners
<1>3. CASE ReadDeployments \/ ReadStatefulSets \/ ReadDaemonSets \/ ReadCronJobs
  BY <1>3 DEF ReadDeployments, ReadStatefulSets, ReadDaemonSets, ReadCronJobs, ReadControllers
<1>4. CASE ReadNamespaces
  BY <1>4 DEF ReadNamespaces
<1>5. CASE EndGuardrails
  BY <1>5 DEF EndGuardrails
<1>6. CASE ReadPodsInScope \/ Attribute \/ AddOrphans \/ ReadLimitRanges \/ ReadResourceQuotas
             \/ ProbeMetrics \/ ReadPodMetrics
  BY <1>6 DEF ReadPodsInScope, Attribute, AddOrphans, ReadLimitRanges, ReadResourceQuotas, ProbeMetrics,
              ReadPodMetrics
<1> QED
  BY <1>1, <1>2, <1>3, <1>4, <1>5, <1>6 DEF ScanStep

\* The steps that are not of the scan, and what they leave alone.
LEMMA Meanwhile ==
  ASSUME TypeOK, ClusterChanges \/ UNCHANGED vars
  PROVE  UNCHANGED scanVars
BY ChangeIsLegal, ChangeGrowsPast DEF vars

LEMMA NodesStep ==
  ASSUME TypeOK, NodesAreOfOneState, [Next]_vars
  PROVE  NodesAreOfOneState'
<1> USE DEF NodesAreOfOneState
<1>1. Past \subseteq Past' /\ warnings \subseteq warnings' /\ Now \in Past
  BY PastGrows, WarningsGrow, NowType
<1>2. CASE ClusterChanges \/ UNCHANGED vars
  BY <1>1, <1>2, Meanwhile DEF scanVars
<1>3. CASE ReadNodes
  BY <1>1, <1>3 DEF ReadNodes, WarnUnless
<1>4. CASE ScanStep /\ ~ReadNodes
  <2>1. pc # "nodes" /\ pc' # "nodes" /\ nodes' = nodes
    BY <1>4 DEF ScanStep, ReadPods, ReadPodsInScope, ReadReplicaSets, ReadJobs,
       ReadOwners, Attribute, ReadDeployments, ReadStatefulSets, ReadDaemonSets, ReadCronJobs,
       ReadControllers, AddOrphans, ReadNamespaces, ReadLimitRanges, ReadResourceQuotas, EndGuardrails,
       ProbeMetrics, ReadPodMetrics
  <2> QED
    BY <1>1, <2>1
<1> QED
  BY <1>2, <1>3, <1>4 DEF Next

LEMMA PodsStep ==
  ASSUME TypeOK, PodsAreOfOneState, [Next]_vars
  PROVE  PodsAreOfOneState'
<1> USE DEF PodsAreOfOneState, FromReplicaSets, FromJobs, FromAttribute, FromDeployments, FromStatefulSets,
            FromDaemonSets, FromCronJobs, FromOrphans, FromNamespaces, FromGuardrails, FromMetrics
<1>1. Past \subseteq Past' /\ Now \in Past
  BY PastGrows, NowType
<1>2. CASE ClusterChanges \/ UNCHANGED vars
  BY <1>1, <1>2, Meanwhile DEF scanVars, OwnerNamespace, Clusterwide
<1>3. CASE ReadNodes
  BY <1>3 DEF ReadNodes, Clusterwide, WarnUnless
<1>4. CASE ReadPods
  <2>1. ASSUME listed' = ListedPods(Now, AllNamespaces), pc' = "replicasets", warnings' = warnings
        PROVE  PodsAreOfOneState'
    <3>1. OwnerNamespace' = AllNamespaces
      BY <1>4, <2>1 DEF ReadPods, OwnerNamespace, Clusterwide
    <3> QED
      BY <1>1, <2>1, <3>1
  <2>2. ASSUME pc' = "failed", listed' = listed
        PROVE  PodsAreOfOneState'
    BY <1>4, <2>2 DEF ReadPods
  <2>3. ASSUME warnings' = warnings \cup {"podsClusterWide"}, pc' = "podsInScope", listed' = listed
        PROVE  PodsAreOfOneState'
    BY <1>4, <2>3 DEF ReadPods, Clusterwide
  <2> QED
    BY <1>4, <2>1, <2>2, <2>3 DEF ReadPods
<1>5. CASE ReadPodsInScope
  <2>1. OwnerNamespace' = Scope
    BY <1>5 DEF ReadPodsInScope, OwnerNamespace, Clusterwide
  <2>2. ASSUME listed' = ListedPods(Now, Scope), pc' = "replicasets"
        PROVE  PodsAreOfOneState'
    BY <1>1, <2>1, <2>2
  <2>3. ASSUME listed' = listed, pc' = "failed"
        PROVE  PodsAreOfOneState'
    BY <1>5, <2>3 DEF ReadPodsInScope
  <2> QED
    BY <1>5, <2>2, <2>3 DEF ReadPodsInScope
<1>6. CASE ScanStep /\ ~ReadNodes /\ ~ReadPods /\ ~ReadPodsInScope
  <2>1. pc \in FromReplicaSets /\ pc' \in FromReplicaSets /\ listed' = listed
    BY <1>6 DEF ScanStep, ReadReplicaSets, ReadJobs,
       ReadOwners, Attribute, ReadDeployments, ReadStatefulSets, ReadDaemonSets, ReadCronJobs,
       ReadControllers, AddOrphans, ReadNamespaces, ReadLimitRanges, ReadResourceQuotas, EndGuardrails,
       ProbeMetrics, ReadPodMetrics
  <2>2. "podsClusterWide" \in warnings' <=> "podsClusterWide" \in warnings
    BY <1>6, OneWarning
  <2> QED
    BY <1>1, <2>1, <2>2 DEF OwnerNamespace, Clusterwide
<1> QED
  BY <1>2, <1>3, <1>4, <1>5, <1>6 DEF Next

LEMMA ReadOwnersAnswers ==
  ASSUME NEW read \in {"replicasets", "jobs"}, NEW kind, NEW ownerKind, NEW next,
         ReadOwners(read, kind, ownerKind, next),
         OfKind(owners, kind) = {}
  PROVE  /\ \/ read \in warnings' /\ OfKind(owners', kind) = {}
            \/ OfKind(owners', kind) = Resolving(Now, kind, ownerKind)
         /\ \A k : k # kind => OfKind(owners', k) = OfKind(owners, k)
         /\ \A o \in owners' : o \in owners \/ o.kind = kind
<1> USE DEF OfKind
<1>1. \A o \in Resolving(Now, kind, ownerKind) : o.kind = kind
  BY DEF Resolving, ObjectsOf
<1>2. CASE owners' = owners /\ warnings' = warnings \cup {read}
  BY <1>2
<1>3. CASE owners' = owners \cup Resolving(Now, kind, ownerKind)
  BY <1>1, <1>3
<1> QED
  BY <1>2, <1>3 DEF ReadOwners, WarnUnless

LEMMA OwnersStep ==
  ASSUME TypeOK, OwnersInv, [Next]_vars
  PROVE  OwnersInv'
<1> USE DEF FromJobs, FromAttribute, FromDeployments, FromStatefulSets,
            FromDaemonSets, FromCronJobs, FromOrphans, FromNamespaces, FromGuardrails, FromMetrics
<1>1. Past \subseteq Past' /\ Now \in Past /\ warnings \subseteq warnings'
  BY PastGrows, NowType, WarningsGrow
<1>2. ASSUME UNCHANGED scanVars
      PROVE  OwnersInv'
  BY <1>1, <1>2 DEF OwnersInv, OwnersAreOfOneState, Resolving, OwnerNamespace, Clusterwide, scanVars
<1>3. CASE ReadNodes
  BY <1>3 DEF ReadNodes, OwnersInv, OwnersAreOfOneState
<1>4. CASE ReadPods
  BY <1>4 DEF ReadPods, OwnersInv, OwnersAreOfOneState
<1>5. CASE ReadPodsInScope
  BY <1>5 DEF ReadPodsInScope, OwnersInv, OwnersAreOfOneState
<1>6. ASSUME ScanStep, ~ReadPods, NEW t, NEW kind, NEW ownerKind
      PROVE  Resolving(t, kind, ownerKind)' = Resolving(t, kind, ownerKind)
  <2>1. OwnerNamespace' = OwnerNamespace
    BY <1>6, OneWarning DEF OwnerNamespace, Clusterwide
  <2> QED
    BY <2>1 DEF Resolving
<1>7. CASE ReadReplicaSets
  <2>1. pc = "replicasets" /\ pc' = "jobs"
    BY <1>7 DEF ReadReplicaSets, ReadOwners
  <2>2. /\ \/ "replicasets" \in warnings' /\ OfKind(owners', "ReplicaSet") = {}
           \/ OfKind(owners', "ReplicaSet") = Resolving(Now, "ReplicaSet", "Deployment")
        /\ OfKind(owners', "Job") = OfKind(owners, "Job")
        /\ \A o \in owners' : o \in owners \/ o.kind = "ReplicaSet"
    BY <1>7, <2>1, ReadOwnersAnswers DEF ReadReplicaSets, OwnersInv, OwnersAreOfOneState
  <2>3. ~ReadPods /\ ScanStep
    BY <1>7, <2>1 DEF ReadPods, ScanStep
  <2>4. \/ "replicasets" \in warnings' /\ OfKind(owners', "ReplicaSet") = {}
        \/ \E t \in Past' : OfKind(owners', "ReplicaSet") = Resolving(t, "ReplicaSet", "Deployment")'
    BY <1>1, <1>6, <2>2, <2>3
  <2> QED
    BY <2>1, <2>2, <2>4 DEF OwnersInv, OwnersAreOfOneState, OfKind
<1>8. CASE ReadJobs
  <2>1. pc = "jobs" /\ pc' = "attribute"
    BY <1>8 DEF ReadJobs, ReadOwners
  <2>2. /\ \/ "jobs" \in warnings' /\ OfKind(owners', "Job") = {}
           \/ OfKind(owners', "Job") = Resolving(Now, "Job", "CronJob")
        /\ OfKind(owners', "ReplicaSet") = OfKind(owners, "ReplicaSet")
        /\ \A o \in owners' : o \in owners \/ o.kind = "Job"
    BY <1>8, <2>1, ReadOwnersAnswers DEF ReadJobs, OwnersInv, OwnersAreOfOneState
  <2>3. ~ReadPods /\ ScanStep
    BY <1>8, <2>1 DEF ReadPods, ScanStep
  <2>4. \/ "jobs" \in warnings' /\ OfKind(owners', "Job") = {}
        \/ \E t \in Past' : OfKind(owners', "Job") = Resolving(t, "Job", "CronJob")'
    BY <1>1, <1>6, <2>2, <2>3
  <2>5. \/ "replicasets" \in warnings' /\ OfKind(owners', "ReplicaSet") = {}
        \/ \E t \in Past' : OfKind(owners', "ReplicaSet") = Resolving(t, "ReplicaSet", "Deployment")'
    BY <1>1, <1>6, <2>1, <2>2, <2>3 DEF OwnersInv, OwnersAreOfOneState
  <2> QED
    BY <2>1, <2>2, <2>4, <2>5 DEF OwnersInv, OwnersAreOfOneState, OfKind
<1>9. CASE ScanStep /\ pc \in FromAttribute
  <2>1. pc' \in FromAttribute /\ owners' = owners
    BY <1>9 DEF ScanStep, ReadNodes, ReadPods, ReadPodsInScope, ReadReplicaSets, ReadJobs, ReadOwners,
       Attribute, ReadDeployments, ReadStatefulSets, ReadDaemonSets, ReadCronJobs,
       ReadControllers, AddOrphans, ReadNamespaces, ReadLimitRanges, ReadResourceQuotas, EndGuardrails,
       ProbeMetrics, ReadPodMetrics
  <2>2. ~ReadPods
    BY <1>9 DEF ReadPods
  <2>3. \A t, kind, ownerKind : Resolving(t, kind, ownerKind)' = Resolving(t, kind, ownerKind)
    BY <1>6, <1>9, <2>2
  <2>4. \/ "jobs" \in warnings' /\ OfKind(owners', "Job") = {}
        \/ \E t \in Past' : OfKind(owners', "Job") = Resolving(t, "Job", "CronJob")'
    BY <1>1, <1>9, <2>1, <2>3 DEF OwnersInv, OwnersAreOfOneState
  <2>5. \/ "replicasets" \in warnings' /\ OfKind(owners', "ReplicaSet") = {}
        \/ \E t \in Past' : OfKind(owners', "ReplicaSet") = Resolving(t, "ReplicaSet", "Deployment")'
    BY <1>1, <1>9, <2>1, <2>3 DEF OwnersInv, OwnersAreOfOneState
  <2> QED
    BY <2>1, <2>4, <2>5 DEF OwnersInv, OwnersAreOfOneState
<1>10. ASSUME ScanStep, pc \notin FromAttribute
       PROVE  ReadNodes \/ ReadPods \/ ReadPodsInScope \/ ReadReplicaSets \/ ReadJobs
  BY <1>10 DEF ScanStep, Attribute, ReadDeployments, ReadStatefulSets, ReadDaemonSets, ReadCronJobs,
       ReadControllers, AddOrphans, ReadNamespaces, ReadLimitRanges, ReadResourceQuotas, EndGuardrails,
       ProbeMetrics, ReadPodMetrics
<1> QED
  BY <1>2, <1>3, <1>4, <1>5, <1>7, <1>8, <1>9, <1>10, Meanwhile DEF Next

LEMMA TenancyStep ==
  ASSUME TypeOK, TenancyFollows, [Next]_vars
  PROVE  TenancyFollows'
<1> USE DEF FromDeployments, FromStatefulSets,
            FromDaemonSets, FromCronJobs, FromOrphans, FromNamespaces, FromGuardrails, FromMetrics
<1>1. ASSUME UNCHANGED scanVars
      PROVE  TenancyFollows'
  BY <1>1 DEF TenancyFollows, ResolveOwner, scanVars, TenantsOn
<1>2. CASE Attribute
  BY <1>2 DEF Attribute, TenancyFollows, ResolveOwner, TenantsOn
<1>3. CASE ReadNodes \/ ReadPods \/ ReadPodsInScope \/ ReadReplicaSets \/ ReadJobs
  BY <1>3 DEF TenancyFollows, ReadNodes, ReadPods, ReadPodsInScope, ReadReplicaSets, ReadJobs, ReadOwners
<1>4. CASE ScanStep /\ pc \in FromDeployments
  <2>1. /\ pc' \in FromDeployments
        /\ UNCHANGED <<nodes, listed, owners, podRef, tenants>>
    BY <1>4 DEF ScanStep, ReadNodes, ReadPods, ReadPodsInScope, ReadReplicaSets, ReadJobs, ReadOwners,
       Attribute, ReadDeployments, ReadStatefulSets, ReadDaemonSets, ReadCronJobs,
       ReadControllers, AddOrphans, ReadNamespaces, ReadLimitRanges, ReadResourceQuotas, EndGuardrails,
       ProbeMetrics, ReadPodMetrics
  <2> QED
    BY <1>4, <2>1 DEF TenancyFollows, ResolveOwner, TenantsOn
<1>5. ASSUME ScanStep, pc \notin FromDeployments
      PROVE  Attribute \/ ReadNodes \/ ReadPods \/ ReadPodsInScope \/ ReadReplicaSets \/ ReadJobs
  BY <1>5 DEF ScanStep, ReadDeployments, ReadStatefulSets, ReadDaemonSets, ReadCronJobs,
       ReadControllers, AddOrphans, ReadNamespaces, ReadLimitRanges, ReadResourceQuotas, EndGuardrails,
       ProbeMetrics, ReadPodMetrics
<1> QED
  BY <1>1, <1>2, <1>3, <1>4, <1>5, Meanwhile DEF Next

LEMMA ReadControllersAnswers ==
  ASSUME NEW read, NEW kind, NEW next,
         ReadControllers(read, kind, next),
         OfKind(workloads, kind) = {}
  PROVE  /\ \/ read \in warnings' /\ OfKind(workloads', kind) = {}
            \/ OfKind(workloads', kind) = ObjectsOf(Now, kind, Scope)
         /\ \A k : k # kind => OfKind(workloads', k) = OfKind(workloads, k)
         /\ kind \in ControllerKinds =>
              {o \in workloads' : o.kind \notin ControllerKinds} =
                {o \in workloads : o.kind \notin ControllerKinds}
<1> USE DEF OfKind
<1>1. \A o \in ObjectsOf(Now, kind, Scope) : o.kind = kind
  BY DEF ObjectsOf
<1>2. CASE workloads' = workloads /\ warnings' = warnings \cup {read}
  BY <1>2
<1>3. CASE workloads' = workloads \cup ObjectsOf(Now, kind, Scope)
  BY <1>1, <1>3
<1> QED
  BY <1>2, <1>3 DEF ReadControllers, WarnUnless

LEMMA WorkloadsStep ==
  ASSUME TypeOK, WorkloadsInv, TenancyFollows, [Next]_vars
  PROVE  WorkloadsInv'
<1> USE DEF FromStatefulSets,
            FromDaemonSets, FromCronJobs, FromOrphans, FromNamespaces, FromGuardrails, FromMetrics
<1> DEFINE Others(W) == {o \in W : o.kind \notin ControllerKinds}
<1>1. Past \subseteq Past' /\ Now \in Past /\ warnings \subseteq warnings'
  BY PastGrows, NowType, WarningsGrow
<1>2. ASSUME UNCHANGED scanVars
      PROVE  WorkloadsInv'
  BY <1>1, <1>2 DEF WorkloadsInv, ControllersAreOfOneState, Orphans, scanVars
<1>3. ASSUME UNCHANGED <<workloads, podRef>>,
             pc \notin {"deployments", "statefulsets", "daemonsets", "cronjobs", "orphans"},
             pc' = "deployments" \/ (pc \in FromNamespaces <=> pc' \in FromNamespaces),
             pc' = "deployments" \/ pc' = pc \/ pc' \notin {"deployments", "statefulsets", "daemonsets", "cronjobs", "orphans"},
             pc \in FromNamespaces => pc' # "deployments"
      PROVE  WorkloadsInv'
  BY <1>1, <1>3 DEF WorkloadsInv, ControllersAreOfOneState, Orphans
<1>4. CASE ReadDeployments
  <2>1. pc = "deployments" /\ pc' = "statefulsets" /\ podRef' = podRef
    BY <1>4 DEF ReadDeployments, ReadControllers
  <2>2. /\ \/ "deployments" \in warnings' /\ OfKind(workloads', "Deployment") = {}
           \/ OfKind(workloads', "Deployment") = ObjectsOf(Now, "Deployment", Scope)
        /\ \A k : k # "Deployment" => OfKind(workloads', k) = OfKind(workloads, k)
        /\ Others(workloads') = Others(workloads)
    BY <1>4, <2>1, ReadControllersAnswers DEF ReadDeployments, WorkloadsInv, ControllersAreOfOneState, ControllerKinds
  <2> QED
    BY <1>1, <2>1, <2>2 DEF WorkloadsInv, ControllersAreOfOneState
<1>5. CASE ReadStatefulSets
  <2>1. pc = "statefulsets" /\ pc' = "daemonsets" /\ podRef' = podRef
    BY <1>5 DEF ReadStatefulSets, ReadControllers
  <2>2. /\ \/ "statefulsets" \in warnings' /\ OfKind(workloads', "StatefulSet") = {}
           \/ OfKind(workloads', "StatefulSet") = ObjectsOf(Now, "StatefulSet", Scope)
        /\ \A k : k # "StatefulSet" => OfKind(workloads', k) = OfKind(workloads, k)
        /\ Others(workloads') = Others(workloads)
    BY <1>5, <2>1, ReadControllersAnswers DEF ReadStatefulSets, WorkloadsInv, ControllersAreOfOneState, ControllerKinds
  <2> QED
    BY <1>1, <2>1, <2>2 DEF WorkloadsInv, ControllersAreOfOneState
<1>6. CASE ReadDaemonSets
  <2>1. pc = "daemonsets" /\ pc' = "cronjobs" /\ podRef' = podRef
    BY <1>6 DEF ReadDaemonSets, ReadControllers
  <2>2. /\ \/ "daemonsets" \in warnings' /\ OfKind(workloads', "DaemonSet") = {}
           \/ OfKind(workloads', "DaemonSet") = ObjectsOf(Now, "DaemonSet", Scope)
        /\ \A k : k # "DaemonSet" => OfKind(workloads', k) = OfKind(workloads, k)
        /\ Others(workloads') = Others(workloads)
    BY <1>6, <2>1, ReadControllersAnswers DEF ReadDaemonSets, WorkloadsInv, ControllersAreOfOneState, ControllerKinds
  <2> QED
    BY <1>1, <2>1, <2>2 DEF WorkloadsInv, ControllersAreOfOneState
<1>7. CASE ReadCronJobs
  <2>1. pc = "cronjobs" /\ pc' = "orphans" /\ podRef' = podRef
    BY <1>7 DEF ReadCronJobs, ReadControllers
  <2>2. /\ \/ "cronjobs" \in warnings' /\ OfKind(workloads', "CronJob") = {}
           \/ OfKind(workloads', "CronJob") = ObjectsOf(Now, "CronJob", Scope)
        /\ \A k : k # "CronJob" => OfKind(workloads', k) = OfKind(workloads, k)
        /\ Others(workloads') = Others(workloads)
    BY <1>7, <2>1, ReadControllersAnswers DEF ReadCronJobs, WorkloadsInv, ControllersAreOfOneState, ControllerKinds
  <2> QED
    BY <1>1, <2>1, <2>2 DEF WorkloadsInv, ControllersAreOfOneState
<1>8. CASE AddOrphans
  <2>1. pc = "orphans" /\ pc' = "namespaces" /\ podRef' = podRef
    BY <1>8 DEF AddOrphans
  <2>2. \A o \in Orphans : o.kind \in {"Pod", "Job"}
    BY DEF Orphans
  <2>3. \A k \in ControllerKinds : OfKind(workloads', k) = OfKind(workloads, k)
    BY <1>8, <2>2 DEF AddOrphans, OfKind, ControllerKinds
  <2>4. Others(workloads) = {}
    BY <2>1 DEF WorkloadsInv
  <2>5. Others(workloads') = {r \in Orphans : InNamespace(r, Scope)}
    BY <1>8, <2>2, <2>4 DEF AddOrphans, ControllerKinds
  <2>6. Orphans' = Orphans
    BY <2>1 DEF Orphans
  <2> QED
    BY <1>1, <2>1, <2>3, <2>5, <2>6 DEF WorkloadsInv, ControllersAreOfOneState, ControllerKinds
<1>9. CASE ReadNodes \/ ReadPods \/ ReadPodsInScope \/ ReadReplicaSets \/ ReadJobs
  BY <1>3, <1>9 DEF ReadNodes, ReadPods, ReadPodsInScope, ReadReplicaSets, ReadJobs, ReadOwners
<1>10. CASE Attribute
  BY <1>1, <1>10 DEF Attribute, WorkloadsInv, ControllersAreOfOneState
<1>11. CASE ReadNamespaces \/ ReadLimitRanges \/ ReadResourceQuotas \/ EndGuardrails \/ ProbeMetrics
            \/ ReadPodMetrics
  BY <1>3, <1>11 DEF ReadNamespaces, ReadLimitRanges, ReadResourceQuotas, EndGuardrails, ProbeMetrics, ReadPodMetrics
<1> QED
  BY <1>2, <1>4, <1>5, <1>6, <1>7, <1>8, <1>9, <1>10, <1>11, Meanwhile DEF Next, ScanStep

LEMMA NamespacesStep ==
  ASSUME TypeOK, NamespacesInv, [Next]_vars
  PROVE  NamespacesInv'
<1> USE DEF FromGuardrails, FromMetrics
<1>1. Past \subseteq Past' /\ Now \in Past /\ warnings \subseteq warnings'
  BY PastGrows, NowType, WarningsGrow
<1>2. ASSUME UNCHANGED scanVars
      PROVE  NamespacesInv'
  BY <1>1, <1>2 DEF NamespacesInv, NamespaceNames, scanVars
<1>3. CASE ReadNamespaces
  <2>1. ASSUME nsTodo' = NamespaceNames(Now, TRUE)
        PROVE  \E t \in Past' : nsTodo' \cup nsRows' = NamespaceNames(t, TRUE)'
    BY <1>1, <1>3, <2>1 DEF ReadNamespaces, NamespacesInv, NamespaceNames
  <2>2. "namespaces" \in warnings' \/ nsTodo' = NamespaceNames(Now, TRUE)
    BY <1>3 DEF ReadNamespaces, WarnUnless, Answers
  <2> QED
    BY <1>3, <2>1, <2>2 DEF ReadNamespaces, NamespacesInv
<1>4. CASE ReadLimitRanges
  BY <1>1, <1>4 DEF ReadLimitRanges, NamespacesInv, NamespaceNames
<1>5. CASE ReadResourceQuotas
  <2>1. Current \in nsTodo
    BY <1>5, CurrentType DEF ReadResourceQuotas, NamespacesInv
  <2>2. nsTodo' \cup nsRows' = nsTodo \cup nsRows
    BY <1>5, <2>1 DEF ReadResourceQuotas
  <2> QED
    BY <1>1, <1>5, <2>2 DEF ReadResourceQuotas, NamespacesInv, NamespaceNames
<1>6. CASE EndGuardrails
  BY <1>1, <1>6 DEF EndGuardrails, NamespacesInv, NamespaceNames, WarnUnless
<1>7. CASE ProbeMetrics
  BY <1>1, <1>7 DEF ProbeMetrics, NamespacesInv, NamespaceNames
<1>8. CASE ReadPodMetrics
  BY <1>1, <1>8 DEF ReadPodMetrics, NamespacesInv, NamespaceNames
<1>9. ASSUME ScanStep, pc \notin {"namespaces"} \cup FromGuardrails
      PROVE  NamespacesInv'
  <2>1. /\ pc' \notin FromGuardrails
        /\ UNCHANGED <<nsTodo, nsRows>>
    BY <1>9 DEF ScanStep, ReadNodes, ReadPods, ReadPodsInScope, ReadReplicaSets, ReadJobs, ReadOwners,
       Attribute, ReadDeployments, ReadStatefulSets, ReadDaemonSets, ReadCronJobs,
       ReadControllers, AddOrphans, ReadNamespaces, ReadLimitRanges, ReadResourceQuotas, EndGuardrails,
       ProbeMetrics, ReadPodMetrics
  <2> QED
    BY <1>9, <2>1 DEF NamespacesInv
<1>10. ASSUME ScanStep, pc \in {"namespaces"} \cup FromGuardrails
       PROVE  ReadNamespaces \/ ReadLimitRanges \/ ReadResourceQuotas \/ EndGuardrails \/ ProbeMetrics
                \/ ReadPodMetrics
  BY <1>10 DEF ScanStep, ReadNodes, ReadPods, ReadPodsInScope, ReadReplicaSets, ReadJobs, ReadOwners,
       Attribute, ReadDeployments, ReadStatefulSets, ReadDaemonSets, ReadCronJobs, ReadControllers, AddOrphans
<1> QED
  BY <1>2, <1>3, <1>4, <1>5, <1>6, <1>7, <1>8, <1>9, <1>10, Meanwhile DEF Next

LEMMA GuardrailsStep ==
  ASSUME TypeOK, NamespacesInv, GuardrailsAreOfOneState, [Next]_vars
  PROVE  GuardrailsAreOfOneState'
<1>1. Past \subseteq Past' /\ Now \in Past
  BY PastGrows, NowType
<1>2. ASSUME UNCHANGED <<nsRows, nsTodo, limits, quotas, unreadable>>,
             pc' = "resourcequotas" => pc = "resourcequotas"
      PROVE  GuardrailsAreOfOneState'
  BY <1>1, <1>2 DEF GuardrailsAreOfOneState, Current
<1>3. CASE ReadLimitRanges
  <2>1. Current \in Namespaces /\ pc # "resourcequotas" /\ Current' = Current
    BY <1>3, CurrentType DEF ReadLimitRanges, Current
  <2>2. limits \in [Namespaces -> SUBSET Objects]
    BY DEF TypeOK
  <2> SUFFICES ASSUME NEW ns \in Namespaces \ unreadable'
               PROVE  /\ ns \in nsRows' \/ (pc' = "resourcequotas" /\ ns = Current') =>
                           \E t \in Past' : limits'[ns] = ObjectsOf(t, "LimitRange", ns)
                      /\ ns \in nsRows' =>
                           \E t \in Past' : quotas'[ns] = ObjectsOf(t, "ResourceQuota", ns)
    BY DEF GuardrailsAreOfOneState
  <2>3. CASE limits' = [limits EXCEPT ![Current] = ObjectsOf(Now, "LimitRange", Current)] /\ unreadable' = unreadable
    BY <1>1, <1>3, <2>1, <2>2, <2>3 DEF ReadLimitRanges, GuardrailsAreOfOneState
  <2>4. CASE limits' = limits /\ unreadable' = unreadable \cup {Current}
    BY <1>1, <1>3, <2>1, <2>4 DEF ReadLimitRanges, GuardrailsAreOfOneState
  <2> QED
    BY <1>3, <2>3, <2>4 DEF ReadLimitRanges, MarkUnless
<1>4. CASE ReadResourceQuotas
  <2>1. Current \in Namespaces /\ pc = "resourcequotas" /\ pc' # "resourcequotas"
    BY <1>4, CurrentType DEF ReadResourceQuotas, NamespacesInv
  <2>2. quotas \in [Namespaces -> SUBSET Objects]
    BY DEF TypeOK
  <2> SUFFICES ASSUME NEW ns \in Namespaces \ unreadable', ns \in nsRows'
               PROVE  /\ \E t \in Past' : limits'[ns] = ObjectsOf(t, "LimitRange", ns)
                      /\ \E t \in Past' : quotas'[ns] = ObjectsOf(t, "ResourceQuota", ns)
    BY <2>1 DEF GuardrailsAreOfOneState
  <2>3. CASE quotas' = [quotas EXCEPT ![Current] = ObjectsOf(Now, "ResourceQuota", Current)] /\ unreadable' = unreadable
    BY <1>1, <1>4, <2>1, <2>2, <2>3 DEF ReadResourceQuotas, GuardrailsAreOfOneState
  <2>4. CASE quotas' = quotas /\ unreadable' = unreadable \cup {Current}
    BY <1>1, <1>4, <2>1, <2>4 DEF ReadResourceQuotas, GuardrailsAreOfOneState
  <2> QED
    BY <1>4, <2>3, <2>4 DEF ReadResourceQuotas, MarkUnless
<1>5. CASE ReadNamespaces
  BY <1>1, <1>5 DEF ReadNamespaces, GuardrailsAreOfOneState
<1>6. ASSUME UNCHANGED scanVars
      PROVE  GuardrailsAreOfOneState'
  BY <1>2, <1>6 DEF scanVars
<1>7. ASSUME ScanStep, ~ReadNamespaces, ~ReadLimitRanges, ~ReadResourceQuotas
      PROVE  GuardrailsAreOfOneState'
  BY <1>2, <1>7 DEF ScanStep, ReadNodes, ReadPods, ReadPodsInScope, ReadReplicaSets, ReadJobs, ReadOwners,
       Attribute, ReadDeployments, ReadStatefulSets, ReadDaemonSets, ReadCronJobs,
       ReadControllers, AddOrphans, EndGuardrails, ProbeMetrics, ReadPodMetrics
<1> QED
  BY <1>3, <1>4, <1>5, <1>6, <1>7, Meanwhile DEF Next

LEMMA UsageStep ==
  ASSUME TypeOK, UsageInv, TenancyFollows, [Next]_vars
  PROVE  UsageInv'
<1>1. ASSUME UNCHANGED scanVars
      PROVE  UsageInv'
  <2>1. pc' = pc /\ usage' = usage /\ podRef' = podRef
    BY <1>1 DEF scanVars
  <2>2. \A samples : UsageFrom(samples)' = UsageFrom(samples)
    BY <2>1 DEF UsageFrom
  <2> QED
    BY <2>1, <2>2 DEF UsageInv
<1>2. CASE ReadPodMetrics
  <2>1. pc = "podmetrics" /\ pc' = "done" /\ podRef' = podRef
    BY <1>2 DEF ReadPodMetrics
  <2>2. CASE usage' = usage
    BY <2>1, <2>2 DEF UsageInv
  <2>3. ASSUME NEW samples \in SUBSET Sampled, usage' = UsageFrom(samples)
        PROVE  UsageInv'
    <3>1. samples \in SUBSET Pods
      BY DEF Sampled
    <3>2. UsageFrom(samples)' = UsageFrom(samples)
      BY <2>1 DEF UsageFrom
    <3> QED
      BY <2>1, <2>3, <3>1, <3>2 DEF UsageInv
  <2> QED
    BY <1>2, <2>2, <2>3 DEF ReadPodMetrics
<1>3. ASSUME ScanStep, ~ReadPodMetrics
      PROVE  pc # "done" /\ usage' = usage
  BY <1>3 DEF ScanStep, ReadNodes, ReadPods, ReadPodsInScope, ReadReplicaSets, ReadJobs, ReadOwners,
       Attribute, ReadDeployments, ReadStatefulSets, ReadDaemonSets, ReadCronJobs,
       ReadControllers, AddOrphans, ReadNamespaces, ReadLimitRanges, ReadResourceQuotas, EndGuardrails,
       ProbeMetrics
<1>4. ASSUME ScanStep, ~ReadPodMetrics
      PROVE  UsageInv'
  BY <1>3, <1>4 DEF UsageInv
<1> QED
  BY <1>1, <1>2, <1>4, Meanwhile DEF Next

LEMMA SnapshotInit == Init => SnapshotInv
<1> SUFFICES ASSUME Init PROVE SnapshotInv
  OBVIOUS
<1> USE DEF Init, FromReplicaSets, FromJobs, FromAttribute, FromDeployments, FromStatefulSets,
            FromDaemonSets, FromCronJobs, FromOrphans, FromNamespaces, FromGuardrails, FromMetrics
<1>1. NodesAreOfOneState /\ PodsAreOfOneState
  BY DEF NodesAreOfOneState, PodsAreOfOneState, Clusterwide
<1>2. OwnersInv
  BY DEF OwnersInv, OwnersAreOfOneState, OfKind
<1>3. TenancyFollows
  BY DEF TenancyFollows
<1>4. WorkloadsInv
  BY DEF WorkloadsInv, ControllersAreOfOneState, OfKind
<1>5. NamespacesInv /\ GuardrailsAreOfOneState
  BY DEF NamespacesInv, GuardrailsAreOfOneState
<1>6. UsageInv
  BY DEF UsageInv
<1> QED
  BY <1>1, <1>2, <1>3, <1>4, <1>5, <1>6 DEF SnapshotInv

\* Types, and of which states an inventory in the making is: of each list, one
\* past state of the cluster answered for all of it, or a warning stands for it.
THEOREM ReadsAreSnapshots == Spec => [](TypeOK /\ SnapshotInv)
<1>1. Init => TypeOK /\ SnapshotInv
  BY TypeInit, SnapshotInit
<1>2. TypeOK /\ SnapshotInv /\ [Next]_vars => (TypeOK /\ SnapshotInv)'
  <2> SUFFICES ASSUME TypeOK, SnapshotInv, [Next]_vars PROVE TypeOK' /\ SnapshotInv'
    OBVIOUS
  <2> QED
    BY TypeStep, NodesStep, PodsStep, OwnersStep, TenancyStep, WorkloadsStep, NamespacesStep, GuardrailsStep,
       UsageStep DEF SnapshotInv
<1> QED
  BY <1>1, <1>2, PTL DEF Spec

\* Every reachable inventory, finished or not, has its type.
THEOREM TypeCorrect == Spec => []TypeOK
BY ReadsAreSnapshots, PTL

-----------------------------------------------------------------------------
(* What the inventory owes its reader.                                      *)

\* CAP201 is never made out of a denied read, nor out of a mixture of reads:
\* each guardrail it calls missing was missing in one state of the cluster.
THEOREM MissingWasMissing == Spec => []UngovernedWasMissing
<1>1. TypeOK /\ SnapshotInv => UngovernedWasMissing
  BY DEF SnapshotInv, GuardrailsAreOfOneState, UngovernedWasMissing, Ungoverned, NoLimitRange, NoQuota
<1> QED
  BY <1>1, ReadsAreSnapshots, PTL

\* A controller that stood still is in the report, or the denied read that
\* would have shown it is in the warnings.
THEOREM StableReported == Spec => []StableWorkloadsReported
<1>1. ASSUME SnapshotInv PROVE StableWorkloadsReported
  <2> USE <1>1
  <2> SUFFICES ASSUME Done, NEW o \in Objects, o.kind \in ControllerKinds, InNamespace(o, Scope),
                      \A t \in Past : o \in t.objs
               PROVE  o \in workloads \/ ReadOf[o.kind] \in warnings
    BY DEF StableWorkloadsReported
  <2> DEFINE AreOfOneState(read, kind) ==
               \/ read \in warnings /\ OfKind(workloads, kind) = {}
               \/ \E t \in Past : OfKind(workloads, kind) = ObjectsOf(t, kind, Scope)
  <2>1. /\ AreOfOneState("deployments", "Deployment")
        /\ AreOfOneState("statefulsets", "StatefulSet")
        /\ AreOfOneState("daemonsets", "DaemonSet")
        /\ AreOfOneState("cronjobs", "CronJob")
    BY DEF Done, SnapshotInv, WorkloadsInv, ControllersAreOfOneState, FromStatefulSets, FromDaemonSets,
           FromCronJobs, FromOrphans, FromNamespaces, FromGuardrails, FromMetrics
  <2>2. /\ ReadOf["Deployment"] = "deployments" /\ ReadOf["StatefulSet"] = "statefulsets"
        /\ ReadOf["DaemonSet"] = "daemonsets" /\ ReadOf["CronJob"] = "cronjobs"
    BY DEF ReadOf, ControllerKinds
  <2>3. AreOfOneState(ReadOf[o.kind], o.kind)
    BY <2>1, <2>2 DEF ControllerKinds
  <2>4. \A t \in Past : o \in ObjectsOf(t, o.kind, Scope)
    BY DEF ObjectsOf
  <2>5. o \in OfKind(workloads, o.kind) => o \in workloads
    BY DEF OfKind
  <2> QED
    BY <2>3, <2>4, <2>5
<1> QED
  BY <1>1, ReadsAreSnapshots, PTL

\* A pod is put down to the owner it had in some state the cluster was in,
\* unless a denied read hid the owner.
LEMMA ResolvedTruly ==
  ASSUME TypeOK, SnapshotInv, pc \in FromDeployments, NEW p \in DOMAIN listed, OwnerReadable(p)
  PROVE  \E t \in Past : ResolveOwner(p) = TrueOwner(t, p)
<1> DEFINE c == Controller[p]
<1>1. p \in Pods /\ p \in RefSpace /\ InNamespace(p, OwnerNamespace)
  <2>1. PICK t \in Past : listed = ListedPods(t, OwnerNamespace)
    BY DEF SnapshotInv, PodsAreOfOneState, FromReplicaSets, FromJobs, FromAttribute
  <2> QED
    BY <2>1 DEF ListedPods, RefSpace
<1>2. CASE c \in owners
  <2>1. PassedOver(c)
    BY <1>2, OwnersPassOver DEF SnapshotInv
  <2>2. \E t \in Past : c \in t.objs
    <3>1. c \in OfKind(owners, "ReplicaSet") \/ c \in OfKind(owners, "Job")
      BY <1>2 DEF SnapshotInv, OwnersInv, OfKind
    <3> QED
      BY <3>1 DEF SnapshotInv, OwnersInv, OwnersAreOfOneState, Resolving, ObjectsOf
  <2>3. ResolveOwner(p) = Controller[c]
    BY <1>2, <2>1 DEF ResolveOwner, PassedOver
  <2> QED
    BY <2>1, <2>2, <2>3 DEF TrueOwner
<1>3. ASSUME c \notin owners, c.kind = "Job" \/ c.kind = "ReplicaSet"
      PROVE  \E t \in Past : ~(c \in t.objs /\ PassedOver(c))
  <2>1. c \in Objects /\ c.ns = p.ns
    BY <1>1, <1>3, ControllerType
  <2>2. InNamespace(c, OwnerNamespace)
    BY <1>1, <2>1 DEF InNamespace
  <2>3. CASE c.kind = "Job"
    <3>1. PICK t \in Past : OfKind(owners, "Job") = Resolving(t, "Job", "CronJob")
      BY <2>3 DEF OwnerReadable, SnapshotInv, OwnersInv, OwnersAreOfOneState, FromAttribute
    <3> QED
      BY <1>3, <2>2, <2>3, <3>1 DEF OfKind, Resolving, ObjectsOf, PassedOver
  <2>4. CASE c.kind = "ReplicaSet"
    <3>1. PICK t \in Past : OfKind(owners, "ReplicaSet") = Resolving(t, "ReplicaSet", "Deployment")
      BY <2>4 DEF OwnerReadable, SnapshotInv, OwnersInv, OwnersAreOfOneState, FromAttribute, FromJobs
    <3> QED
      BY <1>3, <2>2, <2>4, <3>1 DEF OfKind, Resolving, ObjectsOf, PassedOver
  <2> QED
    BY <1>3, <2>3, <2>4
<1>4. CASE c \notin owners /\ c.kind = "Job"
  BY <1>3, <1>4 DEF TrueOwner, ResolveOwner
<1>5. CASE c \notin owners /\ c.kind = "ReplicaSet"
  BY <1>3, <1>5 DEF TrueOwner, ResolveOwner
<1>6. CASE c \notin owners /\ c.kind \notin {"Job", "ReplicaSet"}
  <2>1. ~PassedOver(c)
    BY <1>6 DEF PassedOver
  <2>2. ResolveOwner(p) = TrueOwner(Now, p)
    BY <1>6, <2>1 DEF TrueOwner, ResolveOwner
  <2> QED
    BY <2>2, NowType
<1> QED
  BY <1>2, <1>4, <1>5, <1>6

\* Whatever a pod is put down to is the owner it had at some time, or, where a
\* denial hid that, one on the way to it.
LEMMA ResolvedToItsOwn ==
  ASSUME TypeOK, SnapshotInv, pc \in FromDeployments, NEW p \in DOMAIN listed
  PROVE  /\ p \in Pods
         /\ \E t \in Past : Alive(t, p) /\ listed[p] = t.pods[p].node
         /\ BelongedTo(p, ResolveOwner(p))
<1>1. PICK t \in Past : listed = ListedPods(t, OwnerNamespace)
  BY DEF SnapshotInv, PodsAreOfOneState, FromReplicaSets, FromJobs, FromAttribute
<1>2. p \in Pods /\ Alive(t, p) /\ listed[p] = t.pods[p].node
  BY <1>1 DEF ListedPods
<1>3. OwnerReadable(p) => \E u \in Past : ResolveOwner(p) = TrueOwner(u, p)
  BY ResolvedTruly
<1>4. ResolveOwner(p) \in Ancestors(p)
  <2>1. CASE Controller[p] \in owners
    <3>1. PassedOver(Controller[p]) /\ Controller[p] \in RefSpace
      BY <2>1, OwnersPassOver DEF SnapshotInv, TypeOK, RefSpace
    <3> QED
      BY <2>1, <3>1 DEF ResolveOwner, PassedOver, Ancestors
  <2>2. CASE Controller[p] \notin owners
    BY <1>2, <2>2 DEF ResolveOwner, Ancestors, RefSpace
  <2> QED
    BY <2>1, <2>2
<1> QED
  BY <1>2, <1>3, <1>4 DEF BelongedTo

\* Behind every tenant there is a pod that was alive on that node, and the
\* tenant is the owner it had, or, where a denial hid it, one on the way to it.
THEOREM NeighborsAreReal == Spec => []NoNeighborInvented
<1>1. ASSUME TypeOK, SnapshotInv PROVE NoNeighborInvented
  <2> USE <1>1
  <2> SUFFICES ASSUME NEW n \in Nodes, NEW r \in tenants[n]
               PROVE  \E p \in Pods : (\E t \in Past : AliveOn(t, p, n)) /\ BelongedTo(p, r)
    BY DEF NoNeighborInvented
  <2>1. pc \in FromDeployments
    BY DEF SnapshotInv, TenancyFollows
  <2>2. PICK p \in DOMAIN listed : listed[p] = n /\ r = ResolveOwner(p)
    BY <2>1 DEF SnapshotInv, TenancyFollows, TenantsOn
  <2>3. p \in Pods /\ BelongedTo(p, r) /\ \E t \in Past : Alive(t, p) /\ n = t.pods[p].node
    BY <2>1, <2>2, ResolvedToItsOwn
  <2> QED
    BY <2>3 DEF AliveOn
<1> QED
  BY <1>1, ReadsAreSnapshots, PTL

\* A pod that stood still on a node that did too is a tenant of it under its
\* true owner, or a warning accounts for it.
THEOREM StableCounted == Spec => []StableTenantsCounted
<1>1. ASSUME TypeOK, SnapshotInv PROVE StableTenantsCounted
  <2> USE <1>1
  <2> SUFFICES ASSUME Done, NEW p \in Pods, NEW n \in Nodes,
                      \A t \in Past : n \in t.nodes /\ AliveOn(t, p, n),
                      \A t, u \in Past : TrueOwner(t, p) = TrueOwner(u, p),
                      "nodes" \notin warnings,
                      ~("podsClusterWide" \in warnings /\ p.ns # Scope),
                      OwnerReadable(p)
               PROVE  TrueOwner(Now, p) \in tenants[n]
    BY DEF StableTenantsCounted
  <2>1. pc \in FromDeployments /\ pc # "nodes" /\ pc \in FromReplicaSets
    BY DEF Done, FromReplicaSets, FromJobs, FromAttribute, FromDeployments, FromStatefulSets, FromDaemonSets,
           FromCronJobs, FromOrphans, FromNamespaces, FromGuardrails, FromMetrics
  <2>2. n \in nodes
    BY <2>1 DEF SnapshotInv, NodesAreOfOneState
  <2>3. PICK t \in Past : listed = ListedPods(t, OwnerNamespace)
    BY <2>1 DEF SnapshotInv, PodsAreOfOneState
  <2>4. InNamespace(p, OwnerNamespace)
    BY DEF InNamespace, OwnerNamespace, Clusterwide
  <2>5. p \in DOMAIN listed /\ listed[p] = n
    BY <2>3, <2>4 DEF ListedPods, AliveOn
  <2>6. PICK u \in Past : ResolveOwner(p) = TrueOwner(u, p)
    BY <2>1, <2>5, ResolvedTruly
  <2>7. ResolveOwner(p) = TrueOwner(Now, p)
    BY <2>6, NowType
  <2> QED
    BY <2>1, <2>2, <2>5, <2>7 DEF SnapshotInv, TenancyFollows, TenantsOn
<1> QED
  BY <1>1, ReadsAreSnapshots, PTL

\* Behind the samples counted for a workload are as many pods that were alive
\* during the scan and were its own, the worst of which used what is reported.
THEOREM UsageIsReal == Spec => []UsageIsOfItsPods
<1>1. ASSUME TypeOK, SnapshotInv PROVE UsageIsOfItsPods
  <2> USE <1>1
  <2> SUFFICES ASSUME NEW r \in DOMAIN usage
               PROVE  /\ usage[r].samples <= RunningPods(r)
                      /\ \E S \in (SUBSET PodsOf(r)) \ {{}} :
                           /\ usage[r].samples = Cardinality(S)
                           /\ usage[r].mem = MaxOf({MemOf[p] : p \in S})
    BY DEF UsageIsOfItsPods
  <2>1. PICK samples \in SUBSET Pods : pc = "done" /\ usage = UsageFrom(samples)
    BY DEF SnapshotInv, UsageInv, Empty
  <2>2. usage[r].samples <= RunningPods(r)
    BY <2>1, UsageFromFacts
  <2> DEFINE Own == {p \in DOMAIN podRef : podRef[p] = r}
  <2>3. PICK S \in (SUBSET Own) \ {{}} :
              /\ usage[r].samples = Cardinality(S)
              /\ usage[r].mem = MaxOf({MemOf[p] : p \in S})
    <3>1. \A q \in DOMAIN UsageFrom(samples) : \E S \in (SUBSET {p \in DOMAIN podRef : podRef[p] = q}) \ {{}} :
              /\ UsageFrom(samples)[q].samples = Cardinality(S)
              /\ UsageFrom(samples)[q].mem = MaxOf({MemOf[p] : p \in S})
      BY UsageFromFacts, Zenon
    <3>2. UsageFrom(samples) = usage
      BY <2>1
    <3> QED
      BY <3>1, <3>2, Zenon
  <2>4. pc \in FromDeployments
    BY <2>1 DEF FromDeployments, FromStatefulSets, FromDaemonSets, FromCronJobs, FromOrphans,
                FromNamespaces, FromGuardrails, FromMetrics
  <2>5. ASSUME NEW p \in DOMAIN podRef, podRef[p] = r PROVE p \in PodsOf(r)
    <3>1. p \in DOMAIN listed /\ r = ResolveOwner(p)
      BY <2>4, <2>5 DEF SnapshotInv, TenancyFollows
    <3> QED
      BY <2>4, <3>1, ResolvedToItsOwn DEF PodsOf
  <2>6. S \in (SUBSET PodsOf(r)) \ {{}}
    BY <2>3, <2>5
  <2> QED
    BY <2>2, <2>3, <2>6
<1> QED
  BY <1>1, ReadsAreSnapshots, PTL

\* When nothing moved, nothing was lost: one state answered every read.
THEOREM QuietIsExact == Spec => []QuietScanIsExact
<1>1. ASSUME TypeOK, SnapshotInv PROVE QuietScanIsExact
  <2> USE <1>1
  <2> SUFFICES ASSUME Done, Len(history) = 1, warnings = {}
               PROVE  /\ nodes = Now.nodes
                      /\ \A n \in Nodes : tenants[n] = TrueTenants(Now, n)
                      /\ workloads = TrueWorkloads(Now)
                      /\ {ns \in Namespaces : Ungoverned(ns)} =
                           {ns \in ScopeNamespaces(Now) : NoLimitRange(Now, ns) /\ NoQuota(Now, ns)}
    BY DEF QuietScanIsExact
  <2>1. Past = {Now} /\ Now \in ClusterStates
    BY NowType DEF Past, Now
  <2>2. pc = "done" /\ pc \in FromMetrics /\ pc \in FromGuardrails /\ pc \in FromNamespaces
        /\ pc \in FromDeployments /\ pc \in FromReplicaSets
    BY DEF Done, FromReplicaSets, FromJobs, FromAttribute, FromDeployments, FromStatefulSets, FromDaemonSets,
           FromCronJobs, FromOrphans, FromNamespaces, FromGuardrails, FromMetrics
  <2>3. nodes = Now.nodes
    BY <2>1, <2>2 DEF SnapshotInv, NodesAreOfOneState
  <2>4. listed = ListedPods(Now, AllNamespaces)
    BY <2>1, <2>2 DEF SnapshotInv, PodsAreOfOneState, OwnerNamespace, Clusterwide
  <2>5. /\ DOMAIN listed = {q \in Pods : Alive(Now, q)}
        /\ \A p \in DOMAIN listed : listed[p] = Now.pods[p].node
    BY <2>4 DEF ListedPods, InNamespace
  <2>6. \A p \in DOMAIN listed : ResolveOwner(p) = TrueOwner(Now, p)
    BY <2>1, <2>2, ResolvedTruly DEF OwnerReadable
  <2>7. DOMAIN podRef = DOMAIN listed /\ \A p \in DOMAIN listed : podRef[p] = TrueOwner(Now, p)
    BY <2>2, <2>6 DEF SnapshotInv, TenancyFollows
  <2>8. ASSUME NEW n \in Nodes PROVE tenants[n] = TrueTenants(Now, n)
    <3>1. tenants[n] = IF n \in nodes
                       THEN {ResolveOwner(p) : p \in {q \in DOMAIN listed : listed[q] = n}}
                       ELSE {}
      BY <2>2 DEF SnapshotInv, TenancyFollows, TenantsOn
    <3>2. {q \in DOMAIN listed : listed[q] = n} = {q \in Pods : AliveOn(Now, q, n)}
      BY <2>5 DEF AliveOn
    <3> QED
      BY <2>3, <2>5, <2>6, <3>1, <3>2 DEF TrueTenants
  <2>9. Orphans = TrueOrphans(Now)
    <3>1. {q \in DOMAIN podRef : podRef[q].kind \in {"Pod", "Job"}} =
            {q \in Pods : Alive(Now, q) /\ TrueOwner(Now, q).kind \in {"Pod", "Job"}}
      BY <2>5, <2>7
    <3> QED
      BY <2>7, <3>1 DEF Orphans, TrueOrphans
  <2>10. workloads = TrueWorkloads(Now)
    <3>1. \A kind \in ControllerKinds : OfKind(workloads, kind) = ObjectsOf(Now, kind, Scope)
      BY <2>1 DEF Done, SnapshotInv, WorkloadsInv, ControllersAreOfOneState, ControllerKinds, FromStatefulSets,
                  FromDaemonSets, FromCronJobs, FromOrphans, FromNamespaces, FromGuardrails, FromMetrics
    <3>2. {o \in workloads : o.kind \notin ControllerKinds} = {r \in TrueOrphans(Now) : InNamespace(r, Scope)}
      BY <2>2, <2>9 DEF SnapshotInv, WorkloadsInv
    <3>3. \A o \in TrueOrphans(Now) : o.kind \in {"Pod", "Job"}
      BY DEF TrueOrphans
    <3>4. \A o \in Now.objs : o.kind # "Pod"
      BY <2>1, ObjectsAssumption DEF ClusterStates
    <3>5. ASSUME NEW o, o.kind \in ControllerKinds
          PROVE  o \in workloads <=> o \in TrueWorkloads(Now)
      BY <3>1, <3>3, <3>5 DEF OfKind, ObjectsOf, TrueWorkloads, ControllerKinds
    <3>6. ASSUME NEW o, o.kind \notin ControllerKinds
          PROVE  o \in workloads <=> o \in TrueWorkloads(Now)
      BY <3>2, <3>3, <3>4, <3>6 DEF TrueWorkloads
    <3> QED
      BY <3>5, <3>6
  <2>11. nsRows = ScopeNamespaces(Now)
    BY <2>1, <2>2 DEF SnapshotInv, NamespacesInv, NamespaceNames, ScopeNamespaces
  <2>12. unreadable = {}
    BY <2>2 DEF SnapshotInv, NamespacesInv
  <2>13. \A ns \in nsRows : /\ limits[ns] = ObjectsOf(Now, "LimitRange", ns)
                           /\ quotas[ns] = ObjectsOf(Now, "ResourceQuota", ns)
    BY <2>1, <2>12 DEF SnapshotInv, GuardrailsAreOfOneState, TypeOK
  <2>14. {ns \in Namespaces : Ungoverned(ns)} =
           {ns \in ScopeNamespaces(Now) : NoLimitRange(Now, ns) /\ NoQuota(Now, ns)}
    BY <2>11, <2>12, <2>13 DEF Ungoverned, NoLimitRange, NoQuota, TypeOK
  <2> QED
    BY <2>3, <2>8, <2>10, <2>14
<1> QED
  BY <1>1, ReadsAreSnapshots, PTL

-----------------------------------------------------------------------------
(* The formula, on what the scan read and on what was there.                *)

LEMMA FormulaCardinality ==
  ASSUME NEW r, NEW S
  PROVE  Formula(r)!Cardinality(S) = Cardinality(S)
BY DEF Formula!Cardinality, Cardinality

LEMMA RefSpaceIsFinite == IsFiniteSet(RefSpace) /\ Cardinality(RefSpace) \in Nat
<1>1. IsFiniteSet(RefSpace)
  BY ObjectsAssumption, FiniteClusterAssumption, FS_Union DEF RefSpace
<1> QED
  BY <1>1, FS_CardinalityType

\* More neighbors never make for a smaller logarithm.
LEMMA LogGrows ==
  ASSUME NEW B \in SUBSET RefSpace, NEW A \in SUBSET B
  PROVE  /\ Log2[Cardinality(A)] \in Nat /\ Log2[Cardinality(B)] \in Nat
         /\ Log2[Cardinality(A)] <= Log2[Cardinality(B)]
<1> DEFINE a == Cardinality(A)
           b == Cardinality(B)
           all == Cardinality(RefSpace)
<1>1. IsFiniteSet(B) /\ b <= all /\ all \in Nat
  BY RefSpaceIsFinite, FS_Subset
<1>2. IsFiniteSet(A) /\ a <= b
  BY <1>1, FS_Subset
<1>3. a \in Nat /\ b \in Nat
  BY <1>1, <1>2, FS_CardinalityType
<1> HIDE DEF a, b
<1>4. a \in 0 .. all /\ b \in 0 .. all
  BY <1>1, <1>2, <1>3
<1> HIDE DEF all
<1>5. Log2[a] \in Nat /\ Log2[b] \in Nat /\ (a < b => Log2[a] < Log2[b])
  BY <1>4, ScoredScanAssumption DEF all
<1>6. a < b \/ a = b
  BY <1>2, <1>3
<1> QED
  BY <1>5, <1>6 DEF a, b

Shared(n, who, r) == Log2[Cardinality(who[n] \ {r})]
AskedBy(r) == 2 * IF Request[r] <= 0 THEN RequestFloor ELSE Request[r]
WeightOn(r, n) ==
  (IF Limit[r] # Unbounded /\ Limit[r] > 0 /\ Limit[r] < Alloc[n] THEN Limit[r] ELSE Alloc[n])
    * IF Spot[n] THEN 3 ELSE 2

LEMMA RiskReadForm ==
  ASSUME NEW r \in RefSpace, NEW known \in SUBSET Nodes, NEW who \in [Nodes -> SUBSET RefSpace],
         NEW names, NEW k, NEW n \in known, Alloc[n] > 0
  PROVE  /\ Formula(r)!RiskOn(ClusterWith(known, who), WorkloadOn(r, names, k), n)
              = [num |-> WeightOn(r, n) * Shared(n, who, r), den |-> AskedBy(r)]
         /\ AskedBy(r) \in Nat \ {0} /\ WeightOn(r, n) \in Nat /\ Shared(n, who, r) \in Nat
<1> DEFINE c == ClusterWith(known, who)
           w == WorkloadOn(r, names, k)
           ceiling == IF Limit[r] # Unbounded /\ Limit[r] > 0 /\ Limit[r] < Alloc[n] THEN Limit[r] ELSE Alloc[n]
           asked == IF Request[r] <= 0 THEN RequestFloor ELSE Request[r]
           halves == IF Spot[n] THEN 3 ELSE 2
           l == Shared(n, who, r)
<1>1. /\ Alloc[n] \in Nat /\ Spot[n] \in BOOLEAN /\ Request[r] \in Nat
      /\ Limit[r] \in Nat \cup {Unbounded} /\ RequestFloor \in Nat \ {0}
  BY ScoredScanAssumption
<1>2. c.alloc[n] = Alloc[n] /\ c.spot[n] = Spot[n] /\ c.tenants = who /\ w.request = Request[r] /\ w.limit = Limit[r]
  BY <1>1 DEF ClusterWith, WorkloadOn
<1>3. ceiling \in Nat \ {0} /\ asked \in Nat \ {0} /\ halves \in Nat
  BY <1>1 DEF Unbounded
<1>4. l \in Nat
  <2>1. who[n] \ {r} \in SUBSET RefSpace
    OBVIOUS
  <2> QED
    BY <2>1, LogGrows DEF Shared
<1>5. Formula(r)!Ceiling(c, w, n) = ceiling
  <2> HIDE DEF c, w
  <2> QED
    BY <1>2 DEF Formula!Ceiling, Formula!CeilingIsLimit, Formula!Unbounded, Unbounded
<1>6. Formula(r)!EffectiveRequest(w) = asked
  <2> HIDE DEF w
  <2> QED
    BY <1>2 DEF Formula!EffectiveRequest
<1>7. Log2[Formula(r)!Neighbors(c, n, r)] = l
  <2> HIDE DEF c
  <2> QED
    BY <1>2, FormulaCardinality DEF Formula!Neighbors, Shared
<1>8. Formula(r)!SpotHalves(c.spot[n]) = halves
  <2> HIDE DEF c
  <2> QED
    BY <1>2 DEF Formula!SpotHalves
<1>9. Formula(r)!RiskOn(c, w, n) = [num |-> ceiling * l * halves, den |-> 2 * asked]
  <2> HIDE DEF c, w, l, halves, ceiling, asked
  <2> QED
    BY <1>3, <1>5, <1>6, <1>7, <1>8 DEF Formula!RiskOn, Formula!Compute
<1>10. ceiling * halves \in Nat /\ ceiling * l * halves = (ceiling * halves) * l
  <2> HIDE DEF ceiling, halves, l
  <2>1. ceiling * l * halves = (ceiling * halves) * l
    BY <1>3, <1>4
  <2> QED
    BY <1>3, MulNat, <2>1
<1>11. WeightOn(r, n) = ceiling * halves /\ AskedBy(r) = 2 * asked
  BY DEF WeightOn, AskedBy
<1> QED
  <2> HIDE DEF ceiling, asked, halves, l
  <2>1. 2 * asked \in Nat \ {0}
    BY <1>3
  <2>2. [num |-> ceiling * l * halves, den |-> 2 * asked] = [num |-> WeightOn(r, n) * l, den |-> AskedBy(r)]
    BY <1>10, <1>11
  <2> QED
    BY <1>4, <1>9, <1>10, <1>11, <2>1, <2>2 DEF l

CandidatesIn(known, names) ==
  IF names \cap known # {} THEN names \cap known
  ELSE {n \in known : \A m \in known : Alloc[m] < Alloc[n] \/ (Alloc[m] = Alloc[n] /\ n <= m)}

ScoredNodes(known, names) == {n \in CandidatesIn(known, names) : Alloc[n] > 0}

LEMMA ScorableRead ==
  ASSUME NEW r \in RefSpace, NEW known \in SUBSET Nodes, NEW who, NEW names, NEW k
  PROVE  /\ ScoredNodes(known, names) \subseteq known
         /\ Formula(r)!Scorable(ClusterWith(known, who), WorkloadOn(r, names, k)) = ScoredNodes(known, names)
<1> DEFINE c == ClusterWith(known, who)
           w == WorkloadOn(r, names, k)
<1>1. c.known = known /\ w.nodes = names /\ \A n \in known : c.alloc[n] = Alloc[n]
  BY DEF ClusterWith, WorkloadOn
<1> HIDE DEF c, w
<1>2. Formula(r)!Occupied(c, w) = names \cap known
  BY <1>1 DEF Formula!Occupied
<1>3. Formula(r)!Largest(c) = {n \in known : \A m \in known : Alloc[m] < Alloc[n] \/ (Alloc[m] = Alloc[n] /\ n <= m)}
  BY <1>1 DEF Formula!Largest
<1>4. Formula(r)!CandidateNodes(c, w) = CandidatesIn(known, names)
  BY <1>2, <1>3 DEF Formula!CandidateNodes, CandidatesIn
<1>5. CandidatesIn(known, names) \subseteq known
  BY DEF CandidatesIn
<1>6. Formula(r)!Scorable(c, w) = ScoredNodes(known, names)
  BY <1>1, <1>4, <1>5 DEF Formula!Scorable, ScoredNodes
<1> QED
  BY <1>5, <1>6 DEF c, w, ScoredNodes

\* The score is the greatest of the risks on the nodes that count, or nothing.
LEMMA ScoreReadForm ==
  ASSUME NEW r \in RefSpace, NEW known \in SUBSET Nodes, NEW who \in [Nodes -> SUBSET RefSpace],
         NEW names, NEW k
  PROVE  LET risk == Formula(r)!ScoreOf(ClusterWith(known, who), WorkloadOn(r, names, k)).risk
         IN  /\ ScoredNodes(known, names) = {} => risk = [num |-> 0, den |-> 1]
             /\ ScoredNodes(known, names) # {} =>
                  \E n \in ScoredNodes(known, names) :
                    /\ risk = [num |-> WeightOn(r, n) * Shared(n, who, r), den |-> AskedBy(r)]
                    /\ \A m \in ScoredNodes(known, names) :
                         WeightOn(r, m) * Shared(m, who, r) <= WeightOn(r, n) * Shared(n, who, r)
<1> DEFINE c == ClusterWith(known, who)
           w == WorkloadOn(r, names, k)
           S == ScoredNodes(known, names)
           num(n) == WeightOn(r, n) * Shared(n, who, r)
           worst == Formula(r)!WorstNodes(c, w)
<1>1. \A n \in S : /\ n \in Nodes
                   /\ Formula(r)!RiskOn(c, w, n) = [num |-> num(n), den |-> AskedBy(r)]
                   /\ num(n) \in Nat /\ AskedBy(r) \in Nat \ {0}
  <2> SUFFICES ASSUME NEW n \in S
               PROVE  /\ n \in Nodes
                      /\ Formula(r)!RiskOn(c, w, n) = [num |-> num(n), den |-> AskedBy(r)]
                      /\ num(n) \in Nat /\ AskedBy(r) \in Nat \ {0}
    OBVIOUS
  <2>1. n \in known /\ Alloc[n] > 0
    BY ScorableRead DEF ScoredNodes
  <2>2. WeightOn(r, n) \in Nat /\ Shared(n, who, r) \in Nat /\ AskedBy(r) \in Nat \ {0}
        /\ Formula(r)!RiskOn(c, w, n) = [num |-> num(n), den |-> AskedBy(r)]
    BY <2>1, RiskReadForm
  <2> QED
    BY <2>1, <2>2, MulNat
<1>2. Formula(r)!Scorable(c, w) = S
  BY ScorableRead
<1> HIDE DEF c, w, S, num
<1>3. \A n, m \in S : Formula(r)!Exceeds(Formula(r)!RiskOn(c, w, m), Formula(r)!RiskOn(c, w, n)) <=> num(m) > num(n)
  <2> SUFFICES ASSUME NEW n \in S, NEW m \in S
               PROVE  num(m) * AskedBy(r) > num(n) * AskedBy(r) <=> num(m) > num(n)
    BY <1>1 DEF Formula!Exceeds
  <2> QED
    BY <1>1
<1>4. worst = {n \in S : \A m \in S : ~(num(m) > num(n))}
  BY <1>2, <1>3 DEF Formula!WorstNodes
<1>5. CASE S = {}
  <2>1. worst = {}
    BY <1>4, <1>5
  <2>2. Formula(r)!ScoreOf(c, w).risk = [num |-> 0, den |-> 1]
    BY <2>1 DEF Formula!ScoreOf, Formula!Unscored, Formula!NoRisk
  <2> QED
    BY <1>5, <2>2 DEF c, w, S
<1>6. CASE S # {}
  <2>1. \E n \in S : \A m \in S : num(m) <= num(n)
    <3> DEFINE V == {num(n) : n \in S}
    <3>1. V \in SUBSET Nat /\ V # {}
      BY <1>1, <1>6
    <3>2. IsFiniteSet(S)
      BY <1>1, FiniteClusterAssumption, FS_Subset
    <3>3. IsFiniteSet(V)
      <4> DEFINE F == [n \in S |-> num(n)]
      <4>1. IsFiniteSet({F[n] : n \in S})
        BY <3>2, ValuesAreFinite
      <4> QED
        BY <4>1
    <3> HIDE DEF V
    <3>4. \E x \in V : \A y \in V : y <= x
      BY <3>1, <3>3, GreatestExists
    <3> QED
      BY <3>4 DEF V
  <2>2. worst \in SUBSET Nat /\ worst # {}
    <3>1. \E n \in S : \A m \in S : ~(num(m) > num(n))
      BY <1>1, <2>1
    <3> QED
      BY <1>1, <1>4, <3>1, NodesAssumption
  <2> DEFINE first == CHOOSE n \in worst : \A m \in worst : n <= m
  <2>3. first \in worst
    <3> HIDE DEF worst
    <3>1. \E n \in worst : \A m \in worst : n <= m
      BY <2>2, LeastExists
    <3> QED
      BY <3>1
  <2>4. Formula(r)!ScoreOf(c, w).risk = Formula(r)!RiskOn(c, w, first)
    BY <2>2 DEF Formula!ScoreOf, Formula!ScoreAt
  <2> HIDE DEF first, worst
  <2>5. first \in S /\ \A m \in S : num(m) <= num(first)
    BY <1>1, <1>4, <2>3
  <2>6. Formula(r)!ScoreOf(c, w).risk = [num |-> num(first), den |-> AskedBy(r)]
    BY <1>1, <2>4, <2>5
  <2> QED
    BY <1>6, <2>5, <2>6 DEF c, w, S, num
<1> QED
  BY <1>5, <1>6

\* Whoever else comes to live on the nodes of a workload, its risk does not fall.
LEMMA CrowdingNeverHelps ==
  ASSUME NEW r \in RefSpace, NEW names, NEW k, NEW few \in [Nodes -> SUBSET RefSpace],
         NEW known \in SUBSET Nodes,
         NEW names2, NEW k2, NEW many \in [Nodes -> SUBSET RefSpace], NEW known2 \in SUBSET Nodes,
         ScoredNodes(known, names) = ScoredNodes(known2, names2),
         \A n \in ScoredNodes(known, names) : few[n] \subseteq many[n]
  PROVE  NoRiskier(r, Formula(r)!ScoreOf(ClusterWith(known, few), WorkloadOn(r, names, k)),
                      Formula(r)!ScoreOf(ClusterWith(known2, many), WorkloadOn(r, names2, k2)))
<1> DEFINE S == ScoredNodes(known, names)
           risk == Formula(r)!ScoreOf(ClusterWith(known, few), WorkloadOn(r, names, k)).risk
           risk2 == Formula(r)!ScoreOf(ClusterWith(known2, many), WorkloadOn(r, names2, k2)).risk
           num(n, who) == WeightOn(r, n) * Shared(n, who, r)
<1>1. ASSUME NEW n \in S
      PROVE  /\ num(n, few) \in Nat /\ num(n, many) \in Nat /\ AskedBy(r) \in Nat \ {0}
             /\ num(n, few) <= num(n, many)
  <2>1. n \in known /\ n \in Nodes /\ Alloc[n] > 0
    BY ScorableRead DEF ScoredNodes
  <2>2. WeightOn(r, n) \in Nat /\ AskedBy(r) \in Nat \ {0}
    BY <2>1, RiskReadForm
  <2>3. /\ Shared(n, few, r) \in Nat /\ Shared(n, many, r) \in Nat
        /\ Shared(n, few, r) <= Shared(n, many, r)
    <3>1. many[n] \ {r} \in SUBSET RefSpace /\ few[n] \ {r} \in SUBSET (many[n] \ {r})
      BY <2>1
    <3> QED
      BY <3>1, LogGrows DEF Shared
  <2>4. num(n, few) \in Nat /\ num(n, many) \in Nat
    BY <2>2, <2>3, MulNat
  <2>5. \A x, a, b \in Nat : a <= b => x * a <= x * b
    OBVIOUS
  <2> QED
    BY <2>2, <2>3, <2>4, <2>5
<1> HIDE DEF S, num
<1>2. CASE S = {}
  <2>1. risk = [num |-> 0, den |-> 1]
    BY <1>2, ScoreReadForm DEF S
  <2>2. ScoredNodes(known2, names2) = {}
    BY <1>2 DEF S
  <2>3. risk2 = [num |-> 0, den |-> 1]
    BY <2>2, ScoreReadForm
  <2> QED
    BY <2>1, <2>3 DEF NoRiskier, Formula!Exceeds
<1>3. CASE S # {}
  <2>1. PICK n \in S : risk = [num |-> num(n, few), den |-> AskedBy(r)]
    BY <1>3, ScoreReadForm DEF S, num
  <2>2. PICK m \in S : /\ risk2 = [num |-> num(m, many), den |-> AskedBy(r)]
                       /\ \A x \in S : num(x, many) <= num(m, many)
    BY <1>3, ScoreReadForm DEF S, num
  <2>3. num(n, few) <= num(m, many) /\ num(n, few) \in Nat /\ num(m, many) \in Nat /\ AskedBy(r) \in Nat \ {0}
    <3>1. num(n, few) \in Nat /\ num(n, many) \in Nat /\ num(m, many) \in Nat /\ AskedBy(r) \in Nat \ {0}
          /\ num(n, few) <= num(n, many) /\ num(n, many) <= num(m, many)
      BY <1>1, <2>2
    <3> QED
      BY <3>1
  <2>4. \A a, b \in Nat, d \in Nat \ {0} : a <= b => ~(a * d > b * d)
    OBVIOUS
  <2>5. ~(num(n, few) * AskedBy(r) > num(m, many) * AskedBy(r))
    BY <2>3, <2>4
  <2> QED
    BY <2>1, <2>2, <2>5 DEF NoRiskier, Formula!Exceeds
<1> QED
  BY <1>2, <1>3

\* Without nodes nothing is scored, which is not riskier than anything.
LEMMA UnscoredIsNoRiskier ==
  ASSUME NEW r \in RefSpace, NEW names, NEW k, NEW few \in [Nodes -> SUBSET RefSpace],
         NEW names2, NEW k2, NEW many \in [Nodes -> SUBSET RefSpace], NEW known2 \in SUBSET Nodes
  PROVE  NoRiskier(r, Formula(r)!ScoreOf(ClusterWith({}, few), WorkloadOn(r, names, k)),
                      Formula(r)!ScoreOf(ClusterWith(known2, many), WorkloadOn(r, names2, k2)))
<1> DEFINE risk == Formula(r)!ScoreOf(ClusterWith({}, few), WorkloadOn(r, names, k)).risk
           risk2 == Formula(r)!ScoreOf(ClusterWith(known2, many), WorkloadOn(r, names2, k2)).risk
<1>1. risk = [num |-> 0, den |-> 1]
  <2>1. {} \in SUBSET Nodes /\ ScoredNodes({}, names) = {}
    BY ScorableRead
  <2> QED
    BY <2>1, ScoreReadForm
<1>2. risk2.num \in Nat /\ risk2.den \in Nat
  <2>1. CASE ScoredNodes(known2, names2) = {}
    BY <2>1, ScoreReadForm
  <2>2. CASE ScoredNodes(known2, names2) # {}
    <3>1. PICK n \in ScoredNodes(known2, names2) :
            risk2 = [num |-> WeightOn(r, n) * Shared(n, many, r), den |-> AskedBy(r)]
      BY <2>2, ScoreReadForm
    <3>2. n \in known2 /\ Alloc[n] > 0
      BY ScorableRead DEF ScoredNodes
    <3>3. WeightOn(r, n) \in Nat /\ Shared(n, many, r) \in Nat /\ AskedBy(r) \in Nat
      BY <3>2, RiskReadForm
    <3> QED
      BY <3>1, <3>3, MulNat
  <2> QED
    BY <2>1, <2>2
<1>3. ~(0 * risk2.den > risk2.num * 1)
  BY <1>2
<1> QED
  BY <1>1, <1>3 DEF NoRiskier, Formula!Exceeds

-----------------------------------------------------------------------------
(* What the scan read, set against what was there.                          *)

LEMMA TrueOwnerType ==
  ASSUME NEW t \in ClusterStates, NEW p \in Pods
  PROVE  TrueOwner(t, p) \in RefSpace /\ TrueOwner(t, p).ns = p.ns
<1> DEFINE c == Controller[p]
<1>1. p \in RefSpace
  BY DEF RefSpace
<1>2. CASE c \in t.objs /\ PassedOver(c)
  <2>1. c.kind # "none" /\ Controller[c].kind # "none" /\ TrueOwner(t, p) = Controller[c]
    BY <1>2 DEF PassedOver, TrueOwner
  <2>2. c \in Objects /\ c.ns = p.ns
    BY <1>1, <2>1, ControllerType
  <2>3. c \in RefSpace
    BY <2>2 DEF RefSpace
  <2>4. Controller[c] \in Objects /\ Controller[c].ns = c.ns
    BY <2>1, <2>3, ControllerType
  <2> QED
    BY <2>1, <2>2, <2>4 DEF RefSpace
<1>3. CASE ~(c \in t.objs /\ PassedOver(c)) /\ c.kind \in {"StatefulSet", "DaemonSet", "Job"}
  <2>1. TrueOwner(t, p) = c /\ c.kind # "none"
    BY <1>3 DEF TrueOwner
  <2> QED
    BY <1>1, <2>1, ControllerType DEF RefSpace
<1>4. CASE ~(c \in t.objs /\ PassedOver(c)) /\ c.kind \notin {"StatefulSet", "DaemonSet", "Job"}
  BY <1>1, <1>4 DEF TrueOwner
<1> QED
  BY <1>2, <1>3, <1>4

\* Only workloads of the scope are reported.
LEMMA WorkloadsInScope ==
  ASSUME TypeOK, SnapshotInv, Done, NEW r \in workloads
  PROVE  r \in RefSpace /\ InNamespace(r, Scope)
<1>1. r \in RefSpace
  BY DEF TypeOK
<1>2. CASE r.kind \in ControllerKinds
  <2>1. r \in OfKind(workloads, r.kind)
    BY DEF OfKind
  <2>2. \E t \in Past : r \in ObjectsOf(t, r.kind, Scope)
    BY <1>2, <2>1 DEF Done, SnapshotInv, WorkloadsInv, ControllersAreOfOneState, ControllerKinds, FromStatefulSets,
                  FromDaemonSets, FromCronJobs, FromOrphans, FromNamespaces, FromGuardrails, FromMetrics
  <2> QED
    BY <1>1, <2>2 DEF ObjectsOf
<1>3. CASE r.kind \notin ControllerKinds
  <2>1. r \in {o \in workloads : o.kind \notin ControllerKinds}
    BY <1>3
  <2>2. r \in {o \in Orphans : InNamespace(o, Scope)}
    BY <2>1 DEF Done, SnapshotInv, WorkloadsInv, FromNamespaces, FromGuardrails, FromMetrics
  <2> QED
    BY <1>1, <2>2
<1> QED
  BY <1>2, <1>3

LEMMA DoneStages ==
  ASSUME Done
  PROVE  pc # "nodes" /\ pc \in FromReplicaSets /\ pc \in FromDeployments
BY DEF Done, FromReplicaSets, FromJobs, FromAttribute, FromDeployments, FromStatefulSets, FromDaemonSets,
       FromCronJobs, FromOrphans, FromNamespaces, FromGuardrails, FromMetrics

\* With the owners readable, a workload whose pods stood still is read on the
\* nodes those pods were on when the pods were read, and from those pods.
LEMMA NodesReadTruly ==
  ASSUME TypeOK, SnapshotInv, Done, {"replicasets", "jobs"} \cap warnings = {},
         NEW r \in workloads, NEW t \in Past, listed = ListedPods(t, OwnerNamespace),
         \A u \in Past : TruePods(u, r) = MayBePutDownTo(r)
  PROVE  /\ {p \in DOMAIN podRef : podRef[p] = r} = TruePods(t, r)
         /\ NodesOf(r) = TrueShape(t, r).nodes
<1>1. pc \in FromDeployments /\ r \in RefSpace /\ InNamespace(r, Scope)
  BY DoneStages, WorkloadsInScope
<1>2. podRef = [p \in DOMAIN listed |-> ResolveOwner(p)]
  BY <1>1 DEF SnapshotInv, TenancyFollows
<1>3. /\ DOMAIN listed = {q \in Pods : InNamespace(q, OwnerNamespace) /\ Alive(t, q)}
      /\ \A p \in DOMAIN listed : listed[p] = t.pods[p].node
  BY DEF ListedPods
<1>4. \A p \in DOMAIN listed : \E u \in Past : ResolveOwner(p) = TrueOwner(u, p)
  BY <1>1, ResolvedTruly DEF OwnerReadable
<1>5. ASSUME NEW p \in DOMAIN podRef, podRef[p] = r
      PROVE  p \in TruePods(t, r)
  <2>1. p \in DOMAIN listed /\ p \in Pods /\ Alive(t, p) /\ ResolveOwner(p) = r
    BY <1>2, <1>3, <1>5
  <2>2. p \in MayBePutDownTo(r)
    BY <1>4, <2>1 DEF MayBePutDownTo
  <2> QED
    BY <2>2
<1>6. ASSUME NEW p \in TruePods(t, r)
      PROVE  p \in DOMAIN podRef /\ podRef[p] = r
  <2>1. p \in Pods /\ Alive(t, p) /\ TrueOwner(t, p) = r
    BY DEF TruePods
  <2>2. InNamespace(p, OwnerNamespace)
    <3>1. p.ns = r.ns
      BY <2>1, NowType, TrueOwnerType
    <3> QED
      BY <1>1, <3>1 DEF InNamespace, OwnerNamespace
  <2>3. p \in DOMAIN listed
    BY <1>3, <2>1, <2>2
  <2>4. \A u \in Past : TrueOwner(u, p) = r
    BY DEF TruePods
  <2> QED
    BY <1>2, <1>4, <2>3, <2>4
<1>7. {q \in DOMAIN podRef : podRef[q] = r} = TruePods(t, r)
  BY <1>5, <1>6 DEF TruePods
<1>8. \A p \in TruePods(t, r) : listed[p] = t.pods[p].node
  BY <1>2, <1>3, <1>6
<1> QED
  BY <1>7, <1>8 DEF NodesOf, TrueShape, WorkloadOn

\* Every tenant the scan counted was, in one state, on the node and, in one
\* state, owned the pod that put it there.
LEMMA TenantsPassed ==
  ASSUME TypeOK, SnapshotInv, Done, {"replicasets", "jobs"} \cap warnings = {}, NEW n \in Nodes
  PROVE  tenants[n] \subseteq PassingTenants(n)
<1> SUFFICES ASSUME NEW o \in tenants[n] PROVE o \in PassingTenants(n)
  OBVIOUS
<1>1. pc \in FromDeployments /\ pc \in FromReplicaSets
  BY DoneStages
<1>2. PICK p \in DOMAIN listed : listed[p] = n /\ o = ResolveOwner(p)
  BY <1>1 DEF SnapshotInv, TenancyFollows, TenantsOn
<1>3. PICK t \in Past : listed = ListedPods(t, OwnerNamespace)
  BY <1>1 DEF SnapshotInv, PodsAreOfOneState
<1>4. p \in Pods /\ AliveOn(t, p, n)
  BY <1>2, <1>3 DEF ListedPods, AliveOn
<1>5. PICK u \in Past : ResolveOwner(p) = TrueOwner(u, p)
  BY <1>1, <1>2, ResolvedTruly DEF OwnerReadable
<1> QED
  BY <1>2, <1>4, <1>5 DEF PassingTenants

\* Who was on a listed node all along, and always owned, is counted there.
LEMMA LastingCounted ==
  ASSUME TypeOK, SnapshotInv, Done, {"replicasets", "jobs"} \cap warnings = {}, Clusterwide, NEW n \in nodes
  PROVE  LastingTenants(n) \subseteq tenants[n]
<1> SUFFICES ASSUME NEW p \in Pods, \A t \in Past : AliveOn(t, p, n) /\ TrueOwner(t, p) = TrueOwner(Now, p)
             PROVE  TrueOwner(Now, p) \in tenants[n]
  BY DEF LastingTenants
<1>1. pc \in FromDeployments /\ pc \in FromReplicaSets
  BY DoneStages
<1>2. PICK t \in Past : listed = ListedPods(t, OwnerNamespace)
  BY <1>1 DEF SnapshotInv, PodsAreOfOneState
<1>3. p \in DOMAIN listed /\ listed[p] = n
  BY <1>2 DEF ListedPods, AliveOn, OwnerNamespace, InNamespace
<1>4. PICK u \in Past : ResolveOwner(p) = TrueOwner(u, p)
  BY <1>1, <1>3, ResolvedTruly DEF OwnerReadable
<1>5. n \in Nodes
  BY DEF TypeOK
<1> QED
  BY <1>1, <1>3, <1>4, <1>5 DEF SnapshotInv, TenancyFollows, TenantsOn

LEMMA TenanciesTyped ==
  ASSUME TypeOK
  PROVE  /\ tenants \in [Nodes -> SUBSET RefSpace]
         /\ [n \in Nodes |-> LastingTenants(n)] \in [Nodes -> SUBSET RefSpace]
         /\ [n \in Nodes |-> PassingTenants(n)] \in [Nodes -> SUBSET RefSpace]
         /\ [n \in Nodes |-> TrueTenants(Now, n)] \in [Nodes -> SUBSET RefSpace]
<1>1. \A t \in Past, p \in Pods : TrueOwner(t, p) \in RefSpace
  BY NowType, TrueOwnerType
<1>2. Now \in Past
  BY NowType
<1>3. ASSUME NEW n \in Nodes
      PROVE  /\ LastingTenants(n) \subseteq RefSpace /\ PassingTenants(n) \subseteq RefSpace
             /\ TrueTenants(Now, n) \subseteq RefSpace
  <2>1. LastingTenants(n) \subseteq RefSpace
    BY <1>1, <1>2 DEF LastingTenants
  <2>2. PassingTenants(n) \subseteq RefSpace
    BY <1>1 DEF PassingTenants
  <2>3. TrueTenants(Now, n) \subseteq RefSpace
    BY <1>1, <1>2 DEF TrueTenants
  <2> QED
    BY <2>1, <2>2, <2>3
<1>4. tenants \in [Nodes -> SUBSET RefSpace]
  BY DEF TypeOK
<1> QED
  BY <1>3, <1>4

\* Whatever reads are denied, and whatever the cluster, a reported blast radius
\* is never above the true one when the owners of pods could be read: a denial
\* hides neighbors and nodes, it never makes them up.
THEOREM DenialsOnlyUnderstate == Spec => []DenialOnlyUnderstates
<1>1. ASSUME TypeOK, SnapshotInv PROVE DenialOnlyUnderstates
  <2> USE <1>1
  <2> SUFFICES ASSUME Done, Len(history) = 1, {"replicasets", "jobs"} \cap warnings = {}, NEW r \in workloads
               PROVE  NoRiskier(r, ScoreRead(r), TrueScore(Now, r))
    BY DEF DenialOnlyUnderstates
  <2> DEFINE there == [n \in Nodes |-> TrueTenants(Now, n)]
  <2>1. Past = {Now} /\ Now \in ClusterStates
    BY NowType DEF Past, Now
  <2>2. r \in RefSpace /\ Now.nodes \in SUBSET Nodes
    BY <2>1, WorkloadsInScope DEF ClusterStates
  <2>3. tenants \in [Nodes -> SUBSET RefSpace] /\ there \in [Nodes -> SUBSET RefSpace]
    BY TenanciesTyped
  <2>4. listed = ListedPods(Now, OwnerNamespace)
    BY <2>1, DoneStages DEF SnapshotInv, PodsAreOfOneState
  <2>5. TruePods(Now, r) = MayBePutDownTo(r)
    BY <2>1 DEF TruePods, MayBePutDownTo
  <2>6. NodesOf(r) = TrueShape(Now, r).nodes
    BY <2>1, <2>4, <2>5, NodesReadTruly
  <2>7. CASE nodes = {}
    <3> HIDE DEF there
    <3> QED
      BY <2>2, <2>3, <2>7, UnscoredIsNoRiskier DEF ScoreRead, TrueScore, TrueShape, there
  <2>8. CASE nodes = Now.nodes
    <3>1. ASSUME NEW n \in Now.nodes PROVE tenants[n] \subseteq there[n]
      <4>1. n \in Nodes /\ tenants[n] \subseteq PassingTenants(n)
        BY <2>2, TenantsPassed
      <4>2. there[n] = {TrueOwner(Now, p) : p \in {q \in Pods : AliveOn(Now, q, n)}}
        BY <4>1 DEF TrueTenants
      <4> QED
        BY <2>1, <4>1, <4>2 DEF PassingTenants
    <3>2. ScoredNodes(Now.nodes, NodesOf(r)) \subseteq Now.nodes
      BY <2>2, ScorableRead
    <3> DEFINE names == TrueShape(Now, r).nodes
               count == Cardinality(TruePods(Now, r))
    <3>3. TrueShape(Now, r) = WorkloadOn(r, names, count)
      BY DEF TrueShape, WorkloadOn
    <3> HIDE DEF there, names, count
    <3>4. NoRiskier(r, Formula(r)!ScoreOf(ClusterWith(nodes, tenants), WorkloadOn(r, NodesOf(r), RunningPods(r))),
                       Formula(r)!ScoreOf(ClusterWith(Now.nodes, there), WorkloadOn(r, names, count)))
      BY <2>2, <2>3, <2>6, <2>8, <3>1, <3>2, CrowdingNeverHelps DEF names
    <3> QED
      BY <3>3, <3>4 DEF ScoreRead, TrueScore, there
  <2>9. nodes = {} \/ nodes = Now.nodes
    BY <2>1, DoneStages DEF SnapshotInv, NodesAreOfOneState
  <2> QED
    BY <2>7, <2>8, <2>9
<1> QED
  BY <1>1, ReadsAreSnapshots, PTL

\* The score of a workload that stood still is bounded by what its lasting
\* neighbors alone, and what all that passed by, would have made of it.
THEOREM ScoresAreBracketed == Spec => []ScoreIsBracketed
<1>1. ASSUME TypeOK, SnapshotInv PROVE ScoreIsBracketed
  <2> USE <1>1
  <2> SUFFICES ASSUME Done, {"nodes", "replicasets", "jobs"} \cap warnings = {},
                      NEW r \in workloads, StoodStill(r)
               PROVE  /\ Clusterwide => NoRiskier(r, ScoreAmong(r, LastingTenants), ScoreRead(r))
                      /\ NoRiskier(r, ScoreRead(r), ScoreAmong(r, PassingTenants))
    BY DEF ScoreIsBracketed
  <2> DEFINE names == TrueShape(Now, r).nodes
             count == Cardinality(TruePods(Now, r))
             lasting == [n \in Nodes |-> LastingTenants(n)]
             passing == [n \in Nodes |-> PassingTenants(n)]
  <2>1. r \in RefSpace /\ {"replicasets", "jobs"} \cap warnings = {} /\ "nodes" \notin warnings
    BY WorkloadsInScope
  <2>2. /\ tenants \in [Nodes -> SUBSET RefSpace] /\ lasting \in [Nodes -> SUBSET RefSpace]
        /\ passing \in [Nodes -> SUBSET RefSpace]
    BY TenanciesTyped
  <2>3. PICK t \in Past : listed = ListedPods(t, OwnerNamespace)
    BY DoneStages DEF SnapshotInv, PodsAreOfOneState
  <2>4. NodesOf(r) = names
    <3>1. \A u \in Past : TruePods(u, r) = MayBePutDownTo(r) /\ TrueShape(u, r) = TrueShape(Now, r)
      BY DEF StoodStill
    <3>2. NodesOf(r) = TrueShape(t, r).nodes
      BY <2>1, <2>3, <3>1, NodesReadTruly
    <3> QED
      BY <3>1, <3>2
  <2>5. PICK u \in Past : nodes = u.nodes
    BY <2>1, DoneStages DEF SnapshotInv, NodesAreOfOneState
  <2>6. nodes \in SUBSET Nodes /\ names \in SUBSET nodes /\ names \in SUBSET Nodes /\ names # {}
    BY <2>5, NowType DEF StoodStill, ClusterStates
  <2>7. TrueShape(Now, r) = WorkloadOn(r, names, count)
    BY DEF TrueShape, WorkloadOn
  <2> HIDE DEF names, count
  <2>8. ScoredNodes(names, names) = ScoredNodes(nodes, names) /\ ScoredNodes(nodes, names) \subseteq nodes
    <3>1. names \cap nodes = names /\ names \cap names = names
      BY <2>6
    <3> QED
      BY <2>6, <3>1 DEF ScoredNodes, CandidatesIn
  <2>9. \A n \in nodes : tenants[n] \subseteq passing[n] /\ (Clusterwide => lasting[n] \subseteq tenants[n])
    BY <2>1, <2>6, TenantsPassed, LastingCounted
  <2> HIDE DEF lasting, passing
  <2>10. ScoreRead(r) = Formula(r)!ScoreOf(ClusterWith(nodes, tenants), WorkloadOn(r, names, RunningPods(r)))
    BY <2>4 DEF ScoreRead
  <2>11. /\ ScoreAmong(r, LastingTenants) = Formula(r)!ScoreOf(ClusterWith(names, lasting), WorkloadOn(r, names, count))
         /\ ScoreAmong(r, PassingTenants) = Formula(r)!ScoreOf(ClusterWith(names, passing), WorkloadOn(r, names, count))
    BY <2>7 DEF ScoreAmong, lasting, passing, names
  <2>12. NoRiskier(r, ScoreRead(r), ScoreAmong(r, PassingTenants))
    BY <2>1, <2>2, <2>6, <2>8, <2>9, <2>10, <2>11, CrowdingNeverHelps
  <2>13. ASSUME Clusterwide PROVE NoRiskier(r, ScoreAmong(r, LastingTenants), ScoreRead(r))
    BY <2>1, <2>2, <2>6, <2>8, <2>9, <2>10, <2>11, <2>13, CrowdingNeverHelps
  <2> QED
    BY <2>12, <2>13
<1> QED
  BY <1>1, ReadsAreSnapshots, PTL

\* A scan of a cluster that stood still and that warns of nothing hands the
\* formula the cluster itself, so that each part of each score is the true one.
THEOREM QuietScoresAreTrue == Spec => []QuietScoreIsTrue
<1>1. ASSUME TypeOK, SnapshotInv, QuietScanIsExact PROVE QuietScoreIsTrue
  <2> USE <1>1
  <2> SUFFICES ASSUME Done, Len(history) = 1, warnings = {}, NEW r \in workloads
               PROVE  ScoreRead(r) = TrueScore(Now, r)
    BY DEF QuietScoreIsTrue
  <2>1. nodes = Now.nodes /\ \A n \in Nodes : tenants[n] = TrueTenants(Now, n)
    BY DEF QuietScanIsExact
  <2>2. tenants = [n \in Nodes |-> TrueTenants(Now, n)]
    BY <2>1 DEF TypeOK
  <2>3. Past = {Now}
    BY NowType DEF Past, Now
  <2>4. listed = ListedPods(Now, OwnerNamespace)
    BY <2>3, DoneStages DEF SnapshotInv, PodsAreOfOneState
  <2>5. TruePods(Now, r) = MayBePutDownTo(r)
    BY <2>3 DEF TruePods, MayBePutDownTo
  <2>6. /\ {p \in DOMAIN podRef : podRef[p] = r} = TruePods(Now, r)
        /\ NodesOf(r) = TrueShape(Now, r).nodes
    BY <2>3, <2>4, <2>5, NodesReadTruly
  <2>7. WorkloadOn(r, NodesOf(r), RunningPods(r)) = TrueShape(Now, r)
    BY <2>6 DEF RunningPods, TrueShape, WorkloadOn
  <2> QED
    BY <2>1, <2>2, <2>7 DEF ScoreRead, TrueScore
<1> QED
  BY <1>1, ReadsAreSnapshots, QuietIsExact, PTL
=============================================================================
