------------------------------ MODULE MCCollect ------------------------------
(***************************************************************************)
(* Two namespaces and two nodes.  Namespace 1 has a deployment, through a  *)
(* replicaset, and a statefulset; namespace 2 a cronjob, through a job, a  *)
(* standalone pod and a pod of a replicaset nothing owns.                  *)
(***************************************************************************)
EXTENDS ScoredScan, TLC

CONSTANTS StartSet, MutableSet

n1 == 1
n2 == 2

Obj(kind, ns, name) == [kind |-> kind, ns |-> ns, name |-> name]

dep == Obj("Deployment", 1, "web")
rs == Obj("ReplicaSet", 1, "web-1")
old == Obj("ReplicaSet", 1, "web-0")
sts == Obj("StatefulSet", 1, "db")
cron == Obj("CronJob", 2, "nightly")
job == Obj("Job", 2, "nightly-1")
loose == Obj("ReplicaSet", 2, "loose")
ns1 == Obj("Namespace", 1, "one")
ns2 == Obj("Namespace", 2, "two")
lr1 == Obj("LimitRange", 1, "lr")
rq1 == Obj("ResourceQuota", 1, "rq")
lr2 == Obj("LimitRange", 2, "lr")
rq2 == Obj("ResourceQuota", 2, "rq")
ds == Obj("DaemonSet", 2, "agent")

web1 == Obj("Pod", 1, "web-1-a")
web2 == Obj("Pod", 1, "web-0-a")
db0 == Obj("Pod", 1, "db-0")
nightly == Obj("Pod", 2, "nightly-1-a")
bare == Obj("Pod", 2, "bare")
stray == Obj("Pod", 2, "loose-a")

MCPods == {web1, web2, db0, nightly, bare, stray}
MCObjects == {dep, rs, old, sts, cron, job, loose, ns1, ns2, lr1, rq1, lr2, rq2, ds}
MCNodes == {n1, n2}

MCController ==
  [o \in MCPods \cup MCObjects |->
     CASE o = web1 -> rs
       [] o = web2 -> old
       [] o \in {rs, old} -> dep
       [] o = db0 -> sts
       [] o = nightly -> job
       [] o = job -> cron
       [] o = stray -> loose
       [] OTHER -> NoController]

\* Node 2 is the larger one, and spot.  The deployment is unbounded, the statefulset
\* is bounded below both nodes, the cronjob declares nothing.
MCAlloc == <<6, 8>>
MCSpot == <<FALSE, TRUE>>
MCRequest == [o \in MCPods \cup MCObjects |-> IF o.kind \in {"CronJob", "Job"} \/ o = nightly THEN 0 ELSE 2]
MCLimit == [o \in MCPods \cup MCObjects |-> IF o \in {sts, db0} THEN 4 ELSE Unbounded]
MCLog2 == [k \in 0 .. Cardinality(MCPods \cup MCObjects) |->
             IF k <= 7 THEN <<0, 10, 16, 20, 23, 26, 28, 30>>[k + 1] ELSE 23 + k]

MCMemOf == [p \in MCPods |-> IF p \in {web1, nightly} THEN 2 ELSE 1]

On(n) == [phase |-> "Running", node |-> n]
Absent == [phase |-> "absent", node |-> Nowhere]
Pending == [phase |-> "Pending", node |-> Nowhere]
Finished(n) == [phase |-> "Terminal", node |-> n]

Everything == MCObjects \ {lr1, rq1, lr2, rq2}

\* Tenancies: everywhere the owner chains are whole or cut below the deployment.
TenancyStarts ==
  {[nodes |-> N, objs |-> Everything \ cut,
    pods |-> (web1 :> a @@ web2 :> b @@ db0 :> On(n2) @@ nightly :> c @@ bare :> On(n1) @@ stray :> d)] :
     N \in {{n1}, {n1, n2}}, cut \in {{}, {rs}, {job}},
     a \in {On(n1), On(n2)}, b \in {On(n1), Pending, Finished(n1)},
     c \in {On(n1), Finished(n1)}, d \in {On(n1), Absent}}

\* Guardrails: any of the four may be missing, and namespace 2 may be empty.
GuardrailStarts ==
  {[nodes |-> {n1}, objs |-> (Everything \ cut) \cup g,
    pods |-> (web1 :> On(n1) @@ web2 :> On(n1) @@ db0 :> Pending @@ nightly :> c @@ bare :> Absent @@ stray :> Absent)] :
     g \in SUBSET {lr1, rq1, lr2, rq2}, cut \in {{}, {cron, job, loose, ds}}, c \in {Absent, On(n1)}}

\* One cluster to change while it is read.
RaceStarts ==
  {[nodes |-> {n1}, objs |-> Everything \cup {rq1},
    pods |-> (web1 :> On(n1) @@ web2 :> On(n1) @@ db0 :> Pending @@ nightly :> On(n1) @@ bare :> Absent @@ stray :> Absent)],
   [nodes |-> {n1, n2}, objs |-> Everything \ {old},
    pods |-> (web1 :> On(n1) @@ web2 :> On(n2) @@ db0 :> On(n2) @@ nightly :> Absent @@ bare :> On(n1) @@ stray :> Absent)]}

MCStarts ==
  CASE StartSet = "tenancy" -> TenancyStarts
    [] StartSet = "guardrails" -> GuardrailStarts
    [] StartSet = "race" -> RaceStarts

MCMutable ==
  CASE MutableSet = "none" -> {}
    [] MutableSet = "all" -> {rs, old, job, sts, lr1, rq1, web2, db0, nightly, bare}
MCMutableNodes == IF MutableSet = "all" THEN {n2} ELSE {}
=============================================================================
