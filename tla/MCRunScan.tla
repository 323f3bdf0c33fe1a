------------------------------ MODULE MCRunScan ------------------------------
(***************************************************************************)
(* Three workloads, one of them the provider's, on one or two nodes.       *)
(***************************************************************************)
EXTENDS RunScan

Ref(ns, kind, name) == [ns |-> ns, kind |-> kind, name |-> name]
api == Ref(1, 1, 2)
db == Ref(1, 2, 1)
dns == Ref(2, 1, 1)
MCRefs == {api, db, dns}
MCNodes == {1, 2}

\* Namespace 2 is kube-system; namespace 3 is empty.  api and dns share the first
\* node; db runs beside them, on the second node, or not at all.  An uncapped
\* workload has no limit.
Cluster(place, alloc, limit, shapes, ungoverned, readable) ==
  [on |-> [r \in MCRefs |-> IF r = db THEN place ELSE 1],
   limit |-> [r \in MCRefs |-> IF shapes[r] = "uncapped" THEN 0 ELSE IF r = db THEN limit ELSE 2],
   alloc |-> alloc, shape |-> shapes, ungoverned |-> ungoverned, nodesReadable |-> readable]

Shaped(first, second) ==
  [r \in MCRefs |-> IF r = dns THEN "uncapped" ELSE IF r = api THEN first ELSE second]

\* Beside the others, alone, alone on a node that reports no memory; without pods
\* and forecast on the crowded one of two equals, or on an empty larger node.
Placements == {<<1, <<4, 4>>>>, <<2, <<4, 4>>>>, <<2, <<4, 0>>>>, <<Nowhere, <<4, 4>>>>,
               <<Nowhere, <<4, 6>>>>}

MCClusters ==
  {Cluster(p[1], p[2], 3, Shaped("clean", shape), u, TRUE) :
     p \in Placements, shape \in {"clean", "uncapped", "wasteful"}, u \in {{}, {1, 3}}}
  \cup
  {Cluster(place, <<4, 4>>, 2, Shaped("clean", "clean"), {}, TRUE) : place \in {1, Nowhere}}
  \cup
  {Cluster(place, <<4, 4>>, 3, Shaped("wasteful", "wasteful"), {2, 3}, readable) :
     place \in {1, Nowhere}, readable \in BOOLEAN}
  \cup
  {Cluster(place, <<0, IF place = 1 THEN 4 ELSE 0>>, 3, Shaped("wasteful", "clean"), {}, TRUE) :
     place \in {1, Nowhere}}

\* The scopes that can be asked for, the ways to show the result, the gates.
MCFlags ==
  {f \in [bad : {FALSE}, allNS : BOOLEAN, namespace : {NoNamespace, 2},
          includeSystem : BOOLEAN, json : BOOLEAN, top : {-1, 0, 2},
          riskThreshold : {0, 5}, failOn : {"none", "warn"}] :
     /\ f.allNS /\ f.namespace = 2 => f.json
     /\ f.json => f.top = 0
     /\ f.top = -1 => f.allNS /\ f.includeSystem
     /\ f.riskThreshold > 0 <=> f.failOn = "none"}
  \cup
  {[bad |-> TRUE, allNS |-> TRUE, namespace |-> NoNamespace, includeSystem |-> FALSE,
    json |-> FALSE, top |-> 0, riskThreshold |-> 0, failOn |-> "none"]}
=============================================================================
