---------------------------- MODULE MCBlastRadius ----------------------------
(***************************************************************************)
(* Small clusters for BlastRadius: every combination of sizes, capacity    *)
(* types and neighbors on MCNodes, listed or not, and every shape of Self  *)
(* that agrees with the tenancy.                                           *)
(***************************************************************************)
EXTENDS BlastRadius, TLC

CONSTANTS NodeCount, Allocs, Requests, Limits, Listings, self, x, y

MCNodes == 1 .. NodeCount
MCRefs == {self, x, y}
MCLog2 == <<10, 16, 20>> @@ (0 :> 0)
MCListings == IF Listings = "any" THEN SUBSET MCNodes ELSE {MCNodes}

MCClusters ==
  [known : MCListings, alloc : [MCNodes -> Allocs],
   spot : [MCNodes -> BOOLEAN], tenants : [MCNodes -> SUBSET MCRefs]]

\* A listed node has Self among its tenants exactly when Self names it; Self may
\* also name a node that was not listed, and may have Pending pods.
MCWorkloads(c) ==
  {v \in [request : Requests, limit : Limits \cup {Unbounded}, nodes : SUBSET MCNodes, pods : 0 .. NodeCount] :
     /\ \A n \in c.known : self \in c.tenants[n] <=> n \in v.nodes
     /\ IF v.nodes = {} THEN v.pods \in {0, 1} ELSE v.pods = Cardinality(v.nodes)
     /\ v.limit # Unbounded => v.request <= v.limit}

MCClusterInputs ==
  {c \in MCClusters : \A n \in MCNodes \ c.known : c.tenants[n] = {} /\ ~c.spot[n] /\ c.alloc[n] = 0}
MCWorkloadInputs == [c \in MCClusterInputs |-> MCWorkloads(c)]
=============================================================================
