------------------------------ MODULE MCManifest ------------------------------
(***************************************************************************)
(* A pod of two containers, the second of which may be a sidecar or an     *)
(* init container, alone on a node or beside a neighbor, or on two nodes.  *)
(***************************************************************************)
EXTENDS Manifest, TLC

CONSTANTS app, helper, self, x

MCContainers == {app, helper}
MCRoles == {app :> "container" @@ helper :> kind : kind \in {"sidecar", "init"}}
MCNodes == 1 .. 2
\* Twenty bytes make a Ki, so that a quarter of a Ki is a whole number of bytes.
MCUnitSizes == {1, 20}
MCRefs == {self, x}
MCLog2 == <<10, 16>> @@ (0 :> 0)
\* A node that is roomy or smaller than the request floor, and one of no memory.
MCCluster(alloc, on1, on2) ==
  [known |-> MCNodes, alloc |-> alloc, spot |-> <<FALSE, FALSE>>, tenants |-> <<on1, on2>>]
MCClusters == {MCCluster(<<20, 0>>, {self}, {}), MCCluster(<<20, 0>>, {self, x}, {}),
               MCCluster(<<2, 0>>, {self, x}, {self, x})}
=============================================================================
