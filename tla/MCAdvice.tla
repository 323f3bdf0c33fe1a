------------------------------- MODULE MCAdvice -------------------------------
(***************************************************************************)
(* Workloads for Advice: one or two occupied nodes, with and without a     *)
(* neighbor, and requests on both sides of every threshold.                *)
(***************************************************************************)
EXTENDS Advice, TLC

CONSTANTS Requests, Limits, self, x, y

MCNodes == {1, 2}
MCRefs == {self, x, y}
MCLog2 == <<10, 16, 20>> @@ (0 :> 0)
Fraction(n, d) == [num |-> n, den |-> d]
MCDivergence == Fraction(2, 1)
MCHeadroom == Fraction(5, 4)
MCWideHeadroom == Fraction(3, 1)
MCIdleRatio == Fraction(6, 1)
MCTolerance == Fraction(1, 20)

\* Node 1 may be spot and hold one neighbor, node 2 is on demand and may hold two.
MCClusters ==
  {c \in [known : {{}, MCNodes}, alloc : {<<44, 48>>, <<48, 0>>, <<160, 130>>}, spot : [MCNodes -> BOOLEAN],
          tenants : [MCNodes -> {{self}, {self, x}, {self, x, y}}]] :
     (c.known = {} => c.alloc = <<48, 0>>) /\ ~c.spot[2] /\ c.tenants[1] # {self, x, y} /\ c.tenants[2] # {self, x}}

MCWorkloads == [c \in MCClusters |->
  {v \in [request : Requests, limit : Limits \cup {Unbounded}, nodes : {MCNodes}, pods : {2}] :
     /\ v.limit # Unbounded => v.request <= v.limit
     /\ \A n \in MCNodes : c.alloc[n] > 0 => v.request <= c.alloc[n]}]
\* Eleven Mi make a Gi, so that a tenth of a Gi is coarser than a Mi.
MCUnitSizes == {1, 4, 44}
MCCpus == {[request |-> 50, usage |-> 11], [request |-> 5, usage |-> 2]}
=============================================================================
