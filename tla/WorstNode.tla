------------------------------ MODULE WorstNode ------------------------------
(***************************************************************************)
(* What scoring promises, without the loop: a verdict names one scorable   *)
(* node on which the blast radius is the greatest, or says that there is   *)
(* none.  The workload's request may then change, and the question is      *)
(* asked again.                                                            *)
(***************************************************************************)
EXTENDS RiskFormula

VARIABLES cluster, w, verdict

avars == <<cluster, w, verdict>>

Undecided == -1

Init == 
  /\ cluster \in Clusters 
  /\ w \in Workloads 
  /\ verdict = Undecided

Decide ==
  /\ verdict = Undecided
  /\ IF Scorable(cluster, w) = {}
     THEN verdict' = NoNode
     ELSE verdict' \in WorstNodes(cluster, w)
  /\ UNCHANGED <<cluster, w>>

Reconsider ==
  /\ verdict # Undecided
  /\ w' \in Workloads
  /\ w' = [w EXCEPT !.request = w'.request]
  /\ verdict' = Undecided
  /\ UNCHANGED cluster

Next == Decide \/ Reconsider

Spec == Init /\ [][Next]_avars
=============================================================================
