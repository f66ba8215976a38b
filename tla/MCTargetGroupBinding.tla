------------------------ MODULE MCTargetGroupBinding ------------------------
(* Instances of TargetGroupBinding for TLC.  A run is about one target type, *)
(* or about both: then a behaviour has either the pods and the node of the   *)
(* constants as IP targets, or two nodes as instance targets.                *)
EXTENDS TargetGroupBinding

CONSTANTS p1, p2, a1, a2, n1, n2

MCNodeOf == [p \in Pod |-> n1]

Instances == INSTANCE TargetGroupBinding WITH
  TargetType <- "instance", Pod <- {}, Addr <- {}, Node <- {n1, n2}, NodeOf <- [p \in {} |-> n1],
  SvcStates <- {"ok", "noport", "gone"}, NodeStates <- {"true", "unknown", "false"},
  MaxEvents <- 4

IsInstance == DOMAIN node = {n1, n2}

BothInit == Init \/ Instances!Init
BothNext == (IsInstance /\ Instances!Next) \/ (~IsInstance /\ Next)
BothSpec == BothInit /\ [][BothNext]_vars

\* When the work queue has nothing left for a binding, every pod or node that a
\* new reconcile would resolve is registered, gated pods have been let through,
\* and nothing else is registered (TargetGroupBinding!Converged).
BothConverged == IF IsInstance THEN Instances!Converged ELSE Converged

=============================================================================
