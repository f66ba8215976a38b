--------------------------- MODULE MCTGBLiveness ---------------------------
(* TargetGroupBinding under fairness, in two circumstances.  At first hand:   *)
(* caches are fresh, nothing is lost, and the requeues of the controller have *)
(* to do.  Late: the pod cache lags, an answer of AWS is lost, ports and      *)
(* nodes come and go unnoticed, and the resync period elapses as well.        *)
EXTENDS MCTargetGroupBinding

VARIABLE late

Fresh == INSTANCE TargetGroupBinding WITH
  SvcStates <- {"ok", "gone"}, NodeStates <- {"true"}, PodCacheLag <- FALSE,
  MaxEvents <- 6, MaxFaults <- 1, MaxLost <- 0

Late == INSTANCE TargetGroupBinding WITH
  SvcStates <- {"ok", "noport"}, NodeStates <- {"true", "unknown"}, PodCacheLag <- TRUE,
  MaxEvents <- 4, MaxFaults <- 0, MaxLost <- 1

all == <<vars, late>>

\* A step of the kind A in the circumstances at hand.
Either(A, B) == late' = late /\ ((~late /\ A) \/ (late /\ B))

LiveInit == (late = FALSE /\ Fresh!Init) \/ (late = TRUE /\ Late!Init)

\* The fairness of FairSpec, and late that of ResyncSpec.
LiveSpec ==
  /\ LiveInit /\ [][Either(Fresh!Next, Late!Next)]_all
  /\ WF_all(Either(Fresh!Start, Late!Start))
  /\ WF_all(Either(Fresh!Proceed, Late!Proceed))
  /\ \A p \in Pod : WF_all(Either(Fresh!SyncPodInfo(p), Late!SyncPodInfo(p)))
  /\ \A t \in Target : WF_all(Either(Fresh!HealthCheckPasses(t), Late!HealthCheckPasses(t)))
  /\ WF_all(Either(FALSE, Late!Resync)) /\ WF_all(Either(FALSE, Late!ExpireTargets))

=============================================================================
