---------------------- MODULE TargetGroupBindingProofs ----------------------
(* Proofs about TargetGroupBinding. *)
EXTENDS TargetGroupBinding, TLAPS

\* The steps are found by Zenon, unless they cite SMT.
USE ZenonT(60)

-----------------------------------------------------------------------------
(* Type correctness. *)

\* What the pod cache keeps of a pod has its type.
LEMMA PodInfoType == ASSUME TypeOK, NEW p \in Pod PROVE PodInfo(p) \in PodInfos
BY SMT DEF TypeOK, PodInfo, PodInfos

\* The listed targets: "nil" and "unused" never show up in them.
LEMMA ListedType ==
  ASSUME TypeOK
  PROVE  ListedTargets \in [Target -> Health \cup {"none"}]
BY DEF TypeOK, ListedTargets, Refreshed, Health

\* Resolved endpoints have their type, whatever the target type is.
LEMMA ResolvedType ==
  ASSUME TypeOK
  PROVE  ResolvedEndpoints \subseteq [target : Target, pod : Pod, info : PodInfos]
                                \cup [target : Target, pod : {NoPod}, info : {NoPod}]
<1>1. CASE TargetType = "ip"
  <2>1. FirstNonEmpty(ReadyPods, UnknownPods) \subseteq Pod
    BY DEF FirstNonEmpty, ReadyPods, UnknownPods
  <2>2. \A p \in Pod : podIP[p] \in Target /\ podInfo[p] \in PodInfos
    BY <1>1 DEF TypeOK, Target
  <2> QED
    BY SMT, <1>1, <2>1, <2>2 DEF ResolvedEndpoints
<1>2. CASE TargetType # "ip"
  <2>1. FirstNonEmpty(NodesIn("true"), NodesIn("unknown")) \subseteq Target
    BY <1>2 DEF FirstNonEmpty, NodesIn, Target
  <2> QED
    BY SMT, <1>2, <2>1 DEF ResolvedEndpoints
<1> QED
  BY <1>1, <1>2

\* The variables of a reconcile that has returned are of their types.
LEMMA ReturnType ==
  ASSUME NEW b \in BOOLEAN, queued \in BOOLEAN, Return(b)
  PROVE  /\ pc' \in Pcs /\ queued' \in BOOLEAN
         /\ endpoints' = {} /\ toDeregister' = {} /\ toRegister' = {} /\ patches' = {}
         /\ again' \in BOOLEAN /\ deletion' \in BOOLEAN
BY DEF Return, Pcs

\* The parts of TypeOK.
K8sTypes ==
  /\ tgb \in {"absent", "live", "deleting"} /\ fin \in BOOLEAN
  /\ svc \in SvcStates /\ node \in [Node -> NodeStates]

PodTypes ==
  /\ pod \in [Pod -> PodStatus] /\ podIP \in [Pod -> Addr] /\ gate \in [Pod -> BOOLEAN]
  /\ cond \in [Pod -> CondStatus] /\ uid \in [Pod -> Nat]
  /\ podInfo \in [Pod -> PodInfos]

AwsTypes ==
  /\ tg \in BOOLEAN /\ health \in [Target -> Health \cup {"unused"}]
  /\ wasHealthy \in [Target -> BOOLEAN]
  /\ targetsCache \in [Target -> Health \cup {"none", "nil"}] \cup {NoEntry}

LocalTypes ==
  /\ queued \in BOOLEAN
  /\ pc \in Pcs
  /\ endpoints \subseteq [target : Target, pod : Pod, info : PodInfos]
                       \cup [target : Target, pod : {NoPod}, info : {NoPod}]
  /\ toDeregister \subseteq Target /\ toRegister \subseteq Target
  /\ patches \subseteq [pod : Pod, info : PodInfos, health : Health]
  /\ again \in BOOLEAN /\ deletion \in BOOLEAN

BoundTypes == events \in 0..MaxEvents /\ faults \in 0..MaxFaults /\ lost \in 0..MaxLost

\* TypeOK is the conjunction of its parts.
LEMMA TypeParts == TypeOK <=> K8sTypes /\ PodTypes /\ AwsTypes /\ LocalTypes /\ BoundTypes
BY DEF TypeOK, K8sTypes, PodTypes, AwsTypes, LocalTypes, BoundTypes

LEMMA TypePartsNext == K8sTypes' /\ PodTypes' /\ AwsTypes' /\ LocalTypes' /\ BoundTypes' => TypeOK'
BY DEF TypeOK, K8sTypes, PodTypes, AwsTypes, LocalTypes, BoundTypes

\* A step counts its event, fault or lost answer within the bound.
LEMMA BoundStep ==
  ASSUME BoundTypes,
         Event \/ UNCHANGED events, Fault \/ UNCHANGED faults, Lost \/ UNCHANGED lost
  PROVE  BoundTypes'
BY SMT, LimitAssumption DEF BoundTypes, Event, Fault, Lost

\* A change to one pod, which the pod cache may or may not follow.
LEMMA PodStep ==
  ASSUME PodTypes, NEW p \in Pod, CacheFollows(p),
         pod' \in [Pod -> PodStatus], podIP' \in [Pod -> Addr], gate' \in [Pod -> BOOLEAN],
         cond' \in [Pod -> CondStatus], uid' \in [Pod -> Nat]
  PROVE  PodTypes'
<1>1. PodInfo(p)' \in PodInfos
  BY SMT DEF PodInfo, PodInfos
<1>2. podInfo' \in [Pod -> PodInfos]
  BY <1>1 DEF CacheFollows, PodTypes
<1> QED
  BY <1>2 DEF PodTypes

\* Every step of the surroundings preserves the types.
LEMMA EnvironmentTypes == ASSUME TypeOK, Environment PROVE TypeOK'
<1> USE TypeParts DEF k8sVars, podVars, awsVars, localVars, boundVars
<1>1. ASSUME NEW p \in Pod, NEW a \in Addr, CreatePod(p, a) PROVE TypeOK'
  <2>1. K8sTypes' /\ AwsTypes'
    BY <1>1 DEF CreatePod, K8sTypes, AwsTypes
  <2>2. LocalTypes'
    BY <1>1 DEF CreatePod, LocalTypes, SliceEvent
  <2>3. pod' \in [Pod -> PodStatus] /\ podIP' \in [Pod -> Addr] /\ gate' \in [Pod -> BOOLEAN]
    BY <1>1 DEF CreatePod, PodTypes, PodStatus
  <2>4. cond' \in [Pod -> CondStatus] /\ uid' \in [Pod -> Nat]
    BY SMT, <1>1 DEF CreatePod, PodTypes, CondStatus
  <2>5. PodTypes'
    BY <1>1, <2>3, <2>4, PodStep DEF CreatePod
  <2>6. BoundTypes'
    BY <1>1, BoundStep DEF CreatePod
  <2> QED
    BY <2>1, <2>2, <2>5, <2>6, TypePartsNext
<1>2. ASSUME NEW p \in Pod, NEW s \in {"starting", "running"}, SetContainersReady(p, s)
      PROVE  TypeOK'
  <2>1. K8sTypes' /\ AwsTypes'
    BY <1>2 DEF SetContainersReady, K8sTypes, AwsTypes
  <2>2. LocalTypes'
    BY <1>2 DEF SetContainersReady, LocalTypes, SliceEvent
  <2>3. pod' \in [Pod -> PodStatus]
    BY <1>2 DEF SetContainersReady, PodTypes, PodStatus
  <2>4. UNCHANGED <<podIP, gate, cond, uid>> /\ CacheFollows(p)
    BY <1>2 DEF SetContainersReady
  <2>5. PodTypes'
    BY <2>3, <2>4, PodStep DEF PodTypes
  <2>6. BoundTypes'
    BY <1>2, BoundStep DEF SetContainersReady
  <2> QED
    BY <2>1, <2>2, <2>5, <2>6, TypePartsNext
<1>3. ASSUME NEW p \in Pod, TerminatePod(p) \/ DeletePod(p) PROVE TypeOK'
  <2>1. K8sTypes' /\ AwsTypes'
    BY <1>3 DEF TerminatePod, DeletePod, K8sTypes, AwsTypes
  <2>2. LocalTypes'
    BY <1>3 DEF TerminatePod, DeletePod, LocalTypes, SliceEvent
  <2>3. pod' \in [Pod -> PodStatus]
    BY <1>3 DEF TerminatePod, DeletePod, PodTypes, PodStatus
  <2>4. UNCHANGED <<podIP, gate, cond, uid>> /\ CacheFollows(p)
    BY <1>3 DEF TerminatePod, DeletePod
  <2>5. PodTypes'
    BY <2>3, <2>4, PodStep DEF PodTypes
  <2>6. BoundTypes'
    BY <1>3, BoundStep DEF TerminatePod, DeletePod
  <2> QED
    BY <2>1, <2>2, <2>5, <2>6, TypePartsNext
<1>4. ASSUME \/ \E n \in Node, s \in NodeStates : SetNode(n, s)
             \/ \E s \in SvcStates : SetService(s)
             \/ CreateTGB \/ DeleteTGB
      PROVE  TypeOK'
  <2>1. K8sTypes'
    BY <1>4 DEF SetNode, SetService, CreateTGB, DeleteTGB, K8sTypes
  <2>2. PodTypes' /\ AwsTypes'
    BY <1>4 DEF SetNode, SetService, CreateTGB, DeleteTGB, PodTypes, AwsTypes
  <2>3. LocalTypes'
    BY <1>4 DEF SetNode, SetService, CreateTGB, DeleteTGB, LocalTypes
  <2>4. BoundTypes'
    BY <1>4, BoundStep DEF SetNode, SetService, CreateTGB, DeleteTGB
  <2> QED
    BY <2>1, <2>2, <2>3, <2>4, TypePartsNext
<1>5. ASSUME DeleteTargetGroup \/ \E t \in Target : HealthCheckFails(t) PROVE TypeOK'
  <2>1. AwsTypes'
    BY <1>5 DEF DeleteTargetGroup, HealthCheckFails, AwsTypes, Health
  <2>2. K8sTypes' /\ PodTypes' /\ LocalTypes'
    BY <1>5 DEF DeleteTargetGroup, HealthCheckFails, K8sTypes, PodTypes, LocalTypes
  <2>3. BoundTypes'
    BY <1>5, BoundStep DEF DeleteTargetGroup, HealthCheckFails
  <2> QED
    BY <2>1, <2>2, <2>3, TypePartsNext
<1> QED
  BY <1>1, <1>2, <1>3, <1>4, <1>5 DEF Environment

\* So does every reconcile that returns early, and every failure.
LEMMA ReturnTypes ==
  ASSUME TypeOK, NEW b \in BOOLEAN, Return(b), UNCHANGED <<svc, node, podVars, podInfo, awsVars>>,
         tgb' \in {"absent", "live", "deleting"}, fin' \in BOOLEAN,
         targetsCache' = targetsCache \/ targetsCache' = NoEntry, BoundTypes'
  PROVE  TypeOK'
<1>1. K8sTypes'
  BY TypeParts DEF K8sTypes
<1>2. PodTypes' /\ AwsTypes'
  BY TypeParts DEF PodTypes, AwsTypes, podVars, awsVars
<1>3. LocalTypes'
  BY TypeParts, ReturnType DEF LocalTypes
<1> QED
  BY <1>1, <1>2, <1>3, TypePartsNext

\* A chunk of a set of targets is a set of targets.
LEMMA ChunkType == ASSUME NEW S, NEW c \in Chunks(S) PROVE c \subseteq S
BY DEF Chunks

\* Calls that register or deregister a chunk, with or without an answer.
LEMMA CallTypes == ASSUME TypeOK, Register \/ Deregister PROVE TypeOK'
<1> USE TypeParts DEF k8sVars, podVars
<1>1. K8sTypes' /\ PodTypes'
  BY DEF Register, Deregister, K8sTypes, PodTypes
<1>2. BoundTypes'
  BY BoundStep DEF Register, Deregister
<1>3. health' \in [Target -> Health \cup {"unused"}] /\ wasHealthy' \in [Target -> BOOLEAN] /\ tg' = tg
  BY DEF Register, Deregister, RegisterInAWS, DeregisterInAWS, AwsTypes, Health
<1>4. targetsCache' \in [Target -> Health \cup {"none", "nil"}] \cup {NoEntry}
  BY DEF Register, Deregister, RecordRegister, RecordDeregister, AwsTypes
<1>5. AwsTypes'
  BY <1>3, <1>4 DEF AwsTypes
<1>6. ASSUME Return(TRUE) PROVE LocalTypes'
  BY <1>6, ReturnType DEF LocalTypes
<1>7. ASSUME ~Return(TRUE) PROVE LocalTypes'
  <2>1. UNCHANGED <<pc, queued, endpoints, patches, again, deletion>>
    BY <1>7 DEF Register, Deregister
  <2>2. toDeregister' \subseteq toDeregister /\ toRegister' \subseteq toRegister
    BY <1>7 DEF Register, Deregister
  <2> QED
    BY <2>1, <2>2 DEF LocalTypes
<1>8. LocalTypes'
  BY <1>6, <1>7
<1> QED
  BY <1>1, <1>2, <1>5, <1>8, TypePartsNext

\* The steps of a reconcile that resolve, list and match.
LEMMA ListTypes == ASSUME TypeOK, Resolve \/ List \/ CleanList \/ CleanNetworking PROVE TypeOK'
<1> USE TypeParts DEF k8sVars, podVars, awsVars, localVars, boundVars
<1>1. K8sTypes' /\ PodTypes' /\ BoundTypes'
  BY DEF Resolve, List, CleanList, CleanNetworking, K8sTypes, PodTypes, BoundTypes
<1>2. AwsTypes'
  BY ListedType DEF Resolve, List, CleanList, CleanNetworking, AwsTypes
<1>3. ASSUME Resolve PROVE LocalTypes'
  BY <1>3, ResolvedType DEF Resolve, LocalTypes, Pcs, PotentialReady
<1>4. ASSUME List PROVE LocalTypes'
  <2>1. NotDraining(ListedTargets) \subseteq Target /\ Wanted \subseteq Target
    BY DEF NotDraining, Wanted, LocalTypes
  <2>2. \A t \in NotDraining(ListedTargets) : ListedTargets[t] \in Health
    BY ListedType DEF NotDraining
  <2>3. \A e \in endpoints : e.info # NoPod => e.pod \in Pod /\ e.info \in PodInfos
    BY DEF LocalTypes
  <2>4. patches' \subseteq [pod : Pod, info : PodInfos, health : Health]
    BY SMT, <1>4, <2>2, <2>3 DEF List, Health
  <2> QED
    BY <1>4, <2>1, <2>4 DEF List, LocalTypes, Pcs
<1>5. ASSUME CleanList PROVE LocalTypes'
  BY <1>5 DEF CleanList, LocalTypes, Pcs
<1>6. ASSUME CleanNetworking PROVE LocalTypes'
  BY SMT, <1>6 DEF CleanNetworking, LocalTypes, Pcs, PodInfos, Health
<1> QED
  BY <1>1, <1>2, <1>3, <1>4, <1>5, <1>6, TypePartsNext

\* Updates of pod conditions.
LEMMA PatchTypes ==
  ASSUME TypeOK, NEW x \in patches, PatchSkipped(x) \/ PatchPod(x) \/ PatchNotFound(x)
  PROVE  TypeOK'
<1> USE TypeParts DEF k8sVars, podVars, awsVars, boundVars
<1>0. PICK b \in BOOLEAN : Patched(x, b)
  BY DEF PatchSkipped, PatchPod, PatchNotFound, NeedsProbe
<1>1. K8sTypes' /\ AwsTypes' /\ BoundTypes'
  BY <1>0 DEF Patched, K8sTypes, AwsTypes, BoundTypes
<1>2. LocalTypes'
  BY <1>0 DEF PatchSkipped, PatchPod, PatchNotFound, Patched, LocalTypes, SliceEvent
<1>3. CASE UNCHANGED <<cond, podInfo>>
  BY <1>0, <1>1, <1>2, <1>3, TypePartsNext DEF Patched, PodTypes
<1>4. CASE PatchPod(x)
  <2>1. x.pod \in Pod
    BY DEF LocalTypes
  <2>2. cond' \in [Pod -> CondStatus]
    BY <1>4, <2>1 DEF PatchPod, PodTypes, StatusFor, CondStatus
  <2>3. UNCHANGED <<pod, podIP, gate, uid>> /\ CacheFollows(x.pod)
    BY <1>4 DEF PatchPod, Patched
  <2>4. PodTypes'
    BY <2>1, <2>2, <2>3, PodStep DEF PodTypes
  <2> QED
    BY <1>1, <1>2, <2>4, TypePartsNext
<1> QED
  BY <1>3, <1>4 DEF PatchSkipped, PatchNotFound

\* Steps of a reconcile that only move on.
MoveOn ==
  \/ Start \/ AddFinalizer \/ BackendNotFound \/ ReconcileNetworking \/ Deregistered
  \/ AllRegistered \/ CleanListNotFound
  \/ DeregisterFails /\ pc # "deregister"
  \/ CleanDone /\ deletion

LEMMA MoveOnTypes == ASSUME TypeOK, MoveOn PROVE TypeOK'
<1> USE TypeParts DEF k8sVars, podVars, awsVars, localVars, boundVars
<1>1. K8sTypes'
  BY DEF MoveOn, Start, AddFinalizer, BackendNotFound, ReconcileNetworking, Deregistered,
         AllRegistered, CleanListNotFound, DeregisterFails, CleanDone, K8sTypes
<1>2. PodTypes' /\ AwsTypes'
  BY DEF MoveOn, Start, AddFinalizer, BackendNotFound, ReconcileNetworking, Deregistered,
         AllRegistered, CleanListNotFound, DeregisterFails, CleanDone, PodTypes, AwsTypes
<1>3. BoundTypes'
  BY BoundStep
     DEF MoveOn, Start, AddFinalizer, BackendNotFound, ReconcileNetworking, Deregistered,
         AllRegistered, CleanListNotFound, DeregisterFails, CleanDone
<1>4. pc' \in Pcs
  BY DEF MoveOn, Start, AddFinalizer, BackendNotFound, ReconcileNetworking, Deregistered,
         AllRegistered, CleanListNotFound, DeregisterFails, CleanDone, Pcs
<1>5. LocalTypes'
  BY <1>4
     DEF MoveOn, Start, AddFinalizer, BackendNotFound, ReconcileNetworking, Deregistered,
         AllRegistered, CleanListNotFound, DeregisterFails, CleanDone, LocalTypes
<1> QED
  BY <1>1, <1>2, <1>3, <1>5, TypePartsNext

\* Reconciles that end, with an error or without one.
End ==
  \/ AddFinalizerRefused \/ ListFails \/ RegisterFails \/ PatchesDone
  \/ \E x \in patches : PatchConflict(x)
  \/ DeregisterFails /\ pc = "deregister"
  \/ CleanDone /\ ~deletion
  \/ RemoveFinalizer

LEMMA EndTypes == ASSUME TypeOK, End PROVE TypeOK'
<1> USE TypeParts
<1>1. \E b \in BOOLEAN : Return(b)
  BY DEF End, AddFinalizerRefused, ListFails, RegisterFails, PatchesDone, PatchConflict,
         DeregisterFails, CleanDone, RemoveFinalizer, LocalTypes
<1>2. UNCHANGED <<svc, node, podVars, podInfo, awsVars, targetsCache, boundVars>>
  BY DEF End, AddFinalizerRefused, ListFails, RegisterFails, PatchesDone, PatchConflict,
         DeregisterFails, CleanDone, RemoveFinalizer, k8sVars
<1>3. tgb' \in {"absent", "live", "deleting"} /\ fin' \in BOOLEAN
  BY DEF End, AddFinalizerRefused, ListFails, RegisterFails, PatchesDone, PatchConflict,
         DeregisterFails, CleanDone, RemoveFinalizer, k8sVars, K8sTypes
<1>4. BoundTypes'
  BY <1>2 DEF BoundTypes, boundVars
<1> QED
  BY <1>1, <1>2, <1>3, <1>4, ReturnTypes

\* The remaining steps of the watches, the load balancer, the clock and failures.
LEMMA BackgroundTypes ==
  ASSUME TypeOK,
         \/ \E p \in Pod : SyncPodInfo(p)
         \/ \E t \in Target : HealthCheckPasses(t) \/ Drained(t)
         \/ ExpireTargets \/ Resync \/ ApiError \/ Crash
  PROVE  TypeOK'
<1> USE TypeParts DEF k8sVars, podVars, awsVars, localVars, boundVars
<1>1. ASSUME NEW p \in Pod, SyncPodInfo(p) PROVE TypeOK'
  <2>1. PodTypes'
    BY <1>1, PodInfoType DEF SyncPodInfo, PodTypes
  <2> QED
    BY <1>1, <2>1, TypePartsNext
    DEF SyncPodInfo, K8sTypes, AwsTypes, LocalTypes, BoundTypes
<1>2. ASSUME NEW t \in Target, HealthCheckPasses(t) \/ Drained(t) PROVE TypeOK'
  <2>1. AwsTypes'
    BY <1>2 DEF HealthCheckPasses, Drained, AwsTypes, Health
  <2> QED
    BY <1>2, <2>1, TypePartsNext
    DEF HealthCheckPasses, Drained, K8sTypes, PodTypes, LocalTypes, BoundTypes
<1>3. ASSUME ExpireTargets \/ Resync PROVE TypeOK'
  BY <1>3, TypePartsNext
  DEF ExpireTargets, Resync, K8sTypes, PodTypes, AwsTypes, LocalTypes, BoundTypes
<1>4. ASSUME ApiError PROVE TypeOK'
  <2>1. BoundTypes'
    BY <1>4, BoundStep DEF ApiError
  <2> QED
    BY <1>4, <2>1, ReturnTypes DEF ApiError, K8sTypes
<1>5. ASSUME Crash PROVE TypeOK'
  <2>1. BoundTypes'
    BY <1>5, BoundStep DEF Crash
  <2>2. PodTypes'
    BY <1>5, PodInfoType DEF Crash, PodTypes
  <2>3. LocalTypes'
    BY <1>5, ReturnType DEF Crash, LocalTypes
  <2>4. K8sTypes' /\ AwsTypes'
    BY <1>5 DEF Crash, K8sTypes, AwsTypes
  <2> QED
    BY <2>1, <2>2, <2>3, <2>4, TypePartsNext
<1> QED
  BY <1>1, <1>2, <1>3, <1>4, <1>5

\* Every step belongs to one of these groups.
LEMMA NextGroups ==
  ASSUME Next
  PROVE  \/ Environment \/ MoveOn \/ End
         \/ \E p \in Pod : SyncPodInfo(p)
         \/ \E t \in Target : HealthCheckPasses(t) \/ Drained(t)
         \/ ExpireTargets \/ Resync \/ ApiError \/ Crash
         \/ Register \/ Deregister
         \/ Resolve \/ List \/ CleanList \/ CleanNetworking
         \/ \E x \in patches : PatchSkipped(x) \/ PatchPod(x) \/ PatchNotFound(x)
BY DEF Next, Proceed, MoveOn, End

\* The controller and its surroundings keep every variable in its type: what is
\* listed, resolved, cached or queued is always a target, a pod or a health state
\* that exists, for any numbers of pods, addresses, nodes and faults.
THEOREM TypeCorrect == Spec => []TypeOK
<1>1. ASSUME Init PROVE TypeOK
  <2>1. K8sTypes /\ AwsTypes
    BY <1>1 DEF Init, K8sTypes, AwsTypes
  <2>2. PodTypes
    BY <1>1 DEF Init, PodTypes, PodStatus, CondStatus, PodInfos
  <2>3. LocalTypes
    BY <1>1 DEF Init, LocalTypes, Pcs
  <2>4. BoundTypes
    BY SMT, <1>1, LimitAssumption DEF Init, BoundTypes
  <2> QED
    BY <2>1, <2>2, <2>3, <2>4, TypeParts
<1>2. ASSUME TypeOK, [Next]_vars PROVE TypeOK'
  <2>1. CASE UNCHANGED vars
    BY <1>2, <2>1 DEF vars, TypeOK, k8sVars, podVars, awsVars, localVars, boundVars
  <2>2. CASE Next
    BY <1>2, <2>2, NextGroups, EnvironmentTypes, MoveOnTypes, EndTypes, BackgroundTypes,
       CallTypes, ListTypes, PatchTypes
  <2> QED
    BY <1>2, <2>1, <2>2
<1> QED
  BY <1>1, <1>2, PTL DEF Spec

-----------------------------------------------------------------------------
(* No target outlives its binding. *)

\* No target is registered.
Cleared == \A t \in Target : ~Registered(t)

\* The targets cache misses no registered target.
Covered == targetsCache # NoEntry => \A t \in Target : Registered(t) => targetsCache[t] # "none"

\* The finalizer is there whenever a target is, and while one may be registered.
Guarded ==
  /\ tgb = "absent" => ~fin
  /\ pc \in {"resolve", "list", "network", "deregister", "register", "patch"} => fin
  /\ ~fin => Cleared

\* What Cleanup has achieved when it gets somewhere.
Cleaning ==
  /\ ~tg => Cleared
  /\ pc = "cleanDeregister" => \A t \in Target : Registered(t) => t \in toDeregister
  /\ pc \in {"cleanNetwork", "cleanPatch", "removeFinalizer"} => Cleared

Outlive == Covered /\ Guarded /\ Cleaning

\* Steps that leave alone everything the invariant is about.
Aside ==
  \/ \E p \in Pod, a \in Addr : CreatePod(p, a)
  \/ \E p \in Pod, s \in {"starting", "running"} : SetContainersReady(p, s)
  \/ \E p \in Pod : TerminatePod(p) \/ DeletePod(p) \/ SyncPodInfo(p)
  \/ \E n \in Node, s \in NodeStates : SetNode(n, s)
  \/ \E s \in SvcStates : SetService(s)
  \/ Resync
  \/ \E x \in patches : PatchSkipped(x) \/ PatchPod(x) \/ PatchNotFound(x)

LEMMA AsideUnchanged ==
  ASSUME Aside PROVE UNCHANGED <<tgb, fin, tg, health, targetsCache, pc, toDeregister>>
<1>1. CASE \E x \in patches : PatchSkipped(x) \/ PatchPod(x) \/ PatchNotFound(x)
  BY <1>1 DEF PatchSkipped, PatchPod, PatchNotFound, Patched, k8sVars, awsVars
<1>2. CASE ~\E x \in patches : PatchSkipped(x) \/ PatchPod(x) \/ PatchNotFound(x)
  BY <1>2 DEF Aside, CreatePod, SetContainersReady, TerminatePod, DeletePod, SyncPodInfo,
              SetNode, SetService, Resync, k8sVars, awsVars, localVars
<1> QED
  BY <1>1, <1>2

\* The invariant reads nothing else.
LEMMA OutliveUnchanged ==
  ASSUME Outlive, UNCHANGED <<tgb, fin, tg, health, targetsCache, pc, toDeregister>>
  PROVE  Outlive'
BY DEF Outlive, Covered, Guarded, Cleaning, Cleared, Registered

\* The load balancer's own steps register nothing.
LEMMA HealthOutlive ==
  ASSUME TypeOK, Outlive,
         \/ DeleteTargetGroup
         \/ \E t \in Target : HealthCheckFails(t) \/ HealthCheckPasses(t) \/ Drained(t)
  PROVE  Outlive'
<1>1. UNCHANGED <<tgb, fin, targetsCache, pc, toDeregister>>
  BY DEF DeleteTargetGroup, HealthCheckFails, HealthCheckPasses, Drained, k8sVars, localVars
<1>2. \A t \in Target : Registered(t)' => Registered(t)
  BY DEF TypeOK, DeleteTargetGroup, HealthCheckFails, HealthCheckPasses, Drained, Registered
<1>3. tg' = tg \/ Cleared'
  BY DEF DeleteTargetGroup, HealthCheckFails, HealthCheckPasses, Drained, Cleared, Registered
<1> QED
  BY <1>1, <1>2, <1>3 DEF Outlive, Covered, Guarded, Cleaning, Cleared

\* Users create and delete the binding.
LEMMA BindingOutlive == ASSUME TypeOK, Outlive, CreateTGB \/ DeleteTGB PROVE Outlive'
<1>1. UNCHANGED <<tg, health, targetsCache, pc, toDeregister>>
  BY DEF CreateTGB, DeleteTGB, awsVars, localVars
<1>2. fin' = fin
  BY DEF CreateTGB, DeleteTGB, TypeOK, Outlive, Guarded
<1>3. tgb' = "absent" => ~fin'
  BY DEF CreateTGB, DeleteTGB
<1> QED
  BY <1>1, <1>2, <1>3 DEF Outlive, Covered, Guarded, Cleaning, Cleared, Registered

\* A reconcile that ends, and a cache entry that goes, leave nothing to keep.
LEMMA ReturnOutlive ==
  ASSUME Outlive, UNCHANGED <<tgb, fin, tg, health>>, (pc' = pc /\ UNCHANGED toDeregister) \/ pc' = "idle",
         targetsCache' = targetsCache \/ targetsCache' = NoEntry
  PROVE  Outlive'
<1>1. Covered'
  BY DEF Outlive, Covered, Registered
<1>2. Guarded' /\ Cleaning'
  BY DEF Outlive, Guarded, Cleaning, Cleared, Registered
<1> QED
  BY <1>1, <1>2 DEF Outlive

LEMMA EndOutlive == ASSUME Outlive, End \/ ApiError \/ Crash \/ ExpireTargets PROVE Outlive'
<1>1. CASE RemoveFinalizer
  <2>1. UNCHANGED <<tg, health, targetsCache>> /\ pc' = "idle" /\ Cleared
    BY <1>1 DEF RemoveFinalizer, Return, awsVars, Outlive, Cleaning
  <2>2. ~fin'
    BY <1>1 DEF RemoveFinalizer
  <2> QED
    BY <2>1, <2>2 DEF Outlive, Covered, Guarded, Cleaning, Cleared, Registered
<1>2. CASE ~RemoveFinalizer
  <2>1. UNCHANGED <<tgb, fin, tg, health>>
    BY <1>2 DEF End, AddFinalizerRefused, ListFails, RegisterFails, PatchesDone, PatchConflict,
                DeregisterFails, CleanDone, ApiError, Crash, ExpireTargets, k8sVars, awsVars
  <2>2. (pc' = pc /\ UNCHANGED toDeregister) \/ pc' = "idle"
    BY <1>2 DEF End, AddFinalizerRefused, ListFails, RegisterFails, PatchesDone, PatchConflict,
                DeregisterFails, CleanDone, ApiError, Crash, ExpireTargets, Return, localVars
  <2>3. targetsCache' = targetsCache \/ targetsCache' = NoEntry
    BY <1>2 DEF End, AddFinalizerRefused, ListFails, RegisterFails, PatchesDone, PatchConflict,
                DeregisterFails, CleanDone, ApiError, Crash, ExpireTargets
  <2> QED
    BY <2>1, <2>2, <2>3, ReturnOutlive
<1> QED
  BY <1>1, <1>2

\* Moving on: what the next place promises is there already.
LEMMA MoveOnOutlive == ASSUME TypeOK, Outlive, MoveOn PROVE Outlive'
<1>1. UNCHANGED <<tgb, tg, health, targetsCache>>
  BY DEF MoveOn, Start, AddFinalizer, BackendNotFound, ReconcileNetworking, Deregistered,
         AllRegistered, CleanListNotFound, DeregisterFails, CleanDone, k8sVars, awsVars
<1>2. Covered'
  BY <1>1 DEF Outlive, Covered, Registered
<1>3. AddFinalizer \/ fin' = fin
  BY DEF MoveOn, Start, BackendNotFound, ReconcileNetworking, Deregistered,
         AllRegistered, CleanListNotFound, DeregisterFails, CleanDone, k8sVars
<1>4. fin => fin'
  BY <1>3 DEF AddFinalizer
<1>5. pc' \in {"resolve", "list", "network", "deregister", "register", "patch"} => fin'
  BY <1>4 DEF MoveOn, Start, AddFinalizer, BackendNotFound, ReconcileNetworking, Deregistered,
              AllRegistered, CleanListNotFound, DeregisterFails, CleanDone, Outlive, Guarded
<1>6. tgb' = "absent" => ~fin'
  BY <1>1, <1>3 DEF AddFinalizer, Outlive, Guarded
<1>7. Guarded'
  BY <1>1, <1>4, <1>5, <1>6 DEF Outlive, Guarded, Cleared, Registered
<1>8. pc' # "cleanDeregister"
  BY DEF MoveOn, Start, AddFinalizer, BackendNotFound, ReconcileNetworking, Deregistered,
         AllRegistered, CleanListNotFound, DeregisterFails, CleanDone
<1>9. pc' \in {"cleanNetwork", "cleanPatch", "removeFinalizer"} => Cleared
  <2>1. CASE Deregistered
    BY <2>1 DEF Deregistered, Outlive, Cleaning, Cleared
  <2>2. CASE CleanListNotFound
    BY <2>2 DEF CleanListNotFound, ListAnswers, TypeOK, Outlive, Cleaning
  <2>3. CASE DeregisterFails
    BY <2>3 DEF DeregisterFails, TypeOK, Outlive, Cleaning
  <2>4. CASE CleanDone
    BY <2>4 DEF CleanDone, Outlive, Cleaning
  <2> QED
    BY <2>1, <2>2, <2>3, <2>4
    DEF MoveOn, Start, AddFinalizer, BackendNotFound, ReconcileNetworking, AllRegistered
<1>10. Cleaning'
  BY <1>1, <1>8, <1>9 DEF Outlive, Cleaning, Cleared, Registered
<1> QED
  BY <1>2, <1>7, <1>10 DEF Outlive

\* A listed target that is registered is listed as such: the part of the cache
\* that is not refreshed covers it, the rest is read from AWS.
LEMMA ListedCovers ==
  ASSUME Outlive, NEW t \in Target, Registered(t) PROVE ListedTargets[t] # "none"
BY DEF Outlive, Covered, ListedTargets, Refreshed, Registered

LEMMA ListOutlive ==
  ASSUME TypeOK, Outlive, Resolve \/ List \/ CleanList \/ CleanNetworking PROVE Outlive'
<1>1. UNCHANGED <<tgb, fin, tg, health>>
  BY DEF Resolve, List, CleanList, CleanNetworking, k8sVars, awsVars
<1>2. Covered'
  <2>1. CASE List \/ CleanList
    BY <1>1, <2>1, ListedCovers DEF List, CleanList, Covered, Registered
  <2>2. CASE Resolve \/ CleanNetworking
    BY <1>1, <2>2 DEF Resolve, CleanNetworking, Outlive, Covered, Registered
  <2> QED
    BY <2>1, <2>2
<1>3. Guarded'
  BY <1>1 DEF Resolve, List, CleanList, CleanNetworking, Outlive, Guarded, Cleared, Registered
<1>4. pc' = "cleanDeregister" => \A t \in Target : Registered(t) => t \in toDeregister'
  BY ListedCovers DEF Resolve, List, CleanList, CleanNetworking
<1>5. pc' \in {"cleanNetwork", "cleanPatch", "removeFinalizer"} => Cleared
  BY DEF Resolve, List, CleanList, CleanNetworking, Outlive, Cleaning
<1>6. Cleaning'
  BY <1>1, <1>4, <1>5 DEF Outlive, Cleaning, Cleared, Registered
<1> QED
  BY <1>2, <1>3, <1>6 DEF Outlive

\* Without lost answers, the cache records every call that took effect.
LEMMA CallOutlive ==
  ASSUME lost' = 0, TypeOK, Outlive, Register \/ Deregister PROVE Outlive'
<1>1. ~Lost
  <2>1. lost \in 0..MaxLost
    BY TypeParts DEF BoundTypes
  <2> QED
    BY SMT, <2>1, LimitAssumption DEF Lost
<1>2. UNCHANGED <<tgb, fin, tg, pc>> /\ tg
  BY <1>1 DEF Register, Deregister, RegisterInAWS, DeregisterInAWS, k8sVars
<1>3. ASSUME Register PROVE Outlive'
  <2>1. PICK c \in Chunks(toRegister) : RegisterInAWS(c) /\ RecordRegister(c)
    BY <1>1, <1>3 DEF Register
  <2>2. \A t \in Target : Registered(t)' => Registered(t) \/ t \in c
    BY <2>1 DEF RegisterInAWS, Registered
  <2>3. Covered'
    BY <2>1, <2>2 DEF RecordRegister, Outlive, Covered
  <2>4. pc = "register" /\ fin
    BY <1>3 DEF Register, Outlive, Guarded
  <2> QED
    BY <1>2, <2>3, <2>4 DEF Outlive, Guarded, Cleaning
<1>4. ASSUME Deregister PROVE Outlive'
  <2>1. PICK c \in Chunks(toDeregister) :
          DeregisterInAWS(c) /\ RecordDeregister(c) /\ toDeregister' = toDeregister \ c
    BY <1>1, <1>4 DEF Deregister
  <2>2. \A t \in Target : Registered(t)' => Registered(t) /\ t \notin c
    BY <2>1 DEF DeregisterInAWS, Registered
  <2>3. Covered'
    BY <2>1, <2>2 DEF RecordDeregister, Outlive, Covered
  <2>4. Guarded'
    BY <1>2, <2>2 DEF Outlive, Guarded, Cleared
  <2>5. Cleaning'
    BY <1>2, <2>1, <2>2 DEF Outlive, Cleaning, Cleared
  <2> QED
    BY <2>3, <2>4, <2>5 DEF Outlive
<1> QED
  BY <1>3, <1>4

\* Answers are lost only by the calls that register and deregister targets, and
\* none that was lost is ever found again.
LEMMA LostStays == ASSUME TypeOK, [Next]_vars, lost' = 0 PROVE lost = 0
<1> USE DEF k8sVars, podVars, awsVars, localVars, boundVars
<1>1. lost \in 0..MaxLost
  BY TypeParts DEF BoundTypes
<1>2. CASE UNCHANGED vars
  BY <1>2 DEF vars
<1>3. CASE Environment
  BY <1>3 DEF Environment, CreatePod, SetContainersReady, TerminatePod, DeletePod, SetNode,
              SetService, CreateTGB, DeleteTGB, DeleteTargetGroup, HealthCheckFails
<1>4. CASE MoveOn
  BY <1>4 DEF MoveOn, Start, AddFinalizer, BackendNotFound, ReconcileNetworking, Deregistered,
              AllRegistered, CleanListNotFound, DeregisterFails, CleanDone
<1>5. CASE End
  BY <1>5 DEF End, AddFinalizerRefused, ListFails, RegisterFails, PatchesDone, PatchConflict,
              DeregisterFails, CleanDone, RemoveFinalizer
<1>6. CASE Register \/ Deregister
  <2>1. Lost \/ lost' = lost
    BY <1>6 DEF Register, Deregister
  <2> QED
    BY SMT, <1>1, <2>1, LimitAssumption DEF Lost
<1>7. CASE Resolve \/ List \/ CleanList \/ CleanNetworking
  BY <1>7 DEF Resolve, List, CleanList, CleanNetworking
<1>8. CASE \E x \in patches : PatchSkipped(x) \/ PatchPod(x) \/ PatchNotFound(x)
  BY <1>8 DEF PatchSkipped, PatchPod, PatchNotFound, Patched
<1>9. CASE \/ \E p \in Pod : SyncPodInfo(p)
           \/ \E t \in Target : HealthCheckPasses(t) \/ Drained(t)
           \/ ExpireTargets \/ Resync \/ ApiError \/ Crash
  BY <1>9 DEF SyncPodInfo, HealthCheckPasses, Drained, ExpireTargets, Resync, ApiError, Crash
<1> QED
  BY <1>2, <1>3, <1>4, <1>5, <1>6, <1>7, <1>8, <1>9, NextGroups

\* As long as no answer of AWS was lost, these hold.
Guarding == lost = 0 => Outlive

LEMMA OutliveAlways == Spec => []Guarding
<1>1. Init => Guarding
  BY DEF Init, Guarding, Outlive, Covered, Guarded, Cleaning, Cleared, Registered
<1>2. ASSUME TypeOK, Guarding, [Next]_vars PROVE Guarding'
  <2> SUFFICES ASSUME lost' = 0 PROVE Outlive'
    BY DEF Guarding
  <2>0. Outlive
    BY <1>2, LostStays DEF Guarding
  <2>1. CASE UNCHANGED vars
    BY <2>0, <2>1, OutliveUnchanged DEF vars, k8sVars, awsVars, localVars
  <2>2. CASE Aside
    BY <2>0, <2>2, AsideUnchanged, OutliveUnchanged
  <2>3. CASE Environment /\ ~Aside
    BY <1>2, <2>0, <2>3, HealthOutlive, BindingOutlive DEF Environment, Aside
  <2>4. CASE Next /\ ~Environment /\ ~Aside
    BY <1>2, <2>0, <2>4, NextGroups, HealthOutlive, MoveOnOutlive, EndOutlive, ListOutlive,
       CallOutlive DEF Aside
  <2> QED
    BY <1>2, <2>1, <2>2, <2>3, <2>4
<1> QED
  BY <1>1, <1>2, TypeCorrect, PTL DEF Spec

\* As long as no answer of AWS was lost, no registered target is left behind by a
\* binding that is gone: through errors, crashes, expiries of the targets cache and
\* deletions of the target group at any moment, and for any number of pods, nodes
\* and events.
THEOREM TargetsCleaned == Spec => []NoTargetOutlives
<1>1. Guarding => NoTargetOutlives
  BY DEF Guarding, Outlive, Guarded, Cleared, NoTargetOutlives
<1> QED
  BY <1>1, OutliveAlways, PTL

-----------------------------------------------------------------------------
(* Pods are let through only behind healthy targets. *)

\* What is known to be healthy has been so since its registration.
Truthful ==
  /\ \A t \in Target : health[t] = "healthy" => wasHealthy[t]
  /\ targetsCache # NoEntry => \A t \in Target : targetsCache[t] = "healthy" => wasHealthy[t]

\* The pod evaluated as i had the address t, unless it has been replaced since.
HadAddress(i, p, t) == i.uid <= uid[p] /\ (i.uid = uid[p] => podIP[p] = t)

\* The pod cache shows pods that are there or were.
Dated == \A p \in Pod : podInfo[p] # NoPod => podInfo[p].uid <= uid[p]

Addressed == \A e \in endpoints : e.info # NoPod => HadAddress(e.info, e.pod, e.target)

\* The target of a pod to be let through is healthy, and left alone.
Evaluated ==
  pc \in {"network", "deregister", "register", "patch"} =>
    \A x \in patches : x.health = "healthy" =>
      /\ x.info # NoPod
      /\ \E t \in Target \ (toRegister \cup toDeregister) : wasHealthy[t] /\ HadAddress(x.info, x.pod, t)

Healthy == Truthful /\ Dated /\ Addressed /\ Evaluated

\* A pod of another uid is another pod.
LEMMA AddressKept ==
  ASSUME TypeOK, NEW q \in Pod, NEW i \in PodInfos \ {NoPod}, NEW t, HadAddress(i, q, t),
         \A p \in Pod : (uid'[p] = uid[p] /\ podIP'[p] = podIP[p]) \/ uid'[p] = uid[p] + 1
  PROVE  HadAddress(i, q, t)'
<1>1. i.uid \in Nat /\ uid[q] \in Nat
  BY DEF TypeOK, PodInfos
<1> QED
  BY SMT, <1>1 DEF HadAddress

\* Pods come and go, and the pod cache follows them or not.
LEMMA PodsHealthy ==
  ASSUME TypeOK, TypeOK', Healthy,
         \A p \in Pod : (uid'[p] = uid[p] /\ podIP'[p] = podIP[p]) \/ uid'[p] = uid[p] + 1,
         \A p \in Pod : podInfo'[p] = podInfo[p] \/ podInfo'[p] = PodInfo(p)',
         UNCHANGED <<health, wasHealthy, targetsCache, pc, endpoints, toRegister, toDeregister>>,
         patches' \subseteq patches
  PROVE  Healthy'
<1>1. Truthful'
  BY DEF Healthy, Truthful
<1>2. Dated'
  <2> SUFFICES ASSUME NEW p \in Pod, podInfo'[p] # NoPod PROVE podInfo'[p].uid <= uid'[p]
    BY DEF Dated
  <2>1. uid[p] \in Nat /\ uid'[p] \in Nat
    BY DEF TypeOK
  <2>2. CASE podInfo'[p] = podInfo[p]
    <3>1. podInfo[p].uid <= uid[p]
      BY <2>2 DEF Healthy, Dated
    <3>2. podInfo[p].uid \in Nat
      BY <2>2 DEF TypeOK, PodInfos
    <3> QED
      BY SMT, <2>1, <2>2, <3>1, <3>2
  <2>3. CASE podInfo'[p] = PodInfo(p)'
    <3>1. podInfo'[p].uid = uid'[p]
      BY SMT, <2>3 DEF PodInfo
    <3> QED
      BY SMT, <2>1, <3>1
  <2> QED
    BY <2>2, <2>3
<1>3. Addressed'
  <2> SUFFICES ASSUME NEW e \in endpoints, e.info # NoPod
               PROVE  HadAddress(e.info, e.pod, e.target)'
    BY DEF Addressed
  <2>1. e.pod \in Pod /\ e.info \in PodInfos \ {NoPod} /\ HadAddress(e.info, e.pod, e.target)
    BY SMT DEF Healthy, Addressed, TypeOK
  <2> QED
    BY <2>1, AddressKept
<1>4. Evaluated'
  <2> SUFFICES ASSUME pc' \in {"network", "deregister", "register", "patch"}, NEW x \in patches',
                      x.health = "healthy"
               PROVE  /\ x.info # NoPod
                      /\ \E t \in Target \ (toRegister' \cup toDeregister') :
                           wasHealthy'[t] /\ HadAddress(x.info, x.pod, t)'
    BY DEF Evaluated
  <2>1. x.info # NoPod /\ \E t \in Target \ (toRegister \cup toDeregister) :
          wasHealthy[t] /\ HadAddress(x.info, x.pod, t)
    BY DEF Healthy, Evaluated
  <2>2. x.pod \in Pod /\ x.info \in PodInfos
    BY DEF TypeOK
  <2> QED
    BY <2>1, <2>2, AddressKept
<1> QED
  BY <1>1, <1>2, <1>3, <1>4 DEF Healthy

\* Steps that leave the pods alone, and what a reconcile resolved or evaluated
\* alone or give it up.
LEMMA OthersHealthy ==
  ASSUME Healthy, Truthful', UNCHANGED <<podInfo, uid, podIP>>,
         endpoints' = endpoints \/ endpoints' = {},
         \/ pc' \notin {"network", "deregister", "register", "patch"}
         \/ patches' = {}
         \/ /\ patches' \subseteq patches /\ pc \in {"network", "deregister", "register", "patch"}
            /\ toRegister' \subseteq toRegister /\ toDeregister' \subseteq toDeregister
            /\ \A t \in Target \ (toRegister \cup toDeregister) : wasHealthy[t] => wasHealthy'[t]
  PROVE  Healthy'
<1>1. \A i, q, t : HadAddress(i, q, t)' <=> HadAddress(i, q, t)
  BY DEF HadAddress
<1>2. Dated' /\ Addressed'
  BY <1>1 DEF Healthy, Dated, Addressed
<1>3. Evaluated'
  BY <1>1 DEF Healthy, Evaluated
<1> QED
  BY <1>2, <1>3 DEF Healthy

\* The load balancer's own steps: nothing healthy is forgotten.
LEMMA ChecksHealthy ==
  ASSUME TypeOK, Healthy,
         \/ DeleteTargetGroup
         \/ \E t \in Target : HealthCheckFails(t) \/ HealthCheckPasses(t) \/ Drained(t)
  PROVE  Healthy'
<1>1. UNCHANGED <<podInfo, uid, podIP, targetsCache, pc, endpoints, patches, toRegister, toDeregister>>
  BY DEF DeleteTargetGroup, HealthCheckFails, HealthCheckPasses, Drained, podVars, localVars
<1>2. \A t \in Target : wasHealthy[t] => wasHealthy'[t]
  BY DEF TypeOK, DeleteTargetGroup, HealthCheckFails, HealthCheckPasses, Drained
<1>3. \A t \in Target : health'[t] = "healthy" => wasHealthy'[t]
  BY <1>2 DEF TypeOK, DeleteTargetGroup, HealthCheckFails, HealthCheckPasses, Drained, Healthy, Truthful
<1>4. Truthful'
  BY <1>1, <1>2, <1>3 DEF Healthy, Truthful
<1> QED
  BY <1>1, <1>2, <1>4, OthersHealthy DEF Healthy, Evaluated

\* A reconcile that ends has evaluated nothing any more.
LEMMA EndHealthy ==
  ASSUME TypeOK, TypeOK', Healthy, End \/ ApiError \/ Crash \/ ExpireTargets
  PROVE  Healthy'
<1>1. UNCHANGED <<uid, podIP, health, wasHealthy>>
  BY DEF End, AddFinalizerRefused, ListFails, RegisterFails, PatchesDone, PatchConflict, DeregisterFails,
         CleanDone, RemoveFinalizer, ApiError, Crash, ExpireTargets, podVars, awsVars
<1>2. targetsCache' = targetsCache \/ targetsCache' = NoEntry
  BY DEF End, AddFinalizerRefused, ListFails, RegisterFails, PatchesDone, PatchConflict, DeregisterFails,
         CleanDone, RemoveFinalizer, ApiError, Crash, ExpireTargets
<1>3. \/ pc' = "idle" /\ endpoints' = {}
      \/ UNCHANGED <<pc, endpoints, patches, toRegister, toDeregister>>
  BY DEF End, AddFinalizerRefused, ListFails, RegisterFails, PatchesDone, PatchConflict, DeregisterFails,
         CleanDone, RemoveFinalizer, ApiError, Crash, ExpireTargets, Return, localVars
<1>4. Truthful'
  BY <1>1, <1>2 DEF Healthy, Truthful
<1>5. CASE podInfo' = podInfo
  BY <1>1, <1>3, <1>4, <1>5, OthersHealthy
<1>6. CASE Crash
  <2>1. \A p \in Pod : podInfo'[p] # NoPod => podInfo'[p].uid = uid'[p] /\ uid'[p] \in Nat
    BY <1>1, <1>6 DEF Crash, PodInfo, TypeOK
  <2>2. \A n \in Nat : n <= n
    BY SMT
  <2>3. Dated'
    BY <2>1, <2>2 DEF Dated
  <2>4. pc' = "idle" /\ endpoints' = {}
    BY <1>6 DEF Crash, Return
  <2> QED
    BY <1>4, <2>3, <2>4 DEF Healthy, Addressed, Evaluated
<1> QED
  BY <1>5, <1>6 DEF End, AddFinalizerRefused, ListFails, RegisterFails, PatchesDone, PatchConflict,
     DeregisterFails, CleanDone, RemoveFinalizer, ApiError, ExpireTargets

LEMMA MoveOnHealthy == ASSUME Healthy, MoveOn PROVE Healthy'
<1>1. UNCHANGED <<podInfo, uid, podIP, health, wasHealthy, targetsCache, endpoints, patches, toRegister>>
  BY DEF MoveOn, Start, AddFinalizer, BackendNotFound, ReconcileNetworking, Deregistered,
         AllRegistered, CleanListNotFound, DeregisterFails, CleanDone, podVars, awsVars, localVars
<1>2. \/ pc' \notin {"network", "deregister", "register", "patch"}
      \/ pc \in {"network", "deregister", "register", "patch"} /\ toDeregister' = toDeregister
  BY DEF MoveOn, Start, AddFinalizer, BackendNotFound, ReconcileNetworking, Deregistered,
         AllRegistered, CleanListNotFound, DeregisterFails, CleanDone, localVars
<1>3. Truthful'
  BY <1>1 DEF Healthy, Truthful
<1> QED
  BY <1>1, <1>2, <1>3, OthersHealthy

\* Without lost answers, the cache forgets the health of what a call changes, and
\* no call is about a target of an evaluated pod.
LEMMA CallHealthy ==
  ASSUME lost' = 0, TypeOK, Healthy, Register \/ Deregister PROVE Healthy'
<1>1. ~Lost
  <2>1. lost \in 0..MaxLost
    BY TypeParts DEF BoundTypes
  <2> QED
    BY SMT, <2>1, LimitAssumption DEF Lost
<1>2. UNCHANGED <<podInfo, uid, podIP, pc, endpoints, patches>>
  BY <1>1 DEF Register, Deregister, podVars
<1>3. ASSUME Register PROVE Healthy'
  <2>1. PICK c \in Chunks(toRegister) :
          /\ RegisterInAWS(c) /\ RecordRegister(c)
          /\ toRegister' = toRegister \ c /\ toDeregister' = toDeregister
    BY <1>1, <1>3 DEF Register
  <2>2. c \subseteq toRegister
    BY ChunkType
  <2>3. \A t \in Target : wasHealthy[t] /\ (t \in c => Registered(t)) => wasHealthy'[t]
    BY <2>1 DEF RegisterInAWS
  <2>4. \A t \in Target : health'[t] = "healthy" => health[t] = "healthy" /\ (t \in c => Registered(t))
    BY <2>1 DEF RegisterInAWS
  <2>5. targetsCache' # NoEntry => targetsCache # NoEntry /\
          \A t \in Target : targetsCache'[t] = "healthy" => targetsCache[t] = "healthy" /\ t \notin c
    BY <2>1 DEF RecordRegister
  <2>6. Truthful'
    BY <2>3, <2>4, <2>5 DEF Healthy, Truthful
  <2> QED
    BY <1>2, <1>3, <2>1, <2>2, <2>3, <2>6, OthersHealthy DEF Register
<1>4. ASSUME Deregister PROVE Healthy'
  <2>1. PICK c \in Chunks(toDeregister) :
          /\ DeregisterInAWS(c) /\ RecordDeregister(c)
          /\ toDeregister' = toDeregister \ c /\ toRegister' = toRegister
    BY <1>1, <1>4 DEF Deregister
  <2>2. c \subseteq toDeregister
    BY ChunkType
  <2>3. \A t \in Target : wasHealthy[t] /\ t \notin c => wasHealthy'[t]
    BY <2>1 DEF DeregisterInAWS
  <2>4. \A t \in Target : health'[t] = "healthy" => health[t] = "healthy" /\ t \notin c
    BY <2>1 DEF DeregisterInAWS, Registered
  <2>5. targetsCache' # NoEntry => targetsCache # NoEntry /\
          \A t \in Target : targetsCache'[t] = "healthy" => targetsCache[t] = "healthy" /\ t \notin c
    BY <2>1 DEF RecordDeregister
  <2>6. Truthful'
    BY <2>3, <2>4, <2>5 DEF Healthy, Truthful
  <2> QED
    BY <1>2, <1>4, <2>1, <2>2, <2>3, <2>6, OthersHealthy DEF Deregister
<1> QED
  BY <1>3, <1>4

\* What is listed as healthy is, from the cache or from AWS.
LEMMA ListedHealthy ==
  ASSUME Healthy, NEW t \in Target, ListedTargets[t] = "healthy" PROVE wasHealthy[t]
BY DEF Healthy, Truthful, ListedTargets, Refreshed

LEMMA ListHealthy ==
  ASSUME TypeOK, Healthy, Resolve \/ List \/ CleanList \/ CleanNetworking PROVE Healthy'
<1>1. UNCHANGED <<podInfo, uid, podIP, health, wasHealthy>>
  BY DEF Resolve, List, CleanList, CleanNetworking, podVars, awsVars
<1>2. Truthful'
  <2>1. CASE List \/ CleanList
    BY <1>1, <2>1, ListedHealthy DEF List, CleanList, Healthy, Truthful
  <2>2. CASE Resolve \/ CleanNetworking
    BY <1>1, <2>2 DEF Resolve, CleanNetworking, Healthy, Truthful
  <2> QED
    BY <2>1, <2>2
<1>3. CASE CleanList \/ CleanNetworking
  BY <1>1, <1>2, <1>3, OthersHealthy DEF CleanList, CleanNetworking
<1>4. CASE Resolve
  <2>1. pc' = "list" /\ endpoints' = ResolvedEndpoints
    BY <1>4 DEF Resolve
  <2>2. \A e \in ResolvedEndpoints : e.info # NoPod =>
          \E p \in Pod : e.pod = p /\ e.info = podInfo[p] /\ e.target = podIP[p]
    BY SMT DEF ResolvedEndpoints, FirstNonEmpty, ReadyPods, UnknownPods
  <2>3. \A e \in ResolvedEndpoints : e.info # NoPod => HadAddress(e.info, e.pod, e.target)
    BY <2>2 DEF Healthy, Dated, HadAddress
  <2>4. Addressed'
    BY <1>1, <2>1, <2>3 DEF Addressed, HadAddress
  <2>5. Dated'
    BY <1>1 DEF Healthy, Dated
  <2> QED
    BY <1>2, <2>1, <2>4, <2>5 DEF Healthy, Evaluated
<1>5. CASE List
  <2>1. endpoints' = {} /\ pc' = "network"
    BY <1>5 DEF List
  <2>2. Dated' /\ Addressed'
    BY <1>1, <2>1 DEF Healthy, Dated, Addressed
  <2>3. ASSUME NEW x \in patches', x.health = "healthy"
        PROVE  /\ x.info # NoPod
               /\ \E t \in Target \ (toRegister' \cup toDeregister') :
                    wasHealthy[t] /\ HadAddress(x.info, x.pod, t)
    <3>1. PICK e \in endpoints :
            /\ e.info # NoPod
            /\ x = [pod |-> e.pod, info |-> e.info,
                    health |-> IF e.target \in NotDraining(ListedTargets)
                               THEN ListedTargets[e.target] ELSE "initial"]
      BY <1>5, <2>3 DEF List
    <3>2. x.pod = e.pod /\ x.info = e.info
      BY <3>1
    <3>3. e.target \in NotDraining(ListedTargets) /\ ListedTargets[e.target] = "healthy"
      BY <2>3, <3>1
    <3>4. e.target \in Wanted /\ e.target \in Target
      BY <3>3 DEF Wanted, NotDraining
    <3>5. e.target \notin toRegister' \cup toDeregister'
      BY <1>5, <3>3, <3>4 DEF List
    <3>6. wasHealthy[e.target] /\ HadAddress(e.info, e.pod, e.target)
      BY <3>1, <3>3, <3>4, ListedHealthy DEF Healthy, Addressed
    <3> QED
      BY <3>1, <3>2, <3>4, <3>5, <3>6
  <2>4. Evaluated'
    BY <1>1, <2>3 DEF Evaluated, HadAddress
  <2> QED
    BY <1>2, <2>2, <2>4 DEF Healthy
<1> QED
  BY <1>3, <1>4, <1>5

\* Patches change the conditions of pods, and of the pod cache only what follows.
LEMMA PatchHealthy ==
  ASSUME TypeOK, TypeOK', Healthy, NEW x \in patches, PatchSkipped(x) \/ PatchPod(x) \/ PatchNotFound(x)
  PROVE  Healthy'
<1>1. UNCHANGED <<uid, podIP, health, wasHealthy, targetsCache, pc, endpoints, toRegister, toDeregister>>
  BY DEF PatchSkipped, PatchPod, PatchNotFound, Patched, awsVars
<1>2. patches' \subseteq patches
  BY DEF PatchSkipped, PatchPod, PatchNotFound, Patched
<1>3. \A p \in Pod : podInfo'[p] = podInfo[p] \/ podInfo'[p] = PodInfo(p)'
  <2>1. CASE podInfo' = podInfo
    BY <2>1
  <2>2. CASE CacheFollows(x.pod)
    BY <2>2 DEF CacheFollows, TypeOK
  <2> QED
    BY <2>1, <2>2 DEF PatchSkipped, PatchPod, PatchNotFound
<1> QED
  BY <1>1, <1>2, <1>3, PodsHealthy

\* The steps around pods, nodes, the service and the binding.
LEMMA AroundHealthy ==
  ASSUME TypeOK, TypeOK', Healthy,
         \/ Environment /\ ~DeleteTargetGroup /\ ~\E t \in Target : HealthCheckFails(t)
         \/ Resync \/ \E p \in Pod : SyncPodInfo(p)
  PROVE  Healthy'
<1>1. UNCHANGED <<health, wasHealthy, targetsCache, pc, endpoints, patches, toRegister, toDeregister>>
  BY DEF Environment, CreatePod, SetContainersReady, TerminatePod, DeletePod, SetNode, SetService,
         CreateTGB, DeleteTGB, Resync, SyncPodInfo, awsVars, localVars
<1>2. ASSUME NEW p \in Pod, NEW a \in Addr, CreatePod(p, a) PROVE Healthy'
  <2>1. \A q \in Pod : (uid'[q] = uid[q] /\ podIP'[q] = podIP[q]) \/ uid'[q] = uid[q] + 1
    BY <1>2 DEF CreatePod, TypeOK
  <2>2. \A q \in Pod : podInfo'[q] = podInfo[q] \/ podInfo'[q] = PodInfo(q)'
    BY <1>2 DEF CreatePod, CacheFollows, TypeOK
  <2> QED
    BY <1>1, <2>1, <2>2, PodsHealthy
<1>3. ASSUME UNCHANGED <<uid, podIP>>, \A q \in Pod : podInfo'[q] = podInfo[q] \/ podInfo'[q] = PodInfo(q)'
      PROVE  Healthy'
  BY <1>1, <1>3, PodsHealthy
<1>4. ASSUME NEW p \in Pod,
             \/ \E s \in {"starting", "running"} : SetContainersReady(p, s)
             \/ TerminatePod(p) \/ DeletePod(p)
      PROVE  Healthy'
  <2>1. UNCHANGED <<uid, podIP>> /\ CacheFollows(p)
    BY <1>4 DEF SetContainersReady, TerminatePod, DeletePod
  <2> QED
    BY <1>3, <2>1 DEF CacheFollows, TypeOK
<1>5. ASSUME NEW p \in Pod, SyncPodInfo(p) PROVE Healthy'
  <2>1. UNCHANGED <<uid, podIP>> /\ PodInfo(p)' = PodInfo(p)
    BY <1>5 DEF SyncPodInfo, podVars, PodInfo
  <2> QED
    BY <1>3, <1>5, <2>1 DEF SyncPodInfo, TypeOK
<1>6. CASE \/ \E n \in Node, s \in NodeStates : SetNode(n, s)
           \/ \E s \in SvcStates : SetService(s)
           \/ CreateTGB \/ DeleteTGB \/ Resync
  BY <1>3, <1>6 DEF SetNode, SetService, CreateTGB, DeleteTGB, Resync, podVars
<1> QED
  BY <1>2, <1>4, <1>5, <1>6 DEF Environment

\* Only a patch makes a pod ready.
LEMMA OnlyPatches ==
  ASSUME TypeOK, [Next]_vars, NEW p \in Pod, cond'[p] = "true", cond[p] # "true"
  PROVE  \E x \in patches : PatchPod(x)
<1>1. cond' # cond
  OBVIOUS
<1>2. CASE \E q \in Pod, a \in Addr : CreatePod(q, a)
  BY <1>2 DEF CreatePod, TypeOK
<1>3. CASE Environment /\ ~\E q \in Pod, a \in Addr : CreatePod(q, a)
  BY <1>1, <1>3 DEF Environment, SetContainersReady, TerminatePod, DeletePod, SetNode, SetService,
     CreateTGB, DeleteTGB, DeleteTargetGroup, HealthCheckFails, podVars
<1>4. CASE MoveOn
  BY <1>1, <1>4 DEF MoveOn, Start, AddFinalizer, BackendNotFound, ReconcileNetworking, Deregistered,
     AllRegistered, CleanListNotFound, DeregisterFails, CleanDone, podVars
<1>5. CASE End
  BY <1>1, <1>5 DEF End, AddFinalizerRefused, ListFails, RegisterFails, PatchesDone, PatchConflict,
     DeregisterFails, CleanDone, RemoveFinalizer, podVars
<1>6. CASE \/ \E q \in Pod : SyncPodInfo(q)
           \/ \E t \in Target : HealthCheckPasses(t) \/ Drained(t)
           \/ ExpireTargets \/ Resync \/ ApiError \/ Crash \/ UNCHANGED vars
  BY <1>1, <1>6 DEF SyncPodInfo, HealthCheckPasses, Drained, ExpireTargets, Resync, ApiError, Crash,
     vars, podVars
<1>7. CASE Register \/ Deregister \/ Resolve \/ List \/ CleanList \/ CleanNetworking
  BY <1>1, <1>7 DEF Register, Deregister, Resolve, List, CleanList, CleanNetworking, podVars
<1>8. CASE \E x \in patches : PatchSkipped(x) \/ PatchNotFound(x)
  BY <1>1, <1>8 DEF PatchSkipped, PatchNotFound
<1> QED
  BY <1>2, <1>3, <1>4, <1>5, <1>6, <1>7, <1>8, NextGroups

\* A reconcile sets the condition of a gated pod to True only when the health checks
\* of the pod's own target have passed since it was registered: for any pods, also
\* those that take the name or the address of another in the meantime, however the
\* pod cache lags, and through errors, crashes and chunks, as long as no answer of AWS
\* was lost.
THEOREM OnlyHealthyReady == Spec => ReadyOnlyHealthy
<1> DEFINE Kept == lost = 0 => Healthy
<1>1. Init => Kept
  BY DEF Init, Healthy, Truthful, Dated, Addressed, Evaluated
<1>2. TypeOK /\ TypeOK' /\ Kept /\ [Next]_vars => Kept'
  <2> SUFFICES ASSUME TypeOK, TypeOK', Kept, [Next]_vars, lost' = 0 PROVE Healthy'
    OBVIOUS
  <2>0. Healthy
    BY LostStays
  <2>1. CASE UNCHANGED vars
    BY <2>0, <2>1, PodsHealthy DEF vars, podVars, awsVars, localVars
  <2>2. CASE Environment
    BY <2>0, <2>2, AroundHealthy, ChecksHealthy
  <2>3. CASE MoveOn \/ End \/ ApiError \/ Crash \/ ExpireTargets
    BY <2>0, <2>3, MoveOnHealthy, EndHealthy
  <2>4. CASE Resync \/ \E p \in Pod : SyncPodInfo(p)
    BY <2>0, <2>4, AroundHealthy
  <2>5. CASE \E t \in Target : HealthCheckPasses(t) \/ Drained(t)
    BY <2>0, <2>5, ChecksHealthy
  <2>6. CASE Register \/ Deregister
    BY <2>0, <2>6, CallHealthy
  <2>7. CASE Resolve \/ List \/ CleanList \/ CleanNetworking
    BY <2>0, <2>7, ListHealthy
  <2>8. CASE \E x \in patches : PatchSkipped(x) \/ PatchPod(x) \/ PatchNotFound(x)
    BY <2>0, <2>8, PatchHealthy
  <2> QED
    BY <2>1, <2>2, <2>3, <2>4, <2>5, <2>6, <2>7, <2>8, NextGroups
<1>3. TypeOK /\ Kept /\ [Next]_vars =>
        [lost = 0 => \A p \in DOMAIN pod : pc = "patch" /\ cond'[p] = "true" /\ cond[p] # "true"
                                              => wasHealthy[podIP[p]]]_vars
  <2> SUFFICES ASSUME TypeOK, Healthy, [Next]_vars, NEW p \in Pod,
                      pc = "patch", cond'[p] = "true", cond[p] # "true"
               PROVE  wasHealthy[podIP[p]]
    BY DEF TypeOK
  <2>1. PICK x \in patches : PatchPod(x)
    BY OnlyPatches
  <2>2. x.pod = p /\ StatusFor(x.health) = "true"
    BY <2>1 DEF PatchPod, TypeOK
  <2>3. x.health = "healthy"
    BY <2>2 DEF StatusFor
  <2>4. uid[p] = x.info.uid
    BY <2>1, <2>2 DEF PatchPod, InfoFor
  <2> QED
    BY <2>2, <2>3, <2>4 DEF Healthy, Evaluated, HadAddress
<1> HIDE DEF Kept
<1> QED
  BY <1>1, <1>2, <1>3, TypeCorrect, PTL DEF Spec, ReadyOnlyHealthy

-----------------------------------------------------------------------------
(* What is registered when nothing is left to do. *)

\* Pods that are, or may get, behind their readiness gates, and those of them
\* whose endpoints wait for an event.
Up(p) == pod[p] \in {"starting", "running"}
Unready(p) == pod[p] = "starting" /\ ~gate[p]

\* What has to be registered, and what may be.
Due == IF TargetType = "ip" THEN {podIP[p] : p \in {q \in Pod : Up(q) /\ ~Unready(q)}}
       ELSE ResolvedTargets
Allowed == IF TargetType = "ip" THEN {podIP[p] : p \in {q \in Pod : Up(q)}} ELSE ResolvedTargets

\* Nothing but the reconcile at work will look at the binding.
Alone == tgb = "live" /\ svc = "ok" /\ tg /\ ~queued /\ ~again

\* What is cached of a target is not more than there is.
Backed == tg /\ targetsCache # NoEntry => \A t \in Target : targetsCache[t] = "healthy" => Registered(t)

\* The pod cache follows at once.
Following == \A p \in Pod : podInfo[p] = PodInfo(p)

Ended == pc = "idle" => ~again /\ toDeregister = {} /\ toRegister = {} /\ patches = {}

\* Cleanup is followed by another reconcile, unless there is nothing to serve.
Cleanup ==
  pc \in {"cleanList", "cleanDeregister", "cleanNetwork", "cleanPatch", "removeFinalizer"} =>
    queued \/ tgb # "live" \/ svc # "ok"

Matching == {"network", "deregister", "register", "patch"}

Balanced ==
  Alone =>
    /\ pc = "list" => Due \subseteq Wanted /\ Wanted \subseteq Allowed
    /\ pc \in Matching \cup {"idle"} =>
         /\ \A t \in Due : t \notin toDeregister /\ (Registered(t) \/ t \in toRegister)
         /\ \A t \in Target : Registered(t) => t \in toDeregister \cup Allowed
         /\ toRegister \subseteq Allowed
    /\ pc \in {"register", "patch"} => toDeregister = {}
    /\ pc = "patch" => toRegister = {}

\* What was evaluated of a pod is still so.
Same(x) == x.pod \in Pod /\ Up(x.pod) /\ x.info # NoPod
           /\ x.info.gate = gate[x.pod] /\ x.info.uid = uid[x.pod] /\ x.info.cond = cond[x.pod]

OnePerPod(S) == \A x, y \in S : x.pod = y.pod => x = y

\* Every gated pod is let through, or will be evaluated.
Evaluating ==
  Alone /\ TargetType = "ip" =>
    /\ pc = "list" =>
         /\ OnePerPod(endpoints) /\ \A e \in endpoints : Same(e)
         /\ \A p \in Pod : Up(p) /\ gate[p] => \E e \in endpoints : e.pod = p
    /\ pc \in Matching \cup {"idle"} =>
         /\ OnePerPod(patches) /\ \A x \in patches : Same(x)
         /\ \A p \in Pod : Up(p) /\ gate[p] => cond[p] = "true" \/ \E x \in patches : x.pod = p

Settled == Backed /\ Following /\ Ended /\ Cleanup /\ Balanced /\ Evaluating

\* The circumstances: the pod cache follows at once, and with IP targets the
\* nodes are ready and the port of the service does not go away.
Prompt ==
  /\ ~PodCacheLag
  /\ TargetType = "ip" => NodeStates \subseteq {"true"} /\ SvcStates \subseteq {"ok", "gone"}

\* What the reconcile at work has to do with does not change.
SamePods ==
  TargetType = "ip" =>
    /\ UNCHANGED <<podIP, gate, cond, uid>>
    /\ \A p \in Pod : (Up(p)' <=> Up(p)) /\ (Unready(p)' <=> Unready(p))

\* What has to be registered is a set of targets.
LEMMA DueTargets == ASSUME TypeOK PROVE Due \subseteq Target
<1>1. CASE TargetType = "ip"
  BY <1>1 DEF Due, TypeOK, Target
<1>2. CASE TargetType # "ip"
  BY <1>2, ResolvedType DEF Due, ResolvedTargets
<1> QED
  BY <1>1, <1>2

\* What has to be registered does not change either.
LEMMA TargetsSame ==
  ASSUME UNCHANGED node,
         TargetType = "ip" => /\ UNCHANGED podIP
                              /\ \A p \in Pod : (Up(p)' <=> Up(p)) /\ (Unready(p)' <=> Unready(p))
  PROVE  Due' = Due /\ Allowed' = Allowed
<1>1. CASE TargetType = "ip"
  <2>1. {q \in Pod : Up(q)}' = {q \in Pod : Up(q)}
    BY <1>1
  <2>2. {q \in Pod : Up(q) /\ ~Unready(q)}' = {q \in Pod : Up(q) /\ ~Unready(q)}
    BY <1>1
  <2>3. podIP' = podIP
    BY <1>1
  <2> QED
    BY <1>1, <2>1, <2>2, <2>3 DEF Due, Allowed
<1>2. CASE TargetType # "ip"
  BY <1>2 DEF Due, Allowed, ResolvedTargets, ResolvedEndpoints, NodesIn, FirstNonEmpty
<1> QED
  BY <1>1, <1>2

\* Then the reconcile at work is as good as before.
LEMMA Framed ==
  ASSUME TypeOK, Balanced, Evaluating, Alone, SamePods, UNCHANGED <<node, pc, localVars>>,
         \A t \in Target : Registered(t)' <=> Registered(t)
  PROVE  Balanced' /\ Evaluating'
<1>1. Due' = Due /\ Allowed' = Allowed
  BY TargetsSame DEF SamePods
<1>2. UNCHANGED <<pc, endpoints, toDeregister, toRegister, patches>>
  BY DEF localVars
<1>3. Wanted' = Wanted
  BY <1>2 DEF Wanted
<1>4. Balanced'
  BY <1>1, <1>2, <1>3, DueTargets DEF Balanced
<1>5. ASSUME TargetType = "ip" PROVE Evaluating'
  <2>1. \A x : Same(x) => Same(x)'
    BY <1>5 DEF SamePods, Same
  <2>2. \A p \in Pod : (Up(p)' <=> Up(p)) /\ gate'[p] = gate[p] /\ cond'[p] = cond[p]
    BY <1>5 DEF SamePods
  <2> QED
    BY <1>2, <2>1, <2>2 DEF Evaluating, OnePerPod
<1>6. ASSUME TargetType # "ip" PROVE Evaluating'
  BY <1>6 DEF Evaluating
<1> QED
  BY <1>4, <1>5, <1>6

\* A change of the surroundings that matters queues the binding.
LEMMA PodsQueue ==
  ASSUME TypeOK, Alone', NEW p \in Pod,
         \/ \E a \in Addr : CreatePod(p, a)
         \/ \E s \in {"starting", "running"} : SetContainersReady(p, s)
         \/ TerminatePod(p) \/ DeletePod(p)
  PROVE  Alone /\ SamePods
<1> USE DEF k8sVars, awsVars, localVars
<1>0. UNCHANGED <<tgb, svc, tg, again>> /\ (queued => queued')
  BY DEF CreatePod, SetContainersReady, TerminatePod, DeletePod, SliceEvent
<1>1. Alone /\ svc = "ok"
  BY <1>0 DEF Alone
<1>2. CASE TargetType # "ip"
  BY <1>1, <1>2 DEF SamePods
<1>3. CASE TargetType = "ip"
  <2>1. ~SliceEvent(TRUE)
    BY <1>1, <1>3 DEF SliceEvent, Alone
  <2>2. PICK s \in {"starting", "running"} : SetContainersReady(p, s)
    BY <2>1 DEF CreatePod, TerminatePod, DeletePod
  <2>3. EndpointReady(p)' <=> EndpointReady(p)
    BY <1>1, <1>3, <2>2 DEF SetContainersReady, SliceEvent, Alone, EndpointReady
  <2>4. pod' = [pod EXCEPT ![p] = s] /\ pod \in [Pod -> PodStatus]
    BY <2>2 DEF SetContainersReady, TypeOK
  <2>5. UNCHANGED <<podIP, gate, cond, uid>> /\ pod[p] \in {"starting", "running"} /\ pod[p] # s
    BY <2>2 DEF SetContainersReady
  <2>6. gate[p]
    BY <2>3, <2>4, <2>5 DEF EndpointReady
  <2>7. \A q \in Pod : q # p => pod'[q] = pod[q]
    BY <2>4
  <2>8. pod'[p] = s
    BY <2>4
  <2>9. \A q \in Pod : (Up(q)' <=> Up(q)) /\ (Unready(q)' <=> Unready(q))
    BY <2>5, <2>6, <2>7, <2>8 DEF Up, Unready
  <2> QED
    BY <1>1, <2>5, <2>9 DEF SamePods
<1> QED
  BY <1>2, <1>3

\* The surroundings disturb no reconcile that is not queued again.
LEMMA EnvironmentSettled ==
  ASSUME TypeOK, Prompt, Balanced, Evaluating, Environment
  PROVE  Balanced' /\ Evaluating'
<1> SUFFICES ASSUME Alone' PROVE Balanced' /\ Evaluating'
  BY DEF Balanced, Evaluating
<1> USE DEF k8sVars, podVars, awsVars, localVars
<1>1. ASSUME NEW p \in Pod,
             \/ \E a \in Addr : CreatePod(p, a)
             \/ \E s \in {"starting", "running"} : SetContainersReady(p, s)
             \/ TerminatePod(p) \/ DeletePod(p)
      PROVE  Balanced' /\ Evaluating'
  <2>1. Alone /\ SamePods
    BY <1>1, PodsQueue
  <2>2. UNCHANGED <<node, pc, localVars, health>>
    BY <1>1 DEF CreatePod, SetContainersReady, TerminatePod, DeletePod
  <2>3. \A t \in Target : Registered(t)' <=> Registered(t)
    BY <2>2 DEF Registered
  <2> QED
    BY <2>1, <2>2, <2>3, Framed
<1>2. ASSUME NEW n \in Node, NEW s \in NodeStates, SetNode(n, s) PROVE FALSE
  <2>1. TargetType = "ip"
    BY <1>2, ConfigAssumption DEF SetNode, Alone
  <2>2. node[n] = s
    BY SMT, <2>1 DEF Prompt, TypeOK
  <2> QED
    BY <1>2, <2>2 DEF SetNode
<1>3. ASSUME NEW s \in SvcStates, SetService(s) PROVE FALSE
  <2>1. TargetType = "ip" /\ "gone" \notin {s, svc}
    BY <1>3, ConfigAssumption DEF SetService, Alone
  <2>2. svc \in SvcStates /\ SvcStates \subseteq {"ok", "gone"}
    BY <2>1 DEF Prompt, TypeOK
  <2> QED
    BY <1>3, <2>1, <2>2 DEF SetService
<1>4. ASSUME CreateTGB \/ DeleteTGB \/ DeleteTargetGroup PROVE FALSE
  BY <1>4 DEF CreateTGB, DeleteTGB, DeleteTargetGroup, Alone
<1>5. ASSUME NEW t \in Target, HealthCheckFails(t) PROVE Balanced' /\ Evaluating'
  <2>1. Alone /\ UNCHANGED <<node, podIP, gate, cond, uid, pod, pc, localVars>>
    BY <1>5 DEF HealthCheckFails, Alone
  <2>2. \A u \in Target : Registered(u)' <=> Registered(u)
    BY <1>5 DEF HealthCheckFails, Registered, TypeOK
  <2> QED
    BY <2>1, <2>2, Framed DEF SamePods, Up, Unready
<1> QED
  BY <1>1, <1>2, <1>3, <1>4, <1>5 DEF Environment

\* Nor do health checks, expiries and failures.
LEMMA BackgroundSettled ==
  ASSUME TypeOK, Following, Balanced, Evaluating,
         \/ \E p \in Pod : SyncPodInfo(p)
         \/ \E t \in Target : HealthCheckPasses(t) \/ Drained(t)
         \/ ExpireTargets \/ Resync \/ ApiError \/ Crash
  PROVE  Balanced' /\ Evaluating'
<1> SUFFICES ASSUME Alone' PROVE Balanced' /\ Evaluating'
  BY DEF Balanced, Evaluating
<1> USE DEF k8sVars, podVars, awsVars, localVars
<1>1. ASSUME NEW p \in Pod, SyncPodInfo(p) PROVE FALSE
  BY <1>1 DEF SyncPodInfo, Following
<1>2. ASSUME Resync \/ ApiError \/ Crash PROVE FALSE
  BY <1>2 DEF Resync, ApiError, Crash, Return, Alone
<1>3. ASSUME ExpireTargets \/ \E t \in Target : HealthCheckPasses(t) \/ Drained(t)
      PROVE  Balanced' /\ Evaluating'
  <2>0. UNCHANGED <<tgb, svc, tg, queued, node, podIP, gate, cond, uid, pod, pc, localVars>>
    BY <1>3 DEF ExpireTargets, HealthCheckPasses, Drained
  <2>1. Alone /\ UNCHANGED <<node, podIP, gate, cond, uid, pod, pc, localVars>>
    BY <2>0 DEF Alone
  <2>2. \A u \in Target : Registered(u)' <=> Registered(u)
    BY <1>3 DEF ExpireTargets, HealthCheckPasses, Drained, Registered, TypeOK
  <2> QED
    BY <2>1, <2>2, Framed DEF SamePods, Up, Unready
<1> QED
  BY <1>1, <1>2, <1>3

\* The order of the steps: what is left to do is done before the next begins.
LEMMA MoveOnSettled ==
  ASSUME TypeOK, Balanced, Evaluating, MoveOn
  PROVE  Balanced' /\ Evaluating'
<1> SUFFICES ASSUME Alone' PROVE Balanced' /\ Evaluating'
  BY DEF Balanced, Evaluating
<1> USE DEF k8sVars, podVars, awsVars, localVars
<1>1. ASSUME Start \/ AddFinalizer \/ BackendNotFound \/ CleanListNotFound
             \/ (DeregisterFails /\ pc # "deregister") \/ (CleanDone /\ deletion)
      PROVE  Balanced' /\ Evaluating'
  <2>1. pc' \notin Matching \cup {"idle", "list"}
    BY <1>1 DEF Start, AddFinalizer, BackendNotFound, CleanListNotFound, DeregisterFails, CleanDone,
                Alone, Matching
  <2> QED
    BY <2>1 DEF Balanced, Evaluating, Matching
<1>2. ASSUME ReconcileNetworking \/ Deregistered \/ AllRegistered PROVE Balanced' /\ Evaluating'
  <2>1. /\ UNCHANGED <<tgb, svc, tg, queued, node, podIP, gate, cond, uid, pod, health>>
        /\ UNCHANGED <<endpoints, toDeregister, toRegister, patches>>
    BY <1>2 DEF ReconcileNetworking, Deregistered, AllRegistered
  <2>2. ~again'
    BY DEF Alone
  <2>3. ~again
    BY <1>2, <2>2 DEF ReconcileNetworking, Deregistered, AllRegistered
  <2>4. /\ Alone /\ UNCHANGED <<node, podIP, gate, cond, uid, pod, health>>
        /\ UNCHANGED <<endpoints, toDeregister, toRegister, patches>>
    BY <2>1, <2>3 DEF Alone
  <2>5. Due' = Due /\ Allowed' = Allowed
    BY <2>4, TargetsSame DEF Up, Unready
  <2>6. CASE pc' \notin Matching \cup {"idle", "list"}
    BY <2>6 DEF Balanced, Evaluating, Matching
  <2>7. CASE pc' \in Matching \cup {"idle", "list"}
    <3>1. /\ pc \in Matching /\ pc' \in Matching
          /\ pc' \in {"register", "patch"} => toDeregister = {}
          /\ pc' = "patch" => toRegister = {}
      BY <1>2, <2>4, <2>7 DEF ReconcileNetworking, Deregistered, AllRegistered, Matching, Balanced
    <3>2. Balanced'
      BY <2>4, <2>5, <3>1 DEF Balanced, Registered, Matching
    <3>3. Evaluating'
      BY <2>4, <3>1 DEF Evaluating, OnePerPod, Same, Up, Matching
    <3> QED
      BY <3>2, <3>3
  <2> QED
    BY <2>6, <2>7
<1> QED
  BY <1>1, <1>2 DEF MoveOn

\* A reconcile that ends without a requeue has done everything.
LEMMA EndSettled ==
  ASSUME TypeOK, Cleanup, Balanced, Evaluating, End
  PROVE  Balanced' /\ Evaluating'
<1> SUFFICES ASSUME Alone' PROVE Balanced' /\ Evaluating'
  BY DEF Balanced, Evaluating
<1> USE DEF k8sVars, podVars, awsVars
<1>1. ~\E x \in patches : PatchConflict(x)
  BY DEF PatchConflict, Return, Alone
<1>2. ~(AddFinalizerRefused \/ ListFails \/ RegisterFails \/ (DeregisterFails /\ pc = "deregister"))
  BY DEF AddFinalizerRefused, ListFails, RegisterFails, DeregisterFails, Return, Alone
<1>3. ~(CleanDone /\ ~deletion)
  BY DEF CleanDone, Return, Alone, Cleanup
<1>4. ~RemoveFinalizer
  BY DEF RemoveFinalizer, Return, Alone, Cleanup
<1>5. PatchesDone
  BY <1>1, <1>2, <1>3, <1>4 DEF End
<1>6. Alone /\ UNCHANGED <<node, podIP, gate, cond, uid, pod, health>>
  BY <1>5 DEF PatchesDone, Return, Alone
<1>7. pc = "patch" /\ patches = {} /\ toDeregister = {} /\ toRegister = {}
  BY <1>5, <1>6 DEF PatchesDone, Balanced
<1>8. pc' = "idle" /\ patches' = {} /\ toDeregister' = {} /\ toRegister' = {}
  BY <1>5 DEF PatchesDone, Return
<1>9. Due' = Due /\ Allowed' = Allowed
  BY <1>6, TargetsSame DEF Up, Unready
<1>10. Balanced'
  BY <1>6, <1>7, <1>8, <1>9 DEF Balanced, Registered, Matching
<1>11. Evaluating'
  BY <1>6, <1>7, <1>8 DEF Evaluating, OnePerPod, Up, Matching
<1> QED
  BY <1>10, <1>11

\* Calls with an answer make up the balance.
LEMMA CallSettled ==
  ASSUME TypeOK, Balanced, Evaluating, Register \/ Deregister, lost' = 0
  PROVE  Balanced' /\ Evaluating'
<1> SUFFICES ASSUME Alone' PROVE Balanced' /\ Evaluating'
  BY DEF Balanced, Evaluating
<1> USE DEF k8sVars, podVars
<1>0. lost \in Nat
  BY SMT, LimitAssumption DEF TypeOK
<1>1. ~Lost
  BY SMT, <1>0 DEF Lost
<1>2. UNCHANGED <<node, podIP, gate, cond, uid, pod, tgb, svc, tg>>
  BY DEF Register, Deregister, RegisterInAWS, DeregisterInAWS
<1>3. UNCHANGED <<pc, queued, endpoints, patches, again>>
  BY <1>1 DEF Register, Deregister
<1>4. Alone
  BY <1>2, <1>3 DEF Alone
<1>5. Due' = Due /\ Allowed' = Allowed
  BY <1>2, TargetsSame DEF Up, Unready
<1>6. Evaluating'
  BY <1>2, <1>3, <1>4 DEF Evaluating, OnePerPod, Same, Up
<1>7. ASSUME Register PROVE Balanced'
  <2>1. PICK c \in SUBSET toRegister :
          /\ health' = [t \in Target |-> IF t \in c /\ ~Registered(t) THEN "initial" ELSE health[t]]
          /\ toRegister' = toRegister \ c /\ toDeregister' = toDeregister
    BY <1>1, <1>7, ChunkType DEF Register, RegisterInAWS
  <2>2. \A t \in Target : Registered(t)' <=> Registered(t) \/ t \in c
    BY <2>1 DEF Registered
  <2>3. pc = "register"
    BY <1>7 DEF Register
  <2>4. \A t \in Target : Registered(t)' \/ t \in toRegister' <=> Registered(t) \/ t \in toRegister
    BY <2>1, <2>2
  <2>5. \A t \in Due : Registered(t)' \/ t \in toRegister'
    <3> SUFFICES ASSUME NEW t \in Due PROVE Registered(t)' \/ t \in toRegister'
      OBVIOUS
    <3>1. t \in Target
      BY DueTargets
    <3> QED
      BY <1>4, <2>3, <2>4, <3>1 DEF Balanced, Matching
  <2>6. \A t \in Target : Registered(t)' => t \in toDeregister' \cup Allowed
    BY <1>4, <2>1, <2>2, <2>3 DEF Balanced, Matching
  <2> QED
    BY <1>3, <1>4, <1>5, <2>1, <2>3, <2>5, <2>6 DEF Balanced, Matching
<1>8. ASSUME Deregister PROVE Balanced'
  <2>0. pc \notin {"idle", "list"}
    BY <1>8 DEF Deregister
  <2>1. PICK c \in SUBSET toDeregister :
          /\ health' = [t \in Target |-> IF t \in c /\ Registered(t) THEN "draining" ELSE health[t]]
          /\ toDeregister' = toDeregister \ c /\ toRegister' = toRegister
    BY <1>1, <1>8, ChunkType DEF Deregister, DeregisterInAWS
  <2>2. \A t \in Target : Registered(t)' <=> Registered(t) /\ t \notin c
    BY <2>1 DEF Registered
  <2>3. pc \in Matching => \A t \in Due : t \notin toDeregister' /\ (Registered(t)' \/ t \in toRegister')
    <3> SUFFICES ASSUME pc \in Matching, NEW t \in Due
                 PROVE  t \notin toDeregister' /\ (Registered(t)' \/ t \in toRegister')
      OBVIOUS
    <3>1. t \in Target
      BY DueTargets
    <3>2. t \notin toDeregister /\ (Registered(t) \/ t \in toRegister)
      BY <1>4 DEF Balanced
    <3> QED
      BY <2>1, <2>2, <3>1, <3>2
  <2>4. pc \in Matching =>
          /\ \A t \in Target : Registered(t)' => t \in toDeregister' \cup Allowed
          /\ toRegister' \subseteq Allowed
    BY <1>4, <2>1, <2>2 DEF Balanced
  <2>5. pc \in {"register", "patch"} => toDeregister' = {}
    BY <1>4, <2>1 DEF Balanced
  <2>6. pc = "patch" => toRegister' = {}
    BY <1>4, <2>1 DEF Balanced
  <2> QED
    BY <1>3, <1>5, <2>0, <2>3, <2>4, <2>5, <2>6 DEF Balanced
<1> QED
  BY <1>6, <1>7, <1>8

\* What is resolved is what has to be registered, unless a pod will be looked at
\* again.
LEMMA ResolveSettled ==
  ASSUME TypeOK, Prompt, Following, Resolve
  PROVE  Balanced' /\ Evaluating'
<1> SUFFICES ASSUME Alone' PROVE Balanced' /\ Evaluating'
  BY DEF Balanced, Evaluating
<1> USE DEF k8sVars, podVars, awsVars
<1>1. /\ UNCHANGED <<node, podIP, gate, cond, uid, pod>>
      /\ pc' = "list" /\ endpoints' = ResolvedEndpoints /\ again' = (TargetType = "ip" /\ PotentialReady)
  BY DEF Resolve
<1>2. Wanted' = ResolvedTargets
  BY <1>1 DEF Wanted, ResolvedTargets
<1>3. Due' = Due /\ Allowed' = Allowed
  BY <1>1, TargetsSame DEF Up, Unready
<1>4. CASE TargetType # "ip"
  BY <1>1, <1>2, <1>3, <1>4 DEF Balanced, Evaluating, Due, Allowed, Matching
<1>5. CASE TargetType = "ip"
  <2>1. ~PotentialReady
    BY <1>1, <1>5 DEF Alone
  <2>2. UnknownPods = {}
    <3>1. \A n \in Node : node[n] = "true"
      BY <1>5 DEF Prompt, TypeOK
    <3> QED
      BY <3>1, ConfigAssumption DEF UnknownPods
  <2>3. FirstNonEmpty(ReadyPods, UnknownPods) = ReadyPods
    BY <2>2 DEF FirstNonEmpty
  <2>4. ASSUME NEW p \in ReadyPods
        PROVE  p \in Pod /\ Up(p) /\ ~Unready(p) /\ podInfo[p] # NoPod /\ podInfo[p] = PodInfo(p)
    <3>1. p \in Pod /\ pod[p] # "absent" /\ podInfo[p] # NoPod /\ podInfo[p] = PodInfo(p)
      BY <2>4 DEF ReadyPods, Known, InSlice, Following
    <3>2. pod[p] \in PodStatus
      BY <3>1 DEF TypeOK
    <3>3. podInfo[p].containersReady = (pod[p] \in {"running", "terminating"})
      BY SMT, <3>1 DEF PodInfo
    <3>4. pod[p] = "running"
      BY <2>4, <3>2, <3>3 DEF ReadyPods, EndpointReady, PodStatus
    <3> QED
      BY <3>1, <3>4 DEF Up, Unready
  <2>5. ASSUME NEW p \in Pod, Up(p), ~Unready(p) PROVE p \in ReadyPods
    <3>1. pod[p] # "absent" /\ InSlice(p) /\ podInfo[p] # NoPod
      BY <2>1, <2>5 DEF Up, InSlice, PotentialReady
    <3>0. podInfo[p] = PodInfo(p)
      BY DEF Following
    <3>2. podInfo[p].containersReady = (pod[p] \in {"running", "terminating"}) /\ podInfo[p].gate = gate[p]
      BY SMT, <3>0, <3>1 DEF PodInfo
    <3>3. EndpointReady(p) \/ podInfo[p].containersReady
      BY <2>1, <2>5, <3>1, <3>2 DEF PotentialReady, Up, Unready
    <3>4. node[NodeOf[p]] = "true"
      BY <1>5, ConfigAssumption DEF Prompt, TypeOK
    <3> QED
      BY <2>5, <3>1, <3>3, <3>4 DEF ReadyPods, Known, Up
  <2>6. endpoints' = {[target |-> podIP[p], pod |-> p, info |-> podInfo[p]] : p \in ReadyPods}
    BY <1>1, <1>5, <2>3 DEF ResolvedEndpoints
  <2>7. Due = {podIP[p] : p \in ReadyPods} /\ Due \subseteq Allowed
    BY <1>5, <2>4, <2>5 DEF Due, Allowed
  <2>8. Wanted' = {podIP[p] : p \in ReadyPods}
    <3> DEFINE E(p) == [target |-> podIP[p], pod |-> p, info |-> podInfo[p]]
    <3>1. \A p : E(p).target = podIP[p]
      OBVIOUS
    <3>2. endpoints' = {E(p) : p \in ReadyPods}
      BY <2>6
    <3> HIDE DEF E
    <3> QED
      BY <3>1, <3>2 DEF Wanted
  <2>9. Balanced'
    BY <1>1, <1>3, <2>7, <2>8 DEF Balanced, Matching
  <2>10. OnePerPod(endpoints')
    BY SMT, <2>6 DEF OnePerPod
  <2>11. ASSUME NEW e \in endpoints' PROVE Same(e)'
    <3>1. PICK p \in ReadyPods : e = [target |-> podIP[p], pod |-> p, info |-> podInfo[p]]
      BY <2>6
    <3>2. e.pod = p /\ e.info = podInfo[p]
      BY <3>1
    <3>3. p \in Pod /\ Up(p) /\ podInfo[p] # NoPod /\ podInfo[p] = PodInfo(p)
      BY <2>4
    <3>4. podInfo[p].gate = gate[p] /\ podInfo[p].uid = uid[p] /\ podInfo[p].cond = cond[p]
      BY SMT, <3>3 DEF PodInfo, Up
    <3> QED
      BY <1>1, <3>2, <3>3, <3>4 DEF Same, Up
  <2>12. ASSUME NEW p \in Pod, Up(p), gate[p] PROVE \E e \in endpoints' : e.pod = p
    <3>1. p \in ReadyPods
      BY <2>5, <2>12 DEF Unready
    <3>2. [target |-> podIP[p], pod |-> p, info |-> podInfo[p]] \in endpoints'
      BY <2>6, <3>1
    <3>3. [target |-> podIP[p], pod |-> p, info |-> podInfo[p]].pod = p
      OBVIOUS
    <3> QED
      BY <3>2, <3>3
  <2>13. Evaluating'
    BY <1>1, <2>10, <2>11, <2>12 DEF Evaluating, OnePerPod, Up, Matching
  <2> QED
    BY <2>9, <2>13
<1> QED
  BY <1>4, <1>5

\* The list shows what is registered.
LEMMA ListExact ==
  ASSUME TypeOK, Covered, Backed, tg
  PROVE  NotDraining(ListedTargets) = {t \in Target : Registered(t)}
<1> SUFFICES ASSUME NEW t \in Target
             PROVE  ListedTargets[t] \notin {"none", "draining"} <=> Registered(t)
  BY DEF NotDraining
<1>1. health[t] \in Health \cup {"unused"}
  BY DEF TypeOK
<1>2. CASE Refreshed(t)
  BY <1>1, <1>2 DEF ListedTargets, Registered, Health
<1>3. CASE ~Refreshed(t)
  <2>1. targetsCache # NoEntry /\ ListedTargets[t] = targetsCache[t] /\ targetsCache[t] \in {"none", "healthy"}
    BY <1>3 DEF Refreshed, ListedTargets
  <2> QED
    BY <2>1 DEF Covered, Backed
<1> QED
  BY <1>2, <1>3

\* What is matched is what is registered and what was resolved.
LEMMA ListSettled ==
  ASSUME TypeOK, Covered, Backed, Balanced, Evaluating, List
  PROVE  Balanced' /\ Evaluating'
<1> SUFFICES ASSUME Alone' PROVE Balanced' /\ Evaluating'
  BY DEF Balanced, Evaluating
<1> USE DEF k8sVars, podVars, awsVars
<1>1. Alone /\ UNCHANGED <<node, podIP, gate, cond, uid, pod, health>>
  BY DEF List, Alone
<1>2. pc = "list" /\ pc' = "network"
  BY DEF List
<1>3. Due' = Due /\ Allowed' = Allowed
  BY <1>1, TargetsSame DEF Up, Unready
<1>4. Due \subseteq Wanted /\ Wanted \subseteq Allowed /\ Due \subseteq Target
  BY <1>1, <1>2, DueTargets DEF Balanced
<1>5. NotDraining(ListedTargets) = {t \in Target : Registered(t)}
  BY <1>1, ListExact DEF Alone
<1>6. /\ toDeregister' = {t \in Target : Registered(t)} \ Wanted
      /\ toRegister' = Wanted \ {t \in Target : Registered(t)}
  BY <1>5 DEF List
<1>7. \A t \in Target : Registered(t)' <=> Registered(t)
  BY <1>1 DEF Registered
<1>8. Balanced'
  BY <1>2, <1>3, <1>4, <1>6, <1>7 DEF Balanced, Matching
<1>9. ASSUME TargetType = "ip" PROVE Evaluating'
  <2>1. /\ OnePerPod(endpoints) /\ \A e \in endpoints : Same(e)
        /\ \A p \in Pod : Up(p) /\ gate[p] => \E e \in endpoints : e.pod = p
    BY <1>1, <1>2, <1>9 DEF Evaluating
  <2> DEFINE H(e) == IF e.target \in NotDraining(ListedTargets) THEN ListedTargets[e.target] ELSE "initial"
  <2> HIDE DEF H
  <2>2. patches' = {[pod |-> e.pod, info |-> e.info, health |-> H(e)] : e \in {x \in endpoints : x.info # NoPod}}
    BY DEF List, H
  <2>3. {x \in endpoints : x.info # NoPod} = endpoints
    BY <2>1 DEF Same
  <2>4. patches' = {[pod |-> e.pod, info |-> e.info, health |-> H(e)] : e \in endpoints}
    BY <2>2, <2>3
  <2>5. OnePerPod(patches')
    BY SMT, <2>1, <2>4 DEF OnePerPod
  <2>6. \A x \in patches' : Same(x)'
    <3> SUFFICES ASSUME NEW x \in patches' PROVE Same(x)'
      OBVIOUS
    <3>1. PICK e \in endpoints : x.pod = e.pod /\ x.info = e.info
      BY SMT, <2>4
    <3> QED
      BY <1>1, <2>1, <3>1 DEF Same, Up
  <2>7. \A p \in Pod : Up(p) /\ gate[p] => \E x \in patches' : x.pod = p
    <3> SUFFICES ASSUME NEW p \in Pod, Up(p), gate[p] PROVE \E x \in patches' : x.pod = p
      OBVIOUS
    <3>1. PICK e \in endpoints : e.pod = p
      BY <2>1
    <3>2. [pod |-> e.pod, info |-> e.info, health |-> H(e)] \in patches'
      BY <2>4
    <3>3. [pod |-> e.pod, info |-> e.info, health |-> H(e)].pod = p
      BY <3>1
    <3> QED
      BY <3>2, <3>3
  <2> QED
    BY <1>1, <1>2, <2>5, <2>6, <2>7 DEF Evaluating, OnePerPod, Up, Matching
<1>10. ASSUME TargetType # "ip" PROVE Evaluating'
  BY <1>10 DEF Evaluating
<1> QED
  BY <1>8, <1>9, <1>10

\* A pod is let through, or looked at again.
LEMMA PatchSettled ==
  ASSUME TypeOK, Balanced, Evaluating, NEW x \in patches,
         PatchSkipped(x) \/ PatchPod(x) \/ PatchNotFound(x)
  PROVE  Balanced' /\ Evaluating'
<1> SUFFICES ASSUME Alone' PROVE Balanced' /\ Evaluating'
  BY DEF Balanced, Evaluating
<1> USE DEF k8sVars, awsVars
<1>0. PICK b \in BOOLEAN : Patched(x, b) /\ (b \/ PatchNotFound(x) \/ ~NeedsProbe(x))
  BY DEF PatchSkipped, PatchPod, PatchNotFound, NeedsProbe
<1>1. /\ UNCHANGED <<node, podIP, gate, uid, pod, health, pc, endpoints, toDeregister, toRegister>>
      /\ patches' = patches \ {x} /\ pc \in {"patch", "cleanPatch"}
  BY <1>0 DEF Patched, PatchSkipped, PatchPod, PatchNotFound
<1>2. Alone /\ ~b
  <2>1. UNCHANGED <<tgb, svc, tg>> /\ again' = (again \/ b)
    BY <1>0 DEF Patched
  <2>2. queued => queued'
    BY DEF PatchSkipped, PatchPod, PatchNotFound, SliceEvent
  <2> QED
    BY <2>1, <2>2 DEF Alone
<1>3. Due' = Due /\ Allowed' = Allowed
  BY <1>1, TargetsSame DEF Up, Unready
<1>4. Balanced'
  BY <1>1, <1>2, <1>3 DEF Balanced, Registered, Matching
<1>5. CASE TargetType # "ip" \/ pc = "cleanPatch"
  BY <1>1, <1>4, <1>5 DEF Evaluating, Matching
<1>6. CASE TargetType = "ip" /\ pc = "patch"
  <2>1. /\ OnePerPod(patches) /\ \A y \in patches : Same(y)
        /\ \A p \in Pod : Up(p) /\ gate[p] => cond[p] = "true" \/ \E y \in patches : y.pod = p
    BY <1>2, <1>6 DEF Evaluating, Matching
  <2>2. /\ x.pod \in Pod /\ pod[x.pod] # "absent" /\ x.info # NoPod
        /\ x.info.gate = gate[x.pod] /\ x.info.cond = cond[x.pod]
    BY <2>1 DEF Same, Up
  <2>3. ~PatchNotFound(x)
    BY <2>2 DEF PatchNotFound
  <2>4. gate[x.pod] => StatusFor(x.health) = "true"
    BY <1>0, <1>2, <1>6, <2>2, <2>3 DEF NeedsProbe, InfoFor
  <2>5. /\ \A p \in Pod : p # x.pod => cond'[p] = cond[p]
        /\ gate[x.pod] => cond'[x.pod] = "true"
    <3>1. CASE PatchPod(x)
      <4>1. cond' = [cond EXCEPT ![x.pod] = StatusFor(x.health)] /\ cond \in [Pod -> CondStatus]
        BY <3>1 DEF PatchPod, TypeOK
      <4> QED
        BY <2>2, <2>4, <4>1
    <3>2. CASE PatchSkipped(x)
      <4>1. cond' = cond /\ ~NeedsPatch(x)
        BY <3>2 DEF PatchSkipped
      <4>2. gate[x.pod] => x.info.cond = StatusFor(x.health)
        BY <1>6, <2>2, <4>1 DEF NeedsPatch, HasGate, InfoFor
      <4> QED
        BY <2>2, <2>4, <4>1, <4>2
    <3> QED
      BY <2>3, <3>1, <3>2
  <2>6. \A y \in patches' : y \in patches /\ y.pod # x.pod
    BY <1>1, <2>1 DEF OnePerPod
  <2>7. OnePerPod(patches')
    BY <2>1, <2>6 DEF OnePerPod
  <2>8. \A y \in patches' : Same(y)'
    <3> SUFFICES ASSUME NEW y \in patches' PROVE Same(y)'
      OBVIOUS
    <3>1. Same(y) /\ y.pod # x.pod
      BY <2>1, <2>6
    <3> QED
      BY <1>1, <2>5, <3>1 DEF Same, Up
  <2>9. \A p \in Pod : Up(p)' /\ gate'[p] => cond'[p] = "true" \/ \E y \in patches' : y.pod = p
    <3> SUFFICES ASSUME NEW p \in Pod, Up(p)', gate'[p], cond'[p] # "true"
                 PROVE  \E y \in patches' : y.pod = p
      OBVIOUS
    <3>1. Up(p) /\ gate[p] /\ p # x.pod /\ cond[p] # "true"
      BY <1>1, <2>5 DEF Up
    <3>2. PICK y \in patches : y.pod = p
      BY <2>1, <3>1
    <3> QED
      BY <1>1, <3>1, <3>2
  <2>10. Evaluating'
    BY <1>1, <1>6, <2>7, <2>8, <2>9 DEF Evaluating, OnePerPod, Matching
  <2> QED
    BY <1>4, <2>10
<1> QED
  BY <1>1, <1>5, <1>6

\* Cleanup is not a reconcile that settles.
LEMMA CleanSettled ==
  ASSUME CleanList \/ CleanNetworking
  PROVE  Balanced' /\ Evaluating'
BY DEF CleanList, CleanNetworking, Balanced, Evaluating, Matching

\* Only a deregistration of which nothing is recorded leaves a target in the
\* cache that is not there.
LEMMA BackedKept == ASSUME TypeOK, Backed, Next, lost' = 0 PROVE Backed'
<1> USE DEF k8sVars, podVars, awsVars, localVars
<1>1. CASE UNCHANGED <<tg, health, targetsCache>>
  BY <1>1 DEF Backed, Registered
<1>2. CASE DeleteTargetGroup
  BY <1>2 DEF Backed, DeleteTargetGroup
<1>3. ASSUME NEW t \in Target, HealthCheckFails(t) \/ HealthCheckPasses(t) \/ Drained(t) PROVE Backed'
  <2>1. \A u \in Target : Registered(u)' <=> Registered(u)
    BY <1>3 DEF HealthCheckFails, HealthCheckPasses, Drained, Registered, TypeOK
  <2>2. UNCHANGED <<tg, targetsCache>>
    BY <1>3 DEF HealthCheckFails, HealthCheckPasses, Drained
  <2> QED
    BY <2>1, <2>2 DEF Backed
<1>4. CASE ExpireTargets \/ Crash
  BY <1>4 DEF ExpireTargets, Crash, Backed
<1>5. CASE List \/ CleanList
  <2>1. targetsCache' = ListedTargets /\ UNCHANGED <<tg, health>>
    BY <1>5 DEF List, CleanList
  <2>2. ASSUME NEW t \in Target, tg, ListedTargets[t] = "healthy" PROVE Registered(t)
    <3>1. CASE Refreshed(t)
      BY <2>2, <3>1 DEF ListedTargets, Registered
    <3>2. CASE ~Refreshed(t)
      BY <2>2, <3>2 DEF ListedTargets, Refreshed, Backed
    <3> QED
      BY <3>1, <3>2
  <2> QED
    BY <2>1, <2>2 DEF Backed, Registered
<1>6. ASSUME Register \/ Deregister PROVE Backed'
  <2>0. lost \in Nat
    BY SMT, LimitAssumption DEF TypeOK
  <2>1. ~Lost
    BY SMT, <2>0 DEF Lost
  <2>2. CASE Register
    <3>1. PICK c : RegisterInAWS(c) /\ RecordRegister(c)
      BY <2>1, <2>2 DEF Register
    <3> QED
      BY <3>1 DEF RegisterInAWS, RecordRegister, Registered, Backed
  <2>3. CASE Deregister
    <3>1. PICK c : DeregisterInAWS(c) /\ RecordDeregister(c)
      BY <2>1, <2>3 DEF Deregister
    <3> QED
      BY <3>1 DEF DeregisterInAWS, RecordDeregister, Registered, Backed
  <2> QED
    BY <1>6, <2>2, <2>3
<1>7. CASE Environment /\ ~DeleteTargetGroup /\ ~\E t \in Target : HealthCheckFails(t)
  <2>1. UNCHANGED <<tg, health, targetsCache>>
    BY <1>7 DEF Environment, CreatePod, SetContainersReady, TerminatePod, DeletePod, SetNode, SetService,
                CreateTGB, DeleteTGB
  <2> QED
    BY <1>1, <2>1
<1>8. CASE MoveOn
  <2>1. UNCHANGED <<tg, health, targetsCache>>
    BY <1>8 DEF MoveOn, Start, AddFinalizer, BackendNotFound, ReconcileNetworking, Deregistered,
                AllRegistered, CleanListNotFound, DeregisterFails, CleanDone
  <2> QED
    BY <1>1, <2>1
<1>9. CASE End
  <2>1. UNCHANGED <<tg, health, targetsCache>>
    BY <1>9 DEF End, AddFinalizerRefused, ListFails, RegisterFails, PatchesDone, PatchConflict,
                DeregisterFails, CleanDone, RemoveFinalizer
  <2> QED
    BY <1>1, <2>1
<1>10. CASE \/ \E p \in Pod : SyncPodInfo(p)
            \/ Resync \/ ApiError \/ Resolve \/ CleanNetworking
            \/ \E x \in patches : PatchSkipped(x) \/ PatchPod(x) \/ PatchNotFound(x)
  <2>1. UNCHANGED <<tg, health, targetsCache>>
    BY <1>10 DEF SyncPodInfo, Resync, ApiError, Resolve, CleanNetworking, PatchSkipped, PatchPod,
                 PatchNotFound, Patched
  <2> QED
    BY <1>1, <2>1
<1> QED
  BY <1>2, <1>3, <1>4, <1>5, <1>6, <1>7, <1>8, <1>9, <1>10, NextGroups

\* Where the pod cache does not lag, it shows the pods as they are.
LEMMA OnePodFollows ==
  ASSUME TypeOK, ~PodCacheLag, Following, NEW p \in Pod, CacheFollows(p),
         \A q \in Pod \ {p} : /\ pod'[q] = pod[q] /\ gate'[q] = gate[q]
                              /\ cond'[q] = cond[q] /\ uid'[q] = uid[q]
  PROVE  Following'
<1> SUFFICES ASSUME NEW q \in Pod PROVE podInfo'[q] = PodInfo(q)'
  BY DEF Following
<1>1. podInfo' = [podInfo EXCEPT ![p] = PodInfo(p)'] /\ podInfo \in [Pod -> PodInfos]
  BY DEF CacheFollows, TypeOK
<1>2. CASE q = p
  BY <1>1, <1>2
<1>3. CASE q # p
  <2>1. podInfo'[q] = podInfo[q] /\ podInfo[q] = PodInfo(q)
    BY <1>1, <1>3 DEF Following
  <2>2. PodInfo(q)' = PodInfo(q)
    BY <1>3 DEF PodInfo
  <2> QED
    BY <2>1, <2>2
<1> QED
  BY <1>2, <1>3

LEMMA FollowingKept == ASSUME TypeOK, ~PodCacheLag, Following, Next PROVE Following'
<1> USE DEF k8sVars, podVars, awsVars, localVars
<1>1. CASE UNCHANGED <<pod, gate, cond, uid, podInfo>>
  BY <1>1 DEF Following, PodInfo
<1>2. ASSUME NEW p \in Pod,
             \/ \E a \in Addr : CreatePod(p, a)
             \/ \E s \in {"starting", "running"} : SetContainersReady(p, s)
             \/ TerminatePod(p) \/ DeletePod(p)
      PROVE  Following'
  <2>1. CacheFollows(p)
    BY <1>2 DEF CreatePod, SetContainersReady, TerminatePod, DeletePod
  <2>2. \A q \in Pod \ {p} : pod'[q] = pod[q]
    BY <1>2 DEF CreatePod, SetContainersReady, TerminatePod, DeletePod, TypeOK
  <2>3. \A q \in Pod \ {p} : gate'[q] = gate[q]
    BY <1>2 DEF CreatePod, SetContainersReady, TerminatePod, DeletePod, TypeOK
  <2>4. \A q \in Pod \ {p} : cond'[q] = cond[q]
    BY <1>2 DEF CreatePod, SetContainersReady, TerminatePod, DeletePod, TypeOK
  <2>5. \A q \in Pod \ {p} : uid'[q] = uid[q]
    BY <1>2 DEF CreatePod, SetContainersReady, TerminatePod, DeletePod, TypeOK
  <2> QED
    BY <2>1, <2>2, <2>3, <2>4, <2>5, OnePodFollows
<1>3. ASSUME NEW x \in patches, PatchPod(x) PROVE Following'
  <2>1. x.pod \in Pod /\ CacheFollows(x.pod) /\ UNCHANGED <<pod, gate, uid>>
    BY <1>3 DEF TypeOK, PatchPod, Patched
  <2>2. \A q \in Pod \ {x.pod} : cond'[q] = cond[q]
    BY <1>3, <2>1 DEF PatchPod, TypeOK
  <2> QED
    BY <2>1, <2>2, OnePodFollows
<1>4. ASSUME NEW p \in Pod, SyncPodInfo(p) PROVE Following'
  BY <1>4 DEF SyncPodInfo, Following
<1>5. CASE Crash
  BY <1>5 DEF Crash, Following, PodInfo
<1>6. CASE \/ \E n \in Node, s \in NodeStates : SetNode(n, s)
           \/ \E s \in SvcStates : SetService(s)
           \/ CreateTGB \/ DeleteTGB \/ DeleteTargetGroup
           \/ \E t \in Target : HealthCheckFails(t)
           \/ \E t \in Target : HealthCheckPasses(t) \/ Drained(t)
           \/ ExpireTargets \/ Resync
  <2>1. UNCHANGED <<pod, gate, cond, uid, podInfo>>
    BY <1>6 DEF SetNode, SetService, CreateTGB, DeleteTGB, DeleteTargetGroup, HealthCheckFails,
                HealthCheckPasses, Drained, ExpireTargets, Resync
  <2> QED
    BY <1>1, <2>1
<1>7. CASE MoveOn \/ Resolve \/ CleanNetworking
  <2>1. UNCHANGED <<pod, gate, cond, uid, podInfo>>
    BY <1>7 DEF MoveOn, Start, AddFinalizer, BackendNotFound, ReconcileNetworking, Deregistered,
                AllRegistered, CleanListNotFound, DeregisterFails, CleanDone, Resolve, CleanNetworking
  <2> QED
    BY <1>1, <2>1
<1>8. CASE End \/ ApiError
  <2>1. UNCHANGED <<pod, gate, cond, uid, podInfo>>
    BY <1>8 DEF End, AddFinalizerRefused, ListFails, RegisterFails, PatchesDone, PatchConflict,
                DeregisterFails, CleanDone, RemoveFinalizer, ApiError
  <2> QED
    BY <1>1, <2>1
<1>9. CASE \/ Register \/ Deregister \/ List \/ CleanList
           \/ \E x \in patches : PatchSkipped(x) \/ PatchNotFound(x)
  <2>1. UNCHANGED <<pod, gate, cond, uid, podInfo>>
    BY <1>9 DEF Register, Deregister, List, CleanList, PatchSkipped, PatchNotFound, Patched
  <2> QED
    BY <1>1, <2>1
<1> QED
  BY <1>2, <1>3, <1>4, <1>5, <1>6, <1>7, <1>8, <1>9, NextGroups DEF Environment

\* A reconcile that has ended has left nothing.
LEMMA EndedKept == ASSUME Ended, Next PROVE Ended'
<1> USE DEF k8sVars, podVars, awsVars, localVars
<1>1. ASSUME UNCHANGED <<pc, localVars>> PROVE Ended'
  BY <1>1 DEF Ended
<1>2. ASSUME NEW b, Return(b) PROVE Ended'
  BY <1>2 DEF Return, Ended
<1>3. ASSUME pc' # "idle" PROVE Ended'
  BY <1>3 DEF Ended
<1>4. CASE Environment
  BY <1>1, <1>4 DEF Environment, CreatePod, SetContainersReady, TerminatePod, DeletePod, SetNode,
                    SetService, CreateTGB, DeleteTGB, DeleteTargetGroup, HealthCheckFails
<1>5. CASE \/ \E p \in Pod : SyncPodInfo(p)
           \/ \E t \in Target : HealthCheckPasses(t) \/ Drained(t)
           \/ ExpireTargets \/ Resync
  BY <1>1, <1>5 DEF SyncPodInfo, HealthCheckPasses, Drained, ExpireTargets, Resync
<1>6. CASE End \/ ApiError \/ Crash
  BY <1>2, <1>6 DEF End, AddFinalizerRefused, ListFails, RegisterFails, PatchesDone, PatchConflict,
                    DeregisterFails, CleanDone, RemoveFinalizer, ApiError, Crash
<1>7. CASE Start
  BY <1>7 DEF Start, Ended
<1>8. CASE MoveOn /\ ~Start
  BY <1>3, <1>8 DEF MoveOn, AddFinalizer, BackendNotFound, ReconcileNetworking, Deregistered,
                    AllRegistered, CleanListNotFound, DeregisterFails, CleanDone
<1>9. CASE Register \/ Deregister
  BY <1>2, <1>3, <1>9 DEF Register, Deregister
<1>10. CASE \/ Resolve \/ List \/ CleanList \/ CleanNetworking
            \/ \E x \in patches : PatchSkipped(x) \/ PatchPod(x) \/ PatchNotFound(x)
  BY <1>3, <1>10 DEF Resolve, List, CleanList, CleanNetworking, PatchSkipped, PatchPod, PatchNotFound,
                     Patched
<1> QED
  BY <1>4, <1>5, <1>6, <1>7, <1>8, <1>9, <1>10, NextGroups

\* A backend or a binding that comes back while it is cleaned up is queued.
LEMMA CleanupKept == ASSUME TypeOK, Prompt, Cleanup, Next PROVE Cleanup'
<1> USE DEF k8sVars, podVars, awsVars, localVars
<1> DEFINE CleanPcs == {"cleanList", "cleanDeregister", "cleanNetwork", "cleanPatch", "removeFinalizer"}
<1>1. ASSUME pc' \in CleanPcs => pc \in CleanPcs, queued => queued', UNCHANGED <<tgb, svc>> PROVE Cleanup'
  BY <1>1 DEF Cleanup
<1>2. ASSUME pc' \notin CleanPcs PROVE Cleanup'
  BY <1>2 DEF Cleanup
<1>3. ASSUME queued' \/ tgb' # "live" \/ svc' # "ok" PROVE Cleanup'
  BY <1>3 DEF Cleanup
<1> HIDE DEF CleanPcs
<1>4. CASE \/ \E p \in Pod, a \in Addr : CreatePod(p, a)
           \/ \E p \in Pod, s \in {"starting", "running"} : SetContainersReady(p, s)
           \/ \E p \in Pod : TerminatePod(p) \/ DeletePod(p)
           \/ \E n \in Node, s \in NodeStates : SetNode(n, s)
           \/ DeleteTargetGroup
           \/ \E t \in Target : HealthCheckFails(t)
  BY <1>1, <1>4 DEF CreatePod, SetContainersReady, TerminatePod, DeletePod, SetNode, SliceEvent,
                    DeleteTargetGroup, HealthCheckFails
<1>5. CASE CreateTGB \/ DeleteTGB
  BY <1>3, <1>5 DEF CreateTGB, DeleteTGB
<1>6. ASSUME NEW s \in SvcStates, SetService(s) PROVE Cleanup'
  <2>1. CASE s # "ok"
    BY <1>3, <1>6, <2>1 DEF SetService
  <2>2. CASE s = "ok" /\ TargetType = "ip"
    <3>1. svc = "gone"
      BY <1>6, <2>2 DEF SetService, Prompt, TypeOK
    <3> QED
      BY <1>3, <1>6, <3>1 DEF SetService
  <2>3. CASE TargetType = "instance"
    BY <1>3, <1>6, <2>3 DEF SetService
  <2> QED
    BY <2>1, <2>2, <2>3, ConfigAssumption
<1>7. CASE \/ \E p \in Pod : SyncPodInfo(p)
           \/ \E t \in Target : HealthCheckPasses(t) \/ Drained(t)
           \/ ExpireTargets \/ Resync
  BY <1>1, <1>7 DEF SyncPodInfo, HealthCheckPasses, Drained, ExpireTargets, Resync
<1>8. CASE End \/ ApiError \/ Crash
  BY <1>2, <1>8 DEF End, AddFinalizerRefused, ListFails, RegisterFails, PatchesDone, PatchConflict,
                    DeregisterFails, CleanDone, RemoveFinalizer, ApiError, Crash, Return, CleanPcs
<1>9. CASE Start \/ BackendNotFound
  BY <1>2, <1>3, <1>9 DEF Start, BackendNotFound, CleanPcs
<1>10. CASE MoveOn /\ ~Start /\ ~BackendNotFound
  BY <1>1, <1>2, <1>10 DEF MoveOn, AddFinalizer, ReconcileNetworking, Deregistered, AllRegistered,
                           CleanListNotFound, DeregisterFails, CleanDone, CleanPcs
<1>11. CASE Register \/ Deregister
  BY <1>1, <1>2, <1>11 DEF Register, Deregister, Return, CleanPcs
<1>12. CASE Resolve \/ List \/ CleanList \/ CleanNetworking
  BY <1>1, <1>2, <1>12 DEF Resolve, List, CleanList, CleanNetworking, CleanPcs
<1>13. CASE \E x \in patches : PatchSkipped(x) \/ PatchPod(x) \/ PatchNotFound(x)
  <2>1. queued => queued'
    BY <1>13 DEF PatchSkipped, PatchPod, PatchNotFound, SliceEvent
  <2>2. UNCHANGED <<pc, tgb, svc>>
    BY <1>13 DEF PatchSkipped, PatchPod, PatchNotFound, Patched
  <2> QED
    BY <1>1, <2>1, <2>2
<1> QED
  BY <1>4, <1>5, <1>6, <1>7, <1>8, <1>9, <1>10, <1>11, <1>12, <1>13, NextGroups DEF Environment

LEMMA SettledUnchanged == ASSUME TypeOK, Settled, UNCHANGED vars PROVE Settled'
<1> USE DEF vars, k8sVars, podVars, awsVars, localVars
<1>1. Backed' /\ Following' /\ Ended' /\ Cleanup'
  BY DEF Settled, Backed, Registered, Following, PodInfo, Ended, Cleanup
<1>2. CASE ~Alone
  BY <1>1, <1>2 DEF Settled, Balanced, Evaluating, Alone
<1>3. CASE Alone
  <2>1. \A t \in Target : Registered(t)' <=> Registered(t)
    BY DEF Registered
  <2>2. SamePods
    BY DEF SamePods, Up, Unready
  <2>3. Balanced' /\ Evaluating'
    BY <1>3, <2>1, <2>2, Framed DEF Settled
  <2> QED
    BY <1>1, <2>3 DEF Settled
<1> QED
  BY <1>2, <1>3

LEMMA SettledNext ==
  ASSUME Prompt, TypeOK, Covered, Settled, Next, lost' = 0
  PROVE  Settled'
<1>1. Backed' /\ Following' /\ Ended' /\ Cleanup'
  BY BackedKept, FollowingKept, EndedKept, CleanupKept DEF Settled, Prompt
<1>2. Balanced' /\ Evaluating'
  BY NextGroups, EnvironmentSettled, BackgroundSettled, MoveOnSettled, EndSettled, CallSettled,
     ResolveSettled, ListSettled, CleanSettled, PatchSettled DEF Settled
<1> QED
  BY <1>1, <1>2 DEF Settled

\* What has to be registered is what a reconcile would resolve, and pods that are
\* allowed and would not be resolved are starting.
LEMMA SettledConverged == ASSUME Prompt, TypeOK, Settled PROVE Converged
<1> SUFFICES ASSUME Quiet PROVE Converged
  BY DEF Converged
<1>1. Alone /\ pc = "idle" /\ toDeregister = {} /\ patches = {} /\ toRegister = {}
  BY DEF Quiet, Settled, Ended, Alone
<1>2. /\ \A t \in Due : Registered(t)
      /\ \A t \in Target : Registered(t) => t \in Allowed
  BY <1>1 DEF Settled, Balanced, Matching
<1>3. CASE TargetType # "ip"
  <2>1. \A e \in ResolvedEndpoints : e.info = NoPod /\ e.target \in Due
    BY SMT, <1>3 DEF ResolvedEndpoints, Due, ResolvedTargets
  <2>2. Allowed = ResolvedTargets
    BY <1>3 DEF Allowed
  <2> QED
    BY <1>2, <2>1, <2>2 DEF Converged
<1>4. CASE TargetType = "ip"
  <2>1. \A n \in Node : node[n] = "true"
    BY <1>4 DEF Prompt, TypeOK
  <2>2. UnknownPods = {}
    BY <2>1, ConfigAssumption DEF UnknownPods
  <2>3. ResolvedEndpoints = {[target |-> podIP[p], pod |-> p, info |-> podInfo[p]] : p \in ReadyPods}
    BY <1>4, <2>2 DEF ResolvedEndpoints, FirstNonEmpty
  <2>4. \A p \in Pod : pod[p] # "absent" => /\ podInfo[p] # NoPod /\ podInfo[p].gate = gate[p]
                                           /\ podInfo[p].containersReady = (pod[p] \in {"running", "terminating"})
    <3> SUFFICES ASSUME NEW p \in Pod, pod[p] # "absent"
                 PROVE  /\ podInfo[p] # NoPod /\ podInfo[p].gate = gate[p]
                        /\ podInfo[p].containersReady = (pod[p] \in {"running", "terminating"})
      OBVIOUS
    <3>1. podInfo[p] = [containersReady |-> pod[p] \in {"running", "terminating"},
                        gate |-> gate[p], cond |-> cond[p], uid |-> uid[p]]
      BY DEF Settled, Following, PodInfo
    <3>2. gate[p] \in BOOLEAN /\ cond[p] \in CondStatus /\ uid[p] \in Nat
      BY DEF TypeOK
    <3>3. podInfo[p] \in [containersReady : BOOLEAN, gate : BOOLEAN, cond : CondStatus, uid : Nat]
      BY SMT, <3>1, <3>2
    <3>4. podInfo[p] # NoPod
      BY <3>3, NoPodAssumption
    <3> QED
      BY SMT, <3>1, <3>4
  <2>5. ASSUME NEW p \in Pod PROVE p \in ReadyPods <=> pod[p] = "running"
    <3>1. pod[p] \in PodStatus
      BY DEF TypeOK
    <3>2. node[NodeOf[p]] = "true"
      BY <2>1, ConfigAssumption
    <3> QED
      BY <2>4, <3>1, <3>2 DEF ReadyPods, Known, InSlice, EndpointReady, PodStatus
  <2>6. ASSUME NEW e \in ResolvedEndpoints
        PROVE  Registered(e.target) /\ (e.info # NoPod /\ e.info.gate => cond[e.pod] = "true")
    <3>1. PICK p \in ReadyPods : e = [target |-> podIP[p], pod |-> p, info |-> podInfo[p]]
      BY <2>3
    <3>2. e.target = podIP[p] /\ e.pod = p /\ e.info = podInfo[p]
      BY <3>1
    <3>3. p \in Pod
      BY DEF ReadyPods
    <3>4. pod[p] = "running"
      BY <2>5, <3>3
    <3>5. podIP[p] \in Due
      BY <1>4, <3>3, <3>4 DEF Due, Up, Unready
    <3>6. gate[p] => cond[p] = "true"
      BY <1>1, <1>4, <3>3, <3>4 DEF Settled, Evaluating, Up
    <3>7. podInfo[p].gate = gate[p]
      BY <2>4, <3>3, <3>4
    <3> QED
      BY <1>2, <3>2, <3>5, <3>6, <3>7
  <2>7. ASSUME NEW t \in Target, Registered(t)
        PROVE  t \in ResolvedTargets \/ \E p \in Pod : pod[p] = "starting" /\ podIP[p] = t
    <3>1. PICK p \in Pod : Up(p) /\ podIP[p] = t
      BY <1>2, <1>4, <2>7 DEF Allowed
    <3>2. CASE pod[p] = "running"
      <4>1. [target |-> podIP[p], pod |-> p, info |-> podInfo[p]] \in ResolvedEndpoints
        BY <2>3, <2>5, <3>2
      <4>2. [target |-> podIP[p], pod |-> p, info |-> podInfo[p]].target = t
        BY <3>1
      <4> QED
        BY <4>1, <4>2 DEF ResolvedTargets
    <3> QED
      BY <3>1, <3>2 DEF Up
  <2> QED
    BY <2>6, <2>7 DEF Converged
<1> QED
  BY <1>3, <1>4

\* When the work queue has nothing left for a binding, its endpoints are registered,
\* nothing else is but the pods whose containers stopped being ready behind their
\* gates, and gated pods have been let through: in any history of pods, faults and
\* restarts, as long as the pod cache follows at once, no answer of AWS was lost
\* and, with IP targets, nodes stay ready and the service keeps its port.
THEOREM SettledAtRest == ASSUME Prompt PROVE Spec => [](lost = 0 => Converged)
<1> DEFINE AtRest == lost = 0 => Settled
<1>1. Init => AtRest
  <2> SUFFICES ASSUME Init PROVE Settled
    OBVIOUS
  <2>1. ~Alone
    BY DEF Init, Alone
  <2>2. Following
    BY DEF Init, Following, PodInfo
  <2>3. Backed /\ Ended /\ Cleanup
    BY DEF Init, Backed, Ended, Cleanup
  <2> QED
    BY <2>1, <2>2, <2>3 DEF Settled, Balanced, Evaluating
<1>2. ASSUME TypeOK, Guarding, AtRest, [Next]_vars PROVE AtRest'
  <2> SUFFICES ASSUME lost' = 0 PROVE Settled'
    OBVIOUS
  <2>1. Covered /\ Settled
    BY <1>2, LostStays DEF Guarding, Outlive
  <2> QED
    BY <1>2, <2>1, SettledUnchanged, SettledNext
<1>3. TypeOK /\ AtRest => (lost = 0 => Converged)
  BY SettledConverged
<1> HIDE DEF AtRest
<1> QED
  BY <1>1, <1>2, <1>3, TypeCorrect, OutliveAlways, PTL DEF Spec

=============================================================================
