------------------------- MODULE TargetGroupBinding -------------------------
(***************************************************************************)
(* The reconcile loop of one TargetGroupBinding: its controller            *)
(* (controllers/elbv2), the resource manager and the targets manager with  *)
(* its cache (pkg/targetgroupbinding), the endpoint resolver (pkg/backend) *)
(* and the readiness gate webhook (pkg/inject), together with the world    *)
(* they react to: pods, nodes, the service, the informers' events and the  *)
(* target group in AWS.                                                    *)
(*                                                                         *)
(* The work queue runs one reconcile per binding at a time, so the         *)
(* interleavings are those of the single reconcile with its surroundings:  *)
(* pods come and go between the moment it resolves the endpoints, the      *)
(* moment it lists the targets and the moment it patches the pods.         *)
(***************************************************************************)
EXTENDS Naturals, FiniteSets

CONSTANTS
  TargetType,   \* "ip" or "instance"
  Pod,          \* pod names; a name may be used again by a later pod
  Addr,         \* pod IPs
  Node,         \* nodes, named by their instance ids
  NodeOf,       \* the node a pod of this name runs on
  FailOpen,     \* the failOpenEnabled option
  ChunkSize,    \* registerTargetsChunkSize and deregisterTargetsChunkSize
  SvcStates,    \* the states the service may take: "ok", "noport", "gone"
  NodeStates,   \* the Ready conditions nodes may take: "true", "unknown", "false"
  PodCacheLag,  \* whether the pod cache may lag behind the API server
  NoPod, NoEntry,
  MaxEvents,    \* bound on changes made by users, kubelets and health checks
  MaxFaults,    \* bound on failed API calls and crashes
  MaxLost       \* bound on AWS calls that take effect but return an error

ASSUME ConfigAssumption ==
  /\ TargetType \in {"ip", "instance"}
  /\ FailOpen \in BOOLEAN /\ PodCacheLag \in BOOLEAN
  /\ NodeOf \in [Pod -> Node]
  /\ SvcStates \subseteq {"ok", "noport", "gone"}
  /\ NodeStates \subseteq {"true", "unknown", "false"}
ASSUME SizeAssumption == ChunkSize \in Nat \ {0}
ASSUME LimitAssumption == MaxEvents \in Nat /\ MaxFaults \in Nat /\ MaxLost \in Nat

Target == IF TargetType = "ip" THEN Addr ELSE Node

PodStatus == {"absent", "starting", "running", "terminating"}
CondStatus == {"none", "unknown", "false", "true"}
Health == {"initial", "healthy", "unhealthy", "draining"}

\* A pod that is not there differs from every pod that is.
ASSUME NoPodAssumption ==
  NoPod \notin [containersReady : BOOLEAN, gate : BOOLEAN, cond : CondStatus, uid : Nat]

VARIABLES
  (* Kubernetes *)
  tgb,         \* "absent", "live" or "deleting"
  fin,         \* whether it carries the controller's finalizer
  svc,         \* the service and the port the binding refers to
  node,        \* Ready condition of each node ("false" also: unsuitable)
  pod, podIP, gate, cond, uid,
  podInfo,     \* the pod cache (PodInfoRepo)
  queued,      \* whether the binding is in the work queue
  (* AWS *)
  tg,          \* whether the target group exists
  health,      \* "unused" or the health of each registered target
  wasHealthy,  \* history: healthy since it was last registered
  (* cachedTargetsManager *)
  targetsCache,
  (* the running reconcile *)
  pc,
  endpoints,   \* resolved endpoints: [target, pod, info]
  toDeregister, toRegister,
  patches,     \* pods whose condition is still to be updated: [pod, info, health]
  again,       \* whether to requeue at the end
  deletion,    \* whether Cleanup runs for a deleted binding
  (* bounds *)
  events, faults, lost

k8sVars == <<tgb, fin, svc, node>>
podVars == <<pod, podIP, gate, cond, uid>>
awsVars == <<tg, health, wasHealthy>>
localVars == <<endpoints, toDeregister, toRegister, patches, again, deletion>>
boundVars == <<events, faults, lost>>
vars == <<k8sVars, podVars, podInfo, queued, awsVars, targetsCache, pc, localVars, boundVars>>

Pcs == {"idle", "addFinalizer", "resolve", "list", "network", "deregister", "register",
        "patch", "cleanList", "cleanDeregister", "cleanNetwork", "cleanPatch",
        "removeFinalizer"}

\* What the pod cache keeps of a pod.
PodInfo(p) ==
  IF pod[p] = "absent" THEN NoPod
  ELSE [containersReady |-> pod[p] \in {"running", "terminating"},
        gate |-> gate[p], cond |-> cond[p], uid |-> uid[p]]

Init ==
  /\ tgb = "absent" /\ fin = FALSE
  /\ svc \in SvcStates
  /\ node \in [Node -> NodeStates]
  /\ pod = [p \in Pod |-> "absent"]
  /\ podIP \in [Pod -> Addr]
  /\ gate = [p \in Pod |-> FALSE]
  /\ cond = [p \in Pod |-> "none"]
  /\ uid = [p \in Pod |-> 0]
  /\ podInfo = [p \in Pod |-> NoPod]
  /\ queued = FALSE
  /\ tg = TRUE
  /\ health = [t \in Target |-> "unused"]
  /\ wasHealthy = [t \in Target |-> FALSE]
  /\ targetsCache = NoEntry
  /\ pc = "idle"
  /\ endpoints = {} /\ toDeregister = {} /\ toRegister = {} /\ patches = {}
  /\ again = FALSE /\ deletion = FALSE
  /\ events = 0 /\ faults = 0 /\ lost = 0

Event == events < MaxEvents /\ events' = events + 1
Fault == faults < MaxFaults /\ faults' = faults + 1
Lost == lost < MaxLost /\ lost' = lost + 1

-----------------------------------------------------------------------------
(* Endpoints, as the endpoint slices show them. *)

InSlice(p) == pod[p] # "absent"
EndpointReady(p) == pod[p] = "running" /\ (gate[p] => cond[p] = "true")

\* A binding with IP targets is enqueued when the endpoint slices change.
SliceEvent(changed) ==
  queued' = (queued \/ (changed /\ TargetType = "ip" /\ svc # "gone"))

\* Without lag the pod cache follows every change at once.
CacheFollows(p) ==
  podInfo' = IF PodCacheLag THEN podInfo ELSE [podInfo EXCEPT ![p] = PodInfo(p)']

\* A pod is created; the webhook gives it the readiness gate of the binding.
CreatePod(p, a) ==
  /\ Event
  /\ pod[p] = "absent"
  /\ \A q \in Pod : pod[q] # "absent" => podIP[q] # a
  /\ pod' = [pod EXCEPT ![p] = "starting"]
  /\ podIP' = [podIP EXCEPT ![p] = a]
  /\ gate' = [gate EXCEPT ![p] = TargetType = "ip" /\ tgb # "absent" /\ svc # "gone"]
  /\ cond' = [cond EXCEPT ![p] = "none"]
  /\ uid' = [uid EXCEPT ![p] = @ + 1]
  /\ UNCHANGED <<k8sVars, awsVars, targetsCache, pc, localVars, faults, lost>>
  /\ CacheFollows(p)
  /\ SliceEvent(TRUE)

\* The containers get ready, or stop being ready.
SetContainersReady(p, s) ==
  /\ Event
  /\ pod[p] \in {"starting", "running"} /\ pod[p] # s
  /\ pod' = [pod EXCEPT ![p] = s]
  /\ UNCHANGED <<k8sVars, podIP, gate, cond, uid, awsVars, targetsCache, pc, localVars,
                 faults, lost>>
  /\ CacheFollows(p)
  /\ SliceEvent(EndpointReady(p) # EndpointReady(p)')

TerminatePod(p) ==
  /\ Event
  /\ pod[p] = "running"
  /\ pod' = [pod EXCEPT ![p] = "terminating"]
  /\ UNCHANGED <<k8sVars, podIP, gate, cond, uid, awsVars, targetsCache, pc, localVars,
                 faults, lost>>
  /\ CacheFollows(p)
  /\ SliceEvent(TRUE)

DeletePod(p) ==
  /\ Event
  /\ pod[p] # "absent"
  /\ pod' = [pod EXCEPT ![p] = "absent"]
  /\ UNCHANGED <<k8sVars, podIP, gate, cond, uid, awsVars, targetsCache, pc, localVars,
                 faults, lost>>
  /\ CacheFollows(p)
  /\ SliceEvent(TRUE)

\* The watch delivers the pod's latest state.
SyncPodInfo(p) ==
  /\ podInfo[p] # PodInfo(p)
  /\ podInfo' = [podInfo EXCEPT ![p] = PodInfo(p)]
  /\ UNCHANGED <<k8sVars, podVars, queued, awsVars, targetsCache, pc, localVars, boundVars>>

-----------------------------------------------------------------------------
(* Nodes, the service, the binding and the target group. *)

\* Mutant: node events enqueue nothing.
SetNodeSilently(n, s) ==
  /\ Event
  /\ node[n] # s
  /\ node' = [node EXCEPT ![n] = s]
  /\ UNCHANGED <<tgb, fin, svc, podVars, podInfo, queued, awsVars, targetsCache, pc, localVars,
                 faults, lost>>

\* Only bindings with instance targets are enqueued by node events; every
\* change of the Ready condition of a suitable node counts.
SetNode(n, s) ==
  /\ Event
  /\ node[n] # s
  /\ node' = [node EXCEPT ![n] = s]
  /\ queued' = (queued \/ TargetType = "instance")
  /\ UNCHANGED <<tgb, fin, svc, podVars, podInfo, awsVars, targetsCache, pc, localVars,
                 faults, lost>>

\* Service events enqueue only bindings with instance targets.  Those with IP
\* targets see the endpoint slices appear and disappear with the service, but
\* a slice does not hold the service's port numbers.
SetService(s) ==
  /\ Event
  /\ svc # s
  /\ svc' = s
  /\ queued' = (queued \/ TargetType = "instance" \/ "gone" \in {s, svc})
  /\ UNCHANGED <<tgb, fin, node, podVars, podInfo, awsVars, targetsCache, pc, localVars,
                 faults, lost>>

CreateTGB ==
  /\ Event
  /\ tgb = "absent"
  /\ tgb' = "live" /\ fin' = FALSE
  /\ queued' = TRUE
  /\ UNCHANGED <<svc, node, podVars, podInfo, awsVars, targetsCache, pc, localVars,
                 faults, lost>>

DeleteTGB ==
  /\ Event
  /\ tgb = "live"
  /\ tgb' = IF fin THEN "deleting" ELSE "absent"
  /\ queued' = TRUE
  /\ UNCHANGED <<fin, svc, node, podVars, podInfo, awsVars, targetsCache, pc, localVars,
                 faults, lost>>

\* The informer's periodic resync (sync-period, 10 hours by default).
Resync ==
  /\ tgb # "absent" /\ ~queued
  /\ queued' = TRUE
  /\ UNCHANGED <<k8sVars, podVars, podInfo, awsVars, targetsCache, pc, localVars, boundVars>>

DeleteTargetGroup ==
  /\ Event
  /\ tg
  /\ tg' = FALSE
  /\ health' = [t \in Target |-> "unused"]
  /\ UNCHANGED <<k8sVars, podVars, podInfo, queued, wasHealthy, targetsCache, pc, localVars,
                 faults, lost>>

\* The health checks of the load balancer.
HealthCheckPasses(t) ==
  /\ health[t] \in {"initial", "unhealthy"}
  /\ health' = [health EXCEPT ![t] = "healthy"]
  /\ wasHealthy' = [wasHealthy EXCEPT ![t] = TRUE]
  /\ UNCHANGED <<k8sVars, podVars, podInfo, queued, tg, targetsCache, pc, localVars, boundVars>>

HealthCheckFails(t) ==
  /\ Event
  /\ health[t] \in {"initial", "healthy"}
  /\ health' = [health EXCEPT ![t] = "unhealthy"]
  /\ UNCHANGED <<k8sVars, podVars, podInfo, queued, tg, wasHealthy, targetsCache, pc,
                 localVars, faults, lost>>

Drained(t) ==
  /\ health[t] = "draining"
  /\ health' = [health EXCEPT ![t] = "unused"]
  /\ UNCHANGED <<k8sVars, podVars, podInfo, queued, tg, wasHealthy, targetsCache, pc,
                 localVars, boundVars>>

\* The entry of the targets cache reaches its TTL.
ExpireTargets ==
  /\ targetsCache # NoEntry
  /\ targetsCache' = NoEntry
  /\ UNCHANGED <<k8sVars, podVars, podInfo, queued, awsVars, pc, localVars, boundVars>>

-----------------------------------------------------------------------------
(* One reconcile. *)

Return(requeue) ==
  /\ pc' = "idle"
  /\ queued' = (queued \/ requeue)
  /\ endpoints' = {} /\ toDeregister' = {} /\ toRegister' = {} /\ patches' = {}
  /\ again' = FALSE /\ deletion' = FALSE

\* Take the binding off the queue and read it.
Start ==
  /\ pc = "idle" /\ queued
  /\ queued' = FALSE
  /\ pc' = IF tgb = "live" THEN "addFinalizer"
           ELSE IF tgb = "deleting" /\ fin THEN "cleanList" ELSE "idle"
  /\ deletion' = (tgb = "deleting" /\ fin)
  /\ UNCHANGED <<k8sVars, podVars, podInfo, awsVars, targetsCache, endpoints,
                 toDeregister, toRegister, patches, again, boundVars>>

AddFinalizer ==
  /\ pc = "addFinalizer"
  /\ tgb = "live" \/ fin
  /\ fin' = TRUE
  /\ pc' = "resolve"
  /\ UNCHANGED <<tgb, svc, node, podVars, podInfo, queued, awsVars, targetsCache, localVars,
                 boundVars>>

\* The binding was deleted before it got the finalizer.
AddFinalizerRefused ==
  /\ pc = "addFinalizer"
  /\ tgb # "live" /\ ~fin
  /\ Return(TRUE)
  /\ UNCHANGED <<k8sVars, podVars, podInfo, awsVars, targetsCache, boundVars>>

\* ResolvePodEndpoints: ready endpoints, and unready ones whose containers are
\* ready on a ready node; failing open, those on a node in unknown condition.
Known(p) == InSlice(p) /\ podInfo[p] # NoPod

ReadyPods ==
  {p \in Pod : Known(p) /\ (EndpointReady(p) \/ (/\ podInfo[p].containersReady
                                                 /\ node[NodeOf[p]] = "true"
                                                 /\ pod[p] # "terminating"))}

UnknownPods ==
  {p \in Pod : /\ Known(p) /\ ~EndpointReady(p) /\ podInfo[p].containersReady
               /\ node[NodeOf[p]] = "unknown"}

\* Unready endpoints that may become ready without an event.
PotentialReady ==
  \E p \in Pod : InSlice(p) /\ (podInfo[p] = NoPod \/ (/\ ~EndpointReady(p)
                                                       /\ ~podInfo[p].containersReady
                                                       /\ podInfo[p].gate))

\* ResolveNodePortEndpoints.
NodesIn(s) == {n \in Node : node[n] = s}

FirstNonEmpty(S, T) == IF S = {} /\ FailOpen THEN T ELSE S

ResolvedEndpoints ==
  IF TargetType = "ip"
  THEN {[target |-> podIP[p], pod |-> p, info |-> podInfo[p]] :
          p \in FirstNonEmpty(ReadyPods, UnknownPods)}
  ELSE {[target |-> n, pod |-> NoPod, info |-> NoPod] :
          n \in FirstNonEmpty(NodesIn("true"), NodesIn("unknown"))}

Resolve ==
  /\ pc = "resolve" /\ svc = "ok"
  /\ endpoints' = ResolvedEndpoints
  /\ again' = (TargetType = "ip" /\ PotentialReady)
  /\ pc' = "list"
  /\ UNCHANGED <<k8sVars, podVars, podInfo, queued, awsVars, targetsCache, toDeregister,
                 toRegister, patches, deletion, boundVars>>

\* ErrNotFound: the service or its port does not exist.
BackendNotFound ==
  /\ pc = "resolve" /\ svc # "ok"
  /\ pc' = "cleanList"
  /\ UNCHANGED <<k8sVars, podVars, podInfo, queued, awsVars, targetsCache, localVars, boundVars>>

-----------------------------------------------------------------------------
(* cachedTargetsManager *)

\* Cached targets that are healthy are not asked for again.
Refreshed(t) == targetsCache # NoEntry => targetsCache[t] \notin {"none", "healthy"}

ListedTargets ==
  [t \in Target |-> IF ~Refreshed(t) THEN targetsCache[t]
                    ELSE IF health[t] = "unused" THEN "none" ELSE health[t]]

\* A call to AWS is made unless the entry holds nothing to refresh.
CallsAWS == targetsCache # NoEntry => \E t \in Target : Refreshed(t)

ListAnswers == CallsAWS => tg

\* The targets manager splits a call into chunks.
Chunks(S) ==
  {c \in SUBSET S : Cardinality(c) = IF Cardinality(S) < ChunkSize THEN Cardinality(S) ELSE ChunkSize}

Registered(t) == health[t] \in {"initial", "healthy", "unhealthy"}

RegisterInAWS(c) ==
  /\ health' = [t \in Target |-> IF t \in c /\ ~Registered(t) THEN "initial" ELSE health[t]]
  /\ wasHealthy' = [t \in Target |-> wasHealthy[t] /\ (t \in c => Registered(t))]
  /\ UNCHANGED tg

DeregisterInAWS(c) ==
  /\ health' = [t \in Target |-> IF t \in c /\ Registered(t) THEN "draining" ELSE health[t]]
  /\ wasHealthy' = [t \in Target |-> wasHealthy[t] /\ t \notin c]
  /\ UNCHANGED tg

\* Mutant: only targets that are in the cache already are updated.
RecordRegisterKnown(c) ==
  targetsCache' = IF targetsCache = NoEntry THEN NoEntry
                  ELSE [t \in Target |-> IF t \in c /\ targetsCache[t] # "none" THEN "nil"
                                         ELSE targetsCache[t]]

RecordRegister(c) ==
  targetsCache' = IF targetsCache = NoEntry THEN NoEntry
                  ELSE [t \in Target |-> IF t \in c THEN "nil" ELSE targetsCache[t]]

RecordDeregister(c) ==
  targetsCache' = IF targetsCache = NoEntry THEN NoEntry
                  ELSE [t \in Target |-> IF t \in c /\ targetsCache[t] # "none" THEN "nil"
                                         ELSE targetsCache[t]]

-----------------------------------------------------------------------------
(* List and match. *)

\* Mutant: draining targets count as registered.
NotDrainingAll(l) == {t \in Target : l[t] # "none"}

NotDraining(l) == {t \in Target : l[t] \notin {"none", "draining"}}

Wanted == {e.target : e \in endpoints}

List ==
  /\ pc = "list" /\ ListAnswers
  /\ targetsCache' = ListedTargets
  /\ toDeregister' = NotDraining(ListedTargets) \ Wanted
  /\ toRegister' = Wanted \ NotDraining(ListedTargets)
  /\ patches' = {[pod |-> e.pod, info |-> e.info,
                  health |-> IF e.target \in NotDraining(ListedTargets)
                             THEN ListedTargets[e.target] ELSE "initial"] :
                   e \in {x \in endpoints : x.info # NoPod}}
  /\ endpoints' = {}
  /\ pc' = "network"
  /\ UNCHANGED <<k8sVars, podVars, podInfo, queued, awsVars, again, deletion, boundVars>>

ListFails ==
  /\ pc = "list" /\ ~ListAnswers
  /\ Return(TRUE)
  /\ UNCHANGED <<k8sVars, podVars, podInfo, awsVars, targetsCache, boundVars>>

\* The networking manager; with IP targets its error only causes a requeue.
ReconcileNetworking ==
  /\ pc = "network"
  /\ pc' = "deregister"
  /\ \/ UNCHANGED <<again, faults>>
     \/ Fault /\ TargetType = "ip" /\ again' = TRUE
  /\ UNCHANGED <<k8sVars, podVars, podInfo, queued, awsVars, targetsCache, endpoints,
                 toDeregister, toRegister, patches, deletion, events, lost>>

Deregister ==
  /\ pc \in {"deregister", "cleanDeregister"} /\ tg
  /\ \E c \in Chunks(toDeregister) \ {{}} :
       /\ DeregisterInAWS(c)
       /\ \/ /\ RecordDeregister(c)
             /\ toDeregister' = toDeregister \ c
             /\ UNCHANGED <<pc, queued, endpoints, toRegister, patches, again, deletion, lost>>
          \/ /\ Lost
             /\ Return(TRUE)
             /\ UNCHANGED targetsCache
  /\ UNCHANGED <<k8sVars, podVars, podInfo, events, faults>>

\* Mutant: Cleanup returns the error too.
DeregisterFailsAlways ==
  /\ pc \in {"deregister", "cleanDeregister"} /\ ~tg /\ toDeregister # {}
  /\ Return(TRUE)
  /\ UNCHANGED <<k8sVars, podVars, podInfo, awsVars, targetsCache, boundVars>>

\* The target group is gone: an error, which Cleanup ignores.
DeregisterFails ==
  /\ pc \in {"deregister", "cleanDeregister"} /\ ~tg /\ toDeregister # {}
  /\ IF pc = "deregister"
     THEN Return(TRUE)
     ELSE /\ pc' = "cleanNetwork"
          /\ toDeregister' = {}
          /\ UNCHANGED <<queued, endpoints, toRegister, patches, again, deletion>>
  /\ UNCHANGED <<k8sVars, podVars, podInfo, awsVars, targetsCache, boundVars>>

Deregistered ==
  /\ pc \in {"deregister", "cleanDeregister"} /\ toDeregister = {}
  /\ pc' = IF pc = "deregister" THEN "register" ELSE "cleanNetwork"
  /\ UNCHANGED <<k8sVars, podVars, podInfo, queued, awsVars, targetsCache, localVars, boundVars>>

Register ==
  /\ pc = "register" /\ tg
  /\ \E c \in Chunks(toRegister) \ {{}} :
       /\ RegisterInAWS(c)
       /\ \/ /\ RecordRegister(c)
             /\ toRegister' = toRegister \ c
             /\ UNCHANGED <<pc, queued, endpoints, toDeregister, patches, again, deletion, lost>>
          \/ /\ Lost
             /\ Return(TRUE)
             /\ UNCHANGED targetsCache
  /\ UNCHANGED <<k8sVars, podVars, podInfo, events, faults>>

RegisterFails ==
  /\ pc = "register" /\ ~tg /\ toRegister # {}
  /\ Return(TRUE)
  /\ UNCHANGED <<k8sVars, podVars, podInfo, awsVars, targetsCache, boundVars>>

AllRegistered ==
  /\ pc = "register" /\ toRegister = {}
  /\ pc' = "patch"
  /\ UNCHANGED <<k8sVars, podVars, podInfo, queued, awsVars, targetsCache, localVars, boundVars>>

-----------------------------------------------------------------------------
(* Pod conditions. *)

StatusFor(h) == IF h = "nil" THEN "unknown" ELSE IF h = "healthy" THEN "true" ELSE "false"

\* Reconcile works on the pods it resolved, Cleanup reads each pod as it comes.
InfoFor(x) == IF pc = "cleanPatch" THEN podInfo[x.pod] ELSE x.info

HasGate(x) == InfoFor(x) # NoPod /\ InfoFor(x).gate

\* The condition differs in its status from what the pod cache shows.  When it
\* does not, a patch is made only if the reason or the message differs.
NeedsPatch(x) == HasGate(x) /\ InfoFor(x).cond # StatusFor(x.health)

\* Mutant: only a target of unknown health needs another look.
NeedsProbeUnknown(x) ==
  pc = "patch" /\ InfoFor(x).gate /\ StatusFor(x.health) = "unknown"

\* A pod whose target is not healthy needs another look.
NeedsProbe(x) ==
  pc = "patch" /\ InfoFor(x).gate /\ StatusFor(x.health) # "true"

Patched(x, probe) ==
  /\ patches' = patches \ {x}
  /\ again' = (again \/ probe)
  /\ UNCHANGED <<k8sVars, podIP, gate, uid, pod, awsVars, targetsCache, pc, endpoints,
                 toDeregister, toRegister, deletion, boundVars>>

PatchSkipped(x) ==
  /\ pc \in {"patch", "cleanPatch"} /\ x \in patches
  /\ ~NeedsPatch(x)
  /\ Patched(x, NeedsProbe(x))
  /\ UNCHANGED <<cond, podInfo, queued>>

\* Mutant: the patch carries no uid.
PatchPodByName(x) ==
  /\ pc \in {"patch", "cleanPatch"} /\ x \in patches
  /\ HasGate(x)
  /\ pod[x.pod] # "absent"
  /\ cond' = [cond EXCEPT ![x.pod] = StatusFor(x.health)]
  /\ Patched(x, NeedsProbe(x))
  /\ CacheFollows(x.pod)
  /\ SliceEvent(EndpointReady(x.pod) # EndpointReady(x.pod)')

\* The patch carries the uid of the pod that was evaluated.
PatchPod(x) ==
  /\ pc \in {"patch", "cleanPatch"} /\ x \in patches
  /\ HasGate(x)
  /\ pod[x.pod] # "absent" /\ uid[x.pod] = InfoFor(x).uid
  /\ cond' = [cond EXCEPT ![x.pod] = StatusFor(x.health)]
  /\ Patched(x, NeedsProbe(x))
  /\ CacheFollows(x.pod)
  /\ SliceEvent(EndpointReady(x.pod) # EndpointReady(x.pod)')

PatchNotFound(x) ==
  /\ pc \in {"patch", "cleanPatch"} /\ x \in patches
  /\ HasGate(x)
  /\ pod[x.pod] = "absent"
  /\ Patched(x, FALSE)
  /\ UNCHANGED <<cond, podInfo, queued>>

\* A later pod of the same name.
PatchConflict(x) ==
  /\ pc \in {"patch", "cleanPatch"} /\ x \in patches
  /\ HasGate(x)
  /\ pod[x.pod] # "absent" /\ uid[x.pod] # InfoFor(x).uid
  /\ Return(TRUE)
  /\ UNCHANGED <<k8sVars, podVars, podInfo, awsVars, targetsCache, boundVars>>

PatchesDone ==
  /\ pc = "patch" /\ patches = {}
  /\ Return(again)
  /\ UNCHANGED <<k8sVars, podVars, podInfo, awsVars, targetsCache, boundVars>>

-----------------------------------------------------------------------------
(* Cleanup: of a deleted binding, or of one whose backend is not found. *)

CleanList ==
  /\ pc = "cleanList" /\ ListAnswers
  /\ targetsCache' = ListedTargets
  /\ toDeregister' = {t \in Target : ListedTargets[t] # "none"}
  /\ pc' = "cleanDeregister"
  /\ UNCHANGED <<k8sVars, podVars, podInfo, queued, awsVars, endpoints, toRegister, patches,
                 again, deletion, boundVars>>

\* TargetGroupNotFound is not an error here.
CleanListNotFound ==
  /\ pc = "cleanList" /\ ~ListAnswers
  /\ pc' = "cleanNetwork"
  /\ UNCHANGED <<k8sVars, podVars, podInfo, queued, awsVars, targetsCache, localVars, boundVars>>

CleanNetworking ==
  /\ pc = "cleanNetwork"
  /\ patches' = {[pod |-> p, info |-> NoPod, health |-> "healthy"] :
                   p \in {q \in Pod : podInfo[q] # NoPod}}
  /\ pc' = "cleanPatch"
  /\ UNCHANGED <<k8sVars, podVars, podInfo, queued, awsVars, targetsCache, endpoints,
                 toDeregister, toRegister, again, deletion, boundVars>>

CleanDone ==
  /\ pc = "cleanPatch" /\ patches = {}
  /\ IF deletion
     THEN pc' = "removeFinalizer" /\ UNCHANGED <<queued, localVars>>
     ELSE Return(FALSE)
  /\ UNCHANGED <<k8sVars, podVars, podInfo, awsVars, targetsCache, boundVars>>

RemoveFinalizer ==
  /\ pc = "removeFinalizer"
  /\ fin' = FALSE
  /\ tgb' = IF tgb = "deleting" THEN "absent" ELSE tgb
  /\ Return(FALSE)
  /\ UNCHANGED <<svc, node, podVars, podInfo, awsVars, targetsCache, boundVars>>

-----------------------------------------------------------------------------
(* Failures. *)

\* An API call fails without effect: the error puts the binding back in the queue.
ApiError ==
  /\ Fault
  /\ \/ pc \in {"addFinalizer", "resolve", "patch", "cleanNetwork", "cleanPatch",
                "removeFinalizer"}
     \/ pc \in {"list", "cleanList"} /\ CallsAWS
     \/ pc \in {"deregister", "cleanDeregister"} /\ toDeregister # {}
     \/ pc = "register" /\ toRegister # {}
     \/ pc = "network" /\ TargetType = "instance"
  /\ Return(TRUE)
  /\ UNCHANGED <<k8sVars, podVars, podInfo, awsVars, targetsCache, events, lost>>

\* The controller restarts with empty caches, waits for its informers to list
\* everything, and enqueues every binding.
Crash ==
  /\ Fault
  /\ Return(TRUE)
  /\ targetsCache' = NoEntry
  /\ podInfo' = [p \in Pod |-> PodInfo(p)]
  /\ UNCHANGED <<k8sVars, podVars, awsVars, events, lost>>

-----------------------------------------------------------------------------

Environment ==
  \/ \E p \in Pod, a \in Addr : CreatePod(p, a)
  \/ \E p \in Pod, s \in {"starting", "running"} : SetContainersReady(p, s)
  \/ \E p \in Pod : TerminatePod(p) \/ DeletePod(p)
  \/ \E n \in Node, s \in NodeStates : SetNode(n, s)
  \/ \E s \in SvcStates : SetService(s)
  \/ CreateTGB \/ DeleteTGB \/ DeleteTargetGroup
  \/ \E t \in Target : HealthCheckFails(t)

Proceed ==
  \/ AddFinalizer \/ AddFinalizerRefused \/ Resolve \/ BackendNotFound
  \/ List \/ ListFails \/ ReconcileNetworking
  \/ Deregister \/ DeregisterFails \/ Deregistered
  \/ Register \/ RegisterFails \/ AllRegistered
  \/ \E x \in patches : PatchSkipped(x) \/ PatchPod(x) \/ PatchNotFound(x) \/ PatchConflict(x)
  \/ PatchesDone
  \/ CleanList \/ CleanListNotFound \/ CleanNetworking \/ CleanDone \/ RemoveFinalizer

Next ==
  \/ Environment
  \/ \E p \in Pod : SyncPodInfo(p)
  \/ \E t \in Target : HealthCheckPasses(t) \/ Drained(t)
  \/ ExpireTargets \/ Resync
  \/ Start \/ Proceed
  \/ ApiError \/ Crash

Spec == Init /\ [][Next]_vars

\* The work queue hands out the binding, a running reconcile goes on, the watches
\* deliver, and the health checks of a registered target pass in the end.  Users,
\* kubelets, errors and crashes owe nothing.
Fairness ==
  /\ WF_vars(Start) /\ WF_vars(Proceed)
  /\ \A p \in Pod : WF_vars(SyncPodInfo(p))
  /\ \A t \in Target : WF_vars(HealthCheckPasses(t))

FairSpec == Spec /\ Fairness

\* The same on the time scale of the resync period and the TTL of the targets cache.
ResyncSpec == FairSpec /\ WF_vars(Resync) /\ WF_vars(ExpireTargets)

-----------------------------------------------------------------------------
(* Properties *)

PodInfos == [containersReady : BOOLEAN, gate : BOOLEAN, cond : CondStatus, uid : Nat] \cup {NoPod}

\* The types of the variables: pods, nodes and the binding, the target group in AWS
\* and the cached copy of it, and the endpoints and targets a reconcile works on.
TypeOK ==
  /\ tgb \in {"absent", "live", "deleting"} /\ fin \in BOOLEAN
  /\ svc \in SvcStates /\ node \in [Node -> NodeStates]
  /\ pod \in [Pod -> PodStatus] /\ podIP \in [Pod -> Addr] /\ gate \in [Pod -> BOOLEAN]
  /\ cond \in [Pod -> CondStatus] /\ uid \in [Pod -> Nat]
  /\ podInfo \in [Pod -> PodInfos]
  /\ queued \in BOOLEAN
  /\ tg \in BOOLEAN /\ health \in [Target -> Health \cup {"unused"}]
  /\ wasHealthy \in [Target -> BOOLEAN]
  /\ targetsCache \in [Target -> Health \cup {"none", "nil"}] \cup {NoEntry}
  /\ pc \in Pcs
  /\ endpoints \subseteq [target : Target, pod : Pod, info : PodInfos]
                       \cup [target : Target, pod : {NoPod}, info : {NoPod}]
  /\ toDeregister \subseteq Target /\ toRegister \subseteq Target
  /\ patches \subseteq [pod : Pod, info : PodInfos, health : Health]
  /\ again \in BOOLEAN /\ deletion \in BOOLEAN
  /\ events \in 0..MaxEvents /\ faults \in 0..MaxFaults /\ lost \in 0..MaxLost

\* Nothing is left to do: the queue and the worker are idle, the watches have
\* delivered, and the binding, its backend and its target group exist.
Quiet ==
  /\ pc = "idle" /\ ~queued
  /\ tgb = "live" /\ svc = "ok" /\ tg
  /\ \A p \in Pod : podInfo[p] = PodInfo(p)

ResolvedTargets == {e.target : e \in ResolvedEndpoints}

\* When the work queue has nothing left for a binding, every endpoint that a new
\* reconcile would resolve is registered, and a gated pod among them has been let
\* through; every other registered target is the address of a pod whose containers
\* stopped being ready behind its gate, which raises no event.  No requeue decision
\* forgets an endpoint or a target.
Converged ==
  Quiet =>
    /\ \A e \in ResolvedEndpoints :
         Registered(e.target) /\ (e.info # NoPod /\ e.info.gate => cond[e.pod] = "true")
    /\ \A t \in Target :
         Registered(t) => t \in ResolvedTargets \/ \E p \in Pod : pod[p] = "starting" /\ podIP[p] = t

\* A pod's condition is set to True by a reconcile only if the health checks of
\* its target have passed since the target was last registered, whatever was
\* cached, retried or replaced in between, as long as no answer of AWS was lost.
ReadyOnlyHealthy ==
  [][lost = 0 => \A p \in DOMAIN pod : pc = "patch" /\ cond'[p] = "true" /\ cond[p] # "true"
                                          => wasHealthy[podIP[p]]]_vars

\* When a binding is gone, no target it registered is left in the target group:
\* the finalizer is removed after the deregistration, through errors, expiries of
\* the targets cache and restarts, as long as no answer of AWS was lost.
NoTargetOutlives == lost = 0 /\ tgb = "absent" => \A t \in Target : ~Registered(t)

\* A binding whose deletion was requested goes away.
DeletionCompletes == (tgb = "deleting") ~> (tgb # "deleting")

\* The endpoint of p is there to be served, or not any more.
Serving(p) == pod[p] = "running" /\ tgb = "live"
Interrupted(p) ==
  pod[p] # "running" \/ tgb # "live" \/ svc # "ok" \/ ~tg \/ node[NodeOf[p]] # "true"

\* A gated pod whose containers are ready is let through by its readiness gate.
PodLetThrough ==
  \A p \in Pod : Serving(p) /\ gate[p] ~> cond[p] = "true" \/ Interrupted(p)

\* Whatever event or answer was lost, and however stale the caches were, the
\* resync and the TTL of the targets cache see to it that a running pod is
\* registered in the end.
PodRegistered == \A p \in Pod : Serving(p) ~> Registered(podIP[p]) \/ Interrupted(p)

=============================================================================
