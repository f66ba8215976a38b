------------------------------ MODULE BackendSG ------------------------------
(***************************************************************************)
(* The shared backend security group and the two reconcile loops that use  *)
(* it: pkg/networking/backend_sg_provider.go, the ingress group reconciler *)
(* (controllers/ingress/group_controller.go), the service reconciler       *)
(* (controllers/service/service_controller.go) and the finalizer managers. *)
(*                                                                         *)
(* A key is one work-queue item: an ingress group or a service.  The work  *)
(* queue runs at most one reconcile per key, and any number of keys run at *)
(* the same time, so pc is indexed by key.  A resource is an Ingress or a  *)
(* Service; a service is the only resource of its own key.  The reconcile  *)
(* of a key works on the members it read at its start while users go on    *)
(* editing the objects.                                                    *)
(***************************************************************************)
EXTENDS Naturals, FiniteSets

CONSTANTS
  Group,      \* ingress groups
  Ingress,    \* Ingress objects
  Service,    \* Service objects
  SGID,       \* ids that EC2 may hand out for the backend security group
  MayJoin,    \* MayJoin[r]: the keys that resource r may ever belong to
  NoKey, NoSG, NoLB,
  MaxEdits,   \* bound on user edits
  MaxFaults   \* bound on failed API calls and controller crashes

Key == Group \cup Service
Resource == Ingress \cup Service

ASSUME KindAssumption ==
  /\ Ingress \cap Service = {}
  /\ Group \cap Service = {}
  /\ MayJoin \in [Resource -> SUBSET Key]
  /\ \A i \in Ingress : MayJoin[i] \subseteq Group
  /\ \A s \in Service : MayJoin[s] = {s}
ASSUME NullAssumption == NoKey \notin Key /\ NoSG \notin SGID /\ NoLB \notin SGID \cup {NoSG}
ASSUME BoundAssumption == MaxEdits \in Nat /\ MaxFaults \in Nat

VARIABLES
  (* Kubernetes objects *)
  obj,              \* "absent", "live" or "deleting" (deletionTimestamp set)
  group,            \* the key an object asks for, NoKey when unsupported
  fin,              \* the keys whose finalizer the object carries
  wants,            \* whether the settings of a key call for the backend SG
  (* defaultBackendSGProvider *)
  objectsMap,       \* "none", "required" (true) or "idle" (false)
  autoGeneratedSG,
  mutex,
  (* AWS *)
  ec2SG,            \* existing backend security groups
  usedSG,           \* ids handed out so far
  lb,               \* NoLB, or the backend SG attached to the key's LB (or NoSG)
  (* reconcile of each key *)
  pc, members, inactive, required, sgOf, todo, failed,
  (* bounds *)
  edits, faults

k8sVars == <<obj, group, fin, wants>>
providerVars == <<objectsMap, autoGeneratedSG, mutex>>
awsVars == <<ec2SG, usedSG, lb>>
localVars == <<members, inactive, required, sgOf, todo, failed>>
boundVars == <<edits, faults>>
vars == <<k8sVars, providerVars, awsVars, pc, localVars, boundVars>>

Pcs == {"idle", "addFinalizers", "build", "get", "allocate", "read", "deploy",
        "release", "range", "list", "lock", "range2", "list2", "delete",
        "forget", "removeFinalizers"}

Init ==
  /\ obj = [r \in Resource |-> "absent"]
  /\ group = [r \in Resource |-> NoKey]
  /\ fin = [r \in Resource |-> {}]
  /\ wants \in [Key -> BOOLEAN]
  /\ objectsMap = [r \in Resource |-> "none"]
  /\ autoGeneratedSG = NoSG
  /\ mutex = NoKey
  /\ ec2SG = {} /\ usedSG = {}
  /\ lb = [k \in Key |-> NoLB]
  /\ pc = [k \in Key |-> "idle"]
  /\ members = [k \in Key |-> {}]
  /\ inactive = [k \in Key |-> {}]
  /\ required = [k \in Key |-> FALSE]
  /\ sgOf = [k \in Key |-> NoSG]
  /\ todo = [k \in Key |-> {}]
  /\ failed = [k \in Key |-> FALSE]
  /\ edits = 0 /\ faults = 0

-----------------------------------------------------------------------------
(* Users: create, edit and delete objects. *)

Edit == edits < MaxEdits /\ edits' = edits + 1

Create(r, k) ==
  /\ Edit
  /\ obj[r] = "absent"
  /\ obj' = [obj EXCEPT ![r] = "live"]
  /\ group' = [group EXCEPT ![r] = k]
  /\ UNCHANGED <<fin, wants, providerVars, awsVars, pc, localVars, faults>>

\* A new group name, class or service type; NoKey leaves every group.
Regroup(r, k) ==
  /\ Edit
  /\ obj[r] = "live" /\ group[r] # k
  /\ group' = [group EXCEPT ![r] = k]
  /\ UNCHANGED <<obj, fin, wants, providerVars, awsVars, pc, localVars, faults>>

\* The security-groups and manage-backend-security-group-rules annotations.
ChangeWants(k) ==
  /\ Edit
  /\ wants' = [wants EXCEPT ![k] = ~@]
  /\ UNCHANGED <<obj, group, fin, providerVars, awsVars, pc, localVars, faults>>

\* The API server keeps the object until its last finalizer is removed.
UserDelete(r) ==
  /\ Edit
  /\ obj[r] = "live"
  /\ obj' = [obj EXCEPT ![r] = IF fin[r] = {} THEN "absent" ELSE "deleting"]
  /\ UNCHANGED <<group, fin, wants, providerVars, awsVars, pc, localVars, faults>>

-----------------------------------------------------------------------------
(* One reconcile. *)

Goto(k, p) == pc' = [pc EXCEPT ![k] = p]

\* The reconcile returns; its local variables are gone.
Return(k) ==
  /\ Goto(k, "idle")
  /\ members' = [members EXCEPT ![k] = {}]
  /\ inactive' = [inactive EXCEPT ![k] = {}]
  /\ required' = [required EXCEPT ![k] = FALSE]
  /\ sgOf' = [sgOf EXCEPT ![k] = NoSG]
  /\ todo' = [todo EXCEPT ![k] = {}]
  /\ failed' = [failed EXCEPT ![k] = FALSE]

Fault == faults < MaxFaults /\ faults' = faults + 1

ActiveMembers(k) == {r \in Resource : obj[r] = "live" /\ group[r] = k}

\* Mutant: members that are still active count as inactive too.
InactiveMembersAll(k) == {r \in Resource : obj[r] # "absent" /\ k \in fin[r]}

\* Mutant: objects being deleted are not members any more, active or inactive.
InactiveMembersLive(k) ==
  {r \in Resource : obj[r] = "live" /\ k \in fin[r]} \ ActiveMembers(k)

InactiveMembers(k) ==
  {r \in Resource : obj[r] # "absent" /\ k \in fin[r]} \ ActiveMembers(k)

\* Load the group, or get the service: the snapshot the reconcile works on.
Load(k) ==
  /\ pc[k] = "idle"
  /\ k \in Service => ActiveMembers(k) # {} \/ InactiveMembers(k) # {}
  /\ members' = [members EXCEPT ![k] = ActiveMembers(k)]
  /\ inactive' = [inactive EXCEPT ![k] = InactiveMembers(k)]
  /\ todo' = [todo EXCEPT ![k] = ActiveMembers(k)]
  /\ Goto(k, IF k \in Group THEN "addFinalizers" ELSE "build")
  /\ UNCHANGED <<k8sVars, providerVars, awsVars, required, sgOf, failed, boundVars>>

\* The API server refuses a new finalizer on an object that is being deleted,
\* and Get fails on one that is gone.
MayFinalize(k, r) == obj[r] = "live" \/ (obj[r] = "deleting" /\ k \in fin[r])

\* One AddFinalizers call.
AddFinalizer(k, r) ==
  /\ pc[k] = "addFinalizers" /\ r \in todo[k]
  /\ MayFinalize(k, r)
  /\ fin' = [fin EXCEPT ![r] = @ \cup {k}]
  /\ todo' = [todo EXCEPT ![k] = @ \ {r}]
  /\ UNCHANGED <<obj, group, wants, providerVars, awsVars, pc, members, inactive,
                 required, sgOf, failed, boundVars>>

AddFinalizerRefused(k, r) ==
  /\ pc[k] = "addFinalizers" /\ r \in todo[k]
  /\ ~MayFinalize(k, r)
  /\ Return(k)
  /\ UNCHANGED <<k8sVars, providerVars, awsVars, boundVars>>

FinalizersAdded(k) ==
  /\ pc[k] = "addFinalizers" /\ todo[k] = {}
  /\ Goto(k, IF k \in Group THEN "build" ELSE "deploy")
  /\ UNCHANGED <<k8sVars, providerVars, awsVars, localVars, boundVars>>

AfterBuild(k) == IF k \in Service THEN "addFinalizers" ELSE "deploy"

\* Build the model; only a group with members that calls for it asks for the SG.
Build(k) ==
  /\ pc[k] = "build"
  /\ LET req == members[k] # {} /\ wants[k]
     IN  /\ required' = [required EXCEPT ![k] = req]
         /\ Goto(k, IF req THEN "get" ELSE AfterBuild(k))
  /\ UNCHANGED <<k8sVars, providerVars, awsVars, members, inactive, sgOf, todo,
                 failed, boundVars>>

-----------------------------------------------------------------------------
(* defaultBackendSGProvider.Get *)

\* Lock the mutex and record the members; a known SG ends the critical section.
GetSG(k) ==
  /\ pc[k] = "get" /\ mutex = NoKey
  /\ objectsMap' = [r \in Resource |-> IF r \in members[k] THEN "required" ELSE objectsMap[r]]
  /\ IF autoGeneratedSG # NoSG
     THEN Goto(k, "read") /\ mutex' = NoKey
     ELSE Goto(k, "allocate") /\ mutex' = k
  /\ UNCHANGED <<k8sVars, autoGeneratedSG, awsVars, localVars, boundVars>>

\* Mutant: no lookup before the creation.
AllocateSGBlind(k) ==
  /\ pc[k] = "allocate"
  /\ \E id \in SGID \ usedSG :
       autoGeneratedSG' = id /\ ec2SG' = ec2SG \cup {id} /\ usedSG' = usedSG \cup {id}
  /\ mutex' = NoKey
  /\ Goto(k, "read")
  /\ UNCHANGED <<k8sVars, objectsMap, lb, localVars, boundVars>>

\* Find the SG by its tags, or create it.
AllocateSG(k) ==
  /\ pc[k] = "allocate"
  /\ IF ec2SG # {}
     THEN autoGeneratedSG' \in ec2SG /\ UNCHANGED <<ec2SG, usedSG>>
     ELSE \E id \in SGID \ usedSG :
            autoGeneratedSG' = id /\ ec2SG' = {id} /\ usedSG' = usedSG \cup {id}
  /\ mutex' = NoKey
  /\ Goto(k, "read")
  /\ UNCHANGED <<k8sVars, objectsMap, lb, localVars, boundVars>>

\* Every id of SGID is used up: the account is at its quota.
AllocateRefused(k) ==
  /\ pc[k] = "allocate"
  /\ ec2SG = {} /\ usedSG = SGID
  /\ mutex' = NoKey
  /\ Return(k)
  /\ UNCHANGED <<k8sVars, objectsMap, autoGeneratedSG, awsVars, boundVars>>

\* The return value is read after the mutex is unlocked.
ReadSG(k) ==
  /\ pc[k] = "read"
  /\ sgOf' = [sgOf EXCEPT ![k] = autoGeneratedSG]
  /\ Goto(k, AfterBuild(k))
  /\ UNCHANGED <<k8sVars, providerVars, awsVars, members, inactive, required, todo,
                 failed, boundVars>>

-----------------------------------------------------------------------------
(* Deploy the stack: only what it does to the SG references of the key's LB. *)

AfterDeploy(k) ==
  IF k \in Service /\ required[k] THEN "removeFinalizers" ELSE "release"

Deploy(k) ==
  /\ pc[k] = "deploy"
  /\ required[k] => sgOf[k] \in ec2SG
  /\ lb' = [lb EXCEPT ![k] = IF members[k] = {} THEN NoLB ELSE sgOf[k]]
  /\ \/ Goto(k, AfterDeploy(k)) /\ UNCHANGED <<localVars, faults>>
     \/ Fault /\ Return(k)        \* a synthesizer after the LB's fails
  /\ UNCHANGED <<k8sVars, providerVars, ec2SG, usedSG, edits>>

\* AWS rejects an LB whose security group does not exist.
DeployRejected(k) ==
  /\ pc[k] = "deploy"
  /\ required[k] /\ sgOf[k] \notin ec2SG
  /\ Return(k)
  /\ UNCHANGED <<k8sVars, providerVars, awsVars, boundVars>>

-----------------------------------------------------------------------------
(* defaultBackendSGProvider.Release *)

Released(k) == inactive[k] \cup IF required[k] THEN {} ELSE members[k]

MarkReleased(k) ==
  /\ pc[k] = "release"
  /\ objectsMap' = [r \in Resource |-> IF r \in Released(k) THEN "idle" ELSE objectsMap[r]]
  /\ Goto(k, "range")
  /\ UNCHANGED <<k8sVars, autoGeneratedSG, mutex, awsVars, localVars, boundVars>>

RequiredForAny == \E r \in Resource : objectsMap[r] = "required"

Unmapped == \E r \in Resource : obj[r] # "absent" /\ fin[r] # {} /\ objectsMap[r] = "none"

\* isBackendSGRequired, before the mutex is taken: range over the map, then
\* list the objects.
RangeMap(k) ==
  /\ pc[k] = "range"
  /\ Goto(k, IF RequiredForAny THEN "forget" ELSE "list")
  /\ UNCHANGED <<k8sVars, providerVars, awsVars, localVars, boundVars>>

ListUnmapped(k) ==
  /\ pc[k] = "list"
  /\ Goto(k, IF Unmapped THEN "forget" ELSE "lock")
  /\ UNCHANGED <<k8sVars, providerVars, awsVars, localVars, boundVars>>

\* releaseSG: lock, give up when there is no SG, check again, delete.
LockRelease(k) ==
  /\ pc[k] = "lock" /\ mutex = NoKey
  /\ IF autoGeneratedSG = NoSG
     THEN Goto(k, "forget") /\ mutex' = NoKey
     ELSE Goto(k, "range2") /\ mutex' = k
  /\ UNCHANGED <<k8sVars, objectsMap, autoGeneratedSG, awsVars, localVars, boundVars>>

\* Mutant: the map is not checked again under the mutex.
RangeMapUnchecked(k) ==
  /\ pc[k] = "range2"
  /\ Goto(k, "list2")
  /\ UNCHANGED <<k8sVars, providerVars, awsVars, localVars, boundVars>>

\* Mutant: the early return does not unlock.
RangeMapKeepsLock(k) ==
  /\ pc[k] = "range2"
  /\ Goto(k, IF RequiredForAny THEN "forget" ELSE "list2")
  /\ UNCHANGED <<k8sVars, providerVars, awsVars, localVars, boundVars>>

RangeMapLocked(k) ==
  /\ pc[k] = "range2"
  /\ IF RequiredForAny
     THEN Goto(k, "forget") /\ mutex' = NoKey
     ELSE Goto(k, "list2") /\ UNCHANGED mutex
  /\ UNCHANGED <<k8sVars, objectsMap, autoGeneratedSG, awsVars, localVars, boundVars>>

ListUnmappedLocked(k) ==
  /\ pc[k] = "list2"
  /\ IF Unmapped
     THEN Goto(k, "forget") /\ mutex' = NoKey
     ELSE Goto(k, "delete") /\ UNCHANGED mutex
  /\ UNCHANGED <<k8sVars, objectsMap, autoGeneratedSG, awsVars, localVars, boundVars>>

InUse(id) == \E k \in Key : lb[k] = id

\* The retry loop on DependencyViolation ends in a deletion ...
DeleteSG(k) ==
  /\ pc[k] = "delete" /\ ~InUse(autoGeneratedSG)
  /\ ec2SG' = ec2SG \ {autoGeneratedSG}
  /\ autoGeneratedSG' = NoSG
  /\ mutex' = NoKey
  /\ Goto(k, "forget")
  /\ UNCHANGED <<k8sVars, objectsMap, usedSG, lb, localVars, boundVars>>

\* ... or in the timeout while some load balancer still uses the group.
DeleteTimesOut(k) ==
  /\ pc[k] = "delete" /\ InUse(autoGeneratedSG)
  /\ failed' = [failed EXCEPT ![k] = TRUE]
  /\ mutex' = NoKey
  /\ Goto(k, "forget")
  /\ UNCHANGED <<k8sVars, objectsMap, autoGeneratedSG, awsVars, members, inactive,
                 required, sgOf, todo, boundVars>>

\* The deferred CompareAndDelete of the released entries.
Forget(k) ==
  /\ pc[k] = "forget"
  /\ objectsMap' = [r \in Resource |->
       IF r \in Released(k) /\ objectsMap[r] = "idle" THEN "none" ELSE objectsMap[r]]
  /\ IF failed[k]
     THEN Return(k)
     ELSE /\ Goto(k, "removeFinalizers")
          /\ todo' = [todo EXCEPT ![k] = inactive[k]]
          /\ UNCHANGED <<members, inactive, required, sgOf, failed>>
  /\ UNCHANGED <<k8sVars, autoGeneratedSG, mutex, awsVars, boundVars>>

-----------------------------------------------------------------------------
\* One RemoveFinalizers call; the API server drops a deleted object with its
\* last finalizer.
RemoveFinalizer(k, r) ==
  /\ pc[k] = "removeFinalizers" /\ r \in todo[k]
  /\ obj[r] # "absent"
  /\ fin' = [fin EXCEPT ![r] = @ \ {k}]
  /\ obj' = [obj EXCEPT ![r] = IF @ = "deleting" /\ fin[r] \ {k} = {} THEN "absent" ELSE @]
  /\ todo' = [todo EXCEPT ![k] = @ \ {r}]
  /\ UNCHANGED <<group, wants, providerVars, awsVars, pc, members, inactive, required,
                 sgOf, failed, boundVars>>

Done(k) ==
  /\ pc[k] = "removeFinalizers" /\ todo[k] = {}
  /\ Return(k)
  /\ UNCHANGED <<k8sVars, providerVars, awsVars, boundVars>>

\* An API call of the current step fails and the reconcile returns the error:
\* deferred calls still unlock the mutex and forget the released entries.
ApiError(k) ==
  /\ Fault
  /\ \/ /\ pc[k] \in {"addFinalizers", "build", "deploy", "removeFinalizers"}
        /\ Return(k)
        /\ UNCHANGED mutex
     \/ /\ pc[k] = "allocate"
        /\ Return(k)
        /\ mutex' = NoKey
     \/ /\ pc[k] \in {"list", "list2", "delete"}
        /\ failed' = [failed EXCEPT ![k] = TRUE]
        /\ Goto(k, "forget")
        /\ mutex' = IF pc[k] = "list" THEN mutex ELSE NoKey
        /\ UNCHANGED <<members, inactive, required, sgOf, todo>>
  /\ UNCHANGED <<k8sVars, objectsMap, autoGeneratedSG, awsVars, edits>>

\* The controller restarts: what is in memory is lost.
Crash ==
  /\ Fault
  /\ objectsMap' = [r \in Resource |-> "none"]
  /\ autoGeneratedSG' = NoSG
  /\ mutex' = NoKey
  /\ pc' = [k \in Key |-> "idle"]
  /\ members' = [k \in Key |-> {}]
  /\ inactive' = [k \in Key |-> {}]
  /\ required' = [k \in Key |-> FALSE]
  /\ sgOf' = [k \in Key |-> NoSG]
  /\ todo' = [k \in Key |-> {}]
  /\ failed' = [k \in Key |-> FALSE]
  /\ UNCHANGED <<k8sVars, awsVars, edits>>

-----------------------------------------------------------------------------

User ==
  \/ \E r \in Resource : UserDelete(r)
  \/ \E r \in Resource : \E k \in MayJoin[r] : Create(r, k)
  \/ \E r \in Resource : \E k \in MayJoin[r] \cup {NoKey} : Regroup(r, k)
  \/ \E k \in Key : ChangeWants(k)

\* The steps a reconcile takes by itself, without a lock to wait for.
Proceed(k) ==
  \/ \E r \in Resource : AddFinalizer(k, r) \/ AddFinalizerRefused(k, r) \/ RemoveFinalizer(k, r)
  \/ FinalizersAdded(k) \/ Build(k) \/ AllocateSG(k) \/ AllocateRefused(k) \/ ReadSG(k)
  \/ Deploy(k) \/ DeployRejected(k)
  \/ MarkReleased(k) \/ RangeMap(k) \/ ListUnmapped(k)
  \/ RangeMapLocked(k) \/ ListUnmappedLocked(k) \/ DeleteSG(k) \/ DeleteTimesOut(k)
  \/ Forget(k) \/ Done(k)

TakeLock(k) == GetSG(k) \/ LockRelease(k)

Next ==
  \/ User
  \/ Crash
  \/ \E k \in Key : Load(k) \/ Proceed(k) \/ TakeLock(k) \/ ApiError(k)

Spec == Init /\ [][Next]_vars

\* Every queued key is picked up (a failed reconcile is requeued, and the
\* informers' resync re-enqueues every object), a running reconcile goes on, and
\* Go's mutex is not unfair to a waiter for ever.  Users, API errors and crashes
\* owe nothing.
Fairness ==
  \A k \in Key : WF_vars(Load(k)) /\ WF_vars(Proceed(k)) /\ SF_vars(TakeLock(k))

FairSpec == Spec /\ Fairness

-----------------------------------------------------------------------------
(* Properties *)

\* The types of the variables: objects, the provider's map and cached id, the security
\* groups and load balancers in AWS, and the local state of every reconcile.
TypeOK ==
  /\ obj \in [Resource -> {"absent", "live", "deleting"}]
  /\ group \in [Resource -> Key \cup {NoKey}]
  /\ fin \in [Resource -> SUBSET Key]
  /\ wants \in [Key -> BOOLEAN]
  /\ objectsMap \in [Resource -> {"none", "required", "idle"}]
  /\ autoGeneratedSG \in SGID \cup {NoSG}
  /\ mutex \in Key \cup {NoKey}
  /\ ec2SG \subseteq SGID /\ usedSG \subseteq SGID
  /\ lb \in [Key -> SGID \cup {NoSG, NoLB}]
  /\ pc \in [Key -> Pcs]
  /\ members \in [Key -> SUBSET Resource]
  /\ inactive \in [Key -> SUBSET Resource]
  /\ required \in [Key -> BOOLEAN]
  /\ sgOf \in [Key -> SGID \cup {NoSG}]
  /\ todo \in [Key -> SUBSET Resource]
  /\ failed \in [Key -> BOOLEAN]
  /\ edits \in 0..MaxEdits /\ faults \in 0..MaxFaults

\* The steps between Get's return and the end of the deployment.
HoldsSG(k) ==
  required[k] /\ (pc[k] = "deploy" \/ (k \in Service /\ pc[k] = "addFinalizers"))

\* From the moment Get returns an id until the load balancer that refers to it is
\* deployed, that security group exists: no concurrent Release deletes it, though
\* Get reads its result after unlocking the mutex and Release checks the map
\* before locking it.
HeldSGExists == \A k \in Key : HoldsSG(k) => sgOf[k] \in ec2SG

\* The cached id (autoGeneratedSG) is the id of a security group that exists, so
\* that a Get answered from the cache never returns a deleted group.
CachedSGExists == autoGeneratedSG # NoSG => autoGeneratedSG \in ec2SG

\* Concurrent Gets, errors and restarts never create a second backend SG: the
\* docs promise "a single, shared backend security group".
SingleBackendSG == Cardinality(ec2SG) <= 1

\* A load balancer in AWS always has an object that carries its key's finalizer,
\* so that its owner cannot disappear from the cluster and leave it behind.
LBHasOwner ==
  \A k \in Key : lb[k] # NoLB => \E r \in Resource : obj[r] # "absent" /\ k \in fin[r]

\* The provider's mutex, held for the whole SG deletion with its retries, is
\* always free again: no reconcile waits for it for ever.
EveryGetAnswered == \A k \in Key : (pc[k] = "get") ~> (pc[k] # "get")

\* An object whose deletion has been requested goes away: its load balancer and
\* the backend SG are cleaned up and its finalizers removed.
DeletionCompletes == \A r \in Resource : (obj[r] = "deleting") ~> (obj[r] # "deleting")

NoneRequires == \A k \in Key : ~wants[k] \/ ActiveMembers(k) = {}

\* "If the controller has processed all supported resources and none of them
\* require backend SG, i.e. the values are false in this map controller deletes
\* the backend SG" (the comment on objectsMap).
UnneededSGDeleted == NoneRequires ~> (ec2SG = {} \/ ~NoneRequires)

=============================================================================
