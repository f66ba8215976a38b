--------------------------- MODULE TGBNetworking ---------------------------
(* The security group rules that let load balancers reach the endpoints of     *)
(* TargetGroupBindings: defaultNetworkingManager, which serializes the         *)
(* reconciles of all bindings, defaultSecurityGroupReconciler, which revokes   *)
(* and grants, and defaultSecurityGroupManager with its cache.                 *)
EXTENDS Integers, FiniteSets, FiniteSetsExt

CONSTANTS
  TGB,          \* bindings
  SG,           \* endpoint security groups
  Tagged,       \* those with the cluster tag
  Group, Cidr,  \* peers: security groups and IP blocks (each with its protocol)
  MaxPort,      \* the highest port
  Others,       \* rules that others may add
  Shapes,       \* what bindings may look like: spec.networking (NoNetworking or a set of
                \* rules) and the security groups of the endpoints
  MultiSG,      \* whether network interfaces carry several security groups
  LookupRace,   \* whether rules may change while the answer to a lookup is on its way to the cache
  EarlyDelete,  \* whether bindings may be deleted before they get their finalizer
  NoNetworking, NoTGB, NoSG, NoEntry,
  MaxEvents,    \* bound on changes by users and entries that expire
  MaxFaults     \* bound on failed API calls and restarts

Peer == Group \cup Cidr
PortRange == {r \in (0..MaxPort) \X (0..MaxPort) : r[1] <= r[2]}
Perm == [source : Peer, from : 0..MaxPort, to : 0..MaxPort]
Rule == [from : SUBSET Peer, ports : SUBSET PortRange]
Info == [managed : SUBSET Perm, foreign : SUBSET Perm]
Entry == [sgs : SUBSET SG, perms : SUBSET Perm]

ASSUME PortAssumption == MaxPort \in Nat
ASSUME ShapeAssumption == Shapes \subseteq ((SUBSET Rule) \cup {NoNetworking}) \X SUBSET SG
ASSUME OthersAssumption == Others \subseteq Perm
ASSUME TagAssumption == Tagged \subseteq SG
ASSUME FlagAssumption == MultiSG \in BOOLEAN /\ LookupRace \in BOOLEAN /\ EarlyDelete \in BOOLEAN
ASSUME DistinctAssumption == NoTGB \notin TGB /\ NoEntry \notin Entry
ASSUME LimitAssumption == MaxEvents \in Nat /\ MaxFaults \in Nat

VARIABLES
  (* Kubernetes *)
  tgb,          \* "absent", "live" or "deleting"
  fin,          \* whether it carries the finalizer
  net,          \* spec.networking
  sgOf,         \* the endpoint security groups of its endpoints
  queued,
  (* EC2 *)
  exists,       \* the security groups that exist
  rules,        \* ingress rules with the controller's label
  foreign,      \* ingress rules of others
  (* defaultSecurityGroupManager *)
  sgInfoCache,
  (* defaultNetworkingManager *)
  restricted,   \* ~disableRestrictedSGRules
  ingressPermissionsPerSGByTGB,
  trackedEndpointSGs, trackedEndpointSGsInitialized,
  mutex,
  (* the reconcile of each binding up to the mutex *)
  pc, want, cleanup, seen,
  (* the reconcile that holds the mutex *)
  desired,      \* aggregated permissions of each security group
  used,         \* the security groups that have some
  computedForAllTGBs,
  todo,         \* security groups still to reconcile
  gc,           \* whether it has come to the unused security groups
  current, info, ignoreCache,
  failed,       \* whether a security group has failed
  (* history *)
  served,       \* what the last successful reconcile of a binding has opened
  (* bounds *)
  events, faults

k8sVars == <<tgb, fin, net, sgOf>>
ec2Vars == <<exists, rules, foreign>>
managerVars == <<ingressPermissionsPerSGByTGB, trackedEndpointSGs, trackedEndpointSGsInitialized>>
loopVars == <<desired, used, computedForAllTGBs, todo, gc>>
currentVars == <<current, info, ignoreCache>>
boundVars == <<events, faults>>
vars == <<k8sVars, queued, ec2Vars, sgInfoCache, restricted, managerVars, mutex, pc, want, cleanup, seen,
          loopVars, currentVars, failed, served, boundVars>>

Nothing == [sgs |-> {}, perms |-> {}]
NoInfo == [managed |-> {}, foreign |-> {}]

\* The controller starts in a cluster that may have bindings already.
Init ==
  /\ fin = [t \in TGB |-> FALSE]
  /\ \E present \in SUBSET TGB : \E shape \in [present -> Shapes] :
       /\ tgb = [t \in TGB |-> IF t \in present THEN "live" ELSE "absent"]
       /\ net = [t \in TGB |-> IF t \in present THEN shape[t][1] ELSE NoNetworking]
       /\ sgOf = [t \in TGB |-> IF t \in present THEN shape[t][2] ELSE {}]
       /\ queued = [t \in TGB |-> t \in present]
  /\ exists = SG
  /\ rules = [s \in SG |-> {}] /\ foreign = [s \in SG |-> {}]
  /\ sgInfoCache = [s \in SG |-> NoEntry]
  /\ restricted \in BOOLEAN
  /\ ingressPermissionsPerSGByTGB = [t \in TGB |-> NoEntry]
  /\ trackedEndpointSGs = {} /\ trackedEndpointSGsInitialized = FALSE
  /\ mutex = NoTGB
  /\ pc = [t \in TGB |-> "idle"]
  /\ want = [t \in TGB |-> Nothing]
  /\ cleanup = [t \in TGB |-> FALSE]
  /\ seen = [t \in TGB |-> NoEntry]
  /\ desired = [s \in SG |-> {}] /\ used = {} /\ computedForAllTGBs = FALSE
  /\ todo = {} /\ gc = FALSE
  /\ current = NoSG /\ info = NoInfo /\ ignoreCache = FALSE
  /\ failed = FALSE
  /\ served = [t \in TGB |-> Nothing]
  /\ events = 0 /\ faults = 0

Event == events < MaxEvents /\ events' = events + 1
Fault == faults < MaxFaults /\ faults' = faults + 1

-----------------------------------------------------------------------------
(* Users, and what they do to the cluster and to the security groups. *)

\* Spec and endpoints of a binding change; it is enqueued.
Changed(t) ==
  /\ queued' = [queued EXCEPT ![t] = TRUE]
  /\ served' = [served EXCEPT ![t] = Nothing]
  /\ UNCHANGED <<ec2Vars, sgInfoCache, restricted, managerVars, mutex, pc, want, cleanup, seen, loopVars,
                 currentVars, failed, faults>>

SetTGB(t, n, S) ==
  /\ Event
  /\ tgb[t] # "deleting" /\ S \subseteq exists
  /\ tgb[t] = "absent" \/ <<n, S>> # <<net[t], sgOf[t]>>
  /\ tgb' = [tgb EXCEPT ![t] = "live"]
  /\ net' = [net EXCEPT ![t] = n]
  /\ sgOf' = [sgOf EXCEPT ![t] = S]
  /\ UNCHANGED fin
  /\ Changed(t)

Removed(t) ==
  /\ tgb' = [tgb EXCEPT ![t] = "absent"]
  /\ fin' = [fin EXCEPT ![t] = FALSE]
  /\ net' = [net EXCEPT ![t] = NoNetworking]
  /\ sgOf' = [sgOf EXCEPT ![t] = {}]

DeleteTGB(t) ==
  /\ Event
  /\ tgb[t] = "live" /\ (fin[t] \/ EarlyDelete)
  /\ IF fin[t]
     THEN tgb' = [tgb EXCEPT ![t] = "deleting"] /\ UNCHANGED <<fin, net, sgOf>>
     ELSE Removed(t)
  /\ Changed(t)

\* A security group that nothing uses any more is deleted.
DeleteSG(s) ==
  /\ Event
  /\ s \in exists /\ \A t \in TGB : tgb[t] # "absent" => s \notin sgOf[t]
  /\ exists' = exists \ {s}
  /\ rules' = [rules EXCEPT ![s] = {}] /\ foreign' = [foreign EXCEPT ![s] = {}]
  /\ UNCHANGED <<k8sVars, queued, sgInfoCache, restricted, managerVars, mutex, pc, want, cleanup, seen,
                 loopVars, currentVars, failed, served, faults>>

\* Someone else adds a rule.
AddForeign(s, p) ==
  /\ Event
  /\ s \in exists /\ p \notin rules[s] \cup foreign[s]
  /\ foreign' = [foreign EXCEPT ![s] = @ \cup {p}]
  /\ UNCHANGED <<k8sVars, queued, exists, rules, sgInfoCache, restricted, managerVars, mutex, pc,
                 want, cleanup, seen, loopVars, currentVars, failed, served, faults>>

\* The entry of a security group in the cache reaches its TTL.
Expire(s) ==
  /\ Event
  /\ sgInfoCache[s] # NoEntry
  /\ sgInfoCache' = [sgInfoCache EXCEPT ![s] = NoEntry]
  /\ UNCHANGED <<k8sVars, queued, ec2Vars, restricted, managerVars, mutex, pc, want, cleanup, seen,
                 loopVars, currentVars, failed, served, faults>>

-----------------------------------------------------------------------------
(* What bindings need, and what that makes of a security group's rules. *)

\* computeIngressPermissionsForTGBNetworking: a rule without ports adds nothing,
\* since the branch for it appends to a variable of its own.
PermsOf(n) ==
  UNION {{[source |-> f, from |-> r[1], to |-> r[2]] : f \in rule.from, r \in rule.ports} : rule \in n}

Needs(t) ==
  IF net[t] = NoNetworking THEN Nothing ELSE [sgs |-> sgOf[t], perms |-> PermsOf(net[t])]

WithNetworking == {t \in TGB : tgb[t] # "absent" /\ net[t] # NoNetworking}

\* One rule for the ports of each source group; IP blocks keep theirs.
WideRange(Q) ==
  IF \E p \in Q : p.from = 0 /\ p.to = 0
  THEN <<0, MaxPort>>
  ELSE <<Min({p.from : p \in Q}), Max({p.to : p \in Q})>>

FromGroup(P, g) == {p \in P : p.source = g}

Restricted(P) ==
  {p \in P : p.source \in Cidr} \cup
  {[source |-> g, from |-> WideRange(FromGroup(P, g))[1], to |-> WideRange(FromGroup(P, g))[2]] :
     g \in {q.source : q \in P} \cap Group}

Aggregated(E, s) ==
  LET P == UNION {E[t].perms : t \in {u \in TGB : E[u] # NoEntry /\ s \in E[u].sgs}}
  IN  IF restricted THEN Restricted(P) ELSE P

-----------------------------------------------------------------------------
(* The reconcile of a binding up to the mutex. Requests that fail before they   *)
(* change anything are retried and are left out.                               *)

EnvUnchanged == UNCHANGED <<ec2Vars, restricted, events>>

Start(t) ==
  /\ queued[t] /\ pc[t] = "idle" /\ tgb[t] = "live"
  /\ queued' = [queued EXCEPT ![t] = FALSE]
  /\ fin' = [fin EXCEPT ![t] = TRUE]
  /\ want' = [want EXCEPT ![t] = Needs(t)]
  /\ cleanup' = [cleanup EXCEPT ![t] = FALSE]
  /\ pc' = [pc EXCEPT ![t] = IF MultiSG /\ Needs(t).sgs # {} THEN "lookup" ELSE "lock"]
  /\ EnvUnchanged
  /\ UNCHANGED <<tgb, net, sgOf, sgInfoCache, managerVars, mutex, seen, loopVars, currentVars, failed,
                 served, faults>>

StartCleanup(t) ==
  /\ queued[t] /\ pc[t] = "idle" /\ tgb[t] = "deleting"
  /\ queued' = [queued EXCEPT ![t] = FALSE]
  /\ want' = [want EXCEPT ![t] = Nothing]
  /\ cleanup' = [cleanup EXCEPT ![t] = TRUE]
  /\ pc' = [pc EXCEPT ![t] = "lock"]
  /\ EnvUnchanged
  /\ UNCHANGED <<k8sVars, sgInfoCache, managerVars, mutex, seen, loopVars, currentVars, failed, served,
                 faults>>

StartAbsent(t) ==
  /\ queued[t] /\ pc[t] = "idle" /\ tgb[t] = "absent"
  /\ queued' = [queued EXCEPT ![t] = FALSE]
  /\ EnvUnchanged
  /\ UNCHANGED <<k8sVars, sgInfoCache, managerVars, mutex, pc, want, cleanup, seen, loopVars,
                 currentVars, failed, served, faults>>

\* A rule without the label counts as one with it.
InfoOfAll(s) == [managed |-> rules[s] \cup foreign[s], foreign |-> {}]

InfoOf(s) == [managed |-> rules[s], foreign |-> foreign[s]]

\* resolveEndpointSGForENI on interfaces with several security groups: the tags
\* come from FetchSGInfosByID, which caches the rules along with them, and holds
\* no lock between the answer of EC2 and the write to the cache.
Lookup(t) ==
  /\ pc[t] = "lookup"
  /\ LET missing == {s \in want[t].sgs : sgInfoCache[s] = NoEntry} IN
       \/ /\ missing = {}
          /\ pc' = [pc EXCEPT ![t] = "lock"]
          /\ UNCHANGED <<seen, queued>>
       \/ /\ missing # {} /\ missing \subseteq exists
          /\ seen' = [seen EXCEPT ![t] = [s \in missing |-> InfoOf(s)]]
          /\ pc' = [pc EXCEPT ![t] = "save"]
          /\ UNCHANGED queued
       \/ /\ ~(missing \subseteq exists)
          /\ pc' = [pc EXCEPT ![t] = "idle"]
          /\ queued' = [queued EXCEPT ![t] = TRUE]
          /\ UNCHANGED seen
  /\ EnvUnchanged
  /\ UNCHANGED <<k8sVars, sgInfoCache, managerVars, mutex, want, cleanup, loopVars, currentVars, failed,
                 served, faults>>

SaveLookup(t) ==
  /\ pc[t] = "save"
  /\ sgInfoCache' = [s \in SG |-> IF s \in DOMAIN seen[t] THEN seen[t][s] ELSE sgInfoCache[s]]
  /\ seen' = [seen EXCEPT ![t] = NoEntry]
  /\ pc' = [pc EXCEPT ![t] = "lock"]
  /\ EnvUnchanged
  /\ UNCHANGED <<k8sVars, queued, managerVars, mutex, want, cleanup, loopVars, currentVars, failed,
                 served, faults>>

-----------------------------------------------------------------------------
(* reconcileWithIngressPermissionsPerSG, under the mutex. *)

ComputedAlways(E) == TRUE

\* Whether every binding with networking rules has its permissions computed.
ComputedForAll(E) == \A t \in WithNetworking : E[t] # NoEntry

Consolidated(E) == [t \in TGB |-> IF t \in WithNetworking THEN E[t] ELSE NoEntry]

Recorded(t) == [ingressPermissionsPerSGByTGB EXCEPT ![t] = want[t]]

Enter(t) ==
  /\ pc[t] = "lock" /\ mutex = NoTGB
  /\ mutex' = t
  /\ trackedEndpointSGs' = trackedEndpointSGs \cup want[t].sgs
  /\ LET E == Consolidated(Recorded(t)) IN
       /\ ingressPermissionsPerSGByTGB' = E
       /\ computedForAllTGBs' = ComputedForAll(E)
       /\ used' = UNION {E[u].sgs : u \in {v \in TGB : E[v] # NoEntry}}
       /\ desired' = [s \in SG |-> Aggregated(E, s)]
       /\ todo' = used'
  /\ pc' = [pc EXCEPT ![t] = "sync"]
  /\ EnvUnchanged
  /\ UNCHANGED <<k8sVars, queued, sgInfoCache, trackedEndpointSGsInitialized, want, cleanup, seen, gc,
                 currentVars, failed, served, faults>>

\* The list of bindings fails, after the permissions have been recorded.
EnterFails(t) ==
  /\ Fault
  /\ pc[t] = "lock" /\ mutex = NoTGB
  /\ trackedEndpointSGs' = trackedEndpointSGs \cup want[t].sgs
  /\ ingressPermissionsPerSGByTGB' = Recorded(t)
  /\ pc' = [pc EXCEPT ![t] = "idle"]
  /\ queued' = [queued EXCEPT ![t] = TRUE]
  /\ EnvUnchanged
  /\ UNCHANGED <<k8sVars, sgInfoCache, trackedEndpointSGsInitialized, mutex, want, cleanup, seen,
                 loopVars, currentVars, failed, served>>

\* The mutex is released and the reconcile ends; an error enqueues it again.
Leave(t, err) ==
  /\ mutex' = NoTGB
  /\ pc' = [pc EXCEPT ![t] = "idle"]
  /\ queued' = [queued EXCEPT ![t] = @ \/ err]
  /\ desired' = [s \in SG |-> {}] /\ used' = {} /\ computedForAllTGBs' = FALSE
  /\ todo' = {} /\ gc' = FALSE
  /\ current' = NoSG /\ info' = NoInfo /\ ignoreCache' = FALSE
  /\ failed' = FALSE
  /\ want' = [want EXCEPT ![t] = Nothing]
  /\ cleanup' = [cleanup EXCEPT ![t] = FALSE]

\* On to the next security group.
NextSG(t, s) ==
  /\ todo' = todo \ {s}
  /\ pc' = [pc EXCEPT ![t] = "sync"]
  /\ current' = NoSG /\ info' = NoInfo /\ ignoreCache' = FALSE
  /\ UNCHANGED <<queued, mutex, want, cleanup, desired, used, computedForAllTGBs, gc>>

\* ReconcileIngress on s returns an error: the other security groups are still
\* reconciled, but garbage collection stops unless s no longer exists.
SGError(t, s, notFound) ==
  \/ ~gc /\ failed' = TRUE /\ NextSG(t, s) /\ UNCHANGED trackedEndpointSGs
  \/ gc /\ notFound /\ trackedEndpointSGs' = trackedEndpointSGs \ {s} /\ NextSG(t, s) /\ UNCHANGED failed
  \/ gc /\ ~notFound /\ Leave(t, TRUE) /\ UNCHANGED trackedEndpointSGs

AfterError ==
  UNCHANGED <<k8sVars, restricted, ingressPermissionsPerSGByTGB, trackedEndpointSGsInitialized, seen,
              served, events>>

Stay ==
  UNCHANGED <<k8sVars, queued, restricted, managerVars, mutex, want, cleanup, seen, desired, used,
              computedForAllTGBs, gc, failed, served, events>>

\* FetchSGInfosByID for the next security group, from the cache or from EC2.
FetchSG(t, s) ==
  /\ pc[t] = "sync" /\ s \in todo
  /\ sgInfoCache[s] # NoEntry \/ s \in exists
  /\ info' = IF sgInfoCache[s] # NoEntry THEN sgInfoCache[s] ELSE InfoOf(s)
  /\ sgInfoCache' = [sgInfoCache EXCEPT ![s] = info']
  /\ current' = s /\ ignoreCache' = FALSE
  /\ pc' = [pc EXCEPT ![t] = "apply"]
  /\ Stay
  /\ UNCHANGED <<ec2Vars, todo, faults>>

FetchNotFound(t, s) ==
  /\ pc[t] = "sync" /\ s \in todo
  /\ sgInfoCache[s] = NoEntry /\ s \notin exists
  /\ SGError(t, s, TRUE)
  /\ AfterError
  /\ UNCHANGED <<ec2Vars, sgInfoCache, faults>>

FetchFails(t, s) ==
  /\ Fault
  /\ pc[t] = "sync" /\ s \in todo
  /\ sgInfoCache[s] = NoEntry
  /\ SGError(t, s, FALSE)
  /\ AfterError
  /\ UNCHANGED <<ec2Vars, sgInfoCache>>

-----------------------------------------------------------------------------
(* reconcileIngressWithSGInfo: revoke, then grant, from the rules in info. A    *)
(* call that succeeds is applied to info as well, so that what is left to do    *)
(* can be read from it.                                                        *)

PermissionsToRevoke == IF computedForAllTGBs THEN info.managed \ desired[current] ELSE {}
PermissionsToGrant == desired[current] \ (info.managed \cup info.foreign)

MayChange == LookupRace \/ \A t \in TGB : pc[t] # "save"

ClearCache(s) == [sgInfoCache EXCEPT ![s] = NoEntry]

RevokeSGIngress(t) ==
  /\ pc[t] = "apply"
  /\ PermissionsToRevoke # {} /\ PermissionsToRevoke \subseteq rules[current] \cup foreign[current]
  /\ current \in exists /\ MayChange
  /\ rules' = [rules EXCEPT ![current] = @ \ PermissionsToRevoke]
  /\ foreign' = [foreign EXCEPT ![current] = @ \ PermissionsToRevoke]
  /\ sgInfoCache' = ClearCache(current)
  /\ info' = [info EXCEPT !.managed = @ \ PermissionsToRevoke]
  /\ Stay
  /\ UNCHANGED <<exists, pc, todo, current, ignoreCache, faults>>

AuthorizeUncleared(t) ==
  /\ pc[t] = "apply"
  /\ PermissionsToRevoke = {} /\ PermissionsToGrant # {}
  /\ PermissionsToGrant \cap (rules[current] \cup foreign[current]) = {}
  /\ current \in exists /\ MayChange
  /\ rules' = [rules EXCEPT ![current] = @ \cup PermissionsToGrant]
  /\ info' = [info EXCEPT !.managed = @ \cup PermissionsToGrant]
  /\ Stay
  /\ UNCHANGED <<sgInfoCache, exists, foreign, pc, todo, current, ignoreCache, faults>>

AuthorizeSGIngress(t) ==
  /\ pc[t] = "apply"
  /\ PermissionsToRevoke = {} /\ PermissionsToGrant # {}
  /\ PermissionsToGrant \cap (rules[current] \cup foreign[current]) = {}
  /\ current \in exists /\ MayChange
  /\ rules' = [rules EXCEPT ![current] = @ \cup PermissionsToGrant]
  /\ sgInfoCache' = ClearCache(current)
  /\ info' = [info EXCEPT !.managed = @ \cup PermissionsToGrant]
  /\ Stay
  /\ UNCHANGED <<exists, foreign, pc, todo, current, ignoreCache, faults>>

\* EC2 refuses the whole call when one permission is missing or already there.
Mismatch ==
  \/ ~(PermissionsToRevoke \subseteq rules[current] \cup foreign[current])
  \/ PermissionsToRevoke = {} /\ PermissionsToGrant \cap (rules[current] \cup foreign[current]) # {}

Reload(t) ==
  /\ pc[t] = "apply" /\ current \in exists
  /\ Mismatch /\ ~ignoreCache
  /\ info' = InfoOf(current)
  /\ sgInfoCache' = [sgInfoCache EXCEPT ![current] = info']
  /\ ignoreCache' = TRUE
  /\ Stay
  /\ UNCHANGED <<ec2Vars, pc, todo, current, faults>>

MismatchAgain(t) ==
  /\ pc[t] = "apply" /\ current \in exists
  /\ Mismatch /\ ignoreCache
  /\ SGError(t, current, FALSE)
  /\ AfterError
  /\ UNCHANGED <<ec2Vars, sgInfoCache, faults>>

ApplyNotFound(t) ==
  /\ pc[t] = "apply" /\ current \notin exists
  /\ PermissionsToRevoke \cup PermissionsToGrant # {}
  /\ SGError(t, current, TRUE)
  /\ AfterError
  /\ UNCHANGED <<ec2Vars, sgInfoCache, faults>>

\* A call to revoke or grant is refused for any other reason.
ApplyFails(t) ==
  /\ Fault
  /\ pc[t] = "apply"
  /\ PermissionsToRevoke \cup PermissionsToGrant # {}
  /\ SGError(t, current, FALSE)
  /\ AfterError
  /\ UNCHANGED <<ec2Vars, sgInfoCache>>

SGDone(t) ==
  /\ pc[t] = "apply"
  /\ PermissionsToRevoke \cup PermissionsToGrant = {}
  /\ NextSG(t, current)
  /\ UNCHANGED <<k8sVars, ec2Vars, sgInfoCache, restricted, managerVars, seen, failed, served, boundVars>>

-----------------------------------------------------------------------------
(* Garbage collection, the end of a reconcile, restarts. *)

TaggedSGs == Tagged \cap exists

\* gcIngressPermissionsFromUnusedEndpointSGs, once every binding is computed; the
\* first time, security groups with the cluster tag are discovered.
GC(t) ==
  /\ pc[t] = "sync" /\ todo = {} /\ ~gc /\ computedForAllTGBs
  /\ IF trackedEndpointSGsInitialized
     THEN UNCHANGED <<trackedEndpointSGs, sgInfoCache>>
     ELSE /\ trackedEndpointSGs' = trackedEndpointSGs \cup TaggedSGs
          /\ sgInfoCache' = [s \in SG |-> IF s \in TaggedSGs THEN InfoOf(s) ELSE sgInfoCache[s]]
  /\ trackedEndpointSGsInitialized' = TRUE
  /\ gc' = TRUE
  /\ todo' = trackedEndpointSGs' \ used
  /\ EnvUnchanged
  /\ UNCHANGED <<k8sVars, queued, ingressPermissionsPerSGByTGB, mutex, pc, want, cleanup, seen, desired,
                 used, computedForAllTGBs, currentVars, failed, served, faults>>

GCFails(t) ==
  /\ Fault
  /\ pc[t] = "sync" /\ todo = {} /\ ~gc /\ computedForAllTGBs /\ ~trackedEndpointSGsInitialized
  /\ Leave(t, TRUE)
  /\ EnvUnchanged
  /\ UNCHANGED <<k8sVars, sgInfoCache, managerVars, seen, served>>

Finished(t) == pc[t] = "sync" /\ todo = {} /\ (gc \/ ~computedForAllTGBs)

\* The reconcile returns; after a cleanup the finalizer goes, and the binding,
\* which is an event that enqueues it once more.
Finish(t) ==
  /\ Finished(t)
  /\ IF failed THEN UNCHANGED <<k8sVars, served>>
     ELSE IF cleanup[t] THEN Removed(t) /\ UNCHANGED served
     ELSE /\ served' = [served EXCEPT ![t] = IF queued[t] THEN @ ELSE want[t]]
          /\ UNCHANGED k8sVars
  /\ Leave(t, failed \/ cleanup[t])
  /\ EnvUnchanged
  /\ UNCHANGED <<sgInfoCache, managerVars, seen, faults>>

\* The controller stops and a new one starts; it finds every binding in its queue.
Restart ==
  /\ Fault
  /\ queued' = [t \in TGB |-> tgb[t] # "absent"]
  /\ sgInfoCache' = [s \in SG |-> NoEntry]
  /\ ingressPermissionsPerSGByTGB' = [t \in TGB |-> NoEntry]
  /\ trackedEndpointSGs' = {} /\ trackedEndpointSGsInitialized' = FALSE
  /\ mutex' = NoTGB
  /\ pc' = [t \in TGB |-> "idle"]
  /\ want' = [t \in TGB |-> Nothing]
  /\ cleanup' = [t \in TGB |-> FALSE]
  /\ seen' = [t \in TGB |-> NoEntry]
  /\ desired' = [s \in SG |-> {}] /\ used' = {} /\ computedForAllTGBs' = FALSE
  /\ todo' = {} /\ gc' = FALSE
  /\ current' = NoSG /\ info' = NoInfo /\ ignoreCache' = FALSE
  /\ failed' = FALSE
  /\ EnvUnchanged
  /\ UNCHANGED <<k8sVars, served>>

-----------------------------------------------------------------------------
User ==
  \/ \E t \in TGB : DeleteTGB(t) \/ \E x \in Shapes : SetTGB(t, x[1], x[2])
  \/ \E s \in SG : DeleteSG(s) \/ Expire(s) \/ \E p \in Others : AddForeign(s, p)

Prepare(t) ==
  \/ Start(t) \/ StartCleanup(t) \/ StartAbsent(t) \/ Lookup(t) \/ SaveLookup(t)
  \/ Enter(t) \/ EnterFails(t)

Synchronize(t) ==
  \/ \E s \in SG : FetchSG(t, s) \/ FetchNotFound(t, s) \/ FetchFails(t, s)
  \/ RevokeSGIngress(t) \/ AuthorizeSGIngress(t) \/ Reload(t) \/ MismatchAgain(t)
  \/ ApplyNotFound(t) \/ ApplyFails(t) \/ SGDone(t)

Conclude(t) == GC(t) \/ GCFails(t) \/ Finish(t)

Next == User \/ Restart \/ \E t \in TGB : Prepare(t) \/ Synchronize(t) \/ Conclude(t)

Spec == Init /\ [][Next]_vars

-----------------------------------------------------------------------------
(* Properties. *)

\* The types of the state; the permissions the controller computes stay within
\* the ports that exist, and only the holder of the mutex is past it.
TypeOK ==
  /\ tgb \in [TGB -> {"absent", "live", "deleting"}] /\ fin \in [TGB -> BOOLEAN]
  /\ net \in [TGB -> {x[1] : x \in Shapes} \cup {NoNetworking}] /\ sgOf \in [TGB -> SUBSET SG]
  /\ queued \in [TGB -> BOOLEAN]
  /\ exists \subseteq SG /\ rules \in [SG -> SUBSET Perm] /\ foreign \in [SG -> SUBSET Perm]
  /\ sgInfoCache \in [SG -> Info \cup {NoEntry}]
  /\ restricted \in BOOLEAN
  /\ ingressPermissionsPerSGByTGB \in [TGB -> Entry \cup {NoEntry}]
  /\ trackedEndpointSGs \subseteq SG /\ trackedEndpointSGsInitialized \in BOOLEAN
  /\ mutex \in TGB \cup {NoTGB}
  /\ pc \in [TGB -> {"idle", "lookup", "save", "lock", "sync", "apply"}]
  /\ \A t \in TGB : pc[t] \in {"sync", "apply"} <=> mutex = t
  /\ want \in [TGB -> Entry] /\ cleanup \in [TGB -> BOOLEAN]
  /\ desired \in [SG -> SUBSET Perm] /\ used \subseteq SG /\ todo \subseteq SG
  /\ computedForAllTGBs \in BOOLEAN /\ gc \in BOOLEAN /\ failed \in BOOLEAN
  /\ current \in SG \cup {NoSG} /\ info \in Info /\ ignoreCache \in BOOLEAN
  /\ served \in [TGB -> Entry]
  /\ events \in 0..MaxEvents /\ faults \in 0..MaxFaults

Quiet == \A t \in TGB : ~queued[t] /\ pc[t] = "idle"

Covered(s, p) ==
  \E q \in rules[s] \cup foreign[s] : q.source = p.source /\ q.from <= p.from /\ p.to <= q.to

\* The permissions the current bindings need, aggregated.
Wanted(s) == Aggregated([t \in TGB |-> IF t \in WithNetworking THEN Needs(t) ELSE NoEntry], s)

\* "ReconcileIngress will reconcile Ingress permission on SecurityGroup to be
\* desiredPermission": once nothing is queued, every port a binding needs is open.
NeededPortsOpen ==
  Quiet => \A t \in WithNetworking : \A s \in sgOf[t], p \in PermsOf(net[t]) : Covered(s, p)

\* Once nothing is queued, the needed ports are open and the labelled rules of
\* tagged, tracked and used security groups are ones that some binding needs.
RulesConverged ==
  /\ NeededPortsOpen
  /\ Quiet => \A s \in exists :
       s \in Tagged \cup trackedEndpointSGs \cup UNION {sgOf[t] : t \in WithNetworking}
         => rules[s] \subseteq Wanted(s)

\* Without the restricted rules, what a successful reconcile of a binding has
\* opened stays open as long as the binding does not change, whatever other
\* bindings and restarts do: rules are revoked only when all needs are known.
StaysOpen ==
  ~restricted => \A t \in TGB : \A s \in served[t].sgs : served[t].perms \subseteq rules[s] \cup foreign[s]

\* "Permissions that are not managed shouldn't be altered or deleted."
ForeignKept == [][\A s \in exists' : foreign[s] \subseteq foreign'[s]]_vars
=============================================================================
