---------------------------- MODULE IngressGroups ----------------------------
(***************************************************************************)
(* controllers/ingress with pkg/ingress/group_loader.go, class_loader.go   *)
(* and the secrets manager of pkg/k8s: which changes in the cluster lead   *)
(* to a reconcile of which IngressGroups, and what is deployed meanwhile.  *)
(*                                                                         *)
(* An Ingress names its class, or is claimed by the annotation of old      *)
(* (annotated).  It is of the group its class's parameters state, of the   *)
(* one its annotation names, or else of a group of its own, which is named *)
(* like the Ingress.  Every Ingress refers to one Service, and with auth   *)
(* to one Secret.                                                          *)
(*                                                                         *)
(*   ing[i]    the Ingress, fin being the groups it has finalizers of      *)
(*   class     the IngressClass: "absent", "foreign", "alb", or "params"   *)
(*             when it refers to parameters                                *)
(*   params    the IngressClassParams: "absent", "plain", "other" or "g",  *)
(*             the group they state                                        *)
(*   svc       what the Service holds                                      *)
(*   secret    what the Secret holds                                       *)
(*   queue     groups to reconcile                                         *)
(*   work[g]   the reconcile of g under way                                *)
(*   lb[g]     what the load balancer of g was last built from             *)
(*   users     groups the Secret is watched for                            *)
(*   reflector "none", "starting" or "watching"                            *)
(*   raced     groups whose member changed between being loaded and        *)
(*             getting the finalizer, so that its event missed the group   *)
(***************************************************************************)
EXTENDS Naturals, FiniteSets

CONSTANTS Ingress, annotated, MaxConcurrentReconciles, MaxEdits, MaxFaults

\* What stands for another group, or for none, is no Ingress's name.
ASSUME IngressAssumption ==
  /\ Ingress \cap {"g", "none", "invalid class", "invalid group"} = {}
  /\ annotated \in [Ingress -> BOOLEAN]

VARIABLES ing, class, params, svc, secret, queue, work, lb, users, reflector, raced,
          edits, faults

cluster == <<ing, class, params, svc, secret>>
watches == <<users, reflector>>
vars == <<ing, class, params, svc, secret, queue, work, lb, users, reflector, raced, edits, faults>>

Group == Ingress \cup {"g"}
Idle == [pc |-> "idle", todo |-> {}, inactive |-> {}, params |-> "none", parts |-> {}]
Absent == [exists |-> FALSE, deleting |-> FALSE, group |-> "own", auth |-> FALSE, fin |-> {}]

-----------------------------------------------------------------------------
(* class_loader.go and group_loader.go.                                    *)

\* The class, which is invalid without the parameters that it refers to.
LoadClass ==
  IF class = "absent" \/ (class = "params" /\ params = "absent") THEN "invalid class" ELSE class

\* "invalid class", "no match" or "match".
classifyIngress(i) ==
  CASE annotated[i] \/ LoadClass \in {"alb", "params"} -> "match"
    [] LoadClass = "foreign" /\ ~annotated[i] -> "no match"
    [] OTHER -> "invalid class"

\* The group of the parameters comes before that of the annotation.
loadGroupID(i) ==
  IF ~annotated[i] /\ class = "params" /\ params = "g" THEN "g"
  ELSE CASE ing[i].group = "own" -> i
         [] ing[i].group = "g" -> "g"
         [] ing[i].group = "bad" -> "invalid group"

LoadGroupIDIfAny(i) ==
  IF ~ing[i].exists \/ ing[i].deleting THEN "none"
  ELSE CASE classifyIngress(i) = "match" -> loadGroupID(i)
         [] classifyIngress(i) = "no match" -> "none"
         [] OTHER -> "invalid class"

\* An event that is only taken to the group of now.
LoadGroupIDsPendingFinalizationNone(i) == {}

LoadGroupIDsPendingFinalization(i) == ing[i].fin

Active(g) == {i \in Ingress : LoadGroupIDIfAny(i) = g}

containsGroupFinalizer(g, i) == g \in ing[i].fin

\* An Ingress with a finalizer and an invalid class might be a mistake.
Blocked(g) ==
  \E i \in Ingress : containsGroupFinalizer(g, i) /\ LoadGroupIDIfAny(i) = "invalid class"

Inactive(g) == {i \in Ingress : containsGroupFinalizer(g, i)} \ Active(g)

-----------------------------------------------------------------------------
(* controllers/ingress/eventhandlers.                                      *)

\* The groups that an event of the Ingress leads to.
enqueueIfBelongsToGroup(i) ==
  (LoadGroupIDsPendingFinalization(i) \cup {LoadGroupIDIfAny(i)}) \cap Group

\* The group is at work with the Ingress, which does not know of it yet.
Unaware(g) == \E i \in work[g].todo : work[g].pc = "finalize" /\ g \notin ing[i].fin

\* Events of the Ingresses in I, after the change that caused them.
Enqueue(I) ==
  LET hit == UNION {enqueueIfBelongsToGroup(i)' : i \in I}
  IN  /\ queue' = queue \cup hit
      /\ raced' = raced \cup ({g \in Group : Unaware(g)} \ hit)

Referring == {i \in Ingress : ing[i].exists}
OfClass == {i \in Referring : ~annotated[i]}
OfParams == IF class = "params" THEN OfClass ELSE {}
OfSecret == {i \in Referring : ing[i].auth}

\* The store of the reflector sends events of what it is told after the list.
SecretEvents == IF reflector = "watching" THEN OfSecret ELSE {}

-----------------------------------------------------------------------------

\* The controller starts: every Ingress is an event.
Init ==
  /\ ing = [i \in Ingress |-> [Absent EXCEPT !.exists = TRUE]]
  /\ class = "params" /\ params = "plain" /\ svc = 0 /\ secret = 0
  /\ queue = Ingress
  /\ work = [g \in Group |-> Idle] /\ lb = [g \in Group |-> {}]
  /\ users = {} /\ reflector = "none" /\ raced = {} /\ edits = 0 /\ faults = 0

Editing == edits < MaxEdits /\ edits' = edits + 1 /\ UNCHANGED <<work, lb, watches, faults>>

EditIngress(i) ==
  /\ ing[i].exists /\ ~ing[i].deleting
  /\ \/ \E n \in {"own", "g", "bad"} \ {ing[i].group} : ing' = [ing EXCEPT ![i].group = n]
     \/ ing' = [ing EXCEPT ![i].auth = ~@]
  /\ Editing
  /\ UNCHANGED <<class, params, svc, secret>>
  /\ Enqueue({i})

CreateIngress(i) ==
  /\ ~ing[i].exists
  /\ ing' = [ing EXCEPT ![i] = [Absent EXCEPT !.exists = TRUE]]
  /\ Editing
  /\ UNCHANGED <<class, params, svc, secret>>
  /\ Enqueue({i})

\* Without finalizers it is gone at once, and that event is ignored.
DeleteIngress(i) ==
  /\ ing[i].exists /\ ~ing[i].deleting
  /\ ing' = [ing EXCEPT ![i] = IF ing[i].fin = {} THEN Absent ELSE [@ EXCEPT !.deleting = TRUE]]
  /\ Editing
  /\ UNCHANGED <<class, params, svc, secret>>
  /\ Enqueue({i})

EditService ==
  /\ svc' = 1 - svc
  /\ Editing
  /\ UNCHANGED <<ing, class, params, secret>>
  /\ Enqueue(Referring)

EditClass ==
  /\ class' \in {"absent", "foreign", "alb", "params"} \ {class}
  /\ Editing
  /\ UNCHANGED <<ing, params, svc, secret>>
  /\ Enqueue(OfClass)

\* Parameters are found by the classes that refer to them.
EditParams ==
  /\ params' \in {"absent", "plain", "other", "g"} \ {params}
  /\ Editing
  /\ UNCHANGED <<ing, class, svc, secret>>
  /\ Enqueue(OfParams)

EditSecret ==
  /\ secret' = 1 - secret
  /\ Editing
  /\ UNCHANGED <<ing, class, params, svc>>
  /\ Enqueue(SecretEvents)

-----------------------------------------------------------------------------
(* group_controller.go.                                                    *)

At(g, pc) == work[g].pc = pc
Busy == {g \in Group : ~At(g, "idle")}

\* The members and what their class states; a group with a member that might
\* have lost its class by mistake is tried again and again.
Load(g) ==
  /\ At(g, "idle") /\ g \in queue /\ ~Blocked(g)
  /\ Cardinality(Busy) < MaxConcurrentReconciles
  /\ queue' = queue \ {g} /\ raced' = raced \ {g}
  /\ work' = [work EXCEPT ![g] = [pc |-> "finalize", todo |-> Active(g), inactive |-> Inactive(g),
                                  params |-> IF class = "params" THEN params ELSE "none",
                                  parts |-> {}]]
  /\ UNCHANGED <<cluster, lb, watches, edits, faults>>

Part(i, with) ==
  [ing |-> i, auth |-> IF ing[i].auth THEN {secret} ELSE {}, svc |-> svc,
   params |-> IF annotated[i] THEN "none" ELSE with]

\* The next member, read anew, gets the finalizer if it has not got it.
AddGroupFinalizer(g) ==
  /\ At(g, "finalize") /\ work[g].todo # {}
  /\ LET i == CHOOSE j \in work[g].todo : TRUE
     IN  /\ g \in ing[i].fin \/ (ing[i].exists /\ ~ing[i].deleting)
         /\ ing' = [ing EXCEPT ![i].fin = @ \cup {g}]
         /\ work' = [work EXCEPT ![g].todo = @ \ {i},
                                 ![g].parts = @ \cup {Part(i, work[g].params)}]
  /\ UNCHANGED <<class, params, svc, secret, queue, lb, watches, raced, edits, faults>>

Retry(g) == work' = [work EXCEPT ![g] = Idle] /\ queue' = queue \cup {g}

\* The Ingress is gone or on its way.
AddGroupFinalizerRefused(g) ==
  /\ At(g, "finalize") /\ work[g].todo # {}
  /\ LET i == CHOOSE j \in work[g].todo : TRUE
     IN  g \notin ing[i].fin /\ (~ing[i].exists \/ ing[i].deleting)
  /\ Retry(g)
  /\ UNCHANGED <<cluster, lb, watches, raced, edits, faults>>

\* The model is built of the members as they were read, and of the Service
\* and the Secret as they are now.
Build(g) ==
  /\ At(g, "finalize") /\ work[g].todo = {}
  /\ work' = [work EXCEPT ![g].pc = "deploy",
                          ![g].parts = {[p EXCEPT !.svc = svc,
                                                  !.auth = IF @ = {} THEN {} ELSE {secret}] : p \in @}]
  /\ UNCHANGED <<cluster, queue, lb, watches, raced, edits, faults>>

\* Groups that use the secret no more are not taken off its list.
MonitorSecretsForever(g, uses) ==
  /\ users' = IF uses THEN users \cup {g} ELSE users
  /\ reflector' = IF users' = {} THEN "none"
                  ELSE IF reflector = "none" THEN "starting" ELSE reflector

\* A secret is watched while any group uses it.
MonitorSecrets(g, uses) ==
  /\ users' = IF uses THEN users \cup {g} ELSE users \ {g}
  /\ reflector' = IF users' = {} THEN "none"
                  ELSE IF reflector = "none" THEN "starting" ELSE reflector

\* What is left to do once the model is deployed and the secrets are watched.
Deploy(g) ==
  /\ At(g, "deploy")
  /\ lb' = [lb EXCEPT ![g] = work[g].parts]
  /\ MonitorSecrets(g, \E p \in work[g].parts : p.auth # {})
  /\ work' = [work EXCEPT ![g] = IF work[g].inactive = {} THEN Idle
                                 ELSE [Idle EXCEPT !.pc = "unfinalize", !.inactive = work[g].inactive]]
  /\ UNCHANGED <<cluster, queue, raced, edits, faults>>

RemoveGroupFinalizer(g) ==
  /\ At(g, "unfinalize")
  /\ LET i == CHOOSE j \in work[g].inactive : TRUE
         fin == ing[i].fin \ {g}
     IN  /\ ing' = [ing EXCEPT ![i] = IF ing[i].deleting /\ fin = {} THEN Absent
                                      ELSE [@ EXCEPT !.fin = fin]]
         /\ work' = [work EXCEPT ![g] = IF work[g].inactive = {i} THEN Idle
                                        ELSE [work[g] EXCEPT !.inactive = @ \ {i}]]
  /\ UNCHANGED <<class, params, svc, secret, queue, lb, watches, raced, edits, faults>>

\* Updates without a change are ignored, those of a resync too.
ResyncIgnored ==
  /\ Busy = {} /\ \A g \in queue : Blocked(g)
  /\ UNCHANGED vars

\* The informer repeats what it knows every --sync-period, long enough for
\* the queue to be worked off.
Resync ==
  /\ Busy = {} /\ \A g \in queue : Blocked(g)
  /\ UNCHANGED <<cluster, work, lb, watches, edits, faults>>
  /\ Enqueue(Referring)

\* Any call fails; what was done before it stays.
Fail(g) ==
  /\ faults < MaxFaults /\ faults' = faults + 1
  /\ work[g].pc \in {"finalize", "deploy", "unfinalize"}
  /\ Retry(g)
  /\ UNCHANGED <<cluster, lb, watches, raced, edits>>

-----------------------------------------------------------------------------

\* The first list, and every list after a lost watch, comes without events.
ReflectorLists ==
  /\ reflector = "starting" /\ reflector' = "watching"
  /\ UNCHANGED <<cluster, queue, work, lb, users, raced, edits, faults>>

WatchBreaks ==
  /\ faults < MaxFaults /\ faults' = faults + 1
  /\ reflector = "watching" /\ reflector' = "starting"
  /\ UNCHANGED <<cluster, queue, work, lb, users, raced, edits>>

Restart ==
  /\ faults < MaxFaults /\ faults' = faults + 1
  /\ work' = [g \in Group |-> Idle]
  /\ queue' = UNION {enqueueIfBelongsToGroup(i) : i \in Ingress}
  /\ users' = {} /\ reflector' = "none" /\ raced' = {}
  /\ UNCHANGED <<cluster, lb, edits>>

Cluster ==
  \/ \E i \in Ingress : EditIngress(i) \/ CreateIngress(i) \/ DeleteIngress(i)
  \/ EditService \/ EditClass \/ EditParams \/ EditSecret \/ Resync

Reconcile(g) ==
  \/ Load(g) \/ AddGroupFinalizer(g) \/ AddGroupFinalizerRefused(g) \/ Build(g)
  \/ Deploy(g) \/ RemoveGroupFinalizer(g)

Next ==
  \/ Cluster
  \/ \E g \in Group : Reconcile(g) \/ Fail(g)
  \/ ReflectorLists \/ WatchBreaks \/ Restart

Spec == Init /\ [][Next]_vars

\* Workers go on, reflectors list, and the informer resyncs.
Fairness ==
  /\ \A g \in Group : WF_vars(Reconcile(g))
  /\ WF_vars(ReflectorLists)
  /\ WF_vars(Resync)

FairSpec == Spec /\ Fairness

-----------------------------------------------------------------------------

Params == {"absent", "plain", "other", "g"}
IngressType ==
  [exists : BOOLEAN, deleting : BOOLEAN, group : {"own", "g", "bad"}, auth : BOOLEAN,
   fin : SUBSET Group]
PartType ==
  [ing : Ingress, auth : {{}, {0}, {1}}, svc : {0, 1}, params : Params \cup {"none"}]
WorkType ==
  [pc : {"idle", "finalize", "deploy", "unfinalize"}, todo : SUBSET Ingress,
   inactive : SUBSET Ingress, params : Params \cup {"none"}, parts : SUBSET PartType]

\* The variables have their types; an Ingress that is being deleted waits for
\* a finalizer, and one that is gone has none: AddFinalizers does not write to
\* an Ingress that it does not find.
TypeOK ==
  /\ ing \in [Ingress -> IngressType]
  /\ \A i \in Ingress :
       /\ ing[i].fin # {} => ing[i].exists
       /\ ing[i].deleting => ing[i].fin # {}
  /\ class \in {"absent", "foreign", "alb", "params"} /\ params \in Params
  /\ svc \in {0, 1} /\ secret \in {0, 1}
  /\ queue \subseteq Group /\ users \subseteq Group /\ raced \subseteq Group
  /\ work \in [Group -> WorkType] /\ lb \in [Group -> SUBSET PartType]
  /\ reflector \in {"none", "starting", "watching"}

Wanted(g) == {Part(i, IF class = "params" THEN params ELSE "none") : i \in Active(g)}

\* What the load balancer was built from, but for what the secret held.
Known(parts) == {[p EXCEPT !.auth = IF @ = {} THEN {} ELSE {"some"}] : p \in parts}

\* No event is missed: a group that is neither queued nor at work has the
\* load balancer that its members, their class, parameters and Service ask
\* for, however Ingresses were moved, deleted and created while groups were
\* reconciled.  A change of a member between its being loaded and its
\* getting the finalizer is the exception: that event finds neither the
\* finalizer nor the group (enqueueIfBelongsToGroup).
NothingMissed ==
  \A g \in Group \ (queue \cup raced) : At(g, "idle") => Known(lb[g]) = Known(Wanted(g))

\* The Secret is watched for exactly the groups that were deployed with it,
\* as soon as they are at rest, and while it is used by any (MonitorSecrets).
SecretsWatched ==
  /\ \A g \in Group \ queue : At(g, "idle") => (g \in users <=> \E p \in lb[g] : p.auth # {})
  /\ reflector = "none" <=> users = {}

\* Once nothing is edited any more, every group gets what its members ask
\* for, with the Secret as it is: the resync makes up for changes of the
\* Secret before its watch stood and for events that missed their group
\* (Update enqueues on a resync although nothing has changed).
Converges == <>[](\A g \in Group : Blocked(g) \/ lb[g] = Wanted(g))
=============================================================================
