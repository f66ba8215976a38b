---------------------------- MODULE StackDeployer ----------------------------
(***************************************************************************)
(* pkg/deploy: how a resource stack is brought about in AWS and Kubernetes.*)
(*                                                                         *)
(* A resource is identified by its key, which stands for the resource ID   *)
(* tag together with the settings AWS cannot modify (the scheme of a load  *)
(* balancer, the target type and protocol of a target group, the port of   *)
(* a listener, the priority of a rule): a resource that needs replacement  *)
(* is another key.  Its modifiable settings are                            *)
(*    tags   the tags                                                      *)
(*    conf   a target group's health check; a load balancer's subnets and  *)
(*           address type; the rest of a listener's or a rule's settings   *)
(*    to     the security groups of a load balancer, the target groups of  *)
(*           a listener's or a rule's actions                              *)
(*    attrs  what takes a call of its own after the creation: attributes,  *)
(*           or the ingress rules of a security group                      *)
(*    certs  the certificates of a listener beyond the default one.        *)
(* Every resource has its AWS calls made one after the other; each can     *)
(* fail, which abandons the deployment and requeues the reconcile.  AWS    *)
(* refuses nothing here except to delete or reattach what a deleted load   *)
(* balancer still holds: that the order of the calls is enough is what the *)
(* properties are about.                                                   *)
(***************************************************************************)
EXTENDS Naturals, Sequences, FiniteSets

CONSTANTS
  SG, TG, LB, LS, Rule,   \* the resources of each type
  Parent,      \* the load balancer of a listener, the listener of a rule
  Value, Cert, \* what settings may be, 0 being what AWS sets by itself
  Stacks,      \* what the model builder may ask for: [res, bind]
  First,       \* what it asks for at first
  Protected,   \* the load balancer attributes with deletion protection on
  NoStack,     \* the empty stack, of a deleted Service or an empty group
  MaxEdits, MaxFaults

Key == SG \cup TG \cup LB \cup LS \cup Rule
None == "none"

Settings == [tags : Value, conf : Value, to : SUBSET Key, attrs : Value, certs : SUBSET Cert]

\* What a resource of each type may refer to, and the settings it does not have.
MayReferTo(k) == IF k \in LB THEN SG ELSE IF k \in LS \cup Rule THEN TG ELSE {}

Proper(k, v) ==
  /\ v.to \subseteq MayReferTo(k)
  /\ k \in SG => v.conf = 0
  /\ k \in LS \cup Rule => v.attrs = 0
  /\ k \notin LS => v.certs = {}

\* The model builders put every resource that one refers to, or is a part of,
\* into the stack as well, and the target group of a binding.  They make one
\* load balancer, with at least one listener.
WellFormed(s) ==
  /\ DOMAIN s.res \subseteq Key /\ s.res \in [DOMAIN s.res -> Settings]
  /\ \A k \in DOMAIN s.res :
       /\ Proper(k, s.res[k]) /\ s.res[k].to \subseteq DOMAIN s.res
       /\ k \in LS \cup Rule => Parent[k] \in DOMAIN s.res
       /\ k \in LB => \E l \in LS \cap DOMAIN s.res : Parent[l] = k
  /\ \A j, k \in LB \cap DOMAIN s.res : j = k
  /\ DOMAIN s.bind \subseteq TG \cap DOMAIN s.res

ASSUME KindAssumption ==
  /\ SG \cap (TG \cup LB \cup LS \cup Rule) = {} /\ TG \cap (LB \cup LS \cup Rule) = {}
  /\ LB \cap (LS \cup Rule) = {} /\ LS \cap Rule = {} /\ None \notin Key
ASSUME ParentAssumption ==
  (\A k \in LS : Parent[k] \in LB) /\ (\A k \in Rule : Parent[k] \in LS)
ASSUME ValueAssumption == 0 \in Value
ASSUME StackAssumption ==
  /\ First \subseteq Stacks /\ NoStack \in Stacks /\ DOMAIN NoStack.res = {}
  /\ \A s \in Stacks : WellFormed(s)
ASSUME LimitAssumption == MaxEdits \in Nat /\ MaxFaults \in Nat

VARIABLES
  want, dirty,   \* the stack asked for; the reconcile is queued
  pc, stack,     \* the stage of the deployment, and its stack
  work,          \* what the stage still has to delete, create and update
  unmatched,     \* security and target groups kept for PostSynthesize
  listed,        \* the bindings as the informer showed them when listed
  wait,          \* the binding whose deletion or observation is awaited
  live,          \* the resources in AWS, with their settings
  held,          \* groups that a deleted load balancer has not released
  tgb, cache,    \* the TargetGroupBindings, and the informer's view of them
  edits, faults

ctrl == <<pc, stack, work, unmatched, listed, wait>>
aws == <<live, held>>
k8s == <<tgb, cache>>
vars == <<want, dirty, ctrl, aws, k8s, edits, faults>>

NoWork == [del |-> {}, add |-> {}, upd |-> {}]
Fresh == [tags |-> 0, conf |-> 0, to |-> {}, attrs |-> 0, certs |-> {}]
Empty == [k \in {} |-> Fresh]
NoBindings == [k \in {} |-> None]

\* f with the keys of K removed; f with k set to v.
Without(f, K) == [k \in DOMAIN f \ K |-> f[k]]
With(f, k, v) == [j \in DOMAIN f \cup {k} |-> IF j = k THEN v ELSE f[j]]

ResOf(T) == DOMAIN stack.res \cap T
LiveOf(T) == DOMAIN live \cap T

Init ==
  /\ want \in First /\ dirty = TRUE
  /\ pc = "idle" /\ stack = NoStack /\ work = NoWork
  /\ unmatched = {} /\ listed = NoBindings /\ wait = None
  /\ live = Empty /\ held = {}
  /\ tgb = NoBindings /\ cache = NoBindings
  /\ edits = 0 /\ faults = 0

-----------------------------------------------------------------------------
(* The reconcile queue.                                                    *)

\* The Ingresses or the Service change; the event handlers queue a reconcile.
Edit ==
  /\ edits < MaxEdits /\ edits' = edits + 1
  /\ want' \in Stacks \ {want} /\ dirty' = TRUE
  /\ UNCHANGED <<ctrl, aws, k8s, faults>>

\* The informers resync after --sync-period and queue every object there is;
\* an Ingress or Service whose finalizer was removed is no longer there.
Resync ==
  /\ ~dirty /\ dirty' = TRUE
  /\ want # NoStack
  /\ UNCHANGED <<want, ctrl, aws, k8s, edits, faults>>

\* Deploy begins with the stack that was built: the first synthesizer is due.
Deploy ==
  /\ pc = "idle" /\ dirty
  /\ dirty' = FALSE /\ stack' = want /\ pc' = "start"
  /\ UNCHANGED <<want, work, unmatched, listed, wait, aws, k8s, edits, faults>>

Reset ==
  /\ pc' = "idle" /\ stack' = stack /\ work' = NoWork
  /\ unmatched' = {} /\ listed' = NoBindings /\ wait' = None

\* An error is swallowed: the reconcile is not queued again.
AbortSilently == Reset /\ dirty' = dirty

\* Deploy returns an error: nothing is synthesized any more, not even the
\* PostSynthesize of what was done, and the reconcile is queued again.
Abort == Reset /\ dirty' = TRUE

Fault == faults < MaxFaults /\ faults' = faults + 1

\* A call fails without effect, or the controller restarts.
Fail ==
  /\ pc # "idle" /\ Fault /\ Abort
  /\ UNCHANGED <<want, aws, k8s, edits>>

\* The stage has nothing left to do.
Through(s) == pc = s /\ work = NoWork /\ wait = None

Finish ==
  /\ Through("postsg")
  /\ Reset
  /\ UNCHANGED <<want, dirty, aws, k8s, edits, faults>>

-----------------------------------------------------------------------------
(* Synthesize: each synthesizer lists what carries the tags of the stack    *)
(* and matches it with the stack.                                          *)

Begin(s, w, u, l) ==
  /\ pc' = s /\ work' = w /\ unmatched' = u /\ listed' = l
  /\ UNCHANGED <<want, dirty, stack, wait, aws, k8s, edits, faults>>

Match(found, res) ==
  [del |-> found \ res, add |-> res \ found, upd |-> res \cap found]

\* Unmatched security groups stay until PostSynthesize: a load balancer may
\* still have them attached.
SynthesizeSecurityGroups ==
  /\ pc = "start"
  /\ LET m == Match(LiveOf(SG), ResOf(SG))
     IN  Begin("sg", [m EXCEPT !.del = {}], m.del, listed)

\* Unmatched target groups stay too: a listener rule may still use them.
SynthesizeTargetGroups ==
  /\ Through("sg")
  /\ LET m == Match(LiveOf(TG), ResOf(TG))
     IN  Begin("tg", [m EXCEPT !.del = {}], unmatched \cup m.del, listed)

\* A load balancer is left to the next deployment while another replaces it.
SynthesizeLoadBalancersKept ==
  /\ Through("tg")
  /\ LET m == Match(LiveOf(LB), ResOf(LB))
     IN  Begin("lb", IF m.add = {} THEN m ELSE [m EXCEPT !.del = {}], unmatched, listed)

SynthesizeLoadBalancers ==
  /\ Through("tg")
  /\ Begin("lb", Match(LiveOf(LB), ResOf(LB)), unmatched, listed)

\* Listeners before their load balancers.
SynthesizeListenersEarly ==
  /\ Through("tg")
  /\ LET found == {k \in LiveOf(LS) : Parent[k] \in {Parent[r] : r \in ResOf(LS)}}
     IN  Begin("ls", Match(found, ResOf(LS)), unmatched, listed)

\* Only the listeners on the load balancers of the stack are listed.
SynthesizeListeners ==
  /\ Through("lb")
  /\ LET found == {k \in LiveOf(LS) : Parent[k] \in {Parent[r] : r \in ResOf(LS)}}
     IN  Begin("ls", Match(found, ResOf(LS)), unmatched, listed)

\* The rules of every listener of the stack, with or without rules in it.
SynthesizeListenerRules ==
  /\ Through("ls")
  /\ LET found == {k \in LiveOf(Rule) : Parent[k] \in ResOf(LS)}
     IN  Begin("rule", Match(found, ResOf(Rule)), unmatched, listed)

\* The bindings are listed in the informer's cache.
SynthesizeTargetGroupBindings ==
  /\ Through("rule")
  /\ LET m == Match(DOMAIN cache, DOMAIN stack.bind)
     IN  Begin("tgb", [m EXCEPT !.del = {}], unmatched, cache)

(* PostSynthesize, in the reverse order. *)
PostSynthesizeTargetGroupBindings ==
  /\ Through("tgb")
  /\ Begin("posttgb", [NoWork EXCEPT !.del = DOMAIN listed \ DOMAIN stack.bind],
           unmatched, listed)

PostSynthesizeTargetGroups ==
  /\ Through("posttgb")
  /\ Begin("posttg", [NoWork EXCEPT !.del = unmatched \cap TG], unmatched, listed)

PostSynthesizeSecurityGroups ==
  /\ Through("posttg")
  /\ Begin("postsg", [NoWork EXCEPT !.del = unmatched \cap SG], {}, listed)

-----------------------------------------------------------------------------
(* The managers: the settings of a resource after each call of an update.  *)

Tagged(cur, des) == [cur EXCEPT !.tags = des.tags]
LoadBalancerAttributes(cur, des) == [cur EXCEPT !.attrs = des.attrs]
TargetGroupAttributes(cur, des) == [cur EXCEPT !.attrs = des.attrs]

SecurityGroupUpdate(cur, des) ==
  LET tagged == Tagged(cur, des)
  IN  <<tagged, [tagged EXCEPT !.attrs = des.attrs]>>

TargetGroupUpdate(cur, des) ==
  LET tagged == Tagged(cur, des)
      checked == [tagged EXCEPT !.conf = des.conf]
  IN  <<tagged, checked, TargetGroupAttributes(checked, des)>>

LoadBalancerUpdate(cur, des) ==
  LET tagged == Tagged(cur, des)
      secured == [tagged EXCEPT !.to = des.to]
      placed == [secured EXCEPT !.conf = des.conf]
  IN  <<tagged, secured, placed, LoadBalancerAttributes(placed, des)>>

\* Certificates are removed before others are added.
ListenerCertificates(cur, des) ==
  LET removed == [cur EXCEPT !.certs = cur.certs \cap des.certs]
  IN  <<removed, [removed EXCEPT !.certs = removed.certs \cup des.certs]>>

ListenerUpdate(cur, des) ==
  LET tagged == Tagged(cur, des)
      modified == [tagged EXCEPT !.to = des.to, !.conf = des.conf]
      extra == ListenerCertificates(modified, des)
  IN  <<tagged, modified, extra[1], extra[2]>>

ListenerRuleUpdate(cur, des) ==
  LET tagged == Tagged(cur, des)
  IN  <<tagged, [tagged EXCEPT !.to = des.to, !.conf = des.conf]>>

\* ... and after the calls of a creation.  The first call sets all but what
\* needs the resource to exist.
Created(des) == [des EXCEPT !.attrs = 0, !.certs = {}]

\* A listener without its further certificates.
ListenerCreateOnly(des) == <<Created(des)>>

SecurityGroupCreate(des) == <<Created(des), [Created(des) EXCEPT !.attrs = des.attrs]>>
TargetGroupCreate(des) == <<Created(des), TargetGroupAttributes(Created(des), des)>>
LoadBalancerCreate(des) == <<Created(des), LoadBalancerAttributes(Created(des), des)>>
ListenerCreate(des) ==
  LET extra == ListenerCertificates(Created(des), des) IN <<Created(des), extra[1], extra[2]>>
ListenerRuleCreate(des) == Created(des)

-----------------------------------------------------------------------------
(* The steps of a stage: deletions, then creations, then updates.          *)

Due(s, part, k) ==
  /\ pc = s /\ wait = None /\ k \in work[part]
  /\ part # "del" => work.del = {}
  /\ part = "upd" => work.add = {}

Did(part, k) ==
  /\ work' = [work EXCEPT ![part] = @ \ {k}]
  /\ UNCHANGED <<dirty, pc, stack, unmatched, listed, faults>>

Made(part, k, v) == live' = With(live, k, v) /\ Did(part, k) /\ wait' = wait

\* The calls for k are made, or one after the first fails.
Calls(part, k, seq) ==
  /\ \/ Made(part, k, seq[Len(seq)])
     \/ \E i \in 1..(Len(seq) - 1) : live' = With(live, k, seq[i]) /\ Fault /\ Abort
  /\ UNCHANGED <<want, held, k8s, edits>>

Attachable(k) == stack.res[k].to \cap held = {}

CreateSecurityGroup(k) == Due("sg", "add", k) /\ Calls("add", k, SecurityGroupCreate(stack.res[k]))
UpdateSecurityGroup(k) == Due("sg", "upd", k) /\ Calls("upd", k, SecurityGroupUpdate(live[k], stack.res[k]))
CreateTargetGroup(k) == Due("tg", "add", k) /\ Calls("add", k, TargetGroupCreate(stack.res[k]))
UpdateTargetGroup(k) == Due("tg", "upd", k) /\ Calls("upd", k, TargetGroupUpdate(live[k], stack.res[k]))
CreateLoadBalancer(k) == Due("lb", "add", k) /\ Calls("add", k, LoadBalancerCreate(stack.res[k]))
UpdateLoadBalancer(k) == Due("lb", "upd", k) /\ Calls("upd", k, LoadBalancerUpdate(live[k], stack.res[k]))

CreateListener(k) ==
  Due("ls", "add", k) /\ Attachable(k) /\ Calls("add", k, ListenerCreate(stack.res[k]))

UpdateListener(k) ==
  Due("ls", "upd", k) /\ Attachable(k) /\ Calls("upd", k, ListenerUpdate(live[k], stack.res[k]))

CreateListenerRule(k) ==
  /\ Due("rule", "add", k) /\ Attachable(k)
  /\ Made("add", k, ListenerRuleCreate(stack.res[k]))
  /\ UNCHANGED <<want, held, k8s, edits>>

UpdateListenerRule(k) ==
  Due("rule", "upd", k) /\ Attachable(k) /\ Calls("upd", k, ListenerRuleUpdate(live[k], stack.res[k]))

\* AWS refuses a target group that a deleted load balancer still holds: the
\* creation has no effect, an update has set the tags.
AttachRefused(k) ==
  /\ \/ Due("ls", "add", k) \/ Due("rule", "add", k)
     \/ Due("ls", "upd", k) \/ Due("rule", "upd", k)
  /\ ~Attachable(k)
  /\ live' = IF k \in work.add THEN live
             ELSE With(live, k, Tagged(live[k], stack.res[k]))
  /\ Abort
  /\ UNCHANGED <<want, held, k8s, edits, faults>>

\* k and the resources that are parts of it.
Parts(k) ==
  {k} \cup {j \in LiveOf(LS \cup Rule) :
              Parent[j] = k \/ (j \in Rule /\ Parent[Parent[j]] = k)}

\* Deletion protection is turned off when AWS refuses because of it, and the
\* deletion repeated.  AWS lets go of the groups some time after it.
DeleteLoadBalancer(k) ==
  /\ Due("lb", "del", k)
  /\ \/ /\ live' = Without(live, Parts(k))
        /\ held' = held \cup UNION {live[j].to : j \in Parts(k)}
        /\ Did("del", k) /\ wait' = wait
     \/ /\ live[k].attrs \in Protected
        /\ live' = [live EXCEPT ![k].attrs = 0]
        /\ Fault /\ Abort /\ held' = held
  /\ UNCHANGED <<want, k8s, edits>>

Drop(part, k) ==
  /\ live' = Without(live, Parts(k))
  /\ Did(part, k)
  /\ UNCHANGED <<want, held, k8s, edits, wait>>

DeleteListener(k) == Due("ls", "del", k) /\ Drop("del", k)
DeleteListenerRule(k) == Due("rule", "del", k) /\ Drop("del", k)

\* These deletions are repeated for a while when AWS says the group is in use.
DeleteTargetGroup(k) == Due("posttg", "del", k) /\ k \notin held /\ Drop("del", k)
DeleteSecurityGroup(k) == Due("postsg", "del", k) /\ k \notin held /\ Drop("del", k)

\* AWS has detached a group from a load balancer that was deleted.
Release(k) ==
  /\ k \in held /\ held' = held \ {k}
  /\ UNCHANGED <<want, dirty, ctrl, live, k8s, edits, faults>>

-----------------------------------------------------------------------------
(* TargetGroupBindings: writes go to the API server, reads to the cache.   *)

Returned(k, w) ==
  /\ Did(IF pc = "posttgb" THEN "del" ELSE IF k \in work.add THEN "add" ELSE "upd", k)
  /\ wait' = w
  /\ UNCHANGED <<want, aws, cache, edits>>

Refuse ==
  /\ Abort
  /\ UNCHANGED <<want, aws, k8s, edits, faults>>

buildK8sTargetGroupBinding(k) == [spec |-> stack.bind[k], seen |-> FALSE, del |-> FALSE]

CreateTargetGroupBinding(k) ==
  /\ Due("tgb", "add", k)
  /\ IF k \in DOMAIN tgb
     THEN Refuse    \* it already exists, unknown to the informer
     ELSE /\ tgb' = With(tgb, k, buildK8sTargetGroupBinding(k))
          /\ Returned(k, None)

\* The patch leaves a binding that is being deleted as doomed as it was.
UpdateTargetGroupBinding(k) ==
  /\ Due("tgb", "upd", k)
  /\ \/ /\ listed[k].spec = stack.bind[k]
        /\ tgb' = tgb /\ Returned(k, None)
     \/ /\ listed[k].spec # stack.bind[k]
        /\ IF k \notin DOMAIN tgb
           THEN Refuse
           ELSE /\ tgb' = [tgb EXCEPT ![k].spec = stack.bind[k],
                                      ![k].seen = @ /\ tgb[k].spec = stack.bind[k]]
                /\ Returned(k, k)

\* waitUntilTargetGroupBindingObserved: the cached object has caught up.
BindingObserved ==
  /\ pc = "tgb" /\ wait # None
  /\ IF wait \notin DOMAIN cache
     THEN Refuse
     ELSE /\ cache[wait].spec = stack.bind[wait] /\ cache[wait].seen
          /\ wait' = None
          /\ UNCHANGED <<want, dirty, pc, stack, work, unmatched, listed,
                         aws, k8s, edits, faults>>

DeleteTargetGroupBinding(k) ==
  /\ Due("posttgb", "del", k)
  /\ IF k \notin DOMAIN tgb
     THEN Refuse    \* it is not there any more, unknown to the informer
     ELSE tgb' = [tgb EXCEPT ![k].del = TRUE] /\ Returned(k, k)

\* The deletion of a binding is not waited for.
BindingDeletedAtOnce ==
  /\ pc = "posttgb" /\ wait # None
  /\ wait' = None
  /\ UNCHANGED <<want, dirty, pc, stack, work, unmatched, listed,
                 aws, k8s, edits, faults>>

\* waitUntilTargetGroupBindingDeleted: the cached object is gone.
BindingDeleted ==
  /\ pc = "posttgb" /\ wait # None /\ wait \notin DOMAIN cache
  /\ wait' = None
  /\ UNCHANGED <<want, dirty, pc, stack, work, unmatched, listed,
                 aws, k8s, edits, faults>>

\* The binding controller has registered the targets, or cleaned them up.
ReconcileBinding(k) ==
  /\ k \in DOMAIN tgb
  /\ \/ tgb[k].del /\ tgb' = Without(tgb, {k})
     \/ ~tgb[k].del /\ ~tgb[k].seen /\ tgb' = [tgb EXCEPT ![k].seen = TRUE]
  /\ UNCHANGED <<want, dirty, ctrl, aws, cache, edits, faults>>

Watch ==
  /\ cache # tgb /\ cache' = tgb
  /\ UNCHANGED <<want, dirty, ctrl, aws, tgb, edits, faults>>

-----------------------------------------------------------------------------
Synthesize ==
  \/ SynthesizeSecurityGroups \/ SynthesizeTargetGroups \/ SynthesizeLoadBalancers
  \/ SynthesizeListeners \/ SynthesizeListenerRules \/ SynthesizeTargetGroupBindings
  \/ PostSynthesizeTargetGroupBindings \/ PostSynthesizeTargetGroups
  \/ PostSynthesizeSecurityGroups

Manage(k) ==
  \/ CreateSecurityGroup(k) \/ UpdateSecurityGroup(k) \/ DeleteSecurityGroup(k)
  \/ CreateTargetGroup(k) \/ UpdateTargetGroup(k) \/ DeleteTargetGroup(k)
  \/ CreateLoadBalancer(k) \/ UpdateLoadBalancer(k) \/ DeleteLoadBalancer(k)
  \/ CreateListener(k) \/ UpdateListener(k) \/ DeleteListener(k)
  \/ CreateListenerRule(k) \/ UpdateListenerRule(k) \/ DeleteListenerRule(k)
  \/ AttachRefused(k)
  \/ CreateTargetGroupBinding(k) \/ UpdateTargetGroupBinding(k)
  \/ DeleteTargetGroupBinding(k)

Controller ==
  \/ Deploy \/ Synthesize \/ Finish \/ BindingObserved \/ BindingDeleted
  \/ \E k \in Key : Manage(k)

Next ==
  \/ Edit \/ Resync \/ Controller \/ Fail \/ Watch
  \/ \E k \in Key : Release(k) \/ ReconcileBinding(k)

Spec == Init /\ [][Next]_vars

\* The worker of the controller keeps running, AWS and the binding controller
\* finish what they began, the watch delivers, and the resync period elapses.
Fairness ==
  /\ WF_vars(Controller) /\ WF_vars(Watch) /\ WF_vars(Resync)
  /\ \A k \in Key : WF_vars(Release(k)) /\ WF_vars(ReconcileBinding(k))

FairSpec == Spec /\ Fairness

-----------------------------------------------------------------------------
\* Between any two steps, whatever failed: the variables have their types.
TypeOK ==
  /\ want \in Stacks /\ stack \in Stacks /\ dirty \in BOOLEAN
  /\ pc \in {"idle", "start", "sg", "tg", "lb", "ls", "rule", "tgb",
             "posttgb", "posttg", "postsg"}
  /\ DOMAIN work = {"del", "add", "upd"} /\ \A p \in DOMAIN work : work[p] \subseteq Key
  /\ unmatched \subseteq SG \cup TG /\ DOMAIN listed \subseteq TG
  /\ wait \in TG \cup {None}
  /\ DOMAIN live \subseteq Key /\ (\A k \in DOMAIN live : live[k] \in Settings) /\ held \subseteq SG \cup TG
  /\ DOMAIN tgb \subseteq TG /\ DOMAIN cache \subseteq TG
  /\ edits \in 0..MaxEdits /\ faults \in 0..MaxFaults

\* What a resource cannot do without: what its settings name, and what it is
\* a part of.
Refs(f) ==
  [k \in DOMAIN f |-> f[k].to \cup IF k \in LS \cup Rule THEN {Parent[k]} ELSE {}]

Promise == INSTANCE StackSpec WITH
  want <- Refs(want.res), plan <- Refs(stack.res), have <- Refs(live)

\* Every step of the deployment, with all its failures, is one that the
\* abstract stack allows.
KeepsPromise == Promise!Spec

Bound(st, k) == k \in DOMAIN tgb /\ ~tgb[k].del /\ tgb[k].spec = st.bind[k]

\* A deployment that comes to its end has made AWS what its stack says: every
\* resource with every setting, whatever earlier deployments left half done,
\* and nothing else.
DeployedExactly == Through("postsg") => live = stack.res

\* The reason why LoadBalancerSynthesizer deletes first: a target group is
\* used by the listeners and rules of at most one load balancer.
OneLoadBalancerPerTarget ==
  \A i, j \in DOMAIN live \cap (LS \cup Rule) :
    LET Of(k) == IF k \in Rule THEN Parent[Parent[k]] ELSE Parent[k]
    IN  live[i].to \cap live[j].to # {} => Of(i) = Of(j)

\* A target group is deleted only when its binding, and with it the targets
\* the binding registered, is gone; the informer must have shown it, though.
BindingGoesFirst ==
  [][\A k \in TG \cap (DOMAIN live \ DOMAIN live') :
        k \in DOMAIN tgb => k \notin DOMAIN listed]_vars

\* Once the edits and the failures end, AWS and the bindings become and stay
\* what is asked for.  The bindings of a stack that is asked away are left
\* out: nothing looks for one that the informer did not show in time.
Converges ==
  <>[](/\ live = want.res
       /\ want # NoStack => /\ DOMAIN tgb = DOMAIN want.bind
                            /\ \A k \in DOMAIN tgb : Bound(want, k))

=============================================================================
