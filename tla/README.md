# Verification of the AWS Load Balancer Controller

TLA+ models of the controller in `src/`, checked with TLC on small instances and, where
possible, proved with TLAPS for every value of the constants. Each definition that models
code is tied to its source lines in `PROJECT.json` ("map"), which also lists the parts of
the system ("components"), the runs, and what can go wrong where ("hazards").

## The system

The controller watches a Kubernetes cluster and makes AWS match it. It has three reconcile
loops, each fed by a work queue that runs one reconcile per key at a time and any number of
keys at once:

| part | source | state | modules |
|---|---|---|---|
| ingress group reconciler, loaders, event handlers, secrets manager | `controllers/ingress`, `pkg/ingress`, `pkg/k8s/secrets_*.go` | finalizers, watched secrets, what was deployed | `IngressGroups`, `BackendSG` |
| service reconciler | `controllers/service`, `pkg/service` | finalizer, load balancer | `BackendSG`, `ServiceStack` |
| backend security group provider, finalizer managers | `pkg/networking/backend_sg_provider.go`, `pkg/k8s/finalizer.go` | map of objects, cached id, mutex | `BackendSG` |
| TargetGroupBinding reconciler, targets manager, endpoint resolver, pod cache | `controllers/elbv2`, `pkg/targetgroupbinding`, `pkg/backend`, `pkg/inject` | targets, pod conditions, cache of targets | `TargetGroupBinding` |
| networking manager, security group reconciler and manager | `pkg/targetgroupbinding/networking_manager.go`, `pkg/networking/security_group_*.go` | needs of every binding, tracked groups, cache of rules, mutex | `TGBNetworking` |
| stack deployer, synthesizers, managers | `pkg/deploy` | AWS resources of one stack | `StackDeployer`, `StackSpec` |
| Ingress model builder | `pkg/ingress` | – | `IngressGroupModel`, `IngressBackends`, `ListenerRules`, `IngressModels` |
| Service model builder | `pkg/service` | – | `ServiceModel`, `ServiceStack` |
| subnets, interfaces, certificates | `pkg/networking`, `pkg/ingress/cert_discovery.go` | caches | `LoadBalancerSubnets`, `InterfaceResolvers`, `CertDiscovery` |
| WAF and Shield | `pkg/deploy/wafv2`, `wafregional`, `shield` | caches | `AddOns` |
| tags, tracking, lists | `pkg/deploy/tracking`, `tagging_manager.go` | tags | `ResourceTags`, `ResourceListing` |
| resource graph | `pkg/model/core` | graph | `ResourceGraph` |
| binding webhooks | `webhooks/elbv2` | – | `Admission` |

The ingress and service reconcilers build a stack from the objects, deploy it and share the
backend security group. Stacks contain TargetGroupBindings; the binding reconciler registers
endpoints and, through the networking manager, opens ports on the security groups of pods and
nodes. What makes it hard: reconciles of different keys interleave at every call; objects are
edited while a reconcile works on what it read before; informer caches lag; AWS calls fail, or
take effect and fail; the controller restarts with empty memory; caches answer with old facts.

## Modules

A module has its state as variables, an action for each step that other actors can observe, and
its properties at the end. Its header says what the variables stand for. An operator named like
another with a suffix (`PatchPodByName`, `NotDrainingAll`) is a deliberately wrong variant of it,
used to show that a property can fail.

### BackendSG

`backend_sg_provider.go` with the two reconcilers that call it and the finalizer managers. A
*key* is a work-queue item, an ingress group or a service; a *resource* is an Ingress or a
Service. `objectsMap`, `autoGeneratedSG` and `mutex` are the provider's fields, `pc` and the
variables after it the local state of each reconcile. `Load` reads the members; `AddFinalizer`,
`Build`, `GetSG`, `AllocateSG`, `ReadSG`, `Deploy` follow the code up to the deployment;
`MarkReleased`, `RangeMap`, `ListUnmapped`, `LockRelease`, `RangeMapLocked`,
`ListUnmappedLocked`, `DeleteSG`, `Forget` are Release, with its check before and after the lock;
`RemoveFinalizer` ends it. `ApiError` fails any call, `Crash` forgets all memory.

Abstractions: storing several entries of the `sync.Map` is one step; a backend security group
given by a flag, where nothing is created, is left out; `wants` stands for the annotations and
the condition on an existing load balancer that decide whether the group is needed.

### TargetGroupBinding

One binding with its reconciler, resource manager, targets manager and cache, endpoint resolver,
pod cache, event handlers and the gate webhook, and around it pods, nodes, the service and the
target group. `Resolve`, `List`, `ReconcileNetworking`, `Deregister`, `Register`, `PatchPod` and
their siblings are the reconcile; `CleanList` to `RemoveFinalizer` the cleanup. Events are part
of the action that raises them: `SetNode` enqueues the binding exactly when the node handler does.
A pod name may be used again by a pod with another uid, and an address by another pod.

Abstractions: an AWS call and the record of it in the cache are one step (one worker per
binding); endpoint slices follow pods at once; the port is part of a target's identity.

### TGBNetworking

The rules of endpoint security groups for all bindings at once. Reconciles resolve outside the
networking manager's mutex and go on under it: `desired`, `used`, `todo`, `gc` are what a
reconcile has computed for all bindings, `sgInfoCache` the cached rules, `foreign` the rules
without the controller's label. Two constants say which races are looked at: `LookupRace`, rules
that change while the answer to a lookup is on its way to the cache, and `EarlyDelete`, bindings
deleted before they have their finalizer.

### IngressGroups

Which changes in the cluster lead to a reconcile of which groups: Ingresses claimed by annotation
or class, classes and parameters, a Service and a Secret with its reflector. `raced` collects
the groups that met a race the code leaves open (see the observations below).

### StackDeployer and StackSpec

`Deploy` runs the synthesizers in order and the post-synthesis in reverse: security groups, target
groups, load balancers, listeners, rules, bindings, then deletions of bindings, target groups and
security groups. Every AWS call is a step and may fail, which abandons the deployment (`Abort`); the
stack may be edited at any time. A key stands for a resource ID with the settings that AWS cannot
modify, so a replacement is another key. `StackSpec` is the abstract promise: resources are
created, modified and deleted one by one, only planned ones are created, no planned one is
deleted, and nothing ever refers to what does not exist. `KeepsPromise` is the refinement,
with `want`, `plan`, `have` mapped to what the stacks and the resources in AWS refer to.

### The builders and lookups

`IngressModels` and `ServiceStack` apply the model builders to enumerated inputs (and, for a
Service, over edits and restarts with other feature gates) and compare with definitions of what
is meant: the path types of Kubernetes, the meaning of a list of listener rules, reachability.
`LoadBalancerSubnets`, `CertDiscovery`, `AddOns`, `ResourceTags`, `ResourceListing`,
`InterfaceResolvers`, `ResourceGraph` and `Admission` are state machines of their own, small enough
to be checked side by side by `MCModels`.

## Runs

| run | instance | shows |
|---|---|---|
| `backend_sg_moving` | an ingress that moves between 2 groups, 4 edits, 1 fault | every load balancer keeps an object with its finalizer |
| `backend_sg_live` | a group and a service, 3 edits, 1 fault | no deleted group is deployed, at most one exists, nobody waits for the mutex for ever, deletions complete |
| `backend_sg_moved` | as `backend_sg_moving` | **violated**: the group may be deleted under a reconcile that holds it |
| `backend_sg_leak` | 2 groups of one ingress each, 3 edits | **violated**: an unneeded group may stay |
| `tgb` | 2 pods as IP targets (5 events), or 2 nodes as instance targets (4 events), 1 fault | at rest exactly what would be resolved is registered and let through; only healthy pods become ready |
| `tgb_live` | 1 pod, with fresh caches (6 events, 1 fault), or with lagging caches, a lost answer and the resync | nothing outlives the binding; deletion, registration and readiness come about |
| `tgb_node` | 1 pod on a node that becomes ready | **violated**: the pod is not registered |
| `net_rules` | 2 bindings, 2 security groups, 2 events after any initial population, 1 fault | at rest rules are what is needed, needed ports stay open, foreign rules survive |
| `net_cache` | the same with overlapping lookups, no fault | **violated**: a needed port may stay closed |
| `ingress` | 2 Ingresses, one annotated, one with a class, 2 workers, 2 edits, 1 fault | no event misses its group but for a named race; secrets are watched; all converges with the resync |
| `stack` | 4 stacks of up to 7 resources, 2 edits, 1 fault | refinement of `StackSpec`; exact result; one load balancer per target group; bindings go first; convergence |
| `models` | an instance of each builder and lookup, given in `MCModels` | see the comments of its 18 properties |

**Bounds.** Two actors are enough for every race in question, which is between one reconcile and
one other; one fault or restart can hit every step. Edits are as many as are needed to create the
objects and change or delete one of them while a reconcile runs (`net_rules` and `stack` start
with objects in place or wanted). Chunks hold one target, or two load balancers, so that lists take
several calls. Two ids allow a second security group to be created. Caches live for one or two
ticks, the longer ones longer, so that an entry can outlive the fact. The stacks of `stack` differ
by target type, scheme, security group, number of listeners, rules and certificates. Bindings are
symmetric in `TGBNetworking`, and its properties are not temporal, so symmetry is sound. Deadlock
checking is off where the system may come to rest.

**Fairness.** A worker takes what is queued and goes on (`WF`): the queue loses nothing and calls
return. `TakeLock` of `BackendSG` has `SF`, since Go's mutex does not starve a waiter. Health
checks pass in the end, AWS releases what a deleted load balancer held, watches deliver. Users,
faults and restarts are bound to nothing. The informers' resync (`--sync-period`, ten hours by
default) is fair where a property is about that time scale: `ingress` and `stack` (`Converges`) and
the late half of `tgb_live`, where the expiry of cached targets is fair as well. The other half of
`tgb_live` shows the same properties without them.

### What the violated runs mean

* `backend_sg_moved`: `objectsMap` is keyed by object. When an ingress moves, the old group's
  Release marks it false while the new group's reconcile relies on true, and deletes the group.
* `backend_sg_leak`: Release drops the entries it has marked, so the objects of one reconcile
  look unprocessed to another one, and each leaves the deletion to the other.
* `tgb_node`: a gated pod on a node that is not ready is skipped without a requeue, and node
  events enqueue bindings with instance targets only.
* `net_cache`: a lookup that read the rules before another worker's revocation stores them after
  it; the next reconcile finds the port open in the cache and grants nothing.

### Observations without a run of their own

Met while modelling, and kept out of the properties by the conditions these name.

* Bindings: a rule without ports opens none (`networking_manager.go:375`) though
  `targetgroupbinding_types.go:113` documents all TCP ports; a service port that is restored enqueues
  no IP binding (`service.go:71`); a pod gated after Cleanup listed the pods, or for a binding
  deleted before its finalizer, is not released; a lost answer to DeregisterTargets leaves a cached
  "healthy", which is why `ReadyOnlyHealthy` says `lost = 0`, and one to RegisterTargets may leave
  a target behind; with restricted rules a changed range is revoked before it is granted; a binding
  deleted before its finalizer leaves garbage collection to the next reconcile; rules of untagged
  groups are not found after a restart.
* Deployment: a binding that is being deleted is matched by its ARN when the stack is edited back,
  so that success is reported and the binding is gone until the resync.
* Ingress groups: a change between loading a member and giving it the finalizer finds neither; a
  Secret changed between Build and the reflector's first list stays old until the resync; both are
  in `raced` or left to the resync. Two default IngressClasses fail every load; changing which class
  is the default raises no event for Ingresses without a class; the class loader writes to the cached
  Ingress (`class_loader.go:82`).
* Builders: load balancer attributes of the IngressClassParams come from the first member only, and
  the default certificate depends on the order of the members; a redirect loop on a literal path
  is not omitted, unlike `rule_optimizer.go:39` suggests; TCP and UDP on one port of a Service share
  a resource ID; with NLBHealthCheckAdvancedConfig off a changed health check needs a replacement
  under the same name; a managed security group of an IPv4 load balancer with IPv6 ranges only opens
  nothing.
* Subnets and addresses: an application load balancer keeps its subnets without validating them
  anew, a network load balancer resolves them again; edited addresses for the same subnets never
  reach the load balancer; names are compared by count only.
* Caches and lists: a deleted certificate with a cached ARN fails Discover until the list expires;
  an inactive Shield subscription is cached for two hours; the tagging API is eventually
  consistent and not limited to the VPC; ELB's own list fails when any load balancer of the VPC is
  deleted between list and tags; a default tag with a legacy key passes validation and is never set.

## Proofs

The proofs are for all objects, groups, bindings, pods, resources, stacks, bounds on edits and
faults, and so on. They rest on the named assumptions of the modules (that the kinds of objects
are disjoint, null values are none of the others, bounds are numbers, and for `StackDeployer` that
stacks are as the builders make them), which TLC evaluates in the runs. A theorem names a further
condition only where a run shows, or the text above says, that the code needs it.

**BackendSGProofs**

* `TypeCorrect`: `Spec => []TypeOK`.
* `CachedExists`, `SingleSG`: the cached id exists, and at most one group does, since ids are created
  and deleted only under the mutex and together with the cached id.
* `LBOwned`: `OwnerInv` follows the finalizers through a reconcile: members that are done carry the
  key's finalizer (`FinalizedInv`), inactive ones lose it only after the deployment, and without
  members the load balancer is gone by then (`GoneInv`).
* `HeldSG`: `FixedMembership /\ Spec => []HeldSGExists`. Objects that never move keep their entries
  apart (`BelongsInv`), so what a reconcile needs stays marked (`MappedInv`), and who deletes holds
  the mutex (`MutexInv`) and has seen nobody need it (`DeleteInv`). The condition is what
  `backend_sg_moved` violates.

**TargetGroupBindingProofs**

* `TypeCorrect`: `Spec => []TypeOK`.
* `TargetsCleaned`: `Spec => []NoTargetOutlives`. The cache shows every registered target (`Covered`),
  the finalizer is there whenever one may be registered (`Guarded`), and Cleanup deregisters all
  of them before it goes on (`Cleaning`). With a lost answer `Covered` fails, hence `lost = 0`.
* `OnlyHealthyReady`: `Spec => ReadyOnlyHealthy`. A target that AWS or the cache calls healthy passed
  its checks since its registration (`Truthful`); an endpoint's address is that of the pod of its uid
  unless the pod was replaced since (`Addressed`, with `Dated` for the pod cache); so a patch that
  says healthy is for a target that is not about to be registered or deregistered (`Evaluated`), and
  the uid in the patch keeps it from a pod of the same name that came later.
* `SettledAtRest`: `Prompt` gives `Spec => [](lost = 0 => Converged)`, for both target types. `Settled` says that
  as long as only the reconcile at work will look at the binding (`Alone`), what must be registered is
  registered or about to be, what is registered may stay or is about to go (`Balanced`), and every
  gated pod is let through or about to be evaluated (`Evaluating`). An event that would disturb this
  puts the binding in the queue, and an endpoint the reconcile cannot judge yet makes it requeue. It
  needs that the cache shows what is registered and nothing else (`Covered`, `Backed`), and that a
  backend or binding that returns during Cleanup is queued (`Cleanup`). `Prompt`: the pod cache does
  not lag, nodes are ready (`tgb_node` shows what happens otherwise) and the service keeps its port
  (a restored port enqueues nothing); the last two are asked for IP targets only. `BothConverged` of
  the run `tgb` is this for one instance of each target type.

**TGBNetworkingProofs**

* `ForeignRulesKept`: `~LookupRace` gives `Spec => ForeignKept`, from `CacheInv`: what is cached, fetched or
  in the hands of the reconcile that holds the mutex agrees with the labelled rules in EC2.
* `NeededStaysOpen`: `~LookupRace` gives `Spec => []StaysOpen`. `BindingInv` relates what a reconcile
  resolved to the binding while it did not change; `HolderInv` says that what the holder of the
  mutex wants includes what other bindings were served, if it may revoke at all.
* `RulesConverge`: `~LookupRace` and `~EarlyDelete` give `Spec => []RulesConverged`. `KnownInv` says what the
  manager knows of bindings at rest, `AloneInv` what a reconcile that runs alone has done so far,
  `SettledInv` what holds when the last one ended. `net_cache` shows why `~LookupRace` is needed.

**IngressGroupsProofs**

* `TypeCorrect`, `NoEventMissed` (`[]NothingMissed`) and `WatchesSecrets` (`[]SecretsWatched`), from one
  invariant: a group that is neither queued nor `raced` is, or is about to be, built from its members
  as they are (`CurrentInv`); members do not lose the finalizer of a group they are part of
  (`FinalizedInv`), which is how a change of membership still finds its old group; those let go are
  none of those built from (`ApartInv`); and the watch stands for who uses the Secret (`WatchedInv`).

**StackDeployerProofs**

* `Refinement`: `Spec => KeepsPromise`, that is, every step is a step of `StackSpec` or a stutter, and
  `NoDanglingReference`: `Spec => []Promise!Integrity`.
* `ExactDeployment` (`[]DeployedExactly`), `OneLoadBalancer` (`[]OneLoadBalancerPerTarget`): from the same
  `IInv`. `Staged` says what each stage relies on: groups are `Present` once their stage is through,
  load balancers, listeners and rules are `Matched`, settings included; `Leftover` that all groups
  outside the stack are on the list for the post-synthesis; `Whole` that references hold and there is
  one load balancer at most.
* `BindingsGoFirst`: `Spec => BindingGoesFirst`, with `BInv` for the bindings: one that the informer
  showed is deleted or awaited, and shown until it is gone.

What the builders make is in `WellFormed`. The proof showed which parts of it matter: that every
load balancer has a listener (else a target group might lose its only use before the load balancer
goes), and that a stack has one load balancer.

**AddOnsProofs**

* `AddOnsDeployed` and `UnmanagedProtectionKept`: the action properties `AddOnsAfterTTL` and
  `UnmanagedKept` of `AddOns`, for any lifetimes with `TTL <= SubscriptionTTL`. The invariant relates age
  and remaining time of a wrong cache entry to the time since others changed something.

**ResourceTagsProofs**

* `ResourceStaysFound` (`[]StaysFound`): no call touches the tags that a resource is found by, since those of
  the tracking win over all others (`Tracked`) and valid flags ignore none of them (`Apart`). Others are
  assumed to leave these tags alone (`OthersTag`).
* `ForeignTags` (`[][ForeignTagsKept]_vars`): from what the calls do to each key (`AddEffect`, `RemoveEffect`).
* `TagsAsStated` (`[]TagsReconciled`) and `ConfiguredTags` (`[]ConfiguredTagsApplied`): `AloneInv` says how far a
  reconcile that nobody disturbs has come after each call. The order of the layers is `DesiredLayers`.

**InterfaceResolversProofs**

* `AnswersRight` (`[]RightInterface`): `Named` says that pods and nodes have distinct names, as the code keeps
  a cache for each. The invariant relates what is cached or found to the world as it is: an entry whose
  pod or node still lives names the interface that carries it (`Right`). It stays true because a name
  that is taken over gets a larger uid (`BeforeInv`, `Past`), so an old entry is nobody's, and because live pods
  share no address (`PodInv`).
* `LiveFound` (`[]ResolvesLive`): `Stages` says what is covered when a call comes to an end; each lookup finds
  the pods that it is meant for (`ViaAnnotation`, `ViaNode`, `ViaVPC`, `ViaInstance`), and the last finds every one left.
* `GroupsCurrent` (`[][GroupsAfterTTL]_vars`): a positive TTL (`Lasting`), and `Timely`: an entry with security
  groups of before has at most the lifetime left that `quiet` lacks. That a call takes no time
  compared with the TTL is part of the model (`Tick`).

### Only model-checked, and why

* Liveness (`EveryGetAnswered`, both `DeletionCompletes`, `PodLetThrough`, `PodRegistered`, both
  `Converges`): outside what the prover can do.
* The properties of `models` except those of `AddOns`, `ResourceTags` and `InterfaceResolvers`: most
  are about recursive operators and sequences, where induction over data would be needed, compared over
  enumerated inputs.

## Not modelled

Formatting, logging, metrics, the SDK wrappers with retries and throttling, the parsing of flags and
annotations, wiring in `main.go`, API declarations, and webhooks that look at one version of one
object. What they deliver is an input of the modules. A large part of the repository's lines are
generated mocks and deep copies, which have no behaviour of the controller: the share of lines in
"map" is of a total that includes them. Within modelled parts, "components" says what is left out;
most of it is the detail of settings that are carried through unchanged.
