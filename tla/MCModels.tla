------------------------------ MODULE MCModels ------------------------------
(***************************************************************************)
(* Small instances of the modules that share no process with each other,   *)
(* checked in one run: part says which of them a behaviour is about.  The  *)
(* variables of that module are the first of x1, ..., x10, and the others  *)
(* stay idle.                                                              *)
(***************************************************************************)
EXTENDS MCServiceStack, MCIngressModels

VARIABLES part, x1, x2, x3, x4, x5, x6, x7, x8, x9, x10

vars == <<part, x1, x2, x3, x4, x5, x6, x7, x8, x9, x10>>

I == INSTANCE IngressModels WITH
       PathLists <- MCPathLists, RuleLists <- MCRuleLists, Groups <- MCGroups,
       Environment <- MCAccount, Backends <- MCBackends, Requests <- MCRequests,
       given <- x1, built <- x2

S == INSTANCE ServiceStack WITH
       Services <- MCServices, Settings <- MCSettings, FirstServices <- MCFirstServices,
       svc <- x1, env <- x2, lb <- x3, tgs <- x4, done <- x5

-----------------------------------------------------------------------------
(* Four subnets in two zones and a local zone, of an application load      *)
(* balancer (P) and of a network load balancer (N).                        *)

Subnet == 1..4
MCaz == 1 :> "a" @@ 2 :> "a" @@ 3 :> "b" @@ 4 :> "l"
MCzone == [s \in 1..3 |-> "availability-zone"] @@ 4 :> "local-zone"
MCname == 1 :> "x" @@ 2 :> "none" @@ 3 :> "x" @@ 4 :> "y"

Untagged == [roles |-> {"internal"}, cluster |-> "none", full |-> FALSE]
MCTags == {[s \in Subnet |-> Untagged],
           [s \in Subnet |-> [Untagged EXCEPT !.roles = {"internal", "internet-facing"}]]}

ByID(S1) == {[id |-> s, name |-> "none"] : s \in S1}
ByName(S1) == {[id |-> 0, name |-> n] : n \in S1}
Asked(scheme, stated, byTag) ==
  [scheme |-> scheme, stated |-> stated, byID |-> {}, byTag |-> byTag, dual |-> TRUE, eips |-> <<>>,
   v4 |-> {}, v6 |-> {}]
MCAsks ==
  {Asked(s, {}, {}) : s \in {"internal", "internet-facing"}}
  \cup {Asked("internal", x, {}) : x \in {ByID({1, 3}), ByID({1, 2}), ByName({"x", "z"}), ByID({4})}}
  \cup {Asked("internet-facing", {}, {"internal"}), Asked("internal", ByID({1, 3}), {"internal"})}
  \cup {[Asked("internal", {}, {}) EXCEPT !.byID = S1] : S1 \in {{2, 3}, {1, 2}}}

P == INSTANCE LoadBalancerSubnets WITH
       az <- MCaz, zone <- MCzone, name <- MCname, Asks <- MCAsks, FirstTags <- MCTags,
       Application <- TRUE, SingleSubnet <- FALSE, TagCheck <- TRUE, MaxChanges <- 3,
       tags <- x1, ask <- x2, lb <- x3, changes <- x4

In(S1) == {[subnet |-> s, n |-> 1] : s \in S1}
MCServiceAsks ==
  {a \in MCAsks : a.byID = {} /\ a.byTag = {}}
  \cup {[Asked("internal", x, {}) EXCEPT !.v4 = A4] :
           x \in {{}, ByID({1, 3})}, A4 \in {In({1, 3}), In({2, 3}), In({1, 0})}}
  \cup {[Asked("internet-facing", ByID(S1), {}) EXCEPT !.eips = <<"e1", "e2">>, !.v6 = In({1, 3})] :
           S1 \in {{1, 3}, {2, 3}}}
  \cup {[Asked("internal", {}, {}) EXCEPT !.v6 = In({1, 3}), !.dual = d] : d \in BOOLEAN}

N == INSTANCE LoadBalancerSubnets WITH
       az <- MCaz, zone <- MCzone, name <- MCname, Asks <- MCServiceAsks, FirstTags <- MCTags,
       Application <- FALSE, SingleSubnet <- FALSE, TagCheck <- TRUE, MaxChanges <- 2,
       tags <- x1, ask <- x2, lb <- x3, changes <- x4

-----------------------------------------------------------------------------
(* Two certificates for two hosts and a wildcard.                          *)

HostA == <<"a", "example">>
HostB == <<"b", "example">>
AnyHost == <<"*", "example">>

C == INSTANCE CertDiscovery WITH
       Certs <- {1, 2}, Kinds <- {"imported", "issued"}, Hosts <- {{HostA}, {HostA, HostB}},
       DomainSets <- {{HostA}, {HostB}, {AnyHost}}, ARNsTTL <- 1, ImportedTTL <- 2,
       PrivateTTL <- 4, MaxChanges <- 3,
       acm <- x1, gone <- x2, arns <- x3, domains <- x4, quiet <- x5, answer <- x6, changes <- x7

O == INSTANCE AddOns WITH
       Member <- {"m1", "m2"}, ACL <- {"a"}, NoACL <- "none", Unset <- "unset", TTL <- 1,
       SubscriptionTTL <- 2, MaxChanges <- 2,
       notes <- x1, arn <- x2, aws <- x3, cache <- x4, nextID <- x5, quiet <- x6,
       changes <- x7, done <- x8

MCConfigs ==
  [owner : {"ingress", "service"}, external : {{"ext"}, {"owner"}, {"stack"}},
   defaults : {"owner" :> "v", "stack" :> "v", "legacy" :> "v"}]

T == INSTANCE ResourceTags WITH
       Values <- {"this", "v"}, UserKeys <- {"stack", "owner"}, Configs <- MCConfigs,
       MaxChanges <- 3,
       service <- x1, config <- x2, stated <- x3, tags <- x4, pc <- x5, seen <- x6,
       alone <- x7, changes <- x8

-----------------------------------------------------------------------------
(* Two bindings for two target groups, one of either type and address type. *)

MCARN == {"t4", "t6"}
MCSpecs == [arn : MCARN, type : {{}, {"ip"}, {"instance"}}, ipType : {{}, {"ipv4"}, {"ipv6"}},
            node : {{}, {"x"}}]

A == INSTANCE Admission WITH
       Name <- {1, 2}, ARN <- MCARN, Specs <- MCSpecs,
       groupType <- [a \in MCARN |-> IF a = "t4" THEN "ip" ELSE "instance"],
       groupIPType <- [a \in MCARN |-> IF a = "t4" THEN "ipv4" ELSE "ipv6"],
       tgbs <- x1, admitted <- x2

-----------------------------------------------------------------------------
(* Two pods on an instance and a Fargate node, with two addresses.         *)

E == INSTANCE InterfaceResolvers WITH
       Pod <- {"p1", "p2"}, Node <- {"n", "fargate"}, Fargate <- {"fargate"},
       Addr <- {"a1", "a2"}, Worker <- {"w"}, MaxUID <- 2, TTL <- 1, MaxChanges <- 3,
       pods <- x1, before <- x2, nodes <- x3, holder <- x4, groups <- x5, cache <- x6,
       call <- x7, quiet <- x8, changes <- x9

\* Three load balancers, one made later, and chunks of two.
L == INSTANCE ResourceListing WITH
       kind <- [r \in {"l1", "l2", "l3"} |-> "lb"] @@ "t" :> "tg" @@ "s" :> "sg",
       VPC <- {"own", "other"}, vpcID <- "own", Filters <- <<"current", "legacy">>,
       Made <- {"l1", "l2", "t", "s"}, ChunkSize <- 2, MaxChanges <- 2,
       aws <- x1, index <- x2, call <- x3, kept <- x4, ours <- x5, deleted <- x6, changes <- x7

G == INSTANCE ResourceGraph WITH
       Resource <- {"lb", "tg", "tgb"}, MaxDependencies <- 3,
       nodes <- x1, outEdges <- x2, phase <- x3, indegree <- x4, queue <- x5, order <- x6

-----------------------------------------------------------------------------

Idle == "idle"
From8 == x8 = Idle /\ x9 = Idle /\ x10 = Idle
From7 == x7 = Idle /\ From8
From6 == x6 = Idle /\ From7
From5 == x5 = Idle /\ From6
From3 == x3 = Idle /\ x4 = Idle /\ From5

Init ==
  \/ part = "ingress" /\ I!Init /\ From3
  \/ part = "service" /\ S!Init /\ From6
  \/ part = "subnets" /\ P!Init /\ From5
  \/ part = "network" /\ N!Init /\ From5
  \/ part = "certs" /\ C!Init /\ From8
  \/ part = "addons" /\ O!Init /\ x9 = Idle /\ x10 = Idle
  \/ part = "tags" /\ T!Init /\ x9 = Idle /\ x10 = Idle
  \/ part = "admission" /\ A!Init /\ From3
  \/ part = "interfaces" /\ E!Init /\ x10 = Idle
  \/ part = "lists" /\ L!Init /\ From8
  \/ part = "graph" /\ G!Init /\ From7

Next ==
  /\ UNCHANGED part
  /\ \/ part = "ingress" /\ I!Next /\ UNCHANGED <<x3, x4, x5, x6, x7, x8, x9, x10>>
     \/ part = "service" /\ S!Next /\ UNCHANGED <<x6, x7, x8, x9, x10>>
     \/ part = "subnets" /\ P!Next /\ UNCHANGED <<x5, x6, x7, x8, x9, x10>>
     \/ part = "network" /\ N!Next /\ UNCHANGED <<x5, x6, x7, x8, x9, x10>>
     \/ part = "certs" /\ C!Next /\ UNCHANGED <<x8, x9, x10>>
     \/ part = "addons" /\ O!Next /\ UNCHANGED <<x9, x10>>
     \/ part = "tags" /\ T!Next /\ UNCHANGED <<x9, x10>>
     \/ part = "admission" /\ A!Next /\ UNCHANGED <<x3, x4, x5, x6, x7, x8, x9, x10>>
     \/ part = "interfaces" /\ E!Next /\ UNCHANGED x10
     \/ part = "lists" /\ L!Next /\ UNCHANGED <<x8, x9, x10>>
     \/ part = "graph" /\ G!Next /\ UNCHANGED <<x7, x8, x9, x10>>

Spec == Init /\ [][Next]_vars

-----------------------------------------------------------------------------
(* The properties of the modules, each of the behaviours of its part.      *)

\* The paths of a rule are served as Kubernetes defines their types, however
\* they are listed: a request goes to a path that matches it, to an exact one
\* if there is one, and of several prefixes to one of the most elements
\* (sortIngressPaths with the patterns of buildPathPatterns).
MostSpecificPath == part = "ingress" => I!MostSpecificPath

\* The optimizer changes no answer: what it leaves out as an endless redirect
\* comes back to the listener and to the same rule, and without those every
\* request is routed as before what is overshadowed was left out
\* (isInfiniteRedirectRule, isSupersetConditions).
SameRouting == part = "ingress" => I!OmittedRulesLoop /\ I!SameRouting

\* The order of the members decides which rules come first and nothing else:
\* the same members in another order are refused alike or give the same load
\* balancer, security group, ports, certificates, policies and default
\* actions.  (Attributes of the IngressClassParams are those of the first
\* member and left out here.)
OrderFree == part = "ingress" => I!OrderFree

\* A listener lets nobody in whom one of its members keeps out: what the
\* managed security group opens at a port is within the CIDRs that any member
\* states for it, and every listener can be reached from somewhere unless
\* only IPv6 ranges are stated and the load balancer has no such addresses
\* (mergeListenPortConfigs, buildManagedSecurityGroupIngressPermissions).
OnlyStatedCIDRs == part = "ingress" => I!OnlyStatedCIDRs

\* Whatever a listener answers with leads somewhere.  A redirect to HTTPS
\* meets an HTTPS listener that does not redirect (buildSSLRedirectConfig); a
\* rule forwards to Services that exist and have target groups
\* (buildForwardAction); and traffic and health checks reach the targets, of
\* an Ingress and of a Service, whose rules the controller manages
\* (buildTargetGroupBindingNetworking, buildHealthCheckSourceCIDRs).
TargetsReachable ==
  /\ part = "ingress" => I!RedirectReaches /\ I!ForwardsToServices /\ I!TargetsReachable
  /\ part = "service" => S!HealthCheckReachable /\ S!TrafficReachable

\* A target group that has to be replaced can be created beside the old one,
\* because its name differs (buildTargetGroupName of either builder with
\* isSDKTargetGroupRequiresReplacement).  For the health check of a Service,
\* which counts with NLBHealthCheckAdvancedConfig off only, that is not so.
ReplacementCreatable ==
  /\ part = "ingress" => I!ReplacementNamed
  /\ part = "service" => S!ReplacementCreatable

\* What a load balancer has stays unless something else is stated: whether a
\* network load balancer has security groups, whatever the feature gate says
\* after a restart (buildLoadBalancerSecurityGroups); its scheme
\* (buildLoadBalancerScheme); and its subnets, however others are tagged or
\* filled.  Subnets are discovered for a new one only, those of the cluster
\* first (buildLoadBalancerSubnetMappings, ResolveViaSelector).
LoadBalancerStays ==
  [][/\ part = "service" => S!GroupsStay /\ S!SchemeStays
     /\ part = "subnets" => P!SubnetsKept /\ P!OwnSubnetsFirst
     /\ part = "network" => N!SubnetsKept /\ N!OwnSubnetsFirst]_vars

\* Wherever its subnets come from, and whatever they came from before, a load
\* balancer spans distinct zones of one kind, and an application load
\* balancer two of them unless a single subnet is allowed (the validations
\* of subnet_resolver.go; the subnets that are kept are not validated anew).
\* The addresses of a network load balancer lie in the subnets that have
\* them, every subnet has one or none has, and no EIP is used twice
\* (buildServiceSubnetMappings, Reconcile).
PlacementValid ==
  /\ part = "subnets" => P!PlacementValid
  /\ part = "network" => N!PlacementValid /\ N!AddressesFit

\* Once nothing changed for the lifetime of a cache, a lookup through it
\* answers what AWS has: Discover the certificates, although the domains of
\* issued ones are cached for much longer (loadDomainsForCertificate), and
\* Resolve the security groups of interfaces (saveENIInfosToCache).
LookupsAfterTTL ==
  [][/\ part = "certs" => C!DiscoversAfterTTL
     /\ part = "interfaces" => E!GroupsAfterTTL]_vars

\* Once the add-ons were left alone by others for the TTL of the caches, a
\* deployment that succeeds leaves the load balancer with what the members of
\* the group state, a replaced load balancer included: no cache speaks for
\* another ARN (GetAssociatedWebACL, GetProtection).
AddOnsAfterTTL == [][part = "addons" => O!AddOnsAfterTTL]_vars

\* A protection that someone else made is never deleted by the controller,
\* not even when a cache still tells of a managed one before it
\* (synthesizeProtectionsOnLB, DeleteProtection).
UnmanagedKept == [][part = "addons" => O!UnmanagedKept]_vars

\* The resource is found again by the next deployment whatever additional
\* tags are asked for, even ones with the keys of the tracking, and wherever
\* a reconcile stops: it is never left behind (ResourceTags, ReconcileTags).
StaysFound == part = "tags" => T!StaysFound

\* When both calls succeeded and nobody else tagged the resource meanwhile,
\* its other tags are those asked for, and those of the flags and of the
\* tracking are among them (ResourceTags, the validations of the flags).
TagsReconciled == part = "tags" => T!TagsReconciled /\ T!ConfiguredTagsApplied

\* No call of the controller sets or removes a tag with an external key or
\* one that the controller before this one needs (IgnoredTagKeys).
ForeignTagsKept == [][part = "tags" => T!ForeignTagsKept]_vars

\* Through any sequence of requests a binding has the address type of its
\* target group, absent meaning ipv4 to the controller, although an update
\* is only compared with the object before it and an absent field may be
\* filled in later.
AddressTypeFits == part = "admission" => A!AddressTypeFits

\* A Resolve that succeeds gives every pod the interface its address is on,
\* and every node its primary one, as long as they exist: never that of an
\* earlier pod or instance of the name, nor of one that had the address,
\* whoever of these is still asked for and cached (computePodENIInfoCacheKey).
\* And it fails only if one of those it was asked for is gone: whatever
\* network a pod is on, one of the lookups finds it (resolveViaCascadedLookup).
RightInterface == part = "interfaces" => E!RightInterface /\ E!ResolvesLive

\* A list that succeeds has all of the stack's resources in the VPC that
\* others left alone meanwhile, however many requests it takes, and nothing
\* that was another stack's all the time (describeResourceTagsNative,
\* listLoadBalancersRGT, ListSecurityGroups).  It fails only because of a
\* resource that is deleted, with the tagging API one of the stack.
ListsStack == part = "lists" => L!ListsStack /\ L!FailsForDeleted

\* No resource is visited before one it depends on, nor twice, whatever the
\* dependencies, repeated ones included, and a traversal that the visitor
\* lets through visits every resource or tells of a cycle that there is
\* (TopologicalTraversal).
DependenciesFirst == part = "graph" => G!DependenciesFirst /\ G!VisitsAll
=============================================================================
