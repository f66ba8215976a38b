------------------------ MODULE LoadBalancerSubnets ------------------------
(***************************************************************************)
(* The subnets of a load balancer: pkg/networking/subnet_resolver.go and   *)
(* the way the model builders of Ingress groups and Services ask it, while *)
(* subnets are tagged and fill up and the settings are edited.             *)
(*                                                                         *)
(* Subnets are numbered in the order of their IDs.                         *)
(* az, zone and name of a subnet never change; tags[s] is                  *)
(*   roles    the schemes it is tagged for                                 *)
(*   cluster  "none", "own" or "other"                                     *)
(*   full     it has fewer free addresses than minimalAvailableIPAddressCount *)
(* ask is [scheme, stated, byID, byTag, dual, eips, v4, v6]: subnets       *)
(* stated by ID or name, a selector by IDs or by role tag of an            *)
(* IngressClassParams; for a network load balancer whether it is dualstack *)
(* and the EIP allocations, IPv4 and IPv6 addresses stated.  An address is *)
(* [subnet, n], the n-th one of a subnet, or of none if subnet is 0; one   *)
(* that cannot be read is like one of none.  An empty set or sequence      *)
(* stands for what is not stated.  The members of a group agree on ask.    *)
(* lb is a set of at most one [scheme, subnets, at], at[s] the addresses.  *)
(***************************************************************************)
EXTENDS Naturals, FiniteSets, Sequences

CONSTANTS Subnet, az, zone, name, Asks, FirstTags, Application, SingleSubnet, TagCheck, MaxChanges

VARIABLES tags, ask, lb, changes

vars == <<tags, ask, lb, changes>>

Failed == [ok |-> FALSE]
NoAddress == [eip |-> {}, v4 |-> {}, v6 |-> {}]
ResolvedAt(S, at) == [ok |-> TRUE, subnets |-> S, at |-> at]
Resolved(S) == ResolvedAt(S, [s \in S |-> NoAddress])

Init ==
  /\ tags \in FirstTags
  /\ ask \in Asks
  /\ lb = {}
  /\ changes = 0

-----------------------------------------------------------------------------

validateSubnetsAZExclusivity(S) == \A s, t \in S : s # t => az[s] # az[t]

validateSubnetsLocaleUniformity(S) == Cardinality({zone[s] : s \in S}) = 1

\* single: whether the caller passes the ALBSingleSubnet gate on.
computeSubnetsMinimalCount(S, single) ==
  IF Application /\ {zone[s] : s \in S} = {"availability-zone"} /\ ~single THEN 2 ELSE 1

Validated(S, single) ==
  IF /\ S # {}
     /\ validateSubnetsLocaleUniformity(S)
     /\ Cardinality(S) >= computeSubnetsMinimalCount(S, single)
  THEN Resolved(S) ELSE Failed

\* Mutant: two subnets of one zone are let through.
ResolveViaNameOrIDSliceAnyZone(stated, single) ==
  LET ids == {e.id : e \in {f \in stated : f.name = "none"}}
      named == {s \in Subnet : name[s] # "none" /\ name[s] \in {e.name : e \in stated}}
  IN  IF ~(ids \subseteq Subnet) \/ Cardinality(ids) + Cardinality(named) # Cardinality(stated)
      THEN Failed ELSE Validated(ids \cup named, single)

\* Names may match several subnets, or none: only the number is compared.
ResolveViaNameOrIDSlice(stated, single) ==
  LET ids == {e.id : e \in {f \in stated : f.name = "none"}}
      named == {s \in Subnet : name[s] # "none" /\ name[s] \in {e.name : e \in stated}}
  IN  IF \/ ~(ids \subseteq Subnet)
         \/ Cardinality(ids) + Cardinality(named) # Cardinality(stated)
         \/ ids \cap named # {}
         \/ ~validateSubnetsAZExclusivity(ids \cup named)
      THEN Failed ELSE Validated(ids \cup named, single)

checkSubnetIsNotTaggedForOtherClusters(s) == TagCheck => tags[s].cluster # "other"

\* One subnet of each zone: tagged for the cluster before others, then by ID.
ResolveViaSelector(role, free, single) ==
  LET fit == {s \in Subnet : /\ role \in tags[s].roles
                             /\ checkSubnetIsNotTaggedForOtherClusters(s)
                             /\ free => ~tags[s].full}
      Before(s, t) == IF (tags[s].cluster = "own") # (tags[t].cluster = "own")
                      THEN tags[s].cluster = "own" ELSE s < t
  IN  Validated({s \in fit : \A t \in fit : t # s /\ az[t] = az[s] => Before(s, t)}, single)

\* A selector that lists subnets takes them all.
ResolveViaSelectorIDs(ids, single) ==
  IF ids \subseteq Subnet /\ validateSubnetsAZExclusivity(ids) THEN Validated(ids, single)
  ELSE Failed

ResolveViaDiscovery(scheme, free) == ResolveViaSelector(scheme, free, FALSE)

\* Of an IngressClassParams.
Selected ==
  IF ask.byID # {} THEN ResolveViaSelectorIDs(ask.byID, SingleSubnet)
  ELSE ResolveViaSelector(CHOOSE r \in ask.byTag : TRUE, FALSE, SingleSubnet)

Selector == ask.byID # {} \/ ask.byTag # {}

\* What the load balancer has, if its scheme is the one asked for.
Kept == {s \in Subnet : \E b \in lb : b.scheme = ask.scheme /\ s \in b.subnets}

\* Mutant: subnets are discovered anew in every reconcile.
buildLoadBalancerSubnetMappingsAnew ==
  IF ask.stated # {} /\ Selector THEN Failed
  ELSE IF ask.stated # {} THEN ResolveViaNameOrIDSlice(ask.stated, SingleSubnet)
  ELSE IF Selector THEN Selected
  ELSE ResolveViaDiscovery(ask.scheme, TRUE)

\* Of an Ingress group: what exists keeps its subnets as they are, as long as
\* its scheme is the one asked for.
buildLoadBalancerSubnetMappings ==
  IF ask.stated # {} /\ Selector THEN Failed
  ELSE IF ask.stated # {} THEN ResolveViaNameOrIDSlice(ask.stated, SingleSubnet)
  ELSE IF Selector THEN Selected
  ELSE IF Kept # {} THEN Resolved(Kept)
  ELSE ResolveViaDiscovery(ask.scheme, TRUE)

\* Of a Service: what exists keeps its subnets too, but they are resolved by
\* their IDs.  Free addresses are not needed where the addresses are stated.
buildLoadBalancerSubnets ==
  IF ask.stated # {} THEN ResolveViaNameOrIDSlice(ask.stated, FALSE)
  ELSE IF Kept # {}
  THEN ResolveViaNameOrIDSlice({[id |-> s, name |-> "none"] : s \in Kept}, FALSE)
  ELSE ResolveViaDiscovery(ask.scheme, ask.v4 = {} \/ ask.scheme = "internet-facing")

FilterIPsWithinCIDRs(ips, s) == {a \in ips : a.subnet = s}

OneEach(ips, S) ==
  /\ Cardinality(ips) = Cardinality(S)
  /\ \A s \in S : Cardinality(FilterIPsWithinCIDRs(ips, s)) = 1

\* Of a Service: EIPs are given to the subnets in the order of their IDs,
\* addresses to the subnets they belong to.
buildServiceSubnetMappings(S) ==
  IF /\ ask.eips # <<>> => ask.scheme = "internet-facing" /\ Len(ask.eips) = Cardinality(S)
     /\ ask.v4 # {} => ask.scheme = "internal" /\ OneEach(ask.v4, S)
     /\ ask.v6 # {} => ask.dual /\ OneEach(ask.v6, S)
  THEN ResolvedAt(S, [s \in S |->
         [eip |-> IF ask.eips = <<>> THEN {} ELSE {ask.eips[Cardinality({t \in S : t <= s})]},
          v4 |-> FilterIPsWithinCIDRs(ask.v4, s), v6 |-> FilterIPsWithinCIDRs(ask.v6, s)]])
  ELSE Failed

Built ==
  IF Application THEN buildLoadBalancerSubnetMappings
  ELSE IF buildLoadBalancerSubnets.ok THEN buildServiceSubnetMappings(buildLoadBalancerSubnets.subnets)
  ELSE Failed

-----------------------------------------------------------------------------

Changing == changes < MaxChanges /\ changes' = changes + 1

Tag ==
  /\ Changing
  /\ \E s \in Subnet : tags' \in
       {[tags EXCEPT ![s].roles = r] : r \in SUBSET {"internal", "internet-facing"}}
       \cup {[tags EXCEPT ![s].cluster = c] : c \in {"none", "own", "other"}}
       \cup {[tags EXCEPT ![s].full = ~@]}
  /\ UNCHANGED <<ask, lb>>

Edit ==
  /\ Changing
  /\ ask' \in Asks \ {ask}
  /\ UNCHANGED <<tags, lb>>

\* Other subnets are set on the load balancer, with their addresses; other
\* addresses in the same subnets are not.  Another scheme takes another load
\* balancer.
Reconcile ==
  LET r == Built
      same == {b \in lb : b.scheme = ask.scheme /\ b.subnets = r.subnets}
  IN  /\ r.ok
      /\ lb' = IF same # {} THEN same
               ELSE {[scheme |-> ask.scheme, subnets |-> r.subnets, at |-> r.at]}
      /\ UNCHANGED <<tags, ask, changes>>

\* The load balancer of the old scheme is deleted, the new one not created.
ReplaceFails ==
  /\ Built.ok
  /\ \E b \in lb : b.scheme # ask.scheme
  /\ lb' = {}
  /\ UNCHANGED <<tags, ask, changes>>

Next == Tag \/ Edit \/ Reconcile \/ ReplaceFails

Spec == Init /\ [][Next]_vars

-----------------------------------------------------------------------------

\* A load balancer whose subnets are discovered keeps them however subnets
\* are tagged or filled after that: discovery is for new load balancers and
\* other schemes (buildLoadBalancerSubnetMappings, buildLoadBalancerSubnets).
SubnetsKept ==
  \A b \in lb, c \in lb' :
    b.scheme = c.scheme /\ ask.stated = {} /\ ~Selector => b.subnets = c.subnets

\* Wherever its subnets come from, and whatever they came from before, a load
\* balancer spans distinct zones of one kind, and an application load
\* balancer two of them unless a single subnet is allowed (the validations
\* of subnet_resolver.go; the subnets that are kept are not validated anew).
PlacementValid ==
  \A b \in lb :
    /\ validateSubnetsAZExclusivity(b.subnets)
    /\ validateSubnetsLocaleUniformity(b.subnets)
    /\ Cardinality(b.subnets) >= computeSubnetsMinimalCount(b.subnets, SingleSubnet)

\* The addresses of a load balancer lie in the subnets that have them, every
\* subnet has one or none has, and no EIP is used twice: through edits of the
\* addresses, the scheme and the subnets, in any order and whichever of them
\* a reconcile came between (buildServiceSubnetMappings; SetSubnets replaces
\* the addresses together with the subnets).
AddressesFit ==
  \A b \in lb :
    /\ \A f \in {"v4", "v6"} :
         /\ \A s \in b.subnets : \A a \in b.at[s][f] : a.subnet = s
         /\ \/ \A s \in b.subnets : Cardinality(b.at[s][f]) = 1
            \/ \A s \in b.subnets : b.at[s][f] = {}
    /\ \A s, t \in b.subnets : s # t => b.at[s].eip \cap b.at[t].eip = {}
    /\ \A s \in b.subnets : IF b.scheme = "internal" THEN b.at[s].eip = {} ELSE b.at[s].v4 = {}

\* A subnet that is discovered is not tagged for other clusters only, and an
\* own one of its zone is not passed over (ResolveViaSelector).
OwnSubnetsFirst ==
  \A c \in lb' :
    lb = {} /\ ask.stated = {} /\ ~Selector =>
      \A s \in c.subnets :
        /\ TagCheck => tags[s].cluster # "other"
        /\ tags[s].cluster = "own"
           \/ \A t \in Subnet : az[t] = az[s] /\ c.scheme \in tags[t].roles /\ ~tags[t].full
                                => tags[t].cluster # "own"
=============================================================================
