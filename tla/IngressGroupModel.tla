-------------------------- MODULE IngressGroupModel --------------------------
(***************************************************************************)
(* pkg/ingress/model_builder.go and the model_build files beside it: from  *)
(* the members of an IngressGroup, in their order, to the load balancer,   *)
(* its managed security group and its listeners.                           *)
(*                                                                         *)
(* A member has what its annotations and its IngressClassParams state:     *)
(*   scheme, ipType, name, pool, policy, manage, redirect, backend         *)
(*                            the set of what is stated: {} or one value   *)
(*   params                   those that the IngressClassParams state      *)
(*   groups                   sequence of frontend security groups         *)
(*   listen                   sequence of <<protocol, port>>, if stated    *)
(*   certs, hosts             certificates stated, hosts of rules and TLS  *)
(*   v4, v6                   inbound CIDRs; params may have a pair of both *)
(*   tags, attrs              functions from keys to values                *)
(*   rules                    listener rules, already built                *)
(* Certificates are numbered in the order of their ARNs; a host or domain  *)
(* is the sequence of its labels; certificates maps those of the account   *)
(* to their domains.                                                       *)
(* A build is a record whose field ok is FALSE where the code fails.       *)
(***************************************************************************)
EXTENDS ListenerRules

Failed == [ok |-> FALSE]

\* What IngressClassParams state comes before the annotation.
Stated(m, field) == IF field \in DOMAIN m.params THEN m.params[field] ELSE m[field]

\* Mutant: the first member that states a value decides.
AgreedFirst(members, field, default) ==
  LET stating == {i \in DOMAIN members : Stated(members[i], field) # {}}
      first == CHOOSE i \in stating : \A j \in stating : i <= j
  IN  IF stating = {} THEN [ok |-> TRUE, value |-> default]
      ELSE [ok |-> TRUE, value |-> CHOOSE v \in Stated(members[first], field) : TRUE]

\* One value for the group: the members that state one have to agree.
Agreed(members, field, default) ==
  LET stated == UNION {Stated(members[i], field) : i \in DOMAIN members}
  IN  IF stated = {} THEN [ok |-> TRUE, value |-> default]
      ELSE IF Cardinality(stated) > 1 THEN Failed
      ELSE [ok |-> TRUE, value |-> CHOOSE v \in stated : TRUE]

buildLoadBalancerScheme(members) ==
  LET a == Agreed(members, "scheme", "internal")
  IN  IF a.ok /\ a.value \notin {"internal", "internet-facing"} THEN Failed ELSE a

buildLoadBalancerIPAddressType(members) ==
  LET a == Agreed(members, "ipType", "ipv4")
  IN  IF a.ok /\ a.value \notin {"ipv4", "dualstack"} THEN Failed ELSE a

\* The generated name stands for the hash of cluster, group and scheme; a
\* stated one may be too long.
LongName == "more than 32 characters"
buildLoadBalancerName(members, scheme) ==
  LET a == Agreed(members, "name", <<"k8s", scheme>>)
  IN  IF a.ok /\ a.value = LongName THEN Failed ELSE a

buildLoadBalancerCOIPv4Pool(members) ==
  IF \E i \in DOMAIN members : members[i].pool = {""} THEN Failed
  ELSE Agreed(members, "pool", "none")

buildManageSecurityGroupRulesFlag(members) == Agreed(members, "manage", FALSE)

\* The earlier map of the two counts.
MergeStringMap(f, g) == f @@ g

\* Tags of the annotation, those of the IngressClassParams before them.
buildIngressResourceTags(m, external) ==
  LET class == IF "tags" \in DOMAIN m.params THEN m.params.tags ELSE <<>>
  IN  IF (DOMAIN m.tags \cup DOMAIN class) \cap external # {} THEN Failed
      ELSE [ok |-> TRUE, value |-> MergeStringMap(class, m.tags)]

\* Maps of several members, that have to agree on the keys they share.
United(maps) ==
  LET keys == UNION {DOMAIN m : m \in maps}
      Of(k) == {m[k] : m \in {n \in maps : k \in DOMAIN n}}
  IN  IF \E k \in keys : Cardinality(Of(k)) > 1 THEN Failed
      ELSE [ok |-> TRUE, value |-> [k \in keys |-> CHOOSE v \in Of(k) : TRUE]]

buildIngressGroupResourceTags(members, external) ==
  LET built == {buildIngressResourceTags(members[i], external) : i \in DOMAIN members}
  IN  IF Failed \in built THEN Failed ELSE United({b.value : b \in built})

\* Of the IngressClassParams only those of the first member count.
buildIngressGroupLoadBalancerAttributes(members) ==
  LET united == United({members[i].attrs : i \in DOMAIN members})
      class == IF "attrs" \in DOMAIN members[1].params THEN members[1].params.attrs ELSE <<>>
  IN  IF ~united.ok THEN Failed
      ELSE [ok |-> TRUE, value |-> MergeStringMap(class, united.value)]

\* The security groups of an annotation are compared as lists.
buildFrontendSGNameOrIDsFromAnnotation(members) ==
  LET stated == {members[i].groups : i \in DOMAIN members} \ {<<>>}
  IN  IF Cardinality(stated) > 1 THEN Failed
      ELSE [ok |-> TRUE,
            value |-> IF stated = {} THEN <<>> ELSE CHOOSE g \in stated : TRUE]

-----------------------------------------------------------------------------
(* Certificates discovered for hosts.                                      *)

\* A wildcard stands for exactly one label.
domainMatchesHost(domain, host) ==
  IF Len(domain) > 1 /\ domain[1] = "*"
  THEN Len(domain) = Len(host) /\ Tail(domain) = Tail(host)
  ELSE domain = host

\* Every host needs a certificate, and gets all that match.
Discover(certificates, hosts) ==
  LET For(h) == {c \in DOMAIN certificates :
                   \E d \in certificates[c] : domainMatchesHost(d, h)}
  IN  IF \E h \in hosts : For(h) = {} THEN Failed
      ELSE [ok |-> TRUE, value |-> SetToSortSeq(UNION {For(h) : h \in hosts}, <)]

-----------------------------------------------------------------------------
(* Listen ports.                                                           *)

\* The protocol of each port; of two entries for one port the later counts.
computeIngressListenPorts(m) ==
  LET At(p) == {i \in DOMAIN m.listen : m.listen[i][2] = p}
  IN  IF m.listen = <<>>
      THEN IF m.certs # <<>> THEN 443 :> "HTTPS" ELSE 80 :> "HTTP"
      ELSE [p \in {m.listen[i][2] : i \in DOMAIN m.listen} |->
              m.listen[CHOOSE i \in At(p) : \A j \in At(p) : j <= i][1]]

validListenPorts(m) ==
  \A i \in DOMAIN m.listen :
    m.listen[i][1] \in {"HTTP", "HTTPS"} /\ m.listen[i][2] \in 1..65535

\* IngressClassParams state the CIDRs of both families together.
computeIngressExplicitInboundCIDRs(m) ==
  IF "cidrs" \in DOMAIN m.params THEN m.params.cidrs ELSE <<m.v4, m.v6>>

computeIngressExplicitSSLPolicy(m) == Stated(m, "policy")

\* Certificates are discovered where an HTTPS port comes without stated ones.
computeIngressListenPortConfigByPort(m, certificates) ==
  LET ports == computeIngressListenPorts(m)
      inferred == IF m.certs = <<>> /\ \E p \in DOMAIN ports : ports[p] = "HTTPS"
                  THEN Discover(certificates, m.hosts) ELSE [ok |-> TRUE, value |-> <<>>]
      Cfg(protocol) ==
        [protocol |-> protocol, cidrs |-> computeIngressExplicitInboundCIDRs(m),
         policy |-> IF protocol = "HTTPS" THEN computeIngressExplicitSSLPolicy(m) ELSE {},
         certs |-> IF protocol = "HTTP" THEN <<>>
                   ELSE IF m.certs = <<>> THEN inferred.value ELSE m.certs]
  IN  IF ~validListenPorts(m) \/ ~inferred.ok THEN Failed
      ELSE [ok |-> TRUE, at |-> [p \in DOMAIN ports |-> Cfg(ports[p])]]

\* Mutant: a member that states no CIDRs asks for everyone to be let in.
mergeListenPortConfigsOpen(cfgs) ==
  LET all == {cfgs[i] : i \in DOMAIN cfgs}
      protocols == {c.protocol : c \in all}
      cidrs == {c.cidrs : c \in all}
      policies == UNION {c.policy : c \in all}
      new(certs, c) == certs \o SelectSeq(c.certs, LAMBDA x : ~Contains(certs, x))
  IN  IF Cardinality(protocols) > 1 \/ Cardinality(policies) > 1 THEN Failed
      ELSE [ok |-> TRUE, protocol |-> CHOOSE p \in protocols : TRUE, policy |-> policies,
            cidrs |-> IF <<{}, {}>> \in cidrs THEN <<{"0.0.0.0/0"}, {"::/0"}>>
                      ELSE CHOOSE c \in cidrs : TRUE,
            certs |-> FoldLeft(new, <<>>, cfgs)]

\* The members that state CIDRs, or a policy, have to state the same ones.
mergeListenPortConfigs(cfgs) ==
  LET all == {cfgs[i] : i \in DOMAIN cfgs}
      protocols == {c.protocol : c \in all}
      cidrs == {c.cidrs : c \in all} \ {<<{}, {}>>}
      policies == UNION {c.policy : c \in all}
      new(certs, c) == certs \o SelectSeq(c.certs, LAMBDA x : ~Contains(certs, x))
  IN  IF Cardinality(protocols) > 1 \/ Cardinality(cidrs) > 1 \/ Cardinality(policies) > 1
      THEN Failed
      ELSE [ok |-> TRUE,
            protocol |-> CHOOSE p \in protocols : TRUE,
            cidrs |-> IF cidrs = {} THEN <<{"0.0.0.0/0"}, {"::/0"}>>
                      ELSE CHOOSE c \in cidrs : TRUE,
            policy |-> IF policies = {} /\ protocols = {"HTTPS"} THEN {"default"}
                       ELSE policies,
            certs |-> FoldLeft(new, <<>>, cfgs)]

buildManagedSecurityGroupIngressPermissions(cfgs, ipType) ==
  UNION {{<<p, c>> : c \in cfgs[p].cidrs[1]
                           \cup IF ipType = "dualstack" THEN cfgs[p].cidrs[2] ELSE {}}
         : p \in DOMAIN cfgs}

buildSSLRedirectConfig(members, cfgs) ==
  LET ports == UNION {members[i].redirect : i \in DOMAIN members}
  IN  IF \/ Cardinality(ports) > 1
         \/ \E p \in ports : p \notin DOMAIN cfgs \/ cfgs[p].protocol # "HTTPS"
      THEN Failed ELSE [ok |-> TRUE, value |-> ports]

-----------------------------------------------------------------------------
(* The listeners.                                                          *)

buildSSLRedirectAction(port) ==
  [type |-> "redirect", host |-> {}, path |-> {}, port |-> {port},
   protocol |-> {"HTTPS"}, query |-> {}]

buildListenerDefaultActions(cfg, redirect, members) ==
  LET stated == {i \in DOMAIN members : members[i].backend # {}}
  IN  IF redirect # {} /\ cfg.protocol = "HTTP"
      THEN [ok |-> TRUE, act |-> buildSSLRedirectAction(CHOOSE p \in redirect : TRUE)]
      ELSE IF stated = {} THEN [ok |-> TRUE, act |-> [type |-> "404"]]
      ELSE IF Cardinality(stated) > 1 THEN Failed
      ELSE [ok |-> TRUE,
            act |-> [type |-> "forward",
                     to |-> members[CHOOSE i \in stated : TRUE].backend]]

buildListenerRules(port, cfg, redirect, members) ==
  IF redirect # {} /\ cfg.protocol = "HTTP" THEN <<>>
  ELSE Optimize(port, cfg.protocol,
                FlattenSeq([i \in DOMAIN members |-> members[i].rules]))

buildListener(port, cfg, redirect, members) ==
  LET default == buildListenerDefaultActions(cfg, redirect, members)
  IN  IF ~default.ok THEN Failed
      ELSE [ok |-> TRUE, protocol |-> cfg.protocol, default |-> default.act,
            policy |-> cfg.policy, certs |-> cfg.certs,
            rules |-> buildListenerRules(port, cfg, redirect, members)]

-----------------------------------------------------------------------------

\* backendSG: the feature that keeps a shared backend security group.
buildLoadBalancerSecurityGroups(members, cfgs, ipType, backendSG) ==
  LET groups == buildFrontendSGNameOrIDsFromAnnotation(members)
      manage == buildManageSecurityGroupRulesFlag(members)
      backend(b) == IF b THEN <<"backend">> ELSE <<>>
  IN  IF ~groups.ok THEN Failed
      ELSE IF groups.value = <<>>
      THEN [ok |-> TRUE, groups |-> <<"managed">> \o backend(backendSG),
            rulesFrom |-> IF backendSG THEN "backend" ELSE "managed",
            permissions |-> buildManagedSecurityGroupIngressPermissions(cfgs, ipType)]
      ELSE IF ~manage.ok \/ (manage.value /\ ~backendSG) THEN Failed
      ELSE [ok |-> TRUE, groups |-> groups.value \o backend(manage.value),
            rulesFrom |-> IF manage.value THEN "backend" ELSE "none",
            permissions |-> {}]

\* The load balancer, and what its managed security group lets in.  The
\* subnets are in LoadBalancerSubnets.
buildLoadBalancerSpec(members, cfgs, env) ==
  LET scheme == buildLoadBalancerScheme(members)
      ipType == buildLoadBalancerIPAddressType(members)
      tags == buildIngressGroupResourceTags(members, env.external)
      groups == buildLoadBalancerSecurityGroups(members, cfgs, ipType.value, env.backendSG)
      pool == buildLoadBalancerCOIPv4Pool(members)
      attrs == buildIngressGroupLoadBalancerAttributes(members)
      name == buildLoadBalancerName(members, scheme.value)
  IN  IF ~scheme.ok \/ ~ipType.ok \/ ~tags.ok \/ ~groups.ok \/ ~pool.ok \/ ~attrs.ok \/ ~name.ok
      THEN Failed
      ELSE [ok |-> TRUE, lb |-> [scheme |-> scheme.value, ipType |-> ipType.value,
                                 pool |-> pool.value, name |-> name.value,
                                 groups |-> groups.groups, tags |-> tags.value,
                                 attrs |-> attrs.value],
            permissions |-> groups.permissions]

getDeletionProtectionViaAnnotation(m) == m.protected

\* group: members, inactive (members that leave, deleted ones among them);
\* env: certificates of the account, external (tag keys), backendSG.
run(group, env) ==
  LET members == group.members
      byPort == [i \in DOMAIN members |->
                   computeIngressListenPortConfigByPort(members[i], env.certificates)]
      Ports == UNION {DOMAIN byPort[i].at : i \in DOMAIN members}
      Listed(p) == SelectSeq([i \in DOMAIN members |-> i], LAMBDA i : p \in DOMAIN byPort[i].at)
      On(p) == [i \in DOMAIN Listed(p) |-> members[Listed(p)[i]]]
      cfgs == [p \in Ports |-> mergeListenPortConfigs(
                 [i \in DOMAIN Listed(p) |-> byPort[Listed(p)[i]].at[p]])]
      spec == buildLoadBalancerSpec(members, cfgs, env)
      redirect == buildSSLRedirectConfig(members, cfgs)
      listeners == [p \in Ports |-> buildListener(p, cfgs[p], redirect.value, On(p))]
  IN  IF \E m \in group.inactive : m.deleting /\ getDeletionProtectionViaAnnotation(m) THEN Failed
      ELSE IF members = <<>> THEN [ok |-> TRUE, lb |-> "none"]
      ELSE IF \/ \E i \in DOMAIN members : ~byPort[i].ok
              \/ \E p \in Ports : ~cfgs[p].ok
              \/ ~spec.ok \/ ~redirect.ok
              \/ \E p \in Ports : ~listeners[p].ok
      THEN Failed
      ELSE [ok |-> TRUE, lb |-> spec.lb, permissions |-> spec.permissions,
            listeners |-> listeners]
=============================================================================
