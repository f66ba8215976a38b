---------------------------- MODULE ServiceModel ----------------------------
(***************************************************************************)
(* pkg/service: from a Service to the network load balancer, its listeners *)
(* and target groups, and the network rules of their bindings.             *)
(*                                                                         *)
(* An optional setting of the Service is the set of what is stated: {} or  *)
(* one value.  A port value is [name, n]; a named one has n = 0, which is  *)
(* what IntValue gives for it.  env holds the controller's settings and    *)
(* the CIDRs of VPC and subnets; existing is the set of the load balancer  *)
(* that is there, if one is.                                               *)
(***************************************************************************)
EXTENDS Naturals, Sequences, FiniteSets, TLC

Failed == [ok |-> FALSE]

Number(n) == [name |-> "", n |-> n]
Named(s) == [name |-> s, n |-> 0]
TrafficPort == Named("traffic-port")

Or(stated, default) == IF stated = {} THEN default ELSE CHOOSE v \in stated : TRUE

\* A load balancer class, where there is one, decides alone.
IsServiceSupported(s, env) ==
  /\ ~s.deleting
  /\ env.loadBalancersOnly => s.kind = "LoadBalancer"
  /\ IF s.class # {} THEN s.class = {env.class}
     ELSE \/ s.lbType = {"nlb-ip"}
          \/ s.lbType = {"external"} /\ s.target \in {{"ip"}, {"instance"}}

\* Without an annotation the scheme of the existing load balancer stays.
buildLoadBalancerScheme(s, existing) ==
  Or(s.scheme, Or(s.internal, Or({lb.scheme : lb \in existing}, "internal")))

\* A network load balancer that has no security groups can never get any.
buildLoadBalancerSecurityGroups(s, env, existing) ==
  LET manage == Or(s.manage, FALSE)
  IN  IF \E lb \in existing : ~lb.groups THEN [ok |-> TRUE, groups |-> FALSE, from |-> {}]
      ELSE IF ~env.securityGroups
      THEN IF existing # {} THEN Failed ELSE [ok |-> TRUE, groups |-> FALSE, from |-> {}]
      ELSE IF ~s.ownGroups
      THEN [ok |-> TRUE, groups |-> TRUE, from |-> {IF env.backendSG THEN "backend" ELSE "managed"}]
      ELSE IF manage /\ ~env.backendSG THEN Failed
      ELSE [ok |-> TRUE, groups |-> TRUE, from |-> IF manage THEN {"backend"} ELSE {}]

-----------------------------------------------------------------------------
(* Target groups.                                                          *)

buildTargetType(s, port, env) ==
  LET target == Or(s.target, env.targetType)
  IN  IF target = "ip" /\ ~env.ipTargets THEN Failed
      ELSE IF s.lbType = {"nlb-ip"} \/ target = "ip" THEN [ok |-> TRUE, value |-> "ip"]
      ELSE IF s.kind = "ClusterIP" \/ port.node = 0 THEN Failed
      ELSE [ok |-> TRUE, value |-> "instance"]

\* A port stated by name is looked up among the ports of the Service.
buildTargetGroupHealthCheckPort(s, default, targetType) ==
  LET stated == Or(s.hc.port, default)
      named == {i \in DOMAIN s.ports : s.ports[i].name = stated.name}
      svcPort == s.ports[CHOOSE i \in named : TRUE]
  IN  IF stated = TrafficPort \/ stated.name = "" THEN [ok |-> TRUE, value |-> stated]
      ELSE IF named = {} THEN Failed
      ELSE IF targetType = "instance" THEN [ok |-> TRUE, value |-> Number(svcPort.node)]
      ELSE IF svcPort.target.name = "" THEN [ok |-> TRUE, value |-> svcPort.target]
      ELSE Failed

\* With externalTrafficPolicy Local the node's own health check is asked.
buildTargetGroupHealthCheckConfig(s, targetType, env) ==
  LET local == targetType = "instance" /\ s.local /\ s.kind = "LoadBalancer"
      port == buildTargetGroupHealthCheckPort(
                s, IF local THEN Number(s.healthCheckNodePort) ELSE TrafficPort, targetType)
      protocol == Or(s.hc.protocol, IF local THEN "HTTP" ELSE "TCP")
      timeout == IF local THEN 6 ELSE 10
  IN  IF ~port.ok THEN Failed
      ELSE [ok |-> TRUE, port |-> port.value, protocol |-> protocol,
            interval |-> Or(s.hc.interval, 10),
            timeout |-> IF env.advancedHealthCheck THEN Or(s.hc.timeout, timeout) ELSE timeout,
            matcher |-> IF protocol = "TCP" \/ ~env.advancedHealthCheck THEN {}
                        ELSE {Or(s.hc.codes, "200-399")}]

buildPreserveClientIPFlag(s, targetType) == Or(s.preserve, targetType = "instance")

buildTargetGroupPort(targetType, port) ==
  IF targetType = "instance" THEN port.node
  ELSE IF port.target.name = "" THEN port.target.n ELSE 1

\* Mutant: the protocol is not part of the name.
buildTargetGroupNameWithoutProtocol(port, tgPort, targetType, protocol, hc) ==
  <<tgPort, port.port, targetType, hc.protocol, hc.interval>>

\* What the hash of the name is taken of, beside cluster and Service.
buildTargetGroupName(port, tgPort, targetType, protocol, hc) ==
  <<tgPort, port.port, targetType, protocol, hc.protocol, hc.interval>>

buildTargetGroupIPAddressType(s, ipType) ==
  IF "IPv6" \notin s.families THEN [ok |-> TRUE, value |-> "ipv4"]
  ELSE IF ipType = "dualstack" THEN [ok |-> TRUE, value |-> "ipv6"] ELSE Failed

-----------------------------------------------------------------------------
(* The network rules of a binding: who may reach which port of a target.   *)
(* The port "any" is that of a rule without a port.                        *)

Rule(from, protocol, port) == [from |-> from, protocol |-> protocol, port |-> port]

AnyPort == Named("any")

\* One rule, from the security group that the load balancer shows.
buildTargetGroupBindingNetworking(from, tgPort, hcPort, port, env) ==
  LET same == hcPort = TrafficPort \/ (hcPort.name = "" /\ hcPort.n = tgPort.n)
      ports ==
        IF ~env.restrictedRules
        THEN {<<"TCP", AnyPort>>} \cup (IF port.protocol = "UDP" THEN {<<"UDP", AnyPort>>} ELSE {})
        ELSE {<<port.protocol, tgPort>>}
             \cup (IF same /\ port.protocol = "UDP" THEN {<<"TCP", tgPort>>} ELSE {})
             \cup (IF same THEN {} ELSE {<<"TCP", hcPort>>})
  IN  {Rule(f, p[1], p[2]) : f \in from, p \in ports}

Everyone == {"0.0.0.0/0", "::/0"}

\* Internal load balancers are reached from the VPC.
getDefaultIPSourceRanges(ipType, udpOrPreserve, scheme, env) ==
  IF udpOrPreserve /\ scheme = "internal" THEN {env.vpc[ipType]}
  ELSE {IF ipType = "ipv6" THEN "::/0" ELSE "0.0.0.0/0"}

\* Mutant: the port of the health check is not compared with the traffic's.
buildHealthCheckSourceCIDRsAnyPort(source, subnets, tgPort, hcPort, udp, preserve, defaultUsed) ==
  IF ~udp /\ (~preserve \/ defaultUsed \/ source \cap Everyone # {}) THEN {} ELSE subnets

buildHealthCheckSourceCIDRs(source, subnets, tgPort, hcPort, udp, preserve, defaultUsed) ==
  IF /\ ~udp
     /\ hcPort = TrafficPort \/ hcPort.n = tgPort.n
     /\ ~preserve \/ defaultUsed \/ source \cap Everyone # {}
  THEN {} ELSE subnets

\* Without security groups the peers are the clients, or the subnets that
\* the load balancer connects and asks for health from.
buildTargetGroupBindingNetworkingLegacy(s, tgPort, hcPort, port, scheme, ipType, preserve, env) ==
  LET udp == port.protocol = "UDP"
      subnets == env.subnets[ipType]
      defaultUsed == (udp \/ preserve) /\ s.ranges = {}
      source == IF ~udp /\ ~preserve THEN subnets
                ELSE IF s.ranges # {} THEN s.ranges
                ELSE getDefaultIPSourceRanges(ipType, udp \/ preserve, scheme, env)
      checked == buildHealthCheckSourceCIDRs(source, subnets, tgPort, hcPort, udp, preserve,
                                             defaultUsed)
      hc == IF hcPort = TrafficPort THEN tgPort ELSE hcPort
  IN  IF ~Or(s.manage, TRUE) THEN {}
      ELSE {Rule(f, port.protocol, tgPort) : f \in source} \cup {Rule(f, "TCP", hc) : f \in checked}

\* The port that targets are registered with, and the rules that open it.
buildTargetGroupBindingSpec(s, tg, port, scheme, groups, env) ==
  LET tgPort == IF tg.type = "instance" THEN Number(port.node) ELSE port.target
  IN  [port |-> tgPort,
       rules |-> IF groups.groups
                 THEN buildTargetGroupBindingNetworking(groups.from, tgPort, tg.hc.port, port, env)
                 ELSE buildTargetGroupBindingNetworkingLegacy(
                        s, tgPort, tg.hc.port, port, scheme, tg.ipType, tg.preserve, env)]

\* A target group with its binding.
buildTargetGroup(s, port, protocol, scheme, groups, env) ==
  LET type == buildTargetType(s, port, env)
      hc == buildTargetGroupHealthCheckConfig(s, type.value, env)
      ipType == buildTargetGroupIPAddressType(s, Or(s.ipType, "ipv4"))
      spec == [ok |-> TRUE, type |-> type.value, protocol |-> protocol, ipType |-> ipType.value,
               hc |-> hc, preserve |-> buildPreserveClientIPFlag(s, type.value),
               name |-> buildTargetGroupName(port, buildTargetGroupPort(type.value, port),
                                             type.value, protocol, hc)]
  IN  IF ~type.ok THEN Failed
      ELSE IF ~hc.ok \/ ~ipType.ok THEN Failed
      ELSE spec @@ buildTargetGroupBindingSpec(s, spec, port, scheme, groups, env)

\* The differences of a deployed target group that no update can remove.
isSDKTargetGroupRequiresReplacement(sdk, res, env) ==
  \/ sdk.type # res.type \/ sdk.protocol # res.protocol
  \/ /\ ~env.advancedHealthCheck
     /\ \/ sdk.hc.protocol # res.hc.protocol
        \/ res.hc.matcher # {} /\ sdk.hc.matcher # res.hc.matcher
        \/ sdk.hc.interval # res.hc.interval
        \/ sdk.hc.timeout # res.hc.timeout

-----------------------------------------------------------------------------
(* Listeners, and the stack.  Both are kept by the number of their port:   *)
(* the first target group and the last listener of a number count.         *)

validateTLSPortsSet(s) ==
  \A t \in s.tlsPorts : \E i \in DOMAIN s.ports :
    t \in {Named(s.ports[i].name), Number(s.ports[i].port)}

Terminates(s, port) ==
  /\ port.protocol # "UDP"
  /\ s.certs # <<>>
  /\ s.tlsPorts = {} \/ {Named(port.name), Number(port.port)} \cap s.tlsPorts # {}

buildListenerSpec(s, port) ==
  LET tls == Terminates(s, port)
  IN  [protocol |-> IF tls THEN "TLS" ELSE port.protocol,
       tgProtocol |-> IF tls /\ s.backend = {"ssl"} THEN "TLS" ELSE port.protocol,
       certs |-> IF tls THEN s.certs ELSE <<>>]

buildCIDRsFromSourceRanges(s) ==
  IF s.ranges # {} THEN s.ranges
  ELSE IF s.ipType = {"dualstack"} THEN Everyone ELSE {"0.0.0.0/0"}

buildManagedSecurityGroupIngressPermissions(s) ==
  {Rule(c, s.ports[i].protocol, Number(s.ports[i].port)) :
     c \in buildCIDRsFromSourceRanges(s), i \in DOMAIN s.ports}

\* Only a dualstack load balancer takes IPv6 ranges.
sourceRangesFit(s, env) == s.ipType = {"dualstack"} \/ s.ranges \cap env.v6 = {}

run(s, env, existing) ==
  LET scheme == buildLoadBalancerScheme(s, existing)
      groups == buildLoadBalancerSecurityGroups(s, env, existing)
      numbers == {s.ports[i].port : i \in DOMAIN s.ports}
      At(n) == {i \in DOMAIN s.ports : s.ports[i].port = n}
      first(n) == s.ports[CHOOSE i \in At(n) : \A j \in At(n) : i <= j]
      last(n) == s.ports[CHOOSE i \in At(n) : \A j \in At(n) : j <= i]
      tgs == [n \in numbers |->
                buildTargetGroup(s, first(n), buildListenerSpec(s, first(n)).tgProtocol,
                                 scheme, groups, env)]
  IN  IF ~IsServiceSupported(s, env)
      THEN IF s.finalizer /\ s.protected THEN Failed ELSE [ok |-> TRUE, lb |-> {}]
      ELSE IF \/ ~validateTLSPortsSet(s) \/ ~groups.ok
              \/ groups.groups /\ ~s.ownGroups /\ ~sourceRangesFit(s, env)
              \/ \E n \in numbers : ~tgs[n].ok
      THEN Failed
      ELSE [ok |-> TRUE, lb |-> {[scheme |-> scheme, groups |-> groups.groups]},
            permissions |-> IF groups.groups /\ ~s.ownGroups
                            THEN buildManagedSecurityGroupIngressPermissions(s) ELSE {},
            listeners |-> [n \in numbers |-> buildListenerSpec(s, last(n))],
            tgs |-> tgs]
=============================================================================
