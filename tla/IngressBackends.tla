--------------------------- MODULE IngressBackends ---------------------------
(***************************************************************************)
(* pkg/ingress: from the backend of an Ingress rule to the actions of the  *)
(* listener rule, the target groups they forward to and the network rules  *)
(* of the bindings (enhanced_backend_builder.go, auth_config_builder.go,   *)
(* model_build_actions.go, model_build_target_group.go).                   *)
(*                                                                         *)
(* ing, and each of the services by name, state target, hcPort, auth and   *)
(* protocol as sets of at most one value; annotations of the Service come  *)
(* before those of the Ingress.  ing.actions maps names to the actions of  *)
(* its annotations.  A port value is [name, n], as in ServiceModel.        *)
(***************************************************************************)
EXTENDS Naturals, Sequences, FiniteSets, TLC

Failed == [ok |-> FALSE]
Built(v) == [ok |-> TRUE, value |-> v]

Number(n) == [name |-> "", n |-> n]
Named(s) == [name |-> s, n |-> 0]
TrafficPort == Named("traffic-port")
UseAnnotation == Named("use-annotation")

Or(stated, default) == IF stated = {} THEN default ELSE CHOOSE v \in stated : TRUE

\* The setting of the two, that of the Service first.
Merged(svc, ing, field) == IF svc[field] # {} THEN svc[field] ELSE ing[field]

-----------------------------------------------------------------------------
(* The action of a backend.                                                *)

Target(svc, port) == [svc |-> svc, port |-> port]
Forward(targets) == [type |-> "forward", targets |-> targets]
build503ResponseAction == [type |-> "503"]

\* The names of the Services an action forwards to; a target group stated
\* by its ARN has none.
ServicesOf(act) ==
  IF act.type # "forward" THEN {}
  ELSE UNION {act.targets[i].svc : i \in DOMAIN act.targets}

buildActionViaAnnotation(ing, name, env) ==
  IF name \in DOMAIN ing.actions THEN Built(ing.actions[name])
  ELSE IF env.tolerateAction THEN Built(build503ResponseAction) ELSE Failed

buildActionViaServiceAndServicePort(name, port) == Forward(<<Target({name}, port)>>)

\* A missing Service is tolerated where the action forwards to nothing else.
loadBackendServices(act, services, env) ==
  LET names == ServicesOf(act)
      single == Cardinality(names) = 1 /\ Len(act.targets) = 1
  IN  IF names \subseteq DOMAIN services THEN Built(act)
      ELSE IF env.tolerateService /\ single THEN Built(build503ResponseAction)
      ELSE Failed

\* The annotations of a Service count when it is all the action forwards to.
buildAuthConfig(act, ing, services) ==
  IF act.type = "forward" /\ Len(act.targets) = 1 /\ act.targets[1].svc # {}
  THEN Or(Merged(services[Or(act.targets[1].svc, "")], ing, "auth"), "none")
  ELSE Or(ing.auth, "none")

Build(ing, backend, services, env) ==
  LET named == IF backend.port = UseAnnotation
               THEN buildActionViaAnnotation(ing, backend.svc, env)
               ELSE Built(buildActionViaServiceAndServicePort(backend.svc, backend.port))
      loaded == loadBackendServices(named.value, services, env)
  IN  IF ~named.ok THEN Failed
      ELSE IF ~loaded.ok THEN Failed
      ELSE [ok |-> TRUE, act |-> loaded.value,
            auth |-> buildAuthConfig(loaded.value, ing, services)]

-----------------------------------------------------------------------------
(* Target groups.                                                          *)

LookupServicePort(svc, port) ==
  {i \in DOMAIN svc.ports : IF port.name = "" THEN svc.ports[i].port = port.n
                            ELSE svc.ports[i].name = port.name}

buildTargetGroupTargetType(svc, ing, env) ==
  LET type == Or(Merged(svc, ing, "target"), env.targetType)
  IN  IF type = "instance" \/ (type = "ip" /\ env.ipTargets) THEN Built(type) ELSE Failed

buildTargetGroupProtocol(svc, ing) ==
  LET protocol == Or(Merged(svc, ing, "protocol"), "HTTP")
  IN  IF protocol \in {"HTTP", "HTTPS"} THEN Built(protocol) ELSE Failed

buildTargetGroupProtocolVersion(svc, ing) ==
  LET version == Or(Merged(svc, ing, "version"), "HTTP1")
  IN  IF version \in {"HTTP1", "HTTP2", "GRPC"} THEN Built(version) ELSE Failed

buildTargetGroupHealthCheckPort(svc, ing, type) ==
  LET stated == Or(Merged(svc, ing, "hcPort"), TrafficPort)
      found == LookupServicePort(svc, stated)
      port == svc.ports[CHOOSE i \in found : TRUE]
  IN  IF stated = TrafficPort \/ stated.name = "" THEN Built(stated)
      ELSE IF found = {} THEN Failed
      ELSE IF type = "instance" THEN Built(Number(port.node))
      ELSE IF port.target.name = "" THEN Built(port.target) ELSE Failed

buildTargetGroupIPAddressType(svc, ipType) ==
  IF "IPv6" \notin svc.families THEN Built("ipv4")
  ELSE IF ipType = "dualstack" THEN Built("ipv6") ELSE Failed

buildTargetGroupPort(type, port) ==
  IF type = "instance" THEN port.node ELSE IF port.target.name = "" THEN port.target.n ELSE 1

\* What the hash of the name is taken of, beside cluster, group and keys.
buildTargetGroupName(port, tgPort, type, protocol, version) ==
  <<port, tgPort, type, protocol, version>>

\* Nothing without a backend security group; every port with the unrestricted rules.
buildTargetGroupBindingNetworking(tgPort, hcPort, env) ==
  LET ports == IF ~env.restrictedRules THEN {Named("any")}
               ELSE {tgPort} \cup ({hcPort} \ {TrafficPort})
  IN  {[from |-> f, port |-> p] : f \in env.rulesFrom, p \in ports}

buildTargetGroupSpec(ing, svc, port, svcPort, env) ==
  LET type == buildTargetGroupTargetType(svc, ing, env)
      protocol == buildTargetGroupProtocol(svc, ing)
      version == buildTargetGroupProtocolVersion(svc, ing)
      hcPort == buildTargetGroupHealthCheckPort(svc, ing, type.value)
      ipType == buildTargetGroupIPAddressType(svc, env.ipType)
  IN  IF ~type.ok \/ ~protocol.ok \/ ~version.ok THEN Failed
      ELSE IF ~hcPort.ok \/ ~ipType.ok THEN Failed
      ELSE [ok |-> TRUE, type |-> type.value, protocol |-> protocol.value,
            version |-> version.value, ipType |-> ipType.value, hcPort |-> hcPort.value,
            name |-> buildTargetGroupName(port, buildTargetGroupPort(type.value, svcPort),
                                          type.value, protocol.value, version.value)]

\* The port that targets are registered with, and the rules that open it.
buildTargetGroupBindingSpec(spec, svcPort, env) ==
  LET port == IF spec.type = "instance" THEN Number(svcPort.node) ELSE svcPort.target
  IN  [port |-> port, rules |-> buildTargetGroupBindingNetworking(port, spec.hcPort, env)]

\* A target group with its binding.
buildTargetGroup(ing, svc, port, env) ==
  LET found == LookupServicePort(svc, port)
      svcPort == svc.ports[CHOOSE i \in found : TRUE]
      spec == buildTargetGroupSpec(ing, svc, port, svcPort, env)
  IN  IF found = {} THEN Failed
      ELSE IF ~spec.ok THEN Failed
      ELSE spec @@ buildTargetGroupBindingSpec(spec, svcPort, env)

\* The listed differences of a deployed target group from the desired one.
isSDKTargetGroupRequiresReplacement(sdk, res) ==
  sdk.type # res.type \/ sdk.protocol # res.protocol \/ sdk.version # res.version

-----------------------------------------------------------------------------
(* The actions of a listener rule, and the target groups they bring along. *)

\* The client's ID and secret come from a Secret of the Ingress's namespace.
buildAuthenticateOIDCAction(env) ==
  IF env.secretComplete THEN Built(<<[type |-> "oidc"]>>) ELSE Failed

buildAuthAction(auth, env) ==
  IF auth = "oidc" THEN buildAuthenticateOIDCAction(env)
  ELSE Built(IF auth = "none" THEN <<>> ELSE <<[type |-> auth]>>)

\* The target groups by target; one stated by its ARN is not built.
buildForwardAction(ing, act, services, env) ==
  [t \in {u \in {act.targets[i] : i \in DOMAIN act.targets} : u.svc # {}} |->
     buildTargetGroup(ing, services[Or(t.svc, "")], t.port, env)]

\* Authentication is possible on HTTPS only.
buildActions(protocol, ing, backend, services, env) ==
  LET auth == IF protocol = "HTTPS" THEN buildAuthAction(backend.auth, env) ELSE Built(<<>>)
      tgs == IF backend.act.type = "forward"
             THEN buildForwardAction(ing, backend.act, services, env) ELSE <<>>
  IN  IF ~auth.ok \/ \E t \in DOMAIN tgs : ~tgs[t].ok THEN Failed
      ELSE [ok |-> TRUE, actions |-> Append(auth.value, backend.act), tgs |-> tgs]
=============================================================================
