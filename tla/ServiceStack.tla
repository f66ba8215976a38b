---------------------------- MODULE ServiceStack ----------------------------
(***************************************************************************)
(* A Service that is edited, a controller that is restarted with other     *)
(* settings, and the network load balancer and target groups that the      *)
(* reconciler keeps for it: what ServiceModel builds, compared with what   *)
(* is there the way pkg/deploy/elbv2 compares it.                          *)
(*                                                                         *)
(* env: the settings in force.  lb: the set of the load balancer that is   *)
(* there.  tgs: its target groups and bindings, by port of the Service.    *)
(* done: the last reconcile succeeded and nothing was changed since.       *)
(***************************************************************************)
EXTENDS ServiceModel, TLC

CONSTANTS Services, Settings, FirstServices

VARIABLES svc, env, lb, tgs, done

vars == <<svc, env, lb, tgs, done>>

Init ==
  /\ svc \in FirstServices
  /\ env \in Settings
  /\ lb = {} /\ tgs = <<>>
  /\ done = FALSE

Edit ==
  /\ svc' \in Services \ {svc}
  /\ done' = FALSE
  /\ UNCHANGED <<env, lb, tgs>>

Restart ==
  /\ env' \in Settings \ {env}
  /\ done' = FALSE
  /\ UNCHANGED <<svc, lb, tgs>>

-----------------------------------------------------------------------------

\* A target group that is replaced is created before the old one goes, and
\* ELB has one target group of a name.
Creatable(n, res) == n \in DOMAIN tgs => tgs[n].name # res.name

Replaced(n, res) == n \in DOMAIN tgs /\ isSDKTargetGroupRequiresReplacement(tgs[n], res, env)

\* Update changes the health check; the address type is not among the
\* reasons for a replacement, nor is it ever changed.
Updated(sdk, res) == [sdk EXCEPT !.hc = res.hc, !.preserve = res.preserve]

\* The webhook refuses a binding of another address type.
checkImmutableFields(sdk, res) == sdk.ipType = res.ipType

Refused(res) ==
  {n \in DOMAIN res \cap DOMAIN tgs :
     ~Replaced(n, res[n]) /\ ~checkImmutableFields(tgs[n], res[n])}

\* The target groups after a deployment that leaves the bindings in late as
\* they are.
Deployed(res, late) ==
  [n \in DOMAIN res |->
    IF n \notin DOMAIN tgs \/ Replaced(n, res[n]) THEN res[n]
    ELSE IF n \in late THEN Updated(tgs[n], res[n])
    ELSE [Updated(tgs[n], res[n]) EXCEPT !.rules = res[n].rules, !.port = res[n].port]]

\* Bindings come in no order: one that is refused may keep others from
\* their turn, and keeps the target groups that go from being deleted.
Deploy(b) ==
  LET refused == Refused(b.tgs)
      going == IF refused = {} THEN {} ELSE DOMAIN tgs \ DOMAIN b.tgs
  IN  \E late \in IF refused = {} THEN {{}} ELSE SUBSET (DOMAIN b.tgs) :
        /\ refused \subseteq late
        /\ lb' = b.lb
        /\ tgs' = Deployed(b.tgs, late) @@ [n \in going |-> tgs[n]]
        /\ done' = (refused = {})

Reconcile ==
  LET b == run(svc, env, lb)
  IN  /\ ~done
      /\ b.ok
      /\ \/ b.lb = {} /\ lb' = {} /\ tgs' = <<>> /\ done' = TRUE
         \/ /\ b.lb # {}
            /\ \A n \in DOMAIN b.tgs : Replaced(n, b.tgs[n]) => Creatable(n, b.tgs[n])
            /\ Deploy(b)
      /\ UNCHANGED <<svc, env>>

\* The deployment stops at the first target group it cannot create.
ReconcileFails ==
  LET b == run(svc, env, lb)
  IN  /\ ~done
      /\ \/ ~b.ok
         \/ /\ b.ok /\ b.lb # {}
            /\ \E n \in DOMAIN b.tgs :
                 Replaced(n, b.tgs[n]) /\ ~Creatable(n, b.tgs[n])
      /\ UNCHANGED vars

Next == Edit \/ Restart \/ Reconcile \/ ReconcileFails

Spec == Init /\ [][Next]_vars

-----------------------------------------------------------------------------

\* Who asks for health: the load balancer shows its security group or, when
\* it has none, the addresses of its subnets.
Asks(tg) == IF \E b \in lb : b.groups THEN {"backend", "managed"} ELSE env.subnets[tg.ipType]

HealthCheckPort(tg) == IF tg.hc.port = TrafficPort THEN tg.port ELSE tg.hc.port

\* env.within[c]: the CIDRs that hold the addresses of c.
Admits(tg, from, protocol, port) ==
  \E r \in tg.rules :
    /\ r.from \in {from} \cup env.within[from]
    /\ r.protocol = protocol
    /\ r.port \in {port, AnyPort}

Managed == Or(svc.manage, \E b \in lb : ~b.groups \/ ~svc.ownGroups)

\* A range that stands for everyone is taken for both families of addresses,
\* so the properties below are about ranges of the target group's family.
SameFamily(tg) == svc.ranges \cap env.v6 = IF tg.ipType = "ipv6" THEN svc.ranges ELSE {}

\* Once a Service is reconciled with rules managed by the controller, the
\* health checker of each target group reaches its port: from the security
\* group of the load balancer, or from each of its subnets
\* (buildTargetGroupBindingNetworking, buildHealthCheckSourceCIDRs).
HealthCheckReachable ==
  done /\ lb # {} /\ Managed =>
    \A n \in {m \in DOMAIN tgs : SameFamily(tgs[m])} :
      IF \E b \in lb : b.groups
      THEN \E f \in Asks(tgs[n]) : Admits(tgs[n], f, "TCP", HealthCheckPort(tgs[n]))
      ELSE \A f \in Asks(tgs[n]) : Admits(tgs[n], f, "TCP", HealthCheckPort(tgs[n]))

\* And the traffic that the load balancer passes on reaches the target: from
\* the load balancer, or from the client whose address it preserves.
TrafficReachable ==
  done /\ lb # {} /\ Managed =>
    \A n \in {m \in DOMAIN tgs : SameFamily(tgs[m])} :
      LET tg == tgs[n]
          protocol == IF tg.protocol = "UDP" THEN "UDP" ELSE "TCP"
          clients == IF svc.ranges # {} THEN svc.ranges
                     ELSE IF \E b \in lb : b.scheme = "internal" THEN {env.vpc[tg.ipType]}
                     ELSE {IF tg.ipType = "ipv6" THEN "::/0" ELSE "0.0.0.0/0"}
      IN  IF \E b \in lb : b.groups
          THEN \E f \in Asks(tg) : Admits(tg, f, protocol, tg.port)
          ELSE \A f \in IF tg.preserve \/ protocol = "UDP" THEN clients ELSE Asks(tg) :
                 Admits(tg, f, protocol, tg.port)

\* A network load balancer gets security groups when it is created or never:
\* whatever the feature gate says after a restart, a deployment does not
\* change whether the load balancer that is there has them
\* (buildLoadBalancerSecurityGroups).
GroupsStay == \A b \in lb, c \in lb' : b.groups = c.groups

\* The scheme of the load balancer, and with it the load balancer itself,
\* changes only to what the Service states: dropping the annotation, or
\* another default, replaces nothing (buildLoadBalancerScheme).
SchemeStays ==
  \A b \in lb, c \in lb' : b.scheme # c.scheme => c.scheme \in svc.scheme \cup svc.internal

\* A target group that has to be replaced for its type or protocol can be:
\* its successor has another name, so that it can be created beside it
\* (buildTargetGroupName, isSDKTargetGroupRequiresReplacement).  For its
\* health check, which counts with NLBHealthCheckAdvancedConfig off only,
\* that is not so: the name leaves out the timeout, and does not follow what
\* was updated in place while the gate was on.
ReplacementCreatable ==
  LET b == run(svc, env, lb)
  IN  b.ok /\ b.lb # {} =>
        \A n \in DOMAIN b.tgs :
          /\ Replaced(n, b.tgs[n])
          /\ <<tgs[n].type, tgs[n].protocol>> # <<b.tgs[n].type, b.tgs[n].protocol>>
          => Creatable(n, b.tgs[n])
=============================================================================
