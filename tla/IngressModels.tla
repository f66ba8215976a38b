---------------------------- MODULE IngressModels ----------------------------
(***************************************************************************)
(* What the Ingress model builder promises, on inputs of four kinds:       *)
(*   paths     the paths of one Ingress rule                               *)
(*   rules     the rules of a listener, before the optimizer               *)
(*   group     the members of an IngressGroup                              *)
(*   backend   an Ingress, a backend and Services, before and after an edit *)
(* One step builds the model of the input at hand.                         *)
(***************************************************************************)
EXTENDS IngressGroupModel

CONSTANTS PathLists, RuleLists, Groups, Environment, Backends, Requests

Backend == INSTANCE IngressBackends

VARIABLES given, built

vars == <<given, built>>

NotBuilt == [ok |-> FALSE, pending |-> TRUE]

Init ==
  /\ given \in [kind : {"paths"}, paths : PathLists] \cup [kind : {"rules"}, rules : RuleLists]
               \cup [kind : {"group"}, group : Groups] \cup [kind : {"backend"}, edit : Backends]
  /\ built = NotBuilt

-----------------------------------------------------------------------------

\* buildListenerRules for one rule of one Ingress; the path is its own backend.
BuildPaths ==
  LET sorted == sortIngressPaths(given.paths)
      Rule(p) == buildRuleConditions({}, p, {}) @@ [act |-> p]
  IN  /\ given.kind = "paths" /\ built = NotBuilt
      /\ built' = IF \E i \in DOMAIN sorted : buildPathPatterns(sorted[i]) = {} THEN Failed
                  ELSE [ok |-> TRUE, rules |-> [i \in DOMAIN sorted |-> Rule(sorted[i])]]
      /\ UNCHANGED given

BuildRules ==
  /\ given.kind = "rules" /\ built = NotBuilt
  /\ built' = [ok |-> TRUE, rules |-> Optimize(443, "HTTPS", given.rules)]
  /\ UNCHANGED given

BuildGroup ==
  /\ given.kind = "group" /\ built = NotBuilt
  /\ built' = run(given.group, Environment)
  /\ UNCHANGED given

\* The backend of one rule on an HTTPS listener.
Actions(e) ==
  LET b == Backend!Build(e.ing, e.backend, e.services, e.env)
  IN  IF ~b.ok THEN Failed ELSE Backend!buildActions("HTTPS", e.ing, b, e.services, e.env)

BuildBackend ==
  /\ given.kind = "backend" /\ built = NotBuilt
  /\ built' = [ok |-> TRUE, before |-> Actions(given.edit.before), after |-> Actions(given.edit.after)]
  /\ UNCHANGED given

Next == BuildPaths \/ BuildRules \/ BuildGroup \/ BuildBackend

Spec == Init /\ [][Next]_vars

Of(kind) == given.kind = kind /\ built.ok

-----------------------------------------------------------------------------

\* The paths of a rule are served as Kubernetes defines their types, however
\* they are listed: a request goes to a path that matches it, to an exact one
\* if there is one, and of several prefixes to one of the most elements
\* (sortIngressPaths with the patterns of buildPathPatterns).
MostSpecificPath ==
  Of("paths") =>
    \A q \in Requests :
      LET matching == {p \in Range(given.paths) : PathTypeMatches(p, q.path)}
          exact == {p \in matching : p.type = "Exact"}
          prefix == {p \in matching : p.type = "Prefix"}
          hit == Route(built.rules, q)
      IN  /\ hit \subseteq matching
          /\ matching # {} => hit # {}
          /\ exact # {} => hit \subseteq exact
          /\ exact = {} /\ prefix # {} =>
               hit \subseteq {p \in prefix : \A r \in prefix : Len(r.path.elems) <= Len(p.path.elems)}

\* What the optimizer leaves out as overshadowed changes no answer: every
\* request is routed as by the rules without the endless redirects
\* (omitOvershadowedRulesAfterRedirectRules, isSupersetConditions).
SameRouting ==
  Of("rules") =>
    \A q \in Requests :
      Route(built.rules, q) = Route(omitInfiniteRedirectRules(443, "HTTPS", given.rules), q)

\* What it leaves out as an endless redirect is one: a request that the rule
\* redirects comes back to the listener and matches the rule again
\* (isInfiniteRedirectRule).
OmittedRulesLoop ==
  Of("rules") =>
    \A r \in {s \in Range(given.rules) : isInfiniteRedirectRule(443, "HTTPS", s)}, q \in Requests :
      RuleMatches(r, q) =>
        LET next == Redirected(r, q, 443, "HTTPS")
        IN  next.port = 443 /\ next.protocol = "HTTPS" /\ RuleMatches(r, next)

\* The order of the members decides which rules come first and nothing else:
\* the same members in another order are refused alike or give the same load
\* balancer, security group, ports, certificates, policies and default
\* actions.  (Attributes of the IngressClassParams are those of the first
\* member and left out here.)
OrderFree ==
  given.kind = "group" /\ built # NotBuilt =>
    \A p \in SetToSeqs(DOMAIN given.group.members) :
      LET other == run([given.group EXCEPT !.members = [i \in DOMAIN @ |-> @[p[i]]]], Environment)
      IN  /\ other.ok = built.ok
          /\ built.ok /\ given.group.members # <<>> =>
               /\ [other.lb EXCEPT !.attrs = built.lb.attrs] = built.lb
               /\ other.permissions = built.permissions
               /\ DOMAIN other.listeners = DOMAIN built.listeners
               /\ \A n \in DOMAIN built.listeners :
                    LET l == built.listeners[n] m == other.listeners[n]
                    IN  /\ l.protocol = m.protocol /\ l.policy = m.policy
                        /\ l.default = m.default
                        /\ Range(l.certs) = Range(m.certs)

\* A listener lets nobody in whom one of its members keeps out: what the
\* managed security group opens at a port is within the CIDRs that any member
\* states for it, and every listener can be reached from somewhere unless
\* only IPv6 ranges are stated and the load balancer has no such addresses
\* (mergeListenPortConfigs, buildManagedSecurityGroupIngressPermissions).
OnlyStatedCIDRs ==
  Of("group") /\ given.group.members # <<>> =>
    \A n \in DOMAIN built.listeners, i \in DOMAIN given.group.members :
      LET m == given.group.members[i]
          cidrs == computeIngressExplicitInboundCIDRs(m)
          stated == cidrs[1] \cup cidrs[2]
          open == {c \in {x[2] : x \in built.permissions} : <<n, c>> \in built.permissions}
      IN  n \in DOMAIN computeIngressListenPorts(m) /\ stated # {} =>
            /\ open \subseteq stated
            /\ built.permissions # {} /\ cidrs[1] # {} => open # {}

\* With ssl-redirect every request to an HTTP listener is sent to an HTTPS
\* listener of the same load balancer: no rule answers it in plain text, and
\* the target is no redirect of that kind again (buildSSLRedirectConfig).
RedirectReaches ==
  Of("group") /\ (\E i \in DOMAIN given.group.members : given.group.members[i].redirect # {}) =>
    \A n \in DOMAIN built.listeners :
      LET l == built.listeners[n]
      IN  l.protocol = "HTTP" =>
            /\ l.rules = <<>> /\ l.default.type = "redirect"
            /\ \A p \in l.default.port :
                 /\ p \in DOMAIN built.listeners
                 /\ built.listeners[p].protocol = "HTTPS"
                 /\ built.listeners[p].default.type # "redirect"

-----------------------------------------------------------------------------

BackendBuilds == {x \in {built.before, built.after} : x.ok}

\* A rule never forwards to a Service that does not exist, and behind each
\* Service it forwards to there is a target group (loadBackendServices,
\* buildForwardAction): a missing Service fails the build or is answered 503.
ForwardsToServices ==
  Of("backend") =>
    \A x \in {<<given.edit.before, built.before>>, <<given.edit.after, built.after>>} :
      x[2].ok =>
        LET act == x[2].actions[Len(x[2].actions)]
        IN  /\ Backend!ServicesOf(act) \subseteq DOMAIN x[1].services
            /\ act.type = "forward" =>
                 \A i \in DOMAIN act.targets :
                   act.targets[i].svc # {} => act.targets[i] \in DOMAIN x[2].tgs

\* Where the controller manages the rules, traffic and health checks reach
\* the targets of every target group (buildTargetGroupBindingNetworking).
TargetsReachable ==
  Of("backend") =>
    \A x \in BackendBuilds : \A t \in DOMAIN x.tgs :
      LET tg == x.tgs[t]
          ports == {r.port : r \in tg.rules}
          hc == IF tg.hcPort = Backend!TrafficPort THEN tg.port ELSE tg.hcPort
      IN  tg.rules # {} => Backend!Named("any") \in ports \/ {tg.port, hc} \subseteq ports

\* A target group that an edit makes necessary to replace can be created
\* beside the old one, because its name differs (buildTargetGroupName).
ReplacementNamed ==
  Of("backend") /\ built.before.ok /\ built.after.ok =>
    \A t \in DOMAIN built.before.tgs \cap DOMAIN built.after.tgs :
      Backend!isSDKTargetGroupRequiresReplacement(built.before.tgs[t], built.after.tgs[t]) =>
        built.before.tgs[t].name # built.after.tgs[t].name
=============================================================================
