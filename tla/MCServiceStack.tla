--------------------------- MODULE MCServiceStack ---------------------------
(***************************************************************************)
(* Services and settings of a small instance of ServiceStack.              *)
(***************************************************************************)
EXTENDS Naturals, Sequences, TLC

LOCAL N == INSTANCE ServiceModel

ServicePort(name, n, protocol, target, node) ==
  [name |-> name, port |-> n, protocol |-> protocol, target |-> target, node |-> node]

Web == ServicePort("web", 80, "TCP", N!Named("http"), 30080)
DNS == ServicePort("dns", 53, "UDP", N!Number(5353), 30053)
Alt == ServicePort("alt", 443, "TCP", N!Number(8443), 30443)

Plain ==
  [deleting |-> FALSE, finalizer |-> TRUE, protected |-> FALSE, kind |-> "LoadBalancer",
   class |-> {}, lbType |-> {"external"}, target |-> {"instance"}, scheme |-> {},
   internal |-> {}, ownGroups |-> FALSE, manage |-> {}, ports |-> <<Web>>,
   hc |-> [port |-> {}, protocol |-> {}, interval |-> {}, timeout |-> {}, codes |-> {}],
   local |-> FALSE, healthCheckNodePort |-> 32000, preserve |-> {}, families |-> {"IPv4"},
   ranges |-> {}, ipType |-> {}, tlsPorts |-> {}, certs |-> <<>>, backend |-> {}]

\* One setting changed, of those that the network rules depend on ...
Net(S) == UNION {
  {[s EXCEPT !.target = {"ip"}] : s \in S},
  {[s EXCEPT !.scheme = {"internet-facing"}] : s \in S},
  {[s EXCEPT !.ports = x] : s \in S, x \in {<<DNS>>, <<Web, Alt>>}},
  {[s EXCEPT !.hc.port = {x}] : s \in S, x \in {N!Number(9000), N!Named("alt"), N!Number(8443)}},
  {[s EXCEPT !.preserve = {x}] : s \in S, x \in BOOLEAN},
  {[s EXCEPT !.ranges = {x}] : s \in S, x \in {"192.168.0.0/16", "0.0.0.0/0"}},
  {[s EXCEPT !.local = TRUE] : s \in S},
  {[s EXCEPT !.families = {"IPv4", "IPv6"}, !.ipType = {"dualstack"}] : s \in S}}

\* ... or of the others.
Other(S) == UNION {
  {[s EXCEPT !.scheme = {"internal"}] : s \in S},
  {[s EXCEPT !.hc.protocol = {"HTTP"}] : s \in S},
  {[s EXCEPT !.hc.timeout = {5}] : s \in S},
  {[s EXCEPT !.certs = <<1>>, !.backend = {"ssl"}] : s \in S},
  {[s EXCEPT !.ownGroups = TRUE, !.manage = x] : s \in S, x \in {{}, {TRUE}}},
  {[s EXCEPT !.manage = {FALSE}] : s \in S},
  {[s EXCEPT !.deleting = TRUE, !.protected = x] : s \in S, x \in BOOLEAN}}

\* A Service has two of the first kind at first; what only the rules depend on
\* is not edited after that, except for one port of the health check.
MCFirstServices == Net(Net({Plain}))
MCServices ==
  {s \in {Plain} \cup Net({Plain}) \cup Other({Plain}) :
     s.preserve = {} /\ s.ranges = {} /\ s.hc.port \subseteq {N!Named("alt")}}

\* Addresses: a VPC with two IPv4 subnets and one of IPv6.
MCEnv(securityGroups, restrictedRules, backendSG) ==
  [loadBalancersOnly |-> FALSE, class |-> "nlb", securityGroups |-> securityGroups,
   backendSG |-> backendSG, targetType |-> "instance", ipTargets |-> TRUE,
   advancedHealthCheck |-> TRUE, restrictedRules |-> restrictedRules,
   v6 |-> {"::/0", "2001::/56"}, vpc |-> [ipv4 |-> "10.0.0.0/16", ipv6 |-> "2001::/56"],
   subnets |-> [ipv4 |-> {"10.0.1.0/24", "10.0.2.0/24"}, ipv6 |-> {"2001::1/64"}],
   within |-> [f \in {"10.0.1.0/24", "10.0.2.0/24"} |-> {"10.0.0.0/16", "0.0.0.0/0"}]
              @@ [f \in {"2001::1/64"} |-> {"2001::/56", "::/0"}]
              @@ [f \in {"10.0.0.0/16", "192.168.0.0/16"} |-> {"0.0.0.0/0"}]
              @@ [f \in {"2001::/56"} |-> {"::/0"}]
              @@ [f \in {"backend", "managed", "0.0.0.0/0", "::/0"} |-> {}]]

MCSettings ==
  {MCEnv(TRUE, TRUE, TRUE), MCEnv(TRUE, FALSE, FALSE), MCEnv(FALSE, TRUE, FALSE),
   [MCEnv(FALSE, TRUE, FALSE) EXCEPT !.advancedHealthCheck = FALSE]}
=============================================================================
