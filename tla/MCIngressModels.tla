--------------------------- MODULE MCIngressModels ---------------------------
(***************************************************************************)
(* Inputs of the Ingress model builder for a small instance of             *)
(* IngressModels.                                                          *)
(***************************************************************************)
EXTENDS Naturals, Sequences, TLC

LOCAL R == INSTANCE ListenerRules
LOCAL G == INSTANCE IngressGroupModel
LOCAL B == INSTANCE IngressBackends

PathOf(type, e, s) == [type |-> type, path |-> R!Path(e, s)]

MCPaths ==
  {PathOf("Exact", <<"a">>, FALSE), PathOf("Exact", <<"a">>, TRUE),
   PathOf("Exact", <<"*">>, FALSE), PathOf("Prefix", <<>>, TRUE),
   PathOf("Prefix", <<"a">>, FALSE), PathOf("Prefix", <<"a">>, TRUE),
   PathOf("Prefix", <<"a", "b">>, FALSE),
   PathOf("ImplementationSpecific", <<"a">>, FALSE),
   PathOf("ImplementationSpecific", <<"a", "*">>, FALSE)}

MCPathLists == UNION {[1..n -> MCPaths] : n \in 1..3}

-----------------------------------------------------------------------------

Redirect(host, path, port, protocol) ==
  [type |-> "redirect", host |-> host, path |-> path, port |-> port, protocol |-> protocol,
   query |-> {}]

PathA == R!Path(<<"a">>, FALSE)

MCActs ==
  {[type |-> "forward"], Redirect({}, {}, {443}, {"HTTPS"}), Redirect({"h"}, {}, {}, {}),
   Redirect({}, {R!Literal(PathA)}, {}, {}), Redirect({}, {}, {80}, {"HTTP"}),
   [Redirect({}, {}, {}, {}) EXCEPT !.query = {"q"}]}

MCRules ==
  [hosts : {{}, {"h"}, {"h", "i"}}, paths : {{}, {R!Literal(PathA)}, {R!Below(R!Root)}},
   other : {{}, {"x"}}, act : MCActs]

MCRuleLists ==
  {<<r>> : r \in MCRules}
  \cup {<<r, s>> : r \in MCRules, s \in {t \in MCRules : t.act.type = "forward"}}

MCRequests ==
  [host : {"h", "i", "j"}, other : {{}, {"x"}},
   path : {R!Root, PathA, R!Path(<<"a">>, TRUE), R!Path(<<"a", "b">>, FALSE),
           R!Path(<<"b">>, FALSE)}]

-----------------------------------------------------------------------------

Member ==
  [scheme |-> {}, ipType |-> {}, name |-> {}, pool |-> {}, policy |-> {}, manage |-> {},
   redirect |-> {}, backend |-> {}, params |-> <<>>, groups |-> <<>>, listen |-> <<>>,
   certs |-> <<>>, hosts |-> {<<"a", "example">>}, v4 |-> {}, v6 |-> {}, tags |-> <<>>,
   attrs |-> <<>>, rules |-> <<>>]

\* One setting of a member changed.
Change(M) == UNION {
  {[m EXCEPT !.scheme = {x}] : m \in M, x \in {"internet-facing", "odd"}},
  {[m EXCEPT !.params = x] : m \in M, x \in {[scheme |-> {"internal"}],
                                             [attrs |-> "k" :> "2"], [tags |-> "t" :> "1"],
                                             [cidrs |-> <<{}, {"2001::/56"}>>],
                                             [policy |-> {"q"}]}},
  {[m EXCEPT !.name = {x}] : m \in M, x \in {"n", G!LongName}},
  {[m EXCEPT !.pool = {x}] : m \in M, x \in {"pool", ""}},
  {[m EXCEPT !.ipType = {"dualstack"}] : m \in M},
  {[m EXCEPT !.listen = x] : m \in M, x \in {<<<<"HTTPS", 443>>>>, <<<<"HTTP", 443>>>>,
                                             <<<<"HTTP", 80>>, <<"HTTPS", 443>>>>,
                                             <<<<"HTTP", 80>>, <<"HTTPS", 8443>>>>}},
  {[m EXCEPT !.redirect = {443}] : m \in M},
  {[m EXCEPT !.certs = <<2>>] : m \in M},
  {[m EXCEPT !.policy = {"p"}] : m \in M},
  {[m EXCEPT !.v4 = x, !.v6 = y] : m \in M, x \in {{"10.0.0.0/8"}, {}}, y \in {{"2001::/56"}, {}}},
  {[m EXCEPT !.groups = x] : m \in M, x \in {<<"sg1">>, <<"sg1", "sg2">>}},
  {[m EXCEPT !.manage = {TRUE}] : m \in M},
  {[m EXCEPT !.backend = {"svc"}] : m \in M},
  {[m EXCEPT !.tags = x] : m \in M, x \in {"t" :> "1", "t" :> "2", "ext" :> "1"}},
  {[m EXCEPT !.attrs = "k" :> "1"] : m \in M},
  {[m EXCEPT !.rules = <<[hosts |-> {"a"}, paths |-> {}, other |-> {}, act |-> x]>>] :
     m \in M, x \in {[type |-> "forward"], Redirect({}, {}, {443}, {"HTTPS"})}},
  {[m EXCEPT !.hosts = {<<"b", "other">>}] : m \in M}}

MCMembers == Change({Member})

\* The members beside one with two settings changed.
MCOthers ==
  {m \in MCMembers : m.listen # <<>> \/ m.redirect # {} \/ m.certs # <<>> \/ m.groups = <<"sg1">>
                      \/ m.scheme = {"internet-facing"} \/ m.tags = "t" :> "2"}

MCGroups ==
  [members : {<<m>> : m \in Change(MCMembers)}
             \cup {<<m, n>> : m \in Change(MCMembers), n \in MCOthers}
             \cup {<<m, n>> : m \in MCMembers, n \in MCMembers},
   inactive : {{}}]
  \cup [members : {<<>>, <<Member>>}, inactive : {{[deleting |-> TRUE, protected |-> x]} : x \in BOOLEAN}]

MCAccount ==
  [certificates |-> 1 :> {<<"*", "example">>} @@ 2 :> {<<"a", "example">>, <<"b", "example">>},
   external |-> {"ext"}, backendSG |-> TRUE]

-----------------------------------------------------------------------------

Service ==
  [ports |-> <<[name |-> "web", port |-> 80, target |-> B!Named("http"), node |-> 30080],
               [name |-> "alt", port |-> 81, target |-> B!Number(8081), node |-> 30081]>>,
   target |-> {}, hcPort |-> {}, auth |-> {}, protocol |-> {}, version |-> {},
   families |-> {"IPv4"}]

Ingress ==
  [actions |-> "both" :> B!Forward(<<B!Target({"s"}, B!Number(80)), B!Target({"t"}, B!Number(80))>>)
               @@ "arn" :> B!Forward(<<B!Target({}, B!Number(0))>>)
               @@ "fixed" :> [type |-> "fixed"],
   target |-> {}, hcPort |-> {}, auth |-> {}, protocol |-> {}, version |-> {}]

Settings ==
  [tolerateAction |-> TRUE, tolerateService |-> TRUE, targetType |-> "instance",
   ipTargets |-> TRUE, restrictedRules |-> TRUE, rulesFrom |-> {"backend"}, ipType |-> "ipv4",
   secretComplete |-> TRUE]

First ==
  [ing |-> Ingress, backend |-> [svc |-> "s", port |-> B!Number(80)],
   services |-> [n \in {"s"} |-> Service], env |-> Settings]

\* One thing changed: the backend, a Service, the Ingress or a setting.
Vary(E) == UNION {
  {[e EXCEPT !.backend = [svc |-> x, port |-> B!UseAnnotation]] :
     e \in E, x \in {"both", "arn", "fixed", "none"}},
  {[e EXCEPT !.backend = [svc |-> x, port |-> y]] :
     e \in E, x \in {"s", "t"}, y \in {B!Named("web"), B!Number(81), B!Number(99)}},
  {[e EXCEPT !.services = [n \in {"s", "t"} |-> Service]] : e \in E},
  {[e EXCEPT !.services = [n \in DOMAIN @ |-> x]] :
     e \in E, x \in {[Service EXCEPT !.target = {"ip"}], [Service EXCEPT !.auth = {"oidc"}],
                     [Service EXCEPT !.families = {"IPv4", "IPv6"}]}},
  {[e EXCEPT !.ing = x] :
     e \in E, x \in {[Ingress EXCEPT !.target = {"ip"}], [Ingress EXCEPT !.protocol = {"HTTPS"}],
                     [Ingress EXCEPT !.version = {"HTTP2"}], [Ingress EXCEPT !.protocol = {"odd"}],
                     [Ingress EXCEPT !.target = {"odd"}], [Ingress EXCEPT !.version = {"odd"}],
                     [Ingress EXCEPT !.auth = {"oidc"}]}
                    \cup {[Ingress EXCEPT !.hcPort = {p}] :
                            p \in {B!Number(9000), B!Named("alt"), B!Named("web"), B!Named("none")}}},
  {[e EXCEPT !.env = x] :
     e \in E, x \in {[Settings EXCEPT !.restrictedRules = FALSE], [Settings EXCEPT !.ipTargets = FALSE],
                     [Settings EXCEPT !.tolerateService = FALSE], [Settings EXCEPT !.ipType = "dualstack"],
                     [Settings EXCEPT !.tolerateAction = FALSE], [Settings EXCEPT !.secretComplete = FALSE]}}}

\* Two edits in a row, the second of which may undo the first, and two edits at once.
MCBackends ==
  UNION {{[before |-> e, after |-> f] : f \in Vary({e})} : e \in Vary({First})}
  \cup {[before |-> First, after |-> f] : f \in Vary(Vary({First}))}
=============================================================================
