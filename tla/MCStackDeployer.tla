--------------------------- MODULE MCStackDeployer ---------------------------
(* A Service or an Ingress group that changes its target type, its scheme,  *)
(* its rules and its security group, or goes away.                          *)
EXTENDS StackDeployer, TLC

CONSTANTS sg, a1, a2, pub, int, p80, p81, i80, p80r1, p80r2

MCSG == {sg}
MCTG == {a1, a2}
MCLB == {pub, int}
MCLS == {p80, p81, i80}
MCRule == {p80r1, p80r2}
MCParent == (p80 :> pub) @@ (p81 :> pub) @@ (i80 :> int) @@ (p80r1 :> p80) @@ (p80r2 :> p80)

Group(r) == [tags |-> r, conf |-> 0, to |-> {}, attrs |-> r, certs |-> {}]
Res(r, to) == [tags |-> r, conf |-> r, to |-> to, attrs |-> r, certs |-> {}]
Lst(r, to, certs) == [tags |-> r, conf |-> r, to |-> to, attrs |-> 0, certs |-> certs]

MCNoStack == [res |-> Empty, bind |-> NoBindings]

\* A public load balancer with the managed security group, two listeners and two rules.
Public ==
  [res |-> (sg :> Group(1)) @@ (a1 :> Res(1, {})) @@ (pub :> Res(1, {sg}))
           @@ (p80 :> Lst(1, {}, {"c"})) @@ (p81 :> Lst(1, {a1}, {})) @@ (p80r1 :> Lst(1, {a1}, {}))
           @@ (p80r2 :> Lst(1, {a1}, {})),
   bind |-> (a1 :> 1)]

\* With one listener, one rule, another target type, another certificate, and security
\* groups of the user.
Changed ==
  [res |-> (a2 :> Res(2, {})) @@ (pub :> Res(2, {}))
           @@ (p80 :> Lst(2, {}, {"d"})) @@ (p80r1 :> Lst(2, {a2}, {})),
   bind |-> (a2 :> 1)]

\* Internal: another load balancer, whose listener uses the target group.
Internal ==
  [res |-> (sg :> Group(1)) @@ (a1 :> Res(1, {})) @@ (int :> Res(1, {sg}))
           @@ (i80 :> Lst(1, {a1}, {})),
   bind |-> (a1 :> 2)]

MCFirst == {Public}
MCStacks == {MCNoStack, Public, Changed, Internal}
=============================================================================
