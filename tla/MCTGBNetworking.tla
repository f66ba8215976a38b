-------------------------- MODULE MCTGBNetworking --------------------------
(* Small instances of TGBNetworking. *)
EXTENDS TGBNetworking, TLC

CONSTANTS t1, t2, s1, s2, lb, ip

MCRule(P, p) == [from |-> P, ports |-> {<<p, p>>}]

\* Without networking rules, with a port of s1 for the load balancer, and with
\* another port for an IP block as well, on both security groups.
MCShapes ==
  {<<NoNetworking, {s1}>>, <<{MCRule({lb}, 1)}, {s1}>>, <<{MCRule({lb, ip}, 2)}, {s1, s2}>>}

MCOthers == [source : {lb, ip}, from : {2}, to : {2}]

Symmetry == Permutations(TGB)
=============================================================================
