---------------------------- MODULE MCBackendSG ----------------------------
(* Instances of BackendSG for TLC. *)
EXTENDS BackendSG, TLC

CONSTANTS g1, g2, i1, i2, s1

\* One ingress in a group of its own, and one service.
FixedGroups == (i1 :> {g1}) @@ (s1 :> {s1})
\* Two ingresses, each in a group of its own.
TwoGroups == (i1 :> {g1}) @@ (i2 :> {g2})
\* One ingress that users move between two groups.
MovingIngress == i1 :> {g1, g2}

=============================================================================
