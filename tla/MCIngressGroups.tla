--------------------------- MODULE MCIngressGroups ---------------------------
EXTENDS IngressGroups

\* The first Ingress is claimed by its annotation, the second by its class.
MCannotated == [i \in Ingress |-> i = "i1"]
=============================================================================
