------------------------------ MODULE StackSpec ------------------------------
(***************************************************************************)
(* What deploying a resource stack promises, without how it is done.       *)
(*                                                                         *)
(* A stack is a set of AWS resources and, for each, the resources it       *)
(* refers to.  Users change the stack they want; the controller picks up   *)
(* the wanted stack as its plan, and then creates, modifies and deletes    *)
(* one resource after the other.  At every moment, with a deployment half  *)
(* done or abandoned, no resource refers to one that does not exist, only  *)
(* planned resources are created, and no planned resource is deleted.      *)
(***************************************************************************)
EXTENDS FiniteSets

CONSTANT Key    \* a resource: its ID and the settings that cannot be modified

VARIABLES
  want,   \* the stack that the Ingresses or the Service ask for
  plan,   \* the stack being deployed, or deployed last
  have    \* the resources that exist in AWS

vars == <<want, plan, have>>

NoResources == [k \in {} |-> {}]

\* A set of resources, and what each of them refers to within that set.
IsStack(s) ==
  /\ DOMAIN s \subseteq Key
  /\ s = [k \in DOMAIN s |-> s[k]]
  /\ \A k \in DOMAIN s : s[k] \subseteq DOMAIN s

Init == IsStack(want) /\ plan = NoResources /\ have = NoResources

Edit == IsStack(want') /\ UNCHANGED <<plan, have>>

Plan == plan' = want /\ UNCHANGED <<want, have>>

\* k is now set up with references to resources that existed before.
Put(k) ==
  /\ k \in DOMAIN have'
  /\ have' = [j \in DOMAIN have \cup {k} |-> IF j = k THEN have'[k] ELSE have[j]]
  /\ have'[k] \subseteq DOMAIN have
  /\ UNCHANGED <<want, plan>>

Create(k) == k \in DOMAIN plan \ DOMAIN have /\ Put(k)

Modify(k) == k \in DOMAIN plan \cap DOMAIN have /\ Put(k)

\* A resource goes away together with the resources that are parts of it.
Delete(K) ==
  /\ K \subseteq DOMAIN have \ DOMAIN plan
  /\ \A k \in DOMAIN have \ K : have[k] \cap K = {}
  /\ have' = [k \in DOMAIN have \ K |-> have[k]]
  /\ UNCHANGED <<want, plan>>

Next ==
  \/ Edit \/ Plan
  \/ \E k \in Key : Create(k) \/ Modify(k)
  \/ Delete(DOMAIN have \ DOMAIN have')

Spec == Init /\ [][Next]_vars

-----------------------------------------------------------------------------
\* Whatever was interrupted, no resource refers to one that does not exist.
Integrity == IsStack(have)
=============================================================================
