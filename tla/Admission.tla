------------------------------ MODULE Admission ------------------------------
(***************************************************************************)
(* webhooks/elbv2: what the mutating and the validating webhook let        *)
(* through of TargetGroupBindings.  type, ipType and node of a spec are    *)
(* sets: {} where the field is absent.  A request is admitted against the  *)
(* bindings that a cache shows and stored later, so that requests overlap. *)
(***************************************************************************)
EXTENDS Naturals

CONSTANTS Name, ARN, groupType, groupIPType, Specs

VARIABLES tgbs, admitted

vars == <<tgbs, admitted>>

Stored == DOMAIN tgbs

Init == tgbs = [n \in {} |-> {}] /\ admitted = {}

-----------------------------------------------------------------------------

\* Absent fields are taken from the target group; of other types than these
\* two the request is refused.
MutateCreate(s) ==
  [s EXCEPT !.type = IF @ = {} THEN {groupType[s.arn]} ELSE @,
            !.ipType = IF @ = {} THEN {groupIPType[s.arn]} ELSE @]

supported(s) == s.type = {} => groupType[s.arn] \in {"ip", "instance"}

checkRequiredFields(s) == s.type # {}
checkNodeSelector(s) == s.type = {"ip"} => s.node = {}
checkExistingTargetGroups(s) == \A n \in Stored : tgbs[n].arn # s.arn
checkTargetGroupIPAddressType(s) ==
  groupIPType[s.arn] \in IF s.ipType = {} THEN {"ipv4"} ELSE s.ipType

\* Mutant: an absent address type may be filled in as anything.
checkImmutableFieldsFilling(new, old) ==
  /\ new.arn = old.arn /\ new.type = old.type
  /\ old.ipType # {} => new.ipType = old.ipType

checkImmutableFields(new, old) ==
  /\ new.arn = old.arn
  /\ new.type = old.type
  /\ ~(old.ipType = {} /\ new.ipType # {} /\ new.ipType # {"ipv4"})
  /\ ~(new.ipType = {} /\ old.ipType # {})
  /\ old.ipType # {} /\ new.ipType # {} => new.ipType = old.ipType

ValidateCreate(s) ==
  /\ checkRequiredFields(s) /\ checkNodeSelector(s)
  /\ checkExistingTargetGroups(s) /\ checkTargetGroupIPAddressType(s)

ValidateUpdate(s, old) ==
  checkRequiredFields(s) /\ checkImmutableFields(s, old) /\ checkNodeSelector(s)

\* The handlers: what a request becomes, or nothing where it is denied.
mutatingHandleCreate(s) == {t \in {MutateCreate(s)} : supported(s)}
mutatingHandleUpdate(s) == {s}
validatingHandleCreate(S) == {s \in S : ValidateCreate(s)}
validatingHandleUpdate(S, old) == {s \in S : ValidateUpdate(s, old)}

-----------------------------------------------------------------------------

Create(n) ==
  /\ n \notin Stored
  /\ \A a \in admitted : a.name # n
  /\ \E s \in Specs : \E t \in validatingHandleCreate(mutatingHandleCreate(s)) :
       admitted' = admitted \cup {[name |-> n, spec |-> t]}
  /\ UNCHANGED tgbs

Store(a) ==
  /\ tgbs' = [n \in Stored \cup {a.name} |-> IF n = a.name THEN a.spec ELSE tgbs[n]]
  /\ admitted' = admitted \ {a}

\* An object stored before the webhooks knew of address types has none.
StoreOld(n) ==
  /\ n \notin Stored
  /\ \A a \in admitted : a.name # n
  /\ \E s \in Specs :
       /\ s.type = {groupType[s.arn]} /\ s.ipType = {} /\ groupIPType[s.arn] = "ipv4"
       /\ checkNodeSelector(s)
       /\ tgbs' = [m \in Stored \cup {n} |-> IF m = n THEN s ELSE tgbs[m]]
  /\ UNCHANGED admitted

Update(n) ==
  /\ n \in Stored
  /\ \E s \in Specs \ {tgbs[n]} : \E t \in validatingHandleUpdate(mutatingHandleUpdate(s), tgbs[n]) :
       tgbs' = [tgbs EXCEPT ![n] = t]
  /\ UNCHANGED admitted

Delete(n) ==
  /\ n \in Stored
  /\ tgbs' = [m \in Stored \ {n} |-> tgbs[m]]
  /\ UNCHANGED admitted

Next ==
  \/ \E n \in Name : Create(n) \/ StoreOld(n) \/ Update(n) \/ Delete(n)
  \/ \E a \in admitted : Store(a)

Spec == Init /\ [][Next]_vars

-----------------------------------------------------------------------------

\* Through any sequence of requests a binding has the address type of its
\* target group, absent meaning ipv4 to the controller, although an update
\* is only compared with the object before it and an absent field may be
\* filled in later.
AddressTypeFits ==
  \A n \in Stored :
    groupIPType[tgbs[n].arn] \in IF tgbs[n].ipType = {} THEN {"ipv4"} ELSE tgbs[n].ipType
=============================================================================
