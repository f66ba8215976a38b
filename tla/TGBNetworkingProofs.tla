------------------------ MODULE TGBNetworkingProofs ------------------------
(* The rules of the endpoint security groups, proved for any bindings,         *)
(* security groups, ports, events and faults: other people's rules survive,    *)
(* needed ports stay open, and once every binding is reconciled the rules are  *)
(* what the bindings need.  All are about a cache that tells the truth: rules  *)
(* do not change while the answer to a lookup is on its way to the cache       *)
(* (~LookupRace).  The last is about bindings that keep their finalizers       *)
(* (~EarlyDelete).  Before the invariant come what the operators on            *)
(* permissions return, which variables each step changes, and the types.       *)
EXTENDS TGBNetworking, WellFoundedInduction, TLAPS

\* The steps are found by Zenon, unless they cite SMT.
USE ZenonT(60)

Permissions == ingressPermissionsPerSGByTGB

SeenOK ==
  /\ DOMAIN seen = TGB
  /\ \A t \in TGB : pc[t] = "save" =>
       DOMAIN seen[t] \subseteq SG /\ \A s \in DOMAIN seen[t] : seen[t][s] \in Info

-----------------------------------------------------------------------------
(* The operators.                                                              *)

\* What a security group needs for a set of bindings.
LEMMA AggregatedOK ==
  ASSUME restricted \in BOOLEAN,
         NEW E \in [TGB -> Entry \cup {NoEntry}], NEW s \in SG
  PROVE  /\ Aggregated(E, s) \subseteq Perm
         /\ \A t \in TGB : E[t] # NoEntry /\ s \in E[t].sgs =>
              /\ ~restricted => E[t].perms \subseteq Aggregated(E, s)
              /\ \A p \in E[t].perms : \E q \in Aggregated(E, s) :
                   q.source = p.source /\ q.from <= p.from /\ p.to <= q.to
\* A set of numbers has a least one.
<1>LeastNumber. ASSUME NEW S \in SUBSET Nat, S # {}
                PROVE  \E x \in S : \A y \in S : x <= y
  <2> USE <1>LeastNumber
  <2> DEFINE R == {ss \in Nat \X Nat : ss[1] < ss[2]}
  <2>1. IsWellFoundedOn(R, Nat)
    BY NatLessThanWellFounded DEF OpToRel
  <2>2. \A a, b \in Nat : <<a, b>> \in R <=> a < b
    OBVIOUS
  <2> HIDE DEF R
  <2>3. PICK x \in S : \A y \in S : ~(<<y, x>> \in R)
    BY <2>1, WFMin
  <2>4. \A y \in S : x <= y
    <3> SUFFICES ASSUME NEW y \in S PROVE x <= y
      OBVIOUS
    <3>1. x \in Nat /\ y \in Nat /\ ~(y < x)
      BY <2>2, <2>3
    <3> QED BY SMT, <3>1
  <2> QED BY <2>4
\* The ports of a set have a least and a greatest one.
<1>MinOK. ASSUME NEW S \in SUBSET (0..MaxPort), S # {}
          PROVE  Min(S) \in S /\ \A y \in S : Min(S) <= y
  <2> USE <1>MinOK
  <2>1. PICK x \in S : \A y \in S : x <= y
    BY SMT, <1>LeastNumber, PortAssumption
  <2> QED BY <2>1 DEF Min
<1>MaxOK. ASSUME NEW S \in SUBSET (0..MaxPort), S # {}
          PROVE  Max(S) \in S /\ \A y \in S : y <= Max(S)
  <2> USE <1>MaxOK
  <2> DEFINE D == {MaxPort - x : x \in S}
  <2>1. D \in SUBSET Nat /\ D # {}
    <3>1. \A x \in S : MaxPort - x \in Nat
      BY SMT, PortAssumption
    <3> QED BY <3>1
  <2>2. PICK d \in D : \A e \in D : d <= e
    BY <2>1, <1>LeastNumber
  <2>3. PICK x \in S : d = MaxPort - x
    BY <2>2
  <2>4. \A y \in S : x >= y
    <3> SUFFICES ASSUME NEW y \in S PROVE x >= y
      OBVIOUS
    <3>1. MaxPort - x <= MaxPort - y
      BY <2>2, <2>3
    <3> QED BY SMT, <3>1, PortAssumption
  <2>5. Max(S) \in S /\ \A y \in S : Max(S) >= y
    BY <2>4 DEF Max
  <2> QED BY <2>5, PortAssumption
\* The ports of the rule for a group lie within those that exist and hold all
\* that is asked for.
<1>WideRangeOK. ASSUME NEW Q \in SUBSET Perm, Q # {}
                PROVE  /\ WideRange(Q)[1] \in 0..MaxPort /\ WideRange(Q)[2] \in 0..MaxPort
                       /\ \A p \in Q : WideRange(Q)[1] <= p.from /\ p.to <= WideRange(Q)[2]
  <2> USE <1>WideRangeOK
  <2>1. CASE \E p \in Q : p.from = 0 /\ p.to = 0
    BY SMT, <2>1, PortAssumption DEF WideRange, Perm
  <2>2. CASE ~ \E p \in Q : p.from = 0 /\ p.to = 0
    <3> DEFINE F == {p.from : p \in Q}
               T == {p.to : p \in Q}
    <3>1. F \in SUBSET (0..MaxPort) /\ F # {} /\ T \in SUBSET (0..MaxPort) /\ T # {}
      BY SMT DEF Perm
    <3>2. Min(F) \in F /\ (\A y \in F : Min(F) <= y) /\ Max(T) \in T /\ (\A y \in T : y <= Max(T))
      BY <3>1, <1>MinOK, <1>MaxOK
    <3>3. WideRange(Q) = <<Min(F), Max(T)>>
      BY <2>2 DEF WideRange
    <3>4. \A p \in Q : p.from \in F /\ p.to \in T
      OBVIOUS
    <3> HIDE DEF F, T
    <3>5. WideRange(Q)[1] = Min(F) /\ WideRange(Q)[2] = Max(T)
      BY SMT, <3>3
    <3>6. Min(F) \in 0..MaxPort /\ Max(T) \in 0..MaxPort
      BY <3>1, <3>2
    <3>7. \A p \in Q : Min(F) <= p.from /\ p.to <= Max(T)
      BY <3>2, <3>4
    <3> QED BY <3>5, <3>6, <3>7
  <2> QED BY <2>1, <2>2
<1>RestrictedOK. ASSUME NEW P \in SUBSET Perm
                 PROVE  /\ Restricted(P) \subseteq Perm
                        /\ \A p \in P : \E q \in Restricted(P) :
                             q.source = p.source /\ q.from <= p.from /\ p.to <= q.to
  <2> USE <1>RestrictedOK
  <2>1. \A g : FromGroup(P, g) \in SUBSET Perm
    BY DEF FromGroup
  <2>2. \A g \in {q.source : q \in P} : FromGroup(P, g) # {}
    BY DEF FromGroup
  <2>3. \A g \in {q.source : q \in P} \cap Group :
          [source |-> g, from |-> WideRange(FromGroup(P, g))[1],
           to |-> WideRange(FromGroup(P, g))[2]] \in Perm
    BY <2>1, <2>2, <1>WideRangeOK DEF Perm, Peer
  <2>4. Restricted(P) \subseteq Perm
    BY <2>3 DEF Restricted
  <2>5. ASSUME NEW p \in P
        PROVE  \E q \in Restricted(P) : q.source = p.source /\ q.from <= p.from /\ p.to <= q.to
    <3>1. CASE p.source \in Cidr
      <4>1. p \in Restricted(P) /\ p.from \in Nat /\ p.to \in Nat
        BY SMT, <3>1, PortAssumption DEF Restricted, Perm
      <4> QED BY SMT, <4>1
    <3>2. CASE p.source \in Group
      <4> DEFINE w == WideRange(FromGroup(P, p.source))
                 q == [source |-> p.source, from |-> w[1], to |-> w[2]]
      <4>1. q \in Restricted(P)
        BY <3>2 DEF Restricted
      <4>2. p \in FromGroup(P, p.source)
        BY DEF FromGroup
      <4>3. w[1] <= p.from /\ p.to <= w[2]
        BY <2>1, <4>2, <1>WideRangeOK
      <4> QED BY <4>1, <4>3
    <3> QED BY <3>1, <3>2 DEF Perm, Peer
  <2> QED BY <2>4, <2>5
<1> DEFINE P == UNION {E[t].perms : t \in {u \in TGB : E[u] # NoEntry /\ s \in E[u].sgs}}
<1> P \in SUBSET Perm
  BY DEF Entry
<1> Aggregated(E, s) = IF restricted THEN Restricted(P) ELSE P
  BY DEF Aggregated
<1>3. \A t \in TGB : E[t] # NoEntry /\ s \in E[t].sgs => E[t].perms \subseteq P
  OBVIOUS
<1> HIDE DEF P
<1>4. \A p \in P : p.from \in Nat /\ p.to \in Nat
  BY SMT, PortAssumption DEF Perm
<1>5. \A p \in P : \E q \in Aggregated(E, s) :
        q.source = p.source /\ q.from <= p.from /\ p.to <= q.to
  <2>1. CASE restricted
    BY <2>1, <1>RestrictedOK
  <2>2. CASE ~restricted
    <3> SUFFICES ASSUME NEW p \in P PROVE p.from <= p.from /\ p.to <= p.to
      BY <2>2
    <3> QED BY SMT, <1>4
  <2> QED BY <2>1, <2>2
<1>6. Aggregated(E, s) \subseteq Perm
  BY <1>RestrictedOK
<1> QED BY <1>3, <1>5, <1>6

\* What a binding needs is made of permissions and security groups.
LEMMA NeedsOK ==
  ASSUME TypeOK, NEW t \in TGB
  PROVE  Needs(t) \in Entry
<1>1. CASE net[t] = NoNetworking
  BY <1>1 DEF Needs, Nothing, Entry
<1>2. CASE net[t] # NoNetworking
  <2>1. net[t] \in SUBSET Rule
    BY SMT, <1>2, ShapeAssumption DEF TypeOK
  <2>2. PermsOf(net[t]) \subseteq Perm
    BY SMT, <2>1 DEF PermsOf, Rule, Perm, PortRange
  <2> QED BY <1>2, <2>2 DEF Needs, Entry, TypeOK
<1> QED BY <1>1, <1>2

-----------------------------------------------------------------------------
(* The steps.  The calls that fail have three outcomes, whichever it was.      *)

Frame ==
  /\ UNCHANGED <<k8sVars, ec2Vars, sgInfoCache, restricted, ingressPermissionsPerSGByTGB,
                 trackedEndpointSGsInitialized, seen, served, events>>
  /\ Fault \/ UNCHANGED faults

Working(t) == pc[t] \in {"sync", "apply"}

SkipSG(t, s) ==
  Working(t) /\ ~gc /\ failed' = TRUE /\ NextSG(t, s) /\ UNCHANGED trackedEndpointSGs /\ Frame

ForgetSG(t, s) ==
  /\ Working(t) /\ gc /\ s \notin exists
  /\ trackedEndpointSGs' = trackedEndpointSGs \ {s} /\ NextSG(t, s) /\ UNCHANGED failed /\ Frame

Quit(t) == Working(t) /\ Leave(t, TRUE) /\ UNCHANGED trackedEndpointSGs /\ Frame

Step ==
  \/ \E t \in TGB : DeleteTGB(t) \/ \E x \in Shapes : SetTGB(t, x[1], x[2])
  \/ \E s \in SG : DeleteSG(s) \/ Expire(s) \/ \E p \in Others : AddForeign(s, p)
  \/ Restart
  \/ \E t \in TGB : Prepare(t)
  \/ \E t \in TGB, s \in SG : FetchSG(t, s)
  \/ \E t \in TGB : RevokeSGIngress(t) \/ AuthorizeSGIngress(t) \/ Reload(t) \/ SGDone(t)
  \/ \E t \in TGB : \E s : SkipSG(t, s) \/ ForgetSG(t, s)
  \/ \E t \in TGB : Quit(t) \/ GC(t) \/ Finish(t)
  \/ UNCHANGED vars

LEMMA Steps ==
  ASSUME [Next]_vars
  PROVE  Step
<1>1. ASSUME NEW t, NEW s, NEW x \in BOOLEAN, Working(t), SGError(t, s, x), AfterError,
             UNCHANGED <<ec2Vars, sgInfoCache>>, Fault \/ UNCHANGED faults, x => s \notin exists
      PROVE  SkipSG(t, s) \/ ForgetSG(t, s) \/ Quit(t)
  BY <1>1 DEF SGError, SkipSG, ForgetSG, Quit, Frame, AfterError
<1>2. ASSUME NEW t \in TGB, NEW s \in SG, FetchNotFound(t, s) \/ FetchFails(t, s)
      PROVE  SkipSG(t, s) \/ ForgetSG(t, s) \/ Quit(t)
  BY <1>1, <1>2 DEF FetchNotFound, FetchFails, Working
<1>3. ASSUME NEW t \in TGB, MismatchAgain(t) \/ ApplyNotFound(t) \/ ApplyFails(t)
      PROVE  SkipSG(t, current) \/ ForgetSG(t, current) \/ Quit(t)
  BY <1>1, <1>3 DEF MismatchAgain, ApplyNotFound, ApplyFails, Working
<1>4. ASSUME NEW t \in TGB, GCFails(t)
      PROVE  Quit(t)
  BY <1>4 DEF GCFails, Quit, Frame, EnvUnchanged, managerVars, Working
<1> QED BY <1>2, <1>3, <1>4 DEF Next, User, Synchronize, Conclude, Step

\* Which steps change what.
LEMMA K8sFrame ==
  ASSUME Step
  PROVE  \/ UNCHANGED k8sVars
         \/ \E t \in TGB : \/ DeleteTGB(t) \/ Start(t) \/ Finish(t)
                           \/ \E x \in Shapes : SetTGB(t, x[1], x[2])
BY DEF Step, Prepare, DeleteSG, Expire, AddForeign, Restart, StartCleanup, StartAbsent,
       Lookup, SaveLookup, Enter, EnterFails, FetchSG, Stay, RevokeSGIngress,
       AuthorizeSGIngress, Reload, SGDone, NextSG, SkipSG, ForgetSG, Quit, Frame, GC, vars

LEMMA EC2Frame ==
  ASSUME Step
  PROVE  \/ UNCHANGED ec2Vars
         \/ \E s \in SG : \/ DeleteSG(s)
                          \/ \E p \in Others : AddForeign(s, p)
         \/ \E t \in TGB : \/ RevokeSGIngress(t) \/ AuthorizeSGIngress(t)
BY DEF Step, Prepare, DeleteTGB, SetTGB, Changed, Expire, Restart, EnvUnchanged, Start,
       StartCleanup, StartAbsent, Lookup, SaveLookup, Enter, EnterFails, FetchSG, Stay,
       Reload, SGDone, NextSG, SkipSG, ForgetSG, Quit, Frame, GC, Finish, vars

LEMMA CacheFrame ==
  ASSUME Step
  PROVE  \/ UNCHANGED sgInfoCache
         \/ Restart
         \/ \E s \in SG : Expire(s)
         \/ \E t \in TGB : \/ SaveLookup(t) \/ RevokeSGIngress(t) \/ AuthorizeSGIngress(t)
                           \/ Reload(t) \/ GC(t)
                           \/ \E s \in SG : FetchSG(t, s)
BY DEF Step, Prepare, DeleteTGB, SetTGB, Changed, DeleteSG, AddForeign, Start, StartCleanup,
       StartAbsent, Lookup, Enter, EnterFails, Stay, SGDone, NextSG, SkipSG, ForgetSG, Quit,
       Frame, Finish, vars

LEMMA PermissionsFrame ==
  ASSUME Step
  PROVE  \/ UNCHANGED ingressPermissionsPerSGByTGB
         \/ Restart
         \/ \E t \in TGB : \/ Enter(t) \/ EnterFails(t)
BY DEF Step, Prepare, DeleteTGB, SetTGB, Changed, DeleteSG, Expire, AddForeign, Start,
       StartCleanup, StartAbsent, Lookup, SaveLookup, FetchSG, Stay, RevokeSGIngress,
       AuthorizeSGIngress, Reload, SGDone, NextSG, SkipSG, ForgetSG, Quit, Frame, GC,
       Finish, vars, managerVars

LEMMA TrackedFrame ==
  ASSUME Step
  PROVE  \/ UNCHANGED <<trackedEndpointSGs, trackedEndpointSGsInitialized>>
         \/ Restart
         \/ \E t \in TGB : \/ Enter(t) \/ EnterFails(t) \/ GC(t)
                           \/ \E s : ForgetSG(t, s)
BY DEF Step, Prepare, DeleteTGB, SetTGB, Changed, DeleteSG, Expire, AddForeign, Start,
       StartCleanup, StartAbsent, Lookup, SaveLookup, FetchSG, Stay, RevokeSGIngress,
       AuthorizeSGIngress, Reload, SGDone, NextSG, SkipSG, Quit, Frame, Finish, vars,
       managerVars

LEMMA SeenFrame ==
  ASSUME Step
  PROVE  \/ UNCHANGED seen
         \/ Restart
         \/ \E t \in TGB : \/ Lookup(t) \/ SaveLookup(t)
BY DEF Step, Prepare, DeleteTGB, SetTGB, Changed, DeleteSG, Expire, AddForeign, Start,
       StartCleanup, StartAbsent, Enter, EnterFails, FetchSG, Stay, RevokeSGIngress,
       AuthorizeSGIngress, Reload, SGDone, NextSG, SkipSG, ForgetSG, Quit, Frame, GC,
       Finish, vars

LEMMA ProcessFrame ==
  ASSUME Step
  PROVE  \/ UNCHANGED <<pc, mutex>>
         \/ Restart
         \/ \E t \in TGB : \/ Start(t) \/ StartCleanup(t) \/ Lookup(t) \/ SaveLookup(t)
                           \/ Enter(t) \/ EnterFails(t) \/ Quit(t) \/ SGDone(t) \/ Finish(t)
                           \/ \E s \in SG : FetchSG(t, s)
                           \/ \E s : SkipSG(t, s)
                           \/ \E s : ForgetSG(t, s)
BY DEF Step, Prepare, DeleteTGB, SetTGB, Changed, DeleteSG, Expire, AddForeign, StartAbsent,
       Stay, RevokeSGIngress, AuthorizeSGIngress, Reload, NextSG, GC, vars

LEMMA WantFrame ==
  ASSUME Step
  PROVE  \/ UNCHANGED <<want, cleanup>>
         \/ Restart
         \/ \E t \in TGB : \/ Start(t) \/ StartCleanup(t) \/ Quit(t) \/ Finish(t)
BY DEF Step, Prepare, DeleteTGB, SetTGB, Changed, DeleteSG, Expire, AddForeign, StartAbsent,
       Lookup, SaveLookup, Enter, EnterFails, FetchSG, Stay, RevokeSGIngress,
       AuthorizeSGIngress, Reload, SGDone, NextSG, SkipSG, ForgetSG, GC, vars

LEMMA DesiredFrame ==
  ASSUME Step
  PROVE  \/ UNCHANGED <<desired, used, computedForAllTGBs>>
         \/ Restart
         \/ \E t \in TGB : \/ Enter(t) \/ Quit(t) \/ Finish(t)
BY DEF Step, Prepare, DeleteTGB, SetTGB, Changed, DeleteSG, Expire, AddForeign, Start,
       StartCleanup, StartAbsent, Lookup, SaveLookup, EnterFails, FetchSG, Stay,
       RevokeSGIngress, AuthorizeSGIngress, Reload, SGDone, NextSG, SkipSG, ForgetSG, GC,
       vars, loopVars

LEMMA TodoFrame ==
  ASSUME Step
  PROVE  \/ UNCHANGED <<todo, gc>>
         \/ Restart
         \/ \E t \in TGB : \/ Enter(t) \/ Quit(t) \/ SGDone(t) \/ GC(t) \/ Finish(t)
                           \/ \E s : SkipSG(t, s)
                           \/ \E s : ForgetSG(t, s)
BY DEF Step, Prepare, DeleteTGB, SetTGB, Changed, DeleteSG, Expire, AddForeign, Start,
       StartCleanup, StartAbsent, Lookup, SaveLookup, EnterFails, FetchSG, Stay,
       RevokeSGIngress, AuthorizeSGIngress, Reload, NextSG, vars, loopVars

LEMMA CurrentFrame ==
  ASSUME Step
  PROVE  \/ UNCHANGED currentVars
         \/ Restart
         \/ \E t \in TGB : \/ RevokeSGIngress(t) \/ AuthorizeSGIngress(t) \/ Reload(t)
                           \/ Quit(t) \/ SGDone(t) \/ Finish(t)
                           \/ \E s \in SG : FetchSG(t, s)
                           \/ \E s : SkipSG(t, s)
                           \/ \E s : ForgetSG(t, s)
BY DEF Step, Prepare, DeleteTGB, SetTGB, Changed, DeleteSG, Expire, AddForeign, Start,
       StartCleanup, StartAbsent, Lookup, SaveLookup, Enter, EnterFails, Stay, NextSG, GC,
       vars

LEMMA FailedFrame ==
  ASSUME Step
  PROVE  \/ UNCHANGED failed
         \/ Restart
         \/ \E t \in TGB : \/ Quit(t) \/ Finish(t)
                           \/ \E s : SkipSG(t, s)
BY DEF Step, Prepare, DeleteTGB, SetTGB, Changed, DeleteSG, Expire, AddForeign, Start,
       StartCleanup, StartAbsent, Lookup, SaveLookup, Enter, EnterFails, FetchSG, Stay,
       RevokeSGIngress, AuthorizeSGIngress, Reload, SGDone, NextSG, ForgetSG, Frame, GC,
       vars

LEMMA ServedFrame ==
  ASSUME Step
  PROVE  \/ UNCHANGED served
         \/ \E t \in TGB : \/ DeleteTGB(t) \/ Finish(t)
                           \/ \E x \in Shapes : SetTGB(t, x[1], x[2])
BY DEF Step, Prepare, DeleteSG, Expire, AddForeign, Restart, Start, StartCleanup,
       StartAbsent, Lookup, SaveLookup, Enter, EnterFails, FetchSG, Stay, RevokeSGIngress,
       AuthorizeSGIngress, Reload, SGDone, NextSG, SkipSG, ForgetSG, Quit, Frame, GC, vars

LEMMA QueuedFrame ==
  ASSUME Step
  PROVE  \/ UNCHANGED queued
         \/ Restart
         \/ \E t \in TGB : \/ DeleteTGB(t) \/ Start(t) \/ StartCleanup(t) \/ StartAbsent(t)
                           \/ Lookup(t) \/ EnterFails(t) \/ Quit(t) \/ Finish(t)
                           \/ \E x \in Shapes : SetTGB(t, x[1], x[2])
BY DEF Step, Prepare, DeleteSG, Expire, AddForeign, SaveLookup, Enter, FetchSG, Stay,
       RevokeSGIngress, AuthorizeSGIngress, Reload, SGDone, NextSG, SkipSG, ForgetSG, Frame,
       GC, vars

LEMMA RestrictedFrame ==
  ASSUME Step
  PROVE  \/ UNCHANGED restricted
BY DEF Step, Prepare, DeleteTGB, SetTGB, Changed, DeleteSG, Expire, AddForeign, Restart,
       EnvUnchanged, Start, StartCleanup, StartAbsent, Lookup, SaveLookup, Enter,
       EnterFails, FetchSG, Stay, RevokeSGIngress, AuthorizeSGIngress, Reload, SGDone,
       NextSG, SkipSG, ForgetSG, Quit, Frame, GC, Finish, vars

-----------------------------------------------------------------------------
(* Types, by parts.                                                            *)

K8sTypes ==
  /\ tgb \in [TGB -> {"absent", "live", "deleting"}] /\ fin \in [TGB -> BOOLEAN]
  /\ net \in [TGB -> {x[1] : x \in Shapes} \cup {NoNetworking}] /\ sgOf \in [TGB -> SUBSET SG]

EC2Types == exists \subseteq SG /\ rules \in [SG -> SUBSET Perm] /\ foreign \in [SG -> SUBSET Perm]

CacheTypes == sgInfoCache \in [SG -> Info \cup {NoEntry}]

ManagerTypes ==
  /\ ingressPermissionsPerSGByTGB \in [TGB -> Entry \cup {NoEntry}]
  /\ trackedEndpointSGs \subseteq SG /\ trackedEndpointSGsInitialized \in BOOLEAN

ProcessTypes ==
  /\ mutex \in TGB \cup {NoTGB}
  /\ pc \in [TGB -> {"idle", "lookup", "save", "lock", "sync", "apply"}]
  /\ \A t \in TGB : pc[t] \in {"sync", "apply"} <=> mutex = t

WantTypes == want \in [TGB -> Entry] /\ cleanup \in [TGB -> BOOLEAN]

LoopTypes ==
  /\ desired \in [SG -> SUBSET Perm] /\ used \subseteq SG /\ todo \subseteq SG
  /\ computedForAllTGBs \in BOOLEAN /\ gc \in BOOLEAN /\ failed \in BOOLEAN

CurrentTypes ==
  /\ current \in SG \cup {NoSG} /\ info \in Info /\ ignoreCache \in BOOLEAN
  /\ \A t \in TGB : pc[t] = "apply" => current \in todo

BoundTypes == events \in 0..MaxEvents /\ faults \in 0..MaxFaults

TypeInv == TypeOK /\ SeenOK /\ CurrentTypes

LEMMA TypeParts ==
  TypeOK /\ CurrentTypes <=>
    /\ K8sTypes /\ EC2Types /\ CacheTypes /\ ManagerTypes /\ ProcessTypes /\ WantTypes /\ LoopTypes
    /\ CurrentTypes /\ BoundTypes
    /\ queued \in [TGB -> BOOLEAN] /\ served \in [TGB -> Entry] /\ restricted \in BOOLEAN
BY DEF TypeOK, K8sTypes, EC2Types, CacheTypes, ManagerTypes, ProcessTypes, WantTypes, LoopTypes,
       CurrentTypes, BoundTypes

LEMMA TypeInit == Init => TypeInv
<1> SUFFICES ASSUME Init PROVE TypeInv
  OBVIOUS
<1>1. K8sTypes /\ queued \in [TGB -> BOOLEAN]
  <2>1. PICK present \in SUBSET TGB : \E shape \in [present -> Shapes] :
          /\ tgb = [t \in TGB |-> IF t \in present THEN "live" ELSE "absent"]
          /\ net = [t \in TGB |-> IF t \in present THEN shape[t][1] ELSE NoNetworking]
          /\ sgOf = [t \in TGB |-> IF t \in present THEN shape[t][2] ELSE {}]
          /\ queued = [t \in TGB |-> t \in present]
    BY DEF Init
  <2>2. PICK shape \in [present -> Shapes] :
          /\ tgb = [t \in TGB |-> IF t \in present THEN "live" ELSE "absent"]
          /\ net = [t \in TGB |-> IF t \in present THEN shape[t][1] ELSE NoNetworking]
          /\ sgOf = [t \in TGB |-> IF t \in present THEN shape[t][2] ELSE {}]
          /\ queued = [t \in TGB |-> t \in present]
    BY <2>1
  <2>3. \A x \in Shapes : x[2] \in SUBSET SG
    BY ShapeAssumption
  <2> QED BY SMT, <2>2, <2>3 DEF Init, K8sTypes
<1>2. EC2Types /\ CacheTypes /\ ManagerTypes /\ ProcessTypes
  BY DistinctAssumption DEF Init, EC2Types, CacheTypes, ManagerTypes, ProcessTypes
<1>3. WantTypes /\ LoopTypes /\ CurrentTypes /\ served \in [TGB -> Entry] /\ restricted \in BOOLEAN
  BY DEF Init, WantTypes, LoopTypes, CurrentTypes, Nothing, NoInfo, Entry, Info
<1>4. BoundTypes /\ SeenOK
  BY SMT, LimitAssumption DEF Init, BoundTypes, SeenOK
<1> QED BY <1>1, <1>2, <1>3, <1>4, TypeParts DEF TypeInv

LEMMA ManagerTypesKept ==
  ASSUME TypeInv, Step
  PROVE  ManagerTypes'
<1> ManagerTypes /\ WantTypes /\ EC2Types
  BY TypeParts DEF TypeInv
<1>1. ingressPermissionsPerSGByTGB' \in [TGB -> Entry \cup {NoEntry}]
  <2>1. CASE Restart \/ UNCHANGED ingressPermissionsPerSGByTGB
    BY <2>1 DEF Restart, ManagerTypes
  <2>2. CASE \E t \in TGB : Enter(t) \/ EnterFails(t)
    BY <2>2 DEF Enter, EnterFails, Consolidated, Recorded, ManagerTypes, WantTypes
  <2> QED BY <2>1, <2>2, PermissionsFrame
<1>2. trackedEndpointSGs' \subseteq SG /\ trackedEndpointSGsInitialized' \in BOOLEAN
  <2>1. CASE Restart \/ UNCHANGED <<trackedEndpointSGs, trackedEndpointSGsInitialized>>
    BY <2>1 DEF Restart, ManagerTypes
  <2>2. CASE \E t \in TGB : Enter(t) \/ EnterFails(t)
    BY <2>2 DEF Enter, EnterFails, ManagerTypes, WantTypes, Entry
  <2>3. CASE \E t \in TGB : GC(t) \/ \E s : ForgetSG(t, s)
    BY <2>3 DEF GC, TaggedSGs, ForgetSG, Frame, ManagerTypes, EC2Types
  <2> QED BY <2>1, <2>2, <2>3, TrackedFrame
<1> QED BY <1>1, <1>2 DEF ManagerTypes

LEMMA ProcessTypesKept ==
  ASSUME TypeInv, Step
  PROVE  ProcessTypes'
<1> ProcessTypes
  BY TypeParts DEF TypeInv
<1>1. CASE Restart
  BY <1>1, DistinctAssumption DEF Restart, ProcessTypes
<1>2. CASE \E t \in TGB : Start(t) \/ StartCleanup(t) \/ Lookup(t) \/ SaveLookup(t)
  BY SMT, <1>2 DEF Start, StartCleanup, Lookup, SaveLookup, ProcessTypes
<1>3. CASE \E t \in TGB : Enter(t)
  BY SMT, <1>3, DistinctAssumption DEF Enter, ProcessTypes
<1>4. CASE \E t \in TGB : EnterFails(t)
  BY <1>4 DEF EnterFails, ProcessTypes
<1>5. CASE \E t \in TGB : \E s \in SG : FetchSG(t, s)
  BY <1>5 DEF FetchSG, Stay, ProcessTypes
<1>6. CASE \E t \in TGB : SGDone(t) \/ \E s : SkipSG(t, s) \/ ForgetSG(t, s)
  BY <1>6 DEF SGDone, SkipSG, ForgetSG, NextSG, Working, ProcessTypes
<1>7. CASE \E t \in TGB : Quit(t) \/ Finish(t)
  BY SMT, <1>7, DistinctAssumption DEF Quit, Finish, Finished, Leave, Working, ProcessTypes
<1>8. CASE UNCHANGED <<pc, mutex>>
  BY <1>8 DEF ProcessTypes
<1> QED BY <1>1, <1>2, <1>3, <1>4, <1>5, <1>6, <1>7, <1>8, ProcessFrame

\* The holder of the mutex starts from the permissions of all bindings.
LEMMA EnterOK ==
  ASSUME TypeInv, NEW t \in TGB, Enter(t)
  PROVE  /\ Permissions' \in [TGB -> Entry \cup {NoEntry}]
         /\ Permissions' = Consolidated(Recorded(t))
         /\ desired' = [s \in SG |-> Aggregated(Permissions', s)]
         /\ used' = UNION {Permissions'[u].sgs : u \in {v \in TGB : Permissions'[v] # NoEntry}}
         /\ todo' = used'
         /\ computedForAllTGBs' = ComputedForAll(Permissions')
         /\ UNCHANGED restricted
<1>1. Step
  BY DEF Step, Prepare
<1>2. Permissions' \in [TGB -> Entry \cup {NoEntry}]
  BY <1>1, ManagerTypesKept DEF ManagerTypes, Permissions
<1> QED BY <1>2 DEF Enter, EnvUnchanged, Permissions

LEMMA CurrentTypesKept ==
  ASSUME TypeInv, Step
  PROVE  CurrentTypes'
<1> CurrentTypes /\ CacheTypes /\ EC2Types /\ LoopTypes /\ ProcessTypes
  BY TypeParts DEF TypeInv
<1>1. \A s \in SG : InfoOf(s) \in Info
  BY DEF InfoOf, Info, EC2Types
<1>2. CASE Restart
  BY <1>2 DEF Restart, CurrentTypes, NoInfo, Info
<1>3. CASE \E t \in TGB : \E s \in SG : FetchSG(t, s)
  <2>1. PICK t \in TGB, s \in SG : FetchSG(t, s)
    BY <1>3
  <2>2. info' \in Info
    BY <1>1, <2>1 DEF FetchSG, CacheTypes
  <2>3. current' \in SG /\ ignoreCache' \in BOOLEAN /\ current' \in todo'
    BY <2>1 DEF FetchSG
  <2> QED BY <2>2, <2>3 DEF CurrentTypes
<1>4. CASE \E t \in TGB : RevokeSGIngress(t)
  <2>1. PICK t \in TGB : RevokeSGIngress(t)
    BY <1>4
  <2>2. info' \in Info
    BY <2>1 DEF RevokeSGIngress, CurrentTypes, Info
  <2> QED BY <2>1, <2>2 DEF RevokeSGIngress, CurrentTypes
<1>5. CASE \E t \in TGB : AuthorizeSGIngress(t)
  <2> PICK t \in TGB : AuthorizeSGIngress(t)
    BY <1>5
  <2>2. current \in SG
    BY DEF AuthorizeSGIngress, EC2Types
  <2>3. info' \in Info
    BY <2>2 DEF AuthorizeSGIngress, PermissionsToGrant, CurrentTypes, Info, LoopTypes
  <2> QED BY <2>3 DEF AuthorizeSGIngress, CurrentTypes
<1>6. CASE \E t \in TGB : Reload(t)
  <2>1. PICK t \in TGB : Reload(t)
    BY <1>6
  <2>2. info' \in Info
    BY <1>1, <2>1 DEF Reload, EC2Types
  <2> QED BY <2>1, <2>2 DEF Reload, CurrentTypes
<1>7. CASE \E t \in TGB : SGDone(t) \/ \E s : SkipSG(t, s) \/ ForgetSG(t, s)
  <2>1. PICK t \in TGB : Working(t) /\ \E s : NextSG(t, s)
    BY <1>7 DEF SGDone, SkipSG, ForgetSG, Working
  <2>2. \A u \in TGB : pc'[u] # "apply"
    BY <2>1 DEF NextSG, Working, ProcessTypes
  <2>3. current' = NoSG /\ info' = NoInfo /\ ignoreCache' = FALSE
    BY <2>1 DEF NextSG
  <2> QED BY <2>2, <2>3 DEF CurrentTypes, NoInfo, Info
<1>8. CASE \E t \in TGB : Quit(t) \/ Finish(t)
  <2>1. PICK t \in TGB : Working(t) /\ (Leave(t, TRUE) \/ Leave(t, failed \/ cleanup[t]))
    BY <1>8 DEF Quit, Finish, Finished, Working
  <2>2. \A u \in TGB : pc'[u] # "apply"
    BY <2>1 DEF Leave, Working, ProcessTypes
  <2>3. current' = NoSG /\ info' = NoInfo /\ ignoreCache' = FALSE
    BY <2>1 DEF Leave
  <2> QED BY <2>2, <2>3 DEF CurrentTypes, NoInfo, Info
<1>9. CASE UNCHANGED currentVars
  <2>1. ASSUME NEW t \in TGB, pc'[t] = "apply" PROVE current' \in todo'
    <3>1. CASE UNCHANGED <<pc, mutex>> /\ UNCHANGED <<todo, gc>>
      BY <1>9, <2>1, <3>1 DEF CurrentTypes, currentVars
    <3>2. CASE \E u \in TGB : Start(u) \/ StartCleanup(u) \/ Lookup(u) \/ SaveLookup(u) \/ EnterFails(u)
      <4>1. PICK u \in TGB : Start(u) \/ StartCleanup(u) \/ Lookup(u) \/ SaveLookup(u) \/ EnterFails(u)
        BY <3>2
      <4>2. /\ UNCHANGED <<todo, gc>>
            /\ pc'[t] = "apply" => pc[t] = "apply"
        BY <4>1 DEF Start, StartCleanup, Lookup, SaveLookup, EnterFails, loopVars, ProcessTypes
      <4> QED
        BY <1>9, <2>1, <4>2 DEF CurrentTypes, currentVars
    <3>3. CASE \E u \in TGB : Enter(u)
      BY SMT, <2>1, <3>3, DistinctAssumption DEF Enter, ProcessTypes
    <3>4. CASE \E u \in TGB : GC(u)
      BY <2>1, <3>4 DEF GC, ProcessTypes
    <3> QED BY <1>2, <1>3, <1>7, <1>8, <2>1, <3>1, <3>2, <3>3, <3>4, ProcessFrame, TodoFrame
            DEF CurrentTypes
  <2> QED BY <1>9, <2>1 DEF CurrentTypes, currentVars
<1> QED BY <1>2, <1>3, <1>4, <1>5, <1>6, <1>7, <1>8, <1>9, CurrentFrame

\* An answer on its way to the cache is one that waited, or has just been given.
LEMMA SavePending ==
  ASSUME TypeInv, Step, NEW t \in TGB, pc'[t] = "save"
  PROVE  \/ pc[t] = "save" /\ seen'[t] = seen[t]
         \/ UNCHANGED ec2Vars /\ \E M \in SUBSET exists : seen'[t] = [s \in M |-> InfoOf(s)]
<1> ProcessTypes /\ DOMAIN seen = TGB
  BY TypeParts DEF TypeInv, SeenOK
<1>1. CASE Restart
  BY <1>1 DEF Restart
<1>2. CASE \E u \in TGB : Lookup(u)
  <2>1. PICK u \in TGB : Lookup(u)
    BY <1>2
  <2> DEFINE M == {s \in want[u].sgs : sgInfoCache[s] = NoEntry}
  <2>2. CASE M = {} \/ ~(M \subseteq exists)
    BY <2>1, <2>2 DEF Lookup, ProcessTypes
  <2>3. CASE M # {} /\ M \subseteq exists
    <3>1. /\ seen' = [seen EXCEPT ![u] = [s \in M |-> InfoOf(s)]]
          /\ pc' = [pc EXCEPT ![u] = "save"]
          /\ UNCHANGED ec2Vars
      BY <2>1, <2>3 DEF Lookup, EnvUnchanged
    <3> HIDE DEF M
    <3>2. CASE t = u
      BY <2>3, <3>1, <3>2
    <3>3. CASE t # u
      BY <3>1, <3>3 DEF ProcessTypes
    <3> QED BY <3>2, <3>3
  <2> QED BY <2>2, <2>3
<1>3. CASE \E u \in TGB : SaveLookup(u)
  BY <1>3 DEF SaveLookup, ProcessTypes
<1>4. CASE UNCHANGED seen
  <2>1. CASE \E u \in TGB : Start(u) \/ StartCleanup(u) \/ Enter(u) \/ EnterFails(u)
    BY <1>4, <2>1 DEF Start, StartCleanup, Enter, EnterFails, ProcessTypes
  <2>2. CASE \E u \in TGB : (\E s \in SG : FetchSG(u, s)) \/ SGDone(u) \/ \E s : SkipSG(u, s) \/ ForgetSG(u, s)
    BY <1>4, <2>2 DEF FetchSG, SGDone, SkipSG, ForgetSG, NextSG, ProcessTypes
  <2>3. CASE \E u \in TGB : Quit(u) \/ Finish(u)
    BY <1>4, <2>3 DEF Quit, Finish, Leave, ProcessTypes
  <2>4. CASE UNCHANGED <<pc, mutex>>
    BY <1>4, <2>4
  <2> QED BY <1>1, <1>2, <1>3, <2>1, <2>2, <2>3, <2>4, ProcessFrame
<1> QED BY <1>1, <1>2, <1>3, <1>4, SeenFrame

LEMMA TypeKept ==
  ASSUME TypeInv, Step
  PROVE  TypeInv'
<1>K8sTypesKept. K8sTypes'
  <2> K8sTypes
    BY TypeParts DEF TypeInv
  <2>1. CASE \E t \in TGB : DeleteTGB(t)
    BY <2>1 DEF DeleteTGB, Removed, K8sTypes
  <2>2. CASE \E t \in TGB : \E x \in Shapes : SetTGB(t, x[1], x[2])
    BY SMT, <2>2, ShapeAssumption DEF SetTGB, K8sTypes
  <2>3. CASE \E t \in TGB : Start(t)
    BY <2>3 DEF Start, K8sTypes
  <2>4. CASE \E t \in TGB : Finish(t)
    BY <2>4 DEF Finish, Removed, k8sVars, K8sTypes
  <2>5. CASE UNCHANGED k8sVars
    BY <2>5 DEF k8sVars, K8sTypes
  <2> QED BY <2>1, <2>2, <2>3, <2>4, <2>5, K8sFrame
<1>EC2TypesKept. EC2Types'
  <2> EC2Types /\ LoopTypes
    BY TypeParts DEF TypeInv
  <2>1. CASE \E s \in SG : DeleteSG(s) \/ \E p \in Others : AddForeign(s, p)
    BY SMT, <2>1, OthersAssumption DEF DeleteSG, AddForeign, EC2Types
  <2>2. CASE \E t \in TGB : RevokeSGIngress(t)
    BY <2>2 DEF RevokeSGIngress, EC2Types
  <2>3. CASE \E t \in TGB : AuthorizeSGIngress(t)
    BY <2>3 DEF AuthorizeSGIngress, PermissionsToGrant, EC2Types, LoopTypes
  <2>4. CASE UNCHANGED ec2Vars
    BY <2>4 DEF ec2Vars, EC2Types
  <2> QED BY <2>1, <2>2, <2>3, <2>4, EC2Frame
<1>CacheTypesKept. CacheTypes'
  <2> CacheTypes /\ EC2Types /\ CurrentTypes /\ SeenOK
    BY TypeParts DEF TypeInv
  <2> \A s \in SG : InfoOf(s) \in Info
    BY DEF InfoOf, Info, EC2Types
  <2>2. CASE Restart \/ \E s \in SG : Expire(s)
    BY <2>2 DEF Restart, Expire, CacheTypes
  <2>3. CASE \E t \in TGB : SaveLookup(t)
    BY <2>3 DEF SaveLookup, CacheTypes, SeenOK
  <2>4. CASE \E t \in TGB : \E s \in SG : FetchSG(t, s)
    <3>1. PICK t \in TGB, s \in SG : FetchSG(t, s)
      BY <2>4
    <3>2. info' \in Info
      BY <3>1 DEF FetchSG, CacheTypes
    <3> QED BY <3>1, <3>2 DEF FetchSG, CacheTypes
  <2>5. CASE \E t \in TGB : RevokeSGIngress(t) \/ AuthorizeSGIngress(t)
    BY <2>5 DEF RevokeSGIngress, AuthorizeSGIngress, ClearCache, CacheTypes
  <2>6. CASE \E t \in TGB : Reload(t)
    BY SMT, <2>6 DEF Reload, CacheTypes, EC2Types
  <2>7. CASE \E t \in TGB : GC(t)
    BY SMT, <2>7 DEF GC, CacheTypes
  <2>8. CASE UNCHANGED sgInfoCache
    BY <2>8 DEF CacheTypes
  <2> QED BY <2>2, <2>3, <2>4, <2>5, <2>6, <2>7, <2>8, CacheFrame
<1>WantTypesKept. WantTypes'
  <2> WantTypes
    BY TypeParts DEF TypeInv
  <2>1. Nothing \in Entry
    BY DEF Nothing, Entry
  <2>2. CASE Restart
    BY <2>1, <2>2 DEF Restart, WantTypes
  <2>3. CASE \E t \in TGB : Start(t)
    BY SMT, <2>3, NeedsOK DEF Start, WantTypes, TypeInv
  <2>4. CASE \E t \in TGB : StartCleanup(t) \/ Quit(t) \/ Finish(t)
    BY <2>1, <2>4 DEF StartCleanup, Quit, Finish, Leave, WantTypes
  <2>5. CASE UNCHANGED <<want, cleanup>>
    BY <2>5 DEF WantTypes
  <2> QED BY <2>2, <2>3, <2>4, <2>5, WantFrame
<1>LoopTypesKept. LoopTypes'
  <2> LoopTypes /\ ManagerTypes /\ restricted \in BOOLEAN
    BY TypeParts DEF TypeInv
  <2>1. CASE Restart
    BY <2>1 DEF Restart, LoopTypes
  <2>2. CASE \E t \in TGB : Enter(t)
    <3> PICK t \in TGB : Enter(t)
      BY <2>2
    <3>2. \A s \in SG : Aggregated(Permissions', s) \subseteq Perm
      BY EnterOK, AggregatedOK
    <3>3. desired' \in [SG -> SUBSET Perm]
      BY <3>2, EnterOK
    <3>4. used' \subseteq SG /\ todo' \subseteq SG
      BY SMT, EnterOK DEF Entry
    <3>5. computedForAllTGBs' \in BOOLEAN
      BY EnterOK DEF ComputedForAll
    <3> QED BY <3>3, <3>4, <3>5 DEF Enter, LoopTypes
  <2>3. CASE \E t \in TGB : SGDone(t) \/ \E s : SkipSG(t, s) \/ ForgetSG(t, s)
    BY <2>3 DEF SGDone, SkipSG, ForgetSG, NextSG, LoopTypes
  <2>4. CASE \E t \in TGB : GC(t)
    <3>1. Step /\ trackedEndpointSGs' \subseteq SG
      BY <2>4, ManagerTypesKept DEF ManagerTypes
    <3> QED BY <2>4, <3>1 DEF GC, LoopTypes
  <2>5. CASE \E t \in TGB : Quit(t) \/ Finish(t)
    BY <2>5 DEF Quit, Finish, Leave, LoopTypes
  <2>6. CASE UNCHANGED <<desired, used, computedForAllTGBs>> /\ UNCHANGED <<todo, gc>> /\ UNCHANGED failed
    BY <2>6 DEF LoopTypes
  <2> QED BY <2>1, <2>2, <2>3, <2>4, <2>5, <2>6, DesiredFrame, TodoFrame, FailedFrame
<1>SeenKept. SeenOK'
  <2> SeenOK /\ EC2Types
    BY TypeParts DEF TypeInv
  <2>1. DOMAIN seen' = TGB
    <3>1. CASE Restart
      BY <3>1 DEF Restart
    <3>2. CASE \E t \in TGB : Lookup(t) \/ SaveLookup(t)
      BY <3>2 DEF Lookup, SaveLookup, SeenOK
    <3> QED BY <3>1, <3>2, SeenFrame DEF SeenOK
  <2>2. ASSUME NEW t \in TGB, pc'[t] = "save"
        PROVE  DOMAIN seen'[t] \subseteq SG /\ \A s \in DOMAIN seen'[t] : seen'[t][s] \in Info
    <3>1. \A s \in exists : s \in SG /\ InfoOf(s) \in Info
      BY DEF InfoOf, Info, EC2Types
    <3>2. CASE pc[t] = "save" /\ seen'[t] = seen[t]
      BY <3>2 DEF SeenOK
    <3>3. CASE \E M \in SUBSET exists : seen'[t] = [s \in M |-> InfoOf(s)]
      <4>1. PICK M \in SUBSET exists : seen'[t] = [s \in M |-> InfoOf(s)]
        BY <3>3
      <4>2. DOMAIN seen'[t] = M /\ \A s \in M : seen'[t][s] = InfoOf(s)
        BY <4>1
      <4> QED BY <3>1, <4>2
    <3> QED BY <2>2, <3>2, <3>3, SavePending
  <2> QED BY <2>1, <2>2 DEF SeenOK
<1>QueuedServedKept. queued' \in [TGB -> BOOLEAN] /\ served' \in [TGB -> Entry]
  <2> queued \in [TGB -> BOOLEAN] /\ served \in [TGB -> Entry] /\ WantTypes /\ LoopTypes
    BY TypeParts DEF TypeInv
  <2>1. Nothing \in Entry
    BY DEF Nothing, Entry
  <2> queued' \in [TGB -> BOOLEAN]
    <3>1. CASE Restart \/ UNCHANGED queued
      BY <3>1 DEF Restart
    <3>2. CASE \E t \in TGB : DeleteTGB(t) \/ \E x \in Shapes : SetTGB(t, x[1], x[2])
      BY <3>2 DEF DeleteTGB, SetTGB, Changed
    <3>3. CASE \E t \in TGB : Start(t) \/ StartCleanup(t) \/ StartAbsent(t) \/ Lookup(t) \/ EnterFails(t)
      BY <3>3 DEF Start, StartCleanup, StartAbsent, Lookup, EnterFails
    <3>4. CASE \E t \in TGB : Quit(t) \/ Finish(t)
      BY <3>4 DEF Quit, Finish, Leave, WantTypes, LoopTypes
    <3> QED BY <3>1, <3>2, <3>3, <3>4, QueuedFrame
  <2>3. CASE \E t \in TGB : DeleteTGB(t) \/ \E x \in Shapes : SetTGB(t, x[1], x[2])
    BY SMT, <2>1, <2>3 DEF DeleteTGB, SetTGB, Changed
  <2>4. CASE \E t \in TGB : Finish(t)
    BY <2>4 DEF Finish, WantTypes
  <2> QED BY <2>3, <2>4, ServedFrame
<1>BoundTypesKept. BoundTypes'
  <2>1. Event \/ UNCHANGED events
    BY DEF Step, Prepare, DeleteTGB, SetTGB, DeleteSG, Expire, AddForeign, Restart,
         EnvUnchanged, Start, StartCleanup, StartAbsent, Lookup, SaveLookup, Enter, EnterFails, FetchSG, Stay,
         RevokeSGIngress, AuthorizeSGIngress, Reload, SGDone, SkipSG, ForgetSG, Quit, Frame,
         GC, Finish, vars, boundVars
  <2>2. Fault \/ UNCHANGED faults
    BY DEF Step, Prepare, DeleteTGB, SetTGB, Changed, DeleteSG, Expire, AddForeign, Restart, Start,
         StartCleanup, StartAbsent, Lookup, SaveLookup, Enter, EnterFails, FetchSG,
         RevokeSGIngress, AuthorizeSGIngress, Reload, SGDone, SkipSG, ForgetSG, Quit, Frame,
         GC, Finish, vars, boundVars
  <2>3. BoundTypes
    BY TypeParts DEF TypeInv
  <2> QED BY SMT, <2>1, <2>2, <2>3, LimitAssumption DEF Event, Fault, BoundTypes
<1>1. K8sTypes' /\ EC2Types' /\ CacheTypes' /\ ManagerTypes' /\ ProcessTypes' /\ WantTypes'
  BY <1>K8sTypesKept, <1>EC2TypesKept, <1>CacheTypesKept, ManagerTypesKept, ProcessTypesKept, <1>WantTypesKept
<1>2. LoopTypes' /\ CurrentTypes' /\ BoundTypes' /\ SeenOK'
  BY <1>LoopTypesKept, CurrentTypesKept, <1>BoundTypesKept, <1>SeenKept
<1>3. (queued \in [TGB -> BOOLEAN] /\ served \in [TGB -> Entry] /\ restricted \in BOOLEAN)'
  BY <1>QueuedServedKept, RestrictedFrame DEF TypeInv, TypeOK
<1>4. (TypeOK /\ CurrentTypes)'
  BY <1>1, <1>2, <1>3 DEF TypeOK, K8sTypes, EC2Types, CacheTypes, ManagerTypes, ProcessTypes,
     WantTypes, LoopTypes, CurrentTypes, BoundTypes
<1> QED BY <1>2, <1>4 DEF TypeInv

-----------------------------------------------------------------------------
(* The inductive invariant.                                                    *)

\* What is kept of a security group agrees with its labelled rules.
Accurate(s, i) == i.managed = rules[s] /\ i.foreign \subseteq foreign[s]

CacheInv ==
  \A s \in exists :
    /\ rules[s] \cap foreign[s] = {}
    /\ sgInfoCache[s] # NoEntry => Accurate(s, sgInfoCache[s])
    /\ \A t \in TGB : pc[t] = "save" /\ s \in DOMAIN seen[t] => Accurate(s, seen[t][s])
    /\ \A t \in TGB : pc[t] = "apply" /\ current = s => Accurate(s, info)

\* The reconcile of a binding that did not change since it began has its needs,
\* and so has one whose binding is served already.
BindingInv ==
  \A t \in TGB :
    /\ sgOf[t] \subseteq exists
    /\ tgb[t] = "absent" => net[t] = NoNetworking /\ sgOf[t] = {}
    /\ served[t] # Nothing =>
         /\ tgb[t] = "live" /\ served[t] = Needs(t)
         /\ Permissions[t] \in {NoEntry, served[t]}
    /\ pc[t] # "idle" /\ (~queued[t] \/ served[t] # Nothing) =>
         IF cleanup[t] THEN tgb[t] = "deleting" /\ want[t] = Nothing
         ELSE tgb[t] = "live" /\ want[t] = Needs(t)
    /\ mutex = t => Permissions[t] \in {NoEntry, want[t]}

\* The reconcile that holds the mutex keeps what is served open, if it may
\* revoke at all, and opens what its own binding needs.
HolderInv ==
  /\ mutex = NoTGB => ~gc
  /\ \A t \in TGB : mutex = t /\ ~restricted =>
       /\ computedForAllTGBs =>
            \A u \in TGB : \A s \in served[u].sgs : served[u].perms \subseteq desired[s]
       /\ ~queued[t] /\ ~cleanup[t] =>
            \A s \in want[t].sgs :
              /\ want[t].perms \subseteq desired[s]
              /\ failed \/ (s \in todo /\ ~gc) \/ want[t].perms \subseteq rules[s] \cup foreign[s]

OpenInv == CacheInv /\ BindingInv /\ HolderInv /\ StaysOpen

-----------------------------------------------------------------------------
(* The cache tells the truth, and other people's rules survive.               *)

LEMMA CacheInit == Init => CacheInv
BY DEF Init, CacheInv

\* The permissions that the holder revokes and grants leave info accurate.
LEMMA AppliedAccurate ==
  ASSUME TypeInv, CacheInv, NEW t \in TGB, RevokeSGIngress(t) \/ AuthorizeSGIngress(t)
  PROVE  /\ current \in exists /\ UNCHANGED <<exists, foreign, current, pc, seen>>
         /\ MayChange /\ sgInfoCache' = ClearCache(current)
         /\ \E P \in SUBSET Perm :
              /\ rules' = [rules EXCEPT ![current] = P]
              /\ P \cap foreign[current] = {}
              /\ info'.managed = P /\ info'.foreign = info.foreign
<1> EC2Types /\ CurrentTypes /\ LoopTypes
  BY TypeParts DEF TypeInv
<1> current \in exists /\ current \in SG /\ pc[t] = "apply"
  BY DEF RevokeSGIngress, AuthorizeSGIngress, EC2Types
<1>   info.managed = rules[current] /\ rules[current] \cap foreign[current] = {}
      /\ rules[current] \subseteq Perm /\ foreign[current] \subseteq Perm
  BY DEF CacheInv, Accurate, EC2Types
<1>3. CASE RevokeSGIngress(t)
  <2> DEFINE R == PermissionsToRevoke
  <2>1. R \subseteq rules[current]
    BY DEF PermissionsToRevoke
  <2>   /\ rules' = [rules EXCEPT ![current] = @ \ R]
        /\ foreign' = [foreign EXCEPT ![current] = @ \ R]
        /\ info' = [info EXCEPT !.managed = @ \ R]
        /\ sgInfoCache' = ClearCache(current)
        /\ UNCHANGED <<exists, current, pc, seen>> /\ MayChange
    BY <1>3 DEF RevokeSGIngress, Stay
  <2> HIDE DEF R
  <2>3. foreign[current] \ R = foreign[current]
    BY <2>1
  <2>4. foreign' = foreign
    BY <2>3 DEF EC2Types
  <2>5. info'.managed = rules[current] \ R /\ info'.foreign = info.foreign
    BY DEF CurrentTypes, Info
  <2>6. (rules[current] \ R) \in SUBSET Perm /\ (rules[current] \ R) \cap foreign[current] = {}
    OBVIOUS
  <2>7. rules' = [rules EXCEPT ![current] = rules[current] \ R]
    OBVIOUS
  <2> QED BY <2>4, <2>5, <2>6, <2>7
<1>4. CASE AuthorizeSGIngress(t)
  <2> DEFINE G == PermissionsToGrant
  <2>1. G \subseteq Perm /\ G \cap foreign[current] = {}
    BY <1>4 DEF PermissionsToGrant, AuthorizeSGIngress, LoopTypes
  <2>   /\ rules' = [rules EXCEPT ![current] = @ \cup G]
        /\ info' = [info EXCEPT !.managed = @ \cup G]
        /\ sgInfoCache' = ClearCache(current)
        /\ UNCHANGED <<exists, foreign, current, pc, seen>> /\ MayChange
    BY <1>4 DEF AuthorizeSGIngress, Stay
  <2> HIDE DEF G
  <2>3. info'.managed = rules[current] \cup G /\ info'.foreign = info.foreign
    BY DEF CurrentTypes, Info
  <2>4. (rules[current] \cup G) \in SUBSET Perm /\ (rules[current] \cup G) \cap foreign[current] = {}
    BY <2>1
  <2>5. rules' = [rules EXCEPT ![current] = rules[current] \cup G]
    OBVIOUS
  <2> QED BY <2>3, <2>4, <2>5
<1> QED BY <1>3, <1>4

LEMMA CacheKept ==
  ASSUME TypeInv, CacheInv, Step, ~LookupRace
  PROVE  CacheInv'
<1> EC2Types /\ CurrentTypes /\ CacheTypes /\ ProcessTypes
  BY TypeParts DEF TypeInv
<1>1. CASE \E d \in SG : DeleteSG(d)
  <2>1. PICK d \in SG : DeleteSG(d)
    BY <1>1
  <2>2. /\ exists' = exists \ {d} /\ UNCHANGED <<sgInfoCache, pc, seen, currentVars>>
        /\ \A s \in exists' : s \in exists /\ rules'[s] = rules[s] /\ foreign'[s] = foreign[s]
    BY <2>1 DEF DeleteSG, EC2Types
  <2> QED BY SMT, <2>2 DEF CacheInv, Accurate, currentVars
<1>2. CASE \E s \in SG : \E p \in Others : AddForeign(s, p)
  <2>1. PICK d \in SG, p \in Others : AddForeign(d, p)
    BY <1>2
  <2>2. /\ UNCHANGED <<exists, rules, sgInfoCache, pc, seen, currentVars>>
        /\ \A s \in exists : /\ foreign[s] \subseteq foreign'[s]
                             /\ foreign'[s] \subseteq foreign[s] \cup {p}
                             /\ s # d => foreign'[s] = foreign[s]
        /\ p \notin rules[d]
    BY <2>1 DEF AddForeign, EC2Types
  <2> QED BY SMT, <2>2 DEF CacheInv, Accurate, currentVars
<1>3. CASE \E t \in TGB : RevokeSGIngress(t) \/ AuthorizeSGIngress(t)
  <2>1. PICK t \in TGB : RevokeSGIngress(t) \/ AuthorizeSGIngress(t)
    BY <1>3
  <2>   /\ current \in exists /\ UNCHANGED <<exists, foreign, current, pc, seen>>
        /\ MayChange /\ sgInfoCache' = ClearCache(current)
    BY <2>1, AppliedAccurate
  <2>3. PICK P \in SUBSET Perm :
              /\ rules' = [rules EXCEPT ![current] = P]
              /\ P \cap foreign[current] = {}
              /\ info'.managed = P /\ info'.foreign = info.foreign
    BY <2>1, AppliedAccurate
  <2>4. \A u \in TGB : pc[u] # "save"
    BY DEF MayChange
  <2>5. ASSUME NEW s \in exists
        PROVE  /\ rules'[s] \cap foreign[s] = {}
               /\ sgInfoCache'[s] # NoEntry => Accurate(s, sgInfoCache[s])' 
               /\ \A u \in TGB : pc[u] = "apply" /\ current = s =>
                    info'.managed = rules'[s] /\ info'.foreign \subseteq foreign[s]
    <3>1. CASE s = current
      BY <2>3, <3>1 DEF CacheInv, Accurate, ClearCache, EC2Types, CacheTypes
    <3>2. CASE s # current
      BY <2>3, <3>2 DEF CacheInv, Accurate, ClearCache, EC2Types, CacheTypes
    <3> QED BY <3>1, <3>2
  <2> QED BY <2>4, <2>5 DEF CacheInv, Accurate
<1>4. CASE UNCHANGED ec2Vars
  <2>0. UNCHANGED <<exists, rules, foreign>>
    BY <1>4 DEF ec2Vars
  <2> \A s \in SG : InfoOf(s).managed = rules[s] /\ InfoOf(s).foreign = foreign[s]
    BY DEF InfoOf
  <2>2. ASSUME NEW s \in exists, sgInfoCache'[s] # NoEntry
        PROVE  sgInfoCache'[s].managed = rules[s] /\ sgInfoCache'[s].foreign \subseteq foreign[s]
    <3> s \in SG /\ (sgInfoCache[s] # NoEntry => Accurate(s, sgInfoCache[s]))
      BY DEF EC2Types, CacheInv
    <3>1. CASE UNCHANGED sgInfoCache
      BY <2>2, <3>1 DEF Accurate
    <3>2. CASE Restart
      BY <2>2, <3>2 DEF Restart
    <3>3. CASE \E x \in SG : Expire(x)
      BY <2>2, <3>3 DEF Expire, Accurate, CacheTypes
    <3>4. CASE \E t \in TGB : SaveLookup(t)
      BY SMT, <2>2, <3>4 DEF SaveLookup, Accurate, CacheInv
    <3>5. CASE \E t \in TGB : \E x \in SG : FetchSG(t, x)
      <4>1. PICK t \in TGB, x \in SG : FetchSG(t, x)
        BY <3>5
      <4>2. sgInfoCache' = [sgInfoCache EXCEPT ![x] = info']
            /\ info' = IF sgInfoCache[x] # NoEntry THEN sgInfoCache[x] ELSE InfoOf(x)
        BY <4>1 DEF FetchSG
      <4>3. CASE s = x
        BY <4>2, <4>3 DEF Accurate, CacheTypes
      <4>4. CASE s # x
        BY <2>2, <4>2, <4>4 DEF Accurate, CacheTypes
      <4> QED BY <4>3, <4>4
    <3>6. CASE \E t \in TGB : Reload(t)
      BY <2>2, <3>6 DEF Reload, Accurate, CacheTypes
    <3>7. CASE \E t \in TGB : GC(t)
      BY <2>2, <3>7 DEF GC, Accurate, CacheTypes
    <3>8. CASE \E t \in TGB : RevokeSGIngress(t) \/ AuthorizeSGIngress(t)
      <4>1. sgInfoCache' = ClearCache(current)
        BY <3>8 DEF RevokeSGIngress, AuthorizeSGIngress
      <4> QED BY <2>2, <4>1 DEF ClearCache, Accurate, CacheTypes
    <3> QED BY <3>1, <3>2, <3>3, <3>4, <3>5, <3>6, <3>7, <3>8, CacheFrame
  <2>3. ASSUME NEW s \in exists, NEW t \in TGB, pc'[t] = "save", s \in DOMAIN seen'[t]
        PROVE  seen'[t][s].managed = rules[s] /\ seen'[t][s].foreign \subseteq foreign[s]
    <3>1. CASE pc[t] = "save" /\ seen'[t] = seen[t]
      BY SMT, <2>3, <3>1 DEF CacheInv, Accurate
    <3>2. CASE \E M \in SUBSET exists : seen'[t] = [x \in M |-> InfoOf(x)]
      <4>1. PICK M \in SUBSET exists : seen'[t] = [x \in M |-> InfoOf(x)]
        BY <3>2
      <4>2. seen'[t][s] = InfoOf(s) /\ s \in SG
        BY <2>3, <4>1 DEF EC2Types
      <4> QED BY <4>2
    <3> QED BY <2>3, <3>1, <3>2, SavePending
  <2>4. ASSUME NEW t \in TGB, pc'[t] = "apply", current' \in exists
        PROVE  info'.managed = rules[current'] /\ info'.foreign \subseteq foreign[current']
    <3>0. current' \in SG /\ ProcessTypes' /\ CurrentTypes'
      BY <2>4, ProcessTypesKept, CurrentTypesKept DEF EC2Types
    <3>1. CASE UNCHANGED currentVars
      <4>1. UNCHANGED <<current, info>>
        BY <3>1 DEF currentVars
      <4>2. CASE \E u \in TGB : \E x \in SG : FetchSG(u, x)
        <5>1. PICK u \in TGB, x \in SG : FetchSG(u, x)
          BY <4>2
        <5>2. /\ current' = x
              /\ info' = IF sgInfoCache[x] # NoEntry THEN sgInfoCache[x] ELSE InfoOf(x)
          BY <5>1 DEF FetchSG
        <5> QED BY <2>4, <5>2 DEF CacheInv, Accurate
      <4>3. CASE pc[t] = "apply"
        BY <2>4, <4>1, <4>3 DEF CacheInv, Accurate
      <4>4. CASE \E u \in TGB : Start(u) \/ StartCleanup(u) \/ Lookup(u) \/ SaveLookup(u) \/ Enter(u) \/ EnterFails(u)
        <5>1. pc[t] = "apply"
          BY <2>4, <4>4
             DEF Start, StartCleanup, Lookup, SaveLookup, Enter, EnterFails, ProcessTypes
        <5> QED BY <4>3, <5>1
      <4>5. CASE \E u \in TGB : SGDone(u) \/ \E x : SkipSG(u, x) \/ ForgetSG(u, x)
        <5>1. pc[t] = "apply"
          BY <2>4, <4>5 DEF SGDone, SkipSG, ForgetSG, NextSG, ProcessTypes
        <5> QED BY <4>3, <5>1
      <4>6. CASE \E u \in TGB : Quit(u) \/ Finish(u)
        <5>1. pc[t] = "apply"
          BY <2>4, <4>6 DEF Quit, Finish, Leave, ProcessTypes
        <5> QED BY <4>3, <5>1
      <4>7. ~Restart
        BY <2>4 DEF Restart
      <4> QED BY <2>4, <4>2, <4>3, <4>4, <4>5, <4>6, <4>7, ProcessFrame
    <3>2. CASE \E u \in TGB : \E x \in SG : FetchSG(u, x)
        <5>1. PICK u \in TGB, x \in SG : FetchSG(u, x)
          BY <3>2
        <5>2. /\ current' = x
              /\ info' = IF sgInfoCache[x] # NoEntry THEN sgInfoCache[x] ELSE InfoOf(x)
          BY <5>1 DEF FetchSG
        <5> QED BY <2>4, <5>2 DEF CacheInv, Accurate
    <3>3. CASE \E u \in TGB : Reload(u)
      BY <2>4, <3>0, <3>3 DEF Reload
    <3>4. CASE \E u \in TGB : SGDone(u) \/ \E x : SkipSG(u, x) \/ ForgetSG(u, x)
      BY SMT, <2>4, <3>4 DEF SGDone, SkipSG, ForgetSG, NextSG, Working, ProcessTypes
    <3>5. CASE \E u \in TGB : Quit(u) \/ Finish(u)
      BY SMT, <2>4, <3>5 DEF Quit, Finish, Finished, Leave, Working, ProcessTypes
    <3>6. CASE \E u \in TGB : RevokeSGIngress(u) \/ AuthorizeSGIngress(u)
      <4>1. PICK u \in TGB : RevokeSGIngress(u) \/ AuthorizeSGIngress(u)
        BY <3>6
      <4>2. PICK P \in SUBSET Perm :
              /\ rules' = [rules EXCEPT ![current] = P]
              /\ info'.managed = P /\ info'.foreign = info.foreign
              /\ UNCHANGED <<current, pc>>
        BY <4>1, AppliedAccurate
      <4> QED BY SMT, <2>0, <2>4, <4>2 DEF CacheInv, Accurate, EC2Types
    <3> QED BY <2>4, <3>1, <3>2, <3>3, <3>4, <3>5, <3>6, CurrentFrame DEF Restart
  <2> QED BY SMT, <2>0, <2>2, <2>3, <2>4 DEF CacheInv, Accurate
<1> QED BY <1>1, <1>2, <1>3, <1>4, EC2Frame

LEMMA ForeignStep ==
  ASSUME TypeInv, CacheInv, Step, NEW s \in exists'
  PROVE  foreign[s] \subseteq foreign'[s]
<1>0. EC2Types
  BY TypeParts DEF TypeInv
<1>1. CASE \E d \in SG : DeleteSG(d)
  BY <1>0, <1>1 DEF DeleteSG, EC2Types
<1>2. CASE \E d \in SG : \E p \in Others : AddForeign(d, p)
  BY <1>0, <1>2 DEF AddForeign, EC2Types
<1>3. CASE \E t \in TGB : RevokeSGIngress(t) \/ AuthorizeSGIngress(t)
  BY <1>3, AppliedAccurate
<1>4. CASE UNCHANGED ec2Vars
  BY <1>4 DEF ec2Vars
<1> QED BY <1>1, <1>2, <1>3, <1>4, EC2Frame

\* "Permissions that are not managed shouldn't be altered or deleted":
\* RevokeSGIngress and AuthorizeSGIngress, told apart from other people's rules by
\* the label and by a cache that agrees with EC2, leave those where they are.
THEOREM ForeignRulesKept ==
  ASSUME ~LookupRace
  PROVE  Spec => ForeignKept
<1>1. Init => TypeInv /\ CacheInv
  BY TypeInit, CacheInit
<1>2. (TypeInv /\ CacheInv) /\ [Next]_vars => (TypeInv /\ CacheInv)'
  BY Steps, TypeKept, CacheKept
<1>3. (TypeInv /\ CacheInv) /\ [Next]_vars => [\A s \in exists' : foreign[s] \subseteq foreign'[s]]_vars
  BY Steps, ForeignStep
<1> QED BY <1>1, <1>2, <1>3, PTL DEF Spec, ForeignKept

-----------------------------------------------------------------------------
(* What a step does to a binding and to its reconcile.                       *)

Same(t) == tgb'[t] = tgb[t] /\ net'[t] = net[t] /\ sgOf'[t] = sgOf[t]

LEMMA SameNeeds ==
  ASSUME NEW t \in TGB, Same(t)
  PROVE  Needs(t)' = Needs(t)
BY DEF Same, Needs

\* A binding changes when a user says so, and is gone after its cleanup.
LEMMA BindingSteps ==
  ASSUME TypeInv, Step, NEW t \in TGB
  PROVE  \/ Same(t)
         \/ Changed(t) /\ (DeleteTGB(t) \/ \E x \in Shapes : SetTGB(t, x[1], x[2]))
         \/ Finish(t) /\ cleanup[t] /\ ~failed /\ Removed(t)
<1>0. K8sTypes
  BY TypeParts DEF TypeInv
<1>1. CASE UNCHANGED k8sVars
  BY <1>1 DEF k8sVars, Same
<1>2. CASE \E u \in TGB : Start(u)
  BY <1>2 DEF Start, Same
<1>3. CASE \E u \in TGB : DeleteTGB(u) \/ \E x \in Shapes : SetTGB(u, x[1], x[2])
  <2>1. PICK u \in TGB : DeleteTGB(u) \/ \E x \in Shapes : SetTGB(u, x[1], x[2])
    BY <1>3
  <2>2. CASE u = t
    BY <2>1, <2>2 DEF DeleteTGB, SetTGB
  <2>3. CASE u # t
    BY <1>0, <2>1, <2>3 DEF DeleteTGB, SetTGB, Removed, Same, K8sTypes
  <2> QED BY <2>2, <2>3
<1>4. CASE \E u \in TGB : Finish(u)
  <2>1. PICK u \in TGB : Finish(u)
    BY <1>4
  <2>2. UNCHANGED k8sVars \/ (cleanup[u] /\ ~failed /\ Removed(u))
    BY <2>1 DEF Finish
  <2>3. CASE u # t
    BY <1>0, <1>1, <2>2, <2>3 DEF Removed, Same, K8sTypes
  <2> QED BY <1>1, <2>1, <2>2, <2>3
<1> QED BY <1>1, <1>2, <1>3, <1>4, K8sFrame

\* A reconcile that goes on keeps what it wants.
LEMMA WorkKept ==
  ASSUME TypeInv, Step, NEW t \in TGB, pc'[t] # "idle"
  PROVE  \/ Start(t) \/ StartCleanup(t)
         \/ /\ pc[t] # "idle" /\ want'[t] = want[t] /\ cleanup'[t] = cleanup[t]
            /\ queued[t] => queued'[t]
<1> SUFFICES ASSUME ~Start(t), ~StartCleanup(t)
             PROVE  /\ pc[t] # "idle" /\ want'[t] = want[t] /\ cleanup'[t] = cleanup[t]
                    /\ queued[t] => queued'[t]
  OBVIOUS
<1> ProcessTypes /\ WantTypes /\ queued \in [TGB -> BOOLEAN]
  BY TypeParts DEF TypeInv
<1> ~Restart
  BY DEF Restart
<1> ~Quit(t) /\ ~Finish(t)
  BY DEF Quit, Finish, Leave, ProcessTypes
<1>3. want'[t] = want[t] /\ cleanup'[t] = cleanup[t]
  <2>1. CASE \E u \in TGB \ {t} : Start(u) \/ StartCleanup(u)
    BY <2>1 DEF Start, StartCleanup, WantTypes
  <2>2. CASE \E u \in TGB \ {t} : Quit(u) \/ Finish(u)
    BY <2>2 DEF Quit, Finish, Leave, WantTypes
  <2>3. CASE UNCHANGED <<want, cleanup>>
    BY <2>3
  <2> QED BY <2>1, <2>2, <2>3, WantFrame
<1>4. pc[t] # "idle"
  <2>1. CASE \E u \in TGB \ {t} : Start(u) \/ StartCleanup(u)
    BY <2>1 DEF Start, StartCleanup, ProcessTypes
  <2>2. CASE \E u \in TGB : Lookup(u) \/ SaveLookup(u) \/ Enter(u) \/ EnterFails(u)
    BY <2>2 DEF Lookup, SaveLookup, Enter, EnterFails, ProcessTypes
  <2>3. CASE \E u \in TGB : (\E s \in SG : FetchSG(u, s)) \/ SGDone(u) \/ \E s : SkipSG(u, s) \/ ForgetSG(u, s)
    BY <2>3 DEF FetchSG, SGDone, SkipSG, ForgetSG, NextSG, Working, ProcessTypes
  <2>4. CASE \E u \in TGB \ {t} : Quit(u) \/ Finish(u)
    BY <2>4 DEF Quit, Finish, Leave, ProcessTypes
  <2>5. CASE UNCHANGED <<pc, mutex>>
    BY <2>5
  <2> QED BY <2>1, <2>2, <2>3, <2>4, <2>5, ProcessFrame
<1>5. ASSUME queued[t] PROVE queued'[t]
  <2>1. CASE \E u \in TGB : StartAbsent(u)
    BY <1>4, <1>5, <2>1 DEF StartAbsent
  <2>2. CASE \E u \in TGB \ {t} : Start(u) \/ StartCleanup(u)
    BY <1>5, <2>2 DEF Start, StartCleanup
  <2>3. CASE \E u \in TGB : Lookup(u) \/ EnterFails(u) \/ DeleteTGB(u) \/ \E x \in Shapes : SetTGB(u, x[1], x[2])
    BY <1>5, <2>3 DEF Lookup, EnterFails, DeleteTGB, SetTGB, Changed
  <2>4. CASE \E u \in TGB \ {t} : Quit(u) \/ Finish(u)
    BY <1>5, <2>4 DEF Quit, Finish, Leave
  <2>5. CASE UNCHANGED queued
    BY <1>5, <2>5
  <2> QED BY <2>1, <2>2, <2>3, <2>4, <2>5, QueuedFrame
<1> QED BY <1>3, <1>4, <1>5

LEMMA ServedSteps ==
  ASSUME TypeInv, Step, NEW t \in TGB
  PROVE  \/ served'[t] = served[t]
         \/ served'[t] = Nothing
         \/ Finish(t) /\ ~failed /\ ~cleanup[t] /\ ~queued[t] /\ served'[t] = want[t] /\ UNCHANGED k8sVars
<1>0. served \in [TGB -> Entry]
  BY TypeParts DEF TypeInv
<1>1. CASE \E u \in TGB : DeleteTGB(u) \/ \E x \in Shapes : SetTGB(u, x[1], x[2])
  BY <1>0, <1>1 DEF DeleteTGB, SetTGB, Changed
<1>2. CASE \E u \in TGB : Finish(u)
  BY <1>0, <1>2 DEF Finish
<1> QED BY <1>1, <1>2, ServedFrame

LEMMA PermissionsSteps ==
  ASSUME TypeInv, Step, NEW t \in TGB
  PROVE  \/ Permissions'[t] \in {Permissions[t], NoEntry}
         \/ Permissions'[t] = want[t] /\ pc[t] = "lock" /\ mutex = NoTGB
<1>0. ManagerTypes
  BY TypeParts DEF TypeInv
<1>1. CASE Restart
  BY <1>1 DEF Restart, Permissions
<1>2. CASE \E u \in TGB : Enter(u)
  BY SMT, <1>0, <1>2 DEF Enter, Recorded, Consolidated, Permissions, ManagerTypes
<1>3. CASE \E u \in TGB : EnterFails(u)
  BY <1>0, <1>3 DEF EnterFails, Recorded, Permissions, ManagerTypes
<1> QED BY <1>1, <1>2, <1>3, PermissionsFrame DEF Permissions

\* The mutex is taken, kept or released.
LEMMA MutexSteps ==
  ASSUME TypeInv, Step, NEW t \in TGB, mutex' = t
  PROVE  Enter(t) \/ (mutex = t /\ UNCHANGED <<ingressPermissionsPerSGByTGB, desired, used, computedForAllTGBs>>)
<1> ProcessTypes /\ t # NoTGB
  BY TypeParts, DistinctAssumption DEF TypeInv
<1>1. ~Restart
  BY DEF Restart
<1>2. \A u \in TGB : ~Quit(u) /\ ~Finish(u)
  BY DEF Quit, Finish, Leave
<1>3. CASE \E u \in TGB : Enter(u)
  BY SMT, <1>3 DEF Enter
<1>4. CASE ~ \E u \in TGB : Enter(u)
  <2>1. mutex = t
    <3>1. CASE \E u \in TGB : Start(u) \/ StartCleanup(u) \/ Lookup(u) \/ SaveLookup(u) \/ EnterFails(u)
      BY <3>1 DEF Start, StartCleanup, Lookup, SaveLookup, EnterFails
    <3>2. CASE \E u \in TGB : (\E s \in SG : FetchSG(u, s)) \/ SGDone(u) \/ \E s : SkipSG(u, s) \/ ForgetSG(u, s)
      BY <3>2 DEF FetchSG, Stay, SGDone, SkipSG, ForgetSG, NextSG
    <3> QED BY <1>1, <1>2, <1>4, <3>1, <3>2, ProcessFrame
  <2>2. \A u \in TGB : ~EnterFails(u)
    BY <2>1 DEF EnterFails
  <2> QED BY <1>1, <1>2, <1>4, <2>1, <2>2, PermissionsFrame, DesiredFrame
<1> QED BY <1>3, <1>4

-----------------------------------------------------------------------------
(* What has been opened stays open.                                           *)

LEMMA BindingInit == Init => BindingInv
<1> SUFFICES ASSUME Init, NEW t \in TGB
             PROVE  /\ sgOf[t] \subseteq exists
                    /\ tgb[t] = "absent" => net[t] = NoNetworking /\ sgOf[t] = {}
                    /\ served[t] = Nothing /\ pc[t] = "idle" /\ mutex # t
  BY DEF BindingInv
<1>1. sgOf[t] \subseteq SG /\ exists = SG
  BY TypeInit DEF Init, TypeInv, TypeOK
<1>2. tgb[t] = "absent" => net[t] = NoNetworking /\ sgOf[t] = {}
  BY DEF Init
<1>3. served[t] = Nothing /\ pc[t] = "idle" /\ mutex # t
  BY DistinctAssumption DEF Init
<1> QED BY <1>1, <1>2, <1>3

LEMMA BindingKept ==
  ASSUME TypeInv, BindingInv, Step
  PROVE  BindingInv'
<1> SUFFICES ASSUME NEW t \in TGB
             PROVE  (/\ sgOf[t] \subseteq exists
                     /\ tgb[t] = "absent" => net[t] = NoNetworking /\ sgOf[t] = {}
                     /\ served[t] # Nothing =>
                          /\ tgb[t] = "live" /\ served[t] = Needs(t)
                          /\ Permissions[t] \in {NoEntry, served[t]}
                     /\ pc[t] # "idle" /\ (~queued[t] \/ served[t] # Nothing) =>
                          IF cleanup[t] THEN tgb[t] = "deleting" /\ want[t] = Nothing
                          ELSE tgb[t] = "live" /\ want[t] = Needs(t)
                     /\ mutex = t => Permissions[t] \in {NoEntry, want[t]})'
  BY DEF BindingInv
<1>   ProcessTypes /\ K8sTypes /\ EC2Types /\ WantTypes /\ ManagerTypes /\ queued \in [TGB -> BOOLEAN]
      /\ served \in [TGB -> Entry]
  BY TypeParts DEF TypeInv
<1>   /\ sgOf[t] \subseteq exists
      /\ tgb[t] = "absent" => net[t] = NoNetworking /\ sgOf[t] = {}
      /\ served[t] # Nothing =>
           /\ tgb[t] = "live" /\ served[t] = Needs(t)
           /\ Permissions[t] \in {NoEntry, served[t]}
      /\ pc[t] # "idle" /\ (~queued[t] \/ served[t] # Nothing) =>
           IF cleanup[t] THEN tgb[t] = "deleting" /\ want[t] = Nothing
           ELSE tgb[t] = "live" /\ want[t] = Needs(t)
      /\ mutex = t => Permissions[t] \in {NoEntry, want[t]}
  BY DEF BindingInv
<1>2. sgOf'[t] \subseteq exists' /\ (tgb'[t] = "absent" => net'[t] = NoNetworking /\ sgOf'[t] = {})
  <2>1. CASE Same(t)
    <3>1. CASE \E d \in SG : DeleteSG(d)
      BY <2>1, <3>1 DEF DeleteSG, Same
    <3>2. CASE exists' = exists
      BY <2>1, <3>2 DEF Same
    <3> QED BY <3>1, <3>2, EC2Frame DEF AddForeign, RevokeSGIngress, AuthorizeSGIngress, ec2Vars
  <2>2. CASE Changed(t) /\ (DeleteTGB(t) \/ \E x \in Shapes : SetTGB(t, x[1], x[2]))
    BY <2>2 DEF Changed, DeleteTGB, SetTGB, Removed, K8sTypes, ec2Vars
  <2>3. CASE Finish(t) /\ Removed(t)
    BY <2>3 DEF Removed, K8sTypes
  <2> QED BY <2>1, <2>2, <2>3, BindingSteps
<1>3. ASSUME served'[t] # Nothing
      PROVE  /\ tgb'[t] = "live" /\ served'[t] = Needs(t)'
             /\ Permissions'[t] \in {NoEntry, served'[t]}
  <2>1. CASE served'[t] = served[t]
    <3>1. ~Changed(t)
      BY <1>3 DEF Changed
    <3>2. ~(Finish(t) /\ cleanup[t])
      BY <1>3, <2>1 DEF Finish, Finished
    <3>3. Same(t)
      BY <3>1, <3>2, BindingSteps
    <3>4. Permissions'[t] \in {NoEntry, served[t]}
      BY <1>3, <2>1, PermissionsSteps
    <3> QED BY <1>3, <2>1, <3>3, <3>4, SameNeeds DEF Same
  <2>2. CASE Finish(t) /\ ~failed /\ ~cleanup[t] /\ ~queued[t] /\ served'[t] = want[t] /\ UNCHANGED k8sVars
    <3>1. pc[t] = "sync" /\ mutex = t /\ Permissions' = Permissions
      BY <2>2 DEF Finish, Finished, managerVars, ProcessTypes, Permissions
    <3>2. Same(t)
      BY <2>2 DEF k8sVars, Same
    <3> QED BY <2>2, <3>1, <3>2, SameNeeds DEF Same
  <2> QED BY <1>3, <2>1, <2>2, ServedSteps
<1>4. ASSUME pc'[t] # "idle", ~queued'[t] \/ served'[t] # Nothing
      PROVE  IF cleanup'[t] THEN tgb'[t] = "deleting" /\ want'[t] = Nothing
             ELSE tgb'[t] = "live" /\ want'[t] = Needs(t)'
  <2>1. CASE Start(t)
    <3>1. Same(t) /\ want'[t] = Needs(t) /\ tgb[t] = "live" /\ ~cleanup'[t]
      BY <2>1 DEF Start, Same, WantTypes
    <3> QED BY <3>1, SameNeeds DEF Same
  <2>2. CASE StartCleanup(t)
    BY <2>2 DEF StartCleanup, k8sVars, WantTypes
  <2>3. CASE /\ pc[t] # "idle" /\ want'[t] = want[t] /\ cleanup'[t] = cleanup[t]
             /\ queued[t] => queued'[t]
    <3>1. ~Changed(t) /\ ~Finish(t)
      BY <1>4 DEF Changed, Finish, Leave, ProcessTypes
    <3>2. Same(t)
      BY <3>1, BindingSteps
    <3>3. ~queued[t] \/ served[t] # Nothing
      BY <1>4, <2>3, <3>1, ServedSteps
    <3> QED BY <2>3, <3>2, <3>3, SameNeeds DEF Same
  <2> QED BY <1>4, <2>1, <2>2, <2>3, WorkKept
<1>5. ASSUME mutex' = t
      PROVE  Permissions'[t] \in {NoEntry, want'[t]}
  <2>1. CASE Enter(t)
    BY <2>1 DEF Enter, Recorded, Consolidated, Permissions, ManagerTypes
  <2>2. CASE mutex = t /\ UNCHANGED <<ingressPermissionsPerSGByTGB, desired, used, computedForAllTGBs>>
    <3>1. pc'[t] # "idle" /\ pc[t] # "idle"
      BY <1>5, <2>2, ProcessTypesKept DEF ProcessTypes
    <3>2. want'[t] = want[t]
      BY <3>1, WorkKept DEF Start, StartCleanup
    <3> QED BY <2>2, <3>2 DEF Permissions
  <2> QED BY <1>5, <2>1, <2>2, MutexSteps
<1> QED BY <1>2, <1>3, <1>4, <1>5

\* The security groups that a binding needs are not deleted under it.
LEMMA NeededSG ==
  ASSUME TypeInv, BindingInv, NEW t \in TGB, tgb[t] = "live", NEW s \in Needs(t).sgs
  PROVE  s \in exists /\ s \in SG /\ ~DeleteSG(s)
<1>1. s \in sgOf[t]
  BY DEF Needs, Nothing
<1> QED BY <1>1 DEF DeleteSG, BindingInv, TypeInv, TypeOK

\* Rules go away when they are not desired, and with their security group.
LEMMA OpenKept ==
  ASSUME TypeInv, CacheInv, Step, NEW s \in SG, NEW P, P \subseteq rules[s] \cup foreign[s],
         ~DeleteSG(s), mutex # NoTGB /\ computedForAllTGBs => P \subseteq desired[s]
  PROVE  P \subseteq rules'[s] \cup foreign'[s]
<1> EC2Types /\ CurrentTypes /\ ProcessTypes
  BY TypeParts DEF TypeInv
<1>1. CASE \E d \in SG : DeleteSG(d)
  <2>1. PICK d \in SG : DeleteSG(d)
    BY <1>1
  <2>2. s # d
    BY <2>1
  <2> QED BY <2>1, <2>2 DEF DeleteSG, EC2Types
<1>2. CASE \E d \in SG : \E p \in Others : AddForeign(d, p)
  BY <1>2 DEF AddForeign, EC2Types
<1>3. CASE \E t \in TGB : AuthorizeSGIngress(t)
  BY <1>3 DEF AuthorizeSGIngress, EC2Types
<1>4. CASE \E t \in TGB : RevokeSGIngress(t)
  <2>1. PICK t \in TGB : RevokeSGIngress(t)
    BY <1>4
  <2>2. mutex # NoTGB /\ computedForAllTGBs
    BY <2>1, DistinctAssumption DEF RevokeSGIngress, PermissionsToRevoke, ProcessTypes
  <2>3. /\ rules' = [rules EXCEPT ![current] = @ \ PermissionsToRevoke]
        /\ foreign' = [foreign EXCEPT ![current] = @ \ PermissionsToRevoke]
    BY <2>1 DEF RevokeSGIngress
  <2>4. PermissionsToRevoke \cap desired[current] = {}
    BY DEF PermissionsToRevoke
  <2> HIDE DEF PermissionsToRevoke
  <2> QED BY <2>2, <2>3, <2>4 DEF EC2Types
<1>5. CASE UNCHANGED ec2Vars
  BY <1>5 DEF ec2Vars
<1> QED BY <1>1, <1>2, <1>3, <1>4, <1>5, EC2Frame

LEMMA HolderInit == Init => HolderInv /\ StaysOpen
BY SMT, DistinctAssumption DEF Init, HolderInv, StaysOpen, Nothing

\* What is served is in use, needed and not deleted.
LEMMA ServedSG ==
  ASSUME TypeInv, BindingInv, NEW t \in TGB, NEW s \in served[t].sgs
  PROVE  s \in SG /\ ~DeleteSG(s) /\ served[t] # Nothing
<1>1. served[t] # Nothing
  BY SMT DEF Nothing
<1>2. tgb[t] = "live" /\ s \in Needs(t).sgs
  BY <1>1 DEF BindingInv
<1> QED BY <1>1, <1>2, NeededSG

\* A holder that knows all needs starts with those of the served bindings.
LEMMA EnterDesired ==
  ASSUME TypeInv, BindingInv, NEW t \in TGB, Enter(t), ~restricted
  PROVE  /\ computedForAllTGBs' =>
              \A u \in TGB : \A s \in served'[u].sgs : served'[u].perms \subseteq desired'[s]
         /\ ~queued'[t] /\ ~cleanup'[t] =>
              \A s \in want'[t].sgs : want'[t].perms \subseteq desired'[s] /\ s \in todo'
<1>   Step /\ restricted \in BOOLEAN /\ UNCHANGED <<served, want, queued, cleanup, tgb, net, sgOf>>
      /\ pc[t] = "lock"
  BY DEF Step, Prepare, Enter, k8sVars, TypeInv, TypeOK
<1>   /\ Permissions' \in [TGB -> Entry \cup {NoEntry}]
      /\ Permissions' = Consolidated(Recorded(t))
      /\ desired' = [s \in SG |-> Aggregated(Permissions', s)]
      /\ todo' = UNION {Permissions'[u].sgs : u \in {v \in TGB : Permissions'[v] # NoEntry}}
      /\ computedForAllTGBs' = ComputedForAll(Permissions')
  BY EnterOK
<1>2. ASSUME NEW u \in TGB, NEW s \in SG, Permissions'[u] # NoEntry, s \in Permissions'[u].sgs
      PROVE  Permissions'[u].perms \subseteq desired'[s] /\ s \in todo'
  <2>1. Permissions'[u].perms \subseteq Aggregated(Permissions', s)
    BY <1>2, AggregatedOK
  <2> QED BY <1>2, <2>1
<1>3. ASSUME computedForAllTGBs', NEW u \in TGB, NEW s \in served[u].sgs
      PROVE  served[u].perms \subseteq desired'[s]
  <2> s \in SG /\ served[u] # Nothing
    BY ServedSG
  <2>2. tgb[u] = "live" /\ served[u] = Needs(u)
    BY DEF BindingInv
  <2>3. u \in WithNetworking
    BY <2>2 DEF WithNetworking, Needs
  <2>4. Permissions'[u] # NoEntry
    BY <1>3, <2>3 DEF ComputedForAll
  <2>5. Permissions'[u] = served[u]
    BY <2>4, BindingKept DEF BindingInv
  <2> QED BY <1>2, <2>4, <2>5
<1>4. ASSUME ~queued[t], ~cleanup[t], NEW s \in want[t].sgs
      PROVE  want[t].perms \subseteq desired'[s] /\ s \in todo'
  <2>1. tgb[t] = "live" /\ want[t] = Needs(t)
    BY <1>4 DEF BindingInv
  <2>2. t \in WithNetworking /\ s \in SG
    BY SMT, <1>4, <2>1, NeededSG DEF WithNetworking, Needs, Nothing
  <2>3. Permissions'[t] = want[t] /\ want[t] # NoEntry
    BY SMT, <2>2, DistinctAssumption DEF Consolidated, Recorded, TypeInv, TypeOK
  <2> QED BY <1>2, <1>4, <2>2, <2>3
<1> QED BY <1>3, <1>4

LEMMA GCKept ==
  ASSUME TypeInv, HolderInv, Step, mutex' = NoTGB
  PROVE  ~gc'
<1>0. ProcessTypes /\ LoopTypes
  BY TypeParts DEF TypeInv
<1>1. CASE Restart \/ \E t \in TGB : Quit(t) \/ Finish(t)
  BY <1>1 DEF Restart, Quit, Finish, Leave
<1>2. CASE ~(Restart \/ \E t \in TGB : Quit(t) \/ Finish(t))
  <2>1. mutex = NoTGB
    BY <1>2, DistinctAssumption, ProcessFrame
       DEF Start, StartCleanup, Lookup, SaveLookup, Enter, EnterFails,
       FetchSG, Stay, SGDone, SkipSG, ForgetSG, NextSG
  <2>2. \A t \in TGB : ~(pc[t] \in {"sync", "apply"})
    BY <1>0, <2>1, DistinctAssumption DEF ProcessTypes
  <2>3. \A t \in TGB : ~GC(t) /\ ~SGDone(t) /\ \A s : ~SkipSG(t, s) /\ ~ForgetSG(t, s)
    BY <2>2 DEF GC, SGDone, SkipSG, ForgetSG, Working
  <2>4. UNCHANGED gc
    BY <1>2, <2>3, TodoFrame DEF Enter
  <2> QED BY <2>1, <2>4 DEF HolderInv
<1> QED BY <1>1, <1>2

\* The end of a security group that the holder's binding needs.
LEMMA DoneOpen ==
  ASSUME TypeInv, CacheInv, NEW t \in TGB, SGDone(t), current \in exists
  PROVE  desired[current] \subseteq rules[current] \cup foreign[current]
<1>1. info.managed = rules[current] /\ info.foreign \subseteq foreign[current]
  BY DEF SGDone, CacheInv, Accurate
<1>2. PermissionsToGrant = {}
  BY DEF SGDone
<1> QED BY <1>1, <1>2 DEF PermissionsToGrant

LEMMA HolderKept ==
  ASSUME TypeInv, CacheInv, BindingInv, HolderInv, StaysOpen, Step
  PROVE  HolderInv'
<1> SUFFICES ASSUME NEW t \in TGB, mutex' = t, ~restricted'
             PROVE  (/\ computedForAllTGBs =>
                          \A u \in TGB : \A s \in served[u].sgs : served[u].perms \subseteq desired[s]
                     /\ ~queued[t] /\ ~cleanup[t] =>
                          \A s \in want[t].sgs :
                            /\ want[t].perms \subseteq desired[s]
                            /\ \/ failed \/ (s \in todo /\ ~gc)
                               \/ want[t].perms \subseteq rules[s] \cup foreign[s])'
  BY GCKept DEF HolderInv
<1> ProcessTypes /\ LoopTypes /\ ~restricted /\ t # NoTGB
  BY TypeParts, RestrictedFrame, DistinctAssumption DEF TypeInv
<1>1. CASE Enter(t)
  <2>1. ~gc'
    BY <1>1, DistinctAssumption DEF Enter, HolderInv
  <2> QED BY <1>1, <2>1, EnterDesired
<1>2. CASE mutex = t /\ UNCHANGED <<ingressPermissionsPerSGByTGB, desired, used, computedForAllTGBs>>
  <2> \A u \in TGB : ~Finish(u) /\ ~Quit(u)
    BY DEF Finish, Quit, Leave
  <2>2. \A u \in TGB : served'[u] = served[u] \/ served'[u] = Nothing
    BY ServedSteps
  <2>3. ASSUME computedForAllTGBs', NEW u \in TGB, NEW s \in served'[u].sgs
        PROVE  served'[u].perms \subseteq desired'[s]
    BY SMT, <1>2, <2>2, <2>3 DEF HolderInv, Nothing
  <2>4. ASSUME ~queued'[t], ~cleanup'[t], NEW s \in want'[t].sgs
        PROVE  /\ want'[t].perms \subseteq desired'[s]
               /\ failed' \/ (s \in todo' /\ ~gc') \/ want'[t].perms \subseteq rules'[s] \cup foreign'[s]
    <3> pc[t] \in {"sync", "apply"} /\ pc'[t] # "idle"
      BY <1>2, ProcessTypesKept DEF ProcessTypes
    <3> want'[t] = want[t] /\ ~cleanup[t] /\ ~queued[t]
      BY <2>4, WorkKept DEF Start, StartCleanup
    <3>3. tgb[t] = "live" /\ want[t] = Needs(t)
      BY DEF BindingInv
    <3>4. s \in exists /\ s \in SG /\ ~DeleteSG(s)
      BY <2>4, <3>3, NeededSG
    <3>   /\ want[t].perms \subseteq desired[s]
          /\ failed \/ (s \in todo /\ ~gc) \/ want[t].perms \subseteq rules[s] \cup foreign[s]
      BY <1>2, <2>4 DEF HolderInv
    <3>6. CASE want[t].perms \subseteq rules[s] \cup foreign[s]
      BY <1>2, <3>4, <3>6, OpenKept
    <3>7. CASE failed
      <4>1. failed'
        BY <3>7, FailedFrame DEF Restart, SkipSG
      <4> QED BY <1>2, <4>1
    <3>8. CASE s \in todo /\ ~gc
      <4>1. CASE UNCHANGED <<todo, gc>>
        BY <1>2, <3>8, <4>1
      <4>2. CASE \E u \in TGB : GC(u)
        BY <3>8, <4>2 DEF GC
      <4>3. CASE \E u \in TGB : \E x : SkipSG(u, x)
        BY <1>2, <4>3 DEF SkipSG
      <4>4. CASE \E u \in TGB : \E x : ForgetSG(u, x)
        BY <3>8, <4>4 DEF ForgetSG
      <4>5. CASE \E u \in TGB : SGDone(u)
        <5>1. PICK u \in TGB : SGDone(u)
          BY <4>5
        <5>2. todo' = todo \ {current} /\ UNCHANGED gc /\ UNCHANGED ec2Vars
          BY <5>1 DEF SGDone, NextSG
        <5>3. CASE s = current
          <6>1. desired[s] \subseteq rules[s] \cup foreign[s]
            BY <3>4, <5>1, <5>3, DoneOpen
          <6> QED BY <1>2, <5>2, <6>1 DEF ec2Vars
        <5>4. CASE s # current
          BY <1>2, <3>8, <5>2, <5>4
        <5> QED BY <5>3, <5>4
      <4>6. ~Restart /\ \A u \in TGB : ~Enter(u)
        BY <1>2 DEF Restart, Enter
      <4> QED BY <4>1, <4>2, <4>3, <4>4, <4>5, <4>6, TodoFrame
    <3> QED BY <3>6, <3>7, <3>8
  <2> QED BY <2>3, <2>4
<1> QED BY <1>1, <1>2, MutexSteps

LEMMA StaysOpenKept ==
  ASSUME TypeInv, CacheInv, BindingInv, HolderInv, StaysOpen, Step
  PROVE  StaysOpen'
<1> SUFFICES ASSUME ~restricted', NEW t \in TGB, NEW s \in served'[t].sgs
             PROVE  served'[t].perms \subseteq rules'[s] \cup foreign'[s]
  BY DEF StaysOpen
<1> ProcessTypes /\ ~restricted /\ served'[t] # Nothing
  BY SMT, TypeParts, RestrictedFrame DEF TypeInv, Nothing
<1>1. CASE served'[t] = served[t]
  <2>1. s \in SG /\ ~DeleteSG(s) /\ served[t].perms \subseteq rules[s] \cup foreign[s]
    BY <1>1, ServedSG DEF StaysOpen
  <2>2. mutex # NoTGB /\ computedForAllTGBs => served[t].perms \subseteq desired[s]
    BY <1>1 DEF HolderInv, ProcessTypes
  <2> QED BY <1>1, <2>1, <2>2, OpenKept
<1>2. CASE Finish(t) /\ ~failed /\ ~cleanup[t] /\ ~queued[t] /\ served'[t] = want[t] /\ UNCHANGED k8sVars
  <2>1. mutex = t /\ todo = {} /\ UNCHANGED ec2Vars
    BY <1>2 DEF Finish, Finished, EnvUnchanged, ProcessTypes
  <2> QED BY <1>2, <2>1 DEF HolderInv, ec2Vars
<1> QED BY <1>1, <1>2, ServedSteps

LEMMA OpenInit == Init => TypeInv /\ OpenInv
BY TypeInit, CacheInit, BindingInit, HolderInit DEF OpenInv

LEMMA OpenNext ==
  ASSUME TypeInv, OpenInv, Step, ~LookupRace
  PROVE  TypeInv' /\ OpenInv'
BY TypeKept, CacheKept, BindingKept, HolderKept, StaysOpenKept DEF OpenInv

\* What a successful reconcile of a binding has opened stays open until the
\* binding changes, through the reconciles of other bindings, failed calls,
\* expired caches and restarts: rules are revoked by a reconcile that knows the
\* needs of every binding, and only those it does not count among them.
THEOREM NeededStaysOpen ==
  ASSUME ~LookupRace
  PROVE  Spec => []StaysOpen
<1>1. TypeInv /\ OpenInv /\ [Next]_vars => (TypeInv /\ OpenInv)'
  BY Steps, OpenNext
<1>2. OpenInv => StaysOpen
  BY DEF OpenInv
<1> QED BY OpenInit, <1>1, <1>2, PTL DEF Spec

-----------------------------------------------------------------------------
(* For the rules at rest: what the manager knows of the bindings, and what the *)
(* reconcile that holds the mutex has done if no other binding waits.          *)

Known(t) ==
  IF tgb[t] = "live" /\ net[t] # NoNetworking THEN Permissions[t] = Needs(t)
  ELSE Permissions[t] \in {NoEntry, Nothing}

KnownInv ==
  \A t \in TGB :
    /\ tgb[t] = "absent" => pc[t] = "idle"
    /\ tgb[t] = "deleting" /\ pc[t] = "idle" => queued[t]
    /\ cleanup[t] => /\ tgb[t] = "deleting" /\ want[t] = Nothing
                     /\ pc[t] # "idle" => ~queued[t]
    /\ tgb[t] = "absent" \/ (~queued[t] /\ pc[t] \in {"idle", "sync", "apply"}) => Known(t)

LoopInv ==
  /\ trackedEndpointSGsInitialized => Tagged \cap exists \subseteq trackedEndpointSGs
  /\ mutex # NoTGB =>
       /\ desired = [s \in SG |-> Aggregated(Permissions, s)]
       /\ used = UNION {Permissions[u].sgs : u \in {v \in TGB : Permissions[v] # NoEntry}}
       /\ gc => computedForAllTGBs /\ trackedEndpointSGsInitialized /\ todo \cap used = {}

Rests(t) == pc[t] = "idle" /\ (queued[t] => tgb[t] = "absent")

Alone(t) == ~queued[t] /\ \A u \in TGB \ {t} : Rests(u)

Settled == \A t \in TGB : Rests(t)

AloneInv ==
  \A t \in TGB : mutex = t /\ Alone(t) =>
    /\ computedForAllTGBs
    /\ ~failed =>
         \A s \in exists :
           /\ s \in used /\ (gc \/ s \notin todo) =>
                rules[s] \subseteq desired[s] /\ desired[s] \subseteq rules[s] \cup foreign[s]
           /\ gc /\ s \in trackedEndpointSGs \ (used \cup todo) => rules[s] \subseteq desired[s]

InUse == UNION {sgOf[t] : t \in WithNetworking}

SettledInv ==
  Settled => \A s \in exists :
    /\ s \in InUse => Wanted(s) \subseteq rules[s] \cup foreign[s]
    /\ s \in Tagged \cup trackedEndpointSGs \cup InUse => rules[s] \subseteq Wanted(s)

RestInv == OpenInv /\ KnownInv /\ LoopInv /\ AloneInv /\ SettledInv

-----------------------------------------------------------------------------
(* The rules at rest.                                                         *)

LEMMA QueuedSteps ==
  ASSUME TypeInv, Step, NEW t \in TGB
  PROVE  /\ queued[t] => queued'[t] \/ Start(t) \/ StartCleanup(t) \/ StartAbsent(t) \/ Restart
         /\ queued'[t] => \/ queued[t] \/ pc'[t] = "idle"
                          \/ DeleteTGB(t) \/ \E x \in Shapes : SetTGB(t, x[1], x[2])
<1> queued \in [TGB -> BOOLEAN] /\ ProcessTypes
  BY TypeParts DEF TypeInv
<1>1. CASE \E u \in TGB : Start(u) \/ StartCleanup(u) \/ StartAbsent(u)
  BY <1>1 DEF Start, StartCleanup, StartAbsent
<1>2. CASE \E u \in TGB : Lookup(u) \/ EnterFails(u)
  BY <1>2 DEF Lookup, EnterFails, ProcessTypes
<1>3. CASE \E u \in TGB : DeleteTGB(u) \/ \E x \in Shapes : SetTGB(u, x[1], x[2])
  BY <1>3 DEF DeleteTGB, SetTGB, Changed
<1>4. CASE \E u \in TGB : Quit(u) \/ Finish(u)
  BY SMT, <1>4 DEF Quit, Finish, Leave, ProcessTypes
<1>5. CASE Restart
  BY <1>5 DEF Restart
<1> QED BY <1>1, <1>2, <1>3, <1>4, <1>5, QueuedFrame

\* A binding with its finalizer goes away only after its cleanup.
LEMMA AbsentSteps ==
  ASSUME TypeInv, Step, ~EarlyDelete, NEW t \in TGB
  PROVE  \/ Same(t)
         \/ tgb'[t] # "absent" /\ queued'[t] /\ tgb[t] # "deleting" /\ UNCHANGED <<pc, want, cleanup>>
         \/ Finish(t) /\ cleanup[t] /\ ~failed /\ Removed(t)
<1>0. K8sTypes /\ queued \in [TGB -> BOOLEAN]
  BY TypeParts DEF TypeInv
<1>1. CASE Changed(t) /\ (DeleteTGB(t) \/ \E x \in Shapes : SetTGB(t, x[1], x[2]))
  BY <1>0, <1>1 DEF Changed, DeleteTGB, SetTGB, K8sTypes
<1> QED BY <1>1, BindingSteps

LEMMA IdleSteps ==
  ASSUME TypeInv, Step, NEW t \in TGB, pc[t] # "idle", pc'[t] = "idle", ~Restart, ~Finish(t)
  PROVE  queued'[t] /\ Same(t)
<1> ProcessTypes /\ queued \in [TGB -> BOOLEAN]
  BY TypeParts DEF TypeInv
<1>1. CASE Lookup(t) \/ EnterFails(t)
  BY <1>1 DEF Lookup, EnterFails, k8sVars, Same, ProcessTypes
<1>2. CASE Quit(t)
  BY <1>2 DEF Quit, Leave, Frame, k8sVars, Same
<1>3. CASE \E u \in TGB \ {t} : Start(u) \/ StartCleanup(u) \/ Lookup(u) \/ SaveLookup(u) \/ Enter(u) \/ EnterFails(u)
  BY <1>3 DEF Start, StartCleanup, Lookup, SaveLookup, Enter, EnterFails, ProcessTypes
<1>4. CASE Start(t) \/ StartCleanup(t) \/ SaveLookup(t) \/ Enter(t)
  BY <1>4 DEF Start, StartCleanup, SaveLookup, Enter, ProcessTypes
<1>5. CASE \E u \in TGB : (\E s \in SG : FetchSG(u, s)) \/ SGDone(u) \/ \E s : SkipSG(u, s) \/ ForgetSG(u, s)
  BY <1>5 DEF FetchSG, SGDone, SkipSG, ForgetSG, NextSG, ProcessTypes
<1>6. CASE \E u \in TGB \ {t} : Quit(u) \/ Finish(u)
  BY <1>6 DEF Quit, Finish, Leave, ProcessTypes
<1> QED BY <1>1, <1>2, <1>3, <1>4, <1>5, <1>6, ProcessFrame

\* A binding comes to rest at the end of its reconcile.
LEMMA RestsSteps ==
  ASSUME TypeInv, KnownInv, Step, ~EarlyDelete, NEW t \in TGB, Rests(t)'
  PROVE  Rests(t) \/ Restart \/ Finish(t)
<1> SUFFICES ASSUME ~Rests(t), ~Restart, ~Finish(t) PROVE FALSE
  OBVIOUS
<1> pc'[t] = "idle" /\ (queued'[t] => tgb'[t] = "absent") /\ K8sTypes /\ WantTypes /\ ProcessTypes
  BY TypeParts DEF Rests, TypeInv
<1>1. CASE pc[t] # "idle"
  BY <1>1, IdleSteps DEF KnownInv, Same
<1>2. CASE pc[t] = "idle" /\ queued[t] /\ tgb[t] # "absent"
  <2>1. Same(t)
    BY AbsentSteps
  <2>2. ~queued'[t]
    BY <1>2, <2>1 DEF Same
  <2> QED BY <1>2, <2>2, QueuedSteps DEF Start, StartCleanup, StartAbsent, ProcessTypes
<1> QED BY <1>1, <1>2 DEF Rests

LEMMA KnownInit == Init => KnownInv
<1> SUFFICES ASSUME Init, NEW t \in TGB
             PROVE  /\ pc[t] = "idle" /\ tgb[t] # "deleting" /\ ~cleanup[t]
                    /\ tgb[t] = "absent" \/ ~queued[t] => Known(t)
  BY DEF KnownInv
<1> QED BY DEF Init, Known, Permissions

LEMMA KnownKept ==
  ASSUME TypeInv, BindingInv, KnownInv, Step, ~EarlyDelete
  PROVE  KnownInv'
<1> SUFFICES ASSUME NEW t \in TGB
             PROVE  (/\ tgb[t] = "absent" => pc[t] = "idle"
                     /\ tgb[t] = "deleting" /\ pc[t] = "idle" => queued[t]
                     /\ cleanup[t] => /\ tgb[t] = "deleting" /\ want[t] = Nothing
                                      /\ pc[t] # "idle" => ~queued[t]
                     /\ tgb[t] = "absent" \/ (~queued[t] /\ pc[t] \in {"idle", "sync", "apply"})
                          => Known(t))'
  BY DEF KnownInv
<1> ProcessTypes /\ K8sTypes /\ WantTypes /\ ManagerTypes /\ LoopTypes /\ queued \in [TGB -> BOOLEAN]
  BY TypeParts DEF TypeInv
<1>   /\ tgb[t] = "absent" => pc[t] = "idle"
      /\ tgb[t] = "deleting" /\ pc[t] = "idle" => queued[t]
      /\ cleanup[t] => /\ tgb[t] = "deleting" /\ want[t] = Nothing
                       /\ pc[t] # "idle" => ~queued[t]
      /\ tgb[t] = "absent" \/ (~queued[t] /\ pc[t] \in {"idle", "sync", "apply"}) => Known(t)
  BY DEF KnownInv
<1> Finish(t) => pc[t] = "sync" /\ mutex = t /\ pc'[t] = "idle" /\ ~cleanup'[t]
  BY DEF Finish, Finished, Leave, ProcessTypes, WantTypes
<1>3. tgb'[t] = "absent" => pc'[t] = "idle"
  <2>1. CASE Same(t)
    <3> SUFFICES ASSUME tgb'[t] = "absent", pc'[t] # "idle" PROVE FALSE
      OBVIOUS
    <3> QED BY <2>1, WorkKept DEF Same, Start, StartCleanup
  <2> QED BY <2>1, AbsentSteps
<1>4. tgb'[t] = "deleting" /\ pc'[t] = "idle" => queued'[t]
  <2> SUFFICES ASSUME tgb'[t] = "deleting", pc'[t] = "idle", ~queued'[t] PROVE FALSE
    OBVIOUS
  <2> Same(t)
    BY AbsentSteps DEF Removed, K8sTypes
  <2>2. ~Restart
    BY DEF Restart, Same
  <2>3. CASE pc[t] = "idle"
    BY <2>2, <2>3, QueuedSteps DEF Same, Start, StartCleanup, StartAbsent, ProcessTypes
  <2>4. CASE pc[t] # "idle"
    <3>1. Finish(t)
      BY <2>2, <2>4, IdleSteps
    <3>2. ~queued[t] /\ ~cleanup[t]
      BY <3>1 DEF Finish, Leave
    <3> QED BY <2>4, <3>2 DEF BindingInv, Same
  <2> QED BY <2>3, <2>4
<1>5. ASSUME cleanup'[t]
      PROVE  tgb'[t] = "deleting" /\ want'[t] = Nothing /\ (pc'[t] # "idle" => ~queued'[t])
  <2>1. CASE StartCleanup(t)
    BY <2>1 DEF StartCleanup, k8sVars, WantTypes
  <2>2. CASE ~StartCleanup(t)
    <3> ~Restart /\ ~Start(t) /\ ~Quit(t) /\ ~Finish(t)
      BY <1>5 DEF Restart, Start, Quit, Finish, Leave, WantTypes
    <3> cleanup[t] /\ want'[t] = want[t]
      <4>1. CASE \E u \in TGB \ {t} : Start(u) \/ StartCleanup(u)
        BY <1>5, <4>1 DEF Start, StartCleanup, WantTypes
      <4>2. CASE \E u \in TGB \ {t} : Quit(u) \/ Finish(u)
        BY <1>5, <4>2 DEF Quit, Finish, Leave, WantTypes
      <4> QED BY <1>5, <2>2, <4>1, <4>2, WantFrame
    <3>3. Same(t)
      BY AbsentSteps
    <3>4. ASSUME pc'[t] # "idle" PROVE ~queued'[t]
      <4>1. pc[t] # "idle"
        BY <2>2, <3>4, WorkKept
      <4> QED BY <3>4, <4>1, QueuedSteps DEF DeleteTGB, SetTGB
    <3> QED BY <3>3, <3>4 DEF Same
  <2> QED BY <2>1, <2>2
<1>6. ASSUME tgb'[t] = "absent" \/ (~queued'[t] /\ pc'[t] \in {"idle", "sync", "apply"})
      PROVE  Known(t)'
  <2>1. CASE Restart
    <3>1. Permissions'[t] = NoEntry /\ queued'[t] = (tgb[t] # "absent") /\ UNCHANGED k8sVars
      BY <2>1 DEF Restart, Permissions
    <3> QED BY <1>6, <3>1 DEF Known, k8sVars
  <2>2. CASE Finish(t)
    <3>1. Permissions' = Permissions
      BY <2>2 DEF Finish, managerVars, Permissions
    <3>2. CASE Same(t)
      <4>1. tgb'[t] = "absent" => tgb[t] = "absent"
        BY <3>2 DEF Same
      <4>2. ~queued'[t] => ~queued[t]
        BY <2>2 DEF Finish, Leave
      <4>3. Known(t)
        BY <1>6, <2>2, <4>1, <4>2, <2>1
      <4> QED BY <3>1, <3>2, <4>3, SameNeeds DEF Known, Same
    <3>3. CASE cleanup[t] /\ Removed(t)
      <4>1. Permissions[t] \in {NoEntry, Nothing}
        BY <2>2, <3>3 DEF BindingInv
      <4>2. tgb'[t] = "absent"
        BY <3>3 DEF Removed, K8sTypes
      <4> QED BY <3>1, <4>1, <4>2 DEF Known
    <3>4. CASE tgb'[t] # "absent" /\ queued'[t]
      BY <1>6, <3>4
    <3> QED BY <3>2, <3>3, <3>4, AbsentSteps
  <2>3. CASE ~Restart /\ ~Finish(t)
    <3> Same(t)
      BY <1>6, <2>3, AbsentSteps
    <3>2. CASE Enter(t)
      <4>   /\ Permissions'[t] = IF t \in WithNetworking THEN want[t] ELSE NoEntry
            /\ pc[t] = "lock" /\ UNCHANGED queued
        BY <3>2 DEF Enter, Recorded, Consolidated, Permissions, ManagerTypes
      <4>2. ~queued[t] /\ tgb[t] # "absent"
        BY <1>6 DEF Same
      <4>3. IF cleanup[t] THEN tgb[t] = "deleting" /\ want[t] = Nothing
            ELSE tgb[t] = "live" /\ want[t] = Needs(t)
        BY <4>2 DEF BindingInv
      <4> QED BY <4>2, <4>3, SameNeeds DEF Known, Same, WithNetworking, Needs
    <3>3. CASE ~Enter(t)
      <4>1. tgb[t] = "absent" \/ (~queued[t] /\ pc[t] \in {"idle", "sync", "apply"})
        <5>1. CASE tgb'[t] = "absent"
          BY <5>1 DEF Same
        <5>2. CASE tgb'[t] # "absent" /\ ~queued'[t] /\ pc'[t] \in {"idle", "sync", "apply"}
          <6>1. ~Start(t) /\ ~StartCleanup(t) /\ ~StartAbsent(t)
            BY <5>2 DEF Start, StartCleanup, StartAbsent, Same, ProcessTypes
          <6>2. ~queued[t]
            BY <2>3, <5>2, <6>1, QueuedSteps
          <6>3. CASE pc'[t] = "idle"
            BY <2>3, <5>2, <6>2, <6>3, IdleSteps
          <6>4. CASE pc'[t] \in {"sync", "apply"}
            <7>1. mutex = t
              BY <3>3, <6>4, MutexSteps, ProcessTypesKept DEF ProcessTypes
            <7> QED BY <6>2, <7>1 DEF ProcessTypes
          <6> QED BY <5>2, <6>3, <6>4
        <5> QED BY <1>6, <5>1, <5>2
      <4>2. Known(t) /\ ~EnterFails(t)
        <5>1. Known(t)
          BY <4>1
        <5>2. ~EnterFails(t)
          BY <4>1 DEF EnterFails
        <5> QED BY <5>1, <5>2
      <4>3. \/ Permissions'[t] = Permissions[t]
            \/ t \notin WithNetworking /\ Permissions'[t] = NoEntry
        <5>1. CASE \E u \in TGB \ {t} : Enter(u)
          BY <5>1 DEF Enter, Recorded, Consolidated, Permissions, ManagerTypes
        <5>2. CASE \E u \in TGB \ {t} : EnterFails(u)
          BY <5>2 DEF EnterFails, Recorded, Permissions, ManagerTypes
        <5> QED BY <2>3, <3>3, <4>2, <5>1, <5>2, PermissionsFrame DEF Permissions
      <4> QED BY <4>2, <4>3, SameNeeds DEF Known, Same, WithNetworking
    <3> QED BY <3>2, <3>3
  <2> QED BY <2>1, <2>2, <2>3
<1> QED BY <1>3, <1>4, <1>5, <1>6

LEMMA LoopInit == Init => LoopInv
BY DEF Init, LoopInv

LEMMA LoopKept ==
  ASSUME TypeInv, HolderInv, LoopInv, Step
  PROVE  LoopInv'
<1>0. ProcessTypes /\ LoopTypes /\ ManagerTypes /\ EC2Types
  BY TypeParts DEF TypeInv
<1>1. ASSUME trackedEndpointSGsInitialized' PROVE Tagged \cap exists' \subseteq trackedEndpointSGs'
  <2> exists' \subseteq exists
    BY EC2Frame DEF DeleteSG, AddForeign, RevokeSGIngress, AuthorizeSGIngress, ec2Vars
  <2>2. CASE \E t \in TGB : GC(t)
    BY <1>1, <2>2 DEF GC, TaggedSGs, LoopInv
  <2>3. CASE \E t \in TGB : \E s : ForgetSG(t, s)
    BY <1>1, <2>3 DEF ForgetSG, Frame, LoopInv
  <2>4. CASE \E t \in TGB : Enter(t) \/ EnterFails(t)
    BY <1>1, <2>4 DEF Enter, EnterFails, LoopInv
  <2>5. CASE Restart
    BY <1>1, <2>5 DEF Restart
  <2> QED BY <1>1, <2>2, <2>3, <2>4, <2>5, TrackedFrame DEF LoopInv
<1>2. ASSUME mutex' # NoTGB
      PROVE  /\ desired' = [s \in SG |-> Aggregated(Permissions, s)]'
             /\ used' = UNION {Permissions'[u].sgs : u \in {v \in TGB : Permissions'[v] # NoEntry}}
             /\ gc' => computedForAllTGBs' /\ trackedEndpointSGsInitialized' /\ todo' \cap used' = {}
  <2>1. PICK t \in TGB : mutex' = t
    BY <1>2, ProcessTypesKept DEF ProcessTypes
  <2>2. CASE Enter(t)
    <3>1. ~gc'
      BY <2>2 DEF Enter, HolderInv
    <3>2. \A s \in SG : Aggregated(Permissions', s) = Aggregated(Permissions, s)'
      BY SMT, <2>2, EnterOK DEF Aggregated
    <3> QED BY <2>2, <3>1, <3>2, EnterOK
  <2>3. CASE mutex = t /\ UNCHANGED <<ingressPermissionsPerSGByTGB, desired, used, computedForAllTGBs>>
    <3>0. t # NoTGB
      BY DistinctAssumption
    <3>1. /\ desired = [s \in SG |-> Aggregated(Permissions, s)]
          /\ used = UNION {Permissions[u].sgs : u \in {v \in TGB : Permissions[v] # NoEntry}}
          /\ gc => computedForAllTGBs /\ trackedEndpointSGsInitialized /\ todo \cap used = {}
      BY <2>3, <3>0 DEF LoopInv
    <3>2. \A s \in SG : Aggregated(Permissions, s)' = Aggregated(Permissions, s)
      BY SMT, <2>3, RestrictedFrame DEF Aggregated, Permissions
    <3>3. ~Restart /\ \A u \in TGB : ~Enter(u) /\ ~EnterFails(u) /\ ~Quit(u) /\ ~Finish(u)
      BY <2>1, <2>3, <3>0 DEF Restart, Enter, EnterFails, Quit, Finish, Leave
    <3>4. ASSUME gc'
          PROVE  computedForAllTGBs' /\ trackedEndpointSGsInitialized' /\ todo' \cap used' = {}
      <4>1. CASE \E u \in TGB : GC(u)
        BY <2>3, <4>1 DEF GC
      <4>2. CASE ~ \E u \in TGB : GC(u)
        <5>1. UNCHANGED trackedEndpointSGsInitialized
          BY <3>3, <4>2, TrackedFrame DEF ForgetSG, Frame
        <5>2. gc' = gc /\ todo' \subseteq todo
          BY <3>3, <4>2, TodoFrame DEF SGDone, SkipSG, ForgetSG, NextSG
        <5> QED BY <2>3, <3>1, <3>4, <5>1, <5>2
      <4> QED BY <4>1, <4>2
    <3> QED BY <2>3, <3>1, <3>2, <3>4 DEF Permissions
  <2> QED BY <2>1, <2>2, <2>3, MutexSteps
<1> QED BY <1>1, <1>2 DEF LoopInv

LEMMA AloneInit == Init => AloneInv
BY DistinctAssumption DEF Init, AloneInv

\* What the end of a security group says of its rules.
LEMMA DoneExact ==
  ASSUME TypeInv, CacheInv, NEW t \in TGB, SGDone(t), current \in exists, computedForAllTGBs
  PROVE  rules[current] \subseteq desired[current]
<1>1. info.managed = rules[current]
  BY DEF SGDone, CacheInv, Accurate
<1>2. PermissionsToRevoke = {}
  BY DEF SGDone
<1> QED BY <1>1, <1>2 DEF PermissionsToRevoke

\* Once no other binding waits, the holder of the mutex knows all needs.
LEMMA EnterAlone ==
  ASSUME TypeInv, KnownInv, NEW t \in TGB, Enter(t), Alone(t)'
  PROVE  computedForAllTGBs'
<1>   ManagerTypes /\ WantTypes /\ K8sTypes /\ UNCHANGED <<queued, k8sVars>>
      /\ pc' = [pc EXCEPT ![t] = "sync"] /\ ProcessTypes
  BY TypeParts DEF TypeInv, Enter
<1>   /\ Permissions' = Consolidated(Recorded(t))
      /\ computedForAllTGBs' = ComputedForAll(Permissions')
  BY EnterOK
<1>2. ASSUME NEW u \in WithNetworking
      PROVE  Permissions'[u] # NoEntry
  <2> u \in TGB /\ tgb[u] # "absent" /\ net[u] # NoNetworking
    BY DEF WithNetworking
  <2>1. CASE u = t
    <3>1. Permissions'[u] = want[t]
      BY <2>1 DEF Consolidated, Recorded, ManagerTypes
    <3> QED BY <3>1, DistinctAssumption DEF WantTypes
  <2>2. CASE u # t
    <3>1. Permissions'[u] = Permissions[u]
      BY <2>2 DEF Consolidated, Recorded, ManagerTypes, Permissions
    <3>2. pc[u] = "idle" /\ ~queued[u]
      BY <2>2 DEF Alone, Rests, ProcessTypes, k8sVars
    <3>3. tgb[u] = "live" /\ Known(u)
      BY <3>2 DEF KnownInv, K8sTypes
    <3> QED BY <3>1, <3>3, NeedsOK, DistinctAssumption DEF Known, TypeInv
  <2> QED BY <2>1, <2>2
<1> QED BY <1>2 DEF ComputedForAll, WithNetworking

LEMMA AloneKept ==
  ASSUME TypeInv, CacheInv, HolderInv, KnownInv, LoopInv, AloneInv, Step, ~EarlyDelete
  PROVE  AloneInv'
<1> SUFFICES ASSUME NEW t \in TGB, mutex' = t, Alone(t)'
             PROVE  (/\ computedForAllTGBs
                     /\ ~failed =>
                          \A s \in exists :
                            /\ s \in used /\ (gc \/ s \notin todo) =>
                                 rules[s] \subseteq desired[s] /\ desired[s] \subseteq rules[s] \cup foreign[s]
                            /\ gc /\ s \in trackedEndpointSGs \ (used \cup todo) => rules[s] \subseteq desired[s])'
  BY DEF AloneInv
<1> ProcessTypes /\ LoopTypes /\ EC2Types /\ CurrentTypes /\ t # NoTGB
  BY TypeParts, DistinctAssumption DEF TypeInv
<1>1. CASE Enter(t)
  <2>1. ~gc' /\ todo' = used'
    BY <1>1 DEF Enter, HolderInv
  <2> QED BY <1>1, <2>1, EnterAlone
<1>2. CASE mutex = t /\ UNCHANGED <<ingressPermissionsPerSGByTGB, desired, used, computedForAllTGBs>>
  <2> ~Restart /\ \A u \in TGB : ~Enter(u) /\ ~EnterFails(u) /\ ~Quit(u) /\ ~Finish(u)
    BY <1>2 DEF Restart, Enter, EnterFails, Quit, Finish, Leave
  <2>2. Alone(t)
    <3>1. pc[t] \in {"sync", "apply"} /\ pc'[t] # "idle"
      BY <1>2, ProcessTypesKept DEF ProcessTypes
    <3>2. ~queued[t]
      BY <3>1, WorkKept DEF Alone, Start, StartCleanup
    <3>3. \A u \in TGB \ {t} : Rests(u)
      BY RestsSteps DEF Alone
    <3> QED BY <3>2, <3>3 DEF Alone
  <2>3. computedForAllTGBs /\ computedForAllTGBs'
    BY <1>2, <2>2 DEF AloneInv
  <2>4. ASSUME ~failed', NEW s \in exists'
        PROVE  /\ s \in used /\ (gc' \/ s \notin todo') =>
                    rules'[s] \subseteq desired[s] /\ desired[s] \subseteq rules'[s] \cup foreign'[s]
               /\ gc' /\ s \in trackedEndpointSGs' \ (used \cup todo') => rules'[s] \subseteq desired[s]
    <3>1. ~failed
      BY <2>4, FailedFrame DEF SkipSG
    <3> exists' \subseteq exists
      BY EC2Frame DEF DeleteSG, AddForeign, RevokeSGIngress, AuthorizeSGIngress, ec2Vars
    <3>   /\ s \in used /\ (gc \/ s \notin todo) =>
               rules[s] \subseteq desired[s] /\ desired[s] \subseteq rules[s] \cup foreign[s]
          /\ gc /\ s \in trackedEndpointSGs \ (used \cup todo) => rules[s] \subseteq desired[s]
      BY <1>2, <2>2, <3>1 DEF AloneInv
    <3>4. gc => todo \cap used = {}
      BY <1>2 DEF LoopInv
    <3>5. CASE UNCHANGED <<todo, gc, trackedEndpointSGs>>
      <4>1. CASE \E d \in SG : DeleteSG(d)
        BY <3>5, <4>1 DEF DeleteSG, EC2Types
      <4>2. CASE \E d \in SG : \E p \in Others : AddForeign(d, p)
        BY <2>4, <3>5, <4>2 DEF AddForeign, EC2Types
      <4>3. CASE \E u \in TGB : RevokeSGIngress(u) \/ AuthorizeSGIngress(u)
        <5>1. PICK u \in TGB : RevokeSGIngress(u) \/ AuthorizeSGIngress(u)
          BY <4>3
        <5>2. current \in todo
          BY <5>1 DEF RevokeSGIngress, AuthorizeSGIngress, CurrentTypes
        <5>3. CASE s = current
          BY <3>4, <3>5, <5>2, <5>3
        <5>4. CASE s # current
          <6>1. rules'[s] = rules[s] /\ foreign'[s] = foreign[s]
            BY <5>1, <5>4, <2>4 DEF RevokeSGIngress, AuthorizeSGIngress, EC2Types
          <6> QED BY <3>5, <6>1
        <5> QED BY <5>3, <5>4
      <4>4. CASE UNCHANGED ec2Vars
        BY <3>5, <4>4 DEF ec2Vars
      <4> QED BY <4>1, <4>2, <4>3, <4>4, EC2Frame
    <3>6. CASE \E u \in TGB : SGDone(u)
      <4>1. PICK u \in TGB : SGDone(u)
        BY <3>6
      <4>2. /\ todo' = todo \ {current} /\ UNCHANGED <<gc, trackedEndpointSGs>> /\ UNCHANGED ec2Vars
        BY <4>1 DEF SGDone, NextSG, managerVars
      <4>3. CASE s = current
        <5>1. rules[s] \subseteq desired[s] /\ desired[s] \subseteq rules[s] \cup foreign[s]
          BY <2>3, <2>4, <4>1, <4>3, DoneOpen, DoneExact
        <5> QED BY <4>2, <5>1 DEF ec2Vars
      <4>4. CASE s # current
        BY <4>2, <4>4 DEF ec2Vars
      <4> QED BY <4>3, <4>4
    <3>7. CASE \E u \in TGB : \E x : ForgetSG(u, x)
      <4>1. PICK x : /\ x \notin exists /\ todo' = todo \ {x} /\ UNCHANGED gc
                     /\ trackedEndpointSGs' = trackedEndpointSGs \ {x} /\ UNCHANGED ec2Vars
        BY <3>7 DEF ForgetSG, NextSG, Frame
      <4>2. s # x
        BY <2>4, <4>1
      <4> QED BY <4>1, <4>2 DEF ec2Vars
    <3>8. CASE \E u \in TGB : GC(u)
      <4>1. todo = {} /\ todo' = trackedEndpointSGs' \ used /\ UNCHANGED ec2Vars
        BY <3>8 DEF GC, EnvUnchanged
      <4> QED BY <4>1 DEF ec2Vars
    <3>9. ~ \E u \in TGB : \E x : SkipSG(u, x)
      BY <2>4 DEF SkipSG
    <3>10. CASE ~ \E u \in TGB : GC(u) \/ SGDone(u) \/ \E x : ForgetSG(u, x)
      <4>1. UNCHANGED <<todo, gc>>
        BY <3>9, <3>10, TodoFrame
      <4>2. UNCHANGED trackedEndpointSGs
        BY <3>10, TrackedFrame
      <4> QED BY <3>5, <4>1, <4>2
    <3> QED BY <3>6, <3>7, <3>8, <3>10
  <2> QED BY <1>2, <2>3, <2>4
<1> QED BY <1>1, <1>2, MutexSteps

LEMMA SettledInit == Init => SettledInv
<1> SUFFICES ASSUME Init, Settled PROVE (\A s \in exists : rules[s] = {}) /\ InUse = {}
  BY DEF SettledInv
<1>1. PICK present \in SUBSET TGB :
        /\ tgb = [t \in TGB |-> IF t \in present THEN "live" ELSE "absent"]
        /\ queued = [t \in TGB |-> t \in present]
  BY DEF Init
<1>2. \A t \in TGB : tgb[t] = "absent"
  BY <1>1 DEF Settled, Rests
<1> QED BY <1>2 DEF Init, InUse, WithNetworking

\* At rest the manager knows just what the bindings need.
KnownExactly ==
  /\ \A s \in SG : Aggregated(Permissions, s) = Wanted(s)
  /\ InUse \subseteq UNION {Permissions[u].sgs : u \in {v \in TGB : Permissions[v] # NoEntry}}

LEMMA KnownAggregated == TypeInv /\ KnownInv /\ Settled => KnownExactly
<1> SUFFICES ASSUME TypeInv, KnownInv, Settled
             PROVE  /\ \A s \in SG : Aggregated(Permissions, s) = Wanted(s)
                    /\ InUse \subseteq UNION {Permissions[u].sgs : u \in {v \in TGB : Permissions[v] # NoEntry}}
  BY DEF KnownExactly
<1> DEFINE E == [t \in TGB |-> IF t \in WithNetworking THEN Needs(t) ELSE NoEntry]
<1>1. ASSUME NEW t \in TGB
      PROVE  /\ t \in WithNetworking => Permissions[t] = Needs(t) /\ Needs(t) # NoEntry
             /\ t \notin WithNetworking => Permissions[t] \in {NoEntry, Nothing}
  <2>1. pc[t] = "idle" /\ (queued[t] => tgb[t] = "absent")
    BY DEF Settled, Rests
  <2>2. Known(t) /\ tgb[t] # "deleting"
    BY <2>1 DEF KnownInv
  <2>3. tgb[t] \in {"absent", "live"} /\ Needs(t) # NoEntry
    BY SMTT(30), <2>2, NeedsOK, DistinctAssumption DEF TypeInv, TypeOK
  <2> QED BY <2>2, <2>3 DEF Known, WithNetworking
<1>2. ASSUME NEW s \in SG, NEW t \in TGB
      PROVE  /\ Permissions[t] # NoEntry /\ s \in Permissions[t].sgs <=> E[t] # NoEntry /\ s \in E[t].sgs
             /\ Permissions[t] # NoEntry /\ s \in Permissions[t].sgs => Permissions[t] = E[t]
  BY SMT, <1>1 DEF Nothing
<1> HIDE DEF E
<1>3. ASSUME NEW s \in SG PROVE Aggregated(Permissions, s) = Aggregated(E, s)
  <2>1. {u \in TGB : Permissions[u] # NoEntry /\ s \in Permissions[u].sgs} =
        {u \in TGB : E[u] # NoEntry /\ s \in E[u].sgs}
    BY <1>2
  <2>2. UNION {Permissions[t].perms : t \in {u \in TGB : Permissions[u] # NoEntry /\ s \in Permissions[u].sgs}} =
        UNION {E[t].perms : t \in {u \in TGB : E[u] # NoEntry /\ s \in E[u].sgs}}
    BY <1>2, <2>1
  <2> QED BY <2>2 DEF Aggregated
<1>4. \A t \in WithNetworking : t \in TGB /\ sgOf[t] = Needs(t).sgs
  BY DEF WithNetworking, Needs
<1>5. InUse \subseteq UNION {Permissions[u].sgs : u \in {v \in TGB : Permissions[v] # NoEntry}}
  BY <1>1, <1>4 DEF InUse
<1> QED BY <1>3, <1>5 DEF Wanted, E

LEMMA WantedSame ==
  ASSUME \A t \in TGB : Same(t), UNCHANGED restricted
  PROVE  InUse' = InUse /\ \A s : Wanted(s)' = Wanted(s)
<1>1. WithNetworking' = WithNetworking
  BY DEF WithNetworking, Same
<1>2. \A t \in TGB : Needs(t)' = Needs(t)
  BY SameNeeds
<1>3. [t \in TGB |-> IF t \in WithNetworking THEN Needs(t) ELSE NoEntry]' =
      [t \in TGB |-> IF t \in WithNetworking THEN Needs(t) ELSE NoEntry]
  BY <1>1, <1>2
<1>4. \A s : Wanted(s)' = Wanted(s)
  BY <1>3 DEF Wanted, Aggregated
<1>5. InUse' = InUse
  <2>1. \A t \in WithNetworking : sgOf'[t] = sgOf[t]
    BY DEF WithNetworking, Same
  <2> QED BY <1>1, <2>1 DEF InUse
<1> QED BY <1>4, <1>5

LEMMA SettledKept ==
  ASSUME TypeInv, CacheInv, BindingInv, HolderInv, KnownInv, LoopInv, AloneInv, SettledInv, Step,
         ~EarlyDelete
  PROVE  SettledInv'
<1> SUFFICES ASSUME Settled', NEW s \in exists'
             PROVE  (/\ s \in InUse => Wanted(s) \subseteq rules[s] \cup foreign[s]
                     /\ s \in Tagged \cup trackedEndpointSGs \cup InUse => rules[s] \subseteq Wanted(s))'
  BY DEF SettledInv
<1> ProcessTypes /\ EC2Types /\ K8sTypes /\ LoopTypes /\ queued \in [TGB -> BOOLEAN] /\ UNCHANGED restricted
  BY TypeParts, RestrictedFrame DEF TypeInv
<1> \A t \in TGB : Rests(t)'
  BY DEF Settled
<1>2. CASE Restart
  <2>   UNCHANGED <<exists, rules, foreign, tgb, net, sgOf>> /\ trackedEndpointSGs' = {}
        /\ queued' = [t \in TGB |-> tgb[t] # "absent"]
    BY <1>2 DEF Restart, EnvUnchanged, ec2Vars, k8sVars
  <2>2. \A t \in TGB : tgb[t] = "absent"
    BY DEF Rests
  <2>3. Settled
    BY <2>2 DEF Settled, Rests, KnownInv
  <2>4. InUse' = {} /\ Wanted(s)' = Wanted(s)
    BY SMT, <2>2, WantedSame DEF InUse, WithNetworking, Same
  <2> QED BY <2>3, <2>4 DEF SettledInv
<1>3. CASE \E t \in TGB : Finish(t)
  <2>1. PICK t \in TGB : Finish(t)
    BY <1>3
  <2>   /\ pc[t] = "sync" /\ todo = {} /\ (gc \/ ~computedForAllTGBs) /\ mutex = t
        /\ UNCHANGED <<exists, rules, foreign>> /\ UNCHANGED <<trackedEndpointSGs, ingressPermissionsPerSGByTGB>>
        /\ queued' = [queued EXCEPT ![t] = @ \/ failed \/ cleanup[t]]
        /\ pc' = [pc EXCEPT ![t] = "idle"]
    BY <2>1 DEF Finish, Finished, Leave, EnvUnchanged, ec2Vars, managerVars, ProcessTypes
  <2>3. ~failed /\ ~queued[t]
    <3>1. CASE Same(t)
      <4>1. tgb'[t] # "absent"
        BY <3>1 DEF Same, KnownInv
      <4>2. ~queued'[t]
        BY <4>1 DEF Rests
      <4> QED BY <4>2
    <3>2. CASE tgb'[t] # "absent" /\ queued'[t]
      BY <3>2 DEF Rests
    <3>3. CASE cleanup[t] /\ ~failed
      BY <3>3 DEF KnownInv
    <3> QED BY <3>1, <3>2, <3>3, AbsentSteps
  <2>4. \A u \in TGB \ {t} : Rests(u)
    <3> SUFFICES ASSUME NEW u \in TGB \ {t} PROVE Rests(u)
      OBVIOUS
    <3>1. tgb'[u] = tgb[u]
      BY <2>1 DEF Finish, Removed, k8sVars, K8sTypes
    <3>2. pc'[u] = pc[u] /\ queued'[u] = queued[u]
      BY DEF ProcessTypes
    <3> QED BY <3>1, <3>2 DEF Rests
  <2>5. computedForAllTGBs /\ \A x \in exists :
          /\ x \in used => rules[x] \subseteq desired[x] /\ desired[x] \subseteq rules[x] \cup foreign[x]
          /\ x \in trackedEndpointSGs \ used => rules[x] \subseteq desired[x]
    BY <2>3, <2>4 DEF AloneInv, Alone
  <2>6. gc /\ mutex # NoTGB
    BY <2>5, DistinctAssumption
  <2>7. /\ desired = [x \in SG |-> Aggregated(Permissions, x)]
        /\ used = UNION {Permissions[u].sgs : u \in {v \in TGB : Permissions[v] # NoEntry}}
        /\ Tagged \cap exists \subseteq trackedEndpointSGs
    BY <2>6 DEF LoopInv
  <2>8. TypeInv' /\ KnownInv'
    BY TypeKept, KnownKept
  <2>9. /\ \A x \in SG : Aggregated(Permissions, x)' = Wanted(x)'
        /\ InUse' \subseteq UNION {Permissions'[u].sgs : u \in {v \in TGB : Permissions'[v] # NoEntry}}
    <3>1. TypeInv' /\ KnownInv' /\ Settled' => KnownExactly'
      BY KnownAggregated, PTL
    <3> QED BY <2>8, <3>1 DEF KnownExactly
  <2>10. \A x \in SG : Aggregated(Permissions, x)' = Aggregated(Permissions, x)
    BY DEF Aggregated, Permissions
  <2>11. s \in exists /\ s \in SG /\ desired[s] = Wanted(s)' /\ InUse' \subseteq used
    BY <2>7, <2>9, <2>10 DEF EC2Types, Permissions
  <2> QED BY <2>5, <2>7, <2>11
<1>4. CASE ~Restart /\ ~ \E t \in TGB : Finish(t)
  <2>1. Settled
    BY <1>4, RestsSteps DEF Settled
  <2>2. \A t \in TGB : pc[t] = "idle"
    BY <2>1 DEF Settled, Rests
  <2>3. \A t \in TGB : Same(t)
    BY <1>4, AbsentSteps DEF Rests
  <2>4. InUse' = InUse /\ Wanted(s)' = Wanted(s)
    BY <2>3, WantedSame
  <2>5. UNCHANGED trackedEndpointSGs
    BY <1>4, <2>2, TrackedFrame DEF Enter, EnterFails, GC, ForgetSG, Working
  <2>6. s \in exists /\ rules'[s] = rules[s] /\ foreign[s] \subseteq foreign'[s]
    <3>1. \A t \in TGB : ~RevokeSGIngress(t) /\ ~AuthorizeSGIngress(t)
      BY <2>2 DEF RevokeSGIngress, AuthorizeSGIngress
    <3>2. CASE \E d \in SG : DeleteSG(d)
      BY <3>2 DEF DeleteSG, EC2Types
    <3>3. CASE \E d \in SG : \E p \in Others : AddForeign(d, p)
      BY <3>3 DEF AddForeign, EC2Types
    <3>4. CASE UNCHANGED ec2Vars
      BY <3>4 DEF ec2Vars
    <3> QED BY <3>1, <3>2, <3>3, <3>4, EC2Frame
  <2> QED BY <2>1, <2>4, <2>5, <2>6 DEF SettledInv
<1> QED BY <1>2, <1>3, <1>4

LEMMA ConvergedAtRest ==
  ASSUME TypeInv, RestInv
  PROVE  RulesConverged
<1> SUFFICES ASSUME Quiet PROVE NeededPortsOpen /\ RulesConverged
  BY DEF RulesConverged, NeededPortsOpen
<1>1. Settled
  BY DEF Quiet, Settled, Rests
<1>2. \A s \in exists :
        /\ s \in InUse => Wanted(s) \subseteq rules[s] \cup foreign[s]
        /\ s \in Tagged \cup trackedEndpointSGs \cup InUse => rules[s] \subseteq Wanted(s)
  BY <1>1 DEF RestInv, SettledInv
<1>3. ASSUME NEW t \in WithNetworking, NEW s \in sgOf[t], NEW p \in PermsOf(net[t])
      PROVE  Covered(s, p)
  <2> DEFINE E == [u \in TGB |-> IF u \in WithNetworking THEN Needs(u) ELSE NoEntry]
  <2>1. t \in TGB /\ E \in [TGB -> Entry \cup {NoEntry}] /\ E[t] = Needs(t) /\ Needs(t) # NoEntry
    BY NeedsOK, DistinctAssumption DEF WithNetworking, TypeInv
  <2>2. s \in Needs(t).sgs /\ p \in Needs(t).perms
    BY DEF Needs, WithNetworking
  <2>3. s \in SG /\ s \in exists /\ s \in InUse
    BY SMT, <2>1 DEF RestInv, OpenInv, BindingInv, InUse, TypeInv, TypeOK
  <2> HIDE DEF E
  <2>4. \E q \in Aggregated(E, s) : q.source = p.source /\ q.from <= p.from /\ p.to <= q.to
    BY <2>1, <2>2, <2>3, AggregatedOK DEF TypeInv, TypeOK
  <2>5. Aggregated(E, s) = Wanted(s)
    BY DEF E, Wanted
  <2> QED BY <1>2, <2>3, <2>4, <2>5 DEF Covered
<1>4. NeededPortsOpen
  BY <1>3 DEF NeededPortsOpen
<1> QED BY <1>2, <1>4 DEF RulesConverged, InUse

LEMMA RestNext ==
  ASSUME TypeInv, RestInv, Step, ~LookupRace, ~EarlyDelete
  PROVE  TypeInv' /\ RestInv'
<1>1. TypeInv' /\ OpenInv'
  BY OpenNext DEF RestInv
<1>2. KnownInv' /\ LoopInv' /\ AloneInv' /\ SettledInv'
  BY KnownKept, LoopKept, AloneKept, SettledKept DEF RestInv, OpenInv
<1> QED BY <1>1, <1>2 DEF RestInv

\* "ReconcileIngress will reconcile Ingress permission on SecurityGroup to be
\* desiredPermission": whenever nothing is queued, every port that a binding
\* needs is open, and the labelled rules of the tagged, tracked and used security
\* groups are needed by some binding, however many bindings, failures, restarts
\* and changes there were.
THEOREM RulesConverge ==
  ASSUME ~LookupRace, ~EarlyDelete
  PROVE  Spec => []RulesConverged
<1>1. Init => TypeInv /\ RestInv
  BY OpenInit, KnownInit, LoopInit, AloneInit, SettledInit DEF RestInv
<1>2. TypeInv /\ RestInv /\ [Next]_vars => (TypeInv /\ RestInv)'
  BY Steps, RestNext
<1>3. TypeInv /\ RestInv => RulesConverged
  BY ConvergedAtRest
<1> QED BY <1>1, <1>2, <1>3, PTL DEF Spec

=============================================================================

