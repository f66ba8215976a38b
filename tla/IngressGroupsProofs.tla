------------------------ MODULE IngressGroupsProofs ------------------------
(***************************************************************************)
(* Proofs about IngressGroups, for any Ingresses, any number of workers,   *)
(* edits and faults.                                                       *)
(***************************************************************************)
EXTENDS IngressGroups, TLAPS

\* The steps are found by Zenon, unless they cite SMT.
USE ZenonT(60)

-----------------------------------------------------------------------------
(* The inductive invariant.                                                *)

Cur == IF class = "params" THEN params ELSE "none"

\* What the load balancer of the group is, or is about to be, built from.
Parts(g) == IF work[g].pc \in {"finalize", "deploy"} THEN work[g].parts ELSE lb[g]

\* A part is what its Ingress asks for, but for what the secret holds.
Fresh(p) ==
  /\ p.auth # {} <=> ing[p.ing].auth
  /\ p.svc = svc
  /\ p.params = IF annotated[p.ing] THEN "none" ELSE Cur

\* The group's members are those at work and those with a part, as they are.
Current(g) ==
  /\ Active(g) = work[g].todo \cup {p.ing : p \in Parts(g)}
  /\ \A p \in Parts(g) : Fresh(p)
  /\ \A i \in work[g].todo : annotated[i] \/ work[g].params = Cur

CurrentInv == \A g \in Group \ (queue \cup raced) : Current(g)

\* What a reconcile holds in each of its states.
Stages(g) ==
  /\ work[g].pc # "finalize" => work[g].todo = {}
  /\ work[g].pc \in {"idle", "unfinalize"} => work[g].parts = {}
  /\ work[g].pc = "unfinalize" => work[g].inactive # {}

StagesInv == \A g \in Group : Stages(g)

\* A group does not lose the finalizer of an Ingress it was built from.
Finalized(g) == \A p \in lb[g] \cup work[g].parts : g \in ing[p.ing].fin

FinalizedInv == \A g \in Group : Finalized(g)

\* Members that the group lets go are not those it is built from.
Apart(g) ==
  \A i \in work[g].inactive :
    /\ i \notin work[g].todo
    /\ \A p \in Parts(g) : p.ing # i

ApartInv == \A g \in Group : Apart(g)

\* SecretsWatched, also for groups that still have finalizers to remove.
WatchedInv ==
  /\ \A g \in Group \ queue :
       work[g].pc \in {"idle", "unfinalize"} => (g \in users <=> \E p \in lb[g] : p.auth # {})
  /\ reflector = "none" <=> users = {}

IInv == TypeOK /\ StagesInv /\ FinalizedInv /\ ApartInv /\ CurrentInv /\ WatchedInv

-----------------------------------------------------------------------------
(* Type correctness.                                                       *)

\* A part has its type, whatever the parameters it is built with.
LEMMA PartTyped ==
  ASSUME TypeOK, NEW i \in Ingress, NEW with \in Params \cup {"none"}
  PROVE  Part(i, with) \in PartType
<1>1. secret = 0 \/ secret = 1
  BY DEF TypeOK
<1>2. svc \in {0, 1}
  BY DEF TypeOK
<1> QED
  BY <1>1, <1>2 DEF Part, PartType

\* The events of a change only name groups.
LEMMA EnqueueTyped ==
  ASSUME TypeOK, NEW I \in SUBSET Ingress, Enqueue(I)
  PROVE  queue' \subseteq Group /\ raced' \subseteq Group
BY DEF TypeOK, Enqueue, enqueueIfBelongsToGroup

\* The groups that use the secret decide on its reflector.
LEMMA MonitorTyped ==
  ASSUME TypeOK, NEW g \in Group, NEW uses, MonitorSecrets(g, uses)
  PROVE  users' \subseteq Group /\ reflector' \in {"none", "starting", "watching"}
BY DEF TypeOK, MonitorSecrets

\* The part of TypeOK about Ingresses.
IngTypes ==
  /\ ing \in [Ingress -> IngressType]
  /\ \A i \in Ingress :
       /\ ing[i].fin # {} => ing[i].exists
       /\ ing[i].deleting => ing[i].fin # {}

-----------------------------------------------------------------------------
(* What the actions do to the Ingresses and to the reconciles.             *)

\* A change of one Ingress that keeps its finalizers.
LEMMA EditEffect ==
  ASSUME TypeOK, NEW i \in Ingress, EditIngress(i) \/ CreateIngress(i) \/ DeleteIngress(i)
  PROVE  /\ IngTypes'
         /\ \A j \in Ingress : ing'[j].fin = ing[j].fin
         /\ \A j \in Ingress \ {i} : ing'[j] = ing[j]
<1>1. CASE EditIngress(i)
  <2>1. CASE \E n \in {"own", "g", "bad"} : ing' = [ing EXCEPT ![i].group = n]
    BY SMT, <2>1 DEF TypeOK, IngTypes, IngressType
  <2>2. CASE ing' = [ing EXCEPT ![i].auth = ~@]
    <3>1. PICK b \in BOOLEAN : ing' = [ing EXCEPT ![i].auth = b]
      BY <2>2
    <3> QED
      BY <3>1 DEF TypeOK, IngTypes, IngressType
  <2> QED
    BY <1>1, <2>1, <2>2 DEF EditIngress
<1>2. CASE CreateIngress(i)
  <2>1. ing[i].fin = {}
    BY <1>2 DEF CreateIngress, TypeOK
  <2> QED
    BY <1>2, <2>1 DEF CreateIngress, TypeOK, IngTypes, IngressType, Absent
<1>3. CASE DeleteIngress(i)
  <2>1. CASE ing[i].fin = {}
    BY <1>3, <2>1 DEF DeleteIngress, TypeOK, IngTypes, IngressType, Absent
  <2>2. CASE ing[i].fin # {}
    <3>1. PICK b \in BOOLEAN : ing' = [ing EXCEPT ![i] = [@ EXCEPT !.deleting = b]]
      BY <1>3, <2>2 DEF DeleteIngress, TypeOK
    <3>2. [ing[i] EXCEPT !.deleting = b] \in IngressType
      BY DEF TypeOK, IngressType
    <3>3. ing' \in [Ingress -> IngressType]
      BY <3>1, <3>2 DEF TypeOK
    <3>4. /\ \A j \in Ingress : ing'[j].fin = ing[j].fin /\ ing'[j].exists = ing[j].exists
          /\ \A j \in Ingress \ {i} : ing'[j] = ing[j]
      BY <3>1 DEF TypeOK, IngressType
    <3>5. \A j \in Ingress : ing'[j].fin # {} => ing'[j].exists
      BY <3>4 DEF TypeOK
    <3>6. \A j \in Ingress : ing'[j].deleting => ing'[j].fin # {}
      BY <2>2, <3>4 DEF TypeOK
    <3> QED
      BY <3>3, <3>4, <3>5, <3>6 DEF IngTypes
  <2> QED
    BY <2>1, <2>2
<1> QED
  BY <1>1, <1>2, <1>3

\* A step that changes nothing that groups are built from.
Alike ==
  /\ class' = class /\ params' = params /\ svc' = svc
  /\ \A j \in Ingress :
       /\ LoadGroupIDIfAny(j)' = LoadGroupIDIfAny(j)
       /\ LoadGroupIDIfAny(j) \in Group => ing'[j].auth = ing[j].auth

\* The group of an Ingress does not depend on its finalizers.
LEMMA SameGroup ==
  ASSUME NEW j \in Ingress, class' = class, params' = params,
         ing'[j].exists = ing[j].exists, ing'[j].deleting = ing[j].deleting,
         ing'[j].group = ing[j].group
  PROVE  LoadGroupIDIfAny(j)' = LoadGroupIDIfAny(j)
<1>1. LoadClass' = LoadClass
  BY DEF LoadClass
<1>2. classifyIngress(j)' = classifyIngress(j)
  BY <1>1 DEF classifyIngress
<1>3. loadGroupID(j)' = loadGroupID(j)
  BY SMT DEF loadGroupID
<1> QED
  BY <1>2, <1>3 DEF LoadGroupIDIfAny
\* A member at work gets the finalizer and its part.
LEMMA AddEffect ==
  ASSUME TypeOK, NEW g \in Group, AddGroupFinalizer(g)
  PROVE  \E i \in work[g].todo :
           /\ IngTypes' /\ Alike
           /\ \A j \in Ingress : ing[j].fin \subseteq ing'[j].fin
           /\ g \in ing'[i].fin
           /\ work' \in [Group -> WorkType]
           /\ work'[g].todo = work[g].todo \ {i}
           /\ work'[g].parts = work[g].parts \cup {Part(i, work[g].params)}
           /\ work'[g].pc = work[g].pc /\ work'[g].params = work[g].params
           /\ work'[g].inactive = work[g].inactive
           /\ \A h \in Group \ {g} : work'[h] = work[h]
<1>1. PICK i \in work[g].todo :
      /\ g \in ing[i].fin \/ (ing[i].exists /\ ~ing[i].deleting)
      /\ ing' = [ing EXCEPT ![i].fin = @ \cup {g}]
      /\ work' = [work EXCEPT ![g].todo = @ \ {i},
                              ![g].parts = @ \cup {Part(i, work[g].params)}]
      /\ class' = class /\ params' = params /\ svc' = svc
  BY DEF AddGroupFinalizer
<1>3. i \in Ingress
  BY <1>1 DEF TypeOK, WorkType
<1>4. /\ ing' \in [Ingress -> IngressType]
      /\ ing'[i].fin = ing[i].fin \cup {g}
      /\ ing'[i].exists = ing[i].exists /\ ing'[i].deleting = ing[i].deleting
      /\ ing'[i].group = ing[i].group /\ ing'[i].auth = ing[i].auth
      /\ \A j \in Ingress \ {i} : ing'[j] = ing[j]
  BY <1>1, <1>3 DEF TypeOK, IngressType
<1>5. ing[i].exists
  BY <1>1, <1>3 DEF TypeOK
<1>6. IngTypes'
  BY <1>3, <1>4, <1>5 DEF TypeOK, IngTypes
<1>7. Alike
  BY <1>1, <1>4, SameGroup DEF Alike
<1>8. Part(i, work[g].params) \in PartType
  BY <1>3, PartTyped DEF TypeOK, WorkType
<1>9. /\ work' \in [Group -> WorkType]
      /\ work'[g].todo = work[g].todo \ {i}
      /\ work'[g].parts = work[g].parts \cup {Part(i, work[g].params)}
      /\ work'[g].pc = work[g].pc /\ work'[g].params = work[g].params
      /\ work'[g].inactive = work[g].inactive
      /\ \A h \in Group \ {g} : work'[h] = work[h]
  BY <1>1, <1>8 DEF TypeOK, WorkType
<1> QED
  BY <1>1, <1>4, <1>6, <1>7, <1>9

\* A member that the group lets go loses the finalizer of the group, and is
\* gone if it was being deleted and had no other one.
LEMMA RemoveEffect ==
  ASSUME TypeOK, StagesInv, NEW g \in Group, RemoveGroupFinalizer(g)
  PROVE  \E i \in work[g].inactive :
           /\ IngTypes' /\ Alike
           /\ \A j \in Ingress : ing[j].fin \ {g} \subseteq ing'[j].fin
           /\ \A j \in Ingress \ {i} : ing'[j] = ing[j]
           /\ work' \in [Group -> WorkType]
           /\ work'[g].todo = {} /\ work'[g].parts = {}
           /\ work'[g].inactive = work[g].inactive \ {i}
           /\ work'[g].pc = IF work[g].inactive = {i} THEN "idle" ELSE "unfinalize"
           /\ \A h \in Group \ {g} : work'[h] = work[h]
<1>1. work[g].inactive # {} /\ work[g].todo = {} /\ work[g].parts = {}
  BY DEF RemoveGroupFinalizer, StagesInv, Stages, At
<1>2. PICK i \in work[g].inactive :
      LET fin == ing[i].fin \ {g}
      IN
      /\ ing' = [ing EXCEPT ![i] = IF ing[i].deleting /\ fin = {} THEN Absent
                                   ELSE [@ EXCEPT !.fin = fin]]
      /\ work' = [work EXCEPT ![g] = IF work[g].inactive = {i} THEN Idle
                                     ELSE [work[g] EXCEPT !.inactive = @ \ {i}]]
      /\ class' = class /\ params' = params /\ svc' = svc /\ work[g].pc = "unfinalize"
  BY <1>1 DEF RemoveGroupFinalizer, At
<1> DEFINE fin == ing[i].fin \ {g}
<1>3. i \in Ingress
  BY <1>2 DEF TypeOK, WorkType
<1>4. /\ IngTypes' /\ Alike
      /\ \A j \in Ingress : ing[j].fin \ {g} \subseteq ing'[j].fin
      /\ \A j \in Ingress \ {i} : ing'[j] = ing[j]
  <2>1. CASE ing[i].deleting /\ fin = {}
    <3>1. /\ ing' \in [Ingress -> IngressType]
          /\ ing'[i].fin = {} /\ ing'[i].deleting = FALSE /\ ing'[i].exists = FALSE
          /\ \A j \in Ingress \ {i} : ing'[j] = ing[j]
      BY <1>2, <1>3, <2>1 DEF TypeOK, IngressType, Absent
    <3>2. IngTypes'
      BY <3>1 DEF TypeOK, IngTypes
    <3>3. Alike
      <4>1. LoadGroupIDIfAny(i) = "none" /\ LoadGroupIDIfAny(i)' = "none"
        BY <2>1, <3>1 DEF LoadGroupIDIfAny
      <4>2. "none" \notin Group
        BY IngressAssumption DEF Group
      <4> QED
        BY <1>2, <3>1, <4>1, <4>2, SameGroup DEF Alike
    <3> QED
      BY <2>1, <3>1, <3>2, <3>3
  <2>2. CASE ~(ing[i].deleting /\ fin = {})
    <3>1. /\ ing' \in [Ingress -> IngressType]
          /\ ing'[i].fin = fin
          /\ ing'[i].exists = ing[i].exists /\ ing'[i].deleting = ing[i].deleting
          /\ ing'[i].group = ing[i].group /\ ing'[i].auth = ing[i].auth
          /\ \A j \in Ingress \ {i} : ing'[j] = ing[j]
      BY <1>2, <1>3, <2>2 DEF TypeOK, IngressType
    <3>2. IngTypes'
      BY <1>3, <2>2, <3>1 DEF TypeOK, IngTypes
    <3>3. Alike
      BY <1>2, <3>1, SameGroup DEF Alike
    <3> QED
      BY <3>1, <3>2, <3>3
  <2> QED
    BY <2>1, <2>2
<1>5. /\ work' \in [Group -> WorkType]
      /\ work'[g].todo = {} /\ work'[g].parts = {}
      /\ work'[g].inactive = work[g].inactive \ {i}
      /\ work'[g].pc = IF work[g].inactive = {i} THEN "idle" ELSE "unfinalize"
      /\ \A h \in Group \ {g} : work'[h] = work[h]
  <2>1. CASE work[g].inactive = {i}
    <3>1. Idle \in WorkType
      BY DEF WorkType, Idle
    <3>2. work' = [work EXCEPT ![g] = Idle]
      BY <1>2, <2>1
    <3>3. Idle.todo = {} /\ Idle.parts = {} /\ Idle.inactive = {} /\ Idle.pc = "idle"
      BY DEF Idle
    <3> QED
      BY <2>1, <3>1, <3>2, <3>3 DEF TypeOK
  <2>2. CASE work[g].inactive # {i}
    <3> DEFINE w == [work[g] EXCEPT !.inactive = work[g].inactive \ {i}]
    <3>1. work' = [work EXCEPT ![g] = w]
      BY <1>2, <2>2
    <3>2. w \in WorkType /\ w.todo = work[g].todo /\ w.parts = work[g].parts
          /\ w.pc = work[g].pc /\ w.inactive = work[g].inactive \ {i}
      BY DEF TypeOK, WorkType
    <3> HIDE DEF w
    <3> QED
      BY <1>1, <1>2, <2>2, <3>1, <3>2 DEF TypeOK
  <2> QED
    BY <2>1, <2>2
<1> QED
  BY <1>2, <1>4, <1>5

\* A step that leaves the cluster alone.
LEMMA ClusterKept ==
  ASSUME TypeOK, UNCHANGED cluster
  PROVE  /\ IngTypes' /\ Alike
         /\ class' \in {"absent", "foreign", "alb", "params"} /\ params' \in Params
         /\ svc' \in {0, 1} /\ secret' \in {0, 1}
<1>1. ing' = ing /\ class' = class /\ params' = params /\ svc' = svc /\ secret' = secret
  BY DEF cluster
<1>2. Alike
  BY <1>1, SameGroup DEF Alike
<1> QED
  BY <1>1, <1>2 DEF TypeOK, IngTypes

\* A reconcile begins with the members and the parameters of now.
LEMMA LoadEffect ==
  ASSUME TypeOK, NEW g \in Group, Load(g)
  PROVE  /\ work' \in [Group -> WorkType]
         /\ work'[g].pc = "finalize" /\ work'[g].todo = Active(g)
         /\ work'[g].inactive = Inactive(g) /\ work'[g].params = Cur /\ work'[g].parts = {}
         /\ \A h \in Group \ {g} : work'[h] = work[h]
<1> DEFINE w == [pc |-> "finalize", todo |-> Active(g), inactive |-> Inactive(g),
                 params |-> Cur, parts |-> {}]
<1>1. work' = [work EXCEPT ![g] = w]
  BY DEF Load, Cur
<1>2. Active(g) \subseteq Ingress /\ Inactive(g) \subseteq Ingress
  BY DEF Active, Inactive
<1>3. Cur \in Params \cup {"none"}
  BY DEF Cur, TypeOK
<1>4. w \in WorkType
  BY <1>2, <1>3 DEF WorkType
<1> QED
  BY <1>1, <1>4 DEF TypeOK

\* A reconcile that is given up is put back into the queue.
LEMMA RetryEffect ==
  ASSUME TypeOK, NEW g \in Group, Retry(g)
  PROVE  /\ work' \in [Group -> WorkType]
         /\ work'[g].pc = "idle" /\ work'[g].todo = {} /\ work'[g].inactive = {}
         /\ work'[g].parts = {}
         /\ \A h \in Group \ {g} : work'[h] = work[h]
         /\ queue' = queue \cup {g}
<1>1. Idle \in WorkType
  BY DEF WorkType, Idle
<1>2. Idle.todo = {} /\ Idle.parts = {} /\ Idle.inactive = {} /\ Idle.pc = "idle"
  BY DEF Idle
<1> QED
  BY <1>1, <1>2 DEF TypeOK, Retry

\* The parts take the Service as it is, and the secret if they have one.
Built(p) == [p EXCEPT !.svc = svc, !.auth = IF @ = {} THEN {} ELSE {secret}]

LEMMA BuildEffect ==
  ASSUME TypeOK, NEW g \in Group, Build(g)
  PROVE  /\ work' \in [Group -> WorkType]
         /\ work'[g].pc = "deploy" /\ work'[g].todo = {}
         /\ work'[g].inactive = work[g].inactive
         /\ work'[g].parts = {Built(p) : p \in work[g].parts}
         /\ \A p \in PartType : /\ Built(p) \in PartType
                                /\ Built(p).ing = p.ing /\ Built(p).params = p.params
                                /\ Built(p).svc = svc
                                /\ Built(p).auth # {} <=> p.auth # {}
         /\ \A h \in Group \ {g} : work'[h] = work[h]
<1> DEFINE parts == {Built(p) : p \in work[g].parts}
<1>1. work' = [work EXCEPT ![g].pc = "deploy", ![g].parts = parts]
  BY DEF Build, Built
<1>2. \A p \in PartType : /\ Built(p) \in PartType
                          /\ Built(p).ing = p.ing /\ Built(p).params = p.params
                          /\ Built(p).svc = svc
                          /\ Built(p).auth # {} <=> p.auth # {}
  <2> SUFFICES ASSUME NEW p \in PartType
               PROVE  /\ Built(p) \in PartType
                      /\ Built(p).ing = p.ing /\ Built(p).params = p.params
                      /\ Built(p).svc = svc
                      /\ Built(p).auth # {} <=> p.auth # {}
    OBVIOUS
  <2>1. (secret = 0 \/ secret = 1) /\ svc \in {0, 1}
    BY DEF TypeOK
  <2>2. CASE p.auth = {}
    BY <2>1, <2>2 DEF Built, PartType
  <2>3. CASE p.auth # {}
    BY <2>1, <2>3 DEF Built, PartType
  <2> QED
    BY <2>2, <2>3
<1>3. work[g] \in WorkType /\ work[g].todo = {}
  BY DEF TypeOK, Build
<1>4. parts \subseteq PartType
  BY SMT, <1>2, <1>3 DEF WorkType
<1> HIDE DEF parts
<1>5. /\ work' \in [Group -> WorkType]
      /\ work'[g].pc = "deploy" /\ work'[g].todo = {}
      /\ work'[g].inactive = work[g].inactive /\ work'[g].parts = parts
      /\ \A h \in Group \ {g} : work'[h] = work[h]
  BY <1>1, <1>3, <1>4 DEF TypeOK, WorkType
<1> QED
  BY <1>2, <1>5 DEF parts

\* The load balancer is what was built; the members to let go are left.
LEMMA DeployEffect ==
  ASSUME TypeOK, NEW g \in Group, Deploy(g)
  PROVE  /\ work' \in [Group -> WorkType]
         /\ work'[g].todo = {} /\ work'[g].parts = {}
         /\ work'[g].inactive = work[g].inactive
         /\ work'[g].pc = IF work[g].inactive = {} THEN "idle" ELSE "unfinalize"
         /\ \A h \in Group \ {g} : work'[h] = work[h]
         /\ lb' \in [Group -> SUBSET PartType]
         /\ lb'[g] = work[g].parts
         /\ \A h \in Group \ {g} : lb'[h] = lb[h]
<1> DEFINE w == [Idle EXCEPT !.pc = "unfinalize", !.inactive = work[g].inactive]
<1>1. work' = [work EXCEPT ![g] = IF work[g].inactive = {} THEN Idle ELSE w]
  BY DEF Deploy
<1>2. work[g] \in WorkType
  BY DEF TypeOK
<1>3. Idle \in WorkType /\ w \in WorkType
  BY <1>2 DEF WorkType, Idle
<1>4. /\ Idle.todo = {} /\ Idle.parts = {} /\ Idle.inactive = {} /\ Idle.pc = "idle"
      /\ w.todo = {} /\ w.parts = {} /\ w.inactive = work[g].inactive /\ w.pc = "unfinalize"
  BY DEF Idle
<1> HIDE DEF w
<1>5. /\ work' \in [Group -> WorkType]
      /\ work'[g].todo = {} /\ work'[g].parts = {}
      /\ work'[g].inactive = work[g].inactive
      /\ work'[g].pc = IF work[g].inactive = {} THEN "idle" ELSE "unfinalize"
      /\ \A h \in Group \ {g} : work'[h] = work[h]
  BY <1>1, <1>3, <1>4 DEF TypeOK
<1>6. lb' = [lb EXCEPT ![g] = work[g].parts] /\ work[g].parts \in SUBSET PartType
  BY <1>2 DEF Deploy, WorkType
<1> QED
  BY <1>5, <1>6 DEF TypeOK

-----------------------------------------------------------------------------
(* Steps of the group controller preserve the inductive invariant.         *)

\* The members of a group, and what they are built from, stay as they are.
LEMMA AlikeGroup ==
  ASSUME Alike, NEW h \in Group
  PROVE  /\ Active(h)' = Active(h) /\ Cur' = Cur
         /\ \A p \in PartType : p.ing \in Active(h) /\ Fresh(p) => Fresh(p)'
<1>1. Active(h)' = Active(h)
  BY DEF Alike, Active
<1>2. Cur' = Cur
  BY DEF Alike, Cur
<1>3. ASSUME NEW p \in PartType, p.ing \in Active(h), Fresh(p)
      PROVE  Fresh(p)'
  <2>1. p.ing \in Ingress /\ LoadGroupIDIfAny(p.ing) = h
    BY <1>3 DEF Active
  <2>2. ing'[p.ing].auth = ing[p.ing].auth /\ svc' = svc
    BY <2>1 DEF Alike
  <2> QED
    BY <1>2, <1>3, <2>2 DEF Fresh
<1> QED
  BY <1>1, <1>2, <1>3

\* A group that the step does not work on.
LEMMA OtherGroup ==
  ASSUME TypeOK, Alike, NEW h \in Group, work'[h] = work[h], lb'[h] = lb[h]
  PROVE  /\ Stages(h) => Stages(h)'
         /\ Apart(h) => Apart(h)'
         /\ Current(h) => Current(h)'
<1>1. Parts(h)' = Parts(h) /\ Parts(h) \subseteq PartType
  BY DEF Parts, TypeOK, WorkType
<1>2. ASSUME Current(h) PROVE Current(h)'
  <2>1. \A p \in Parts(h) : p.ing \in Active(h) /\ Fresh(p)
    BY <1>2 DEF Current
  <2>2. \A p \in Parts(h)' : Fresh(p)'
    BY <1>1, <2>1, AlikeGroup
  <2> QED
    BY <1>1, <1>2, <2>2, AlikeGroup DEF Current
<1> QED
  BY <1>1, <1>2 DEF Stages, Apart

LEMMA LoadStep ==
  ASSUME IInv, NEW g \in Group, Load(g)
  PROVE  IInv'
<1>1. TypeOK /\ UNCHANGED cluster
  BY DEF IInv, Load
<1>2. Alike /\ ing' = ing
  BY <1>1, ClusterKept DEF cluster
<1>3. /\ lb' = lb /\ users' = users /\ reflector' = reflector
      /\ queue' = queue \ {g} /\ raced' = raced \ {g}
  BY DEF Load, watches
<1>4. TypeOK'
  BY <1>1, <1>3, ClusterKept, LoadEffect DEF TypeOK, IngTypes
<1>5. ASSUME NEW h \in Group
      PROVE  Stages(h)' /\ Finalized(h)' /\ Apart(h)'
  <2>1. CASE h # g
    <3>1. work'[h] = work[h]
      BY <1>1, <2>1, LoadEffect
    <3>2. Stages(h)' /\ Apart(h)'
      BY <1>1, <1>2, <1>3, <3>1, OtherGroup DEF IInv, StagesInv, ApartInv
    <3> QED
      BY <1>2, <1>3, <3>1, <3>2 DEF IInv, FinalizedInv, Finalized
  <2>2. CASE h = g
    <3>1. Stages(g)' /\ Finalized(g)'
      BY <1>1, <1>2, <1>3, LoadEffect DEF IInv, FinalizedInv, Finalized, Stages
    <3>2. Parts(g)' = {}
      BY <1>1, LoadEffect DEF Parts
    <3>3. Apart(g)'
      BY SMT, <1>1, <3>2, LoadEffect DEF Apart, Inactive
    <3> QED
      BY <2>2, <3>1, <3>3
  <2> QED
    BY <2>1, <2>2
<1>6. ASSUME NEW h \in Group, h \notin queue' \cup raced'
      PROVE  Current(h)'
  <2>1. CASE h # g
    <3>1. Current(h)
      BY <1>3, <1>6, <2>1 DEF IInv, CurrentInv
    <3> QED
      BY <1>1, <1>2, <1>3, <2>1, <3>1, LoadEffect, OtherGroup
  <2>2. CASE h = g
    <3>1. Parts(g)' = {}
      BY <1>1, LoadEffect DEF Parts
    <3>2. Current(g)'
      BY <1>1, <1>2, <3>1, AlikeGroup, LoadEffect DEF Current
    <3> QED
      BY <2>2, <3>2
  <2> QED
    BY <2>1, <2>2
<1>7. WatchedInv'
  BY <1>1, <1>3, LoadEffect DEF IInv, WatchedInv
<1> QED
  BY <1>4, <1>5, <1>6, <1>7 DEF IInv, StagesInv, FinalizedInv, ApartInv, CurrentInv

LEMMA AddStep ==
  ASSUME IInv, NEW g \in Group, AddGroupFinalizer(g)
  PROVE  IInv'
<1>1. TypeOK
  BY DEF IInv
<1>2. PICK i \in work[g].todo :
        /\ IngTypes' /\ Alike
        /\ \A j \in Ingress : ing[j].fin \subseteq ing'[j].fin
        /\ g \in ing'[i].fin
        /\ work' \in [Group -> WorkType]
        /\ work'[g].todo = work[g].todo \ {i}
        /\ work'[g].parts = work[g].parts \cup {Part(i, work[g].params)}
        /\ work'[g].pc = work[g].pc /\ work'[g].params = work[g].params
        /\ work'[g].inactive = work[g].inactive
        /\ \A h \in Group \ {g} : work'[h] = work[h]
  BY <1>1, AddEffect
<1>3. /\ lb' = lb /\ users' = users /\ reflector' = reflector
      /\ queue' = queue /\ raced' = raced /\ secret' = secret
      /\ class' = class /\ params' = params /\ svc' = svc
      /\ work[g].pc = "finalize"
  BY DEF AddGroupFinalizer, watches, At
<1>4. TypeOK'
  BY <1>1, <1>2, <1>3 DEF TypeOK, IngTypes
<1>5. i \in Ingress /\ work[g] \in WorkType
  BY <1>1, <1>2 DEF TypeOK, WorkType
<1>6. PICK part \in PartType :
        /\ part = Part(i, work[g].params) /\ part.ing = i /\ part.svc = svc
        /\ part.params = (IF annotated[i] THEN "none" ELSE work[g].params)
        /\ part.auth # {} <=> ing[i].auth
  <2> DEFINE new == Part(i, work[g].params)
  <2>1. new \in PartType
    BY <1>1, <1>5, PartTyped DEF WorkType
  <2>2. /\ new.ing = i /\ new.svc = svc
        /\ new.params = (IF annotated[i] THEN "none" ELSE work[g].params)
        /\ new.auth # {} <=> ing[i].auth
    BY DEF Part
  <2> HIDE DEF new
  <2> QED
    BY <2>1, <2>2 DEF new
<1>7. ASSUME NEW h \in Group
      PROVE  Stages(h)' /\ Finalized(h)' /\ Apart(h)'
  <2>1. CASE h # g
    <3>1. Stages(h)' /\ Apart(h)'
      BY <1>1, <1>2, <1>3, <2>1, OtherGroup DEF IInv, StagesInv, ApartInv
    <3>2. \A p \in lb[h] \cup work[h].parts : p.ing \in Ingress
      BY SMT, <1>1 DEF TypeOK, WorkType, PartType
    <3> QED
      BY <1>2, <1>3, <2>1, <3>1, <3>2 DEF IInv, FinalizedInv, Finalized
  <2>2. CASE h = g
    <3>1. Stages(g)'
      BY <1>2, <1>3 DEF IInv, StagesInv, Stages
    <3>2. \A p \in lb[g] \cup work[g].parts : p.ing \in Ingress
      BY SMT, <1>1 DEF TypeOK, WorkType, PartType
    <3>3. Finalized(g)'
      BY <1>2, <1>3, <1>6, <3>2 DEF IInv, FinalizedInv, Finalized
    <3>4. Parts(g) = work[g].parts /\ Parts(g)' = work[g].parts \cup {part}
      BY <1>2, <1>3, <1>6 DEF Parts
    <3>5. Apart(g)'
      BY SMTT(30), <1>2, <1>6, <3>4 DEF IInv, ApartInv, Apart
    <3> QED
      BY <2>2, <3>1, <3>3, <3>5
  <2> QED
    BY <2>1, <2>2
<1>8. ASSUME NEW h \in Group, h \notin queue' \cup raced'
      PROVE  Current(h)'
  <2>1. Current(h)
    BY <1>3, <1>8 DEF IInv, CurrentInv
  <2>2. CASE h # g
    BY <1>1, <1>2, <1>3, <2>1, <2>2, OtherGroup
  <2>3. CASE h = g
    <3>1. Parts(g) = work[g].parts /\ Parts(g)' = work[g].parts \cup {part}
      BY <1>2, <1>3, <1>6 DEF Parts
    <3>2. Active(g)' = work'[g].todo \cup {p.ing : p \in Parts(g)'}
      BY SMT, <1>2, <1>6, <2>1, <2>3, <3>1, AlikeGroup DEF Current
    <3>3. i \in Active(g) /\ (annotated[i] \/ work[g].params = Cur)
      BY <1>2, <2>1, <2>3 DEF Current
    <3>4. Fresh(part)
      BY <1>6, <3>3 DEF Fresh
    <3>5. Fresh(part)'
      BY <1>2, <1>6, <3>3, <3>4, AlikeGroup
    <3>6. \A p \in work[g].parts : p \in PartType /\ p.ing \in Active(g) /\ Fresh(p)
      BY <1>5, <2>1, <2>3, <3>1 DEF Current, WorkType
    <3>7. \A p \in Parts(g)' : Fresh(p)'
      BY <1>2, <3>1, <3>5, <3>6, AlikeGroup
    <3>8. \A j \in work'[g].todo : annotated[j] \/ work'[g].params = Cur'
      BY <1>2, <2>1, <2>3, AlikeGroup DEF Current
    <3> QED
      BY <2>3, <3>2, <3>7, <3>8 DEF Current
  <2> QED
    BY <2>2, <2>3
<1>9. WatchedInv'
  BY <1>2, <1>3 DEF IInv, WatchedInv
<1> QED
  BY <1>4, <1>7, <1>8, <1>9 DEF IInv, StagesInv, FinalizedInv, ApartInv, CurrentInv

\* A reconcile that fails, or finds an Ingress gone, is begun anew.
LEMMA RetryStep ==
  ASSUME IInv, NEW g \in Group, Retry(g), UNCHANGED <<cluster, lb, watches, raced>>
  PROVE  IInv'
<1>1. TypeOK
  BY DEF IInv
<1>2. /\ Alike /\ ing' = ing /\ lb' = lb /\ users' = users /\ reflector' = reflector
      /\ queue' = queue \cup {g} /\ raced' = raced
  BY <1>1, ClusterKept, RetryEffect DEF cluster, watches
<1>3. TypeOK'
  BY <1>1, <1>2, ClusterKept, RetryEffect DEF TypeOK, IngTypes
<1>4. ASSUME NEW h \in Group
      PROVE  Stages(h)' /\ Finalized(h)' /\ Apart(h)'
  <2>1. CASE h # g
    <3>1. work'[h] = work[h]
      BY <1>1, <2>1, RetryEffect
    <3>2. Stages(h)' /\ Apart(h)'
      BY <1>1, <1>2, <3>1, OtherGroup DEF IInv, StagesInv, ApartInv
    <3> QED
      BY <1>2, <3>1, <3>2 DEF IInv, FinalizedInv, Finalized
  <2>2. CASE h = g
    BY <1>1, <1>2, <2>2, RetryEffect DEF IInv, FinalizedInv, Finalized, Stages, Apart
  <2> QED
    BY <2>1, <2>2
<1>5. ASSUME NEW h \in Group, h \notin queue' \cup raced'
      PROVE  Current(h)'
  <2>1. h # g /\ Current(h)
    BY <1>2, <1>5 DEF IInv, CurrentInv
  <2> QED
    BY <1>1, <1>2, <2>1, RetryEffect, OtherGroup
<1>6. WatchedInv'
  BY <1>1, <1>2, RetryEffect DEF IInv, WatchedInv
<1> QED
  BY <1>3, <1>4, <1>5, <1>6 DEF IInv, StagesInv, FinalizedInv, ApartInv, CurrentInv

LEMMA BuildStep ==
  ASSUME IInv, NEW g \in Group, Build(g)
  PROVE  IInv'
<1>1. TypeOK /\ UNCHANGED cluster
  BY DEF IInv, Build
<1>2. /\ Alike /\ ing' = ing /\ lb' = lb /\ users' = users /\ reflector' = reflector
      /\ queue' = queue /\ raced' = raced /\ work[g].pc = "finalize" /\ work[g].todo = {}
  BY <1>1, ClusterKept DEF cluster, watches, Build, At
<1>3. TypeOK'
  BY <1>1, <1>2, ClusterKept, BuildEffect DEF TypeOK, IngTypes
<1>4. \A p \in work[g].parts : p \in PartType
  BY <1>1 DEF TypeOK, WorkType
<1>5. /\ Parts(g) = work[g].parts
      /\ \A q \in Parts(g)' : \E p \in work[g].parts :
           /\ q.ing = p.ing /\ q.params = p.params /\ q.svc = svc
           /\ q.auth # {} <=> p.auth # {}
      /\ \A p \in work[g].parts : \E q \in Parts(g)' : q.ing = p.ing
  BY SMT, <1>1, <1>2, <1>4, BuildEffect DEF Parts
<1>6. ASSUME NEW h \in Group
      PROVE  Stages(h)' /\ Finalized(h)' /\ Apart(h)'
  <2>1. CASE h # g
    <3>1. work'[h] = work[h]
      BY <1>1, <2>1, BuildEffect
    <3>2. Stages(h)' /\ Apart(h)'
      BY <1>1, <1>2, <3>1, OtherGroup DEF IInv, StagesInv, ApartInv
    <3> QED
      BY <1>2, <3>1, <3>2 DEF IInv, FinalizedInv, Finalized
  <2>2. CASE h = g
    <3>1. Stages(g)'
      BY <1>1, BuildEffect DEF Stages
    <3>2. Parts(g)' = work'[g].parts
      BY <1>1, BuildEffect DEF Parts
    <3>3. Finalized(g)'
      BY SMT, <1>2, <1>5, <3>2 DEF IInv, FinalizedInv, Finalized
    <3>4. Apart(g)'
      BY SMT, <1>1, <1>5, BuildEffect DEF IInv, ApartInv, Apart
    <3> QED
      BY <2>2, <3>1, <3>3, <3>4
  <2> QED
    BY <2>1, <2>2
<1>7. ASSUME NEW h \in Group, h \notin queue' \cup raced'
      PROVE  Current(h)'
  <2>1. Current(h)
    BY <1>2, <1>7 DEF IInv, CurrentInv
  <2>2. CASE h # g
    BY <1>1, <1>2, <2>1, <2>2, BuildEffect, OtherGroup
  <2>3. CASE h = g
    <3>1. Active(g)' = work'[g].todo \cup {p.ing : p \in Parts(g)'}
      BY SMT, <1>1, <1>2, <1>5, <2>1, <2>3, AlikeGroup, BuildEffect DEF Current
    <3>2. svc' = svc /\ Cur' = Cur
      BY <1>2, AlikeGroup DEF Alike
    <3>3. ASSUME NEW q \in Parts(g)' PROVE Fresh(q)'
      <4>1. PICK p \in work[g].parts :
              /\ q.ing = p.ing /\ q.params = p.params /\ q.svc = svc
              /\ q.auth # {} <=> p.auth # {}
        BY <1>5
      <4>2. Fresh(p)
        BY <1>5, <2>1, <2>3 DEF Current
      <4> QED
        BY <1>2, <3>2, <4>1, <4>2 DEF Fresh
    <3>4. work'[g].todo = {}
      BY <1>1, BuildEffect
    <3> QED
      BY <2>3, <3>1, <3>3, <3>4 DEF Current
  <2> QED
    BY <2>2, <2>3
<1>8. WatchedInv'
  BY <1>1, <1>2, BuildEffect DEF IInv, WatchedInv
<1> QED
  BY <1>3, <1>6, <1>7, <1>8 DEF IInv, StagesInv, FinalizedInv, ApartInv, CurrentInv

LEMMA DeployStep ==
  ASSUME IInv, NEW g \in Group, Deploy(g)
  PROVE  IInv'
<1>1. TypeOK /\ UNCHANGED cluster
  BY DEF IInv, Deploy
<1>2. /\ Alike /\ ing' = ing /\ queue' = queue /\ raced' = raced /\ work[g].pc = "deploy"
      /\ MonitorSecrets(g, \E p \in work[g].parts : p.auth # {})
  BY <1>1, ClusterKept DEF cluster, Deploy, At
<1>3. users' \subseteq Group /\ reflector' \in {"none", "starting", "watching"}
  BY <1>1, <1>2, MonitorTyped
<1>4. TypeOK'
  BY <1>1, <1>2, <1>3, ClusterKept, DeployEffect DEF TypeOK, IngTypes
<1>5. work[g].todo = {} /\ Parts(g) = work[g].parts /\ Parts(g)' = work[g].parts
  BY <1>1, <1>2, DeployEffect DEF IInv, StagesInv, Stages, Parts
<1>6. ASSUME NEW h \in Group
      PROVE  Stages(h)' /\ Finalized(h)' /\ Apart(h)'
  <2>1. CASE h # g
    <3>1. work'[h] = work[h] /\ lb'[h] = lb[h]
      BY <1>1, <2>1, DeployEffect
    <3>2. Stages(h)' /\ Apart(h)'
      BY <1>1, <1>2, <3>1, OtherGroup DEF IInv, StagesInv, ApartInv
    <3> QED
      BY <1>2, <3>1, <3>2 DEF IInv, FinalizedInv, Finalized
  <2>2. CASE h = g
    <3>1. Stages(g)'
      BY <1>1, DeployEffect DEF Stages
    <3>2. Finalized(g)'
      BY <1>1, <1>2, DeployEffect DEF IInv, FinalizedInv, Finalized
    <3>3. Apart(g)'
      BY SMT, <1>1, <1>5, DeployEffect DEF IInv, ApartInv, Apart
    <3> QED
      BY <2>2, <3>1, <3>2, <3>3
  <2> QED
    BY <2>1, <2>2
<1>7. ASSUME NEW h \in Group, h \notin queue' \cup raced'
      PROVE  Current(h)'
  <2>1. Current(h)
    BY <1>2, <1>7 DEF IInv, CurrentInv
  <2>2. CASE h # g
    BY <1>1, <1>2, <2>1, <2>2, DeployEffect, OtherGroup
  <2>3. CASE h = g
    <3>1. Parts(g) \subseteq PartType
      BY SMT, <1>1, <1>5 DEF TypeOK, WorkType
    <3>2. \A p \in Parts(g) : p.ing \in Active(g) /\ Fresh(p)
      BY <2>1, <2>3 DEF Current
    <3>3. \A p \in Parts(g)' : Fresh(p)'
      BY <1>2, <1>5, <3>1, <3>2, AlikeGroup
    <3> QED
      BY <1>1, <1>2, <1>5, <2>1, <2>3, <3>3, AlikeGroup, DeployEffect DEF Current
  <2> QED
    BY <2>2, <2>3
<1>8. WatchedInv'
  <2>1. reflector' = "none" <=> users' = {}
    BY <1>2 DEF IInv, WatchedInv, MonitorSecrets
  <2>2. ASSUME NEW h \in Group \ queue', work'[h].pc \in {"idle", "unfinalize"}
        PROVE  h \in users' <=> \E p \in lb'[h] : p.auth # {}
    <3>1. CASE h # g
      <4>1. work'[h] = work[h] /\ lb'[h] = lb[h]
        BY <1>1, <3>1, DeployEffect
      <4>2. h \in users' <=> h \in users
        BY <1>2, <3>1 DEF MonitorSecrets
      <4> QED
        BY <1>2, <2>2, <4>1, <4>2 DEF IInv, WatchedInv
    <3>2. CASE h = g
      BY <1>1, <1>2, <3>2, DeployEffect DEF MonitorSecrets
    <3> QED
      BY <3>1, <3>2
  <2> QED
    BY <2>1, <2>2 DEF WatchedInv
<1> QED
  BY <1>4, <1>6, <1>7, <1>8 DEF IInv, StagesInv, FinalizedInv, ApartInv, CurrentInv

LEMMA RemoveStep ==
  ASSUME IInv, NEW g \in Group, RemoveGroupFinalizer(g)
  PROVE  IInv'
<1>1. TypeOK /\ StagesInv
  BY DEF IInv
<1>2. PICK i \in work[g].inactive :
        /\ IngTypes' /\ Alike
        /\ \A j \in Ingress : ing[j].fin \ {g} \subseteq ing'[j].fin
        /\ \A j \in Ingress \ {i} : ing'[j] = ing[j]
        /\ work' \in [Group -> WorkType]
        /\ work'[g].todo = {} /\ work'[g].parts = {}
        /\ work'[g].inactive = work[g].inactive \ {i}
        /\ work'[g].pc = IF work[g].inactive = {i} THEN "idle" ELSE "unfinalize"
        /\ \A h \in Group \ {g} : work'[h] = work[h]
  BY <1>1, RemoveEffect
<1>3. /\ lb' = lb /\ users' = users /\ reflector' = reflector
      /\ queue' = queue /\ raced' = raced /\ secret' = secret
      /\ class' = class /\ params' = params /\ svc' = svc
      /\ work[g].pc = "unfinalize"
  BY DEF RemoveGroupFinalizer, watches, At
<1>4. TypeOK'
  BY <1>1, <1>2, <1>3 DEF TypeOK, IngTypes
<1>5. work[g].todo = {} /\ Parts(g) = lb[g] /\ Parts(g)' = lb[g]
  BY <1>1, <1>2, <1>3 DEF StagesInv, Stages, Parts
<1>6. ASSUME NEW h \in Group
      PROVE  Stages(h)' /\ Finalized(h)' /\ Apart(h)'
  <2>1. \A p \in lb[h] \cup work[h].parts : p.ing \in Ingress /\ h \in ing[p.ing].fin
    BY SMT, <1>1 DEF TypeOK, WorkType, PartType, IInv, FinalizedInv, Finalized
  <2>2. CASE h # g
    <3>1. Stages(h)' /\ Apart(h)'
      BY <1>1, <1>2, <1>3, <2>2, OtherGroup DEF IInv, StagesInv, ApartInv
    <3>2. Finalized(h)'
      BY <1>2, <1>3, <2>1, <2>2 DEF Finalized
    <3> QED
      BY <3>1, <3>2
  <2>3. CASE h = g
    <3>1. Stages(g)'
      BY <1>2 DEF Stages
    <3>2. \A p \in lb[g] : p.ing # i
      BY SMT, <1>2, <1>5 DEF IInv, ApartInv, Apart
    <3>3. Finalized(g)'
      BY <1>2, <1>3, <2>1, <2>3, <3>2 DEF Finalized
    <3>4. Apart(g)'
      BY SMT, <1>2, <1>5 DEF IInv, ApartInv, Apart
    <3> QED
      BY <2>3, <3>1, <3>3, <3>4
  <2> QED
    BY <2>2, <2>3
<1>7. ASSUME NEW h \in Group, h \notin queue' \cup raced'
      PROVE  Current(h)'
  <2>1. Current(h)
    BY <1>3, <1>7 DEF IInv, CurrentInv
  <2>2. CASE h # g
    BY <1>1, <1>2, <1>3, <2>1, <2>2, OtherGroup
  <2>3. CASE h = g
    <3>1. Parts(g) \subseteq PartType
      BY <1>1, <1>5 DEF TypeOK
    <3>2. \A p \in Parts(g) : p.ing \in Active(g) /\ Fresh(p)
      BY <2>1, <2>3 DEF Current
    <3>3. \A p \in Parts(g)' : Fresh(p)'
      BY <1>2, <1>5, <3>1, <3>2, AlikeGroup
    <3> QED
      BY <1>2, <1>5, <2>1, <2>3, <3>3, AlikeGroup DEF Current
  <2> QED
    BY <2>2, <2>3
<1>8. WatchedInv'
  BY <1>2, <1>3 DEF IInv, WatchedInv
<1> QED
  BY <1>4, <1>6, <1>7, <1>8 DEF IInv, StagesInv, FinalizedInv, ApartInv, CurrentInv

-----------------------------------------------------------------------------
(* The reflector, and a restart of the controller.                         *)

\* The reflector lists, or loses its watch.
LEMMA ReflectorStep ==
  ASSUME IInv, ReflectorLists \/ WatchBreaks
  PROVE  IInv'
<1>1. /\ TypeOK /\ UNCHANGED cluster /\ ing' = ing /\ work' = work /\ lb' = lb
      /\ queue' = queue /\ raced' = raced /\ users' = users
      /\ reflector # "none" /\ reflector' # "none"
      /\ reflector' \in {"none", "starting", "watching"}
  BY DEF IInv, ReflectorLists, WatchBreaks, cluster
<1>2. Alike /\ TypeOK'
  BY <1>1, ClusterKept DEF TypeOK, IngTypes
<1>3. StagesInv' /\ ApartInv'
  BY <1>1, <1>2, OtherGroup DEF IInv, StagesInv, ApartInv
<1>4. FinalizedInv'
  BY <1>1 DEF IInv, FinalizedInv, Finalized
<1>5. CurrentInv'
  BY <1>1, <1>2, OtherGroup DEF IInv, CurrentInv
<1>6. WatchedInv'
  BY <1>1 DEF IInv, WatchedInv
<1> QED
  BY <1>2, <1>3, <1>4, <1>5, <1>6 DEF IInv

\* A group that no Ingress is of, nor has the finalizer of, has no load
\* balancer: the events after a restart are enough.
LEMMA RestartStep ==
  ASSUME IInv, Restart
  PROVE  IInv'
<1>1. /\ TypeOK /\ UNCHANGED cluster /\ ing' = ing /\ lb' = lb /\ raced' = {}
      /\ work' = [g \in Group |-> Idle] /\ users' = {} /\ reflector' = "none"
      /\ queue' = UNION {enqueueIfBelongsToGroup(i) : i \in Ingress}
  BY DEF IInv, Restart, cluster
<1>2. /\ Idle \in WorkType
      /\ Idle.todo = {} /\ Idle.parts = {} /\ Idle.inactive = {} /\ Idle.pc = "idle"
  BY DEF WorkType, Idle
<1>3. queue' \subseteq Group
  BY <1>1 DEF enqueueIfBelongsToGroup
<1>4. Alike /\ TypeOK'
  BY <1>1, <1>2, <1>3, ClusterKept DEF TypeOK, IngTypes
<1>5. \A g \in Group : /\ work'[g].todo = {} /\ work'[g].parts = {} /\ work'[g].inactive = {}
                       /\ work'[g].pc = "idle" /\ Parts(g)' = lb[g]
  BY <1>1, <1>2 DEF Parts
<1>6. StagesInv' /\ ApartInv' /\ FinalizedInv'
  BY <1>1, <1>5 DEF IInv, StagesInv, Stages, ApartInv, Apart, FinalizedInv, Finalized
<1>7. ASSUME NEW g \in Group, g \notin queue'
      PROVE  lb[g] = {} /\ Active(g) = {}
  <2>1. \A i \in Ingress : g \notin ing[i].fin /\ LoadGroupIDIfAny(i) # g
    BY SMT, <1>1, <1>7 DEF enqueueIfBelongsToGroup, LoadGroupIDsPendingFinalization
  <2>2. \A p \in lb[g] : p.ing \in Ingress /\ g \in ing[p.ing].fin
    BY SMT, <1>1 DEF IInv, FinalizedInv, Finalized, TypeOK, PartType
  <2> QED
    BY <2>1, <2>2 DEF Active
<1>8. CurrentInv'
  BY SMT, <1>4, <1>5, <1>7, AlikeGroup DEF CurrentInv, Current
<1>9. WatchedInv'
  BY <1>1, <1>7 DEF WatchedInv
<1> QED
  BY <1>4, <1>6, <1>8, <1>9 DEF IInv

-----------------------------------------------------------------------------
(* Changes in the cluster, and the events they cause.                      *)

\* A change of which no event leads to the group, nor races with it, leaves
\* its members and what they are built from as they are: an Ingress that the
\* group was built from has its finalizer, so that its event would lead to
\* the group.
LEMMA EventStep ==
  ASSUME IInv, IngTypes', NEW I \in SUBSET Ingress, Enqueue(I),
         UNCHANGED <<work, lb, users, reflector>>,
         class' \in {"absent", "foreign", "alb", "params"}, params' \in Params,
         svc' \in {0, 1}, secret' \in {0, 1},
         \A i \in Ingress : ing'[i].fin = ing[i].fin,
         \A i \in Ingress \ I :
           /\ LoadGroupIDIfAny(i)' = LoadGroupIDIfAny(i)
           /\ LoadGroupIDIfAny(i) \in Group =>
                /\ ing'[i].auth = ing[i].auth /\ svc' = svc
                /\ annotated[i] \/ Cur' = Cur
  PROVE  IInv'
<1>1. /\ TypeOK /\ work' = work /\ lb' = lb /\ users' = users /\ reflector' = reflector
  BY DEF IInv
<1>2. TypeOK'
  BY <1>1, EnqueueTyped DEF TypeOK, IngTypes
<1>3. StagesInv' /\ ApartInv' /\ FinalizedInv'
  <2>1. \A g \in Group, p \in PartType : p \in lb[g] \cup work[g].parts => p.ing \in Ingress
    BY DEF PartType
  <2>2. \A g \in Group : lb[g] \cup work[g].parts \subseteq PartType
    BY <1>1 DEF TypeOK, WorkType
  <2>3. FinalizedInv'
    BY <1>1, <2>1, <2>2 DEF IInv, FinalizedInv, Finalized
  <2>4. StagesInv' /\ ApartInv'
    BY <1>1 DEF IInv, StagesInv, Stages, ApartInv, Apart, Parts
  <2> QED
    BY <2>3, <2>4
<1>4. ASSUME NEW g \in Group, g \notin queue' \cup raced'
      PROVE  Current(g)'
  <2>1. /\ g \notin queue \cup raced
        /\ \A i \in I : g \notin ing'[i].fin /\ LoadGroupIDIfAny(i)' # g
        /\ ~Unaware(g)
    BY SMT, <1>4 DEF Enqueue, enqueueIfBelongsToGroup, LoadGroupIDsPendingFinalization
  <2>2. Current(g)
    BY <2>1 DEF IInv, CurrentInv
  <2>3. Parts(g)' = Parts(g) /\ Parts(g) \subseteq PartType
        /\ Parts(g) \subseteq lb[g] \cup work[g].parts
    BY <1>1 DEF Parts, TypeOK, WorkType
  <2>4. \A p \in Parts(g) : p.ing \in Ingress /\ g \in ing[p.ing].fin
    BY <2>3 DEF PartType, IInv, FinalizedInv, Finalized
  <2>5. \A i \in work[g].todo : i \in Ingress /\ g \in ing[i].fin
    BY <1>1, <2>1 DEF Unaware, IInv, StagesInv, Stages, TypeOK, WorkType
  <2>6. \A i \in Active(g) : i \in Ingress /\ g \in ing[i].fin
    BY <2>2, <2>4, <2>5 DEF Current
  <2>7. \A i \in Active(g) : i \notin I
    BY <2>1, <2>6
  <2>8. Active(g)' = Active(g)
    BY <2>1, <2>7 DEF Active
  <2>9. \A i \in Active(g) : ing'[i].auth = ing[i].auth /\ svc' = svc /\ (annotated[i] \/ Cur' = Cur)
    BY <2>7 DEF Active
  <2>10. \A p \in Parts(g) : p.ing \in Active(g) /\ Fresh(p)
    BY <2>2 DEF Current
  <2>11. ASSUME NEW p \in Parts(g) PROVE Fresh(p)'
    <3>1. /\ ing'[p.ing].auth = ing[p.ing].auth /\ svc' = svc
          /\ annotated[p.ing] \/ Cur' = Cur
          /\ Fresh(p)
      BY <2>9, <2>10
    <3> QED
      BY <3>1 DEF Fresh
  <2>12. \A i \in work[g].todo : annotated[i] \/ work[g].params = Cur'
    BY <2>2, <2>9 DEF Current
  <2> QED
    BY <1>1, <2>2, <2>3, <2>8, <2>11, <2>12 DEF Current
<1>5. WatchedInv'
  BY <1>1 DEF IInv, WatchedInv, Enqueue
<1> QED
  BY <1>2, <1>3, <1>4, <1>5 DEF IInv, CurrentInv

\* One Ingress is edited, created or deleted.
LEMMA EditStep ==
  ASSUME IInv, NEW i \in Ingress, EditIngress(i) \/ CreateIngress(i) \/ DeleteIngress(i)
  PROVE  IInv'
<1>1. /\ TypeOK /\ UNCHANGED <<work, lb, users, reflector>> /\ Enqueue({i})
      /\ class' = class /\ params' = params /\ svc' = svc /\ secret' = secret
  BY DEF IInv, EditIngress, CreateIngress, DeleteIngress, Editing, watches
<1>2. /\ IngTypes'
      /\ \A j \in Ingress : ing'[j].fin = ing[j].fin
      /\ \A j \in Ingress \ {i} : ing'[j] = ing[j]
  BY <1>1, EditEffect
<1>3. \A j \in Ingress \ {i} : LoadGroupIDIfAny(j)' = LoadGroupIDIfAny(j)
  BY <1>1, <1>2, SameGroup
<1>4. Cur' = Cur
  BY <1>1 DEF Cur
<1> QED
  BY <1>1, <1>2, <1>3, <1>4, EventStep DEF TypeOK

\* An Ingress that does not exist is of no group.
LEMMA GoneGroup ==
  ASSUME NEW j \in Ingress, ~ing[j].exists
  PROVE  LoadGroupIDIfAny(j) = "none" /\ LoadGroupIDIfAny(j) \notin Group
BY IngressAssumption DEF LoadGroupIDIfAny, Group

\* The class does not matter to an Ingress claimed by its annotation.
LEMMA AnnotatedGroup ==
  ASSUME TypeOK, NEW j \in Ingress, annotated[j], ing' = ing
  PROVE  LoadGroupIDIfAny(j)' = LoadGroupIDIfAny(j)
<1>1. classifyIngress(j) = "match" /\ classifyIngress(j)' = "match"
  BY DEF classifyIngress
<1>2. ing[j].group \in {"own", "g", "bad"}
  BY DEF TypeOK, IngressType
<1>3. loadGroupID(j)' = loadGroupID(j)
  BY <1>2 DEF loadGroupID
<1> QED
  BY <1>1, <1>3 DEF LoadGroupIDIfAny

\* The Service is edited: the event goes to every Ingress there is.
LEMMA ServiceStep ==
  ASSUME IInv, EditService
  PROVE  IInv'
<1>1. /\ TypeOK /\ UNCHANGED <<work, lb, users, reflector>> /\ Enqueue(Referring)
      /\ ing' = ing /\ class' = class /\ params' = params /\ secret' = secret
      /\ svc' = 1 - svc
  BY DEF IInv, EditService, Editing, watches
<1>2. IngTypes' /\ svc' \in {0, 1} /\ Referring \in SUBSET Ingress
  BY SMT, <1>1 DEF TypeOK, IngTypes, Referring
<1>3. \A j \in Ingress : LoadGroupIDIfAny(j)' = LoadGroupIDIfAny(j)
  BY <1>1, SameGroup
<1>4. \A j \in Ingress \ Referring : LoadGroupIDIfAny(j) \notin Group
  BY GoneGroup DEF Referring
<1> QED
  BY <1>1, <1>2, <1>3, <1>4, EventStep DEF TypeOK

\* The class is edited: the event goes to the Ingresses that name it.
LEMMA ClassStep ==
  ASSUME IInv, EditClass
  PROVE  IInv'
<1>1. /\ TypeOK /\ UNCHANGED <<work, lb, users, reflector>> /\ Enqueue(OfClass)
      /\ ing' = ing /\ params' = params /\ secret' = secret /\ svc' = svc
      /\ class' \in {"absent", "foreign", "alb", "params"}
  BY DEF IInv, EditClass, Editing, watches
<1>2. IngTypes' /\ OfClass \in SUBSET Ingress
  BY <1>1 DEF TypeOK, IngTypes, OfClass, Referring
<1>3. ASSUME NEW j \in Ingress \ OfClass
      PROVE  /\ LoadGroupIDIfAny(j)' = LoadGroupIDIfAny(j)
             /\ LoadGroupIDIfAny(j) \in Group => annotated[j]
  <2>1. CASE annotated[j]
    BY <1>1, <2>1, AnnotatedGroup
  <2>2. CASE ~annotated[j]
    <3>1. ~ing[j].exists /\ ~ing'[j].exists
      BY <1>1, <1>3, <2>2 DEF OfClass, Referring
    <3>2. LoadGroupIDIfAny(j) = "none" /\ LoadGroupIDIfAny(j)' = "none"
      BY <3>1 DEF LoadGroupIDIfAny
    <3> QED
      BY <3>1, <3>2, GoneGroup
  <2> QED
    BY <2>1, <2>2
<1> QED
  BY <1>1, <1>2, <1>3, EventStep DEF TypeOK

\* The parameters are edited: the event goes to the Ingresses of the class,
\* if it refers to them.
LEMMA ParamsStep ==
  ASSUME IInv, EditParams
  PROVE  IInv'
<1>1. /\ TypeOK /\ UNCHANGED <<work, lb, users, reflector>> /\ Enqueue(OfParams)
      /\ ing' = ing /\ class' = class /\ secret' = secret /\ svc' = svc
      /\ params' \in Params
  BY DEF IInv, EditParams, Editing, watches, Params
<1>2. IngTypes' /\ OfParams \in SUBSET Ingress
  BY <1>1 DEF TypeOK, IngTypes, OfParams, OfClass, Referring
<1>3. ASSUME NEW j \in Ingress \ OfParams
      PROVE  /\ LoadGroupIDIfAny(j)' = LoadGroupIDIfAny(j)
             /\ LoadGroupIDIfAny(j) \in Group => annotated[j] \/ Cur' = Cur
  <2>1. CASE annotated[j]
    BY <1>1, <2>1, AnnotatedGroup
  <2>2. CASE class # "params"
    <3>1. LoadClass' = LoadClass /\ Cur' = Cur
      BY <1>1, <2>2 DEF LoadClass, Cur
    <3>2. classifyIngress(j)' = classifyIngress(j)
      BY <3>1 DEF classifyIngress
    <3>3. ing[j].group \in {"own", "g", "bad"}
      BY <1>1 DEF TypeOK, IngressType
    <3>4. loadGroupID(j)' = loadGroupID(j)
      BY <1>1, <2>2, <3>3 DEF loadGroupID
    <3> QED
      BY <1>1, <3>1, <3>2, <3>4 DEF LoadGroupIDIfAny
  <2>3. CASE ~annotated[j] /\ class = "params"
    <3>1. ~ing[j].exists /\ ~ing'[j].exists
      BY <1>1, <1>3, <2>3 DEF OfParams, OfClass, Referring
    <3>2. LoadGroupIDIfAny(j) = "none" /\ LoadGroupIDIfAny(j)' = "none"
      BY <3>1 DEF LoadGroupIDIfAny
    <3> QED
      BY <3>1, <3>2, GoneGroup
  <2> QED
    BY <2>1, <2>2, <2>3
<1> QED
  BY <1>1, <1>2, <1>3, EventStep DEF TypeOK

\* The secret is edited, or the informer repeats what it knows: neither
\* changes what a group is built from, but for what the secret holds.
LEMMA QuietStep ==
  ASSUME IInv, EditSecret \/ Resync
  PROVE  IInv'
<1>1. /\ TypeOK /\ UNCHANGED <<work, lb, users, reflector>>
      /\ ing' = ing /\ class' = class /\ params' = params /\ svc' = svc
      /\ Enqueue(SecretEvents) \/ Enqueue(Referring)
  BY DEF IInv, EditSecret, Resync, Editing, watches, cluster
<1>2. IngTypes' /\ SecretEvents \in SUBSET Ingress /\ Referring \in SUBSET Ingress
  BY <1>1 DEF TypeOK, IngTypes, SecretEvents, OfSecret, Referring
<1>3. \A j \in Ingress : LoadGroupIDIfAny(j)' = LoadGroupIDIfAny(j)
  BY <1>1, SameGroup
<1>4. Cur' = Cur
  BY <1>1 DEF Cur
<1>5. secret' \in {0, 1}
  BY SMT, <1>1 DEF TypeOK, EditSecret, Resync, cluster
<1> QED
  BY <1>1, <1>2, <1>3, <1>4, <1>5, EventStep DEF TypeOK

-----------------------------------------------------------------------------
(* The theorems.                                                           *)

LEMMA InitInv == Init => IInv
<1> SUFFICES ASSUME Init PROVE IInv
  OBVIOUS
<1>1. \A i \in Ingress : /\ ing[i] \in IngressType /\ ing[i].fin = {} /\ ing[i].exists
                         /\ ing[i].deleting = FALSE /\ ing[i].group = "own"
  BY DEF Init, Absent, IngressType
<1>2. \A g \in Group : /\ work[g] \in WorkType /\ work[g].pc = "idle" /\ work[g].todo = {}
                       /\ work[g].inactive = {} /\ work[g].parts = {} /\ lb[g] = {}
                       /\ Parts(g) = {}
  BY DEF Init, Idle, WorkType, Parts
<1>3. TypeOK
  BY <1>1, <1>2 DEF TypeOK, Init, Params, Group
<1>4. ASSUME NEW i \in Ingress PROVE LoadGroupIDIfAny(i) = i
  <2>1. loadGroupID(i) = i
    BY <1>1 DEF loadGroupID, Init
  <2>2. classifyIngress(i) = "match"
    BY DEF classifyIngress, LoadClass, Init
  <2> QED
    BY <1>1, <2>1, <2>2 DEF LoadGroupIDIfAny
<1>5. \A g \in Group \ queue : Active(g) = {}
  BY <1>4, IngressAssumption DEF Active, Group, Init
<1>6. CurrentInv
  BY <1>2, <1>5 DEF CurrentInv, Current
<1>7. StagesInv /\ FinalizedInv /\ ApartInv
  BY <1>2 DEF StagesInv, Stages, FinalizedInv, Finalized, ApartInv, Apart
<1>8. WatchedInv
  BY <1>2 DEF WatchedInv, Init
<1> QED
  BY <1>3, <1>6, <1>7, <1>8 DEF IInv

LEMMA NextInv == IInv /\ [Next]_vars => IInv'
<1> SUFFICES ASSUME IInv, [Next]_vars PROVE IInv'
  OBVIOUS
<1>1. CASE \E i \in Ingress : EditIngress(i) \/ CreateIngress(i) \/ DeleteIngress(i)
  BY <1>1, EditStep
<1>2. CASE EditService
  BY <1>2, ServiceStep
<1>3. CASE EditClass
  BY <1>3, ClassStep
<1>4. CASE EditParams
  BY <1>4, ParamsStep
<1>5. CASE EditSecret \/ Resync
  BY <1>5, QuietStep
<1>6. CASE \E g \in Group : Load(g)
  BY <1>6, LoadStep
<1>7. CASE \E g \in Group : AddGroupFinalizer(g)
  BY <1>7, AddStep
<1>8. CASE \E g \in Group : AddGroupFinalizerRefused(g) \/ Fail(g)
  BY <1>8, RetryStep DEF AddGroupFinalizerRefused, Fail
<1>9. CASE \E g \in Group : Build(g)
  BY <1>9, BuildStep
<1>10. CASE \E g \in Group : Deploy(g)
  BY <1>10, DeployStep
<1>11. CASE \E g \in Group : RemoveGroupFinalizer(g)
  BY <1>11, RemoveStep
<1>12. CASE ReflectorLists \/ WatchBreaks
  BY <1>12, ReflectorStep
<1>13. CASE Restart
  BY <1>13, RestartStep
<1>14. CASE UNCHANGED vars
  <2>1. /\ TypeOK /\ UNCHANGED cluster /\ ing' = ing /\ work' = work /\ lb' = lb
        /\ queue' = queue /\ raced' = raced /\ users' = users /\ reflector' = reflector
    BY <1>14 DEF IInv, vars, cluster
  <2>2. Alike /\ TypeOK'
    BY <2>1, ClusterKept DEF TypeOK, IngTypes
  <2>3. StagesInv' /\ ApartInv' /\ CurrentInv'
    BY <2>1, <2>2, OtherGroup DEF IInv, StagesInv, ApartInv, CurrentInv
  <2> QED
    BY <2>1, <2>2, <2>3 DEF IInv, FinalizedInv, Finalized, WatchedInv
<1> QED
  BY <1>1, <1>2, <1>3, <1>4, <1>5, <1>6, <1>7, <1>8, <1>9, <1>10, <1>11, <1>12, <1>13, <1>14
  DEF Next, Cluster, Reconcile

\* The invariant says of a group at rest what NothingMissed says.
LEMMA InvNothingMissed == IInv => NothingMissed
<1> SUFFICES ASSUME IInv, NEW g \in Group \ (queue \cup raced), work[g].pc = "idle"
             PROVE  Known(lb[g]) = Known(Wanted(g))
  BY DEF NothingMissed, At
<1> DEFINE K(p) == [p EXCEPT !.auth = IF @ = {} THEN {} ELSE {"some"}]
<1>1. TypeOK /\ lb[g] \subseteq PartType
  BY DEF IInv, TypeOK
<1>2. /\ Active(g) = {p.ing : p \in lb[g]}
      /\ \A p \in lb[g] : Fresh(p)
  BY DEF IInv, CurrentInv, Current, StagesInv, Stages, Parts
<1>3. \A p \in PartType :
        K(p) = [ing |-> p.ing, auth |-> IF p.auth = {} THEN {} ELSE {"some"}, svc |-> p.svc,
                params |-> p.params]
  BY SMT DEF PartType
<1>4. Wanted(g) = {Part(i, Cur) : i \in Active(g)}
  BY DEF Wanted, Cur
<1>5. ASSUME NEW p \in lb[g]
      PROVE  K(p) = K(Part(p.ing, Cur))
  <2> DEFINE q == Part(p.ing, Cur)
  <2>1. p \in PartType /\ p.ing \in Ingress /\ Cur \in Params \cup {"none"}
    BY <1>1 DEF PartType, TypeOK, Cur
  <2>2. q \in PartType
    BY <1>1, <2>1, PartTyped
  <2>3. /\ q.ing = p.ing /\ q.svc = svc /\ q.params = (IF annotated[p.ing] THEN "none" ELSE Cur)
        /\ q.auth # {} <=> ing[p.ing].auth
    BY DEF Part
  <2>4. Fresh(p)
    BY <1>2
  <2> HIDE DEF q, K
  <2>5. q.ing = p.ing /\ q.svc = p.svc /\ q.params = p.params /\ (q.auth = {} <=> p.auth = {})
    BY <2>3, <2>4 DEF Fresh
  <2>6. K(p) = K(q)
    BY <1>3, <2>1, <2>2, <2>5
  <2> QED
    BY <2>6 DEF q
<1>6. Known(lb[g]) = {K(p) : p \in lb[g]} /\ Known(Wanted(g)) = {K(q) : q \in Wanted(g)}
  BY DEF Known
<1> HIDE DEF K
<1> QED
  BY SMT, <1>2, <1>4, <1>5, <1>6

\* The invariant says of a group at rest what SecretsWatched says.
LEMMA InvSecretsWatched == IInv => SecretsWatched
BY DEF IInv, WatchedInv, SecretsWatched, At

\* The variables have their types in every state: no finalizer is on an
\* Ingress that is gone, whatever AddFinalizers and the users do to it.
THEOREM TypeCorrect == Spec => []TypeOK
<1>1. IInv => TypeOK
  BY DEF IInv
<1> QED
  BY <1>1, InitInv, NextInv, PTL DEF Spec

\* No event is missed, for any number of Ingresses, workers, edits, failures
\* and restarts: a group that rests has what its members ask for, unless a
\* member changed between Load and AddFinalizers (enqueueIfBelongsToGroup).
THEOREM NoEventMissed == Spec => []NothingMissed
BY InitInv, NextInv, InvNothingMissed, PTL DEF Spec

\* The Secret is watched for exactly the groups that rest and use it
\* (MonitorSecrets).
THEOREM WatchesSecrets == Spec => []SecretsWatched
BY InitInv, NextInv, InvSecretsWatched, PTL DEF Spec
=============================================================================
