--------------------------- MODULE BackendSGProofs ---------------------------
(* Proofs about BackendSG. *)
EXTENDS BackendSG, FiniteSetTheorems, TLAPS

\* The steps are found by Zenon, unless they cite SMT.
USE ZenonT(60)

\* No object moves from one ingress group to another.
FixedMembership == \A r \in Resource : \A k1, k2 \in MayJoin[r] : k1 = k2

-----------------------------------------------------------------------------
(* The inductive invariants. *)

\* Who owns what the reconcile of a key has read or deployed.
Deployed == {"release", "range", "list", "lock", "range2", "list2", "delete", "forget",
             "removeFinalizers"}

AbsentInv == \A r \in Resource : obj[r] = "absent" => fin[r] = {}

DisjointInv == \A k \in Key : members[k] \cap inactive[k] = {}

FinalizedInv == \A k \in Key : pc[k] # "idle" => \A r \in members[k] \ todo[k] : k \in fin[r]

TodoInv ==
  \A k \in Key :
    /\ pc[k] \in (Deployed \ {"removeFinalizers"}) \cup {"deploy"} => todo[k] = {}
    /\ k \in Group /\ pc[k] \in {"build", "get", "allocate", "read"} => todo[k] = {}
    /\ pc[k] = "removeFinalizers" => todo[k] \subseteq inactive[k]

GoneInv == \A k \in Key : pc[k] \in Deployed /\ members[k] = {} => lb[k] = NoLB

OwnerInv == AbsentInv /\ DisjointInv /\ FinalizedInv /\ TodoInv /\ GoneInv /\ LBHasOwner

\* The holder of the mutex is inside one of its critical sections.
MutexInv == \A k \in Key : mutex = k <=> pc[k] \in {"allocate", "range2", "list2", "delete"}

\* What a reconcile has read, and the finalizers, stay inside MayJoin.
Belongs(k) == {r \in Resource : k \in MayJoin[r]}

BelongsInv ==
  /\ \A r \in Resource : group[r] \in MayJoin[r] \cup {NoKey}
  /\ \A r \in Resource : fin[r] \subseteq MayJoin[r]
  /\ \A k \in Key :
       /\ members[k] \subseteq Belongs(k)
       /\ inactive[k] \subseteq Belongs(k)
       /\ todo[k] \subseteq Belongs(k)

\* From the end of Get's map update to the end of the deployment.
Needs(k) == HoldsSG(k) \/ pc[k] \in {"allocate", "read"}

RequiredInv ==
  \A k \in Key :
    /\ required[k] => members[k] # {}
    /\ pc[k] = "idle" => ~required[k]
    /\ pc[k] \in {"get", "allocate", "read"} => required[k]
    /\ k \in Group /\ pc[k] \in {"addFinalizers", "build"} => ~required[k]

MappedInv == \A k \in Key : Needs(k) => \A r \in members[k] : objectsMap[r] = "required"

CacheInv ==
  \A k \in Key :
    /\ pc[k] = "allocate" => autoGeneratedSG = NoSG
    /\ pc[k] = "read" => autoGeneratedSG # NoSG
    /\ HoldsSG(k) => sgOf[k] = autoGeneratedSG /\ autoGeneratedSG # NoSG

DeleteInv == \A d \in Key : pc[d] \in {"list2", "delete"} => \A k \in Key : ~Needs(k)

HeldInv == RequiredInv /\ MappedInv /\ CacheInv /\ DeleteInv

-----------------------------------------------------------------------------

\* The types of a reconcile's own variables.
LocalTypeOK ==
  /\ pc \in [Key -> Pcs]
  /\ members \in [Key -> SUBSET Resource]
  /\ inactive \in [Key -> SUBSET Resource]
  /\ required \in [Key -> BOOLEAN]
  /\ sgOf \in [Key -> SGID \cup {NoSG}]
  /\ todo \in [Key -> SUBSET Resource]
  /\ failed \in [Key -> BOOLEAN]

\* A reconcile that returns leaves its variables well typed.
LEMMA ReturnType == ASSUME NEW k \in Key, LocalTypeOK, Return(k) PROVE LocalTypeOK'
<1>1. pc' \in [Key -> Pcs]
  BY DEF LocalTypeOK, Return, Goto, Pcs
<1>2. members' \in [Key -> SUBSET Resource] /\ inactive' \in [Key -> SUBSET Resource]
      /\ todo' \in [Key -> SUBSET Resource]
  BY DEF LocalTypeOK, Return
<1>3. required' \in [Key -> BOOLEAN] /\ failed' \in [Key -> BOOLEAN]
      /\ sgOf' \in [Key -> SGID \cup {NoSG}]
  BY DEF LocalTypeOK, Return
<1> QED
  BY <1>1, <1>2, <1>3 DEF LocalTypeOK

\* Every variable keeps its type.
THEOREM TypeCorrect == Spec => []TypeOK
<1>1. Init => TypeOK
  BY SMT, BoundAssumption DEF Init, TypeOK, Pcs
<1>2. TypeOK /\ [Next]_vars => TypeOK'
  <2> SUFFICES ASSUME TypeOK, [Next]_vars PROVE TypeOK'
    OBVIOUS
  <2> USE BoundAssumption DEF TypeOK, Pcs, k8sVars, providerVars, awsVars, localVars,
              boundVars, Goto
  <2>0. ASSUME NEW k \in Key, Return(k)
        PROVE  /\ pc' \in [Key -> Pcs]
               /\ members' \in [Key -> SUBSET Resource]
               /\ inactive' \in [Key -> SUBSET Resource]
               /\ required' \in [Key -> BOOLEAN]
               /\ sgOf' \in [Key -> SGID \cup {NoSG}]
               /\ todo' \in [Key -> SUBSET Resource]
               /\ failed' \in [Key -> BOOLEAN]
    BY <2>0, ReturnType DEF LocalTypeOK
  <2>1. ASSUME NEW r \in Resource, UserDelete(r) PROVE TypeOK'
    BY SMT, <2>1 DEF UserDelete, Edit
  <2>2. ASSUME NEW r \in Resource, NEW k \in MayJoin[r], Create(r, k) PROVE TypeOK'
    <3>1. k \in Key
      BY KindAssumption
    <3> QED
      BY SMT, <2>2, <3>1 DEF Create, Edit
  <2>3. ASSUME NEW r \in Resource, NEW k \in MayJoin[r] \cup {NoKey}, Regroup(r, k)
        PROVE TypeOK'
    <3>1. k \in Key \cup {NoKey}
      BY KindAssumption
    <3> QED
      BY SMT, <2>3, <3>1 DEF Regroup, Edit
  <2>4. ASSUME NEW k \in Key, ChangeWants(k) PROVE TypeOK'
    BY SMT, <2>4 DEF ChangeWants, Edit
  <2>5. CASE Crash
    BY SMT, <2>5 DEF Crash, Fault
  <2>6. ASSUME NEW k \in Key, Load(k) PROVE TypeOK'
    BY <2>6 DEF Load, ActiveMembers, InactiveMembers
  <2>7. ASSUME NEW k \in Key, NEW r \in Resource, AddFinalizer(k, r) PROVE TypeOK'
    BY <2>7 DEF AddFinalizer
  <2>8. ASSUME NEW k \in Key, NEW r \in Resource, AddFinalizerRefused(k, r) PROVE TypeOK'
    BY <2>8, <2>0 DEF AddFinalizerRefused
  <2>9. ASSUME NEW k \in Key, NEW r \in Resource, RemoveFinalizer(k, r) PROVE TypeOK'
    BY <2>9 DEF RemoveFinalizer
  <2>10. ASSUME NEW k \in Key, FinalizersAdded(k) PROVE TypeOK'
    BY <2>10 DEF FinalizersAdded
  <2>11. ASSUME NEW k \in Key, Build(k) PROVE TypeOK'
    BY <2>11 DEF Build, AfterBuild
  <2>12. ASSUME NEW k \in Key, ReadSG(k) PROVE TypeOK'
    BY <2>12 DEF ReadSG, AfterBuild
  <2>13. ASSUME NEW k \in Key, GetSG(k) PROVE TypeOK'
    BY <2>13 DEF GetSG
  <2>14. ASSUME NEW k \in Key, AllocateSG(k) PROVE TypeOK'
    BY <2>14 DEF AllocateSG
  <2>15. ASSUME NEW k \in Key, AllocateRefused(k) PROVE TypeOK'
    BY <2>15, <2>0 DEF AllocateRefused
  <2>16. ASSUME NEW k \in Key, DeployRejected(k) PROVE TypeOK'
    BY <2>16, <2>0 DEF DeployRejected
  <2>17. ASSUME NEW k \in Key, Done(k) PROVE TypeOK'
    BY <2>17, <2>0 DEF Done
  <2>18. ASSUME NEW k \in Key, Deploy(k) PROVE TypeOK'
    BY SMT, <2>18, <2>0 DEF Deploy, AfterDeploy, Fault
  <2>19. ASSUME NEW k \in Key, MarkReleased(k) PROVE TypeOK'
    BY <2>19 DEF MarkReleased
  <2>20. ASSUME NEW k \in Key, RangeMap(k) PROVE TypeOK'
    BY <2>20 DEF RangeMap
  <2>21. ASSUME NEW k \in Key, ListUnmapped(k) PROVE TypeOK'
    BY <2>21 DEF ListUnmapped
  <2>22. ASSUME NEW k \in Key, LockRelease(k) PROVE TypeOK'
    BY <2>22 DEF LockRelease
  <2>23. ASSUME NEW k \in Key, RangeMapLocked(k) PROVE TypeOK'
    BY <2>23 DEF RangeMapLocked
  <2>24. ASSUME NEW k \in Key, ListUnmappedLocked(k) PROVE TypeOK'
    BY <2>24 DEF ListUnmappedLocked
  <2>25. ASSUME NEW k \in Key, DeleteSG(k) PROVE TypeOK'
    BY <2>25 DEF DeleteSG
  <2>26. ASSUME NEW k \in Key, DeleteTimesOut(k) PROVE TypeOK'
    BY <2>26 DEF DeleteTimesOut
  <2>27. ASSUME NEW k \in Key, Forget(k) PROVE TypeOK'
    BY SMT, <2>27, <2>0 DEF Forget
  <2>28. ASSUME NEW k \in Key, ApiError(k) PROVE TypeOK'
    <3>1. CASE Return(k)
      BY SMTT(30), <2>28, <3>1, <2>0 DEF ApiError, Fault
    <3>2. CASE /\ failed' = [failed EXCEPT ![k] = TRUE]
               /\ Goto(k, "forget")
               /\ UNCHANGED <<members, inactive, required, sgOf, todo>>
      BY SMT, <2>28, <3>2 DEF ApiError, Fault
    <3> QED
      BY <2>28, <3>1, <3>2 DEF ApiError
  <2>29. CASE UNCHANGED vars
    BY <2>29 DEF vars
  <2> QED
    BY <2>1, <2>2, <2>3, <2>4, <2>5, <2>6, <2>7, <2>8, <2>9, <2>10, <2>11, <2>12, <2>13, <2>14, <2>15, <2>16, <2>17, <2>18, <2>19, <2>20, <2>21, <2>22, <2>23, <2>24, <2>25, <2>26, <2>27, <2>28, <2>29
    DEF Next, User, Proceed, TakeLock
<1> QED
  BY <1>1, <1>2, PTL DEF Spec


-----------------------------------------------------------------------------
(* Preservation of the inductive invariants, one step per action. *)

\* Only an allocation, a deletion and a restart touch the cached id or the groups.
LEMMA ProviderSteps ==
  ASSUME [Next]_vars
  PROVE  \/ UNCHANGED <<autoGeneratedSG, ec2SG>>
         \/ \E k \in Key : AllocateSG(k) \/ DeleteSG(k)
         \/ Crash
<1> USE DEF providerVars, awsVars
<1>1. CASE User
  BY <1>1 DEF User, UserDelete, Create, Regroup, ChangeWants
<1>2. ASSUME NEW k \in Key, Load(k) \/ TakeLock(k) \/ ApiError(k)
      PROVE  UNCHANGED <<autoGeneratedSG, ec2SG>>
  BY <1>2 DEF Load, TakeLock, GetSG, LockRelease, ApiError
<1>3. ASSUME NEW k \in Key, Proceed(k)
      PROVE  UNCHANGED <<autoGeneratedSG, ec2SG>> \/ AllocateSG(k) \/ DeleteSG(k)
  BY <1>3 DEF Proceed, AddFinalizer, AddFinalizerRefused, RemoveFinalizer, FinalizersAdded,
              Build, AllocateRefused, ReadSG, Deploy, DeployRejected, MarkReleased,
              RangeMap, ListUnmapped, RangeMapLocked, ListUnmappedLocked, DeleteTimesOut,
              Forget, Done
<1>4. CASE UNCHANGED vars
  BY <1>4 DEF vars
<1> QED
  BY <1>1, <1>2, <1>3, <1>4 DEF Next

\* Every step keeps the mutex in the hands of the critical sections.
LEMMA MutexStep == ASSUME TypeOK, MutexInv, [Next]_vars PROVE MutexInv'
<1> USE NullAssumption DEF MutexInv, TypeOK, Pcs, k8sVars, providerVars, awsVars,
      localVars, boundVars, Goto
<1>1. ASSUME NEW r \in Resource, UserDelete(r) PROVE MutexInv'
  BY <1>1 DEF UserDelete, Edit
<1>2. ASSUME NEW r \in Resource, NEW k \in MayJoin[r], Create(r, k) PROVE MutexInv'
  BY <1>2 DEF Create, Edit
<1>3. ASSUME NEW r \in Resource, NEW k \in MayJoin[r] \cup {NoKey}, Regroup(r, k) PROVE MutexInv'
  BY <1>3 DEF Regroup, Edit
<1>4. ASSUME NEW k \in Key, ChangeWants(k) PROVE MutexInv'
  BY <1>4 DEF ChangeWants, Edit
<1>5. CASE Crash
  BY <1>5 DEF Crash
<1>6. ASSUME NEW k \in Key, Load(k) PROVE MutexInv'
  BY <1>6 DEF Load, ActiveMembers, InactiveMembers
<1>7. ASSUME NEW k \in Key, NEW r \in Resource, AddFinalizer(k, r) PROVE MutexInv'
  BY <1>7 DEF AddFinalizer, MayFinalize
<1>8. ASSUME NEW k \in Key, NEW r \in Resource, AddFinalizerRefused(k, r) PROVE MutexInv'
  BY <1>8 DEF AddFinalizerRefused, Return
<1>9. ASSUME NEW k \in Key, NEW r \in Resource, RemoveFinalizer(k, r) PROVE MutexInv'
  BY <1>9 DEF RemoveFinalizer
<1>10. ASSUME NEW k \in Key, FinalizersAdded(k) PROVE MutexInv'
  BY <1>10 DEF FinalizersAdded
<1>11. ASSUME NEW k \in Key, Build(k) PROVE MutexInv'
  BY <1>11 DEF Build, AfterBuild
<1>12. ASSUME NEW k \in Key, ReadSG(k) PROVE MutexInv'
  BY <1>12 DEF ReadSG, AfterBuild
<1>13. ASSUME NEW k \in Key, GetSG(k) PROVE MutexInv'
  BY SMT, <1>13 DEF GetSG
<1>14. ASSUME NEW k \in Key, AllocateSG(k) PROVE MutexInv'
  BY <1>14 DEF AllocateSG
<1>15. ASSUME NEW k \in Key, AllocateRefused(k) PROVE MutexInv'
  BY <1>15 DEF AllocateRefused, Return
<1>16. ASSUME NEW k \in Key, DeployRejected(k) PROVE MutexInv'
  BY <1>16 DEF DeployRejected, Return
<1>17. ASSUME NEW k \in Key, Done(k) PROVE MutexInv'
  BY <1>17 DEF Done, Return
<1>18. ASSUME NEW k \in Key, Deploy(k) PROVE MutexInv'
  BY SMT, <1>18 DEF Deploy, AfterDeploy, Return
<1>19. ASSUME NEW k \in Key, MarkReleased(k) PROVE MutexInv'
  BY <1>19 DEF MarkReleased, Released
<1>20. ASSUME NEW k \in Key, RangeMap(k) PROVE MutexInv'
  BY <1>20 DEF RangeMap
<1>21. ASSUME NEW k \in Key, ListUnmapped(k) PROVE MutexInv'
  BY <1>21 DEF ListUnmapped
<1>22. ASSUME NEW k \in Key, LockRelease(k) PROVE MutexInv'
  BY SMT, <1>22 DEF LockRelease
<1>23. ASSUME NEW k \in Key, RangeMapLocked(k) PROVE MutexInv'
  BY SMT, <1>23 DEF RangeMapLocked, RequiredForAny
<1>24. ASSUME NEW k \in Key, ListUnmappedLocked(k) PROVE MutexInv'
  BY SMT, <1>24 DEF ListUnmappedLocked
<1>25. ASSUME NEW k \in Key, DeleteSG(k) PROVE MutexInv'
  BY <1>25 DEF DeleteSG
<1>26. ASSUME NEW k \in Key, DeleteTimesOut(k) PROVE MutexInv'
  BY <1>26 DEF DeleteTimesOut
<1>27. ASSUME NEW k \in Key, Forget(k) PROVE MutexInv'
  BY SMT, <1>27 DEF Forget, Return
<1>28. ASSUME NEW k \in Key, ApiError(k) PROVE MutexInv'
  BY SMT, <1>28 DEF ApiError, Return
<1>29. CASE UNCHANGED vars
  BY <1>29 DEF vars
<1> QED
  BY <1>1, <1>2, <1>3, <1>4, <1>5, <1>6, <1>7, <1>8, <1>9, <1>10,
     <1>11, <1>12, <1>13, <1>14, <1>15, <1>16, <1>17, <1>18, <1>19, <1>20,
     <1>21, <1>22, <1>23, <1>24, <1>25, <1>26, <1>27, <1>28, <1>29
    DEF Next, User, Proceed, TakeLock

\* Every step keeps finalizers on the objects of deployed load balancers.
LEMMA OwnerStep == ASSUME TypeOK, OwnerInv, [Next]_vars PROVE OwnerInv'
<1> USE NullAssumption, KindAssumption DEF OwnerInv, TypeOK, Pcs, k8sVars,
      providerVars, awsVars, localVars, boundVars, Goto
<1>1. ASSUME NEW r \in Resource, UserDelete(r) PROVE OwnerInv'
  BY SMT, <1>1 DEF UserDelete, Edit, AbsentInv, DisjointInv, FinalizedInv, TodoInv,
     GoneInv, LBHasOwner, Deployed
<1>2. ASSUME NEW r \in Resource, NEW k \in MayJoin[r], Create(r, k) PROVE OwnerInv'
  BY SMT, <1>2 DEF Create, Edit, AbsentInv, DisjointInv, FinalizedInv, TodoInv, GoneInv,
     LBHasOwner, Deployed
<1>3. ASSUME NEW r \in Resource, NEW k \in MayJoin[r] \cup {NoKey}, Regroup(r, k) PROVE OwnerInv'
  BY <1>3 DEF Regroup, Edit, AbsentInv, DisjointInv, FinalizedInv, TodoInv, GoneInv,
     LBHasOwner, Deployed
<1>4. ASSUME NEW k \in Key, ChangeWants(k) PROVE OwnerInv'
  BY <1>4 DEF ChangeWants, Edit, AbsentInv, DisjointInv, FinalizedInv, TodoInv,
     GoneInv, LBHasOwner, Deployed
<1>5. CASE Crash
  <2>1. AbsentInv'
    BY <1>5 DEF Crash, AbsentInv
  <2>2. DisjointInv'
    BY <1>5 DEF Crash, DisjointInv
  <2>3. FinalizedInv'
    BY <1>5 DEF Crash, FinalizedInv, TodoInv, Deployed
  <2>4. TodoInv'
    BY <1>5 DEF Crash, TodoInv, Deployed, Key
  <2>5. GoneInv'
    BY <1>5 DEF Crash, GoneInv, Deployed
  <2>6. LBHasOwner'
    BY <1>5 DEF Crash, LBHasOwner, FinalizedInv, TodoInv, Deployed, AbsentInv
  <2> QED
    BY <2>1, <2>2, <2>3, <2>4, <2>5, <2>6
<1>6. ASSUME NEW k \in Key, Load(k) PROVE OwnerInv'
  BY SMT, <1>6 DEF Load, ActiveMembers, InactiveMembers, AbsentInv, DisjointInv,
     FinalizedInv, TodoInv, GoneInv, LBHasOwner, Deployed
<1>7. ASSUME NEW k \in Key, NEW r \in Resource, AddFinalizer(k, r) PROVE OwnerInv'
  BY SMT, <1>7 DEF AddFinalizer, MayFinalize, AbsentInv, DisjointInv, FinalizedInv,
     TodoInv, GoneInv, LBHasOwner, Deployed
<1>8. ASSUME NEW k \in Key, NEW r \in Resource, AddFinalizerRefused(k, r) PROVE OwnerInv'
  BY SMT, <1>8 DEF AddFinalizerRefused, Return, AbsentInv, DisjointInv, FinalizedInv,
     TodoInv, GoneInv, LBHasOwner, Deployed
<1>9. ASSUME NEW k \in Key, NEW r \in Resource, RemoveFinalizer(k, r) PROVE OwnerInv'
  BY SMTT(30), <1>9 DEF RemoveFinalizer, AbsentInv, DisjointInv, FinalizedInv, TodoInv,
     GoneInv, LBHasOwner, Deployed
<1>10. ASSUME NEW k \in Key, FinalizersAdded(k) PROVE OwnerInv'
  BY SMT, <1>10 DEF FinalizersAdded, AbsentInv, DisjointInv, FinalizedInv, TodoInv,
     GoneInv, LBHasOwner, Deployed
<1>11. ASSUME NEW k \in Key, Build(k) PROVE OwnerInv'
  <2>1. AbsentInv'
    BY <1>11 DEF Build, AfterBuild, AbsentInv
  <2>2. DisjointInv'
    BY <1>11 DEF Build, AfterBuild, DisjointInv
  <2>3. FinalizedInv'
    BY <1>11 DEF Build, AfterBuild, FinalizedInv, TodoInv, Deployed
  <2>4. TodoInv'
    BY <1>11 DEF Build, AfterBuild, TodoInv, Deployed, Key
  <2>5. GoneInv'
    BY <1>11 DEF Build, AfterBuild, GoneInv, Deployed
  <2>6. LBHasOwner'
    BY <1>11 DEF Build, AfterBuild, LBHasOwner, FinalizedInv, TodoInv, Deployed,
       AbsentInv
  <2> QED
    BY <2>1, <2>2, <2>3, <2>4, <2>5, <2>6
<1>12. ASSUME NEW k \in Key, ReadSG(k) PROVE OwnerInv'
  <2>1. AbsentInv'
    BY <1>12 DEF ReadSG, AfterBuild, AbsentInv
  <2>2. DisjointInv'
    BY <1>12 DEF ReadSG, AfterBuild, DisjointInv
  <2>3. FinalizedInv'
    BY <1>12 DEF ReadSG, AfterBuild, FinalizedInv, TodoInv, Deployed
  <2>4. TodoInv'
    BY <1>12 DEF ReadSG, AfterBuild, TodoInv, Deployed, Key
  <2>5. GoneInv'
    BY <1>12 DEF ReadSG, AfterBuild, GoneInv, Deployed
  <2>6. LBHasOwner'
    BY <1>12 DEF ReadSG, AfterBuild, LBHasOwner, FinalizedInv, TodoInv, Deployed,
       AbsentInv
  <2> QED
    BY <2>1, <2>2, <2>3, <2>4, <2>5, <2>6
<1>13. ASSUME NEW k \in Key, GetSG(k) PROVE OwnerInv'
  <2>1. AbsentInv'
    BY <1>13 DEF GetSG, AbsentInv
  <2>2. DisjointInv'
    BY <1>13 DEF GetSG, DisjointInv
  <2>3. FinalizedInv'
    BY SMT, <1>13 DEF GetSG, FinalizedInv, TodoInv, Deployed
  <2>4. TodoInv'
    BY SMT, <1>13 DEF GetSG, TodoInv, Deployed, Key
  <2>5. GoneInv'
    BY SMT, <1>13 DEF GetSG, GoneInv, Deployed
  <2>6. LBHasOwner'
    BY <1>13 DEF GetSG, LBHasOwner, FinalizedInv, TodoInv, Deployed, AbsentInv
  <2> QED
    BY <2>1, <2>2, <2>3, <2>4, <2>5, <2>6
<1>14. ASSUME NEW k \in Key, AllocateSG(k) PROVE OwnerInv'
  BY SMTT(30), <1>14 DEF AllocateSG, AbsentInv, DisjointInv, FinalizedInv, TodoInv, GoneInv,
     LBHasOwner, Deployed
<1>15. ASSUME NEW k \in Key, AllocateRefused(k) PROVE OwnerInv'
  BY SMT, <1>15 DEF AllocateRefused, Return, AbsentInv, DisjointInv, FinalizedInv,
     TodoInv, GoneInv, LBHasOwner, Deployed
<1>16. ASSUME NEW k \in Key, DeployRejected(k) PROVE OwnerInv'
  BY SMT, <1>16 DEF DeployRejected, Return, AbsentInv, DisjointInv, FinalizedInv, TodoInv,
     GoneInv, LBHasOwner, Deployed
<1>17. ASSUME NEW k \in Key, Done(k) PROVE OwnerInv'
  BY SMT, <1>17 DEF Done, Return, AbsentInv, DisjointInv, FinalizedInv, TodoInv, GoneInv,
     LBHasOwner, Deployed
<1>18. ASSUME NEW k \in Key, Deploy(k) PROVE OwnerInv'
  <2>1. AbsentInv'
    BY <1>18 DEF Deploy, AfterDeploy, Return, AbsentInv
  <2>2. DisjointInv'
    BY SMT, <1>18 DEF Deploy, AfterDeploy, Return, DisjointInv
  <2>3. FinalizedInv'
    BY SMTT(30), <1>18 DEF Deploy, AfterDeploy, Return, FinalizedInv, TodoInv, Deployed
  <2>4. TodoInv'
    BY SMT, <1>18 DEF Deploy, AfterDeploy, Return, TodoInv, Deployed, Key
  <2>5. GoneInv'
    BY SMT, <1>18 DEF Deploy, AfterDeploy, Return, GoneInv, Deployed
  <2>6. LBHasOwner'
    BY SMTT(30), <1>18 DEF Deploy, AfterDeploy, Return, LBHasOwner, FinalizedInv, TodoInv,
       Deployed, AbsentInv
  <2> QED
    BY <2>1, <2>2, <2>3, <2>4, <2>5, <2>6
<1>19. ASSUME NEW k \in Key, MarkReleased(k) PROVE OwnerInv'
  BY SMT, <1>19 DEF MarkReleased, Released, AbsentInv, DisjointInv, FinalizedInv, TodoInv,
     GoneInv, LBHasOwner, Deployed
<1>20. ASSUME NEW k \in Key, RangeMap(k) PROVE OwnerInv'
  BY SMT, <1>20 DEF RangeMap, AbsentInv, DisjointInv, FinalizedInv, TodoInv, GoneInv,
     LBHasOwner, Deployed
<1>21. ASSUME NEW k \in Key, ListUnmapped(k) PROVE OwnerInv'
  BY SMT, <1>21 DEF ListUnmapped, AbsentInv, DisjointInv, FinalizedInv, TodoInv, GoneInv,
     LBHasOwner, Deployed
<1>22. ASSUME NEW k \in Key, LockRelease(k) PROVE OwnerInv'
  <2>1. AbsentInv'
    BY <1>22 DEF LockRelease, AbsentInv
  <2>2. DisjointInv'
    BY <1>22 DEF LockRelease, DisjointInv
  <2>3. FinalizedInv'
    BY <1>22 DEF LockRelease, FinalizedInv, TodoInv, Deployed
  <2>4. TodoInv'
    BY SMT, <1>22 DEF LockRelease, TodoInv, Deployed, Key
  <2>5. GoneInv'
    BY <1>22 DEF LockRelease, GoneInv, Deployed
  <2>6. LBHasOwner'
    BY <1>22 DEF LockRelease, LBHasOwner, FinalizedInv, TodoInv, Deployed, AbsentInv
  <2> QED
    BY <2>1, <2>2, <2>3, <2>4, <2>5, <2>6
<1>23. ASSUME NEW k \in Key, RangeMapLocked(k) PROVE OwnerInv'
  <2>1. AbsentInv'
    BY <1>23 DEF RangeMapLocked, RequiredForAny, AbsentInv
  <2>2. DisjointInv'
    BY <1>23 DEF RangeMapLocked, RequiredForAny, DisjointInv
  <2>3. FinalizedInv'
    BY <1>23 DEF RangeMapLocked, RequiredForAny, FinalizedInv, TodoInv, Deployed
  <2>4. TodoInv'
    BY SMT, <1>23 DEF RangeMapLocked, RequiredForAny, TodoInv, Deployed, Key
  <2>5. GoneInv'
    BY <1>23 DEF RangeMapLocked, RequiredForAny, GoneInv, Deployed
  <2>6. LBHasOwner'
    BY <1>23 DEF RangeMapLocked, RequiredForAny, LBHasOwner, FinalizedInv, TodoInv,
       Deployed, AbsentInv
  <2> QED
    BY <2>1, <2>2, <2>3, <2>4, <2>5, <2>6
<1>24. ASSUME NEW k \in Key, ListUnmappedLocked(k) PROVE OwnerInv'
  <2>1. AbsentInv'
    BY <1>24 DEF ListUnmappedLocked, AbsentInv
  <2>2. DisjointInv'
    BY <1>24 DEF ListUnmappedLocked, DisjointInv
  <2>3. FinalizedInv'
    BY <1>24 DEF ListUnmappedLocked, FinalizedInv, TodoInv, Deployed
  <2>4. TodoInv'
    BY SMT, <1>24 DEF ListUnmappedLocked, TodoInv, Deployed, Key
  <2>5. GoneInv'
    BY <1>24 DEF ListUnmappedLocked, GoneInv, Deployed
  <2>6. LBHasOwner'
    BY <1>24 DEF ListUnmappedLocked, LBHasOwner, FinalizedInv, TodoInv, Deployed,
       AbsentInv
  <2> QED
    BY <2>1, <2>2, <2>3, <2>4, <2>5, <2>6
<1>25. ASSUME NEW k \in Key, DeleteSG(k) PROVE OwnerInv'
  BY SMT, <1>25 DEF DeleteSG, AbsentInv, DisjointInv, FinalizedInv, TodoInv, GoneInv,
     LBHasOwner, Deployed
<1>26. ASSUME NEW k \in Key, DeleteTimesOut(k) PROVE OwnerInv'
  BY SMT, <1>26 DEF DeleteTimesOut, AbsentInv, DisjointInv, FinalizedInv, TodoInv,
     GoneInv, LBHasOwner, Deployed
<1>27. ASSUME NEW k \in Key, Forget(k) PROVE OwnerInv'
  <2>1. AbsentInv'
    BY <1>27 DEF Forget, Return, AbsentInv
  <2>2. DisjointInv'
    BY SMT, <1>27 DEF Forget, Return, DisjointInv
  <2>3. FinalizedInv'
    <3>1. todo[k] = {}
      BY <1>27 DEF Forget, TodoInv, Deployed
    <3>2. CASE failed[k]
      BY SMT, <1>27, <3>2 DEF Forget, Return, FinalizedInv
    <3>3. CASE ~failed[k]
      BY <1>27, <3>1, <3>3 DEF Forget, FinalizedInv
    <3> QED
      BY <3>2, <3>3
  <2>4. TodoInv'
    BY SMT, <1>27 DEF Forget, Return, TodoInv, Deployed, Key
  <2>5. GoneInv'
    BY SMTT(30), <1>27 DEF Forget, Return, GoneInv, Deployed
  <2>6. LBHasOwner'
    BY <1>27 DEF Forget, Return, LBHasOwner, FinalizedInv, TodoInv, Deployed, AbsentInv
  <2> QED
    BY <2>1, <2>2, <2>3, <2>4, <2>5, <2>6
<1>28. ASSUME NEW k \in Key, ApiError(k) PROVE OwnerInv'
  <2>1. AbsentInv'
    BY <1>28 DEF ApiError, Return, AbsentInv
  <2>2. DisjointInv'
    BY SMTT(30), <1>28 DEF ApiError, Return, DisjointInv
  <2>3. FinalizedInv'
    BY SMT, <1>28 DEF ApiError, Return, FinalizedInv, TodoInv, Deployed
  <2>4. TodoInv'
    BY SMTT(30), <1>28 DEF ApiError, Return, TodoInv, Deployed, Key
  <2>5. GoneInv'
    BY SMT, <1>28 DEF ApiError, Return, GoneInv, Deployed
  <2>6. LBHasOwner'
    BY <1>28 DEF ApiError, Return, LBHasOwner, FinalizedInv, TodoInv, Deployed,
       AbsentInv
  <2> QED
    BY <2>1, <2>2, <2>3, <2>4, <2>5, <2>6
<1>29. CASE UNCHANGED vars
  BY <1>29 DEF vars, AbsentInv, DisjointInv, FinalizedInv, TodoInv, GoneInv,
     LBHasOwner, Deployed
<1> QED
  BY <1>1, <1>2, <1>3, <1>4, <1>5, <1>6, <1>7, <1>8, <1>9, <1>10,
     <1>11, <1>12, <1>13, <1>14, <1>15, <1>16, <1>17, <1>18, <1>19, <1>20,
     <1>21, <1>22, <1>23, <1>24, <1>25, <1>26, <1>27, <1>28, <1>29
  DEF Next, User, Proceed, TakeLock

\* The variables BelongsInv is about.
BelongsTypes ==
  /\ group \in [Resource -> Key \cup {NoKey}]
  /\ fin \in [Resource -> SUBSET Key]
  /\ members \in [Key -> SUBSET Resource]
  /\ inactive \in [Key -> SUBSET Resource]
  /\ todo \in [Key -> SUBSET Resource]

\* A reconcile that returns has no snapshot any more.
LEMMA BelongsReturn ==
  ASSUME BelongsTypes, BelongsInv, NEW k \in Key, Return(k), UNCHANGED <<group, fin>>
  PROVE  BelongsInv'
BY DEF BelongsTypes, BelongsInv, Belongs, Return

\* Every step keeps snapshots and finalizers within MayJoin.
LEMMA BelongsStep == ASSUME TypeOK, BelongsInv, [Next]_vars PROVE BelongsInv'
<1> USE DEF BelongsTypes, k8sVars, localVars
<1>1. BelongsTypes
  BY DEF TypeOK
<1>2. CASE UNCHANGED <<group, fin, members, inactive, todo>>
  BY <1>2 DEF BelongsInv, Belongs
<1>3. ASSUME NEW k \in Key, Return(k), UNCHANGED <<group, fin>> PROVE BelongsInv'
  BY <1>1, <1>3, BelongsReturn
<1>4. CASE User
  <2>1. UNCHANGED <<fin, members, inactive, todo>>
    BY <1>4 DEF User, UserDelete, Create, Regroup, ChangeWants
  <2>2. \A r \in Resource : group'[r] \in MayJoin[r] \cup {NoKey}
    BY <1>1, <1>4 DEF User, UserDelete, Create, Regroup, ChangeWants, BelongsInv
  <2> QED
    BY <2>1, <2>2 DEF BelongsInv, Belongs
<1>5. CASE Crash
  <2>1. UNCHANGED <<group, fin>>
    BY <1>5 DEF Crash
  <2>2. \A k \in Key : members'[k] = {} /\ inactive'[k] = {} /\ todo'[k] = {}
    BY <1>5 DEF Crash
  <2> QED
    BY <2>1, <2>2 DEF BelongsInv, Belongs
<1>6. ASSUME NEW k \in Key, Load(k) PROVE BelongsInv'
  <2>1. ActiveMembers(k) \subseteq Belongs(k) /\ InactiveMembers(k) \subseteq Belongs(k)
    <3>1. ASSUME NEW r \in Resource, group[r] = k PROVE k \in MayJoin[r]
      BY <3>1, NullAssumption DEF BelongsInv
    <3>2. ASSUME NEW r \in Resource, k \in fin[r] PROVE k \in MayJoin[r]
      BY <3>2 DEF BelongsInv
    <3> QED
      BY <3>1, <3>2 DEF ActiveMembers, InactiveMembers, Belongs
  <2>2. UNCHANGED <<group, fin>>
    BY <1>6 DEF Load
  <2>3. \A q \in Key : q # k =>
          members'[q] = members[q] /\ inactive'[q] = inactive[q] /\ todo'[q] = todo[q]
    BY <1>1, <1>6 DEF Load
  <2>4. members'[k] = ActiveMembers(k) /\ inactive'[k] = InactiveMembers(k)
          /\ todo'[k] = ActiveMembers(k)
    BY <1>1, <1>6 DEF Load
  <2> QED
    BY SMT, <2>1, <2>2, <2>3, <2>4 DEF BelongsInv, Belongs
<1>7. ASSUME NEW k \in Key, NEW r \in Resource, AddFinalizer(k, r) PROVE BelongsInv'
  <2>1. k \in MayJoin[r]
    BY <1>7 DEF AddFinalizer, BelongsInv, Belongs
  <2>2. UNCHANGED <<group, members, inactive>>
    BY <1>7 DEF AddFinalizer
  <2>3. \A q \in Resource : fin'[q] = fin[q] \/ (q = r /\ fin'[q] = fin[q] \cup {k})
    BY <1>1, <1>7 DEF AddFinalizer
  <2>4. \A q \in Key : todo'[q] \subseteq todo[q]
    BY <1>1, <1>7 DEF AddFinalizer
  <2> QED
    BY SMT, <2>1, <2>2, <2>3, <2>4 DEF BelongsInv, Belongs
<1>8. ASSUME NEW k \in Key, NEW r \in Resource, RemoveFinalizer(k, r) PROVE BelongsInv'
  <2>1. UNCHANGED <<group, members, inactive>>
    BY <1>8 DEF RemoveFinalizer
  <2>2. \A q \in Resource : fin'[q] \subseteq fin[q]
    BY <1>1, <1>8 DEF RemoveFinalizer
  <2>3. \A q \in Key : todo'[q] \subseteq todo[q]
    BY <1>1, <1>8 DEF RemoveFinalizer
  <2> QED
    BY <2>1, <2>2, <2>3 DEF BelongsInv, Belongs
<1>9. ASSUME NEW k \in Key, Forget(k) PROVE BelongsInv'
  <2>1. UNCHANGED <<group, fin>>
    BY <1>9 DEF Forget
  <2>2. ASSUME ~failed[k] PROVE BelongsInv'
    <3>1. UNCHANGED <<members, inactive>> /\ todo' = [todo EXCEPT ![k] = inactive[k]]
      BY <1>9, <2>2 DEF Forget
    <3>2. \A q \in Key : todo'[q] = todo[q] \/ todo'[q] = inactive[q]
      BY <1>1, <3>1
    <3> QED
      BY <2>1, <3>1, <3>2 DEF BelongsInv, Belongs
  <2> QED
    BY <1>9, <1>3, <2>1, <2>2 DEF Forget
<1>10. ASSUME NEW k \in Key, ApiError(k) PROVE BelongsInv'
  BY <1>2, <1>3, <1>10 DEF ApiError
<1>11. ASSUME NEW k \in Key, NEW r \in Resource, AddFinalizerRefused(k, r) PROVE BelongsInv'
  BY <1>3, <1>11 DEF AddFinalizerRefused
<1>12. ASSUME NEW k \in Key, AllocateRefused(k) \/ DeployRejected(k) \/ Done(k) \/ Deploy(k)
       PROVE  BelongsInv'
  BY <1>2, <1>3, <1>12 DEF AllocateRefused, DeployRejected, Done, Deploy
<1>13. ASSUME NEW k \in Key, TakeLock(k) \/ FinalizersAdded(k) \/ Build(k) \/ ReadSG(k)
                               \/ AllocateSG(k) \/ MarkReleased(k) \/ RangeMap(k)
       PROVE  BelongsInv'
  BY <1>2, <1>13 DEF TakeLock, GetSG, LockRelease, FinalizersAdded, Build, ReadSG, AllocateSG,
     MarkReleased, RangeMap
<1>14. ASSUME NEW k \in Key, ListUnmapped(k) \/ RangeMapLocked(k) \/ ListUnmappedLocked(k)
                               \/ DeleteSG(k) \/ DeleteTimesOut(k)
       PROVE  BelongsInv'
  BY <1>2, <1>14 DEF ListUnmapped, RangeMapLocked, ListUnmappedLocked, DeleteSG, DeleteTimesOut
<1>15. CASE UNCHANGED vars
  BY <1>2, <1>15 DEF vars
<1> QED
  BY <1>4, <1>5, <1>6, <1>7, <1>8, <1>9, <1>10, <1>11, <1>12, <1>13, <1>14, <1>15
  DEF Next, Proceed

\* The variables HeldInv is about.
HeldTypes ==
  /\ pc \in [Key -> Pcs]
  /\ members \in [Key -> SUBSET Resource]
  /\ required \in [Key -> BOOLEAN]
  /\ sgOf \in [Key -> SGID \cup {NoSG}]
  /\ objectsMap \in [Resource -> {"none", "required", "idle"}]

\* A reconcile that returns holds nothing any more.
LEMMA HeldReturn ==
  ASSUME HeldTypes, HeldInv, NEW k \in Key, Return(k), UNCHANGED autoGeneratedSG,
         \A r \in Resource : objectsMap[r] = "required" => objectsMap'[r] = "required"
  PROVE  HeldInv'
<1> USE DEF HeldInv
<1>1. \A q \in Key : q # k => /\ pc'[q] = pc[q] /\ members'[q] = members[q]
                              /\ required'[q] = required[q] /\ sgOf'[q] = sgOf[q]
  BY DEF Return, HeldTypes, Goto
<1>2. pc'[k] = "idle" /\ ~required'[k]
  BY DEF Return, HeldTypes, Goto
<1>3. \A q \in Key : Needs(q)' => q # k /\ Needs(q)
  BY <1>1, <1>2 DEF Needs, HoldsSG
<1>4. RequiredInv'
  BY <1>1, <1>2 DEF RequiredInv
<1>5. MappedInv'
  BY <1>1, <1>3 DEF MappedInv, HeldTypes
<1>6. CacheInv'
  BY <1>1, <1>2 DEF CacheInv, HoldsSG
<1>7. DeleteInv'
  BY <1>1, <1>2, <1>3 DEF DeleteInv
<1> QED
  BY <1>4, <1>5, <1>6, <1>7

\* A step within Release, which starts no deletion, leaves what others hold alone.
LEMMA HeldMove ==
  ASSUME HeldTypes, HeldInv, NEW k \in Key, NEW p \in Deployed, Goto(k, p),
         p \in {"list2", "delete"} => pc[k] \in {"list2", "delete"},
         UNCHANGED <<members, required, sgOf, autoGeneratedSG>>,
         \A r \in Resource : objectsMap[r] = "required" => objectsMap'[r] = "required"
  PROVE  HeldInv'
<1> USE DEF HeldInv
<1>1. \A q \in Key : q # k => pc'[q] = pc[q]
  BY DEF Goto, HeldTypes
<1>2. pc'[k] = p
  BY DEF Goto, HeldTypes
<1>3. ~Needs(k)' /\ \A q \in Key : Needs(q)' => Needs(q)
  BY <1>1, <1>2 DEF Needs, HoldsSG, Deployed
<1>4. RequiredInv'
  BY <1>1, <1>2 DEF RequiredInv, Deployed
<1>5. MappedInv'
  BY <1>3 DEF MappedInv, HeldTypes
<1>6. CacheInv'
  BY <1>1, <1>2 DEF CacheInv, HoldsSG, Deployed
<1>7. DeleteInv'
  BY <1>1, <1>2, <1>3 DEF DeleteInv
<1> QED
  BY <1>4, <1>5, <1>6, <1>7

\* Every step keeps a group that some reconcile holds mapped as required.
LEMMA HeldStep ==
  ASSUME FixedMembership, TypeOK, MutexInv, BelongsInv, HeldInv, [Next]_vars
  PROVE  HeldInv'
<1>0. HeldTypes
  BY DEF TypeOK, HeldTypes
<1> USE DEF k8sVars, providerVars, awsVars, localVars, boundVars
<1>1. CASE UNCHANGED <<pc, members, required, sgOf, objectsMap, autoGeneratedSG>>
  BY <1>1 DEF HeldInv, RequiredInv, MappedInv, CacheInv, DeleteInv, Needs, HoldsSG
<1>2. CASE User \/ UNCHANGED vars
  BY <1>1, <1>2 DEF User, UserDelete, Create, Regroup, ChangeWants, vars
<1>3. CASE Crash
  BY <1>3 DEF Crash, HeldInv, RequiredInv, MappedInv, CacheInv, DeleteInv, Needs, HoldsSG
<1>4. ASSUME NEW k \in Key, NEW r \in Resource, AddFinalizer(k, r) \/ RemoveFinalizer(k, r)
      PROVE  HeldInv'
  BY <1>1, <1>4 DEF AddFinalizer, RemoveFinalizer
<1>5. ASSUME NEW k \in Key, Return(k), UNCHANGED <<objectsMap, autoGeneratedSG>>
      PROVE  HeldInv'
  BY <1>0, <1>5, HeldReturn
<1>6. ASSUME NEW k \in Key, NEW r \in Resource, AddFinalizerRefused(k, r) PROVE HeldInv'
  BY <1>5, <1>6 DEF AddFinalizerRefused
<1>7. ASSUME NEW k \in Key, AllocateRefused(k) \/ DeployRejected(k) \/ Done(k) PROVE HeldInv'
  BY <1>5, <1>7 DEF AllocateRefused, DeployRejected, Done
<1>8. ASSUME NEW k \in Key, NEW p \in Deployed, Goto(k, p),
             p \in {"list2", "delete"} => pc[k] \in {"list2", "delete"},
             UNCHANGED <<members, required, sgOf, objectsMap, autoGeneratedSG>>
      PROVE  HeldInv'
  BY <1>0, <1>8, HeldMove
<1>9. ASSUME NEW k \in Key, RangeMap(k) PROVE HeldInv'
  BY <1>8, <1>9 DEF RangeMap, Deployed
<1>10. ASSUME NEW k \in Key, ListUnmapped(k) PROVE HeldInv'
  BY <1>8, <1>10 DEF ListUnmapped, Deployed
<1>11. ASSUME NEW k \in Key, LockRelease(k) PROVE HeldInv'
  BY <1>8, <1>11 DEF LockRelease, Deployed
<1>12. ASSUME NEW k \in Key, ListUnmappedLocked(k) PROVE HeldInv'
  BY <1>8, <1>12 DEF ListUnmappedLocked, Deployed
<1>13. ASSUME NEW k \in Key, DeleteTimesOut(k) PROVE HeldInv'
  BY <1>8, <1>13 DEF DeleteTimesOut, Deployed
<1>14. ASSUME NEW k \in Key, ApiError(k) PROVE HeldInv'
  <2>1. UNCHANGED <<objectsMap, autoGeneratedSG>>
    BY <1>14 DEF ApiError
  <2>2. CASE Return(k)
    BY <1>5, <2>1, <2>2
  <2>3. CASE Goto(k, "forget") /\ UNCHANGED <<members, inactive, required, sgOf, todo>>
    BY <1>8, <2>1, <2>3 DEF Deployed
  <2> QED
    BY <1>14, <2>2, <2>3 DEF ApiError
<1>15. ASSUME NEW k \in Key, Forget(k) PROVE HeldInv'
  <2>1. /\ UNCHANGED autoGeneratedSG
        /\ \A r \in Resource : objectsMap[r] = "required" => objectsMap'[r] = "required"
    BY <1>15 DEF Forget
  <2>2. CASE Return(k)
    BY <1>0, <2>1, <2>2, HeldReturn
  <2>3. CASE Goto(k, "removeFinalizers") /\ UNCHANGED <<members, inactive, required, sgOf>>
    BY <1>0, <2>1, <2>3, HeldMove DEF Deployed
  <2> QED
    BY <1>15, <2>2, <2>3 DEF Forget
<1>16. ASSUME NEW k \in Key, Deploy(k) PROVE HeldInv'
  <2>1. UNCHANGED <<objectsMap, autoGeneratedSG>>
    BY <1>16 DEF Deploy
  <2>2. CASE Return(k)
    BY <1>5, <2>1, <2>2
  <2>3. CASE Goto(k, AfterDeploy(k)) /\ UNCHANGED localVars
    BY <1>8, <2>1, <2>3 DEF AfterDeploy, Deployed
  <2> QED
    BY <1>16, <2>2, <2>3 DEF Deploy
<1>17. ASSUME NEW k \in Key, Load(k) PROVE HeldInv'
  <2> USE DEF HeldInv
  <2>1. \A q \in Key : q # k => pc'[q] = pc[q] /\ members'[q] = members[q]
    BY <1>0, <1>17 DEF Load, Goto, HeldTypes
  <2>2. ~required[k] /\ pc'[k] \in {"addFinalizers", "build"}
    BY <1>0, <1>17 DEF Load, Goto, HeldTypes, RequiredInv
  <2>3. UNCHANGED <<required, sgOf, objectsMap, autoGeneratedSG>>
    BY <1>17 DEF Load
  <2>4. \A q \in Key : Needs(q)' => q # k /\ Needs(q)
    BY <2>1, <2>2, <2>3 DEF Needs, HoldsSG
  <2>5. RequiredInv'
    BY <2>1, <2>2, <2>3 DEF RequiredInv
  <2>6. MappedInv'
    BY <2>1, <2>3, <2>4 DEF MappedInv
  <2>7. CacheInv'
    BY <2>1, <2>2, <2>3 DEF CacheInv, HoldsSG
  <2>8. DeleteInv'
    BY <2>1, <2>2, <2>4 DEF DeleteInv
  <2> QED
    BY <2>5, <2>6, <2>7, <2>8
<1>18. ASSUME NEW k \in Key, FinalizersAdded(k) PROVE HeldInv'
  <2> USE DEF HeldInv
  <2>1. \A q \in Key : q # k => pc'[q] = pc[q]
    BY <1>0, <1>18 DEF FinalizersAdded, Goto, HeldTypes
  <2>2. /\ pc[k] = "addFinalizers"
        /\ k \in Group => pc'[k] = "build" /\ ~required[k]
        /\ k \notin Group => pc'[k] = "deploy" /\ k \in Service
    BY <1>0, <1>18 DEF FinalizersAdded, Goto, HeldTypes, RequiredInv, Key
  <2>3. UNCHANGED <<members, required, sgOf, objectsMap, autoGeneratedSG>>
    BY <1>18 DEF FinalizersAdded
  <2>4. \A q \in Key : (Needs(q)' => Needs(q)) /\ (HoldsSG(q)' => HoldsSG(q))
    BY <2>1, <2>2, <2>3 DEF Needs, HoldsSG
  <2>5. RequiredInv'
    BY <2>1, <2>2, <2>3 DEF RequiredInv
  <2>6. MappedInv'
    BY <2>3, <2>4 DEF MappedInv
  <2>7. CacheInv'
    BY <2>1, <2>2, <2>3, <2>4 DEF CacheInv
  <2>8. DeleteInv'
    BY <2>1, <2>2, <2>4 DEF DeleteInv
  <2> QED
    BY <2>5, <2>6, <2>7, <2>8
<1>19. ASSUME NEW k \in Key, Build(k) PROVE HeldInv'
  <2> USE DEF HeldInv
  <2>1. \A q \in Key : q # k => pc'[q] = pc[q] /\ required'[q] = required[q]
    BY <1>0, <1>19 DEF Build, Goto, HeldTypes
  <2>2. \/ pc'[k] = "get" /\ required'[k] /\ members[k] # {}
        \/ pc'[k] \in {"addFinalizers", "deploy"} /\ ~required'[k]
    BY <1>0, <1>19 DEF Build, AfterBuild, Goto, HeldTypes
  <2>3. UNCHANGED <<members, sgOf, objectsMap, autoGeneratedSG>>
    BY <1>19 DEF Build
  <2>4. \A q \in Key : Needs(q)' => q # k /\ Needs(q)
    BY <2>1, <2>2, <2>3 DEF Needs, HoldsSG
  <2>5. RequiredInv'
    BY <2>1, <2>2, <2>3 DEF RequiredInv
  <2>6. MappedInv'
    BY <2>3, <2>4 DEF MappedInv
  <2>7. CacheInv'
    BY <2>1, <2>2, <2>3, <2>4 DEF CacheInv, Needs, HoldsSG
  <2>8. DeleteInv'
    BY <2>1, <2>2, <2>4 DEF DeleteInv
  <2> QED
    BY <2>5, <2>6, <2>7, <2>8
<1>20. ASSUME NEW k \in Key, GetSG(k) PROVE HeldInv'
  <2> USE DEF HeldInv
  <2>1. \A q \in Key : q # k => pc'[q] = pc[q]
    BY <1>0, <1>20 DEF GetSG, Goto, HeldTypes
  <2>2. /\ pc[k] = "get" /\ mutex = NoKey
        /\ \/ pc'[k] = "read" /\ autoGeneratedSG # NoSG
           \/ pc'[k] = "allocate" /\ autoGeneratedSG = NoSG
    BY <1>0, <1>20 DEF GetSG, Goto, HeldTypes
  <2>3. UNCHANGED <<members, required, sgOf, autoGeneratedSG>>
    BY <1>20 DEF GetSG
  <2>4. \A r \in Resource : objectsMap'[r] = IF r \in members[k] THEN "required" ELSE objectsMap[r]
    BY <1>20 DEF GetSG
  <2>5. \A q \in Key : Needs(q)' => q = k \/ Needs(q)
    BY <2>1, <2>3 DEF Needs, HoldsSG
  <2>6. RequiredInv'
    BY <2>1, <2>2, <2>3 DEF RequiredInv
  <2>7. MappedInv'
    BY <1>0, <2>3, <2>4, <2>5 DEF MappedInv, HeldTypes
  <2>8. CacheInv'
    BY <2>1, <2>2, <2>3 DEF CacheInv, HoldsSG
  <2>9. DeleteInv'
    BY NullAssumption, <2>1, <2>2 DEF DeleteInv, MutexInv
  <2> QED
    BY <2>6, <2>7, <2>8, <2>9
<1>21. ASSUME NEW k \in Key, AllocateSG(k) PROVE HeldInv'
  <2> USE DEF HeldInv
  <2>1. \A q \in Key : q # k => pc'[q] = pc[q] /\ pc[q] # "allocate"
    BY SMT, <1>0, <1>21 DEF AllocateSG, Goto, HeldTypes, MutexInv
  <2>2. pc[k] = "allocate" /\ pc'[k] = "read" /\ autoGeneratedSG = NoSG
    BY <1>0, <1>21 DEF AllocateSG, Goto, HeldTypes, CacheInv
  <2>3. UNCHANGED <<members, required, sgOf, objectsMap>>
    BY <1>21 DEF AllocateSG
  <2>4. autoGeneratedSG' # NoSG
    BY <1>21, NullAssumption DEF AllocateSG, TypeOK
  <2>5. \A q \in Key : Needs(q)' => Needs(q)
    BY <2>1, <2>2, <2>3 DEF Needs, HoldsSG
  <2>6. RequiredInv'
    BY <2>1, <2>2, <2>3 DEF RequiredInv
  <2>7. MappedInv'
    BY <2>3, <2>5 DEF MappedInv
  <2>8. CacheInv'
    BY <2>1, <2>2, <2>3, <2>4 DEF CacheInv, HoldsSG
  <2>9. DeleteInv'
    BY <2>1, <2>2, <2>5 DEF DeleteInv
  <2> QED
    BY <2>6, <2>7, <2>8, <2>9
<1>22. ASSUME NEW k \in Key, ReadSG(k) PROVE HeldInv'
  <2> USE DEF HeldInv
  <2>1. \A q \in Key : q # k => pc'[q] = pc[q] /\ sgOf'[q] = sgOf[q]
    BY <1>0, <1>22 DEF ReadSG, Goto, HeldTypes
  <2>2. /\ pc[k] = "read" /\ autoGeneratedSG # NoSG /\ sgOf'[k] = autoGeneratedSG
        /\ pc'[k] \in {"addFinalizers", "deploy"}
        /\ k \in Group => pc'[k] = "deploy"
    BY <1>0, <1>22, KindAssumption DEF ReadSG, AfterBuild, Goto, HeldTypes, CacheInv
  <2>3. UNCHANGED <<members, required, objectsMap, autoGeneratedSG>>
    BY <1>22 DEF ReadSG
  <2>4. \A q \in Key : Needs(q)' => Needs(q)
    BY <2>1, <2>2, <2>3 DEF Needs, HoldsSG
  <2>5. RequiredInv'
    BY <2>1, <2>2, <2>3 DEF RequiredInv
  <2>6. MappedInv'
    BY <2>3, <2>4 DEF MappedInv
  <2>7. CacheInv'
    BY <2>1, <2>2, <2>3 DEF CacheInv, HoldsSG
  <2>8. DeleteInv'
    BY <2>1, <2>2, <2>4 DEF DeleteInv
  <2> QED
    BY <2>5, <2>6, <2>7, <2>8
<1>23. ASSUME NEW k \in Key, MarkReleased(k) PROVE HeldInv'
  <2> USE DEF HeldInv
  <2>1. \A q \in Key : q # k => pc'[q] = pc[q]
    BY <1>0, <1>23 DEF MarkReleased, Goto, HeldTypes
  <2>2. pc[k] = "release" /\ pc'[k] = "range"
    BY <1>0, <1>23 DEF MarkReleased, Goto, HeldTypes
  <2>3. UNCHANGED <<members, required, sgOf, autoGeneratedSG>>
    BY <1>23 DEF MarkReleased
  <2>4. \A q \in Key : Needs(q)' => q # k /\ Needs(q)
    BY <2>1, <2>2, <2>3 DEF Needs, HoldsSG
  <2>5. \A q \in Key : q # k => members[q] \cap Released(k) = {}
    BY SMT, <1>0 DEF BelongsInv, Belongs, FixedMembership, Released, HeldTypes
  <2>6. RequiredInv'
    BY <2>1, <2>2, <2>3 DEF RequiredInv
  <2>7. MappedInv'
    BY <1>0, <1>23, <2>3, <2>4, <2>5 DEF MarkReleased, MappedInv, HeldTypes
  <2>8. CacheInv'
    BY <2>1, <2>2, <2>3 DEF CacheInv, HoldsSG
  <2>9. DeleteInv'
    BY <2>1, <2>2, <2>4 DEF DeleteInv
  <2> QED
    BY <2>6, <2>7, <2>8, <2>9
<1>24. ASSUME NEW k \in Key, RangeMapLocked(k) PROVE HeldInv'
  <2>1. CASE RequiredForAny
    BY <1>8, <1>24, <2>1 DEF RangeMapLocked, Deployed
  <2>2. CASE ~RequiredForAny
    <3> USE DEF HeldInv
    <3>1. \A q \in Key : q # k => pc'[q] = pc[q]
      BY <1>0, <1>24 DEF RangeMapLocked, Goto, HeldTypes
    <3>2. pc[k] = "range2" /\ pc'[k] = "list2"
      BY <1>0, <1>24, <2>2 DEF RangeMapLocked, Goto, HeldTypes
    <3>3. UNCHANGED <<members, required, sgOf, objectsMap, autoGeneratedSG>>
      BY <1>24 DEF RangeMapLocked
    <3>4. \A q \in Key : ~Needs(q)
      BY <1>0, <2>2 DEF RequiredForAny, MappedInv, RequiredInv, Needs, HoldsSG, HeldTypes
    <3>5. \A q \in Key : ~Needs(q)'
      BY <3>1, <3>2, <3>3, <3>4 DEF Needs, HoldsSG
    <3>6. RequiredInv'
      BY <3>1, <3>2, <3>3 DEF RequiredInv
    <3>7. MappedInv' /\ DeleteInv'
      BY <3>5 DEF MappedInv, DeleteInv
    <3>8. CacheInv'
      BY <3>5 DEF CacheInv, Needs
    <3> QED
      BY <3>6, <3>7, <3>8
  <2> QED
    BY <2>1, <2>2
<1>25. ASSUME NEW k \in Key, DeleteSG(k) PROVE HeldInv'
  <2> USE DEF HeldInv
  <2>1. \A q \in Key : q # k => pc'[q] = pc[q]
    BY <1>0, <1>25 DEF DeleteSG, Goto, HeldTypes
  <2>2. pc[k] = "delete" /\ pc'[k] = "forget"
    BY <1>0, <1>25 DEF DeleteSG, Goto, HeldTypes
  <2>3. UNCHANGED <<members, required, sgOf, objectsMap>>
    BY <1>25 DEF DeleteSG
  <2>4. \A q \in Key : ~Needs(q)
    BY <2>2 DEF DeleteInv
  <2>5. \A q \in Key : ~Needs(q)'
    BY <2>1, <2>2, <2>3, <2>4 DEF Needs, HoldsSG
  <2>6. RequiredInv'
    BY <2>1, <2>2, <2>3 DEF RequiredInv
  <2>7. MappedInv' /\ DeleteInv'
    BY <2>5 DEF MappedInv, DeleteInv
  <2>8. CacheInv'
    BY <2>5 DEF CacheInv, Needs
  <2> QED
    BY <2>6, <2>7, <2>8
<1> QED
  BY <1>2, <1>3, <1>4, <1>6, <1>7, <1>9, <1>10, <1>11, <1>12, <1>13, <1>14, <1>15, <1>16,
     <1>17, <1>18, <1>19, <1>20, <1>21, <1>22, <1>23, <1>24, <1>25
  DEF Next, Proceed, TakeLock

-----------------------------------------------------------------------------
(* The theorems. *)

\* The cached id of the backend SG is always the id of an existing group: only
\* allocateBackendSG sets it, from EC2's answer, and releaseSG clears it together
\* with the deletion.
THEOREM CachedExists == Spec => []CachedSGExists
<1>1. Init => CachedSGExists
  BY DEF Init, CachedSGExists
<1>2. CachedSGExists /\ [Next]_vars => CachedSGExists'
  <2> SUFFICES ASSUME CachedSGExists, [Next]_vars PROVE CachedSGExists'
    OBVIOUS
  <2> USE DEF CachedSGExists
  <2>1. CASE UNCHANGED <<autoGeneratedSG, ec2SG>>
    BY <2>1
  <2>2. CASE \E k \in Key : AllocateSG(k) \/ DeleteSG(k)
    BY <2>2 DEF AllocateSG, DeleteSG
  <2>3. CASE Crash
    BY <2>3 DEF Crash, awsVars
  <2> QED
    BY <2>1, <2>2, <2>3, ProviderSteps
<1> QED
  BY <1>1, <1>2, PTL DEF Spec

\* There is never a second backend SG, whatever the interleaving of Gets, errors
\* and restarts: allocation looks for an existing group under the mutex.
THEOREM SingleSG == Spec => []SingleBackendSG
<1> DEFINE AtMostOne == ec2SG = {} \/ \E id \in SGID : ec2SG = {id}
<1>1. Init => AtMostOne
  BY DEF Init
<1>2. AtMostOne /\ [Next]_vars => AtMostOne'
  <2> SUFFICES ASSUME AtMostOne, [Next]_vars PROVE AtMostOne'
    OBVIOUS
  <2>1. CASE UNCHANGED <<autoGeneratedSG, ec2SG>>
    BY <2>1
  <2>2. CASE \E k \in Key : AllocateSG(k)
    BY <2>2 DEF AllocateSG
  <2>3. CASE \E k \in Key : DeleteSG(k)
    BY <2>3 DEF DeleteSG
  <2>4. CASE Crash
    BY <2>4 DEF Crash, awsVars
  <2> QED
    BY <2>1, <2>2, <2>3, <2>4, ProviderSteps
<1>3. AtMostOne => SingleBackendSG
  <2>1. ASSUME ec2SG = {} PROVE SingleBackendSG
    BY SMT, <2>1, FS_EmptySet DEF SingleBackendSG
  <2>2. ASSUME NEW id \in SGID, ec2SG = {id} PROVE SingleBackendSG
    <3>1. Cardinality({id}) = 1
      BY FS_Singleton
    <3> QED
      BY SMT, <2>2, <3>1 DEF SingleBackendSG
  <2> QED
    BY <2>1, <2>2
<1> QED
  BY <1>1, <1>2, <1>3, PTL DEF Spec

\* A load balancer in AWS always has an object in the cluster that carries the
\* finalizer of its key, for every number of groups, services and objects and any
\* edits, errors and restarts.
THEOREM LBOwned == Spec => []LBHasOwner
<1>1. Init => OwnerInv
  BY DEF Init, OwnerInv, AbsentInv, DisjointInv, FinalizedInv, TodoInv, GoneInv, LBHasOwner,
         Deployed
<1>2. TypeOK /\ OwnerInv /\ [Next]_vars => OwnerInv'
  BY OwnerStep
<1>3. OwnerInv => LBHasOwner
  BY DEF OwnerInv
<1> QED
  BY <1>1, <1>2, <1>3, TypeCorrect, PTL DEF Spec

\* When no object moves between groups, the backend SG a reconcile got from Get
\* exists until its load balancer is deployed: the map entry written by Get under
\* the mutex keeps every Release from deleting it.
THEOREM HeldSG == FixedMembership /\ Spec => []HeldSGExists
<1> SUFFICES ASSUME FixedMembership PROVE Spec => []HeldSGExists
  OBVIOUS
<1> DEFINE IInv == MutexInv /\ BelongsInv /\ HeldInv
<1>1. Init => IInv
  <2> SUFFICES ASSUME Init PROVE IInv
    OBVIOUS
  <2>1. MutexInv
    BY NullAssumption DEF Init, MutexInv
  <2>2. BelongsInv
    BY DEF Init, BelongsInv
  <2>3. HeldInv
    BY DEF Init, HeldInv, RequiredInv, MappedInv, CacheInv, DeleteInv, Needs, HoldsSG
  <2> QED
    BY <2>1, <2>2, <2>3
<1>2. TypeOK /\ IInv /\ [Next]_vars => IInv'
  BY MutexStep, BelongsStep, HeldStep
<1>3. IInv /\ CachedSGExists => HeldSGExists
  BY DEF HeldInv, CacheInv, CachedSGExists, HeldSGExists
<1> HIDE DEF IInv
<1> QED
  BY <1>1, <1>2, <1>3, TypeCorrect, CachedExists, PTL DEF Spec

=============================================================================
