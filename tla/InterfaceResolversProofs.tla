---------------------- MODULE InterfaceResolversProofs ----------------------
(* What Resolve answers, proved for any pods, nodes, addresses, workers,       *)
(* lifetimes of the caches and numbers of changes.  Pods and nodes have        *)
(* distinct names (Named), as each has a cache of its own in the code.         *)
EXTENDS InterfaceResolvers, TLAPS

\* The steps are found by Zenon, unless they cite SMT.
USE ZenonT(60)

Named == Pod \cap Node = {}

-----------------------------------------------------------------------------
(* The inductive invariant.                                                    *)

\* Where the address of a pod may be.
Places(p) == {<<pods[p].node, nodes[pods[p].node], 0>>, <<pods[p].node, nodes[pods[p].node], 1>>,
              <<p, pods[p].uid, Own>>}

\* Pods on nodes that exist, with addresses of their own, on interfaces that exist.
PodInv ==
  /\ DOMAIN pods \subseteq Pod
  /\ \A p \in DOMAIN pods :
       /\ pods[p].key = p /\ pods[p].uid \in Nat /\ pods[p].ip \in Addr /\ pods[p].node \in DOMAIN nodes
       /\ holder[pods[p].ip] \in Places(p)
       /\ pods[p].eni # NoENI => pods[p].eni = <<p, pods[p].uid, Own>> /\ holder[pods[p].ip] = pods[p].eni
  /\ \A p, q \in DOMAIN pods : pods[p].ip = pods[q].ip => p = q

\* An earlier pod has a smaller uid.
BeforeInv ==
  /\ DOMAIN before \subseteq Pod
  /\ \A p \in DOMAIN before :
       /\ before[p].key = p /\ before[p].uid \in Nat
       /\ p \in DOMAIN pods => before[p].uid < pods[p].uid

NodeInv == DOMAIN nodes \subseteq Node /\ DOMAIN holder = Addr /\ \A n \in DOMAIN nodes : nodes[n] \in Nat

World == PodInv /\ BeforeInv /\ NodeInv

\* Something of this name and uid exists or has existed.
Past(k, u) ==
  /\ u \in Nat
  /\ \/ k \in Pod /\ k \in DOMAIN pods /\ u <= pods[k].uid
     \/ k \in Pod /\ k \in DOMAIN before /\ u <= before[k].uid
     \/ k \in Node /\ (k \in DOMAIN nodes => u <= nodes[k])

\* What is asked for was a pod or node, and is the one that now has its uid.
Known(i) ==
  /\ Past(i.key, i.uid)
  /\ i.key \in DOMAIN pods /\ pods[i.key].uid = i.uid => pods[i.key] = i

\* A fact of an entry: while the pod or node lives it names its interface.
Right(i, info) == Live(i) => info.id = Carrier(i)

CacheInv ==
  /\ \A k \in DOMAIN cache : k = <<k[1], k[2]>> /\ Past(k[1], k[2])
  /\ \A i : computeENIInfoCacheKey(i) \in DOMAIN cache => Right(i, cache[computeENIInfoCacheKey(i)].info)

Covered(c, i) == i.key \in DOMAIN c.cached \cup DOMAIN c.found

\* The answers so far are right.
Answers(w) ==
  \A i \in call[w].asked :
    /\ Known(i)
    /\ i.key \in DOMAIN call[w].cached => Right(i, call[w].cached[i.key])
    /\ i.key \in DOMAIN call[w].found => Right(i, call[w].found[i.key])

\* What is saved or answered has everything that lives.
Stages(w) ==
  LET c == call[w]
  IN  /\ c.stage \in {"annotation", "node", "vpc"} => \A i \in c.asked : i.key \in Pod
      /\ c.stage = "instance" => \A i \in c.asked : i.key \notin Pod
      /\ c.stage = "save" => \A i \in c.asked : Live(i) => Covered(c, i)
      /\ c.stage = "done" /\ ~c.failed => \A i \in c.asked : Covered(c, i)
      /\ c.stage = "done" /\ c.failed => \E i \in c.asked : ~Live(i)

Keyed(S) == \A i, j \in S : i.key = j.key => i = j

Shaped(c) == DOMAIN c = {"asked", "cached", "found", "failed", "stage"}

CallInv(w) == Shaped(call[w]) /\ Keyed(call[w].asked) /\ Answers(w) /\ Stages(w)

CallsInv == DOMAIN call = Worker /\ \A w \in Worker : CallInv(w)

IInv == World /\ CacheInv /\ CallsInv

-----------------------------------------------------------------------------
(* What happens to pods and nodes.                                             *)

LEMMA Triples ==
  \A x, y, z, u, v, w :
    /\ <<x, y, z>> = <<u, v, w>> => x = u /\ y = v /\ z = w
    /\ <<x, y, z>>[1] = x /\ <<x, y, z>>[2] = y /\ <<x, y, z>>[3] = z /\ <<x, y, z>> # NoENI
BY SMT DEF NoENI

\* A pod gets a uid that none of its name had, and an address that is free.
Creates(p, n, a) ==
  /\ UNCHANGED <<before, nodes, groups, cache, call>> /\ quiet' = 0
  /\ p \notin DOMAIN pods /\ n \in DOMAIN nodes /\ \A q \in DOMAIN pods : pods[q].ip # a
  /\ DOMAIN pods' = DOMAIN pods \cup {p} /\ \A q \in DOMAIN pods : pods'[q] = pods[q]
  /\ pods'[p].key = p /\ pods'[p].ip = a /\ pods'[p].node = n /\ pods'[p].uid \in Nat
  /\ p \in DOMAIN before => before[p].uid < pods'[p].uid
  /\ DOMAIN holder' = Addr /\ \A b \in Addr \ {a} : holder'[b] = holder[b]
  /\ holder'[a] \in {<<n, nodes[n], 0>>, <<n, nodes[n], 1>>, <<p, pods'[p].uid, Own>>}
  /\ pods'[p].eni # NoENI => pods'[p].eni = <<p, pods'[p].uid, Own>> /\ holder'[a] = pods'[p].eni

LEMMA Created ==
  ASSUME World, NEW p \in Pod, NEW n \in Node, NEW a \in Addr, CreatePod(p, n, a)
  PROVE  Creates(p, n, a)
<1> DEFINE uid == IF p \in DOMAIN before THEN before[p].uid + 1 ELSE 1
           own == <<p, uid, Own>>
           E == IF n \in Fargate THEN {own} ELSE {<<n, nodes[n], 0>>, <<n, nodes[n], 1>>, own}
<1>1. /\ UNCHANGED <<before, nodes, groups, cache, call>> /\ quiet' = 0
      /\ p \notin DOMAIN pods /\ n \in DOMAIN nodes /\ \A q \in DOMAIN pods : pods[q].ip # a
  BY DEF CreatePod, Changing
<1>2. uid \in Nat /\ (p \in DOMAIN before => before[p].uid < uid)
  <2>1. p \in DOMAIN before => before[p].uid \in Nat
    BY DEF World, BeforeInv
  <2> QED
    BY SMT, <2>1
<1>3. PICK e \in E :
        /\ pods' = With(pods, p, [key |-> p, uid |-> uid, ip |-> a, node |-> n,
                                  eni |-> IF e = own /\ n \notin Fargate THEN own ELSE NoENI])
        /\ holder' = [holder EXCEPT ![a] = e]
  BY DEF CreatePod
<1>4. e \in {<<n, nodes[n], 0>>, <<n, nodes[n], 1>>, own}
  BY <1>3
<1> HIDE DEF uid, E
<1> DEFINE new == [key |-> p, uid |-> uid, ip |-> a, node |-> n,
                   eni |-> IF e = own /\ n \notin Fargate THEN own ELSE NoENI]
<1>5. /\ new.key = p /\ new.uid = uid /\ new.ip = a /\ new.node = n
      /\ new.eni # NoENI => new.eni = own /\ e = own
  BY SMT
<1>6. pods' = With(pods, p, new)
  BY <1>3
<1> HIDE DEF new
<1>7. DOMAIN pods' = DOMAIN pods \cup {p} /\ pods'[p] = new /\ \A q \in DOMAIN pods : pods'[q] = pods[q]
  BY <1>1, <1>6 DEF With
<1>8. DOMAIN holder' = Addr /\ holder'[a] = e /\ \A b \in Addr \ {a} : holder'[b] = holder[b]
  BY <1>3 DEF World, NodeInv
<1> QED
  BY <1>1, <1>2, <1>4, <1>5, <1>7, <1>8 DEF Creates

\* Of the addresses only that on the pod's own interface goes.
Deletes(p) ==
  /\ UNCHANGED <<nodes, groups, cache, call>> /\ quiet' = 0
  /\ p \in DOMAIN pods
  /\ DOMAIN pods' = DOMAIN pods \ {p} /\ \A q \in DOMAIN pods' : pods'[q] = pods[q]
  /\ DOMAIN before' = DOMAIN before \cup {p} /\ before'[p] = pods[p]
  /\ \A q \in DOMAIN before \ {p} : before'[q] = before[q]
  /\ DOMAIN holder' = Addr
  /\ \A b \in Addr : holder[b] # <<p, pods[p].uid, Own>> => holder'[b] = holder[b]

LEMMA Deleted ==
  ASSUME World, NEW p \in Pod, DeletePod(p)
  PROVE  Deletes(p)
BY DEF Deletes, DeletePod, Changing, With

\* A node that goes had no pods.
Leaves(n) ==
  /\ UNCHANGED <<pods, before, groups, cache, call>> /\ quiet' = 0
  /\ n \in DOMAIN nodes /\ \A p \in DOMAIN pods : pods[p].node # n
  /\ DOMAIN nodes' \subseteq DOMAIN nodes /\ DOMAIN nodes \ {n} \subseteq DOMAIN nodes'
  /\ \A m \in DOMAIN nodes \ {n} : nodes'[m] = nodes[m]
  /\ n \in DOMAIN nodes' => nodes'[n] = nodes[n] + 1
  /\ DOMAIN holder' = Addr
  /\ \A b \in Addr : holder[b] = NoENI \/ holder[b][1] # n => holder'[b] = holder[b]

LEMMA NodeGone ==
  ASSUME World, NEW n \in Node, ReplaceNode(n) \/ RemoveNode(n)
  PROVE  Leaves(n)
<1>1. CASE ReplaceNode(n)
  BY <1>1 DEF Leaves, ReplaceNode, Changing
<1>2. CASE RemoveNode(n)
  BY <1>2 DEF Leaves, RemoveNode, Changing
<1> QED
  BY <1>1, <1>2

\* The other steps leave pods and nodes alone.
LEMMA OtherSteps ==
  ASSUME [Next]_vars
  PROVE  \/ UNCHANGED <<pods, before, nodes, holder>>
         \/ \E p \in Pod, n \in Node, a \in Addr : CreatePod(p, n, a)
         \/ \E p \in Pod : DeletePod(p)
         \/ \E n \in Node : ReplaceNode(n) \/ RemoveNode(n)
<1>1. CASE UNCHANGED vars \/ Tick \/ \E e \in ENI : ChangeGroups(e)
  BY <1>1 DEF vars, Tick, ChangeGroups
<1>2. CASE \E w \in Worker : \/ \E asked \in Asking : Resolve(w, asked)
                             \/ resolveViaCascadedLookup(w) \/ saveENIInfosToCache(w)
  BY <1>2 DEF Resolve, resolveViaCascadedLookup, saveENIInfosToCache
<1> QED
  BY <1>1, <1>2 DEF Next

LEMMA WorldCreate ==
  ASSUME Named, World, NEW p \in Pod, NEW n \in Node, NEW a \in Addr, CreatePod(p, n, a)
  PROVE  World'
<1>0. Creates(p, n, a)
  BY Created
<1>1. NodeInv'
  BY <1>0 DEF Creates, World, NodeInv
<1>2. BeforeInv'
  BY <1>0 DEF Creates, World, BeforeInv
<1>3. ASSUME NEW q \in DOMAIN pods'
      PROVE  /\ pods'[q].key = q /\ pods'[q].uid \in Nat /\ pods'[q].ip \in Addr /\ pods'[q].node \in DOMAIN nodes'
             /\ holder'[pods'[q].ip] \in Places(q)'
             /\ pods'[q].eni # NoENI => pods'[q].eni = <<q, pods'[q].uid, Own>> /\ holder'[pods'[q].ip] = pods'[q].eni
  <2>1. CASE q = p
    BY <2>1, <1>0 DEF Creates, Places
  <2>2. CASE q # p
    <3>1. q \in DOMAIN pods /\ pods'[q] = pods[q] /\ pods[q].ip \in Addr \ {a} /\ nodes' = nodes
      BY <2>2, <1>0 DEF Creates, World, PodInv
    <3>2. holder'[pods[q].ip] = holder[pods[q].ip] /\ Places(q)' = Places(q)
      BY <3>1, <1>0 DEF Creates, Places
    <3> QED
      BY <3>1, <3>2 DEF World, PodInv
  <2> QED
    BY <2>1, <2>2
<1>4. ASSUME NEW q \in DOMAIN pods', NEW r \in DOMAIN pods', pods'[q].ip = pods'[r].ip PROVE q = r
  <2>1. \A x \in DOMAIN pods' : x = p \/ (x \in DOMAIN pods /\ pods'[x] = pods[x] /\ pods[x].ip # a)
    BY <1>0 DEF Creates
  <2>2. pods'[p].ip = a
    BY <1>0 DEF Creates
  <2> QED
    BY <1>4, <2>1, <2>2 DEF World, PodInv
<1>5. DOMAIN pods' \subseteq Pod
  BY <1>0 DEF Creates, World, PodInv
<1> QED
  BY <1>1, <1>2, <1>3, <1>4, <1>5 DEF World, PodInv

LEMMA WorldDelete ==
  ASSUME Named, World, NEW p \in Pod, DeletePod(p)
  PROVE  World'
<1>0. Deletes(p)
  BY Deleted
<1>1. NodeInv'
  BY <1>0 DEF Deletes, World, NodeInv
<1>2. BeforeInv'
  <2>0. \A q \in DOMAIN before' : IF q = p THEN before'[q] = pods[p] /\ p \in DOMAIN pods
                                   ELSE q \in DOMAIN before /\ before'[q] = before[q]
    BY <1>0 DEF Deletes
  <2>1. \A q \in DOMAIN before' : before'[q].key = q /\ before'[q].uid \in Nat
    BY <2>0 DEF World, BeforeInv, PodInv
  <2>2. \A q \in DOMAIN before' : q \in DOMAIN pods' => before'[q].uid < pods'[q].uid
    BY <1>0 DEF Deletes, World, BeforeInv
  <2> QED
    BY <2>1, <2>2, <1>0 DEF Deletes, World, BeforeInv
<1>3. ASSUME NEW q \in DOMAIN pods'
      PROVE  /\ pods'[q] = pods[q] /\ q \in DOMAIN pods /\ nodes' = nodes
             /\ holder'[pods[q].ip] = holder[pods[q].ip]
  <2>1. q # p /\ q \in DOMAIN pods /\ pods'[q] = pods[q] /\ nodes' = nodes
    BY <1>0 DEF Deletes
  <2>2. holder[pods[q].ip] \in Places(q) /\ pods[q].ip \in Addr
    BY <2>1 DEF World, PodInv
  <2>3. holder[pods[q].ip] # <<p, pods[p].uid, Own>>
    BY SMT, <2>1, <2>2, Triples DEF Places, Own
  <2> QED
    BY <2>1, <2>2, <2>3, <1>0 DEF Deletes
<1>4. \A q \in DOMAIN pods' : Places(q)' = Places(q)
  BY <1>3 DEF Places
<1>5. ASSUME NEW q \in DOMAIN pods'
      PROVE  /\ pods'[q].key = q /\ pods'[q].uid \in Nat /\ pods'[q].ip \in Addr /\ pods'[q].node \in DOMAIN nodes'
             /\ holder'[pods'[q].ip] \in Places(q)'
             /\ pods'[q].eni # NoENI => pods'[q].eni = <<q, pods'[q].uid, Own>> /\ holder'[pods'[q].ip] = pods'[q].eni
  <2>1. /\ q \in DOMAIN pods /\ pods'[q] = pods[q] /\ nodes' = nodes /\ Places(q)' = Places(q)
        /\ holder'[pods'[q].ip] = holder[pods[q].ip]
    BY <1>3, <1>4
  <2> QED
    BY <2>1 DEF World, PodInv
<1>6. DOMAIN pods' \subseteq Pod /\ \A q, r \in DOMAIN pods' : pods'[q].ip = pods'[r].ip => q = r
  BY <1>3 DEF World, PodInv
<1> QED
  BY <1>1, <1>2, <1>5, <1>6 DEF World, PodInv

LEMMA WorldNode ==
  ASSUME Named, World, NEW n \in Node, ReplaceNode(n) \/ RemoveNode(n)
  PROVE  World' /\ \A q \in DOMAIN pods : holder'[pods[q].ip] = holder[pods[q].ip]
<1>0. Leaves(n)
  BY NodeGone
<1>1. NodeInv'
  <2>1. \A m \in DOMAIN nodes' : nodes'[m] \in Nat
    <3>1. nodes[n] + 1 \in Nat
      <4>1. nodes[n] \in Nat
        BY <1>0 DEF Leaves, World, NodeInv
      <4> QED
        BY SMT, <4>1
    <3> QED
      BY <3>1, <1>0 DEF Leaves, World, NodeInv
  <2> QED
    BY <2>1, <1>0 DEF Leaves, World, NodeInv
<1>2. BeforeInv'
  BY <1>0 DEF Leaves, World, BeforeInv
<1>3. ASSUME NEW q \in DOMAIN pods
      PROVE  /\ holder'[pods[q].ip] = holder[pods[q].ip] /\ Places(q)' = Places(q)
             /\ pods[q].node \in DOMAIN nodes'
  <2>1. pods[q].node # n /\ pods[q].node \in DOMAIN nodes /\ pods' = pods /\ q # n
    BY <1>0 DEF Leaves, World, PodInv, Named
  <2>2. nodes'[pods[q].node] = nodes[pods[q].node] /\ pods[q].node \in DOMAIN nodes'
    BY <2>1, <1>0 DEF Leaves
  <2>3. holder[pods[q].ip] \in Places(q) /\ pods[q].ip \in Addr
    BY DEF World, PodInv
  <2>4. holder[pods[q].ip][1] # n
    <3>1. \/ holder[pods[q].ip] = <<pods[q].node, nodes[pods[q].node], 0>>
          \/ holder[pods[q].ip] = <<pods[q].node, nodes[pods[q].node], 1>>
          \/ holder[pods[q].ip] = <<q, pods[q].uid, Own>>
      BY <2>3 DEF Places
    <3> QED
      BY SMT, <2>1, <3>1
  <2> QED
    BY <2>1, <2>2, <2>3, <2>4, <1>0 DEF Leaves, Places
<1>4. pods' = pods
  BY <1>0 DEF Leaves
<1> QED
  BY <1>1, <1>2, <1>3, <1>4 DEF World, PodInv

LEMMA WorldKept == ASSUME Named, World, [Next]_vars PROVE World'
<1>1. CASE UNCHANGED <<pods, before, nodes, holder>>
  BY <1>1 DEF World, PodInv, BeforeInv, NodeInv, Places
<1> QED
  BY <1>1, OtherSteps, WorldCreate, WorldDelete, WorldNode

\* What has existed, has existed.
LEMMA PastKept == ASSUME World, [Next]_vars, NEW k, NEW u, Past(k, u) PROVE Past(k, u)'
<1>1. CASE UNCHANGED <<pods, before, nodes, holder>>
  BY <1>1 DEF Past
<1>2. ASSUME NEW p \in Pod, NEW n \in Node, NEW a \in Addr, CreatePod(p, n, a) PROVE Past(k, u)'
  <2>1. Creates(p, n, a)
    BY <1>2, Created
  <2> QED
    BY <2>1 DEF Creates, Past
<1>3. ASSUME NEW p \in Pod, DeletePod(p) PROVE Past(k, u)'
  <2>0. Deletes(p) /\ u \in Nat
    BY <1>3, Deleted DEF Past
  <2>1. p \in DOMAIN before => before[p].uid < pods[p].uid /\ before[p].uid \in Nat
    BY <2>0 DEF Deletes, World, BeforeInv
  <2>2. pods[p].uid \in Nat
    BY <2>0 DEF Deletes, World, PodInv
  <2>3. CASE k = p /\ u <= pods[p].uid
    BY <2>0, <2>3 DEF Deletes, Past
  <2>4. CASE k = p /\ k \in DOMAIN before /\ u <= before[p].uid
    <3>1. u <= pods[p].uid
      BY SMT, <2>0, <2>1, <2>2, <2>4
    <3> QED
      BY <2>3, <2>4, <3>1
  <2>5. CASE k # p \/ (k \in Node /\ (k \in DOMAIN nodes => u <= nodes[k]))
    BY <2>0, <2>5 DEF Deletes, Past
  <2> QED
    BY <2>3, <2>4, <2>5 DEF Past
<1>4. ASSUME NEW n \in Node, ReplaceNode(n) \/ RemoveNode(n) PROVE Past(k, u)'
  <2>0. Leaves(n) /\ u \in Nat
    BY <1>4, NodeGone DEF Past
  <2>1. n \in DOMAIN nodes' => (u <= nodes[n] => u <= nodes'[n])
    <3>1. nodes[n] \in Nat /\ (n \in DOMAIN nodes' => nodes'[n] = nodes[n] + 1)
      BY <2>0 DEF Leaves, World, NodeInv
    <3> QED
      BY SMT, <2>0, <3>1
  <2>2. \A m \in DOMAIN nodes' : m \in DOMAIN nodes /\ (u <= nodes[m] => u <= nodes'[m])
    BY <2>0, <2>1 DEF Leaves
  <2>3. UNCHANGED <<pods, before>>
    BY <2>0 DEF Leaves
  <2> QED
    BY <2>2, <2>3 DEF Past
<1> QED
  BY <1>1, <1>2, <1>3, <1>4, OtherSteps

\* What lives and is or was there before has lived all the time, on the same
\* interface: what was found of it stays right.
LEMMA Carried ==
  ASSUME Named, World, [Next]_vars, NEW i, Past(i.key, i.uid), Live(i)'
  PROVE  Live(i) /\ Carrier(i)' = Carrier(i)
<1>1. CASE UNCHANGED <<pods, before, nodes, holder>>
  BY <1>1 DEF Live, Carrier, findInstancePrimaryENI
<1>2. ASSUME NEW p \in Pod, NEW n \in Node, NEW a \in Addr, CreatePod(p, n, a)
      PROVE  Live(i) /\ Carrier(i)' = Carrier(i)
  <2>1. Creates(p, n, a)
    BY <1>2, Created
  <2>2. CASE i.key \in Pod
    <3>1. i.key \in DOMAIN pods' /\ pods'[i.key] = i
      BY <2>2 DEF Live
    <3>2. i.key # p
      <4> SUFFICES ASSUME i.key = p PROVE FALSE
        OBVIOUS
      <4>1. i.uid \in Nat /\ p \in DOMAIN before /\ i.uid <= before[p].uid
        BY <2>1 DEF Creates, Past, Named
      <4>2. before[p].uid < i.uid /\ before[p].uid \in Nat
        BY <2>1, <3>1, <4>1 DEF Creates, World, BeforeInv
      <4> QED
        BY SMT, <4>1, <4>2
    <3>3. i.key \in DOMAIN pods /\ pods[i.key] = i
      BY <2>1, <3>1, <3>2 DEF Creates
    <3>4. i.ip \in Addr \ {a}
      BY <2>1, <3>3 DEF Creates, World, PodInv
    <3>5. holder'[i.ip] = holder[i.ip]
      BY <2>1, <3>4 DEF Creates
    <3> QED
      BY <2>2, <3>3, <3>5 DEF Live, Carrier
  <2>3. CASE i.key \notin Pod
    BY <2>1, <2>3 DEF Creates, Live, Carrier, findInstancePrimaryENI
  <2> QED
    BY <2>2, <2>3
<1>3. ASSUME NEW p \in Pod, DeletePod(p) PROVE Live(i) /\ Carrier(i)' = Carrier(i)
  <2>1. Deletes(p)
    BY <1>3, Deleted
  <2>2. CASE i.key \in Pod
    <3>1. i.key \in DOMAIN pods' /\ pods'[i.key] = i
      BY <2>2 DEF Live
    <3>2. i.key \in DOMAIN pods /\ i.key # p /\ pods[i.key] = i
      BY <2>1, <3>1 DEF Deletes
    <3>3. i.ip \in Addr /\ holder[i.ip] \in Places(i.key)
      BY <3>2 DEF World, PodInv
    <3>4. holder[i.ip] # <<p, pods[p].uid, Own>>
      BY SMT, <3>2, <3>3, Triples DEF Places, Own
    <3>5. holder'[i.ip] = holder[i.ip]
      BY <2>1, <3>3, <3>4 DEF Deletes
    <3> QED
      BY <2>2, <3>2, <3>5 DEF Live, Carrier
  <2>3. CASE i.key \notin Pod
    BY <2>1, <2>3 DEF Deletes, Live, Carrier, findInstancePrimaryENI
  <2> QED
    BY <2>2, <2>3
<1>4. ASSUME NEW n \in Node, ReplaceNode(n) \/ RemoveNode(n) PROVE Live(i) /\ Carrier(i)' = Carrier(i)
  <2>1. Leaves(n)
    BY <1>4, NodeGone
  <2>2. CASE i.key \in Pod
    <3>1. i.key \in DOMAIN pods /\ pods[i.key] = i
      BY <2>1, <2>2 DEF Live, Leaves
    <3>2. holder'[i.ip] = holder[i.ip]
      <4>1. \A q \in DOMAIN pods : holder'[pods[q].ip] = holder[pods[q].ip]
        BY <1>4, WorldNode
      <4>2. holder'[pods[i.key].ip] = holder[pods[i.key].ip]
        BY <3>1, <4>1
      <4>3. pods[i.key].ip = i.ip
        BY <3>1
      <4> QED
        BY <4>2, <4>3
    <3> QED
      BY <2>2, <3>1, <3>2 DEF Live, Carrier
  <2>3. CASE i.key \notin Pod
    <3>1. i.key \in DOMAIN nodes' /\ nodes'[i.key] = i.uid /\ i.key \in DOMAIN nodes
      BY <2>1, <2>3 DEF Live, Leaves
    <3>2. i.key # n
      <4> SUFFICES ASSUME i.key = n PROVE FALSE
        OBVIOUS
      <4>1. i.uid = nodes[n] + 1 /\ nodes[n] \in Nat
        BY <2>1, <3>1 DEF Leaves, World, NodeInv
      <4>2. i.uid <= nodes[n]
        BY <2>3, <3>1 DEF Past
      <4> QED
        BY SMT, <4>1, <4>2
    <3> QED
      BY <2>1, <2>3, <3>1, <3>2 DEF Leaves, Live, Carrier, findInstancePrimaryENI
  <2> QED
    BY <2>2, <2>3
<1> QED
  BY <1>1, <1>2, <1>3, <1>4, OtherSteps

\* What is asked for stays known.
LEMMA KnownKept == ASSUME Named, World, [Next]_vars, NEW i, Known(i) PROVE Known(i)'
<1>1. Past(i.key, i.uid)'
  BY PastKept DEF Known
<1>2. ASSUME i.key \in DOMAIN pods', pods'[i.key].uid = i.uid PROVE pods'[i.key] = i
  <2>1. CASE UNCHANGED <<pods, before, nodes, holder>>
    BY <1>2, <2>1 DEF Known
  <2>2. ASSUME NEW p \in Pod, NEW n \in Node, NEW a \in Addr, CreatePod(p, n, a) PROVE pods'[i.key] = i
    <3>1. Creates(p, n, a)
      BY <2>2, Created
    <3>2. i.key # p
      <4> SUFFICES ASSUME i.key = p PROVE FALSE
        OBVIOUS
      <4>1. i.uid \in Nat /\ p \in DOMAIN before /\ i.uid <= before[p].uid
        BY <3>1 DEF Creates, Known, Past, Named
      <4>2. before[p].uid < i.uid /\ before[p].uid \in Nat
        BY <1>2, <3>1, <4>1 DEF Creates, World, BeforeInv
      <4> QED
        BY SMT, <4>1, <4>2
    <3>3. i.key \in DOMAIN pods /\ pods'[i.key] = pods[i.key]
      BY <1>2, <3>1, <3>2 DEF Creates
    <3> QED
      BY <1>2, <3>3 DEF Known
  <2>3. ASSUME NEW p \in Pod, DeletePod(p) PROVE pods'[i.key] = i
    <3>1. Deletes(p)
      BY <2>3, Deleted
    <3>2. i.key \in DOMAIN pods /\ pods'[i.key] = pods[i.key]
      BY <1>2, <3>1 DEF Deletes
    <3> QED
      BY <1>2, <3>2 DEF Known
  <2>4. ASSUME NEW n \in Node, ReplaceNode(n) \/ RemoveNode(n) PROVE pods'[i.key] = i
    <3>1. Leaves(n)
      BY <2>4, NodeGone
    <3> QED
      BY <1>2, <3>1 DEF Leaves, Known
  <2> QED
    BY <2>1, <2>2, <2>3, <2>4, OtherSteps
<1> QED
  BY <1>1, <1>2 DEF Known

-----------------------------------------------------------------------------
(* What others do while a call is under way, and what is cached.               *)

\* A call that does not take the step.
LEMMA CallKept ==
  ASSUME Named, World, [Next]_vars, NEW w, call'[w] = call[w], CallInv(w)
  PROVE  CallInv(w)'
<1>1. Answers(w)'
  <2> SUFFICES ASSUME NEW i \in call[w].asked
               PROVE  /\ Known(i)'
                      /\ i.key \in DOMAIN call[w].cached => (Live(i)' => call[w].cached[i.key].id = Carrier(i)')
                      /\ i.key \in DOMAIN call[w].found => (Live(i)' => call[w].found[i.key].id = Carrier(i)')
    BY DEF Answers, Right
  <2>1. /\ Known(i) /\ Past(i.key, i.uid)
        /\ i.key \in DOMAIN call[w].cached => (Live(i) => call[w].cached[i.key].id = Carrier(i))
        /\ i.key \in DOMAIN call[w].found => (Live(i) => call[w].found[i.key].id = Carrier(i))
    BY DEF CallInv, Answers, Right, Known
  <2>2. Live(i)' => Live(i) /\ Carrier(i)' = Carrier(i)
    BY <2>1, Carried
  <2>3. Known(i)'
    BY <2>1, KnownKept
  <2> QED
    BY <2>1, <2>2, <2>3
<1>2. \A i \in call[w].asked : Live(i)' => Live(i)
  <2>1. \A i \in call[w].asked : Past(i.key, i.uid)
    BY DEF CallInv, Answers, Known
  <2> QED
    BY <2>1, Carried
<1>3. Stages(w)'
  BY <1>2 DEF CallInv, Stages, Covered
<1> QED
  BY <1>1, <1>3 DEF CallInv, Shaped, Keyed

\* Entries that stay are as right as they were.
LEMMA CacheKept ==
  ASSUME Named, World, [Next]_vars, CacheInv, DOMAIN cache' \subseteq DOMAIN cache,
         \A k \in DOMAIN cache' : cache'[k].info = cache[k].info
  PROVE  CacheInv'
<1>1. ASSUME NEW k \in DOMAIN cache' PROVE k = <<k[1], k[2]>> /\ Past(k[1], k[2])'
  BY PastKept DEF CacheInv
<1>2. ASSUME NEW i, <<i.key, i.uid>> \in DOMAIN cache', Live(i)'
      PROVE  cache'[<<i.key, i.uid>>].info.id = Carrier(i)'
  <2>1. <<i.key, i.uid>> \in DOMAIN cache /\ cache'[<<i.key, i.uid>>].info = cache[<<i.key, i.uid>>].info
    BY <1>2
  <2>2. Past(i.key, i.uid)
    <3>1. Past(<<i.key, i.uid>>[1], <<i.key, i.uid>>[2])
      BY <2>1 DEF CacheInv
    <3>2. <<i.key, i.uid>>[1] = i.key /\ <<i.key, i.uid>>[2] = i.uid
      BY SMT
    <3> QED
      BY <3>1, <3>2
  <2>3. Live(i) /\ Carrier(i)' = Carrier(i)
    BY <1>2, <2>2, Carried
  <2> QED
    BY <2>1, <2>3 DEF CacheInv, Right, computeENIInfoCacheKey
<1> QED
  BY <1>1, <1>2 DEF CacheInv, Right, computeENIInfoCacheKey

-----------------------------------------------------------------------------
(* The lookups.                                                                *)

LEMMA ByKey == ASSUME NEW S, Keyed(S), NEW i \in S PROVE (CHOOSE j \in S : j.key = i.key) = i
BY DEF Keyed

\* What is asked for, is known, and is all pods or all nodes.
LEMMA Asked ==
  ASSUME Named, World, NEW asked \in Asking
  PROVE  /\ Keyed(asked) /\ \A i \in asked : Known(i)
         /\ (\A i \in asked : i.key \in Pod) \/ (\A i \in asked : i.key \notin Pod)
<1>1. ASSUME NEW p \in DOMAIN pods PROVE Known(pods[p]) /\ pods[p].key \in Pod
  <2>1. pods[p].key = p /\ p \in Pod /\ pods[p].uid \in Nat
    BY DEF World, PodInv
  <2>2. pods[p].uid <= pods[p].uid
    BY SMT, <2>1
  <2> QED
    BY <2>1, <2>2 DEF Known, Past
<1>2. ASSUME NEW p \in DOMAIN before PROVE Known(before[p]) /\ before[p].key \in Pod
  <2>1. before[p].key = p /\ p \in Pod /\ before[p].uid \in Nat /\ (p \in DOMAIN pods => before[p].uid < pods[p].uid)
    BY DEF World, BeforeInv
  <2>2. p \in DOMAIN pods => pods[p].uid \in Nat
    BY DEF World, PodInv
  <2>3. before[p].uid <= before[p].uid /\ (p \in DOMAIN pods => pods[p].uid # before[p].uid)
    BY SMT, <2>1, <2>2
  <2> QED
    BY <2>1, <2>3 DEF Known, Past
<1>3. ASSUME NEW n \in DOMAIN nodes
      PROVE  Known(NodeInfo(n)) /\ NodeInfo(n).key = n /\ NodeInfo(n).key \notin Pod
  <2>1. NodeInfo(n).key = n /\ NodeInfo(n).uid = nodes[n]
    BY SMT DEF NodeInfo
  <2>2. n \in Node /\ n \notin Pod /\ nodes[n] \in Nat /\ n \notin DOMAIN pods
    BY DEF World, NodeInv, PodInv, Named
  <2>3. nodes[n] <= nodes[n]
    BY SMT, <2>2
  <2> QED
    BY <2>1, <2>2, <2>3 DEF Known, Past
<1>4. CASE asked \in {S \in SUBSET ({pods[p] : p \in DOMAIN pods} \cup {before[p] : p \in DOMAIN before}) :
                        \A i, j \in S : i.key = j.key => i = j}
  BY <1>1, <1>2, <1>4 DEF Keyed
<1>5. CASE asked \in SUBSET {NodeInfo(n) : n \in DOMAIN nodes \ Fargate}
  <2>1. \A i \in asked : \E n \in DOMAIN nodes : i = NodeInfo(n)
    BY <1>5
  <2>2. \A i \in asked : Known(i) /\ i.key \notin Pod
    BY <1>3, <2>1
  <2>3. Keyed(asked)
    BY <1>3, <2>1 DEF Keyed
  <2> QED
    BY <2>2, <2>3
<1> QED
  BY <1>4, <1>5 DEF Asking

\* What the cache gives for what is asked for.
LEMMA FromCache ==
  ASSUME NEW asked, Keyed(asked)
  PROVE  LET f == fetchENIInfosFromCache(asked)
         IN  \A i \in asked : /\ i.key \in DOMAIN f <=> computeENIInfoCacheKey(i) \in DOMAIN cache
                              /\ i.key \in DOMAIN f => f[i.key] = cache[computeENIInfoCacheKey(i)].info
<1> DEFINE hits == {i \in asked : computeENIInfoCacheKey(i) \in DOMAIN cache}
           f == [k \in {i.key : i \in hits} |->
                   cache[computeENIInfoCacheKey(CHOOSE i \in hits : i.key = k)].info]
<1>1. fetchENIInfosFromCache(asked) = f
  BY DEF fetchENIInfosFromCache
<1>2. Keyed(hits)
  BY DEF Keyed
<1>3. \A i \in asked : i.key \in {j.key : j \in hits} <=> i \in hits
  BY DEF Keyed
<1>4. \A i \in hits : (CHOOSE j \in hits : j.key = i.key) = i
  BY <1>2, ByKey
<1>5. \A i \in asked : i \in hits <=> computeENIInfoCacheKey(i) \in DOMAIN cache
  OBVIOUS
<1> HIDE DEF hits
<1>6. \A i \in asked : /\ i.key \in DOMAIN f <=> i \in hits
                       /\ i.key \in DOMAIN f => f[i.key] = cache[computeENIInfoCacheKey(i)].info
  BY <1>3, <1>4
<1> HIDE DEF f
<1> QED
  BY <1>1, <1>5, <1>6

\* An answer for a set of pods or nodes is right for each, and has the security
\* groups of the moment.
Gives(S, got) ==
  /\ got.failed => \E i \in S : ~Live(i)
  /\ ~got.failed => /\ DOMAIN got.infos \subseteq {i.key : i \in S}
                    /\ \A i \in S : i.key \in DOMAIN got.infos /\ Live(i) =>
                         got.infos[i.key].id = Carrier(i) /\ got.infos[i.key].groups = groups[Carrier(i)]

LEMMA FoundFields ==
  /\ \A f : Found(f).failed = FALSE /\ Found(f).infos = f
  /\ Failed.failed = TRUE /\ \A e : buildENIInfo(e).id = e /\ buildENIInfo(e).groups = groups[e]
BY SMT DEF Found, Failed, buildENIInfo

\* A live pod is on a node that exists, and on an interface.
LEMMA LivePod ==
  ASSUME World, NEW i, i.key \in Pod, Live(i)
  PROVE  /\ i.node \in DOMAIN nodes /\ holder[i.ip] # NoENI /\ Carrier(i) = holder[i.ip]
         /\ i.eni # NoENI => holder[i.ip] = i.eni /\ Exists(i.eni)
<1>1. i.key \in DOMAIN pods /\ pods[i.key] = i
  BY DEF Live
<1>2. /\ i.node \in DOMAIN nodes /\ holder[i.ip] \in Places(i.key)
      /\ i.eni # NoENI => i.eni = <<i.key, i.uid, Own>> /\ holder[i.ip] = i.eni
  BY <1>1 DEF World, PodInv
<1>3. holder[i.ip] # NoENI
  <2>1. \E x, y, z : holder[i.ip] = <<x, y, z>>
    BY <1>2 DEF Places
  <2> QED
    BY SMT, <2>1 DEF NoENI
<1>4. Exists(<<i.key, i.uid, Own>>)
  <2>1. /\ <<i.key, i.uid, Own>>[1] = i.key /\ <<i.key, i.uid, Own>>[2] = i.uid
        /\ <<i.key, i.uid, Own>>[3] = Own
    BY Triples
  <2> QED
    BY <1>1, <2>1 DEF Exists
<1> QED
  BY <1>2, <1>3, <1>4 DEF Carrier

LEMMA ViaAnnotation ==
  ASSUME World, NEW S, Keyed(S), \A i \in S : i.key \in Pod
  PROVE  Gives(S, resolveViaPodENIAnnotation(S))
<1> DEFINE A == {i \in S : i.eni # NoENI}
           f == [k \in {i.key : i \in A} |-> buildENIInfo((CHOOSE i \in A : i.key = k).eni)]
<1>1. Keyed(A) /\ A \subseteq S /\ \A i \in A : i.eni # NoENI
  BY DEF Keyed
<1>2. resolveViaPodENIAnnotation(S) = IF \E i \in A : ~Exists(i.eni) THEN Failed ELSE Found(f)
  BY DEF resolveViaPodENIAnnotation, Resolved
<1>3. \A i \in S : i.key \in {j.key : j \in A} => i \in A
  BY DEF Keyed
<1>4. \A i \in A : (CHOOSE j \in A : j.key = i.key) = i
  BY <1>1, ByKey
<1> HIDE DEF A
<1>5. \A i \in A : f[i.key] = buildENIInfo(i.eni)
  BY <1>4
<1>6. DOMAIN f = {i.key : i \in A}
  OBVIOUS
<1> HIDE DEF f
<1>7. CASE \E i \in A : ~Exists(i.eni)
  BY <1>1, <1>2, <1>7, LivePod, FoundFields DEF Gives
<1>8. CASE ~\E i \in A : ~Exists(i.eni)
  <2>1. resolveViaPodENIAnnotation(S).failed = FALSE /\ resolveViaPodENIAnnotation(S).infos = f
    BY <1>2, <1>8, FoundFields
  <2>2. ASSUME NEW i \in S, i.key \in DOMAIN f, Live(i) PROVE f[i.key].id = Carrier(i) /\ f[i.key].groups = groups[Carrier(i)]
    <3>1. i \in A /\ i.key \in Pod
      BY <1>3, <1>6, <2>2
    <3>2. Carrier(i) = i.eni
      BY <1>1, <2>2, <3>1, LivePod
    <3> QED
      BY <1>5, <3>1, <3>2, FoundFields
  <2>3. DOMAIN f \subseteq {i.key : i \in S}
    BY <1>1, <1>6
  <2> QED
    BY <2>1, <2>2, <2>3 DEF Gives
<1> QED
  BY <1>7, <1>8

\* What is found by the address of pods.
LEMMA ByAddress ==
  ASSUME World, NEW S, Keyed(S), \A i \in S : i.key \in Pod, NEW A \in SUBSET S
  PROVE  LET f == [k \in {i.key : i \in A} |-> buildENIInfo(holder[(CHOOSE i \in A : i.key = k).ip])]
         IN  Gives(S, Found(f)) /\ DOMAIN f = {i.key : i \in A}
<1> DEFINE f == [k \in {i.key : i \in A} |-> buildENIInfo(holder[(CHOOSE i \in A : i.key = k).ip])]
<1>1. Keyed(A)
  BY DEF Keyed
<1>2. \A i \in S : i.key \in {j.key : j \in A} => i \in A
  BY DEF Keyed
<1>3. \A i \in A : (CHOOSE j \in A : j.key = i.key) = i
  BY <1>1, ByKey
<1>4. \A i \in A : f[i.key] = buildENIInfo(holder[i.ip])
  BY <1>3
<1>5. DOMAIN f = {i.key : i \in A}
  OBVIOUS
<1> HIDE DEF f
<1>6. ASSUME NEW i \in S, i.key \in DOMAIN f, Live(i)
      PROVE  f[i.key].id = Carrier(i) /\ f[i.key].groups = groups[Carrier(i)]
  <2>1. i \in A /\ i.key \in Pod
    BY <1>2, <1>5, <1>6
  <2>2. Carrier(i) = holder[i.ip]
    BY <1>6, <2>1, LivePod
  <2> QED
    BY <1>4, <2>1, <2>2, FoundFields
<1>7. Found(f).failed = FALSE /\ Found(f).infos = f /\ DOMAIN f \subseteq {i.key : i \in S}
  BY <1>5, FoundFields
<1>8. Gives(S, Found(f))
  BY <1>6, <1>7 DEF Gives
<1> QED
  BY <1>5, <1>8 DEF f

LEMMA ViaNode ==
  ASSUME World, NEW S, Keyed(S), \A i \in S : i.key \in Pod
  PROVE  Gives(S, resolveViaNodeENIs(S))
<1> DEFINE A == {i \in S : i.node \notin Fargate /\ isPodSupportedByNodeENI(i)}
           f == [k \in {i.key : i \in A} |-> buildENIInfo(holder[(CHOOSE i \in A : i.key = k).ip])]
<1>1. A \in SUBSET S
  OBVIOUS
<1>2. resolveViaNodeENIs(S) = IF \E i \in S : i.node \notin DOMAIN nodes THEN Failed ELSE Found(f)
  BY DEF resolveViaNodeENIs, Resolved
<1> HIDE DEF A
<1>3. Gives(S, Found(f))
  BY <1>1, ByAddress
<1> HIDE DEF f
<1>4. CASE \E i \in S : i.node \notin DOMAIN nodes
  BY <1>2, <1>4, LivePod, FoundFields DEF Gives
<1> QED
  BY <1>2, <1>3, <1>4

LEMMA ViaVPC ==
  ASSUME World, NEW S, Keyed(S), \A i \in S : i.key \in Pod
  PROVE  LET got == resolveViaVPCENIs(S)
         IN  Gives(S, got) /\ \A i \in S : Live(i) => i.key \in DOMAIN got.infos
<1> DEFINE A == {i \in S : holder[i.ip] # NoENI}
           f == [k \in {i.key : i \in A} |-> buildENIInfo(holder[(CHOOSE i \in A : i.key = k).ip])]
<1>1. A \in SUBSET S /\ \A i \in S : Live(i) => i \in A
  BY LivePod
<1>2. resolveViaVPCENIs(S) = Found(f)
  BY DEF resolveViaVPCENIs, Resolved
<1> HIDE DEF A
<1>3. Gives(S, Found(f)) /\ DOMAIN f = {i.key : i \in A}
  BY <1>1, ByAddress
<1> HIDE DEF f
<1>4. \A i \in S : Live(i) => i.key \in DOMAIN Found(f).infos
  BY <1>1, <1>3, FoundFields
<1> QED
  BY <1>2, <1>3, <1>4

LEMMA ViaInstance ==
  ASSUME World, NEW S, Keyed(S), \A i \in S : i.key \notin Pod
  PROVE  LET got == resolveViaInstanceID(S)
         IN  Gives(S, got) /\ (~got.failed => \A i \in S : i.key \in DOMAIN got.infos)
<1> DEFINE f == [k \in {i.key : i \in S} |-> buildENIInfo(findInstancePrimaryENI(CHOOSE i \in S : i.key = k))]
<1>1. resolveViaInstanceID(S) = IF FetchNodeInstances(S) THEN Found(f) ELSE Failed
  BY DEF resolveViaInstanceID, Resolved
<1>2. \A i \in S : (CHOOSE j \in S : j.key = i.key) = i
  BY ByKey
<1>3. \A i \in S : f[i.key] = buildENIInfo(findInstancePrimaryENI(i))
  BY <1>2
<1>4. DOMAIN f = {i.key : i \in S}
  OBVIOUS
<1> HIDE DEF f
<1>5. \A i \in S : f[i.key].id = Carrier(i) /\ f[i.key].groups = groups[Carrier(i)]
  BY <1>3, FoundFields DEF Carrier
<1>6. CASE FetchNodeInstances(S)
  <2>1. resolveViaInstanceID(S).failed = FALSE /\ resolveViaInstanceID(S).infos = f
    BY <1>1, <1>6, FoundFields
  <2> QED
    BY <1>4, <1>5, <2>1 DEF Gives
<1>7. CASE ~FetchNodeInstances(S)
  BY <1>1, <1>7, FoundFields DEF Gives, FetchNodeInstances, Live
<1> QED
  BY <1>6, <1>7

-----------------------------------------------------------------------------
(* The steps of a call.                                                        *)

\* Pods and nodes as they were.
LEMMA WorldSame ==
  ASSUME UNCHANGED <<pods, before, nodes, holder>>
  PROVE  \A i : (Known(i)' <=> Known(i)) /\ (Live(i)' <=> Live(i)) /\ Carrier(i)' = Carrier(i)
BY DEF Known, Past, Live, Carrier, findInstancePrimaryENI

LEMMA ResolveStep ==
  ASSUME Named, World, CacheInv, CallsInv, NEW w \in Worker, NEW asked \in Asking, Resolve(w, asked)
  PROVE  CallInv(w)'
<1> DEFINE f == fetchENIInfosFromCache(asked)
           st == IF computeWithoutENIInfo(asked, f) = {} THEN "done"
                 ELSE IF \E i \in asked : i.key \in Pod THEN "annotation" ELSE "instance"
<1>1. /\ UNCHANGED <<pods, before, nodes, holder>>
      /\ call'[w] = [asked |-> asked, cached |-> f, found |-> None, failed |-> FALSE, stage |-> st]
  BY DEF Resolve, CallsInv
<1>2. /\ Keyed(asked) /\ \A i \in asked : Known(i)
      /\ (\A i \in asked : i.key \in Pod) \/ (\A i \in asked : i.key \notin Pod)
  BY Asked
<1>3. \A i \in asked : i.key \in DOMAIN f => f[i.key] = cache[computeENIInfoCacheKey(i)].info
                                             /\ computeENIInfoCacheKey(i) \in DOMAIN cache
  BY <1>2, FromCache
<1>4. /\ st \in {"done", "annotation", "instance"}
      /\ st = "done" => \A i \in asked : i.key \in DOMAIN f
      /\ st = "annotation" => \A i \in asked : i.key \in Pod
      /\ st = "instance" => \A i \in asked : i.key \notin Pod
  BY <1>2 DEF computeWithoutENIInfo
<1> HIDE DEF f, st
<1>5. /\ call'[w].asked = asked /\ call'[w].cached = f /\ call'[w].found = None /\ call'[w].failed = FALSE
      /\ call'[w].stage = st /\ Shaped(call'[w])
  BY SMT, <1>1 DEF Shaped
<1>6. Answers(w)'
  <2>1. \A i \in asked : i.key \in DOMAIN f => (Live(i) => f[i.key].id = Carrier(i))
    BY <1>3 DEF CacheInv, Right
  <2>2. DOMAIN None = {}
    BY DEF None
  <2> QED
    BY <1>1, <1>2, <1>5, <2>1, <2>2, WorldSame DEF Answers, Right
<1>7. Stages(w)'
  BY <1>4, <1>5 DEF Stages, Covered
<1> QED
  BY <1>2, <1>5, <1>6, <1>7 DEF CallInv

\* What a lookup adds is right, and has the security groups of the moment.
LEMMA Looked ==
  ASSUME World, CallsInv, NEW w \in Worker, resolveViaCascadedLookup(w)
  PROVE  LET c == call[w]
             d == call'[w]
         IN  /\ UNCHANGED <<pods, before, nodes, holder>>
             /\ d.asked = c.asked /\ d.cached = c.cached /\ Shaped(d)
             /\ c.stage \notin {"idle", "done"}
             /\ \/ d.stage = "done" /\ d.failed /\ d.found = c.found /\ \E i \in c.asked : ~Live(i)
                \/ /\ d.stage \in {"node", "vpc", "save"}
                   /\ d.stage \in {"node", "vpc"} => \A i \in c.asked : i.key \in Pod
                   /\ d.stage = "save" =>
                        \A i \in c.asked : Live(i) => i.key \in DOMAIN c.cached \cup DOMAIN d.found
                   /\ \A i \in c.asked : i.key \in DOMAIN d.found =>
                        \/ i.key \in DOMAIN c.found /\ d.found[i.key] = c.found[i.key]
                        \/ Live(i) => d.found[i.key].id = Carrier(i) /\ d.found[i.key].groups = groups[Carrier(i)]
<1> DEFINE c == call[w]
           todo == computeWithoutENIInfo(c.asked, Over(c.cached, c.found))
           got == Lookup(c.stage, todo)
           found == Over(got.infos, c.found)
           st == IF computeWithoutENIInfo(c.asked, Over(c.cached, found)) = {} THEN "save" ELSE After(c.stage)
<1>1. /\ UNCHANGED <<pods, before, nodes, holder>>
      /\ c.stage \in {"annotation", "node", "vpc", "instance"}
      /\ call'[w] = IF got.failed THEN [c EXCEPT !.stage = "done", !.failed = TRUE]
                    ELSE [c EXCEPT !.found = found, !.stage = st]
  BY DEF resolveViaCascadedLookup, CallsInv
<1>2. CallInv(w)
  BY DEF CallsInv
<1>3. /\ Keyed(c.asked) /\ Shaped(c) /\ todo \subseteq c.asked
      /\ \A i \in c.asked : i \in todo <=> i.key \notin DOMAIN c.cached \cup DOMAIN c.found
  BY <1>2 DEF CallInv, computeWithoutENIInfo, Over
<1>4. /\ Keyed(todo)
      /\ c.stage # "instance" => \A i \in todo : i.key \in Pod
      /\ c.stage = "instance" => \A i \in todo : i.key \notin Pod
  BY <1>1, <1>2, <1>3 DEF Keyed, CallInv, Stages
<1> HIDE DEF todo
<1>5. /\ Gives(todo, got)
      /\ ~got.failed /\ c.stage \in {"vpc", "instance"} => \A i \in todo : Live(i) => i.key \in DOMAIN got.infos
  <2>1. CASE c.stage = "annotation"
    BY <1>4, <2>1, ViaAnnotation DEF Lookup
  <2>2. CASE c.stage = "node"
    BY <1>4, <2>2, ViaNode DEF Lookup
  <2>3. CASE c.stage = "vpc"
    BY <1>4, <2>3, ViaVPC DEF Lookup
  <2>4. CASE c.stage = "instance"
    BY <1>4, <2>4, ViaInstance DEF Lookup
  <2> QED
    BY <1>1, <2>1, <2>2, <2>3, <2>4
<1> HIDE DEF got
<1>6. CASE got.failed
  <2>1. /\ call'[w].asked = c.asked /\ call'[w].cached = c.cached /\ call'[w].found = c.found
        /\ call'[w].failed = TRUE /\ call'[w].stage = "done" /\ Shaped(call'[w])
    <3>1. call'[w] = [c EXCEPT !.stage = "done", !.failed = TRUE]
      BY <1>1, <1>6
    <3>2. Shaped(c)
      BY <1>3
    <3> HIDE DEF c
    <3> QED
      BY SMT, <3>1, <3>2 DEF Shaped
  <2>2. \E i \in c.asked : ~Live(i)
    BY <1>3, <1>5, <1>6 DEF Gives
  <2> QED
    BY <1>1, <2>1, <2>2
<1>7. CASE ~got.failed
  <2>1. /\ call'[w].asked = c.asked /\ call'[w].cached = c.cached /\ call'[w].found = found
        /\ call'[w].failed = c.failed /\ call'[w].stage = st /\ Shaped(call'[w])
    <3> HIDE DEF found, st
    <3>1. call'[w] = [c EXCEPT !.found = found, !.stage = st]
      BY <1>1, <1>7
    <3>2. Shaped(c)
      BY <1>3
    <3> HIDE DEF c
    <3> QED
      BY SMT, <3>1, <3>2 DEF Shaped
  <2>2. /\ DOMAIN found = DOMAIN got.infos \cup DOMAIN c.found
        /\ \A k \in DOMAIN got.infos : found[k] = got.infos[k]
        /\ \A k \in DOMAIN c.found \ DOMAIN got.infos : found[k] = c.found[k]
    BY DEF Over
  <2>3. \A i \in c.asked : i.key \in DOMAIN got.infos => i \in todo
    BY <1>3, <1>5, <1>7 DEF Gives, Keyed
  <2>4. /\ st \in {"node", "vpc", "save"}
        /\ st \in {"node", "vpc"} => c.stage \in {"annotation", "node"}
        /\ st = "save" => \/ c.stage \in {"vpc", "instance"}
                          \/ \A i \in c.asked : i.key \in DOMAIN c.cached \cup DOMAIN found
    BY <1>1 DEF computeWithoutENIInfo, After, Over
  <2> HIDE DEF found, st
  <2>5. ASSUME NEW i \in c.asked, i.key \in DOMAIN found
        PROVE  \/ i.key \in DOMAIN c.found /\ found[i.key] = c.found[i.key]
               \/ Live(i) => found[i.key].id = Carrier(i) /\ found[i.key].groups = groups[Carrier(i)]
    <3>1. CASE i.key \in DOMAIN got.infos
      BY <1>5, <1>7, <2>2, <2>3, <3>1 DEF Gives
    <3>2. CASE i.key \notin DOMAIN got.infos
      BY <2>2, <2>5, <3>2
    <3> QED
      BY <3>1, <3>2
  <2>6. st = "save" => \A i \in c.asked : Live(i) => i.key \in DOMAIN c.cached \cup DOMAIN found
    BY <1>3, <1>5, <1>7, <2>2, <2>4
  <2>7. st \in {"node", "vpc"} => \A i \in c.asked : i.key \in Pod
    BY <1>2, <2>4 DEF CallInv, Stages
  <2> HIDE DEF c
  <2> QED
    BY <1>1, <2>1, <2>4, <2>5, <2>6, <2>7 DEF c
<1> QED
  BY <1>6, <1>7

LEMMA LookupStep ==
  ASSUME World, CallsInv, NEW w \in Worker, resolveViaCascadedLookup(w)
  PROVE  CallInv(w)'
<1> DEFINE c == call[w]
           d == call'[w]
<1>1. CallInv(w)
  BY DEF CallsInv
<1>2. UNCHANGED <<pods, before, nodes, holder>> /\ d.asked = c.asked /\ d.cached = c.cached /\ Shaped(d)
  BY Looked
<1>3. \A i \in c.asked : i.key \in DOMAIN d.found => (Live(i) => d.found[i.key].id = Carrier(i))
  <2>1. \A i \in c.asked : i.key \in DOMAIN c.found => (Live(i) => c.found[i.key].id = Carrier(i))
    BY <1>1 DEF CallInv, Answers, Right
  <2> QED
    BY <2>1, Looked
<1>4. Answers(w)'
  <2>1. ASSUME NEW i \in c.asked
        PROVE  /\ Known(i)'
               /\ i.key \in DOMAIN c.cached => (Live(i)' => c.cached[i.key].id = Carrier(i)')
               /\ i.key \in DOMAIN d.found => (Live(i)' => d.found[i.key].id = Carrier(i)')
    BY <1>1, <1>2, <1>3, WorldSame DEF CallInv, Answers, Right
  <2> QED
    BY <1>2, <2>1 DEF Answers, Right
<1>5. Stages(w)'
  <2>1. CASE d.stage = "done" /\ d.failed /\ \E i \in c.asked : ~Live(i)
    BY <1>2, <2>1, WorldSame DEF Stages
  <2>2. CASE /\ d.stage \in {"node", "vpc", "save"}
             /\ d.stage \in {"node", "vpc"} => \A i \in c.asked : i.key \in Pod
             /\ d.stage = "save" => \A i \in c.asked : Live(i) => i.key \in DOMAIN c.cached \cup DOMAIN d.found
    BY <1>2, <2>2, WorldSame DEF Stages, Covered
  <2> QED
    BY <2>1, <2>2, Looked
<1> QED
  BY <1>1, <1>2, <1>4, <1>5 DEF CallInv

\* What a call saves, of what it was asked for.
LEMMA Saves ==
  ASSUME NEW w \in Worker, CallsInv, saveENIInfosToCache(w)
  PROVE  LET c == call[w]
             Mine(k) == \E i \in c.asked : i.key \in DOMAIN c.found /\ k = computeENIInfoCacheKey(i)
         IN  /\ UNCHANGED <<pods, before, nodes, holder, groups, quiet>> /\ c.stage = "save"
             /\ call'[w] = [c EXCEPT !.stage = "done",
                                     !.failed = computeWithoutENIInfo(c.asked, Over(c.cached, c.found)) # {}]
             /\ \A k : k \in DOMAIN cache' <=> Mine(k) \/ k \in DOMAIN cache
             /\ \A k \in DOMAIN cache' : ~Mine(k) => cache'[k] = cache[k]
             /\ \A i \in c.asked : i.key \in DOMAIN c.found =>
                  /\ cache'[computeENIInfoCacheKey(i)].info = c.found[i.key]
                  /\ cache'[computeENIInfoCacheKey(i)].left = TTL
<1> DEFINE c == call[w]
           saved == {i \in c.asked : i.key \in DOMAIN c.found}
           keys == {computeENIInfoCacheKey(i) : i \in saved}
           g == [k \in keys |-> [info |-> c.found[(CHOOSE i \in saved : computeENIInfoCacheKey(i) = k).key],
                                 left |-> TTL]]
<1>1. /\ UNCHANGED <<pods, before, nodes, holder, groups, quiet>> /\ c.stage = "save"
      /\ cache' = Over(g, cache)
      /\ call'[w] = [c EXCEPT !.stage = "done",
                              !.failed = computeWithoutENIInfo(c.asked, Over(c.cached, c.found)) # {}]
  BY DEF saveENIInfosToCache, CallsInv
<1>2. ASSUME NEW i \in saved
      PROVE  /\ g[computeENIInfoCacheKey(i)].info = c.found[i.key]
             /\ g[computeENIInfoCacheKey(i)].left = TTL
  <2> DEFINE j == CHOOSE j \in saved : computeENIInfoCacheKey(j) = computeENIInfoCacheKey(i)
  <2>1. j \in saved /\ computeENIInfoCacheKey(j) = computeENIInfoCacheKey(i)
    OBVIOUS
  <2>2. g[computeENIInfoCacheKey(i)] = [info |-> c.found[j.key], left |-> TTL]
    OBVIOUS
  <2> HIDE DEF j, g
  <2>3. j.key = i.key
    BY SMT, <2>1 DEF computeENIInfoCacheKey
  <2> QED
    BY SMT, <2>2, <2>3
<1>3. DOMAIN g = keys
  OBVIOUS
<1> HIDE DEF g
<1>4. /\ DOMAIN cache' = keys \cup DOMAIN cache /\ \A k \in keys : cache'[k] = g[k]
      /\ \A k \in DOMAIN cache \ keys : cache'[k] = cache[k]
  BY <1>1, <1>3 DEF Over
<1>5. \A k : k \in keys <=> \E i \in c.asked : i.key \in DOMAIN c.found /\ k = computeENIInfoCacheKey(i)
  OBVIOUS
<1>6. \A i \in c.asked : i.key \in DOMAIN c.found => i \in saved /\ computeENIInfoCacheKey(i) \in keys
  OBVIOUS
<1> HIDE DEF keys, saved
<1> QED
  BY <1>1, <1>2, <1>4, <1>5, <1>6

\* A live pod or node is what was asked for with its name and uid.
LEMMA SameOne ==
  ASSUME NEW i, NEW j, Known(j), i.key = j.key, i.uid = j.uid, Live(i)
  PROVE  Live(j) /\ Carrier(j) = Carrier(i)
<1>1. CASE i.key \in Pod
  <2>1. i.key \in DOMAIN pods /\ pods[i.key] = i
    BY <1>1 DEF Live
  <2>2. pods[i.key] = j
    BY <2>1 DEF Known
  <2> QED
    BY <2>1, <2>2
<1>2. CASE i.key \notin Pod
  BY <1>2 DEF Live, Carrier, findInstancePrimaryENI
<1> QED
  BY <1>1, <1>2

LEMMA SaveStep ==
  ASSUME Named, World, CacheInv, CallsInv, NEW w \in Worker, saveENIInfosToCache(w)
  PROVE  CallInv(w)' /\ CacheInv'
<1> DEFINE c == call[w]
           Mine(k) == \E i \in c.asked : i.key \in DOMAIN c.found /\ k = computeENIInfoCacheKey(i)
           rest == computeWithoutENIInfo(c.asked, Over(c.cached, c.found))
<1>1. /\ UNCHANGED <<pods, before, nodes, holder>> /\ c.stage = "save"
      /\ call'[w] = [c EXCEPT !.stage = "done", !.failed = rest # {}]
      /\ \A k : k \in DOMAIN cache' <=> Mine(k) \/ k \in DOMAIN cache
      /\ \A k \in DOMAIN cache' : ~Mine(k) => cache'[k] = cache[k]
      /\ \A i \in c.asked : i.key \in DOMAIN c.found => cache'[computeENIInfoCacheKey(i)].info = c.found[i.key]
  BY Saves
<1>2. CallInv(w)
  BY DEF CallsInv
<1>3. \A i \in c.asked : i \in rest <=> ~Covered(c, i)
  BY DEF computeWithoutENIInfo, Over, Covered
<1>4. rest \subseteq c.asked
  BY DEF computeWithoutENIInfo
<1> HIDE DEF rest
<1>5. /\ call'[w].asked = c.asked /\ call'[w].cached = c.cached /\ call'[w].found = c.found
      /\ call'[w].stage = "done" /\ call'[w].failed = (rest # {}) /\ Shaped(call'[w])
  <2>0. call'[w] = [c EXCEPT !.stage = "done", !.failed = rest # {}]
    BY <1>1
  <2>1. Shaped(c)
    BY <1>2 DEF CallInv
  <2> HIDE DEF c
  <2> QED
    BY SMT, <2>0, <2>1 DEF Shaped
<1>6. Answers(w)'
  <2>1. ASSUME NEW i \in c.asked
        PROVE  /\ Known(i)'
               /\ i.key \in DOMAIN c.cached => (Live(i)' => c.cached[i.key].id = Carrier(i)')
               /\ i.key \in DOMAIN c.found => (Live(i)' => c.found[i.key].id = Carrier(i)')
    BY <1>1, <1>2, WorldSame DEF CallInv, Answers, Right
  <2> QED
    BY <1>5, <2>1 DEF Answers, Right
<1>7. Stages(w)'
  <2>1. \A i \in c.asked : Live(i) => Covered(c, i)
    BY <1>1, <1>2 DEF CallInv, Stages
  <2>2. CASE rest = {}
    BY <1>3, <1>5, <2>2 DEF Stages, Covered
  <2>3. CASE rest # {}
    <3>1. \E i \in c.asked : ~Live(i)'
      BY <1>1, <1>3, <1>4, <2>1, <2>3, WorldSame
    <3> QED
      BY <1>5, <2>3, <3>1 DEF Stages
  <2> QED
    BY <2>2, <2>3
<1>8. CallInv(w)'
  BY <1>2, <1>5, <1>6, <1>7 DEF CallInv
<1>9. ASSUME NEW k \in DOMAIN cache' PROVE k = <<k[1], k[2]>> /\ Past(k[1], k[2])'
  <2>1. CASE Mine(k)
    <3>1. PICK i \in c.asked : k = <<i.key, i.uid>>
      BY <2>1 DEF computeENIInfoCacheKey
    <3>2. k = <<k[1], k[2]>> /\ k[1] = i.key /\ k[2] = i.uid
      BY SMT, <3>1
    <3>3. Past(i.key, i.uid)
      BY <1>2 DEF CallInv, Answers, Known
    <3> QED
      BY <1>1, <3>2, <3>3 DEF Past
  <2>2. CASE k \in DOMAIN cache
    BY <1>1, <2>2 DEF CacheInv, Past
  <2> QED
    BY <1>1, <2>1, <2>2
<1>10. ASSUME NEW i, computeENIInfoCacheKey(i) \in DOMAIN cache', Live(i)
       PROVE  cache'[computeENIInfoCacheKey(i)].info.id = Carrier(i)
  <2>1. CASE Mine(computeENIInfoCacheKey(i))
    <3>1. PICK j \in c.asked : j.key \in DOMAIN c.found /\ <<i.key, i.uid>> = <<j.key, j.uid>>
      BY <2>1 DEF computeENIInfoCacheKey
    <3>2. i.key = j.key /\ i.uid = j.uid
      BY SMT, <3>1
    <3>3. Live(j) /\ Carrier(j) = Carrier(i)
      <4>1. Known(j)
        BY <1>2 DEF CallInv, Answers
      <4> QED
        BY <1>10, <3>2, <4>1, SameOne
    <3>4. c.found[j.key].id = Carrier(j)
      BY <1>2, <3>1, <3>3 DEF CallInv, Answers, Right
    <3>5. computeENIInfoCacheKey(i) = computeENIInfoCacheKey(j)
      BY <3>1 DEF computeENIInfoCacheKey
    <3> QED
      BY <1>1, <3>1, <3>3, <3>4, <3>5
  <2>2. CASE ~Mine(computeENIInfoCacheKey(i))
    BY <1>1, <1>10, <2>2 DEF CacheInv, Right
  <2> QED
    BY <2>1, <2>2
<1>11. CacheInv'
  BY <1>1, <1>9, <1>10, WorldSame DEF CacheInv, Right, computeENIInfoCacheKey
<1> QED
  BY <1>8, <1>11

-----------------------------------------------------------------------------
(* Right answers.                                                              *)

\* Whose step it is.
Calls(w) == (\E asked \in Asking : Resolve(w, asked)) \/ resolveViaCascadedLookup(w) \/ saveENIInfosToCache(w)

LEMMA Others ==
  ASSUME [Next]_vars, ~\E w \in Worker : Calls(w)
  PROVE  call' = call /\ DOMAIN cache' \subseteq DOMAIN cache /\ \A k \in DOMAIN cache' : cache'[k].info = cache[k].info
<1>1. CASE Tick
  <2> DEFINE stay == {j \in DOMAIN cache : cache[j].left > 1}
  <2>1. call' = call /\ cache' = [k \in stay |-> [info |-> cache[k].info, left |-> cache[k].left - 1]]
    BY <1>1 DEF Tick
  <2>2. stay \subseteq DOMAIN cache
    OBVIOUS
  <2> HIDE DEF stay
  <2>3. DOMAIN cache' = stay /\ \A k \in stay : cache'[k] = [info |-> cache[k].info, left |-> cache[k].left - 1]
    BY <2>1
  <2>4. \A k \in stay : cache'[k].info = cache[k].info
    BY SMT, <2>3
  <2> QED
    BY <2>1, <2>2, <2>3, <2>4
<1>2. CASE UNCHANGED vars
  BY <1>2 DEF vars
<1>3. CASE \/ \E p \in Pod : DeletePod(p) \/ \E n \in Node, a \in Addr : CreatePod(p, n, a)
           \/ \E n \in Node : ReplaceNode(n) \/ RemoveNode(n)
           \/ \E e \in ENI : ChangeGroups(e)
  <2>1. UNCHANGED <<call, cache>>
    BY <1>3 DEF DeletePod, CreatePod, ReplaceNode, RemoveNode, ChangeGroups, Changing
  <2> QED
    BY <2>1
<1> QED
  BY <1>1, <1>2, <1>3 DEF Next, Calls

LEMMA OneCalls ==
  ASSUME CallsInv, NEW w \in Worker, Calls(w)
  PROVE  /\ DOMAIN call' = Worker /\ \A v \in Worker \ {w} : call'[v] = call[v]
         /\ UNCHANGED <<pods, before, nodes, holder, groups, quiet>>
         /\ saveENIInfosToCache(w) \/ cache' = cache
<1>1. CASE \E asked \in Asking : Resolve(w, asked)
  BY <1>1 DEF Resolve, CallsInv
<1>2. CASE resolveViaCascadedLookup(w)
  BY <1>2 DEF resolveViaCascadedLookup, CallsInv
<1>3. CASE saveENIInfosToCache(w)
  BY <1>3 DEF saveENIInfosToCache, CallsInv
<1> QED
  BY <1>1, <1>2, <1>3 DEF Calls

LEMMA Initially == Init => IInv
<1> SUFFICES ASSUME Init PROVE IInv
  OBVIOUS
<1>1. DOMAIN None = {}
  BY DEF None
<1>2. World
  <2>1. nodes = [n \in Node |-> 1] /\ holder = [a \in Addr |-> NoENI] /\ pods = None /\ before = None
    BY DEF Init
  <2>2. 1 \in Nat
    BY SMT
  <2> QED
    BY <1>1, <2>1, <2>2 DEF World, PodInv, BeforeInv, NodeInv
<1>3. CacheInv
  BY <1>1 DEF Init, CacheInv
<1>4. CallsInv
  <2>1. call = [w \in Worker |-> Idle]
    BY DEF Init
  <2>2. Idle.asked = {} /\ Idle.stage = "idle" /\ Shaped(Idle)
    BY SMT DEF Idle, Shaped
  <2>3. \A w \in Worker : call[w] = Idle
    BY <2>1
  <2> QED
    BY <2>1, <2>2, <2>3 DEF CallsInv, CallInv, Keyed, Answers, Stages
<1> QED
  BY <1>2, <1>3, <1>4 DEF IInv

LEMMA Inductive == ASSUME Named, IInv, [Next]_vars PROVE IInv'
<1>0. World /\ CacheInv /\ CallsInv /\ World'
  BY WorldKept DEF IInv
<1>1. CASE ~\E w \in Worker : Calls(w)
  <2>1. CacheInv' /\ call' = call
    BY <1>0, <1>1, Others, CacheKept
  <2>2. \A w \in Worker : CallInv(w)'
    BY <1>0, <2>1, CallKept DEF CallsInv
  <2> QED
    BY <1>0, <2>1, <2>2 DEF IInv, CallsInv
<1>2. ASSUME NEW w \in Worker, Calls(w) PROVE IInv'
  <2>1. /\ DOMAIN call' = Worker /\ \A v \in Worker \ {w} : call'[v] = call[v]
        /\ saveENIInfosToCache(w) \/ cache' = cache
    BY <1>0, <1>2, OneCalls
  <2>2. CacheInv'
    <3>1. cache' = cache => CacheInv'
      BY <1>0, CacheKept
    <3> QED
      BY <1>0, <2>1, <3>1, SaveStep
  <2>3. CallInv(w)'
    BY <1>0, <1>2, ResolveStep, LookupStep, SaveStep DEF Calls
  <2>4. \A v \in Worker \ {w} : CallInv(v)'
    BY <1>0, <2>1, CallKept DEF CallsInv
  <2> QED
    BY <1>0, <2>1, <2>2, <2>3, <2>4 DEF IInv, CallsInv
<1> QED
  BY <1>1, <1>2

\* An answer names, for every pod that lives, the interface its address is on, and
\* for every node that lives its primary one, whatever was cached for those that
\* had the name or the address before, and however calls and changes overlap.
THEOREM AnswersRight == ASSUME Named PROVE Spec => []RightInterface
<1>1. ASSUME IInv PROVE RightInterface
  <2> SUFFICES ASSUME NEW w \in Worker, call[w].stage = "done", ~call[w].failed,
                      NEW i \in call[w].asked, Live(i)
               PROVE  Over(call[w].cached, call[w].found)[i.key].id = Carrier(i)
    BY DEF RightInterface
  <2>1. CallInv(w)
    BY <1>1 DEF IInv, CallsInv
  <2>2. i.key \in DOMAIN call[w].cached \cup DOMAIN call[w].found
    BY <2>1 DEF CallInv, Stages, Covered
  <2>3. /\ i.key \in DOMAIN call[w].cached => call[w].cached[i.key].id = Carrier(i)
        /\ i.key \in DOMAIN call[w].found => call[w].found[i.key].id = Carrier(i)
    BY <2>1 DEF CallInv, Answers, Right
  <2>5. CASE i.key \in DOMAIN call[w].cached
    BY <2>3, <2>5 DEF Over
  <2>6. CASE i.key \notin DOMAIN call[w].cached
    BY <2>2, <2>3, <2>6 DEF Over
  <2> QED
    BY <2>5, <2>6
<1>2. IInv /\ [Next]_vars => IInv'
  BY Inductive
<1> QED
  BY Initially, <1>1, <1>2, PTL DEF Spec

\* An answer fails only if some pod or node that was asked for is gone: those that
\* live are found by one of the lookups, on whatever interface they are.
THEOREM LiveFound == ASSUME Named PROVE Spec => []ResolvesLive
<1>1. IInv => ResolvesLive
  BY DEF IInv, CallsInv, CallInv, Stages, ResolvesLive
<1>2. IInv /\ [Next]_vars => IInv'
  BY Inductive
<1> QED
  BY Initially, <1>1, <1>2, PTL DEF Spec

-----------------------------------------------------------------------------
(* Security groups.                                                            *)

Lasting == TTL \in Nat \ {0}

\* An entry whose security groups have changed goes before quiet reaches the TTL.
TimelyCache ==
  /\ quiet \in 0 .. TTL
  /\ \A k \in DOMAIN cache : cache[k].left \in 1 .. TTL
  /\ \A i : computeENIInfoCacheKey(i) \in DOMAIN cache /\ Live(i) =>
       \/ cache[computeENIInfoCacheKey(i)].info.groups = groups[Carrier(i)]
       \/ cache[computeENIInfoCacheKey(i)].left + quiet <= TTL

\* While a call is under way no time passes.
TimelyCall(w) ==
  call[w].stage \notin {"idle", "done"} =>
    \A i \in call[w].asked : Live(i) =>
      /\ i.key \in DOMAIN call[w].cached =>
           call[w].cached[i.key].groups = groups[Carrier(i)] \/ quiet < TTL
      /\ i.key \in DOMAIN call[w].found =>
           call[w].found[i.key].groups = groups[Carrier(i)] \/ quiet = 0

Timely == TimelyCache /\ \A w \in Worker : TimelyCall(w)

\* A change sets quiet back.
LEMMA TimelyChange ==
  ASSUME Lasting, Timely, quiet' = 0, UNCHANGED <<cache, call>>
  PROVE  Timely'
<1>1. 0 \in 0 .. TTL /\ 0 < TTL
  BY SMT DEF Lasting
<1>2. \A k \in DOMAIN cache : cache[k].left + 0 <= TTL
  <2>1. \A k \in DOMAIN cache : cache[k].left \in 1 .. TTL
    BY DEF Timely, TimelyCache
  <2> QED
    BY SMT, <2>1 DEF Lasting
<1>3. TimelyCache'
  BY <1>1, <1>2 DEF Timely, TimelyCache, computeENIInfoCacheKey
<1>4. \A w \in Worker : TimelyCall(w)'
  BY <1>1 DEF TimelyCall
<1> QED
  BY <1>3, <1>4 DEF Timely

LEMMA TimelyTick == ASSUME Lasting, Timely, Tick PROVE Timely'
<1> DEFINE stay == {j \in DOMAIN cache : cache[j].left > 1}
<1>1. /\ UNCHANGED <<pods, before, nodes, holder, groups, call>>
      /\ \A w \in Worker : call[w].stage \in {"idle", "done"}
      /\ cache' = [k \in stay |-> [info |-> cache[k].info, left |-> cache[k].left - 1]]
      /\ quiet' = IF quiet < TTL THEN quiet + 1 ELSE quiet
  BY DEF Tick
<1>2. /\ stay \subseteq DOMAIN cache /\ \A k \in stay : cache[k].left > 1
      /\ quiet \in 0 .. TTL /\ \A k \in stay : cache[k].left \in 1 .. TTL
  BY DEF Timely, TimelyCache
<1> HIDE DEF stay
<1>3. DOMAIN cache' = stay /\ \A k \in stay : cache'[k] = [info |-> cache[k].info, left |-> cache[k].left - 1]
  BY <1>1
<1>4. \A k \in stay : cache'[k].info = cache[k].info /\ cache'[k].left = cache[k].left - 1
  BY SMT, <1>3
<1>5. /\ quiet' \in 0 .. TTL /\ \A k \in stay : cache'[k].left \in 1 .. TTL
      /\ \A k \in stay : cache[k].left + quiet <= TTL => cache'[k].left + quiet' <= TTL
  BY SMT, <1>1, <1>2, <1>4 DEF Lasting
<1>6. ASSUME NEW i, computeENIInfoCacheKey(i) \in stay, Live(i)
      PROVE  \/ cache'[computeENIInfoCacheKey(i)].info.groups = groups[Carrier(i)]
             \/ cache'[computeENIInfoCacheKey(i)].left + quiet' <= TTL
  BY <1>2, <1>4, <1>5, <1>6 DEF Timely, TimelyCache
<1>7. TimelyCache'
  BY <1>1, <1>3, <1>5, <1>6, WorldSame DEF TimelyCache, computeENIInfoCacheKey
<1>8. \A w \in Worker : TimelyCall(w)'
  BY <1>1 DEF TimelyCall
<1> QED
  BY <1>7, <1>8 DEF Timely

\* Entries used when nothing changed for the TTL have the groups of the moment.
LEMMA FreshCache ==
  ASSUME Lasting, TimelyCache, NEW i, computeENIInfoCacheKey(i) \in DOMAIN cache, Live(i)
  PROVE  cache[computeENIInfoCacheKey(i)].info.groups = groups[Carrier(i)] \/ quiet < TTL
<1>1. /\ quiet \in 0 .. TTL /\ cache[computeENIInfoCacheKey(i)].left \in 1 .. TTL
      /\ \/ cache[computeENIInfoCacheKey(i)].info.groups = groups[Carrier(i)]
         \/ cache[computeENIInfoCacheKey(i)].left + quiet <= TTL
  BY DEF TimelyCache
<1>2. cache[computeENIInfoCacheKey(i)].left + quiet <= TTL => quiet < TTL
  BY SMT, <1>1 DEF Lasting
<1> QED
  BY <1>1, <1>2

\* What a call that begins takes from the cache.
LEMMA Begun ==
  ASSUME Named, Lasting, World, CallsInv, TimelyCache, NEW w \in Worker, NEW asked \in Asking, Resolve(w, asked)
  PROVE  /\ call'[w].asked = asked /\ DOMAIN call'[w].found = {}
         /\ \A i \in asked : Live(i) /\ i.key \in DOMAIN call'[w].cached =>
              call'[w].cached[i.key].groups = groups[Carrier(i)] \/ quiet < TTL
<1> DEFINE f == fetchENIInfosFromCache(asked)
           st == IF computeWithoutENIInfo(asked, f) = {} THEN "done"
                 ELSE IF \E i \in asked : i.key \in Pod THEN "annotation" ELSE "instance"
<1>1. call'[w] = [asked |-> asked, cached |-> f, found |-> None, failed |-> FALSE, stage |-> st]
  BY DEF Resolve, CallsInv
<1>2. \A i \in asked : i.key \in DOMAIN f => f[i.key] = cache[computeENIInfoCacheKey(i)].info
                                             /\ computeENIInfoCacheKey(i) \in DOMAIN cache
  BY Asked, FromCache
<1> HIDE DEF f, st
<1>3. call'[w].asked = asked /\ call'[w].cached = f /\ call'[w].found = None
  BY SMT, <1>1
<1>4. DOMAIN None = {}
  BY DEF None
<1>5. \A i \in asked : Live(i) /\ i.key \in DOMAIN f => f[i.key].groups = groups[Carrier(i)] \/ quiet < TTL
  BY <1>2, FreshCache
<1> QED
  BY <1>3, <1>4, <1>5

\* The steps of a call take no time; the other calls do not notice them.
LEMMA TimelyStep ==
  ASSUME Named, Lasting, IInv, Timely, NEW w \in Worker, Calls(w)
  PROVE  Timely'
<1>0. World /\ CacheInv /\ CallsInv /\ TimelyCache
  BY DEF IInv, Timely
<1>1. /\ UNCHANGED <<pods, before, nodes, holder, groups, quiet>>
      /\ \A v \in Worker \ {w} : call'[v] = call[v]
  BY <1>0, OneCalls
<1>2. \A i : (Live(i)' <=> Live(i)) /\ Carrier(i)' = Carrier(i)
  BY <1>1, WorldSame
<1>3. \A v \in Worker \ {w} : TimelyCall(v)'
  BY <1>1, <1>2 DEF Timely, TimelyCall
<1>4. cache' = cache => TimelyCache'
  BY <1>0, <1>1, <1>2 DEF TimelyCache, computeENIInfoCacheKey
<1>5. CASE \E asked \in Asking : Resolve(w, asked)
  <2>1. PICK asked \in Asking : Resolve(w, asked)
    BY <1>5
  <2>2. cache' = cache
    BY <2>1 DEF Resolve
  <2>3. /\ call'[w].asked = asked /\ DOMAIN call'[w].found = {}
        /\ \A i \in asked : Live(i) /\ i.key \in DOMAIN call'[w].cached =>
             call'[w].cached[i.key].groups = groups[Carrier(i)] \/ quiet < TTL
    BY <1>0, <2>1, Begun
  <2>4. TimelyCall(w)'
    BY <1>1, <1>2, <2>3 DEF TimelyCall
  <2> QED
    BY <1>3, <1>4, <2>2, <2>4 DEF Timely
<1>6. CASE resolveViaCascadedLookup(w)
  <2>1. cache' = cache
    BY <1>6 DEF resolveViaCascadedLookup
  <2> DEFINE c == call[w]
             d == call'[w]
  <2>2. d.asked = c.asked /\ d.cached = c.cached /\ c.stage \notin {"idle", "done"}
    BY <1>0, <1>6, Looked
  <2>3. ASSUME NEW i \in c.asked, Live(i), d.stage \notin {"idle", "done"}
        PROVE  /\ i.key \in DOMAIN c.cached => c.cached[i.key].groups = groups[Carrier(i)] \/ quiet < TTL
               /\ i.key \in DOMAIN d.found => d.found[i.key].groups = groups[Carrier(i)] \/ quiet = 0
    <3>1. /\ i.key \in DOMAIN c.cached => c.cached[i.key].groups = groups[Carrier(i)] \/ quiet < TTL
          /\ i.key \in DOMAIN c.found => c.found[i.key].groups = groups[Carrier(i)] \/ quiet = 0
      BY <2>2, <2>3 DEF Timely, TimelyCall
    <3>2. i.key \in DOMAIN d.found => \/ i.key \in DOMAIN c.found /\ d.found[i.key] = c.found[i.key]
                                      \/ d.found[i.key].groups = groups[Carrier(i)]
      BY <1>0, <1>6, <2>3, Looked
    <3> QED
      BY <3>1, <3>2
  <2>4. TimelyCall(w)'
    BY <1>1, <1>2, <2>2, <2>3 DEF TimelyCall
  <2> QED
    BY <1>3, <1>4, <2>1, <2>4 DEF Timely
<1>7. CASE saveENIInfosToCache(w)
  <2> DEFINE c == call[w]
             Mine(k) == \E i \in c.asked : i.key \in DOMAIN c.found /\ k = computeENIInfoCacheKey(i)
  <2>1. /\ c.stage = "save" /\ call'[w] = [c EXCEPT !.stage = "done",
                                     !.failed = computeWithoutENIInfo(c.asked, Over(c.cached, c.found)) # {}]
        /\ \A k : k \in DOMAIN cache' <=> Mine(k) \/ k \in DOMAIN cache
        /\ \A k \in DOMAIN cache' : ~Mine(k) => cache'[k] = cache[k]
        /\ \A i \in c.asked : i.key \in DOMAIN c.found =>
             /\ cache'[computeENIInfoCacheKey(i)].info = c.found[i.key]
             /\ cache'[computeENIInfoCacheKey(i)].left = TTL
    BY <1>0, <1>7, Saves
  <2>2. CallInv(w) /\ Shaped(c) /\ TimelyCall(w) /\ quiet \in 0 .. TTL /\ \A k \in DOMAIN cache : cache[k].left \in 1 .. TTL
    BY <1>0 DEF CallsInv, CallInv, Timely, TimelyCache
  <2>3. call'[w].stage = "done"
    BY SMT, <2>1, <2>2 DEF Shaped
  <2>4. TTL \in 1 .. TTL /\ TTL + 0 <= TTL
    BY SMT DEF Lasting
  <2>5. ASSUME NEW k \in DOMAIN cache' PROVE cache'[k].left \in 1 .. TTL
    <3>1. CASE Mine(k)
      <4>1. PICK i \in c.asked : i.key \in DOMAIN c.found /\ k = computeENIInfoCacheKey(i)
        BY <3>1
      <4>2. cache'[computeENIInfoCacheKey(i)].left = TTL
        BY <2>1, <4>1
      <4> QED
        BY <2>4, <4>1, <4>2
    <3>2. CASE ~Mine(k)
      <4>1. k \in DOMAIN cache /\ cache'[k] = cache[k]
        BY <2>1, <3>2
      <4> QED
        BY <2>2, <4>1
    <3> QED
      BY <3>1, <3>2
  <2>6. ASSUME NEW i, computeENIInfoCacheKey(i) \in DOMAIN cache', Live(i)
        PROVE  \/ cache'[computeENIInfoCacheKey(i)].info.groups = groups[Carrier(i)]
               \/ cache'[computeENIInfoCacheKey(i)].left + quiet <= TTL
    <3>1. CASE Mine(computeENIInfoCacheKey(i))
      <4>1. PICK j \in c.asked : j.key \in DOMAIN c.found /\ <<i.key, i.uid>> = <<j.key, j.uid>>
        BY <3>1 DEF computeENIInfoCacheKey
      <4>2. i.key = j.key /\ i.uid = j.uid /\ computeENIInfoCacheKey(i) = computeENIInfoCacheKey(j)
        BY SMT, <4>1 DEF computeENIInfoCacheKey
      <4>3. Known(j)
        BY <2>2 DEF CallInv, Answers
      <4>4. Live(j) /\ Carrier(j) = Carrier(i)
        BY <2>6, <4>2, <4>3, SameOne
      <4>5. c.found[j.key].groups = groups[Carrier(j)] \/ quiet = 0
        BY <2>1, <2>2, <4>1, <4>4 DEF TimelyCall
      <4>6. /\ cache'[computeENIInfoCacheKey(j)].info = c.found[j.key]
            /\ cache'[computeENIInfoCacheKey(j)].left = TTL
        BY <2>1, <4>1
      <4>7. CASE quiet = 0
        BY <2>4, <4>2, <4>6, <4>7
      <4>8. CASE c.found[j.key].groups = groups[Carrier(j)]
        <5>1. cache'[computeENIInfoCacheKey(i)].info = c.found[j.key]
          BY <4>2, <4>6
        <5>2. groups[Carrier(j)] = groups[Carrier(i)]
          BY <4>4
        <5> QED
          BY <4>8, <5>1, <5>2
      <4> QED
        BY <4>5, <4>7, <4>8
    <3>2. CASE ~Mine(computeENIInfoCacheKey(i))
      BY <1>0, <2>1, <2>6, <3>2 DEF TimelyCache
    <3> QED
      BY <3>1, <3>2
  <2>7. TimelyCache'
    BY <1>1, <1>2, <2>2, <2>5, <2>6 DEF TimelyCache, computeENIInfoCacheKey
  <2>8. TimelyCall(w)'
    BY <2>3 DEF TimelyCall
  <2> QED
    BY <1>3, <2>7, <2>8 DEF Timely
<1> QED
  BY <1>5, <1>6, <1>7 DEF Calls

\* What an answer given after the TTL without a change says.
LEMMA Fresh ==
  ASSUME Named, Lasting, IInv, Timely, [Next]_vars
  PROVE  GroupsAfterTTL
<1> SUFFICES ASSUME NEW w \in Worker, call'[w].stage = "done", call[w] # call'[w], ~call'[w].failed, quiet = TTL,
                    NEW i \in call'[w].asked, Live(i)
             PROVE  Over(call'[w].cached, call'[w].found)[i.key].groups = groups[Carrier(i)]
  BY DEF GroupsAfterTTL
<1> DEFINE c == call[w]
           d == call'[w]
<1>0. World /\ CacheInv /\ CallsInv /\ TimelyCache /\ TimelyCall(w)
  BY DEF IInv, Timely
<1>1. i.key \in DOMAIN d.cached \cup DOMAIN d.found
  BY Inductive DEF IInv, CallsInv, CallInv, Stages, Covered
<1>2. ~(quiet < TTL) /\ quiet # 0
  BY SMT DEF Lasting
<1>3. Calls(w)
  <2>1. PICK v \in Worker : Calls(v)
    BY Others
  <2> QED
    BY <1>0, <2>1, OneCalls
<1>4. /\ i.key \in DOMAIN d.cached => d.cached[i.key].groups = groups[Carrier(i)]
      /\ i.key \in DOMAIN d.found => d.found[i.key].groups = groups[Carrier(i)]
  <2>1. CASE \E asked \in Asking : Resolve(w, asked)
    BY <1>0, <1>2, <2>1, Begun
  <2>2. CASE resolveViaCascadedLookup(w)
    BY <1>0, <2>2, Looked
  <2>3. CASE saveENIInfosToCache(w)
    <3>1. Shaped(c) /\ c.stage = "save"
      BY <1>0, <2>3 DEF CallsInv, CallInv, saveENIInfosToCache
    <3>2. d = [c EXCEPT !.stage = "done", !.failed = computeWithoutENIInfo(c.asked, Over(c.cached, c.found)) # {}]
      BY <1>0, <2>3, Saves
    <3> HIDE DEF c, d
    <3>3. d.asked = c.asked /\ d.cached = c.cached /\ d.found = c.found
      BY SMT, <3>1, <3>2 DEF Shaped
    <3> QED
      BY <1>0, <1>2, <3>1, <3>3 DEF TimelyCall, c, d
  <2> QED
    BY <1>3, <2>1, <2>2, <2>3 DEF Calls
<1>5. CASE i.key \in DOMAIN d.cached
  BY <1>4, <1>5 DEF Over
<1>6. CASE i.key \notin DOMAIN d.cached
  BY <1>1, <1>4, <1>6 DEF Over
<1> QED
  BY <1>5, <1>6

\* Once nothing changed for the lifetime of the caches, an answer also has the
\* security groups of the interfaces.
THEOREM GroupsCurrent == ASSUME Named, Lasting PROVE Spec => [][GroupsAfterTTL]_vars
<1>1. Init => Timely
  <2> SUFFICES ASSUME Init PROVE Timely
    OBVIOUS
  <2>1. DOMAIN None = {}
    BY DEF None
  <2>2. Idle.stage = "idle"
    BY SMT DEF Idle
  <2>3. quiet \in 0 .. TTL
    BY SMT DEF Init, Lasting
  <2> QED
    BY <2>1, <2>2, <2>3 DEF Init, Timely, TimelyCache, TimelyCall
<1>2. ASSUME IInv, Timely, [Next]_vars PROVE Timely'
  <2>1. CASE \E w \in Worker : Calls(w)
    BY <1>2, <2>1, TimelyStep
  <2>2. CASE Tick
    BY <1>2, <2>2, TimelyTick
  <2>3. CASE UNCHANGED vars
    BY <1>2, <2>3, WorldSame DEF vars, Timely, TimelyCache, TimelyCall, computeENIInfoCacheKey
  <2>4. CASE \/ \E p \in Pod : DeletePod(p) \/ \E n \in Node, a \in Addr : CreatePod(p, n, a)
             \/ \E n \in Node : ReplaceNode(n) \/ RemoveNode(n)
             \/ \E e \in ENI : ChangeGroups(e)
    <3>1. quiet' = 0 /\ UNCHANGED <<cache, call>>
      BY <2>4 DEF DeletePod, CreatePod, ReplaceNode, RemoveNode, ChangeGroups, Changing
    <3> QED
      BY <1>2, <3>1, TimelyChange
  <2> QED
    BY <1>2, <2>1, <2>2, <2>3, <2>4 DEF Next, Calls
<1>3. IInv /\ [Next]_vars => IInv'
  BY Inductive
<1>4. IInv /\ Timely /\ [Next]_vars => GroupsAfterTTL
  BY Fresh
<1> QED
  BY Initially, <1>1, <1>2, <1>3, <1>4, PTL DEF Spec

=============================================================================
