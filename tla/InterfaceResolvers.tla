------------------------ MODULE InterfaceResolvers ------------------------
(***************************************************************************)
(* The network interfaces of pods and nodes, as the controller finds them  *)
(* to know whose security groups to open: pod_eni_info_resolver.go,        *)
(* node_eni_info_resolver.go and node_info_provider.go of pkg/networking.  *)
(*                                                                         *)
(* pods and nodes map the names in use to what Kubernetes says of them,    *)
(* before to the pod that last had a name, for the pod repository may lag  *)
(* behind.  holder gives the interface an address is on, groups stands for *)
(* the security groups of an interface.  cache holds what was found, with  *)
(* the ticks it is still good for; the pods' and the nodes' cache are two  *)
(* in the code and their keys are distinct here.  call[w] is the Resolve   *)
(* that worker w has begun; its answer stays until the next one.  quiet    *)
(* counts the ticks since the last change, changes bounds their number.    *)
(* Requests that EC2 refuses for reasons of its own are left out: they end *)
(* a call like one for what is gone.                                       *)
(*                                                                         *)
(* An interface of an instance is <<node, uid, device>>, device 0 being    *)
(* its primary one; that of a pod of its own is <<pod, uid, Own>>.         *)
(***************************************************************************)
EXTENDS Naturals, FiniteSets

CONSTANTS Pod, Node, Fargate, Addr, Worker, MaxUID, TTL, MaxChanges

VARIABLES pods, before, nodes, holder, groups, cache, call, quiet, changes

vars == <<pods, before, nodes, holder, groups, cache, call, quiet, changes>>

Own == 2
NoENI == <<>>
None == [k \in {} |-> k]
Idle == [asked |-> {}, cached |-> None, found |-> None, failed |-> FALSE, stage |-> "idle"]

With(f, k, v) == [j \in DOMAIN f \cup {k} |-> IF j = k THEN v ELSE f[j]]
Over(f, g) == [k \in DOMAIN f \cup DOMAIN g |-> IF k \in DOMAIN f THEN f[k] ELSE g[k]]

ENI == (Node \X (1..MaxUID) \X {0, 1}) \cup (Pod \X (1..MaxUID) \X {Own})

\* A node asks for its interface like a pod, by its name and uid.
NodeInfo(n) == [key |-> n, uid |-> nodes[n], ip |-> NoENI, node |-> n, eni |-> NoENI]

Exists(e) ==
  \/ e[3] # Own /\ e[1] \in DOMAIN nodes /\ nodes[e[1]] = e[2]
  \/ e[3] = Own /\ e[1] \in DOMAIN pods /\ pods[e[1]].uid = e[2]

Init ==
  /\ pods = None /\ before = None
  /\ nodes = [n \in Node |-> 1]
  /\ holder = [a \in Addr |-> NoENI]
  /\ groups = [e \in ENI |-> 0]
  /\ cache = None
  /\ call = [w \in Worker |-> Idle]
  /\ quiet = 0 /\ changes = 0

-----------------------------------------------------------------------------
(* Kubernetes, the CNI plugin and the owners of the security groups.       *)

Changing ==
  /\ changes < MaxChanges
  /\ changes' = changes + 1
  /\ quiet' = 0
  /\ UNCHANGED <<cache, call>>

\* A pod gets an address that no other has, on an interface of its node, on
\* a branch interface that an annotation names, or with Fargate on one of
\* its own.
CreatePod(p, n, a) ==
  /\ p \notin DOMAIN pods /\ n \in DOMAIN nodes
  /\ \A q \in DOMAIN pods : pods[q].ip # a
  /\ LET uid == IF p \in DOMAIN before THEN before[p].uid + 1 ELSE 1
         own == <<p, uid, Own>>
     IN  /\ uid <= MaxUID
         /\ \E e \in IF n \in Fargate THEN {own} ELSE {<<n, nodes[n], 0>>, <<n, nodes[n], 1>>, own} :
              /\ pods' = With(pods, p, [key |-> p, uid |-> uid, ip |-> a, node |-> n,
                                        eni |-> IF e = own /\ n \notin Fargate THEN own ELSE NoENI])
              /\ holder' = [holder EXCEPT ![a] = e]
  /\ UNCHANGED <<before, nodes, groups>>
  /\ Changing

\* An address of an instance stays with it, one of a pod's own interface goes.
DeletePod(p) ==
  /\ p \in DOMAIN pods
  /\ pods' = [q \in DOMAIN pods \ {p} |-> pods[q]]
  /\ before' = With(before, p, pods[p])
  /\ holder' = [a \in Addr |-> IF holder[a] = <<p, pods[p].uid, Own>> THEN NoENI ELSE holder[a]]
  /\ UNCHANGED <<nodes, groups>>
  /\ Changing

\* A node goes after its pods, and another instance may take its name.
ReplaceNode(n) ==
  /\ n \in DOMAIN nodes /\ nodes[n] < MaxUID
  /\ \A p \in DOMAIN pods : pods[p].node # n
  /\ nodes' = [nodes EXCEPT ![n] = @ + 1]
  /\ holder' = [a \in Addr |-> IF holder[a] # NoENI /\ holder[a][1] = n THEN NoENI ELSE holder[a]]
  /\ UNCHANGED <<pods, before, groups>>
  /\ Changing

RemoveNode(n) ==
  /\ n \in DOMAIN nodes
  /\ \A p \in DOMAIN pods : pods[p].node # n
  /\ nodes' = [m \in DOMAIN nodes \ {n} |-> nodes[m]]
  /\ holder' = [a \in Addr |-> IF holder[a] # NoENI /\ holder[a][1] = n THEN NoENI ELSE holder[a]]
  /\ UNCHANGED <<pods, before, groups>>
  /\ Changing

ChangeGroups(e) ==
  /\ Exists(e)
  /\ groups' = [groups EXCEPT ![e] = 1 - @]
  /\ UNCHANGED <<pods, before, nodes, holder>>
  /\ Changing

\* A call takes less than a tick: the TTL is ten minutes.
Tick ==
  /\ \A w \in Worker : call[w].stage \in {"idle", "done"}
  /\ quiet' = IF quiet < TTL THEN quiet + 1 ELSE quiet
  /\ cache' = [k \in {j \in DOMAIN cache : cache[j].left > 1} |->
                 [info |-> cache[k].info, left |-> cache[k].left - 1]]
  /\ UNCHANGED <<pods, before, nodes, holder, groups, call, changes>>

-----------------------------------------------------------------------------
(* Resolve.                                                                *)

Failed == [failed |-> TRUE, infos |-> None]
Found(f) == [failed |-> FALSE, infos |-> f]

buildENIInfo(e) == [id |-> e, groups |-> groups[e]]

\* Mutant: the key leaves out the uid.
computeENIInfoCacheKeyByName(i) == <<i.key, 1>>

computeENIInfoCacheKey(i) == <<i.key, i.uid>>

fetchENIInfosFromCache(asked) ==
  LET hits == {i \in asked : computeENIInfoCacheKey(i) \in DOMAIN cache}
      At(k) == CHOOSE i \in hits : i.key = k
  IN  [k \in {i.key : i \in hits} |-> cache[computeENIInfoCacheKey(At(k))].info]

computeWithoutENIInfo(asked, infos) == {i \in asked : i.key \notin DOMAIN infos}

Resolved(S, Of(_)) ==
  Found([k \in {i.key : i \in S} |-> buildENIInfo(Of(CHOOSE i \in S : i.key = k))])

\* EC2 answers a request for interfaces or instances by id as a whole.
resolveViaPodENIAnnotation(todo) ==
  LET annotated == {i \in todo : i.eni # NoENI}
      Of(i) == i.eni
  IN  IF \E i \in annotated : ~Exists(i.eni) THEN Failed ELSE Resolved(annotated, Of)

isPodSupportedByNodeENI(i) == holder[i.ip] # NoENI /\ holder[i.ip][1] = i.node

resolveViaNodeENIs(todo) ==
  LET Of(i) == holder[i.ip]
  IN  IF \E i \in todo : i.node \notin DOMAIN nodes THEN Failed
      ELSE Resolved({i \in todo : i.node \notin Fargate /\ isPodSupportedByNodeENI(i)}, Of)

resolveViaVPCENIs(todo) ==
  LET Of(i) == holder[i.ip]
  IN  Resolved({i \in todo : holder[i.ip] # NoENI}, Of)

\* All of the instances, or an error.
FetchNodeInstances(todo) == \A i \in todo : i.key \in DOMAIN nodes /\ nodes[i.key] = i.uid

findInstancePrimaryENI(i) == <<i.key, i.uid, 0>>

resolveViaInstanceID(todo) ==
  IF FetchNodeInstances(todo) THEN Resolved(todo, findInstancePrimaryENI) ELSE Failed

Lookup(stage, todo) ==
  CASE stage = "annotation" -> resolveViaPodENIAnnotation(todo)
    [] stage = "node" -> resolveViaNodeENIs(todo)
    [] stage = "vpc" -> resolveViaVPCENIs(todo)
    [] stage = "instance" -> resolveViaInstanceID(todo)

After(stage) ==
  CASE stage = "annotation" -> "node"
    [] stage = "node" -> "vpc"
    [] stage \in {"vpc", "instance"} -> "save"

\* The pods of a call come from the repository, which may still have one that
\* is gone.
Asking ==
  {S \in SUBSET ({pods[p] : p \in DOMAIN pods} \cup {before[p] : p \in DOMAIN before}) :
     \A i, j \in S : i.key = j.key => i = j}
  \cup SUBSET {NodeInfo(n) : n \in DOMAIN nodes \ Fargate}

Resolve(w, asked) ==
  LET cached == fetchENIInfosFromCache(asked)
  IN  /\ call[w].stage \in {"idle", "done"}
      /\ call' = [call EXCEPT ![w] =
           [asked |-> asked, cached |-> cached, found |-> None, failed |-> FALSE,
            stage |-> IF computeWithoutENIInfo(asked, cached) = {} THEN "done"
                      ELSE IF \E i \in asked : i.key \in Pod THEN "annotation" ELSE "instance"]]
      /\ UNCHANGED <<pods, before, nodes, holder, groups, cache, quiet, changes>>

resolveViaCascadedLookup(w) ==
  LET c == call[w]
      got == Lookup(c.stage, computeWithoutENIInfo(c.asked, Over(c.cached, c.found)))
      found == Over(got.infos, c.found)
  IN  /\ c.stage \in {"annotation", "node", "vpc", "instance"}
      /\ call' = [call EXCEPT ![w] =
           IF got.failed THEN [c EXCEPT !.stage = "done", !.failed = TRUE]
           ELSE [c EXCEPT !.found = found,
                          !.stage = IF computeWithoutENIInfo(c.asked, Over(c.cached, found)) = {}
                                    THEN "save" ELSE After(c.stage)]]
      /\ UNCHANGED <<pods, before, nodes, holder, groups, cache, quiet, changes>>

\* What was found is kept even if something is missing and the call fails.
saveENIInfosToCache(w) ==
  LET c == call[w]
      saved == {i \in c.asked : i.key \in DOMAIN c.found}
      Of(k) == CHOOSE i \in saved : computeENIInfoCacheKey(i) = k
  IN  /\ c.stage = "save"
      /\ cache' = Over([k \in {computeENIInfoCacheKey(i) : i \in saved} |->
                          [info |-> c.found[Of(k).key], left |-> TTL]], cache)
      /\ call' = [call EXCEPT ![w] =
           [c EXCEPT !.stage = "done",
                     !.failed = computeWithoutENIInfo(c.asked, Over(c.cached, c.found)) # {}]]
      /\ UNCHANGED <<pods, before, nodes, holder, groups, quiet, changes>>

Next ==
  \/ \E p \in Pod : DeletePod(p) \/ \E n \in Node, a \in Addr : CreatePod(p, n, a)
  \/ \E n \in Node : ReplaceNode(n) \/ RemoveNode(n)
  \/ \E e \in ENI : ChangeGroups(e)
  \/ Tick
  \/ \E w \in Worker :
       \/ \E asked \in Asking : Resolve(w, asked)
       \/ resolveViaCascadedLookup(w) \/ saveENIInfosToCache(w)

Spec == Init /\ [][Next]_vars

-----------------------------------------------------------------------------

Live(i) ==
  IF i.key \in Pod THEN i.key \in DOMAIN pods /\ pods[i.key] = i
  ELSE i.key \in DOMAIN nodes /\ nodes[i.key] = i.uid

Carrier(i) == IF i.key \in Pod THEN holder[i.ip] ELSE findInstancePrimaryENI(i)

\* A Resolve that succeeds gives every pod the interface its address is on,
\* and every node its primary one, as long as they exist: never that of an
\* earlier pod or instance of the name, nor of one that had the address,
\* whoever of these is still asked for and cached (computePodENIInfoCacheKey).
RightInterface ==
  \A w \in Worker :
    call[w].stage = "done" /\ ~call[w].failed =>
      \A i \in call[w].asked :
        Live(i) => Over(call[w].cached, call[w].found)[i.key].id = Carrier(i)

\* A Resolve fails only if one of those it was asked for is gone: whatever
\* network a pod is on, one of the lookups finds it (resolveViaCascadedLookup).
ResolvesLive ==
  \A w \in Worker :
    call[w].stage = "done" /\ call[w].failed => \E i \in call[w].asked : ~Live(i)

\* Once nothing changed for the TTL of the caches, a Resolve also gives the
\* security groups that the interfaces have.
GroupsAfterTTL ==
  \A w \in Worker :
    call'[w].stage = "done" /\ call[w] # call'[w] /\ ~call'[w].failed /\ quiet = TTL =>
      \A i \in call'[w].asked :
        Live(i) => Over(call'[w].cached, call'[w].found)[i.key].groups = groups[Carrier(i)]
=============================================================================
