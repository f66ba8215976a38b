---------------------------- MODULE ResourceGraph ----------------------------
(***************************************************************************)
(* The stack as a graph of resources (pkg/model/core/stack.go and graph/): *)
(* model builders add resources and dependencies, and the traversal for    *)
(* the stack's JSON visits each after those it depends on.                 *)
(*                                                                         *)
(* nodes and outEdges are the graph; indegree, queue and order belong to   *)
(* the traversal, which has not begun ("building"), is on its way          *)
(* ("visiting") or has ended with a result.                                *)
(***************************************************************************)
EXTENDS Naturals, Sequences, FiniteSets

LOCAL INSTANCE SequencesExt
LOCAL INSTANCE Relation

CONSTANTS Resource, MaxDependencies

VARIABLES nodes, outEdges, phase, indegree, queue, order

vars == <<nodes, outEdges, phase, indegree, queue, order>>

Init ==
  /\ nodes = <<>> /\ outEdges = [r \in Resource |-> <<>>]
  /\ phase = "building"
  /\ indegree = [r \in {} |-> 0] /\ queue = <<>> /\ order = <<>>

-----------------------------------------------------------------------------

\* A resource of the type and id of another one is refused and changes nothing.
AddResource(r) ==
  /\ phase = "building"
  /\ r \notin ToSet(nodes)
  /\ nodes' = Append(nodes, r)
  /\ UNCHANGED <<outEdges, phase, indegree, queue, order>>

\* A dependency may be stated more than once.
AddDependency(dependee, depender) ==
  /\ phase = "building"
  /\ {dependee, depender} \subseteq ToSet(nodes)
  /\ FoldLeft(LAMBDA n, r : n + Len(outEdges[r]), 0, nodes) < MaxDependencies
  /\ outEdges' = [outEdges EXCEPT ![dependee] = Append(@, depender)]
  /\ UNCHANGED <<nodes, phase, indegree, queue, order>>

Occurrences(s, r) == Cardinality({i \in DOMAIN s : s[i] = r})

\* Mutant: a dependency that is stated twice counts once.
IndegreesOnce ==
  [r \in ToSet(nodes) |-> Cardinality({d \in ToSet(nodes) : r \in ToSet(outEdges[d])})]

Indegrees ==
  [r \in ToSet(nodes) |-> FoldLeft(LAMBDA n, d : n + Occurrences(outEdges[d], r), 0, nodes)]

\* The queue is filled in the order of a Go map, which is any.
Begin ==
  /\ phase = "building"
  /\ phase' = "visiting"
  /\ indegree' = Indegrees
  /\ queue' \in SetToSeqs({r \in ToSet(nodes) : Indegrees[r] = 0})
  /\ UNCHANGED <<nodes, outEdges, order>>

Release(state, r) ==
  LET left == [state.indegree EXCEPT ![r] = @ - 1]
  IN  [indegree |-> left,
       queue |-> IF left[r] = 0 THEN Append(state.queue, r) ELSE state.queue]

Visit ==
  /\ phase = "visiting" /\ queue # <<>>
  /\ LET r == Last(queue)
         after == FoldLeft(Release, [indegree |-> indegree, queue |-> Front(queue)], outEdges[r])
     IN  /\ order' = Append(order, r)
         /\ indegree' = after.indegree /\ queue' = after.queue
  /\ UNCHANGED <<nodes, outEdges, phase>>

\* The visitor fails, and the traversal ends.
VisitFails ==
  /\ phase = "visiting" /\ queue # <<>>
  /\ phase' = "failed"
  /\ UNCHANGED <<nodes, outEdges, indegree, queue, order>>

Finish ==
  /\ phase = "visiting" /\ queue = <<>>
  /\ phase' = IF \E r \in DOMAIN indegree : indegree[r] > 0 THEN "not a DAG" ELSE "ok"
  /\ UNCHANGED <<nodes, outEdges, indegree, queue, order>>

Next ==
  \/ \E r \in Resource : AddResource(r)
  \/ \E d, r \in Resource : AddDependency(d, r)
  \/ Begin \/ Visit \/ VisitFails \/ Finish

Spec == Init /\ [][Next]_vars

-----------------------------------------------------------------------------

\* No resource is visited before one it depends on, nor twice, whatever the
\* dependencies, cyclic and repeated ones included (TopologicalTraversal).
DependenciesFirst ==
  \A i \in DOMAIN order :
    \A d \in ToSet(nodes) :
      order[i] \in ToSet(outEdges[d]) =>
        \E j \in 1..(i - 1) : order[j] = d /\ \A k \in DOMAIN order : order[k] = d => k = j

Depends == [x, y \in ToSet(nodes) |-> y \in ToSet(outEdges[x])]
Cyclic == LET path == TransitiveClosure(Depends, ToSet(nodes))
          IN  \E r \in ToSet(nodes) : path[r, r]

\* A traversal that the visitor lets through succeeds if the dependencies
\* have no cycle, and has visited every resource once then; otherwise it
\* says so.
VisitsAll ==
  /\ phase = "ok" => ~Cyclic /\ ToSet(order) = ToSet(nodes) /\ Len(order) = Len(nodes)
  /\ phase = "not a DAG" => Cyclic
=============================================================================
