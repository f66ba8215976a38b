--------------------------- MODULE ResourceListing ---------------------------
(***************************************************************************)
(* How a deployment finds what AWS has of its stack: the lists of          *)
(* pkg/deploy/elbv2/tagging_manager.go, by ELB's own requests or by the    *)
(* Resource Groups Tagging API (EnableRGTAPI), and the list of security    *)
(* groups of pkg/deploy/ec2/tagging_manager.go, while other deployments    *)
(* create, tag and delete resources of the account.                        *)
(*                                                                         *)
(* aws maps what exists to its VPC and to the tag filters of the stack     *)
(* that its tags match; index is the tagging API's copy, which follows     *)
(* with a delay.  call is the list being made, the answer staying until    *)
(* the next one.  kept is what did not change since the list was begun,    *)
(* ours what matched a filter at some moment since; deleted is what there  *)
(* was once, for no ARN is used again.  changes bounds the steps of the    *)
(* others.                                                                 *)
(***************************************************************************)
EXTENDS Naturals, Sequences, FiniteSets, TLC

LOCAL INSTANCE SequencesExt

CONSTANTS
  kind,          \* [resource -> "lb", "tg" or "sg"]
  VPC,           \* the controller's VPC and others'
  vpcID,
  Filters,       \* the tag filters of a list, in their order
  Made,          \* the resources of the stack at first
  ChunkSize,
  MaxChanges

VARIABLES aws, index, call, kept, ours, deleted, changes

vars == <<aws, index, call, kept, ours, deleted, changes>>

Resource == DOMAIN kind
Matching == SUBSET ToSet(Filters)
None == <<>>
Idle == [stage |-> "idle"]
Finished == call.stage \in {"idle", "done", "failed"}

OfKind(k) == {r \in DOMAIN aws : kind[r] = k}
Matched(s) == {r \in DOMAIN s : s[r].matches # {}}

Init ==
  /\ aws = [r \in Made |-> [vpc |-> vpcID, matches |-> ToSet(Filters)]]
  /\ index = aws
  /\ call = Idle
  /\ kept = {} /\ ours = {} /\ deleted = {}
  /\ changes = 0

-----------------------------------------------------------------------------
(* Other deployments, and the tagging API's copy.                          *)

Changing(r, now) ==
  /\ changes < MaxChanges
  /\ changes' = changes + 1
  /\ aws' = now
  /\ kept' = kept \ {r}
  /\ ours' = ours \cup Matched(now)
  /\ UNCHANGED <<index, call>>

Create(r) ==
  /\ r \notin DOMAIN aws \cup deleted
  /\ \E v \in VPC, m \in Matching : Changing(r, r :> [vpc |-> v, matches |-> m] @@ aws)
  /\ UNCHANGED deleted

Retag(r) ==
  /\ r \in DOMAIN aws
  /\ \E m \in Matching \ {aws[r].matches} : Changing(r, [aws EXCEPT ![r].matches = m])
  /\ UNCHANGED deleted

Delete(r) ==
  /\ r \in DOMAIN aws
  /\ Changing(r, [s \in DOMAIN aws \ {r} |-> aws[s]])
  /\ deleted' = deleted \cup {r}

IndexFollows(r) ==
  /\ index' = [s \in (DOMAIN index \ {r}) \cup (DOMAIN aws \cap {r}) |->
                 IF s = r THEN aws[r] ELSE index[s]]
  /\ index' # index
  /\ UNCHANGED <<aws, call, kept, ours, deleted, changes>>

-----------------------------------------------------------------------------
(* The lists.                                                              *)

\* Mutant: what does not fill a chunk is left out.
ChunkStringsFull(s, n) ==
  [c \in 1..(Len(s) \div n) |-> SubSeq(s, n * (c - 1) + 1, n * c)]

ChunkStrings(s, n) ==
  [c \in 1..((Len(s) + n - 1) \div n) |->
     SubSeq(s, n * (c - 1) + 1, IF n * c > Len(s) THEN Len(s) ELSE n * c)]

Begun(c, stable) ==
  /\ Finished
  /\ call' = c
  /\ kept' = stable
  /\ ours' = Matched(aws) \cup Matched(index)
  /\ UNCHANGED <<aws, index, deleted, changes>>

\* One request lists the resources of the account, in any order.
listNative(k) ==
  \E arns \in SetToSeqs({r \in OfKind(k) : aws[r].vpc = vpcID}) :
    Begun([stage |-> "tags", kind |-> k, rgt |-> FALSE,
           todo |-> ChunkStrings(arns, ChunkSize), found |-> None],
          DOMAIN aws)

listLoadBalancersNative == listNative("lb")
listTargetGroupsNative == listNative("tg")

Proceed(c) ==
  /\ call' = c
  /\ UNCHANGED <<aws, index, kept, ours, deleted, changes>>

\* A request for the tags of a chunk, refused if one of it is gone.
describeResourceTagsNative ==
  /\ call.stage = "tags" /\ call.todo # <<>>
  /\ LET chunk == ToSet(Head(call.todo))
     IN  Proceed(IF chunk \subseteq DOMAIN aws
                 THEN [call EXCEPT !.todo = Tail(@), !.found = [r \in chunk |-> aws[r]] @@ @]
                 ELSE [call EXCEPT !.stage = "failed"])

\* TagFilter.Matches for each of the filters.
matchesAnyTagFilter ==
  /\ call.stage = "tags" /\ call.todo = <<>>
  /\ Proceed([call EXCEPT !.stage = "done",
                          !.found = [r \in Matched(call.found) |-> call.found[r]]])

\* The list by the tagging API: the copy is asked once for each filter.
listRGT(k) ==
  Begun([stage |-> "resources", kind |-> k, rgt |-> TRUE, todo |-> Filters, found |-> None],
        {r \in DOMAIN aws \cap DOMAIN index : aws[r] = index[r]})

listLoadBalancersRGT == listRGT("lb")
listTargetGroupsRGT == listRGT("tg")

GetResources ==
  /\ call.stage = "resources" /\ call.todo # <<>>
  /\ LET hits == {r \in DOMAIN index : kind[r] = call.kind /\ Head(call.todo) \in index[r].matches}
     IN  Proceed([call EXCEPT !.todo = Tail(@), !.found = @ @@ [r \in hits |-> index[r]]])

\* Then each resource is described in turn.
Describing ==
  /\ call.stage = "resources" /\ call.todo = <<>>
  /\ Proceed([call EXCEPT !.stage = "describe", !.todo = DOMAIN call.found])

Describe ==
  /\ call.stage = "describe"
  /\ \/ call.todo = {} /\ Proceed([call EXCEPT !.stage = "done"])
     \/ \E r \in call.todo :
          Proceed(IF r \in DOMAIN aws THEN [call EXCEPT !.todo = @ \ {r}]
                  ELSE [call EXCEPT !.stage = "failed"])

\* Security groups are asked for by filter and VPC.
ListSecurityGroups ==
  Begun([stage |-> "groups", kind |-> "sg", rgt |-> FALSE, todo |-> Filters, found |-> None],
        DOMAIN aws)

listSecurityGroupsWithTagFilter ==
  /\ call.stage = "groups"
  /\ LET hits == {r \in OfKind("sg") : aws[r].vpc = vpcID /\ Head(call.todo) \in aws[r].matches}
     IN  Proceed(IF call.todo = <<>> THEN [call EXCEPT !.stage = "done"]
                 ELSE [call EXCEPT !.todo = Tail(@), !.found = [r \in hits |-> aws[r]] @@ @])

Next ==
  \/ \E r \in Resource : Create(r) \/ Retag(r) \/ Delete(r) \/ IndexFollows(r)
  \/ listLoadBalancersNative \/ listTargetGroupsNative
  \/ describeResourceTagsNative \/ matchesAnyTagFilter
  \/ listLoadBalancersRGT \/ listTargetGroupsRGT
  \/ GetResources \/ Describing \/ Describe
  \/ ListSecurityGroups \/ listSecurityGroupsWithTagFilter

Spec == Init /\ [][Next]_vars

-----------------------------------------------------------------------------

\* A list that succeeds has all of the stack's resources in the VPC that were
\* not created, tagged or deleted meanwhile, however many requests it takes,
\* and for the tagging API, all that its copy was right about; and it has
\* nothing that was another stack's all the time, which the deployment would
\* take for its own and delete.
ListsStack ==
  call.stage = "done" =>
    /\ {r \in kept \cap OfKind(call.kind) : aws[r].vpc = vpcID /\ aws[r].matches # {}}
         \subseteq DOMAIN call.found
    /\ \A r \in DOMAIN call.found : r \in ours /\ kind[r] = call.kind

\* A list fails only because of a resource that is deleted: with ELB's
\* requests it may be any of the VPC, another stack's too, but with the
\* tagging API one of the stack, so that no stack disturbs another.
FailsForDeleted ==
  call.stage = "failed" =>
    \E r \in deleted : kind[r] = call.kind /\ (call.rgt => r \in DOMAIN call.found \cap ours)
=============================================================================
