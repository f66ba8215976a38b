---------------------------- MODULE ResourceTags ----------------------------
(***************************************************************************)
(* The tags of one resource of a stack: the flags that configure tags      *)
(* (pkg/config/controller_config.go), the tags that the model builders     *)
(* gather, pkg/deploy/tracking, the ReconcileTags of pkg/deploy/elbv2 and  *)
(* pkg/deploy/ec2, and the diff of pkg/algorithm/maps.go, while others tag *)
(* the resource too.                                                       *)
(*                                                                         *)
(* config is [owner, defaults, external]: the resource is that of an       *)
(* Ingress's backend or of a Service; --default-tags and the keys of       *)
(* --external-managed-tags.  stated[l]: the tags of the IngressClassParams *)
(* and of the annotations of the Service and the Ingress.  tags: those of  *)
(* the resource.  seen: what was listed at the start of the deployment.    *)
(* alone: nobody else tagged the resource since it was listed.  service:   *)
(* elbv2 removes tags by key, ec2 those that have the value given too.     *)
(***************************************************************************)
EXTENDS Naturals

CONSTANTS Values,       \* values of tags
          UserKeys,     \* keys that users and others use
          Configs,      \* configurations, some of them invalid
          MaxChanges

VARIABLES service, config, stated, tags, pc, seen, alone, changes

vars == <<service, config, stated, tags, pc, seen, alone, changes>>

Restricted(f, K) == [k \in DOMAIN f \cap K |-> f[k]]
Outside(f, K) == Restricted(f, DOMAIN f \ K)

-----------------------------------------------------------------------------
(* pkg/algorithm/maps.go and pkg/deploy/tracking.                          *)

MergeStringMap(f, g) == [k \in DOMAIN f \cup DOMAIN g |-> IF k \in DOMAIN f THEN f[k] ELSE g[k]]

\* Mutant: only keys that are missing are updated.
DiffStringMapByKey(desired, current) ==
  [update |-> Outside(desired, DOMAIN current), remove |-> Outside(current, DOMAIN desired)]

DiffStringMap(desired, current) ==
  [update |-> Restricted(desired, {k \in DOMAIN desired :
                                     k \notin DOMAIN current \/ current[k] # desired[k]}),
   remove |-> Outside(current, DOMAIN desired)]

StackTags == [cluster |-> "this", stack |-> "this"]
StackTagsLegacy == [legacy |-> "this", stack |-> "this"]
LegacyTagKeys == {"legacy"}

\* Mutant: additional tags come before those of the tracking.
ResourceTagsExtraFirst(more) == MergeStringMap(more, MergeStringMap(StackTags, [resource |-> "this"]))

ResourceTags(more) == MergeStringMap(MergeStringMap(StackTags, [resource |-> "this"]), more)

\* A filter made of tags asks for each of them with its value.
TagsAsTagFilterMatches(filter, t) == \A k \in DOMAIN filter : k \in DOMAIN t /\ t[k] = filter[k]

Listed == \/ TagsAsTagFilterMatches(StackTags, tags)
          \/ TagsAsTagFilterMatches(StackTagsLegacy, tags)

-----------------------------------------------------------------------------
(* The flags, and what the model builders make of the stated tags.         *)

trackingTagKeys == {"cluster", "stack", "resource"}

validateDefaultTagsCollisionWithTrackingTags(c) == DOMAIN c.defaults \cap trackingTagKeys = {}
validateExternalManagedTagsCollisionWithTrackingTags(c) == c.external \cap trackingTagKeys = {}

validateExternalManagedTagsCollisionWithDefaultTags(c) == c.external \cap DOMAIN c.defaults = {}

\* Of a configuration that is not valid, nothing is started.
Validate(c) ==
  /\ validateDefaultTagsCollisionWithTrackingTags(c)
  /\ validateExternalManagedTagsCollisionWithTrackingTags(c)
  /\ validateExternalManagedTagsCollisionWithDefaultTags(c)

Layer == {"class", "service", "ingress"}

validateTagCollisionWithExternalManagedTags(layer) == DOMAIN stated[layer] \cap config.external = {}

\* Of the target group of an Ingress's backend.
buildIngressBackendResourceTags ==
  [ok |-> \A l \in Layer : validateTagCollisionWithExternalManagedTags(l),
   tags |-> MergeStringMap(stated.class, MergeStringMap(stated.service, stated.ingress))]

\* Of what belongs to a Service.
buildAdditionalResourceTags ==
  [ok |-> validateTagCollisionWithExternalManagedTags("service"), tags |-> stated.service]

Built == IF config.owner = "service" THEN buildAdditionalResourceTags
         ELSE buildIngressBackendResourceTags

buildTargetGroupTags == MergeStringMap(config.defaults, Built.tags)

-----------------------------------------------------------------------------

NoTags == [k \in {} |-> k]
Tag(k, v) == [x \in {k} |-> v]

\* A resource made by this controller, or by the one before it.
Init ==
  /\ service \in {"elbv2", "ec2"}
  /\ config \in {c \in Configs : Validate(c)}
  /\ stated = [l \in Layer |-> NoTags]
  /\ tags \in {ResourceTags(config.defaults), MergeStringMap(StackTagsLegacy, [resource |-> "this"])}
  /\ pc = "idle" /\ seen = tags /\ alone = FALSE /\ changes = 0

Changing == changes < MaxChanges /\ changes' = changes + 1

StatableLayers == IF config.owner = "service" THEN {"service"} ELSE Layer
StatableTags == {NoTags} \cup {Tag(k, v) : k \in UserKeys \cup config.external, v \in Values}

\* Someone states another tag, or none, anywhere.
Edit ==
  /\ pc = "idle"
  /\ Changing
  /\ \E l \in StatableLayers, t \in StatableTags : t # stated[l] /\ stated' = [stated EXCEPT ![l] = t]
  /\ alone' = FALSE
  /\ UNCHANGED <<service, config, tags, pc, seen>>

\* Others tag and untag as they like, but for the keys of the tracking.
OthersTag ==
  /\ Changing
  /\ \E k \in (UserKeys \cup config.external \cup LegacyTagKeys) \ trackingTagKeys :
       tags' \in {Outside(tags, {k})} \cup (IF k \in LegacyTagKeys THEN {}
                                            ELSE {MergeStringMap(Tag(k, v), tags) : v \in Values})
  /\ tags' # tags
  /\ Listed'
  /\ alone' = FALSE
  /\ UNCHANGED <<service, config, stated, pc, seen>>

\* The model is built, and the deployment lists the resources of the stack
\* with their tags.
List ==
  /\ pc = "idle" /\ Built.ok /\ Listed
  /\ pc' = "add" /\ seen' = tags /\ alone' = TRUE
  /\ UNCHANGED <<service, config, stated, tags, changes>>

Ignored == LegacyTagKeys \cup config.external
Diff == DiffStringMap(ResourceTags(buildTargetGroupTags), seen)

\* Tags are added first; either call may fail.
Add(s) ==
  /\ service = s /\ pc = "add"
  /\ tags' = MergeStringMap(Outside(Diff.update, Ignored), tags)
  /\ pc' = "remove"
  /\ UNCHANGED <<service, config, stated, seen, alone, changes>>

AddTags == Add("elbv2")
CreateTags == Add("ec2")

\* Mutant: ignored keys are removed too.
RemoveTagsAll ==
  /\ service = "elbv2" /\ pc = "remove"
  /\ tags' = Outside(tags, DOMAIN Diff.remove)
  /\ pc' = "idle"
  /\ UNCHANGED <<service, config, stated, seen, alone, changes>>

RemoveTags ==
  /\ service = "elbv2" /\ pc = "remove"
  /\ tags' = Outside(tags, DOMAIN Outside(Diff.remove, Ignored))
  /\ pc' = "idle"
  /\ UNCHANGED <<service, config, stated, seen, alone, changes>>

\* A tag is deleted only if it still has the value that was listed.
DeleteTags ==
  /\ service = "ec2" /\ pc = "remove"
  /\ LET go == Outside(Diff.remove, Ignored)
     IN  tags' = Outside(tags, {k \in DOMAIN go \cap DOMAIN tags : tags[k] = go[k]})
  /\ pc' = "idle"
  /\ UNCHANGED <<service, config, stated, seen, alone, changes>>

Fails ==
  /\ pc \in {"add", "remove"}
  /\ pc' = "idle" /\ alone' = FALSE
  /\ UNCHANGED <<service, config, stated, tags, seen, changes>>

Next == Edit \/ OthersTag \/ List \/ AddTags \/ CreateTags \/ RemoveTags \/ DeleteTags \/ Fails

Spec == Init /\ [][Next]_vars

-----------------------------------------------------------------------------

\* The resource is found again by the next deployment whatever additional
\* tags are asked for, even ones with the keys of the tracking, and wherever
\* a reconcile stops: it is never left behind (ResourceTags, ReconcileTags).
StaysFound == Listed

\* No call of the controller sets or removes a tag with an external key or
\* one that the controller before this one needs (IgnoredTagKeys).
ForeignTagsKept ==
  AddTags \/ CreateTags \/ RemoveTags \/ DeleteTags => Restricted(tags', Ignored) = Restricted(tags, Ignored)

Reconciled == pc = "idle" /\ alone

\* When both calls succeeded and nobody else tagged the resource meanwhile,
\* its other tags are those that are stated: those of the tracking before
\* the defaults, those of the class before the Service's, and those before
\* the Ingress's (MergeStringMap in all its uses).
TagsReconciled ==
  Reconciled =>
    LET layers == <<StackTags, [resource |-> "this"], config.defaults, stated.class,
                    stated.service, stated.ingress>>
        Has(i, k) == k \in DOMAIN layers[i]
    IN  /\ DOMAIN tags \ Ignored = (UNION {DOMAIN layers[i] : i \in 1 .. 6}) \ Ignored
        /\ \A k \in DOMAIN tags \ Ignored :
             \E i \in 1 .. 6 : Has(i, k) /\ tags[k] = layers[i][k] /\ \A j \in 1 .. (i - 1) : ~Has(j, k)

\* After such a reconcile the resource also has every default tag and every
\* tag of the tracking, whatever is ignored: the validation of the flags
\* keeps these apart.  It lets a default tag through that has a legacy key,
\* and that is not set by ReconcileTags.
ConfiguredTagsApplied ==
  Reconciled =>
    /\ Restricted(tags, trackingTagKeys) = MergeStringMap(StackTags, [resource |-> "this"])
    /\ \A k \in DOMAIN config.defaults \ LegacyTagKeys : k \in DOMAIN tags /\ tags[k] = config.defaults[k]
=============================================================================
