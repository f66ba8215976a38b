------------------------- MODULE ResourceTagsProofs -------------------------
(* The tags of a resource, proved for any configurations, keys and values of   *)
(* tags and any number of changes.                                             *)
EXTENDS ResourceTags, TLAPS

\* The steps are found by Zenon, unless they cite SMT.
USE ZenonT(60)

-----------------------------------------------------------------------------
(* Maps.                                                                       *)

\* What MergeStringMap returns: keys of either, the first before the second.
LEMMA Merged ==
  ASSUME NEW f, NEW g
  PROVE  /\ DOMAIN MergeStringMap(f, g) = DOMAIN f \cup DOMAIN g
         /\ \A k \in DOMAIN f : MergeStringMap(f, g)[k] = f[k]
         /\ \A k \in DOMAIN g \ DOMAIN f : MergeStringMap(f, g)[k] = g[k]
BY DEF MergeStringMap

\* Restricted and Outside keep the values of the keys they keep.
LEMMA Parts ==
  ASSUME NEW f, NEW K
  PROVE  /\ DOMAIN Restricted(f, K) = DOMAIN f \cap K
         /\ \A k \in DOMAIN f \cap K : Restricted(f, K)[k] = f[k]
         /\ DOMAIN Outside(f, K) = DOMAIN f \ K
         /\ \A k \in DOMAIN f \ K : Outside(f, K)[k] = f[k]
BY DEF Restricted, Outside

\* The tags of the tracking come before any other.
LEMMA Tracked ==
  ASSUME NEW more
  PROVE  /\ DOMAIN ResourceTags(more) = trackingTagKeys \cup DOMAIN more
         /\ \A k \in trackingTagKeys : ResourceTags(more)[k] = "this"
         /\ \A k \in DOMAIN more \ trackingTagKeys : ResourceTags(more)[k] = more[k]
<1> DEFINE own == MergeStringMap(StackTags, [resource |-> "this"])
<1>1. /\ DOMAIN StackTags = {"cluster", "stack"} /\ StackTags["cluster"] = "this" /\ StackTags["stack"] = "this"
      /\ DOMAIN [resource |-> "this"] = {"resource"} /\ [resource |-> "this"]["resource"] = "this"
  BY SMT DEF StackTags
<1>2. own = [k \in {"cluster", "stack"} \cup {"resource"} |-> "this"]
  BY SMT, <1>1 DEF MergeStringMap
<1>3. DOMAIN own = trackingTagKeys /\ \A k \in trackingTagKeys : own[k] = "this"
  BY SMT, <1>2 DEF trackingTagKeys
<1> HIDE DEF own
<1>4. ResourceTags(more) = [k \in DOMAIN own \cup DOMAIN more |-> IF k \in DOMAIN own THEN own[k] ELSE more[k]]
  BY DEF ResourceTags, own, MergeStringMap
<1> QED
  BY <1>3, <1>4

-----------------------------------------------------------------------------
(* The resource is found again.                                                *)

Desired == ResourceTags(buildTargetGroupTags)

\* What is to be updated: the keys whose values are missing or differ; and what is
\* to be removed: those that are not desired (DiffStringMap).
LEMMA Diffed ==
  /\ \A k : k \in DOMAIN Diff.update <=> k \in DOMAIN Desired /\ (k \notin DOMAIN seen \/ seen[k] # Desired[k])
  /\ \A k \in DOMAIN Diff.update : Diff.update[k] = Desired[k]
  /\ DOMAIN Diff.remove = DOMAIN seen \ DOMAIN Desired
  /\ \A k \in DOMAIN seen \ DOMAIN Desired : Diff.remove[k] = seen[k]
<1> DEFINE U == {k \in DOMAIN Desired : k \notin DOMAIN seen \/ seen[k] # Desired[k]}
<1>1. Diff = [update |-> Restricted(Desired, U), remove |-> Outside(seen, DOMAIN Desired)]
  BY DEF Diff, Desired, DiffStringMap
<1>2. Diff.update = Restricted(Desired, U) /\ Diff.remove = Outside(seen, DOMAIN Desired)
  BY SMT, <1>1
<1>3. DOMAIN Desired \cap U = U
  OBVIOUS
<1> HIDE DEF U
<1>4. /\ DOMAIN Restricted(Desired, U) = U /\ \A k \in U : Restricted(Desired, U)[k] = Desired[k]
      /\ DOMAIN Outside(seen, DOMAIN Desired) = DOMAIN seen \ DOMAIN Desired
      /\ \A k \in DOMAIN seen \ DOMAIN Desired : Outside(seen, DOMAIN Desired)[k] = seen[k]
  BY <1>3, Parts
<1> QED
  BY <1>2, <1>4 DEF U

\* The flags of a controller that has started are valid.
Valid == Validate(config)

\* Flags do not change.
LEMMA ConfigKept == ASSUME [Next]_vars PROVE config' = config
<1>1. UNCHANGED vars \/ Edit \/ OthersTag \/ List \/ Fails => config' = config
  BY SMT DEF vars, Edit, OthersTag, List, Fails
<1>2. AddTags \/ CreateTags \/ RemoveTags \/ DeleteTags => config' = config
  BY DEF AddTags, CreateTags, Add, RemoveTags, DeleteTags
<1> QED
  BY <1>1, <1>2 DEF Next

\* Listed, in terms of keys and values.
LEMMA ListedKeys ==
  Listed <=> /\ "stack" \in DOMAIN tags /\ tags["stack"] = "this"
             /\ \/ "cluster" \in DOMAIN tags /\ tags["cluster"] = "this"
                \/ "legacy" \in DOMAIN tags /\ tags["legacy"] = "this"
<1>1. /\ DOMAIN StackTags = {"cluster", "stack"} /\ StackTags["cluster"] = "this" /\ StackTags["stack"] = "this"
      /\ DOMAIN StackTagsLegacy = {"legacy", "stack"}
      /\ StackTagsLegacy["legacy"] = "this" /\ StackTagsLegacy["stack"] = "this"
  BY SMT DEF StackTags, StackTagsLegacy
<1> QED
  BY <1>1 DEF Listed, TagsAsTagFilterMatches

\* No key of the tracking is ignored.
LEMMA Apart == ASSUME Valid PROVE trackingTagKeys \cap Ignored = {} /\ "legacy" \in Ignored
BY DEF Valid, Validate, validateExternalManagedTagsCollisionWithTrackingTags, Ignored, LegacyTagKeys,
       trackingTagKeys

\* What adding does to each key: one to be updated gets the desired value.
LEMMA AddEffect ==
  ASSUME AddTags \/ CreateTags
  PROVE  /\ UNCHANGED <<service, config, stated, seen, alone>> /\ pc = "add" /\ pc' = "remove"
         /\ DOMAIN tags' = DOMAIN tags \cup (DOMAIN Diff.update \ Ignored)
         /\ \A k \in DOMAIN Diff.update \ Ignored : tags'[k] = Desired[k]
         /\ \A k \in DOMAIN tags \ (DOMAIN Diff.update \ Ignored) : tags'[k] = tags[k]
<1>1. /\ UNCHANGED <<service, config, stated, seen, alone>> /\ pc = "add" /\ pc' = "remove"
      /\ tags' = MergeStringMap(Outside(Diff.update, Ignored), tags)
  BY DEF AddTags, CreateTags, Add
<1>2. /\ DOMAIN Outside(Diff.update, Ignored) = DOMAIN Diff.update \ Ignored
      /\ \A k \in DOMAIN Diff.update \ Ignored : Outside(Diff.update, Ignored)[k] = Diff.update[k]
  BY Parts
<1>3. \A k \in DOMAIN Diff.update : Diff.update[k] = Desired[k]
  BY Diffed
<1> DEFINE new == Outside(Diff.update, Ignored)
<1> HIDE DEF new
<1>4. /\ DOMAIN MergeStringMap(new, tags) = DOMAIN new \cup DOMAIN tags
      /\ \A k \in DOMAIN new : MergeStringMap(new, tags)[k] = new[k]
      /\ \A k \in DOMAIN tags \ DOMAIN new : MergeStringMap(new, tags)[k] = tags[k]
  BY Merged
<1>5. DOMAIN new = DOMAIN Diff.update \ Ignored /\ \A k \in DOMAIN new : new[k] = Desired[k]
  BY <1>2, <1>3 DEF new
<1>6. tags' = MergeStringMap(new, tags)
  BY <1>1 DEF new
<1>7. /\ DOMAIN tags' = DOMAIN tags \cup DOMAIN new
      /\ \A k \in DOMAIN new : tags'[k] = Desired[k]
      /\ \A k \in DOMAIN tags \ DOMAIN new : tags'[k] = tags[k]
  BY <1>4, <1>5, <1>6
<1> QED
  BY <1>1, <1>5, <1>7

\* What removing does: no key that is desired or ignored goes, and every other
\* one that was listed and has kept its value does.
LEMMA RemoveEffect ==
  ASSUME RemoveTags \/ DeleteTags
  PROVE  /\ UNCHANGED <<service, config, stated, seen, alone>> /\ pc = "remove" /\ pc' = "idle"
         /\ DOMAIN tags' \subseteq DOMAIN tags
         /\ \A k \in DOMAIN tags' : tags'[k] = tags[k]
         /\ \A k \in DOMAIN tags \ DOMAIN tags' : k \in DOMAIN seen \ (DOMAIN Desired \cup Ignored)
         /\ \A k \in DOMAIN seen \ (DOMAIN Desired \cup Ignored) : k \in DOMAIN tags' => tags[k] # seen[k]
<1> DEFINE go == Outside(Diff.remove, Ignored)
<1>1. /\ DOMAIN go = DOMAIN seen \ (DOMAIN Desired \cup Ignored)
      /\ \A k \in DOMAIN go : go[k] = seen[k]
  <2>1. /\ DOMAIN Diff.remove = DOMAIN seen \ DOMAIN Desired
        /\ \A k \in DOMAIN seen \ DOMAIN Desired : Diff.remove[k] = seen[k]
    BY Diffed
  <2>2. /\ DOMAIN go = DOMAIN Diff.remove \ Ignored
        /\ \A k \in DOMAIN Diff.remove \ Ignored : go[k] = Diff.remove[k]
    BY Parts
  <2> QED
    BY <2>1, <2>2
<1>2. /\ UNCHANGED <<service, config, stated, seen, alone>> /\ pc = "remove" /\ pc' = "idle"
      /\ \/ tags' = Outside(tags, DOMAIN go)
         \/ tags' = Outside(tags, {k \in DOMAIN go \cap DOMAIN tags : tags[k] = go[k]})
  BY DEF RemoveTags, DeleteTags
<1> HIDE DEF go
<1>3. PICK K : tags' = Outside(tags, K) /\ K \subseteq DOMAIN go
               /\ \A k \in DOMAIN go \cap DOMAIN tags : k \notin K => tags[k] # go[k]
  BY <1>2
<1>4. DOMAIN tags' = DOMAIN tags \ K /\ \A k \in DOMAIN tags \ K : tags'[k] = tags[k]
  <2>1. DOMAIN Outside(tags, K) = DOMAIN tags \ K /\ \A k \in DOMAIN tags \ K : Outside(tags, K)[k] = tags[k]
    BY Parts
  <2> QED
    BY <1>3, <2>1
<1> QED
  BY <1>1, <1>2, <1>3, <1>4

\* Adding and removing leave the resource to be found.
LEMMA CallsListed ==
  ASSUME Listed, Valid, AddTags \/ CreateTags \/ RemoveTags \/ DeleteTags
  PROVE  Listed'
<1>1. /\ "stack" \in trackingTagKeys /\ "cluster" \in trackingTagKeys
      /\ trackingTagKeys \cap Ignored = {} /\ "legacy" \in Ignored
  BY Apart DEF trackingTagKeys
<1>2. trackingTagKeys \subseteq DOMAIN Desired /\ \A k \in trackingTagKeys : Desired[k] = "this"
  BY Tracked DEF Desired
<1>3. ASSUME NEW k \in trackingTagKeys \cup Ignored, k \in DOMAIN tags, tags[k] = "this"
      PROVE  k \in DOMAIN tags' /\ tags'[k] = "this"
  <2>1. CASE AddTags \/ CreateTags
    BY <1>2, <1>3, <2>1, AddEffect
  <2>2. CASE RemoveTags \/ DeleteTags
    BY <1>2, <1>3, <2>2, RemoveEffect
  <2> QED
    BY <2>1, <2>2
<1>4. /\ "stack" \in DOMAIN tags' /\ tags'["stack"] = "this"
      /\ \/ "cluster" \in DOMAIN tags' /\ tags'["cluster"] = "this"
         \/ "legacy" \in DOMAIN tags' /\ tags'["legacy"] = "this"
  BY <1>1, <1>3, ListedKeys
<1>5. /\ DOMAIN StackTags = {"cluster", "stack"} /\ StackTags["cluster"] = "this" /\ StackTags["stack"] = "this"
      /\ DOMAIN StackTagsLegacy = {"legacy", "stack"}
      /\ StackTagsLegacy["legacy"] = "this" /\ StackTagsLegacy["stack"] = "this"
  BY SMT DEF StackTags, StackTagsLegacy
<1> QED
  BY <1>4, <1>5 DEF Listed, TagsAsTagFilterMatches

\* Whatever tags are stated, by whomever, and wherever a reconcile stops, the
\* next one finds the resource: its calls never touch the tags it is found by,
\* provided others leave those alone.
THEOREM ResourceStaysFound == Spec => []StaysFound
<1> DEFINE Inv == Listed /\ Valid
<1>1. Init => Inv
  <2> SUFFICES ASSUME Init PROVE Inv
    OBVIOUS
  <2>1. Valid
    BY DEF Init, Valid
  <2>2. CASE tags = ResourceTags(config.defaults)
    BY <2>1, <2>2, Tracked, ListedKeys DEF trackingTagKeys
  <2>3. CASE tags = MergeStringMap(StackTagsLegacy, [resource |-> "this"])
    <3>1. /\ DOMAIN StackTagsLegacy = {"legacy", "stack"}
          /\ StackTagsLegacy["legacy"] = "this" /\ StackTagsLegacy["stack"] = "this"
      BY SMT DEF StackTagsLegacy
    <3>2. /\ DOMAIN tags = DOMAIN StackTagsLegacy \cup DOMAIN [resource |-> "this"]
          /\ \A k \in DOMAIN StackTagsLegacy : tags[k] = StackTagsLegacy[k]
      BY <2>3 DEF MergeStringMap
    <3> QED
      BY <2>1, <3>1, <3>2, ListedKeys
  <2> QED
    BY <2>2, <2>3 DEF Init
<1>2. ASSUME Inv, [Next]_vars PROVE Inv'
  <2>1. Valid'
    BY <1>2, ConfigKept DEF Valid
  <2>2. CASE UNCHANGED tags
    BY <1>2, <2>1, <2>2 DEF Listed, TagsAsTagFilterMatches
  <2>3. CASE OthersTag
    BY <2>1, <2>3 DEF OthersTag
  <2>4. CASE AddTags \/ CreateTags \/ RemoveTags \/ DeleteTags
    BY <1>2, <2>1, <2>4, CallsListed
  <2>5. UNCHANGED vars \/ Edit \/ List \/ Fails => UNCHANGED tags
    BY SMT DEF vars, Edit, List, Fails
  <2> QED
    BY <1>2, <2>2, <2>3, <2>4, <2>5 DEF Next
<1>3. Inv => StaysFound
  BY DEF StaysFound
<1> HIDE DEF Inv
<1> QED
  BY <1>1, <1>2, <1>3, PTL DEF Spec

\* A reconcile leaves tags with external or legacy keys as they are, whether or not
\* it succeeds, in any state.
THEOREM ForeignTags == Spec => [][ForeignTagsKept]_vars
<1>1. ASSUME AddTags \/ CreateTags \/ RemoveTags \/ DeleteTags
      PROVE  Restricted(tags', Ignored) = Restricted(tags, Ignored)
  <2>1. \A k \in Ignored : (k \in DOMAIN tags' <=> k \in DOMAIN tags) /\ (k \in DOMAIN tags => tags'[k] = tags[k])
    <3>1. CASE AddTags \/ CreateTags
      BY <3>1, AddEffect
    <3>2. CASE RemoveTags \/ DeleteTags
      BY <3>2, RemoveEffect
    <3> QED
      BY <1>1, <3>1, <3>2
  <2>2. DOMAIN tags' \cap Ignored = DOMAIN tags \cap Ignored
    BY <2>1
  <2> QED
    BY SMT, <2>1, <2>2 DEF Restricted
<1>2. Next => ForeignTagsKept
  BY <1>1 DEF ForeignTagsKept
<1> QED
  BY <1>2, PTL DEF Spec

-----------------------------------------------------------------------------
(* What a reconcile that nobody disturbs leaves.                               *)

\* Only the layers that the owner of the resource has are stated.
StatedInv ==
  /\ DOMAIN stated = Layer
  /\ config.owner = "service" => stated["class"] = NoTags /\ stated["ingress"] = NoTags

\* How far such a reconcile has come.
AloneInv ==
  alone =>
    /\ pc = "add" => tags = seen
    /\ pc = "remove" =>
         /\ \A k \in DOMAIN Desired \ Ignored : k \in DOMAIN tags /\ tags[k] = Desired[k]
         /\ \A k \in DOMAIN tags \ (DOMAIN Desired \cup Ignored) : k \in DOMAIN seen /\ tags[k] = seen[k]
    /\ pc = "idle" =>
         /\ DOMAIN tags \ Ignored = DOMAIN Desired \ Ignored
         /\ \A k \in DOMAIN tags \ Ignored : tags[k] = Desired[k]

\* What is desired depends on what is configured and stated alone.
LEMMA DesiredSame ==
  ASSUME UNCHANGED <<config, stated>> PROVE Desired' = Desired /\ Ignored' = Ignored
BY DEF Desired, Ignored, buildTargetGroupTags, Built, buildAdditionalResourceTags,
       buildIngressBackendResourceTags, validateTagCollisionWithExternalManagedTags

LEMMA AddAlone == ASSUME AloneInv, AddTags \/ CreateTags PROVE AloneInv'
<1> SUFFICES ASSUME alone PROVE AloneInv'
  BY AddEffect DEF AloneInv
<1>1. /\ UNCHANGED <<config, stated, seen>> /\ pc' = "remove" /\ tags = seen
      /\ Desired' = Desired /\ Ignored' = Ignored
  BY AddEffect, DesiredSame DEF AloneInv
<1>2. \A k : k \in DOMAIN Diff.update <=> k \in DOMAIN Desired /\ (k \notin DOMAIN seen \/ seen[k] # Desired[k])
  BY Diffed
<1>3. ASSUME NEW k \in DOMAIN Desired \ Ignored PROVE k \in DOMAIN tags' /\ tags'[k] = Desired[k]
  <2>1. CASE k \in DOMAIN Diff.update
    BY <2>1, AddEffect
  <2>2. CASE k \notin DOMAIN Diff.update
    BY <1>1, <1>2, <2>2, AddEffect
  <2> QED
    BY <2>1, <2>2
<1>4. ASSUME NEW k \in DOMAIN tags' \ (DOMAIN Desired \cup Ignored) PROVE k \in DOMAIN seen /\ tags'[k] = seen[k]
  BY <1>1, <1>2, AddEffect
<1> QED
  BY <1>1, <1>3, <1>4 DEF AloneInv

LEMMA RemoveAlone == ASSUME AloneInv, RemoveTags \/ DeleteTags PROVE AloneInv'
<1> SUFFICES ASSUME alone PROVE AloneInv'
  BY RemoveEffect DEF AloneInv
<1>1. /\ pc = "remove" /\ pc' = "idle" /\ Desired' = Desired /\ Ignored' = Ignored
  BY RemoveEffect, DesiredSame
<1>2. /\ \A k \in DOMAIN Desired \ Ignored : k \in DOMAIN tags /\ tags[k] = Desired[k]
      /\ \A k \in DOMAIN tags \ (DOMAIN Desired \cup Ignored) : k \in DOMAIN seen /\ tags[k] = seen[k]
  BY <1>1 DEF AloneInv
<1>3. ASSUME NEW k \in DOMAIN tags' \ Ignored PROVE k \in DOMAIN Desired /\ tags'[k] = Desired[k]
  BY <1>2, RemoveEffect
<1>4. ASSUME NEW k \in DOMAIN Desired \ Ignored PROVE k \in DOMAIN tags'
  BY <1>2, RemoveEffect
<1>5. DOMAIN tags' \ Ignored = DOMAIN Desired \ Ignored
  BY <1>3, <1>4
<1> QED
  BY <1>1, <1>3, <1>5 DEF AloneInv

LEMMA StatedKept == ASSUME StatedInv, [Next]_vars PROVE StatedInv'
<1>1. CASE UNCHANGED <<config, stated>>
  BY <1>1 DEF StatedInv
<1>2. CASE Edit
  <2>1. PICK l \in StatableLayers : \E t : stated' = [stated EXCEPT ![l] = t]
    BY <1>2 DEF Edit
  <2>0. config' = config
    BY <1>2 DEF Edit
  <2>2. DOMAIN stated' = Layer /\ \A m \in Layer \ {l} : stated'[m] = stated[m]
    BY <2>1 DEF StatedInv
  <2> QED
    BY <2>0, <2>1, <2>2 DEF StatedInv, Layer, StatableLayers
<1> QED
  <2>1. UNCHANGED vars \/ OthersTag \/ List \/ Fails => UNCHANGED <<config, stated>>
    BY DEF vars, OthersTag, List, Fails
  <2>2. AddTags \/ CreateTags \/ RemoveTags \/ DeleteTags => UNCHANGED <<config, stated>>
    BY DEF AddTags, CreateTags, Add, RemoveTags, DeleteTags
  <2> QED
    BY <1>1, <1>2, <2>1, <2>2 DEF Next

LEMMA AloneKept == ASSUME AloneInv, [Next]_vars PROVE AloneInv'
<1>1. CASE UNCHANGED vars
  BY <1>1, DesiredSame DEF vars, AloneInv
<1>2. CASE Edit \/ OthersTag \/ Fails
  <2>1. alone' = FALSE
    BY SMT, <1>2 DEF Edit, OthersTag, Fails
  <2> QED
    BY <2>1 DEF AloneInv
<1>3. CASE List
  BY <1>3 DEF List, AloneInv
<1> QED
  BY <1>1, <1>2, <1>3, AddAlone, RemoveAlone DEF Next

\* The tags that are desired, layer by layer.
LEMMA DesiredLayers ==
  ASSUME StatedInv
  PROVE  /\ DOMAIN Desired = trackingTagKeys \cup DOMAIN config.defaults \cup DOMAIN stated["class"]
                               \cup DOMAIN stated["service"] \cup DOMAIN stated["ingress"]
         /\ \A k \in trackingTagKeys : Desired[k] = "this"
         /\ \A k \in DOMAIN Desired \ trackingTagKeys :
              IF k \in DOMAIN config.defaults THEN Desired[k] = config.defaults[k]
              ELSE IF k \in DOMAIN stated["class"] THEN Desired[k] = stated["class"][k]
              ELSE IF k \in DOMAIN stated["service"] THEN Desired[k] = stated["service"][k]
              ELSE Desired[k] = stated["ingress"][k]
<1> DEFINE built == Built.tags
<1>1. /\ DOMAIN built = DOMAIN stated["class"] \cup DOMAIN stated["service"] \cup DOMAIN stated["ingress"]
      /\ \A k \in DOMAIN built :
           IF k \in DOMAIN stated["class"] THEN built[k] = stated["class"][k]
           ELSE IF k \in DOMAIN stated["service"] THEN built[k] = stated["service"][k]
           ELSE built[k] = stated["ingress"][k]
  <2>1. CASE config.owner = "service"
    <3>1. built = stated["service"]
      BY SMT, <2>1 DEF Built, buildAdditionalResourceTags
    <3>2. DOMAIN stated["class"] = {} /\ DOMAIN stated["ingress"] = {}
      BY <2>1 DEF StatedInv, NoTags
    <3> HIDE DEF built
    <3> QED
      BY <3>1, <3>2
  <2>2. CASE config.owner # "service"
    <3>1. built = MergeStringMap(stated["class"], MergeStringMap(stated["service"], stated["ingress"]))
      BY SMT, <2>2 DEF Built, buildIngressBackendResourceTags
    <3> HIDE DEF built
    <3> DEFINE rest == MergeStringMap(stated["service"], stated["ingress"])
    <3>2. /\ DOMAIN rest = DOMAIN stated["service"] \cup DOMAIN stated["ingress"]
          /\ \A k \in DOMAIN rest : rest[k] = IF k \in DOMAIN stated["service"] THEN stated["service"][k]
                                             ELSE stated["ingress"][k]
      BY DEF MergeStringMap
    <3> HIDE DEF rest
    <3>3. /\ DOMAIN MergeStringMap(stated["class"], rest) = DOMAIN stated["class"] \cup DOMAIN rest
          /\ \A k \in DOMAIN stated["class"] : MergeStringMap(stated["class"], rest)[k] = stated["class"][k]
          /\ \A k \in DOMAIN rest \ DOMAIN stated["class"] : MergeStringMap(stated["class"], rest)[k] = rest[k]
      BY Merged
    <3>4. built = MergeStringMap(stated["class"], rest)
      BY <3>1 DEF rest
    <3> QED
      BY SMT, <3>2, <3>3, <3>4
  <2> QED
    BY <2>1, <2>2
<1>2. Desired = ResourceTags(MergeStringMap(config.defaults, built))
  BY DEF Desired, buildTargetGroupTags
<1> HIDE DEF built
<1>3. /\ DOMAIN MergeStringMap(config.defaults, built) = DOMAIN config.defaults \cup DOMAIN built
      /\ \A k \in DOMAIN config.defaults : MergeStringMap(config.defaults, built)[k] = config.defaults[k]
      /\ \A k \in DOMAIN built \ DOMAIN config.defaults : MergeStringMap(config.defaults, built)[k] = built[k]
  BY Merged
<1>4. /\ DOMAIN Desired = trackingTagKeys \cup DOMAIN MergeStringMap(config.defaults, built)
      /\ \A k \in trackingTagKeys : Desired[k] = "this"
      /\ \A k \in DOMAIN MergeStringMap(config.defaults, built) \ trackingTagKeys :
           Desired[k] = MergeStringMap(config.defaults, built)[k]
  BY <1>2, Tracked
<1> QED
  BY <1>1, <1>3, <1>4

\* After a reconcile whose calls succeeded and that nobody disturbed, the tags of
\* the resource outside the ignored keys are those of the tracking, the flags, the
\* class, the Service and the Ingress, the earlier of these before the later.
THEOREM TagsAsStated == Spec => []TagsReconciled
<1> DEFINE Inv == StatedInv /\ AloneInv
<1>1. Init => Inv
  BY DEF Init, StatedInv, AloneInv, Layer
<1>2. Inv /\ [Next]_vars => Inv'
  BY StatedKept, AloneKept
<1>3. ASSUME Inv PROVE TagsReconciled
  <2> DEFINE layers == <<StackTags, [resource |-> "this"], config.defaults, stated.class,
                         stated.service, stated.ingress>>
  <2> SUFFICES ASSUME Reconciled
               PROVE  /\ DOMAIN tags \ Ignored = (UNION {DOMAIN layers[i] : i \in 1 .. 6}) \ Ignored
                      /\ \A k \in DOMAIN tags \ Ignored :
                           \E i \in 1 .. 6 : /\ k \in DOMAIN layers[i] /\ tags[k] = layers[i][k]
                                             /\ \A j \in 1 .. (i - 1) : k \notin DOMAIN layers[j]
    BY DEF TagsReconciled
  <2>1. /\ DOMAIN tags \ Ignored = DOMAIN Desired \ Ignored
        /\ \A k \in DOMAIN tags \ Ignored : tags[k] = Desired[k]
    BY <1>3 DEF Reconciled, AloneInv
  <2>2. /\ layers[1] = StackTags /\ layers[2] = [resource |-> "this"] /\ layers[3] = config.defaults
        /\ layers[4] = stated["class"] /\ layers[5] = stated["service"] /\ layers[6] = stated["ingress"]
    BY SMT
  <2>3. /\ DOMAIN StackTags = {"cluster", "stack"} /\ StackTags["cluster"] = "this" /\ StackTags["stack"] = "this"
        /\ DOMAIN [resource |-> "this"] = {"resource"} /\ [resource |-> "this"]["resource"] = "this"
    BY SMT DEF StackTags
  <2> HIDE DEF layers
  <2>4. 1 .. 6 = {1, 2, 3, 4, 5, 6}
    BY SMT
  <2>5. trackingTagKeys = DOMAIN layers[1] \cup DOMAIN layers[2]
    BY <2>2, <2>3 DEF trackingTagKeys
  <2>6. /\ DOMAIN Desired = DOMAIN layers[1] \cup DOMAIN layers[2] \cup DOMAIN layers[3]
                              \cup DOMAIN layers[4] \cup DOMAIN layers[5] \cup DOMAIN layers[6]
        /\ \A k \in DOMAIN layers[1] : Desired[k] = layers[1][k]
        /\ \A k \in DOMAIN layers[2] : Desired[k] = layers[2][k]
        /\ \A k \in DOMAIN Desired \ (DOMAIN layers[1] \cup DOMAIN layers[2]) :
             IF k \in DOMAIN layers[3] THEN Desired[k] = layers[3][k]
             ELSE IF k \in DOMAIN layers[4] THEN Desired[k] = layers[4][k]
             ELSE IF k \in DOMAIN layers[5] THEN Desired[k] = layers[5][k]
             ELSE Desired[k] = layers[6][k]
    <3>1. /\ \A k \in trackingTagKeys : Desired[k] = "this"
          /\ \A k \in DOMAIN layers[1] : layers[1][k] = "this"
          /\ \A k \in DOMAIN layers[2] : layers[2][k] = "this"
      BY <1>3, <2>2, <2>3, DesiredLayers
    <3>2. /\ \A k \in DOMAIN layers[1] : Desired[k] = layers[1][k]
          /\ \A k \in DOMAIN layers[2] : Desired[k] = layers[2][k]
      BY <2>5, <3>1
    <3>3. DOMAIN Desired = DOMAIN layers[1] \cup DOMAIN layers[2] \cup DOMAIN layers[3]
                             \cup DOMAIN layers[4] \cup DOMAIN layers[5] \cup DOMAIN layers[6]
      BY <1>3, <2>2, <2>5, DesiredLayers
    <3>4. \A k \in DOMAIN Desired \ (DOMAIN layers[1] \cup DOMAIN layers[2]) :
             IF k \in DOMAIN layers[3] THEN Desired[k] = layers[3][k]
             ELSE IF k \in DOMAIN layers[4] THEN Desired[k] = layers[4][k]
             ELSE IF k \in DOMAIN layers[5] THEN Desired[k] = layers[5][k]
             ELSE Desired[k] = layers[6][k]
      BY <1>3, <2>2, <2>5, DesiredLayers
    <3> QED
      BY <3>2, <3>3, <3>4
  <2> HIDE DEF Inv
  <2>7. UNION {DOMAIN layers[i] : i \in 1 .. 6} = DOMAIN Desired
    BY <2>4, <2>6
  <2>8. ASSUME NEW k \in DOMAIN tags \ Ignored
        PROVE  \E i \in 1 .. 6 : /\ k \in DOMAIN layers[i] /\ tags[k] = layers[i][k]
                                 /\ \A j \in 1 .. (i - 1) : k \notin DOMAIN layers[j]
    <3>0. k \in DOMAIN Desired /\ tags[k] = Desired[k]
      BY <2>1
    <3>1. PICK i \in 1 .. 6 : k \in DOMAIN layers[i] /\ \A j \in 1 .. (i - 1) : k \notin DOMAIN layers[j]
      BY SMT, <2>6, <3>0
    <3>2. i \in {1, 2, 3, 4, 5, 6} /\ \A j \in 1 .. 6 : j < i => k \notin DOMAIN layers[j]
      BY SMT, <3>1
    <3>3. Desired[k] = layers[i][k]
      BY SMT, <2>6, <3>0, <3>1, <3>2
    <3> QED
      BY <3>0, <3>1, <3>3
  <2> QED
    BY <2>1, <2>7, <2>8
<1> HIDE DEF Inv
<1> QED
  BY <1>1, <1>2, <1>3, PTL DEF Spec

\* After such a reconcile the resource has every tag of the tracking and every
\* default tag but one with a legacy key: the validation of the flags keeps them
\* apart from what is ignored.
THEOREM ConfiguredTags == Spec => []ConfiguredTagsApplied
<1> DEFINE Inv == Valid /\ StatedInv /\ AloneInv
<1>1. Init => Inv
  BY DEF Init, Valid, StatedInv, AloneInv, Layer
<1>2. ASSUME Inv, [Next]_vars PROVE Inv'
  <2>1. Valid'
    BY <1>2, ConfigKept DEF Valid
  <2> QED
    BY <1>2, <2>1, StatedKept, AloneKept
<1>3. ASSUME Inv PROVE ConfiguredTagsApplied
  <2> SUFFICES ASSUME Reconciled PROVE ConfiguredTagsApplied
    BY DEF ConfiguredTagsApplied
  <2>1. /\ DOMAIN tags \ Ignored = DOMAIN Desired \ Ignored
        /\ \A k \in DOMAIN tags \ Ignored : tags[k] = Desired[k]
    BY <1>3 DEF Reconciled, AloneInv
  <2>2. trackingTagKeys \cap Ignored = {}
    BY <1>3, Apart
  <2>3. trackingTagKeys \subseteq DOMAIN tags /\ \A k \in trackingTagKeys : tags[k] = "this"
    BY <1>3, <2>1, <2>2, DesiredLayers
  <2> DEFINE own == MergeStringMap(StackTags, [resource |-> "this"])
  <2>4. own = [k \in trackingTagKeys |-> "this"]
    <3>1. /\ DOMAIN StackTags = {"cluster", "stack"} /\ StackTags["cluster"] = "this" /\ StackTags["stack"] = "this"
          /\ DOMAIN [resource |-> "this"] = {"resource"} /\ [resource |-> "this"]["resource"] = "this"
      BY SMT DEF StackTags
    <3>2. DOMAIN StackTags \cup DOMAIN [resource |-> "this"] = trackingTagKeys
      BY <3>1 DEF trackingTagKeys
    <3> QED
      BY SMT, <3>1, <3>2 DEF MergeStringMap, trackingTagKeys
  <2>5. Restricted(tags, trackingTagKeys) = [k \in trackingTagKeys |-> "this"]
    <3>1. DOMAIN tags \cap trackingTagKeys = trackingTagKeys
      BY <2>3
    <3> QED
      BY SMT, <2>3, <3>1 DEF Restricted
  <2>6. ASSUME NEW k \in DOMAIN config.defaults \ LegacyTagKeys
        PROVE  k \in DOMAIN tags /\ tags[k] = config.defaults[k]
    <3>1. k \notin trackingTagKeys /\ k \notin Ignored
      BY <1>3 DEF Valid, Validate, validateDefaultTagsCollisionWithTrackingTags,
                  validateExternalManagedTagsCollisionWithDefaultTags, Ignored
    <3> QED
      BY <1>3, <2>1, <3>1, DesiredLayers
  <2> QED
    BY <2>4, <2>5, <2>6 DEF ConfiguredTagsApplied
<1> HIDE DEF Inv
<1> QED
  BY <1>1, <1>2, <1>3, PTL DEF Spec

=============================================================================
