------------------------------- MODULE AddOns -------------------------------
(***************************************************************************)
(* The web ACLs and the Shield protection of the application load balancer *)
(* of an IngressGroup: what the members' annotations ask for               *)
(* (pkg/ingress/model_build_load_balancer_addons.go), and how wafv2,       *)
(* wafregional and shield of pkg/deploy bring it about, reading through    *)
(* caches, while others change the add-ons and the load balancer is        *)
(* replaced.                                                               *)
(*                                                                         *)
(*   notes[m]  the annotations of member m: wafv2-acl-arn (v2),            *)
(*             waf-acl-id (waf), the older web-acl-id (web), each Unset,   *)
(*             NoACL for the empty text, or an ACL; and shield             *)
(*   arn       the load balancer                                           *)
(*   aws       what it has: acl[k] for either kind k of WAF, prot a set of *)
(*             at most one [id, managed]; and the Shield subscription      *)
(*   cache     per kind, for the protection and for the subscription: a    *)
(*             set of at most one [arn, value, left]                       *)
(*   quiet     ticks since others changed something                        *)
(*   done      the last deployment succeeded                               *)
(***************************************************************************)
EXTENDS Naturals

CONSTANTS Member, ACL, NoACL, Unset, TTL, SubscriptionTTL, MaxChanges

VARIABLES notes, arn, aws, cache, nextID, quiet, changes, done

vars == <<notes, arn, aws, cache, nextID, quiet, changes, done>>

Kind == {"v2", "regional"}
Bare == [k \in Kind |-> NoACL]

Init ==
  /\ notes = [m \in Member |-> [v2 |-> Unset, waf |-> Unset, web |-> Unset, shield |-> Unset]]
  /\ arn = 1 /\ aws = [acl |-> Bare, prot |-> {}, subscribed |-> TRUE] /\ nextID = 1
  /\ cache = [v2 |-> {}, regional |-> {}, prot |-> {}, subscription |-> {}]
  /\ quiet = SubscriptionTTL /\ changes = 0 /\ done = TRUE

Changing == changes < MaxChanges /\ changes' = changes + 1 /\ done' = FALSE

-----------------------------------------------------------------------------

Edit(m) ==
  /\ Changing
  /\ \/ \E n \in {"v2", "waf", "web"}, v \in ACL \cup {NoACL, Unset} :
          notes[m][n] # v /\ notes' = [notes EXCEPT ![m][n] = v]
     \/ \E v \in {"true", "false", "bad", Unset} :
          notes[m].shield # v /\ notes' = [notes EXCEPT ![m].shield = v]
  /\ UNCHANGED <<arn, aws, cache, nextID, quiet>>

\* Someone else changes what the load balancer has, or the subscription.
Outside ==
  /\ Changing
  /\ quiet' = 0
  /\ \/ /\ \E k \in Kind, a \in ACL \cup {NoACL} :
             aws.acl[k] # a /\ aws' = [aws EXCEPT !.acl[k] = a]
        /\ UNCHANGED nextID
     \/ /\ aws' = [aws EXCEPT !.prot = IF @ = {} THEN {[id |-> nextID, managed |-> FALSE]} ELSE {}]
        /\ nextID' = nextID + 1
     \/ /\ aws' = [aws EXCEPT !.subscribed = ~@]
        /\ UNCHANGED nextID
  /\ UNCHANGED <<notes, arn, cache>>

\* The deployer replaces the load balancer: another ARN, without add-ons.
ReplaceLoadBalancer ==
  /\ Changing
  /\ arn' = arn + 1
  /\ aws' = [aws EXCEPT !.acl = Bare, !.prot = {}]
  /\ UNCHANGED <<notes, cache, nextID, quiet>>

Tick ==
  /\ quiet' = IF quiet < SubscriptionTTL THEN quiet + 1 ELSE quiet
  /\ cache' = [c \in DOMAIN cache |->
                 {[e EXCEPT !.left = @ - 1] : e \in {f \in cache[c] : f.left > 1}}]
  /\ UNCHANGED <<notes, arn, aws, nextID, changes, done>>

-----------------------------------------------------------------------------
(* What the members ask for, as the sets of what their annotations state:  *)
(* nothing, one thing, or a conflict.                                      *)

buildWAFv2WebACLAssociation == {notes[m].v2 : m \in Member} \ {Unset}

buildWAFRegionalWebACLAssociation ==
  {IF notes[m].waf # Unset THEN notes[m].waf ELSE notes[m].web : m \in Member} \ {Unset}

buildShieldProtection == {notes[m].shield : m \in Member} \ {Unset}

Explicit == [v2 |-> buildWAFv2WebACLAssociation, regional |-> buildWAFRegionalWebACLAssociation]

Agreed(S) == \A a, b \in S : a = b

\* The model is built unless an annotation cannot be read or two disagree.
buildLoadBalancerAddOns ==
  /\ \A k \in Kind : Agreed(Explicit[k])
  /\ Agreed(buildShieldProtection) /\ "bad" \notin buildShieldProtection

desiredWebACL(k) == IF Explicit[k] = {} THEN NoACL ELSE CHOOSE a \in Explicit[k] : TRUE
enableProtection == "true" \in buildShieldProtection

-----------------------------------------------------------------------------
(* The managers: what they know is the entry of the load balancer, or else *)
(* what the service says.                                                  *)

Entry(v) == {[arn |-> arn, value |-> v, left |-> TTL]}

\* Mutant: the cache does not tell load balancers apart.
GetAssociatedWebACLOfAny(k) == IF cache[k] # {} THEN cache[k] ELSE Entry(aws.acl[k])

GetAssociatedWebACL(k) ==
  LET hit == {e \in cache[k] : e.arn = arn}
  IN  IF hit # {} THEN hit ELSE Entry(aws.acl[k])

wafregionalGetAssociatedWebACL == GetAssociatedWebACL("regional")

GetProtection ==
  LET hit == {e \in cache.prot : e.arn = arn}
  IN  IF hit # {} THEN hit ELSE Entry(aws.prot)

GetSubscription ==
  IF cache.subscription # {} THEN cache.subscription
  ELSE {[arn |-> 0, value |-> aws.subscribed, left |-> SubscriptionTTL]}

IsSubscribed == \E e \in GetSubscription : e.value

\* The association that a synthesizer leaves: [acl, cached].
AssociateWebACL(k) == [acl |-> desiredWebACL(k), cached |-> Entry(desiredWebACL(k))]

\* A call is made where the two differ.
synthesizeWebACLAssociationsOnLB(k) ==
  IF \E e \in GetAssociatedWebACL(k) : e.value = desiredWebACL(k)
  THEN [acl |-> aws.acl[k], cached |-> GetAssociatedWebACL(k)]
  ELSE AssociateWebACL(k)

wafv2Synthesize == synthesizeWebACLAssociationsOnLB("v2")
wafregionalSynthesize == synthesizeWebACLAssociationsOnLB("regional")

\* Mutant: every protection passes for the controller's.
IsManagedAny(known) == known

\* Told by its name.
IsManaged(known) == {p \in known : p.managed}

CreateProtection == {[id |-> nextID, managed |-> TRUE]}
DeleteProtection(mine) == aws.prot \ mine

\* The protection that the synthesizer leaves: [prot, cached, failed].  One
\* is deleted by the ID that was read, and one the controller did not make is
\* left alone.  The service refuses to create a second one, and to delete one
\* that is not there.
synthesizeProtectionsOnLB ==
  LET known == UNION {e.value : e \in GetProtection}
      mine == IsManaged(known)
      Left(now) == [prot |-> now, cached |-> Entry(now), failed |-> FALSE]
      Refused(f) == [prot |-> aws.prot, cached |-> GetProtection, failed |-> f]
  IN  CASE enableProtection /\ known = {} ->
             IF aws.prot = {} THEN Left(CreateProtection) ELSE Refused(TRUE)
        [] ~enableProtection /\ mine # {} ->
             IF mine \subseteq aws.prot
             THEN [prot |-> DeleteProtection(mine), cached |-> Entry({}), failed |-> FALSE]
             ELSE Refused(TRUE)
        [] OTHER -> Refused(FALSE)

-----------------------------------------------------------------------------

ACLsNow == [v2 |-> wafv2Synthesize.acl, regional |-> wafregionalSynthesize.acl]

\* The add-ons are synthesized one after the other.  Without a subscription
\* the protection is left alone.
Synthesize ==
  LET shield == synthesizeProtectionsOnLB
  IN  /\ buildLoadBalancerAddOns
      /\ \/ /\ IsSubscribed
            /\ aws' = [aws EXCEPT !.acl = ACLsNow, !.prot = shield.prot]
            /\ cache' = [v2 |-> wafv2Synthesize.cached, regional |-> wafregionalSynthesize.cached,
                         prot |-> shield.cached, subscription |-> GetSubscription]
            /\ nextID' = IF \E p \in shield.prot : p.id = nextID THEN nextID + 1 ELSE nextID
            /\ done' = ~shield.failed
         \/ /\ ~IsSubscribed
            /\ aws' = [aws EXCEPT !.acl = ACLsNow]
            /\ cache' = [v2 |-> wafv2Synthesize.cached, regional |-> wafregionalSynthesize.cached,
                         prot |-> cache.prot, subscription |-> GetSubscription]
            /\ UNCHANGED nextID
            /\ done' = TRUE
      /\ UNCHANGED <<notes, arn, quiet, changes>>

\* The subscription cannot be told: that is logged, and the deployment
\* succeeds without the protection.
SynthesizeWithoutShield ==
  /\ buildLoadBalancerAddOns
  /\ cache.subscription = {}
  /\ aws' = [aws EXCEPT !.acl = ACLsNow]
  /\ cache' = [cache EXCEPT !.v2 = wafv2Synthesize.cached, !.regional = wafregionalSynthesize.cached]
  /\ done' = TRUE
  /\ UNCHANGED <<notes, arn, nextID, quiet, changes>>

\* What a synthesizer leaves in its cache when the n-th of them fails: those
\* before it are done, and its own lookup may have been.
Cached(i, n, looked, synthesized, read, old) ==
  IF i < n THEN synthesized ELSE IF i = n /\ looked THEN read ELSE old

\* The model is not built, or a request of the n-th synthesizer fails; the
\* subscription is asked for before all of them.
SynthesizeFails ==
  /\ done' = FALSE
  /\ \/ ~buildLoadBalancerAddOns /\ UNCHANGED <<aws, cache>>
     \/ /\ buildLoadBalancerAddOns
        /\ \E n \in 1 .. 3, looked \in BOOLEAN, sub \in {cache.subscription, GetSubscription} :
             /\ n = 3 => sub = GetSubscription /\ IsSubscribed
             /\ cache' =
                  [v2 |-> Cached(1, n, looked, wafv2Synthesize.cached, GetAssociatedWebACL("v2"),
                                 cache.v2),
                   regional |-> Cached(2, n, looked, wafregionalSynthesize.cached,
                                       wafregionalGetAssociatedWebACL, cache.regional),
                   prot |-> Cached(3, n, looked, cache.prot, GetProtection, cache.prot),
                   subscription |-> sub]
             /\ aws' = [aws EXCEPT !.acl = [v2 |-> IF n > 1 THEN ACLsNow.v2 ELSE @.v2,
                                            regional |-> IF n > 2 THEN ACLsNow.regional ELSE @.regional]]
  /\ UNCHANGED <<notes, arn, nextID, quiet, changes>>

Next ==
  \/ \E m \in Member : Edit(m)
  \/ Outside \/ ReplaceLoadBalancer \/ Tick
  \/ Synthesize \/ SynthesizeWithoutShield \/ SynthesizeFails

Spec == Init /\ [][Next]_vars

-----------------------------------------------------------------------------

States(m, k) ==
  IF k = "v2" THEN notes[m].v2 ELSE IF notes[m].waf # Unset THEN notes[m].waf ELSE notes[m].web

\* Once the add-ons were left alone by others for the TTL of the caches, a
\* deployment that succeeds leaves the load balancer with the web ACLs and
\* the protection that every member states that states any, and without them
\* if none does, a replaced load balancer included: no cache speaks for
\* another ARN (GetAssociatedWebACL, GetProtection), and no member is passed
\* over (buildLoadBalancerAddOns).  For the protection the subscription's
\* longer TTL counts too.
AddOnsAfterTTL ==
  /\ done' /\ quiet >= TTL /\ (Synthesize \/ SynthesizeWithoutShield) =>
       \A k \in Kind :
         /\ \A m \in Member : States(m, k) \in {Unset, aws'.acl[k]}
         /\ (\A m \in Member : States(m, k) = Unset) => aws'.acl[k] = NoACL
  /\ done' /\ quiet = SubscriptionTTL /\ aws.subscribed /\ Synthesize =>
       IF \E m \in Member : notes[m].shield = "true"
       THEN aws'.prot # {} /\ \A m \in Member : notes[m].shield # "false"
       ELSE \A p \in aws'.prot : ~p.managed

\* A protection that someone else made is never deleted by the controller,
\* not even when a cache still tells of a managed one before it
\* (synthesizeProtectionsOnLB, DeleteProtection).
UnmanagedKept ==
  \/ \A p \in aws.prot : p.managed \/ p \in aws'.prot
  \/ Outside \/ ReplaceLoadBalancer
=============================================================================
