----------------------------- MODULE AddOnsProofs -----------------------------
(***************************************************************************)
(* AddOnsAfterTTL and UnmanagedKept of AddOns, for any members, web ACLs   *)
(* and lifetimes of the caches.  The inductive invariant says how old a    *)
(* wrong entry is: one that differs from what the service has was read     *)
(* before the last change by others, so that its age and the time it has   *)
(* left bound the quiet time, and it expires before that is the lifetime.  *)
(***************************************************************************)
EXTENDS AddOns, TLAPS

Lifetimes ==
  TTL \in Nat \ {0} /\ SubscriptionTTL \in Nat \ {0} /\ TTL <= SubscriptionTTL

\* Unset is none of the texts that an annotation may have.
Texts == Unset \notin {"true", "false", "bad"}

\* An entry has three fields, the ARN of a load balancer there is or was, and
\* time left.
EntryOK(e, lifetime) ==
  /\ DOMAIN e = {"arn", "value", "left"}
  /\ e.arn \in Nat /\ e.arn <= arn
  /\ e.left \in Nat /\ 1 <= e.left /\ e.left <= lifetime

\* An entry that is wrong is older than the quiet time.
ACLEntries(k) ==
  \A e \in cache[k] :
    EntryOK(e, TTL) /\ (e.arn = arn /\ e.value # aws.acl[k] => quiet + e.left <= TTL)

ProtEntries ==
  \A e \in cache.prot :
    EntryOK(e, TTL) /\ (e.arn = arn /\ e.value # aws.prot => quiet + e.left <= TTL)

SubscriptionEntries ==
  \A e \in cache.subscription :
    /\ EntryOK(e, SubscriptionTTL)
    /\ e.value # aws.subscribed => quiet + e.left <= SubscriptionTTL

Shape ==
  /\ arn \in Nat /\ quiet \in Nat /\ quiet <= SubscriptionTTL
  /\ DOMAIN cache = {"v2", "regional", "prot", "subscription"}
  /\ DOMAIN aws = {"acl", "prot", "subscribed"}
  /\ DOMAIN aws.acl = Kind
  /\ \A p, q \in aws.prot : p = q

IInv == Shape /\ ACLEntries("v2") /\ ACLEntries("regional") /\ ProtEntries /\ SubscriptionEntries

-------------------------------------------------------------------------------

\* What a lookup answers is as good as what the cache has.
LEMMA LookupOK ==
  ASSUME Lifetimes, IInv
  PROVE  /\ \A k \in Kind : \A e \in GetAssociatedWebACL(k) :
              /\ EntryOK(e, TTL) /\ e.arn = arn
              /\ e.value # aws.acl[k] => quiet + e.left <= TTL
         /\ \A e \in GetProtection :
              /\ EntryOK(e, TTL) /\ e.arn = arn
              /\ e.value # aws.prot => quiet + e.left <= TTL
         /\ \A e \in GetSubscription :
              /\ EntryOK(e, SubscriptionTTL)
              /\ e.value # aws.subscribed => quiet + e.left <= SubscriptionTTL
         /\ GetProtection # {} /\ GetSubscription # {}
<1>1. ASSUME NEW v PROVE \A e \in Entry(v) : EntryOK(e, TTL) /\ e.arn = arn /\ e.value = v
  BY DEF Entry, EntryOK, IInv, Shape, Lifetimes
<1>2. ASSUME NEW k \in Kind
      PROVE  \A e \in GetAssociatedWebACL(k) :
               /\ EntryOK(e, TTL) /\ e.arn = arn
               /\ e.value # aws.acl[k] => quiet + e.left <= TTL
  <2>1. ACLEntries(k)
    BY DEF IInv, Kind
  <2> QED
    BY <1>1, <2>1 DEF GetAssociatedWebACL, ACLEntries
<1>3. \A e \in GetProtection :
        /\ EntryOK(e, TTL) /\ e.arn = arn
        /\ e.value # aws.prot => quiet + e.left <= TTL
  BY <1>1 DEF GetProtection, ProtEntries, IInv
<1>4. \A e \in GetSubscription :
        /\ EntryOK(e, SubscriptionTTL)
        /\ e.value # aws.subscribed => quiet + e.left <= SubscriptionTTL
  BY DEF GetSubscription, SubscriptionEntries, IInv, EntryOK, Shape, Lifetimes
<1>5. GetProtection # {} /\ GetSubscription # {}
  BY ZenonT(60) DEF GetProtection, GetSubscription, Entry
<1> QED
  BY <1>2, <1>3, <1>4, <1>5

\* What a synthesizer leaves in the cache agrees with what it leaves in the
\* service, or is what the lookup answered and the service is as it was.
LEMMA SynthesizedOK ==
  ASSUME Lifetimes, IInv, NEW k \in Kind
  PROVE  LET s == synthesizeWebACLAssociationsOnLB(k)
         IN  \A e \in s.cached :
               /\ EntryOK(e, TTL) /\ e.arn = arn
               /\ e.value # s.acl => quiet + e.left <= TTL
<1> DEFINE s == synthesizeWebACLAssociationsOnLB(k)
<1>1. CASE \E e \in GetAssociatedWebACL(k) : e.value = desiredWebACL(k)
  <2>1. s.acl = aws.acl[k] /\ s.cached = GetAssociatedWebACL(k)
    BY <1>1 DEF synthesizeWebACLAssociationsOnLB
  <2> QED
    BY <2>1, LookupOK
<1>2. CASE ~\E e \in GetAssociatedWebACL(k) : e.value = desiredWebACL(k)
  <2>1. s.acl = desiredWebACL(k) /\ s.cached = Entry(desiredWebACL(k))
    BY <1>2 DEF synthesizeWebACLAssociationsOnLB, AssociateWebACL
  <2> QED
    BY <2>1 DEF Entry, EntryOK, IInv, Shape, Lifetimes
<1> QED
  BY <1>1, <1>2

\* The same for the protection, of which there is at most one.
LEMMA ProtectionOK ==
  ASSUME Lifetimes, IInv
  PROVE  LET s == synthesizeProtectionsOnLB
         IN  /\ \A e \in s.cached :
                  /\ EntryOK(e, TTL) /\ e.arn = arn
                  /\ e.value # s.prot => quiet + e.left <= TTL
             /\ \A p, q \in s.prot : p = q
<1> DEFINE s == synthesizeProtectionsOnLB
           known == UNION {e.value : e \in GetProtection}
           mine == IsManaged(known)
<1>1. CASE enableProtection /\ known = {} /\ aws.prot = {}
  <2>1. s.prot = CreateProtection /\ s.cached = Entry(CreateProtection)
    BY <1>1 DEF synthesizeProtectionsOnLB
  <2> QED
    BY <2>1 DEF Entry, EntryOK, IInv, Shape, Lifetimes, CreateProtection
<1>2. CASE ~enableProtection /\ mine # {} /\ mine \subseteq aws.prot
  <2>1. s.prot = aws.prot \ mine /\ s.cached = Entry({})
    BY <1>2 DEF synthesizeProtectionsOnLB, DeleteProtection
  <2>2. aws.prot \ mine = {}
    BY <1>2 DEF IInv, Shape
  <2> QED
    BY <2>1, <2>2 DEF Entry, EntryOK, IInv, Shape, Lifetimes
<1>3. CASE /\ ~(enableProtection /\ known = {} /\ aws.prot = {})
           /\ ~(~enableProtection /\ mine # {} /\ mine \subseteq aws.prot)
  <2>1. s.prot = aws.prot /\ s.cached = GetProtection
    BY <1>3 DEF synthesizeProtectionsOnLB
  <2> QED
    BY <2>1, LookupOK DEF IInv, Shape
<1> QED
  BY <1>1, <1>2, <1>3

-------------------------------------------------------------------------------

LEMMA InitInv == Lifetimes /\ Init => IInv
BY DEF Lifetimes, Init, IInv, Shape, ACLEntries, ProtEntries, SubscriptionEntries, Bare, Kind

\* A change by others makes every entry wrong at worst, and none is older
\* than it.
LEMMA OutsideStep == Lifetimes /\ IInv /\ Outside => IInv'
<1> SUFFICES ASSUME Lifetimes, IInv, Outside PROVE IInv'
  OBVIOUS
<1>1. UNCHANGED <<arn, cache>> /\ quiet' = 0
  BY DEF Outside
<1>2. Shape'
  <2>1. PICK k \in Kind, a \in ACL \cup {NoACL} :
           \/ aws' = [aws EXCEPT !.acl[k] = a]
           \/ aws' = [aws EXCEPT !.prot = IF @ = {} THEN {[id |-> nextID, managed |-> FALSE]} ELSE {}]
           \/ aws' = [aws EXCEPT !.subscribed = ~@]
    BY DEF Outside, Kind
  <2>2. DOMAIN aws' = DOMAIN aws /\ DOMAIN aws'.acl = DOMAIN aws.acl
    BY <2>1 DEF IInv, Shape
  <2>3. aws'.prot \in {aws.prot, {}, {[id |-> nextID, managed |-> FALSE]}}
    <3>1. CASE aws' = [aws EXCEPT !.acl[k] = a]
      BY <3>1 DEF IInv, Shape
    <3>2. CASE aws' = [aws EXCEPT !.prot = IF @ = {} THEN {[id |-> nextID, managed |-> FALSE]} ELSE {}]
      BY <3>2 DEF IInv, Shape
    <3>3. CASE aws' = [aws EXCEPT !.subscribed = ~@]
      BY <3>3 DEF IInv, Shape
    <3> QED
      BY <2>1, <3>1, <3>2, <3>3
  <2>4. \A p, q \in aws'.prot : p = q
    BY ZenonT(60), <2>3 DEF IInv, Shape
  <2> QED
    BY <1>1, <2>2, <2>4 DEF IInv, Shape, Lifetimes
<1>3. \A e, l : EntryOK(e, l)' <=> EntryOK(e, l)
  BY <1>1 DEF EntryOK
<1> QED
  BY <1>1, <1>2, <1>3 DEF IInv, ACLEntries, ProtEntries, SubscriptionEntries, EntryOK, Lifetimes

\* No entry speaks for the new load balancer.
LEMMA ReplaceStep == Lifetimes /\ IInv /\ ReplaceLoadBalancer => IInv'
<1> SUFFICES ASSUME Lifetimes, IInv, ReplaceLoadBalancer PROVE IInv'
  OBVIOUS
<1>1. arn' = arn + 1 /\ UNCHANGED <<cache, quiet>> /\ aws'.subscribed = aws.subscribed
  BY DEF ReplaceLoadBalancer, IInv, Shape
<1>2. Shape'
  BY <1>1 DEF ReplaceLoadBalancer, IInv, Shape, Bare, Kind
<1>3. \A e, l : EntryOK(e, l) => EntryOK(e, l)' /\ e.arn # arn'
  BY <1>1 DEF EntryOK, IInv, Shape
<1> QED
  BY <1>1, <1>2, <1>3 DEF IInv, ACLEntries, ProtEntries, SubscriptionEntries

LEMMA TickStep == Lifetimes /\ IInv /\ Tick => IInv'
<1> SUFFICES ASSUME Lifetimes, IInv, Tick PROVE IInv'
  OBVIOUS
<1>1. UNCHANGED <<arn, aws>> /\ quiet' \in Nat /\ quiet' <= quiet + 1 /\ quiet' <= SubscriptionTTL
  BY DEF Tick, IInv, Shape, Lifetimes
<1>2. ASSUME NEW c \in {"v2", "regional", "prot", "subscription"}
      PROVE  cache'[c] = {[e EXCEPT !.left = @ - 1] : e \in {f \in cache[c] : f.left > 1}}
  BY DEF Tick, IInv, Shape
<1>3. Shape'
  BY <1>1 DEF Tick, IInv, Shape
<1>4. ASSUME NEW e, NEW l \in Nat, EntryOK(e, l), e.left > 1, NEW f, f = [e EXCEPT !.left = @ - 1]
      PROVE  /\ EntryOK(f, l)' /\ f.arn = e.arn /\ f.value = e.value
             /\ \A t \in Nat : quiet + e.left <= t => quiet' + f.left <= t
  <2>1. f.arn = e.arn /\ f.value = e.value /\ f.left = e.left - 1 /\ DOMAIN f = DOMAIN e
    BY <1>4 DEF EntryOK
  <2>2. e.left \in Nat /\ quiet \in Nat
    BY <1>4 DEF EntryOK, IInv, Shape
  <2>3. EntryOK(f, l)'
    <3>1. f.left \in Nat /\ 1 <= f.left /\ f.left <= e.left
      BY <1>4, <2>1, <2>2
    <3> QED
      BY <1>1, <1>4, <2>1, <2>2, <3>1 DEF EntryOK
  <2> QED
    BY <1>1, <2>1, <2>2, <2>3
<1>5. ASSUME NEW k \in Kind, ACLEntries(k) PROVE ACLEntries(k)'
  <2> SUFFICES ASSUME NEW f \in cache'[k]
               PROVE  /\ EntryOK(f, TTL)'
                      /\ f.arn = arn' /\ f.value # aws'.acl[k] => quiet' + f.left <= TTL
    BY DEF ACLEntries
  <2>1. PICK e \in cache[k] : e.left > 1 /\ f = [e EXCEPT !.left = @ - 1]
    BY <1>2 DEF Kind
  <2> QED
    BY ZenonT(60), <1>1, <1>4, <1>5, <2>1 DEF ACLEntries, Lifetimes
<1>6. ProtEntries'
  <2> SUFFICES ASSUME NEW f \in cache'.prot
               PROVE  /\ EntryOK(f, TTL)'
                      /\ f.arn = arn' /\ f.value # aws'.prot => quiet' + f.left <= TTL
    BY DEF ProtEntries
  <2>1. PICK e \in cache.prot : e.left > 1 /\ f = [e EXCEPT !.left = @ - 1]
    BY <1>2
  <2> QED
    BY ZenonT(60), <1>1, <1>4, <2>1 DEF ProtEntries, IInv, Lifetimes
<1>7. SubscriptionEntries'
  <2> SUFFICES ASSUME NEW f \in cache'.subscription
               PROVE  /\ EntryOK(f, SubscriptionTTL)'
                      /\ f.value # aws'.subscribed => quiet' + f.left <= SubscriptionTTL
    BY DEF SubscriptionEntries
  <2>1. PICK e \in cache.subscription : e.left > 1 /\ f = [e EXCEPT !.left = @ - 1]
    BY <1>2
  <2> QED
    BY ZenonT(60), <1>1, <1>4, <2>1 DEF SubscriptionEntries, IInv, Lifetimes
<1> QED
  BY <1>3, <1>5, <1>6, <1>7 DEF IInv, Kind

LEMMA EditStep == ASSUME NEW m \in Member PROVE IInv /\ Edit(m) => IInv'
BY DEF Edit, IInv, Shape, ACLEntries, ProtEntries, SubscriptionEntries, EntryOK

\* A synthesizer that did not come to its call leaves the cache or what it
\* looked up, and one that did leaves what it synthesized.
LEMMA ACLKept ==
  ASSUME Lifetimes, IInv, NEW k \in Kind, UNCHANGED <<arn, quiet>>,
         LET s == synthesizeWebACLAssociationsOnLB(k)
         IN  \/ cache'[k] \in {cache[k], GetAssociatedWebACL(k)} /\ aws'.acl[k] = aws.acl[k]
             \/ cache'[k] = s.cached /\ aws'.acl[k] = s.acl
  PROVE  ACLEntries(k)'
<1> DEFINE s == synthesizeWebACLAssociationsOnLB(k)
<1>1. \A e, l : EntryOK(e, l)' <=> EntryOK(e, l)
  BY DEF EntryOK
<1>2. ACLEntries(k)
  BY DEF IInv, Kind
<1>3. CASE cache'[k] = cache[k] /\ aws'.acl[k] = aws.acl[k]
  BY <1>1, <1>2, <1>3 DEF ACLEntries
<1>4. CASE cache'[k] = GetAssociatedWebACL(k) /\ aws'.acl[k] = aws.acl[k]
  BY <1>1, <1>4, LookupOK DEF ACLEntries
<1>5. CASE cache'[k] = s.cached /\ aws'.acl[k] = s.acl
  BY <1>1, <1>5, SynthesizedOK DEF ACLEntries
<1> QED
  BY <1>3, <1>4, <1>5

LEMMA ProtKept ==
  ASSUME Lifetimes, IInv, UNCHANGED <<arn, quiet>>,
         LET s == synthesizeProtectionsOnLB
         IN  \/ cache'.prot \in {cache.prot, GetProtection} /\ aws'.prot = aws.prot
             \/ cache'.prot = s.cached /\ aws'.prot = s.prot
  PROVE  ProtEntries' /\ \A p, q \in aws'.prot : p = q
<1> DEFINE s == synthesizeProtectionsOnLB
<1>1. \A e, l : EntryOK(e, l)' <=> EntryOK(e, l)
  BY DEF EntryOK
<1>2. CASE cache'.prot = cache.prot /\ aws'.prot = aws.prot
  BY <1>1, <1>2 DEF ProtEntries, IInv, Shape
<1>3. CASE cache'.prot = GetProtection /\ aws'.prot = aws.prot
  BY <1>1, <1>3, LookupOK DEF ProtEntries, IInv, Shape
<1>4. CASE cache'.prot = s.cached /\ aws'.prot = s.prot
  BY <1>1, <1>4, ProtectionOK DEF ProtEntries
<1> QED
  BY <1>2, <1>3, <1>4

LEMMA SubscriptionKept ==
  ASSUME Lifetimes, IInv, UNCHANGED <<arn, quiet>>, aws'.subscribed = aws.subscribed,
         cache'.subscription \in {cache.subscription, GetSubscription}
  PROVE  SubscriptionEntries'
<1>1. \A e, l : EntryOK(e, l)' <=> EntryOK(e, l)
  BY DEF EntryOK
<1>2. CASE cache'.subscription = cache.subscription
  BY <1>1, <1>2 DEF SubscriptionEntries, IInv
<1>3. CASE cache'.subscription = GetSubscription
  BY <1>1, <1>3, LookupOK DEF SubscriptionEntries
<1> QED
  BY <1>2, <1>3

\* What the parts of a deployment leave is what the invariant asks of all.
LEMMA DeployedOK ==
  ASSUME Lifetimes, IInv, UNCHANGED <<arn, quiet>>,
         ACLEntries("v2")', ACLEntries("regional")', ProtEntries', SubscriptionEntries',
         \A p, q \in aws'.prot : p = q,
         DOMAIN cache' = DOMAIN cache, DOMAIN aws' = DOMAIN aws, DOMAIN aws'.acl = Kind
  PROVE  IInv'
BY DEF IInv, Shape

LEMMA SynthesizeStep == Lifetimes /\ IInv /\ Synthesize => IInv'
<1> SUFFICES ASSUME Lifetimes, IInv, Synthesize PROVE IInv'
  OBVIOUS
<1>1. UNCHANGED <<arn, quiet>>
  BY DEF Synthesize
<1>2. /\ DOMAIN aws' = DOMAIN aws /\ aws'.acl = ACLsNow
      /\ aws'.subscribed = aws.subscribed
      /\ aws'.prot \in {aws.prot, synthesizeProtectionsOnLB.prot}
  BY ZenonT(60) DEF Synthesize, IInv, Shape
<1>3. /\ cache'.v2 = wafv2Synthesize.cached /\ cache'.regional = wafregionalSynthesize.cached
      /\ cache'.subscription = GetSubscription /\ DOMAIN cache' = DOMAIN cache
  BY DEF Synthesize, IInv, Shape
<1>4. \/ cache'.prot = cache.prot /\ aws'.prot = aws.prot
      \/ cache'.prot = synthesizeProtectionsOnLB.cached /\ aws'.prot = synthesizeProtectionsOnLB.prot
  <2> DEFINE shield == synthesizeProtectionsOnLB
  <2>1. \/ /\ cache'.prot = shield.cached /\ aws' = [aws EXCEPT !.acl = ACLsNow, !.prot = shield.prot]
        \/ /\ cache'.prot = cache.prot /\ aws' = [aws EXCEPT !.acl = ACLsNow]
    BY DEF Synthesize
  <2> HIDE DEF shield
  <2>2. CASE cache'.prot = shield.cached /\ aws' = [aws EXCEPT !.acl = ACLsNow, !.prot = shield.prot]
    BY <2>2 DEF IInv, Shape, shield
  <2>3. CASE cache'.prot = cache.prot /\ aws' = [aws EXCEPT !.acl = ACLsNow]
    BY <2>3 DEF IInv, Shape
  <2> QED
    BY <2>1, <2>2, <2>3
<1>5. /\ aws'.acl["v2"] = wafv2Synthesize.acl /\ aws'.acl["regional"] = wafregionalSynthesize.acl
      /\ DOMAIN aws'.acl = Kind
  BY <1>2 DEF ACLsNow, Kind
<1>6. ACLEntries("v2")' /\ ACLEntries("regional")'
  BY <1>1, <1>3, <1>5, ACLKept DEF wafv2Synthesize, wafregionalSynthesize, Kind
<1>7. ProtEntries' /\ \A p, q \in aws'.prot : p = q
  BY <1>1, <1>4, ProtKept
<1>8. SubscriptionEntries'
  BY <1>1, <1>2, <1>3, SubscriptionKept
<1> QED
  BY <1>1, <1>2, <1>3, <1>5, <1>6, <1>7, <1>8, DeployedOK

LEMMA WithoutShieldStep == Lifetimes /\ IInv /\ SynthesizeWithoutShield => IInv'
<1> SUFFICES ASSUME Lifetimes, IInv, SynthesizeWithoutShield PROVE IInv'
  OBVIOUS
<1>1. UNCHANGED <<arn, quiet>>
  BY DEF SynthesizeWithoutShield
<1>2. /\ DOMAIN aws' = DOMAIN aws /\ aws'.acl = ACLsNow
      /\ aws'.subscribed = aws.subscribed /\ aws'.prot = aws.prot
  BY DEF SynthesizeWithoutShield, IInv, Shape
<1>3. /\ cache'.v2 = wafv2Synthesize.cached /\ cache'.regional = wafregionalSynthesize.cached
      /\ cache'.subscription = cache.subscription /\ cache'.prot = cache.prot
      /\ DOMAIN cache' = DOMAIN cache
  BY DEF SynthesizeWithoutShield, IInv, Shape
<1>4. /\ aws'.acl["v2"] = wafv2Synthesize.acl /\ aws'.acl["regional"] = wafregionalSynthesize.acl
      /\ DOMAIN aws'.acl = Kind
  BY <1>2 DEF ACLsNow, Kind
<1>5. ACLEntries("v2")' /\ ACLEntries("regional")'
  BY <1>1, <1>3, <1>4, ACLKept DEF wafv2Synthesize, wafregionalSynthesize, Kind
<1>6. ProtEntries' /\ \A p, q \in aws'.prot : p = q
  BY <1>1, <1>2, <1>3, ProtKept
<1>7. SubscriptionEntries'
  BY <1>1, <1>2, <1>3, SubscriptionKept
<1> QED
  BY <1>1, <1>2, <1>3, <1>4, <1>5, <1>6, <1>7, DeployedOK

LEMMA FailsStep == Lifetimes /\ IInv /\ SynthesizeFails => IInv'
<1> SUFFICES ASSUME Lifetimes, IInv, SynthesizeFails PROVE IInv'
  OBVIOUS
<1>1. UNCHANGED <<arn, quiet>>
  BY DEF SynthesizeFails
<1>2. CASE UNCHANGED <<aws, cache>>
  BY <1>1, <1>2 DEF IInv, Shape, ACLEntries, ProtEntries, SubscriptionEntries, EntryOK
<1>3. CASE \E n \in 1 .. 3, looked \in BOOLEAN, sub \in {cache.subscription, GetSubscription} :
             /\ cache' =
                  [v2 |-> Cached(1, n, looked, wafv2Synthesize.cached, GetAssociatedWebACL("v2"),
                                 cache.v2),
                   regional |-> Cached(2, n, looked, wafregionalSynthesize.cached,
                                       wafregionalGetAssociatedWebACL, cache.regional),
                   prot |-> Cached(3, n, looked, cache.prot, GetProtection, cache.prot),
                   subscription |-> sub]
             /\ aws' = [aws EXCEPT !.acl = [v2 |-> IF n > 1 THEN ACLsNow.v2 ELSE @.v2,
                                            regional |-> IF n > 2 THEN ACLsNow.regional ELSE @.regional]]
  <2>1. PICK n \in 1 .. 3, looked \in BOOLEAN, sub \in {cache.subscription, GetSubscription} :
             /\ cache' =
                  [v2 |-> Cached(1, n, looked, wafv2Synthesize.cached, GetAssociatedWebACL("v2"),
                                 cache.v2),
                   regional |-> Cached(2, n, looked, wafregionalSynthesize.cached,
                                       wafregionalGetAssociatedWebACL, cache.regional),
                   prot |-> Cached(3, n, looked, cache.prot, GetProtection, cache.prot),
                   subscription |-> sub]
             /\ aws' = [aws EXCEPT !.acl = [v2 |-> IF n > 1 THEN ACLsNow.v2 ELSE @.v2,
                                            regional |-> IF n > 2 THEN ACLsNow.regional ELSE @.regional]]
    BY <1>3
  <2>2. /\ DOMAIN aws' = DOMAIN aws /\ aws'.prot = aws.prot /\ aws'.subscribed = aws.subscribed
        /\ DOMAIN aws'.acl = Kind
        /\ aws'.acl["v2"] = IF n > 1 THEN wafv2Synthesize.acl ELSE aws.acl["v2"]
        /\ aws'.acl["regional"] = IF n > 2 THEN wafregionalSynthesize.acl ELSE aws.acl["regional"]
    BY <2>1 DEF IInv, Shape, ACLsNow, Kind
  <2>3. DOMAIN cache' = DOMAIN cache
    BY <2>1 DEF IInv, Shape
  <2>4. ACLEntries("v2")'
    <3>1. CASE n > 1
      BY <1>1, <2>1, <2>2, <3>1, ACLKept DEF wafv2Synthesize, Cached, Kind
    <3>2. CASE ~(n > 1)
      BY <1>1, <2>1, <2>2, <3>2, ACLKept DEF Cached, Kind
    <3> QED
      BY <3>1, <3>2
  <2>5. ACLEntries("regional")'
    <3>1. CASE n > 2
      BY <1>1, <2>1, <2>2, <3>1, ACLKept DEF wafregionalSynthesize, Cached, Kind
    <3>2. CASE ~(n > 2)
      BY <1>1, <2>1, <2>2, <3>2, ACLKept DEF wafregionalGetAssociatedWebACL, Cached, Kind
    <3> QED
      BY <3>1, <3>2
  <2>6. ProtEntries' /\ \A p, q \in aws'.prot : p = q
    BY <1>1, <2>1, <2>2, ProtKept DEF Cached
  <2>7. SubscriptionEntries'
    BY <1>1, <2>1, <2>2, SubscriptionKept
  <2> QED
    BY <1>1, <2>2, <2>3, <2>4, <2>5, <2>6, <2>7, DeployedOK
<1> QED
  BY <1>2, <1>3 DEF SynthesizeFails

LEMMA NextInv == Lifetimes /\ IInv /\ [Next]_vars => IInv'
<1> SUFFICES ASSUME Lifetimes, IInv, [Next]_vars PROVE IInv'
  OBVIOUS
<1>1. CASE UNCHANGED vars
  BY <1>1 DEF vars, IInv, Shape, ACLEntries, ProtEntries, SubscriptionEntries, EntryOK
<1> QED
  BY <1>1, EditStep, OutsideStep, ReplaceStep, TickStep, SynthesizeStep, WithoutShieldStep,
     FailsStep DEF Next

LEMMA Inductive == Lifetimes => (Spec => []IInv)
<1> SUFFICES ASSUME Lifetimes PROVE Spec => []IInv
  OBVIOUS
<1>1. Init => IInv
  BY InitInv
<1>2. IInv /\ [Next]_vars => IInv'
  BY NextInv
<1> QED
  BY <1>1, <1>2, PTL DEF Spec

-------------------------------------------------------------------------------

\* After the quiet time a synthesizer leaves what is desired: a lookup that
\* was as desired was also right.
LEMMA QuietACL ==
  ASSUME Lifetimes, IInv, quiet >= TTL, NEW k \in Kind
  PROVE  synthesizeWebACLAssociationsOnLB(k).acl = desiredWebACL(k)
<1>1. CASE \E e \in GetAssociatedWebACL(k) : e.value = desiredWebACL(k)
  <2>1. PICK e \in GetAssociatedWebACL(k) : e.value = desiredWebACL(k)
    BY <1>1
  <2>2. EntryOK(e, TTL) /\ (e.value # aws.acl[k] => quiet + e.left <= TTL)
    BY LookupOK
  <2>3. e.value = aws.acl[k]
    BY <2>2 DEF EntryOK, IInv, Shape, Lifetimes
  <2> QED
    BY <1>1, <2>1, <2>3 DEF synthesizeWebACLAssociationsOnLB
<1>2. CASE ~\E e \in GetAssociatedWebACL(k) : e.value = desiredWebACL(k)
  BY <1>2 DEF synthesizeWebACLAssociationsOnLB, AssociateWebACL
<1> QED
  BY <1>1, <1>2

\* What is desired is what every member states that states something.
LEMMA DesiredStated ==
  ASSUME buildLoadBalancerAddOns, NEW k \in Kind
  PROVE  /\ \A m \in Member : States(m, k) \in {Unset, desiredWebACL(k)}
         /\ (\A m \in Member : States(m, k) = Unset) => desiredWebACL(k) = NoACL
<1>1. Explicit[k] = {States(m, k) : m \in Member} \ {Unset}
  <2>1. CASE k = "v2"
    BY <2>1 DEF Explicit, buildWAFv2WebACLAssociation, States
  <2>2. CASE k = "regional"
    BY <2>2 DEF Explicit, buildWAFRegionalWebACLAssociation, States
  <2> QED
    BY <2>1, <2>2 DEF Kind
<1>2. \A a, b \in Explicit[k] : a = b
  BY DEF buildLoadBalancerAddOns, Agreed
<1>3. Explicit[k] # {} => desiredWebACL(k) \in Explicit[k]
  BY DEF desiredWebACL
<1>4. Explicit[k] = {} => desiredWebACL(k) = NoACL
  BY DEF desiredWebACL
<1> QED
  BY <1>1, <1>2, <1>3, <1>4

\* The same for the protection, when it was also the subscription that was
\* left alone.
LEMMA QuietProtection ==
  ASSUME Lifetimes, IInv, quiet = SubscriptionTTL,
         NEW shield, shield = synthesizeProtectionsOnLB, ~shield.failed
  PROVE  IF enableProtection THEN shield.prot # {} ELSE \A p \in shield.prot : ~p.managed
<1> DEFINE known == UNION {e.value : e \in GetProtection}
<1>1. \A e \in GetProtection : e.value = aws.prot
  BY LookupOK DEF EntryOK, IInv, Shape, Lifetimes
<1>2. known = aws.prot
  BY <1>1, LookupOK
<1>3. CASE enableProtection /\ known = {}
  BY ZenonT(60), <1>2, <1>3 DEF synthesizeProtectionsOnLB, CreateProtection
<1>4. CASE enableProtection /\ known # {}
  BY <1>2, <1>4 DEF synthesizeProtectionsOnLB
<1>5. CASE ~enableProtection /\ IsManaged(known) # {}
  <2>1. shield.prot = aws.prot \ IsManaged(known)
    BY <1>2, <1>5 DEF synthesizeProtectionsOnLB, DeleteProtection, IsManaged
  <2> QED
    BY <1>2, <1>5, <2>1 DEF IsManaged
<1>6. CASE ~enableProtection /\ IsManaged(known) = {}
  <2>1. shield.prot = aws.prot
    BY <1>6 DEF synthesizeProtectionsOnLB
  <2> QED
    BY <1>2, <1>6, <2>1 DEF IsManaged
<1> QED
  BY ZenonT(60), <1>3, <1>4, <1>5, <1>6

LEMMA Subscribed ==
  ASSUME Lifetimes, IInv, quiet = SubscriptionTTL, aws.subscribed
  PROVE  IsSubscribed
<1>1. PICK e \in GetSubscription : TRUE
  BY LookupOK
<1>2. EntryOK(e, SubscriptionTTL) /\ (e.value # aws.subscribed => quiet + e.left <= SubscriptionTTL)
  BY ZenonT(60), <1>1, LookupOK
<1>3. ~(quiet + e.left <= SubscriptionTTL)
  <2>1. EntryOK(e, SubscriptionTTL)
    BY <1>2
  <2> QED
    BY <2>1 DEF EntryOK, IInv, Shape, Lifetimes
<1>4. e.value = aws.subscribed
  BY <1>2, <1>3, Zenon
<1> QED
  BY <1>1, <1>4, Zenon DEF IsSubscribed

LEMMA ShieldStated ==
  ASSUME Texts, buildLoadBalancerAddOns
  PROVE  /\ enableProtection <=> \E m \in Member : notes[m].shield = "true"
         /\ enableProtection => \A m \in Member : notes[m].shield # "false"
BY DEF Texts, buildLoadBalancerAddOns, buildShieldProtection, enableProtection, Agreed

\* Every step that deploys leaves the web ACLs and the protection as stated.
LEMMA AddOnsStep == Lifetimes /\ Texts /\ IInv /\ [Next]_vars => AddOnsAfterTTL
<1> SUFFICES ASSUME Lifetimes, Texts, IInv PROVE AddOnsAfterTTL
  OBVIOUS
<1>1. ASSUME quiet >= TTL, Synthesize \/ SynthesizeWithoutShield, NEW k \in Kind
      PROVE  /\ \A m \in Member : States(m, k) \in {Unset, aws'.acl[k]}
             /\ (\A m \in Member : States(m, k) = Unset) => aws'.acl[k] = NoACL
  <2>1. aws'.acl = ACLsNow /\ buildLoadBalancerAddOns
    BY ZenonT(60), <1>1 DEF Synthesize, SynthesizeWithoutShield, IInv, Shape
  <2>2. aws'.acl[k] = synthesizeWebACLAssociationsOnLB(k).acl
    BY <2>1 DEF ACLsNow, Kind, wafv2Synthesize, wafregionalSynthesize
  <2> QED
    BY <1>1, <2>1, <2>2, QuietACL, DesiredStated
<1>2. ASSUME done', quiet = SubscriptionTTL, aws.subscribed, Synthesize
      PROVE  IF \E m \in Member : notes[m].shield = "true"
             THEN aws'.prot # {} /\ \A m \in Member : notes[m].shield # "false"
             ELSE \A p \in aws'.prot : ~p.managed
  <2> DEFINE shield == synthesizeProtectionsOnLB
  <2>1. IsSubscribed
    BY <1>2, Subscribed
  <2>2. /\ aws' = [aws EXCEPT !.acl = ACLsNow, !.prot = shield.prot]
        /\ buildLoadBalancerAddOns /\ ~shield.failed
    BY <1>2, <2>1, Zenon DEF Synthesize
  <2>3. aws'.prot = shield.prot
    BY <2>2 DEF IInv, Shape
  <2>4. IF enableProtection THEN shield.prot # {} ELSE \A p \in shield.prot : ~p.managed
    BY <1>2, <2>2, QuietProtection
  <2> HIDE DEF shield
  <2> QED
    BY <2>2, <2>3, <2>4, ShieldStated
<1> QED
  BY <1>1, <1>2 DEF AddOnsAfterTTL

\* Only a protection that the controller made is deleted.
LEMMA UnmanagedStep == IInv /\ [Next]_vars => UnmanagedKept
<1> SUFFICES ASSUME IInv, [Next]_vars, ~Outside, ~ReplaceLoadBalancer
             PROVE  \A p \in aws.prot : p.managed \/ p \in aws'.prot
  BY DEF UnmanagedKept
<1>1. aws'.prot \in {aws.prot, synthesizeProtectionsOnLB.prot}
  BY ZenonT(60) DEF Next, vars, Edit, Tick, Synthesize, SynthesizeWithoutShield, SynthesizeFails, IInv, Shape
<1>2. \A p \in aws.prot : p.managed \/ p \in synthesizeProtectionsOnLB.prot
  BY DEF synthesizeProtectionsOnLB, DeleteProtection, IsManaged
<1> QED
  BY <1>1, <1>2

\* For any members, web ACLs and lifetimes: once others left the add-ons alone
\* for the lifetime of the caches, a deployment that succeeds leaves the load
\* balancer with what its members' annotations state.
THEOREM AddOnsDeployed == Lifetimes /\ Texts => (Spec => [][AddOnsAfterTTL]_vars)
<1> SUFFICES ASSUME Lifetimes, Texts PROVE Spec => [][AddOnsAfterTTL]_vars
  OBVIOUS
<1>1. Spec => []IInv
  BY Inductive
<1>2. IInv /\ [Next]_vars => [AddOnsAfterTTL]_vars
  BY AddOnsStep
<1> QED
  BY <1>1, <1>2, PTL DEF Spec

\* For any members, web ACLs and lifetimes, however stale the caches are: a
\* protection that someone else made is not deleted by the controller.
THEOREM UnmanagedProtectionKept == Lifetimes => (Spec => [][UnmanagedKept]_vars)
<1> SUFFICES ASSUME Lifetimes PROVE Spec => [][UnmanagedKept]_vars
  OBVIOUS
<1>1. Spec => []IInv
  BY Inductive
<1>2. IInv /\ [Next]_vars => [UnmanagedKept]_vars
  BY UnmanagedStep
<1> QED
  BY <1>1, <1>2, PTL DEF Spec
===============================================================================
