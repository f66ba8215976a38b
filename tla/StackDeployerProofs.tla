------------------------- MODULE StackDeployerProofs -------------------------
(***************************************************************************)
(* The deployment implements StackSpec and does what its stack says, for   *)
(* any resources and stacks.                                               *)
(*                                                                         *)
(* Each stage relies on what the stages before it have brought about:      *)
(* security and target groups are Present once theirs is through, load     *)
(* balancers, listeners and rules are Matched, which means that exactly    *)
(* those of the stack are there, with the settings of the stack.  This is  *)
(* why new resources find what they refer to, why nothing refers to the    *)
(* groups that PostSynthesize deletes, and why nothing but the stack is    *)
(* left in the end.                                                        *)
(***************************************************************************)
EXTENDS StackDeployer, TLAPS

\* The steps are found by Zenon, unless they cite SMT.
USE ZenonT(60)

IsWork(w) == w = [del |-> w.del, add |-> w.add, upd |-> w.upd]

Shape ==
  /\ want \in Stacks /\ stack \in Stacks
  /\ IsWork(work)
  /\ live = [k \in DOMAIN live |-> live[k]] /\ DOMAIN live \subseteq Key
  /\ \A k \in DOMAIN live : live[k] \in Settings /\ Proper(k, live[k])

\* No resource lacks what it refers to or is a part of, and there is one load
\* balancer at most.
Whole ==
  /\ \A k \in DOMAIN live :
       live[k].to \subseteq DOMAIN live /\ (k \in LS \cup Rule => Parent[k] \in DOMAIN live)
  /\ \A j, k \in DOMAIN live \cap LB : j = k

\* The stage still has to add and update these groups.
Adding(T) ==
  /\ work.del = {} /\ work.add \subseteq ResOf(T) \ DOMAIN live
  /\ work.upd \subseteq ResOf(T) \cap DOMAIN live
  /\ ResOf(T) \subseteq DOMAIN live \cup work.add
  /\ \A k \in LiveOf(T) \cap ResOf(T) : k \in work.upd \/ live[k] = stack.res[k]

Present(T) == ResOf(T) \subseteq DOMAIN live /\ \A k \in ResOf(T) : live[k] = stack.res[k]

\* The stage still has to delete, add and update these resources.
Matching(T) ==
  /\ work.del \subseteq LiveOf(T) \ ResOf(T) /\ work.add \subseteq ResOf(T) \ DOMAIN live
  /\ work.upd \subseteq ResOf(T) \cap DOMAIN live
  /\ LiveOf(T) \subseteq ResOf(T) \cup work.del /\ ResOf(T) \subseteq DOMAIN live \cup work.add
  /\ \A k \in LiveOf(T) \cap ResOf(T) : k \in work.upd \/ live[k] = stack.res[k]

Matched(T) == LiveOf(T) = ResOf(T) /\ \A k \in LiveOf(T) : live[k] = stack.res[k]

Post == {"tgb", "posttgb", "posttg", "postsg"}

Staged ==
  /\ pc \in {"idle", "start", "sg", "tg", "lb", "ls", "rule"} \cup Post
  /\ pc = "sg" => Adding(SG)
  /\ pc = "tg" => Adding(TG)
  /\ pc \in {"tg", "lb", "ls", "rule"} \cup Post => Present(SG)
  /\ pc \in {"lb", "ls", "rule"} \cup Post => Present(TG)
  /\ pc = "lb" => Matching(LB)
  /\ pc \in {"ls", "rule"} \cup Post => Matched(LB)
  /\ pc = "ls" => Matching(LS)
  /\ pc \in {"rule"} \cup Post => Matched(LS)
  /\ pc = "rule" => Matching(Rule)
  /\ pc \in Post => Matched(Rule)

\* What PostSynthesize will delete is not in the stack, and is all the groups
\* that are not.
Leftover ==
  /\ unmatched \subseteq SG \cup TG
  /\ pc \notin {"idle", "start"} => unmatched \cap DOMAIN stack.res = {}
  /\ pc = "posttg" => work.del \subseteq TG \ DOMAIN stack.res
  /\ pc = "postsg" => work.del \subseteq SG \ DOMAIN stack.res
  /\ pc \notin {"idle", "start", "postsg"} => LiveOf(SG) \subseteq ResOf(SG) \cup unmatched
  /\ pc \in {"tg", "lb", "ls", "rule", "tgb", "posttgb"} => LiveOf(TG) \subseteq ResOf(TG) \cup unmatched
  /\ pc = "posttg" => LiveOf(TG) \subseteq ResOf(TG) \cup work.del
  /\ pc = "postsg" => LiveOf(TG) \subseteq ResOf(TG) /\ LiveOf(SG) \subseteq ResOf(SG) \cup work.del

IInv == Shape /\ Whole /\ Staged /\ Leftover

\* A binding that the informer showed and the stack does not have is deleted,
\* and the informer shows it until it is gone.
BInv ==
  /\ pc = "tgb" => work.add \subseteq DOMAIN stack.bind
  /\ pc \in {"tgb", "posttgb", "posttg"} =>
       \A k \in DOMAIN listed \ DOMAIN stack.bind :
         /\ k \in DOMAIN tgb => k \in DOMAIN cache
         /\ pc = "posttgb" => k \in work.del \/ (k = wait /\ wait # None) \/ k \notin DOMAIN tgb
         /\ pc = "posttg" => k \notin DOMAIN tgb

-----------------------------------------------------------------------------
(* Functions that change in one place.                                     *)

LEMMA DidFacts ==
  ASSUME Shape, NEW k
  PROVE  /\ Did("del", k) => work' = [del |-> work.del \ {k}, add |-> work.add, upd |-> work.upd]
         /\ Did("add", k) => work' = [del |-> work.del, add |-> work.add \ {k}, upd |-> work.upd]
         /\ Did("upd", k) => work' = [del |-> work.del, add |-> work.add, upd |-> work.upd \ {k}]
BY DEF Did, Shape, IsWork

-----------------------------------------------------------------------------
(* Steps of the abstract stack.                                            *)

\* Setting up k with references to what exists.
LEMMA PutStep ==
  ASSUME Shape, Whole, NEW k \in DOMAIN stack.res, NEW v \in Settings,
         live' = With(live, k, v), v.to \subseteq DOMAIN live, Proper(k, v),
         k \in LS \cup Rule => Parent[k] \in DOMAIN live,
         k \in LB => \A j \in DOMAIN live \cap LB : j = k, UNCHANGED <<want, stack>>,
         IsWork(work')
  PROVE  Promise!Next /\ Shape' /\ Whole'
<1>1. k \in Key
  BY StackAssumption DEF Shape, WellFormed
<1>2. /\ DOMAIN live' = DOMAIN live \cup {k} /\ live'[k] = v
      /\ \A j \in DOMAIN live \ {k} : live'[j] = live[j]
      /\ live' = [j \in DOMAIN live' |-> live'[j]]
  BY DEF With
<1>3. Shape'
  BY SMT, <1>1, <1>2 DEF Shape, Proper, MayReferTo
<1>4. Whole'
  BY <1>2 DEF Whole
<1>5. /\ k \in DOMAIN Refs(live')
      /\ Refs(live')[k] \subseteq DOMAIN Refs(live)
  BY <1>2 DEF Refs
<1>6. Refs(live') = [j \in DOMAIN Refs(live) \cup {k} |->
                       IF j = k THEN Refs(live')[k] ELSE Refs(live)[j]]
  BY <1>2 DEF Refs
<1>7. Promise!Put(k)
  BY <1>5, <1>6 DEF Promise!Put
<1>8. k \in DOMAIN Refs(stack.res)
  BY DEF Refs
<1> QED
  BY <1>1, <1>3, <1>4, <1>7, <1>8 DEF Promise!Next, Promise!Create, Promise!Modify

\* Deleting what is not in the stack, with all its parts.
LEMMA DropStep ==
  ASSUME Shape, Whole, NEW K \in SUBSET DOMAIN live, K \cap DOMAIN stack.res = {},
         \A j \in DOMAIN live \ K : live[j].to \cap K = {} /\ (j \in LS \cup Rule => Parent[j] \notin K),
         live' = Without(live, K), UNCHANGED <<want, stack>>,
         IsWork(work')
  PROVE  Promise!Next /\ Shape' /\ Whole'
<1>1. /\ DOMAIN live' = DOMAIN live \ K
      /\ \A j \in DOMAIN live \ K : live'[j] = live[j]
      /\ live' = [j \in DOMAIN live' |-> live'[j]]
  BY DEF Without
<1>2. Shape'
  BY <1>1 DEF Shape, Proper, MayReferTo
<1>3. Whole'
  BY <1>1 DEF Whole
<1>4. DOMAIN Refs(live) \ DOMAIN Refs(live') = K
  BY <1>1 DEF Refs
<1>5. K \subseteq DOMAIN Refs(live) \ DOMAIN Refs(stack.res)
  BY DEF Refs
<1>6. \A j \in DOMAIN Refs(live) \ K : Refs(live)[j] \cap K = {}
  BY DEF Refs
<1>7. Refs(live') = [j \in DOMAIN Refs(live) \ K |-> Refs(live)[j]]
  BY <1>1 DEF Refs
<1>8. Promise!Delete(K)
  BY <1>5, <1>6, <1>7 DEF Promise!Delete
<1> QED
  BY <1>2, <1>3, <1>4, <1>8 DEF Promise!Next

-----------------------------------------------------------------------------
(* What the calls of a manager leave of a resource.                        *)

Leads(k, seq, cur, des) ==
  /\ Len(seq) \in Nat \ {0} /\ seq[Len(seq)] = des
  /\ \A i \in 1..Len(seq) :
       seq[i] \in Settings /\ Proper(k, seq[i]) /\ seq[i].to \in {cur.to, des.to}

LEMMA SameSettings ==
  ASSUME NEW a \in Settings, NEW b \in Settings,
         a.tags = b.tags, a.conf = b.conf, a.to = b.to, a.attrs = b.attrs, a.certs = b.certs
  PROVE  a = b
BY SMT DEF Settings

LEMMA UpdatesLead ==
  ASSUME NEW k, NEW cur \in Settings, NEW des \in Settings, Proper(k, cur), Proper(k, des)
  PROVE  /\ k \in SG => Leads(k, SecurityGroupUpdate(cur, des), cur, des)
         /\ k \in TG => Leads(k, TargetGroupUpdate(cur, des), cur, des)
         /\ k \in LB => Leads(k, LoadBalancerUpdate(cur, des), cur, des)
         /\ k \in LS => Leads(k, ListenerUpdate(cur, des), cur, des)
         /\ k \in Rule => Leads(k, ListenerRuleUpdate(cur, des), cur, des)
<1> DEFINE tagged == [cur EXCEPT !.tags = des.tags]
<1>1. /\ tagged \in Settings /\ tagged.tags = des.tags /\ tagged.conf = cur.conf /\ tagged.to = cur.to
      /\ tagged.attrs = cur.attrs /\ tagged.certs = cur.certs
  BY DEF Settings
<1>2. ASSUME k \in SG PROVE Leads(k, SecurityGroupUpdate(cur, des), cur, des)
  <2> DEFINE last == [tagged EXCEPT !.attrs = des.attrs]
  <2>1. /\ last \in Settings /\ last.tags = des.tags /\ last.conf = cur.conf /\ last.to = cur.to
        /\ last.attrs = des.attrs /\ last.certs = cur.certs
    BY <1>1 DEF Settings
  <2>2. SecurityGroupUpdate(cur, des) = <<tagged, last>>
    BY DEF SecurityGroupUpdate, Tagged
  <2> HIDE DEF tagged, last
  <2>3. Proper(k, tagged) /\ cur.conf = des.conf /\ cur.to = des.to /\ cur.certs = des.certs
    BY <1>1, <1>2, KindAssumption DEF Proper, MayReferTo
  <2>4. last = des
    BY <2>1, <2>3, SameSettings
  <2> QED
    BY SMT, <1>1, <2>1, <2>2, <2>3, <2>4 DEF Leads
<1>3. ASSUME k \in TG PROVE Leads(k, TargetGroupUpdate(cur, des), cur, des)
  <2> DEFINE checked == [tagged EXCEPT !.conf = des.conf]
  <2> DEFINE last == [checked EXCEPT !.attrs = des.attrs]
  <2>1. /\ checked \in Settings /\ checked.tags = des.tags /\ checked.conf = des.conf
        /\ checked.to = cur.to /\ checked.attrs = cur.attrs /\ checked.certs = cur.certs
    BY <1>1 DEF Settings
  <2>2. /\ last \in Settings /\ last.tags = des.tags /\ last.conf = des.conf /\ last.to = cur.to
        /\ last.attrs = des.attrs /\ last.certs = cur.certs
    BY <2>1 DEF Settings
  <2>3. TargetGroupUpdate(cur, des) = <<tagged, checked, last>>
    BY DEF TargetGroupUpdate, Tagged, TargetGroupAttributes
  <2> HIDE DEF tagged, checked, last
  <2>4. Proper(k, tagged) /\ Proper(k, checked) /\ cur.to = des.to /\ cur.certs = des.certs
    BY <1>1, <1>3, <2>1, KindAssumption DEF Proper, MayReferTo
  <2>5. last = des
    BY <2>2, <2>4, SameSettings
  <2> QED
    BY SMT, <1>1, <2>1, <2>2, <2>3, <2>4, <2>5 DEF Leads
<1>4. ASSUME k \in LB PROVE Leads(k, LoadBalancerUpdate(cur, des), cur, des)
  <2> DEFINE secured == [tagged EXCEPT !.to = des.to]
  <2> DEFINE placed == [secured EXCEPT !.conf = des.conf]
  <2> DEFINE last == [placed EXCEPT !.attrs = des.attrs]
  <2>1. /\ secured \in Settings /\ secured.tags = des.tags /\ secured.conf = cur.conf
        /\ secured.to = des.to /\ secured.attrs = cur.attrs /\ secured.certs = cur.certs
    BY <1>1 DEF Settings
  <2>2. /\ placed \in Settings /\ placed.tags = des.tags /\ placed.conf = des.conf
        /\ placed.to = des.to /\ placed.attrs = cur.attrs /\ placed.certs = cur.certs
    BY <2>1 DEF Settings
  <2>3. /\ last \in Settings /\ last.tags = des.tags /\ last.conf = des.conf /\ last.to = des.to
        /\ last.attrs = des.attrs /\ last.certs = cur.certs
    BY <2>2 DEF Settings
  <2>4. LoadBalancerUpdate(cur, des) = <<tagged, secured, placed, last>>
    BY DEF LoadBalancerUpdate, Tagged, LoadBalancerAttributes
  <2> HIDE DEF tagged, secured, placed, last
  <2>5. Proper(k, tagged) /\ Proper(k, secured) /\ Proper(k, placed) /\ cur.certs = des.certs
    BY <1>1, <1>4, <2>1, <2>2, KindAssumption DEF Proper
  <2>6. last = des
    BY <2>3, <2>5, SameSettings
  <2> QED
    BY SMT, <1>1, <2>1, <2>2, <2>3, <2>4, <2>5, <2>6 DEF Leads
<1>5. ASSUME k \in LS PROVE Leads(k, ListenerUpdate(cur, des), cur, des)
  <2> DEFINE modified == [tagged EXCEPT !.to = des.to, !.conf = des.conf]
  <2> DEFINE removed == [modified EXCEPT !.certs = modified.certs \cap des.certs]
  <2> DEFINE last == [removed EXCEPT !.certs = removed.certs \cup des.certs]
  <2>1. /\ modified \in Settings /\ modified.tags = des.tags /\ modified.conf = des.conf
        /\ modified.to = des.to /\ modified.attrs = cur.attrs /\ modified.certs = cur.certs
    BY <1>1 DEF Settings
  <2>2. /\ removed \in Settings /\ removed.tags = des.tags /\ removed.conf = des.conf
        /\ removed.to = des.to /\ removed.attrs = cur.attrs /\ removed.certs = cur.certs \cap des.certs
    BY <2>1 DEF Settings
  <2>3. /\ last \in Settings /\ last.tags = des.tags /\ last.conf = des.conf /\ last.to = des.to
        /\ last.attrs = cur.attrs /\ last.certs = des.certs
    BY <2>2 DEF Settings
  <2>4. ListenerUpdate(cur, des) = <<tagged, modified, removed, last>>
    BY DEF Tagged, ListenerUpdate, ListenerCertificates
  <2> HIDE DEF tagged, modified, removed, last
  <2>5. Proper(k, tagged) /\ Proper(k, modified) /\ Proper(k, removed) /\ cur.attrs = des.attrs
    BY <1>1, <1>5, <2>1, <2>2, KindAssumption DEF Proper
  <2>6. last = des
    BY <2>3, <2>5, SameSettings
  <2> QED
    BY SMT, <1>1, <2>1, <2>2, <2>3, <2>4, <2>5, <2>6 DEF Leads
<1>6. ASSUME k \in Rule PROVE Leads(k, ListenerRuleUpdate(cur, des), cur, des)
  <2> DEFINE last == [tagged EXCEPT !.to = des.to, !.conf = des.conf]
  <2>1. /\ last \in Settings /\ last.tags = des.tags /\ last.conf = des.conf /\ last.to = des.to
        /\ last.attrs = cur.attrs /\ last.certs = cur.certs
    BY <1>1 DEF Settings
  <2>2. ListenerRuleUpdate(cur, des) = <<tagged, last>>
    BY DEF ListenerRuleUpdate, Tagged
  <2> HIDE DEF tagged, last
  <2>3. Proper(k, tagged) /\ cur.attrs = des.attrs /\ cur.certs = des.certs
    BY <1>1, <1>6, KindAssumption DEF Proper
  <2>4. last = des
    BY <2>1, <2>3, SameSettings
  <2> QED
    BY SMT, <1>1, <2>1, <2>2, <2>3, <2>4 DEF Leads
<1> QED
  BY <1>2, <1>3, <1>4, <1>5, <1>6

LEMMA CreatesLead ==
  ASSUME NEW k, NEW des \in Settings, Proper(k, des)
  PROVE  /\ k \in SG => Leads(k, SecurityGroupCreate(des), des, des)
         /\ k \in TG => Leads(k, TargetGroupCreate(des), des, des)
         /\ k \in LB => Leads(k, LoadBalancerCreate(des), des, des)
         /\ k \in LS => Leads(k, ListenerCreate(des), des, des)
         /\ k \in Rule => ListenerRuleCreate(des) = des
<1> DEFINE first == Created(des)
<1> DEFINE last == [first EXCEPT !.attrs = des.attrs]
<1>1. /\ first \in Settings /\ first.tags = des.tags /\ first.conf = des.conf /\ first.to = des.to
      /\ first.attrs = 0 /\ first.certs = {}
  BY ValueAssumption DEF Settings, Created
<1>2. /\ last \in Settings /\ last.tags = des.tags /\ last.conf = des.conf /\ last.to = des.to
      /\ last.attrs = des.attrs /\ last.certs = {}
  BY <1>1 DEF Settings
<1>3. /\ SecurityGroupCreate(des) = <<first, last>> /\ TargetGroupCreate(des) = <<first, last>>
      /\ LoadBalancerCreate(des) = <<first, last>> /\ ListenerRuleCreate(des) = first
  BY DEF SecurityGroupCreate, TargetGroupCreate, LoadBalancerCreate, ListenerRuleCreate,
     TargetGroupAttributes, LoadBalancerAttributes
<1>4. Proper(k, first)
  BY <1>1 DEF Proper
<1>5. ASSUME k \in LS PROVE Leads(k, ListenerCreate(des), des, des)
  <2> DEFINE removed == [first EXCEPT !.certs = first.certs \cap des.certs]
  <2> DEFINE added == [removed EXCEPT !.certs = removed.certs \cup des.certs]
  <2>1. /\ removed \in Settings /\ removed.tags = des.tags /\ removed.conf = des.conf
        /\ removed.to = des.to /\ removed.attrs = 0 /\ removed.certs = {}
    BY <1>1 DEF Settings
  <2>2. /\ added \in Settings /\ added.tags = des.tags /\ added.conf = des.conf
        /\ added.to = des.to /\ added.attrs = 0 /\ added.certs = des.certs
    BY <2>1 DEF Settings
  <2>3. ListenerCreate(des) = <<first, removed, added>>
    BY DEF ListenerCreate, ListenerCertificates
  <2> HIDE DEF first, removed, added
  <2>4. Proper(k, removed) /\ des.attrs = 0
    BY <1>5, <2>1 DEF Proper
  <2>5. added = des
    BY <2>2, <2>4, SameSettings
  <2> QED
    BY SMT, <1>1, <1>4, <2>1, <2>2, <2>3, <2>4, <2>5 DEF Leads
<1> HIDE DEF first, last
<1>6. ASSUME k \in SG \cup TG \cup LB PROVE last = des
  <2>1. des.certs = {}
    BY <1>6, KindAssumption DEF Proper
  <2> QED
    BY <1>2, <2>1, SameSettings
<1>7. ASSUME k \in Rule PROVE first = des
  <2>1. des.certs = {} /\ des.attrs = 0
    BY <1>7, KindAssumption DEF Proper
  <2> QED
    BY <1>1, <2>1, SameSettings
<1>8. ASSUME k \in SG \cup TG \cup LB PROVE Leads(k, <<first, last>>, des, des)
  BY SMT, <1>1, <1>4, <1>6, <1>8 DEF Leads
<1> QED
  BY <1>3, <1>5, <1>7, <1>8

-----------------------------------------------------------------------------
(* What a step leaves of the stages.                                       *)

\* Abandoned: nothing of the stages is relied on any more.
LEMMA AbortStaged ==
  ASSUME Abort
  PROVE  Staged' /\ Leftover' /\ stack' = stack /\ IsWork(work')
BY DEF Abort, Reset, Staged, Leftover, NoWork, Post, IsWork

\* k of the type at work has been added or updated.
LEMMA AddingKept ==
  ASSUME Shape, NEW T, Adding(T), NEW k \in ResOf(T), live' = With(live, k, stack.res[k]),
         (k \in work.add /\ Did("add", k)) \/ (k \in work.upd /\ Did("upd", k))
  PROVE  Adding(T)'
<1>1. /\ DOMAIN live' = DOMAIN live \cup {k} /\ live'[k] = stack.res[k]
      /\ \A j \in DOMAIN live \ {k} : live'[j] = live[j]
  BY DEF With
<1>2. stack' = stack
  BY DEF Did
<1>3. CASE k \in work.add /\ Did("add", k)
  <2>1. work' = [del |-> work.del, add |-> work.add \ {k}, upd |-> work.upd]
    BY <1>3, DidFacts
  <2> QED
    BY <1>1, <1>2, <2>1 DEF Adding, ResOf, LiveOf
<1>4. CASE k \in work.upd /\ Did("upd", k)
  <2>1. work' = [del |-> work.del, add |-> work.add, upd |-> work.upd \ {k}]
    BY <1>4, DidFacts
  <2> QED
    BY <1>1, <1>2, <1>4, <2>1 DEF Adding, ResOf, LiveOf
<1> QED
  BY <1>3, <1>4

LEMMA MatchingKept ==
  ASSUME Shape, NEW T, Matching(T), NEW k \in ResOf(T), live' = With(live, k, stack.res[k]),
         (k \in work.add /\ Did("add", k)) \/ (k \in work.upd /\ Did("upd", k))
  PROVE  Matching(T)'
<1>1. /\ DOMAIN live' = DOMAIN live \cup {k} /\ live'[k] = stack.res[k]
      /\ \A j \in DOMAIN live \ {k} : live'[j] = live[j]
  BY DEF With
<1>2. stack' = stack
  BY DEF Did
<1>3. CASE k \in work.add /\ Did("add", k)
  <2>1. work' = [del |-> work.del, add |-> work.add \ {k}, upd |-> work.upd]
    BY <1>3, DidFacts
  <2>2. \A j \in LiveOf(T)' \cap ResOf(T)' : j \in work'.upd \/ live'[j] = stack'.res[j]
    BY <1>1, <1>2, <2>1 DEF Matching, ResOf, LiveOf
  <2> QED
    BY <1>1, <1>2, <2>1, <2>2 DEF Matching, ResOf, LiveOf
<1>4. CASE k \in work.upd /\ Did("upd", k)
  <2>1. work' = [del |-> work.del, add |-> work.add, upd |-> work.upd \ {k}]
    BY <1>4, DidFacts
  <2>2. \A j \in LiveOf(T)' \cap ResOf(T)' : j \in work'.upd \/ live'[j] = stack'.res[j]
    BY <1>1, <1>2, <2>1 DEF Matching, ResOf, LiveOf
  <2>3. ResOf(T)' = ResOf(T) /\ LiveOf(T)' = LiveOf(T) /\ DOMAIN live' = DOMAIN live
    BY <1>1, <1>2, <1>4 DEF Matching, ResOf, LiveOf
  <2> QED
    BY <2>1, <2>2, <2>3 DEF Matching
<1> QED
  BY <1>3, <1>4

\* k of the type at work has been deleted, with parts of other types.
LEMMA MatchingDropped ==
  ASSUME Shape, NEW T, Matching(T), NEW k \in work.del, NEW K, K \cap T = {k},
         live' = Without(live, K), Did("del", k)
  PROVE  Matching(T)'
<1>1. DOMAIN live' = DOMAIN live \ K /\ \A j \in DOMAIN live \ K : live'[j] = live[j]
  BY DEF Without
<1>2. stack' = stack
  BY DEF Did
<1>3. work' = [del |-> work.del \ {k}, add |-> work.add, upd |-> work.upd]
  BY DidFacts
<1>4. k \notin ResOf(T) /\ LiveOf(T)' = LiveOf(T) \ {k} /\ ResOf(T)' = ResOf(T)
  BY <1>1, <1>2 DEF Matching, LiveOf, ResOf
<1>5. work.upd \subseteq DOMAIN live'
  BY <1>1, <1>4 DEF Matching, ResOf
<1>6. \A j \in LiveOf(T)' \cap ResOf(T)' : j \in work'.upd \/ live'[j] = stack'.res[j]
  BY <1>1, <1>2, <1>3, <1>4 DEF Matching, LiveOf
<1>7. ResOf(T) \subseteq DOMAIN live' \cup work.add
  BY <1>1, <1>4 DEF Matching, ResOf
<1> QED
  BY SMT, <1>1, <1>3, <1>4, <1>5, <1>6, <1>7 DEF Matching

-----------------------------------------------------------------------------
(* The calls for one resource.                                             *)

\* The call has failed, or the calls are done and the settings right.
Done(part, k) == Abort \/ (Did(part, k) /\ live' = With(live, k, stack.res[k]))

\* Whether its calls fail or not, a resource of the stack goes from its
\* present references to those of the stack, which both exist.
LEMMA CallStep ==
  ASSUME Shape, Whole, NEW part \in {"add", "upd"}, NEW k \in DOMAIN stack.res, NEW cur, NEW seq,
         Leads(k, seq, cur, stack.res[k]), Calls(part, k, seq),
         cur.to \subseteq DOMAIN live, stack.res[k].to \subseteq DOMAIN live,
         k \in LS \cup Rule => Parent[k] \in DOMAIN live,
         k \in LB => \A j \in DOMAIN live \cap LB : j = k
  PROVE  Promise!Next /\ Shape' /\ Whole' /\ Done(part, k)
<1>1. want' = want
  BY DEF Calls
<1>2. CASE Made(part, k, seq[Len(seq)])
  <2>1. Did(part, k) /\ live' = With(live, k, seq[Len(seq)])
    BY <1>2 DEF Made
  <2>2. seq[Len(seq)] = stack.res[k] /\ seq[Len(seq)] \in Settings /\ Proper(k, seq[Len(seq)])
    BY SMT DEF Leads
  <2>3. IsWork(work') /\ stack' = stack
    <3>1. stack' = stack
      BY <2>1 DEF Did
    <3>2. CASE part = "add"
      BY SMT, <2>1, <3>1, <3>2, DidFacts DEF IsWork
    <3>3. CASE part = "upd"
      BY SMT, <2>1, <3>1, <3>3, DidFacts DEF IsWork
    <3> QED
      BY <3>2, <3>3
  <2> QED
    BY <1>1, <2>1, <2>2, <2>3, PutStep DEF Done
<1>3. CASE \E i \in 1..(Len(seq) - 1) : live' = With(live, k, seq[i]) /\ Fault /\ Abort
  <2>1. PICK i \in 1..(Len(seq) - 1) : live' = With(live, k, seq[i]) /\ Abort
    BY <1>3
  <2>2. seq[i] \in Settings /\ Proper(k, seq[i]) /\ seq[i].to \in {cur.to, stack.res[k].to}
    BY SMT DEF Leads
  <2>3. IsWork(work') /\ stack' = stack
    BY <2>1, AbortStaged
  <2>4. seq[i].to \subseteq DOMAIN live
    BY <2>2
  <2> QED
    BY <1>1, <2>1, <2>2, <2>3, <2>4, PutStep DEF Done
<1> QED
  BY <1>2, <1>3 DEF Calls

-----------------------------------------------------------------------------
(* Creations and updates.                                                  *)

TypeAt(s) ==
  CASE s = "sg" -> SG [] s = "tg" -> TG [] s = "lb" -> LB [] s = "ls" -> LS [] s = "rule" -> Rule

\* What a stage has to create or update is of its type, and of the stack.
LEMMA DueFacts ==
  ASSUME IInv, NEW s \in {"sg", "tg", "lb", "ls", "rule"}, NEW part \in {"add", "upd"}, NEW k,
         Due(s, part, k)
  PROVE  /\ pc = s /\ k \in ResOf(TypeAt(s)) /\ k \in work[part]
         /\ part = "upd" => k \in DOMAIN live
         /\ part = "add" => k \notin DOMAIN live
<1>1. pc = s /\ k \in work[part]
  BY DEF Due
<1>2. CASE part = "add"
  BY <1>1, <1>2 DEF IInv, Staged, Adding, Matching, TypeAt
<1>3. CASE part = "upd"
  BY <1>1, <1>3 DEF IInv, Staged, Adding, Matching, TypeAt
<1> QED
  BY <1>1, <1>2, <1>3

LEMMA StageKept ==
  ASSUME IInv, NEW s \in {"sg", "tg", "lb", "ls", "rule"}, NEW part \in {"add", "upd"}, NEW k,
         Due(s, part, k), Done(part, k)
  PROVE  Staged' /\ Leftover'
<1>1. CASE Abort
  BY <1>1, AbortStaged
<1>2. CASE Did(part, k) /\ live' = With(live, k, stack.res[k])
  <2>1. live' = With(live, k, stack.res[k])
    BY <1>2
  <2>2. /\ pc = s /\ k \in ResOf(TypeAt(s))
        /\ (k \in work.add /\ Did("add", k)) \/ (k \in work.upd /\ Did("upd", k))
    BY <1>2, DueFacts
  <2>3. pc' = pc /\ stack' = stack /\ unmatched' = unmatched
    BY <1>2 DEF Did
  <2>4. /\ DOMAIN live' = DOMAIN live \cup {k} /\ live'[k] = stack.res[k]
        /\ \A j \in DOMAIN live \ {k} : live'[j] = live[j]
    BY <2>1 DEF With
  <2>5. Leftover'
    <3>1. /\ LiveOf(SG)' \subseteq LiveOf(SG) \cup ResOf(SG) /\ ResOf(SG)' = ResOf(SG)
          /\ LiveOf(TG)' \subseteq LiveOf(TG) \cup ResOf(TG) /\ ResOf(TG)' = ResOf(TG)
      BY <2>2, <2>3, <2>4 DEF LiveOf, ResOf
    <3> QED
      BY <2>2, <2>3, <3>1 DEF IInv, Leftover
  <2>6. (Present(SG) => Present(SG)') /\ (Present(TG) => Present(TG)')
    BY <2>3, <2>4 DEF Present, ResOf
  <2>7. /\ k \notin LB /\ Matched(LB) => Matched(LB)'
        /\ k \notin LS /\ Matched(LS) => Matched(LS)'
    BY <2>3, <2>4 DEF Matched, ResOf, LiveOf
  <2>10. CASE s = "sg"
    <3>1. Adding(SG)'
      BY <2>1, <2>2, <2>10, AddingKept DEF IInv, Staged, TypeAt
    <3>9. pc' = "sg"
      BY <2>2, <2>3, <2>10
    <3> QED
      BY <3>1, <3>9, <2>5 DEF Staged, Post
  <2>11. CASE s = "tg"
    <3>1. Adding(TG)'
      BY <2>1, <2>2, <2>11, AddingKept DEF IInv, Staged, TypeAt
    <3>2. Present(SG)'
      BY <2>2, <2>6, <2>11 DEF IInv, Staged
    <3>9. pc' = "tg"
      BY <2>2, <2>3, <2>11
    <3> QED
      BY <3>1, <3>2, <3>9, <2>5 DEF Staged, Post
  <2>12. CASE s = "lb"
    <3>1. Matching(LB)'
      BY <2>1, <2>2, <2>12, MatchingKept DEF IInv, Staged, TypeAt
    <3>2. Present(SG)' /\ Present(TG)'
      BY <2>2, <2>6, <2>12 DEF IInv, Staged
    <3>9. pc' = "lb"
      BY <2>2, <2>3, <2>12
    <3> QED
      BY <3>1, <3>2, <3>9, <2>5 DEF Staged, Post
  <2>13. CASE s = "ls"
    <3>1. k \notin LB
      BY <2>2, <2>13, KindAssumption DEF TypeAt, ResOf
    <3>2. Matching(LS)'
      BY <2>1, <2>2, <2>13, MatchingKept DEF IInv, Staged, TypeAt
    <3>3. Present(SG)' /\ Present(TG)' /\ Matched(LB)'
      BY <2>2, <2>6, <2>7, <2>13, <3>1 DEF IInv, Staged
    <3>9. pc' = "ls"
      BY <2>2, <2>3, <2>13
    <3> QED
      BY <3>2, <3>3, <3>9, <2>5 DEF Staged, Post
  <2>14. CASE s = "rule"
    <3>1. k \notin LB /\ k \notin LS
      BY <2>2, <2>14, KindAssumption DEF TypeAt, ResOf
    <3>2. Matching(Rule)'
      BY <2>1, <2>2, <2>14, MatchingKept DEF IInv, Staged, TypeAt
    <3>3. Present(SG)' /\ Present(TG)' /\ Matched(LB)' /\ Matched(LS)'
      BY <2>2, <2>6, <2>7, <2>14, <3>1 DEF IInv, Staged
    <3>9. pc' = "rule"
      BY <2>2, <2>3, <2>14
    <3> QED
      BY <3>2, <3>3, <3>9, <2>5 DEF Staged, Post
  <2> QED
    BY <2>10, <2>11, <2>12, <2>13, <2>14
<1> QED
  BY <1>1, <1>2 DEF Done

\* What a resource of the stack refers to is there before its stage.
LEMMA ThereBefore ==
  ASSUME IInv, NEW s \in {"sg", "tg", "lb", "ls", "rule"}, pc = s, NEW k \in ResOf(TypeAt(s))
  PROVE  /\ k \in DOMAIN stack.res /\ k \in Key /\ stack.res[k] \in Settings /\ Proper(k, stack.res[k])
         /\ stack.res[k].to \subseteq DOMAIN live
         /\ k \in LS \cup Rule => Parent[k] \in DOMAIN live
<1>1. /\ k \in DOMAIN stack.res /\ k \in Key /\ stack.res[k] \in Settings /\ Proper(k, stack.res[k])
      /\ stack.res[k].to \subseteq MayReferTo(k) \cap DOMAIN stack.res
      /\ k \in LS \cup Rule => Parent[k] \in DOMAIN stack.res
  BY SMT, StackAssumption DEF IInv, Shape, WellFormed, Proper, ResOf
<1>2. CASE s \in {"sg", "tg"}
  BY <1>1, <1>2, KindAssumption DEF TypeAt, ResOf, MayReferTo
<1>3. CASE s = "lb"
  BY <1>1, <1>3, KindAssumption DEF IInv, Staged, Present, TypeAt, ResOf, MayReferTo
<1>4. CASE s = "ls"
  <2>1. stack.res[k].to \subseteq DOMAIN live
    BY <1>1, <1>4, KindAssumption DEF IInv, Staged, Present, TypeAt, ResOf, MayReferTo
  <2>2. Parent[k] \in DOMAIN live
    BY <1>1, <1>4, KindAssumption, ParentAssumption DEF IInv, Staged, Matched, TypeAt, ResOf, LiveOf
  <2> QED
    BY <1>1, <2>1, <2>2
<1>5. CASE s = "rule"
  <2>1. stack.res[k].to \subseteq DOMAIN live
    BY <1>1, <1>5, KindAssumption DEF IInv, Staged, Present, TypeAt, ResOf, MayReferTo, Post
  <2>2. Parent[k] \in DOMAIN live
    BY <1>1, <1>5, KindAssumption, ParentAssumption DEF IInv, Staged, Matched, TypeAt, ResOf, LiveOf
  <2> QED
    BY <1>1, <2>1, <2>2
<1> QED
  BY <1>2, <1>3, <1>4, <1>5

\* The load balancer of the stack is the only one when it is created or updated.
LEMMA OnlyOne ==
  ASSUME IInv, NEW s \in {"sg", "tg", "lb", "ls", "rule"}, NEW part \in {"add", "upd"}, NEW k \in LB,
         Due(s, part, k)
  PROVE  \A j \in DOMAIN live \cap LB : j = k
<1>1. pc = s /\ k \in ResOf(TypeAt(s)) /\ (part = "upd" => k \in DOMAIN live)
  BY DueFacts
<1>2. s = "lb"
  BY <1>1, KindAssumption DEF TypeAt, ResOf
<1>3. CASE part = "upd"
  BY <1>1, <1>3 DEF IInv, Whole
<1>4. CASE part = "add"
  <2>1. work.del = {} /\ Matching(LB)
    BY <1>1, <1>2, <1>4 DEF Due, IInv, Staged
  <2>2. \A j \in DOMAIN live \cap LB : j \in LB \cap DOMAIN stack.res
    BY <2>1 DEF Matching, LiveOf, ResOf
  <2>3. k \in LB \cap DOMAIN stack.res
    BY <1>1 DEF ResOf
  <2> QED
    BY <2>2, <2>3, StackAssumption DEF IInv, Shape, WellFormed
<1> QED
  BY <1>3, <1>4

LEMMA CallsKept ==
  ASSUME IInv, NEW s \in {"sg", "tg", "lb", "ls", "rule"}, NEW part \in {"add", "upd"}, NEW k,
         NEW cur, NEW seq, Due(s, part, k), Calls(part, k, seq),
         cur = stack.res[k] \/ (part = "upd" /\ cur = live[k]),
         Leads(k, seq, cur, stack.res[k])
  PROVE  Promise!Next /\ IInv'
<1>1. pc = s /\ k \in ResOf(TypeAt(s)) /\ (part = "upd" => k \in DOMAIN live)
  BY DueFacts
<1>2. /\ k \in DOMAIN stack.res /\ stack.res[k].to \subseteq DOMAIN live
      /\ k \in LS \cup Rule => Parent[k] \in DOMAIN live
  BY <1>1, ThereBefore
<1>3. cur.to \subseteq DOMAIN live
  BY <1>1, <1>2 DEF IInv, Whole
<1>4. k \in LB => \A j \in DOMAIN live \cap LB : j = k
  BY OnlyOne
<1>5. Promise!Next /\ Shape' /\ Whole' /\ Done(part, k)
  BY <1>2, <1>3, <1>4, CallStep DEF IInv
<1> QED
  BY <1>5, StageKept DEF IInv

\* Every creation and update of the managers.
LEMMA PutActions ==
  ASSUME IInv, NEW k,
         \/ CreateSecurityGroup(k) \/ UpdateSecurityGroup(k)
         \/ CreateTargetGroup(k) \/ UpdateTargetGroup(k)
         \/ CreateLoadBalancer(k) \/ UpdateLoadBalancer(k)
         \/ CreateListener(k) \/ UpdateListener(k)
         \/ CreateListenerRule(k) \/ UpdateListenerRule(k)
  PROVE  Promise!Next /\ IInv'
<1> DEFINE des == stack.res[k]
<1>1. ASSUME NEW s \in {"sg", "tg", "lb", "ls", "rule"}, NEW part \in {"add", "upd"}, Due(s, part, k)
      PROVE  /\ k \in TypeAt(s) /\ des \in Settings /\ Proper(k, des)
             /\ part = "upd" => live[k] \in Settings /\ Proper(k, live[k])
  <2>1. pc = s /\ k \in ResOf(TypeAt(s)) /\ (part = "upd" => k \in DOMAIN live)
    BY <1>1, DueFacts
  <2>2. des \in Settings /\ Proper(k, des)
    BY <2>1, ThereBefore
  <2> QED
    BY <2>1, <2>2 DEF IInv, Shape, ResOf
<1>2. CASE CreateSecurityGroup(k) \/ UpdateSecurityGroup(k)
  BY <1>1, <1>2, CreatesLead, UpdatesLead, CallsKept DEF CreateSecurityGroup, UpdateSecurityGroup, TypeAt
<1>3. CASE CreateTargetGroup(k) \/ UpdateTargetGroup(k)
  BY <1>1, <1>3, CreatesLead, UpdatesLead, CallsKept DEF CreateTargetGroup, UpdateTargetGroup, TypeAt
<1>4. CASE CreateLoadBalancer(k) \/ UpdateLoadBalancer(k)
  BY <1>1, <1>4, CreatesLead, UpdatesLead, CallsKept DEF CreateLoadBalancer, UpdateLoadBalancer, TypeAt
<1>5. CASE CreateListener(k) \/ UpdateListener(k)
  BY <1>1, <1>5, CreatesLead, UpdatesLead, CallsKept DEF CreateListener, UpdateListener, TypeAt
<1>6. CASE UpdateListenerRule(k)
  BY <1>1, <1>6, UpdatesLead, CallsKept DEF UpdateListenerRule, TypeAt
<1>7. CASE CreateListenerRule(k)
  <2>1. /\ Due("rule", "add", k) /\ Did("add", k) /\ live' = With(live, k, ListenerRuleCreate(des))
        /\ UNCHANGED <<want, stack>>
    BY <1>7 DEF CreateListenerRule, Made, Did
  <2>2. ListenerRuleCreate(des) = des /\ des \in Settings /\ Proper(k, des)
    BY <1>1, <2>1, CreatesLead DEF TypeAt
  <2>3. /\ k \in DOMAIN stack.res /\ des.to \subseteq DOMAIN live
        /\ k \in LS \cup Rule => Parent[k] \in DOMAIN live
        /\ k \in LB => \A j \in DOMAIN live \cap LB : j = k
    BY <2>1, DueFacts, ThereBefore, OnlyOne
  <2>4. IsWork(work')
    BY SMT, <2>1, DidFacts DEF IInv, IsWork
  <2>5. Promise!Next /\ Shape' /\ Whole'
    BY <2>1, <2>2, <2>3, <2>4, PutStep DEF IInv
  <2>6. Done("add", k)
    BY <2>1, <2>2 DEF Done
  <2> QED
    BY <2>1, <2>5, <2>6, StageKept DEF IInv
<1> QED
  BY <1>2, <1>3, <1>4, <1>5, <1>6, <1>7

\* A refused update has set the tags; a refused creation has done nothing.
LEMMA RefusedAction ==
  ASSUME IInv, NEW k, AttachRefused(k)
  PROVE  (Promise!Next \/ UNCHANGED <<want, stack, live>>) /\ IInv'
<1>1. /\ Staged' /\ Leftover' /\ UNCHANGED <<want, stack>>
      /\ IsWork(work')
  BY AbortStaged DEF AttachRefused
<1>2. CASE k \in work.add
  <2>1. live' = live
    BY <1>2 DEF AttachRefused
  <2> QED
    BY <1>1, <2>1 DEF IInv, Shape, Whole, Proper, MayReferTo
<1>3. CASE k \notin work.add
  <2> DEFINE v == [live[k] EXCEPT !.tags = stack.res[k].tags]
  <2>1. PICK s \in {"ls", "rule"} : Due(s, "upd", k)
    BY <1>3 DEF AttachRefused, Due
  <2>2. pc = s /\ k \in ResOf(TypeAt(s)) /\ k \in DOMAIN live
    BY <2>1, DueFacts
  <2>3. k \in DOMAIN stack.res /\ stack.res[k] \in Settings
    BY <2>2, ThereBefore
  <2>4. live[k] \in Settings /\ Proper(k, live[k]) /\ live[k].to \subseteq DOMAIN live
    BY <2>2 DEF IInv, Shape, Whole
  <2>5. /\ v \in Settings /\ v.to = live[k].to /\ v.conf = live[k].conf /\ v.attrs = live[k].attrs
        /\ v.certs = live[k].certs
    BY <2>3, <2>4 DEF Settings
  <2>6. live' = With(live, k, v)
    BY <1>3 DEF AttachRefused, Tagged
  <2>7. /\ k \in LS \cup Rule => Parent[k] \in DOMAIN live
        /\ k \in LB => \A j \in DOMAIN live \cap LB : j = k
    BY <2>2 DEF IInv, Whole
  <2> HIDE DEF v
  <2>8. Proper(k, v)
    BY <2>4, <2>5 DEF Proper
  <2>9. Promise!Next /\ Shape' /\ Whole'
    BY <1>1, <2>3, <2>4, <2>5, <2>6, <2>7, <2>8, PutStep DEF IInv
  <2> QED
    BY <1>1, <2>9 DEF IInv
<1> QED
  BY <1>2, <1>3

-----------------------------------------------------------------------------
(* Deletions.                                                              *)

\* A resource that nothing refers to goes with its parts; none is planned.
LEMMA PartsFacts ==
  ASSUME Shape, NEW k \in DOMAIN live \ DOMAIN stack.res
  PROVE  /\ Parts(k) \subseteq DOMAIN live /\ Parts(k) \cap DOMAIN stack.res = {} /\ k \in Parts(k)
         /\ \A j \in DOMAIN live \ Parts(k) : j \in LS \cup Rule => Parent[j] \notin Parts(k)
         /\ k \in LB => Parts(k) \cap LB = {k} /\ Parts(k) \cap (SG \cup TG) = {}
         /\ k \in LS => Parts(k) \cap LS = {k} /\ Parts(k) \cap (SG \cup TG \cup LB) = {}
         /\ k \in Rule \cup SG \cup TG => Parts(k) = {k}
<1>1. Parts(k) \subseteq DOMAIN live /\ k \in Parts(k) /\ Parts(k) \subseteq {k} \cup LS \cup Rule
  BY DEF Parts, LiveOf
<1>2. \A j \in DOMAIN stack.res : j \in LS \cup Rule => Parent[j] \in DOMAIN stack.res
  BY StackAssumption DEF Shape, WellFormed
<1>3. \A j \in Parts(k) \ {k} :
        /\ j \in LS \cup Rule /\ j \in DOMAIN live
        /\ Parent[j] = k \/ (j \in Rule /\ Parent[Parent[j]] = k)
  BY DEF Parts, LiveOf
<1>4. \A j \in DOMAIN live : (j \in LS \cup Rule) /\ (Parent[j] = k \/ (j \in Rule /\ Parent[Parent[j]] = k))
         => j \in Parts(k)
  BY DEF Parts, LiveOf
<1>5. Parts(k) \cap DOMAIN stack.res = {}
  BY <1>2, <1>3, ParentAssumption
<1>6. \A j \in DOMAIN live \ Parts(k) : j \in LS \cup Rule => Parent[j] \notin Parts(k)
  <2> SUFFICES ASSUME NEW j \in DOMAIN live, j \in LS \cup Rule, Parent[j] \in Parts(k)
               PROVE  j \in Parts(k)
    OBVIOUS
  <2>1. CASE Parent[j] = k
    BY <1>4, <2>1
  <2>2. CASE Parent[j] # k
    <3>1. Parent[j] \in LS \cup Rule /\ (Parent[Parent[j]] = k \/ (Parent[j] \in Rule))
      BY <1>3, <2>2
    <3>2. j \in Rule /\ Parent[j] \in LS
      BY <3>1, KindAssumption, ParentAssumption
    <3> QED
      BY <1>4, <3>1, <3>2, KindAssumption
  <2> QED
    BY <2>1, <2>2
<1>7. k \in LB => Parts(k) \cap LB = {k} /\ Parts(k) \cap (SG \cup TG) = {}
  BY <1>1, KindAssumption
<1>8. k \in LS => Parts(k) \cap LS = {k} /\ Parts(k) \cap (SG \cup TG \cup LB) = {}
  <2>1. \A j \in Parts(k) \cap LS : k \in LS => j = k
    BY SMT, <1>3, KindAssumption, ParentAssumption
  <2> QED
    BY <1>1, <2>1, KindAssumption
<1>9. k \in Rule \cup SG \cup TG => Parts(k) = {k}
  <2>1. \A j \in LS \cup Rule : Parent[j] \in LB \cup LS /\ (j \in Rule => Parent[Parent[j]] \in LB)
    BY ParentAssumption
  <2> QED
    BY SMT, <1>1, <1>3, <2>1, KindAssumption
<1> QED
  BY <1>1, <1>5, <1>6, <1>7, <1>8, <1>9

\* What a stage deletes is there, not in the stack, and nobody's reference.
LEMMA DropFacts ==
  ASSUME IInv, NEW s \in {"lb", "ls", "rule", "posttg", "postsg"}, NEW k, Due(s, "del", k),
         k \in DOMAIN live
  PROVE  /\ pc = s /\ k \in work.del /\ k \notin DOMAIN stack.res
         /\ s = "lb" => k \in LB
         /\ s = "ls" => k \in LS
         /\ s = "rule" => k \in Rule
         /\ s = "posttg" => k \in TG
         /\ s = "postsg" => k \in SG
         /\ \A j \in DOMAIN live : live[j].to \cap Parts(k) = {}
<1>1. pc = s /\ k \in work.del
  BY DEF Due
<1>2. /\ s = "lb" => k \in LB /\ k \notin DOMAIN stack.res
      /\ s = "ls" => k \in LS /\ k \notin DOMAIN stack.res
      /\ s = "rule" => k \in Rule /\ k \notin DOMAIN stack.res
  BY <1>1 DEF IInv, Staged, Matching, LiveOf, ResOf
<1>3. /\ s = "posttg" => k \in TG /\ k \notin DOMAIN stack.res
      /\ s = "postsg" => k \in SG /\ k \notin DOMAIN stack.res
  BY <1>1 DEF IInv, Leftover
<1>4. k \notin DOMAIN stack.res
  BY <1>2, <1>3
<1>5. \A j \in DOMAIN live : live[j].to \subseteq MayReferTo(j)
  BY DEF IInv, Shape, Proper
<1>6. CASE s \in {"lb", "ls", "rule"}
  <2>1. Parts(k) \cap (SG \cup TG) = {}
    BY SMT, <1>2, <1>4, <1>6, PartsFacts, KindAssumption DEF IInv
  <2> QED
    BY <1>1, <1>2, <1>4, <1>5, <1>6, <2>1 DEF MayReferTo
<1>7. CASE s \in {"posttg", "postsg"}
  <2>1. Parts(k) = {k}
    BY <1>3, <1>4, <1>7, PartsFacts DEF IInv
  <2>2. Matched(LB) /\ Matched(LS) /\ Matched(Rule)
    BY <1>1, <1>7 DEF IInv, Staged, Post
  <2>3. \A j \in DOMAIN live \cap (LB \cup LS \cup Rule) :
           j \in DOMAIN stack.res /\ live[j] = stack.res[j]
    BY <2>2 DEF Matched, LiveOf, ResOf
  <2>4. \A j \in DOMAIN stack.res : stack.res[j].to \subseteq DOMAIN stack.res
    BY StackAssumption DEF IInv, Shape, WellFormed
  <2>5. \A j \in DOMAIN live : k \notin live[j].to
    BY <1>4, <1>5, <2>3, <2>4 DEF MayReferTo
  <2> QED
    BY <1>1, <1>3, <1>4, <1>7, <2>1, <2>5
<1> QED
  BY <1>6, <1>7

LEMMA DropKept ==
  ASSUME IInv, NEW s \in {"lb", "ls", "rule", "posttg", "postsg"}, NEW k \in DOMAIN live,
         Due(s, "del", k), live' = Without(live, Parts(k)), Did("del", k), want' = want
  PROVE  Promise!Next /\ IInv'
<1>1. /\ pc = s /\ k \in work.del /\ k \in DOMAIN live \ DOMAIN stack.res
      /\ \A j \in DOMAIN live : live[j].to \cap Parts(k) = {}
      /\ s = "lb" => k \in LB
      /\ s = "ls" => k \in LS
      /\ s = "rule" => k \in Rule
      /\ s = "posttg" => k \in TG
      /\ s = "postsg" => k \in SG
  BY DropFacts
<1>2. /\ Parts(k) \subseteq DOMAIN live /\ Parts(k) \cap DOMAIN stack.res = {}
      /\ \A j \in DOMAIN live \ Parts(k) : j \in LS \cup Rule => Parent[j] \notin Parts(k)
      /\ s = "lb" => Parts(k) \cap LB = {k}
      /\ s = "ls" => Parts(k) \cap LS = {k} /\ Parts(k) \cap LB = {}
      /\ s = "rule" => Parts(k) = {k}
      /\ s \in {"posttg", "postsg"} => Parts(k) = {k}
  BY <1>1, PartsFacts DEF IInv
<1>3. work' = [del |-> work.del \ {k}, add |-> work.add, upd |-> work.upd]
  BY DidFacts DEF IInv
<1>4. pc' = pc /\ stack' = stack /\ unmatched' = unmatched
  BY DEF Did
<1>5. IsWork(work')
  BY <1>3 DEF IsWork
<1>6. Promise!Next /\ Shape' /\ Whole'
  BY <1>1, <1>2, <1>4, <1>5, DropStep DEF IInv
<1>7. /\ DOMAIN live' = DOMAIN live \ Parts(k)
      /\ \A j \in DOMAIN live \ Parts(k) : live'[j] = live[j]
  BY DEF Without
<1>8. Leftover'
  <2>1. /\ LiveOf(SG)' \subseteq LiveOf(SG) \ Parts(k) /\ ResOf(SG)' = ResOf(SG)
        /\ LiveOf(TG)' \subseteq LiveOf(TG) \ Parts(k) /\ ResOf(TG)' = ResOf(TG)
    BY <1>4, <1>7 DEF LiveOf, ResOf
  <2> QED
    BY <1>1, <1>2, <1>3, <1>4, <2>1 DEF IInv, Leftover
<1>9. Present(SG)' /\ Present(TG)'
  <2>1. Present(SG) /\ Present(TG)
    BY <1>1 DEF IInv, Staged, Post
  <2> QED
    BY <1>2, <1>4, <1>7, <2>1 DEF Present, ResOf
<1>10. /\ Matched(LB) /\ Parts(k) \cap LB = {} => Matched(LB)'
       /\ Matched(LS) /\ Parts(k) \cap LS = {} => Matched(LS)'
       /\ Matched(Rule) /\ Parts(k) \cap Rule = {} => Matched(Rule)'
  BY <1>4, <1>7 DEF Matched, ResOf, LiveOf
<1>11. CASE s = "lb"
  <2>1. Matching(LB)'
    BY <1>1, <1>2, <1>11, MatchingDropped DEF IInv, Staged
  <2> QED
    BY <1>1, <1>4, <1>6, <1>8, <1>9, <1>11, <2>1 DEF IInv, Staged, Post
<1>12. CASE s = "ls"
  <2>1. Matching(LS)'
    BY <1>1, <1>2, <1>12, MatchingDropped DEF IInv, Staged
  <2>2. Matched(LB)'
    BY <1>1, <1>2, <1>10, <1>12 DEF IInv, Staged
  <2> QED
    BY <1>1, <1>4, <1>6, <1>8, <1>9, <1>12, <2>1, <2>2 DEF IInv, Staged, Post
<1>13. CASE s = "rule"
  <2>1. Matching(Rule)'
    BY SMT, <1>1, <1>2, <1>13, MatchingDropped DEF IInv, Staged
  <2>2. Matched(LB)' /\ Matched(LS)'
    BY <1>1, <1>2, <1>10, <1>13, KindAssumption DEF IInv, Staged
  <2> QED
    BY <1>1, <1>4, <1>6, <1>8, <1>9, <1>13, <2>1, <2>2 DEF IInv, Staged, Post
<1>14. CASE s \in {"posttg", "postsg"}
  <2>1. Matched(LB)' /\ Matched(LS)' /\ Matched(Rule)'
    BY <1>1, <1>2, <1>10, <1>14, KindAssumption DEF IInv, Staged, Post
  <2> QED
    BY <1>1, <1>4, <1>6, <1>8, <1>9, <1>14, <2>1 DEF IInv, Staged, Post
<1> QED
  BY <1>11, <1>12, <1>13, <1>14

\* Every deletion of the managers.
LEMMA DropActions ==
  ASSUME IInv, NEW k,
         \/ DeleteSecurityGroup(k) \/ DeleteTargetGroup(k) \/ DeleteLoadBalancer(k)
         \/ DeleteListener(k) \/ DeleteListenerRule(k)
  PROVE  (Promise!Next \/ UNCHANGED <<Refs(want.res), Refs(stack.res), Refs(live)>>) /\ IInv'
<1>1. ASSUME NEW s \in {"lb", "ls", "rule"}, Due(s, "del", k)
      PROVE  k \in DOMAIN live
  BY <1>1 DEF Due, IInv, Staged, Matching, LiveOf
<1>2. CASE DeleteListener(k)
  BY <1>1, <1>2, DropKept DEF DeleteListener, Drop
<1>3. CASE DeleteListenerRule(k)
  BY <1>1, <1>3, DropKept DEF DeleteListenerRule, Drop
<1>4. ASSUME NEW s \in {"posttg", "postsg"}, Due(s, "del", k), Drop("del", k)
      PROVE  (Promise!Next \/ UNCHANGED <<want, stack, live>>) /\ IInv'
  <2>1. live' = Without(live, Parts(k)) /\ Did("del", k) /\ want' = want
    BY <1>4 DEF Drop
  <2>2. CASE k \in DOMAIN live
    BY <1>4, <2>1, <2>2, DropKept
  <2>3. CASE k \notin DOMAIN live
    <3>1. pc = s /\ k \in SG \cup TG
      BY <1>4 DEF Due, IInv, Leftover
    <3>2. Parts(k) = {k}
      <4>1. \A j \in LS \cup Rule : Parent[j] \in LB \cup LS /\ (j \in Rule => Parent[Parent[j]] \in LB)
        BY ParentAssumption
      <4>2. \A j \in LS \cup Rule : Parent[j] # k /\ (j \in Rule => Parent[Parent[j]] # k)
        BY SMT, <3>1, <4>1, KindAssumption
      <4> QED
        BY <4>2 DEF Parts, LiveOf
    <3>3. live' = live
      BY <2>1, <2>3, <3>2 DEF Without, IInv, Shape
    <3>4. work' = [del |-> work.del \ {k}, add |-> work.add, upd |-> work.upd]
      BY <2>1, DidFacts DEF IInv
    <3>5. pc' = pc /\ stack' = stack /\ unmatched' = unmatched
      BY <2>1 DEF Did
    <3>6. Shape' /\ Whole'
      BY <2>1, <3>3, <3>4, <3>5 DEF IInv, Shape, Whole, IsWork, Proper, MayReferTo
    <3>7. Leftover'
      BY <2>3, <3>3, <3>4, <3>5 DEF IInv, Leftover, LiveOf, ResOf
    <3>8. Staged'
      BY <1>4, <3>1, <3>3, <3>5 DEF IInv, Staged, Post, Present, Matched, ResOf, LiveOf
    <3> QED
      BY <2>1, <3>3, <3>5, <3>6, <3>7, <3>8 DEF IInv
  <2> QED
    BY <2>2, <2>3
<1>5. CASE DeleteTargetGroup(k)
  BY <1>4, <1>5 DEF DeleteTargetGroup
<1>6. CASE DeleteSecurityGroup(k)
  BY <1>4, <1>6 DEF DeleteSecurityGroup
<1>7. CASE DeleteLoadBalancer(k)
  <2>1. Due("lb", "del", k) /\ k \in DOMAIN live /\ want' = want
    BY <1>1, <1>7 DEF DeleteLoadBalancer
  <2>2. CASE live' = Without(live, Parts(k)) /\ Did("del", k)
    BY <2>1, <2>2, DropKept
  <2>3. CASE live' = [live EXCEPT ![k].attrs = 0] /\ Abort
    <3>1. /\ DOMAIN live' = DOMAIN live /\ live' = [j \in DOMAIN live' |-> live'[j]]
          /\ \A j \in DOMAIN live \ {k} : live'[j] = live[j]
          /\ live'[k] = [live[k] EXCEPT !.attrs = 0]
      BY <2>1, <2>3
    <3>2. /\ live'[k] \in Settings /\ live'[k].to = live[k].to /\ live'[k].attrs = 0
          /\ live'[k].conf = live[k].conf /\ live'[k].certs = live[k].certs
      BY <2>1, <3>1, ValueAssumption DEF IInv, Shape, Settings
    <3>3. /\ Staged' /\ Leftover' /\ stack' = stack
          /\ IsWork(work')
      BY <2>3, AbortStaged
    <3>4. Shape'
      <4>1. \A j \in DOMAIN live : live[j] \in Settings /\ Proper(j, live[j])
        BY DEF IInv, Shape
      <4>2. Proper(k, live'[k])
        BY <2>1, <3>2, <4>1 DEF Proper
      <4>3. \A j \in DOMAIN live' : live'[j] \in Settings /\ Proper(j, live'[j])
        BY <2>1, <3>1, <3>2, <4>1, <4>2
      <4> QED
        BY <2>1, <3>1, <3>3, <4>3 DEF IInv, Shape, Proper, MayReferTo
    <3>5. Whole'
      BY <3>1, <3>2 DEF IInv, Whole
    <3>6. Refs(live') = Refs(live)
      BY <3>1, <3>2 DEF Refs
    <3> QED
      BY <2>1, <3>3, <3>4, <3>5, <3>6 DEF IInv, Refs
  <2> QED
    BY <1>7, <2>2, <2>3 DEF DeleteLoadBalancer
<1> QED
  BY <1>2, <1>3, <1>5, <1>6, <1>7 DEF Refs

-----------------------------------------------------------------------------
(* The stages follow each other.                                           *)

LEMMA MatchFacts ==
  ASSUME NEW found, NEW res
  PROVE  /\ Match(found, res).del = found \ res /\ Match(found, res).add = res \ found
         /\ Match(found, res).upd = res \cap found
         /\ [Match(found, res) EXCEPT !.del = {}]
              = [del |-> {}, add |-> res \ found, upd |-> res \cap found]
BY SMT DEF Match

\* A stage of groups that has nothing left to do has them all.
LEMMA AddingThrough ==
  ASSUME NEW T, Adding(T), work = NoWork
  PROVE  Present(T)
BY DEF Adding, Present, NoWork, LiveOf, ResOf

LEMMA MatchingThrough ==
  ASSUME NEW T, Matching(T), work = NoWork
  PROVE  Matched(T)
BY DEF Matching, Matched, NoWork, LiveOf, ResOf

\* All the listeners there are, and all their rules, are listed.
LEMMA AllListed ==
  ASSUME IInv
  PROVE  /\ Matched(LB) => {k \in LiveOf(LS) : Parent[k] \in {Parent[r] : r \in ResOf(LS)}} = LiveOf(LS)
         /\ Matched(LS) => {k \in LiveOf(Rule) : Parent[k] \in ResOf(LS)} = LiveOf(Rule)
<1>1. \A k \in DOMAIN live : k \in LS \cup Rule => Parent[k] \in DOMAIN live
  BY DEF IInv, Whole
<1>2. ASSUME Matched(LB), NEW k \in LiveOf(LS)
      PROVE  Parent[k] \in {Parent[r] : r \in ResOf(LS)}
  <2>1. Parent[k] \in LB \cap DOMAIN stack.res
    BY <1>1, <1>2, ParentAssumption DEF Matched, LiveOf, ResOf
  <2>2. \E l \in LS \cap DOMAIN stack.res : Parent[l] = Parent[k]
    BY <2>1, StackAssumption DEF IInv, Shape, WellFormed
  <2> QED
    BY <2>2 DEF ResOf
<1>3. ASSUME Matched(LS), NEW k \in LiveOf(Rule)
      PROVE  Parent[k] \in ResOf(LS)
  BY <1>1, <1>3, ParentAssumption DEF Matched, LiveOf, ResOf
<1> QED
  BY <1>2, <1>3

LEMMA MatchingBegun ==
  ASSUME IInv, NEW T, work' = Match(LiveOf(T), ResOf(T)), UNCHANGED <<stack, live>>
  PROVE  Matching(T)' /\ IsWork(work')
<1>1. work' = [del |-> LiveOf(T) \ ResOf(T), add |-> ResOf(T) \ LiveOf(T), upd |-> ResOf(T) \cap LiveOf(T)]
  BY DEF Match
<1>2. /\ work'.del = LiveOf(T) \ ResOf(T) /\ work'.add = ResOf(T) \ LiveOf(T)
      /\ work'.upd = ResOf(T) \cap LiveOf(T)
  BY SMT, <1>1
<1>3. Matching(T)'
  BY <1>2 DEF Matching, LiveOf, ResOf
<1> QED
  BY <1>1, <1>3 DEF IsWork

LEMMA AddingBegun ==
  ASSUME IInv, NEW T, work' = [Match(LiveOf(T), ResOf(T)) EXCEPT !.del = {}], UNCHANGED <<stack, live>>
  PROVE  Adding(T)' /\ IsWork(work')
<1>1. work' = [del |-> {}, add |-> ResOf(T) \ LiveOf(T), upd |-> ResOf(T) \cap LiveOf(T)]
  BY MatchFacts
<1>2. work'.del = {} /\ work'.add = ResOf(T) \ LiveOf(T) /\ work'.upd = ResOf(T) \cap LiveOf(T)
  BY SMT, <1>1
<1>3. Adding(T)'
  BY <1>2 DEF Adding, LiveOf, ResOf
<1> QED
  BY <1>1, <1>3 DEF IsWork

\* Matching what is listed with the stack changes nothing in AWS.
LEMMA SynthesizeActions ==
  ASSUME IInv, Synthesize
  PROVE  UNCHANGED <<want, stack, live>> /\ IInv'
<1>1. UNCHANGED <<want, stack, live>>
  BY DEF Synthesize, Begin, aws, SynthesizeSecurityGroups, SynthesizeTargetGroups,
     SynthesizeLoadBalancers, SynthesizeListeners, SynthesizeListenerRules,
     SynthesizeTargetGroupBindings, PostSynthesizeTargetGroupBindings,
     PostSynthesizeTargetGroups, PostSynthesizeSecurityGroups
<1>2. Whole' /\ (IsWork(work') => Shape')
  BY <1>1 DEF IInv, Whole, Shape, Proper, MayReferTo
<1>3. /\ (Present(SG) => Present(SG)') /\ (Present(TG) => Present(TG)')
      /\ (Matched(LB) => Matched(LB)') /\ (Matched(LS) => Matched(LS)')
      /\ (Matched(Rule) => Matched(Rule)')
  BY <1>1 DEF Present, Matched, LiveOf, ResOf
<1>5. CASE SynthesizeSecurityGroups
  <2>1. /\ pc' = "sg" /\ work' = [Match(LiveOf(SG), ResOf(SG)) EXCEPT !.del = {}]
        /\ unmatched' = LiveOf(SG) \ ResOf(SG)
    BY <1>5, MatchFacts DEF SynthesizeSecurityGroups, Begin
  <2>2. Adding(SG)' /\ IsWork(work')
    BY <1>1, <2>1, AddingBegun
  <2>3. Leftover'
    BY <1>1, <2>1 DEF Leftover, LiveOf, ResOf
  <2> QED
    BY <1>1, <1>2, <2>1, <2>2, <2>3 DEF IInv, Staged, Post
<1>6. CASE SynthesizeTargetGroups
  <2>1. /\ pc = "sg" /\ work = NoWork
        /\ pc' = "tg" /\ work' = [Match(LiveOf(TG), ResOf(TG)) EXCEPT !.del = {}]
        /\ unmatched' = unmatched \cup (LiveOf(TG) \ ResOf(TG))
    BY <1>6, MatchFacts DEF SynthesizeTargetGroups, Begin, Through
  <2>2. Adding(TG)' /\ IsWork(work')
    BY <1>1, <2>1, AddingBegun
  <2>3. Leftover'
    BY <1>1, <2>1 DEF IInv, Leftover, LiveOf, ResOf
  <2>4. Present(SG)
    BY <2>1, AddingThrough DEF IInv, Staged
  <2> QED
    BY <1>1, <1>2, <1>3, <2>1, <2>2, <2>3, <2>4 DEF IInv, Staged, Post
<1>7. CASE SynthesizeLoadBalancers
  <2>1. /\ pc = "tg" /\ work = NoWork /\ unmatched' = unmatched
        /\ pc' = "lb" /\ work' = Match(LiveOf(LB), ResOf(LB))
    BY <1>7 DEF SynthesizeLoadBalancers, Begin, Through
  <2>2. Matching(LB)' /\ IsWork(work')
    BY <1>1, <2>1, MatchingBegun
  <2>3. Leftover'
    BY <1>1, <2>1 DEF IInv, Leftover, LiveOf, ResOf
  <2>4. Present(SG) /\ Present(TG)
    BY <2>1, AddingThrough DEF IInv, Staged
  <2> QED
    BY <1>1, <1>2, <1>3, <2>1, <2>2, <2>3, <2>4 DEF IInv, Staged, Post
<1>8. CASE SynthesizeListeners
  <2>1. /\ pc = "lb" /\ work = NoWork /\ unmatched' = unmatched /\ pc' = "ls"
        /\ work' = Match({k \in LiveOf(LS) : Parent[k] \in {Parent[r] : r \in ResOf(LS)}}, ResOf(LS))
    BY <1>8 DEF SynthesizeListeners, Begin, Through
  <2>2. Present(SG) /\ Present(TG) /\ Matched(LB)
    BY <2>1, MatchingThrough DEF IInv, Staged
  <2>3. Matching(LS)' /\ IsWork(work')
    BY <1>1, <2>1, <2>2, AllListed, MatchingBegun
  <2>4. Leftover'
    BY <1>1, <2>1 DEF IInv, Leftover, LiveOf, ResOf
  <2> QED
    BY <1>1, <1>2, <1>3, <2>1, <2>2, <2>3, <2>4 DEF IInv, Staged, Post
<1>9. CASE SynthesizeListenerRules
  <2>1. /\ pc = "ls" /\ work = NoWork /\ unmatched' = unmatched /\ pc' = "rule"
        /\ work' = Match({k \in LiveOf(Rule) : Parent[k] \in ResOf(LS)}, ResOf(Rule))
    BY <1>9 DEF SynthesizeListenerRules, Begin, Through
  <2>2. Present(SG) /\ Present(TG) /\ Matched(LB) /\ Matched(LS)
    BY <2>1, MatchingThrough DEF IInv, Staged
  <2>3. Matching(Rule)' /\ IsWork(work')
    BY <1>1, <2>1, <2>2, AllListed, MatchingBegun
  <2>4. Leftover'
    BY <1>1, <2>1 DEF IInv, Leftover, LiveOf, ResOf
  <2> QED
    BY <1>1, <1>2, <1>3, <2>1, <2>2, <2>3, <2>4 DEF IInv, Staged, Post
<1>10. CASE SynthesizeTargetGroupBindings
  <2>1. /\ pc = "rule" /\ work = NoWork /\ unmatched' = unmatched /\ pc' = "tgb"
        /\ work' = [del |-> {}, add |-> DOMAIN stack.bind \ DOMAIN cache,
                    upd |-> DOMAIN stack.bind \cap DOMAIN cache]
    BY <1>10, MatchFacts DEF SynthesizeTargetGroupBindings, Begin, Through
  <2>2. Present(SG) /\ Present(TG) /\ Matched(LB) /\ Matched(LS) /\ Matched(Rule)
    BY <2>1, MatchingThrough DEF IInv, Staged
  <2>4. IsWork(work')
    BY <2>1 DEF IsWork
  <2>5. Leftover'
    BY <1>1, <2>1 DEF IInv, Leftover, LiveOf, ResOf
  <2> QED
    BY <1>1, <1>2, <1>3, <2>1, <2>2, <2>4, <2>5 DEF IInv, Staged, Post
<1>11. CASE PostSynthesizeTargetGroupBindings \/ PostSynthesizeTargetGroups \/ PostSynthesizeSecurityGroups
  <2>1. /\ pc \in Post /\ work = NoWork
        /\ \/ /\ pc = "tgb" /\ pc' = "posttgb" /\ unmatched' = unmatched
              /\ work' = [NoWork EXCEPT !.del = DOMAIN listed \ DOMAIN stack.bind]
           \/ /\ pc = "posttgb" /\ pc' = "posttg" /\ unmatched' = unmatched
              /\ work' = [NoWork EXCEPT !.del = unmatched \cap TG]
           \/ /\ pc = "posttg" /\ pc' = "postsg" /\ unmatched' = {}
              /\ work' = [NoWork EXCEPT !.del = unmatched \cap SG]
    BY <1>11 DEF PostSynthesizeTargetGroupBindings, PostSynthesizeTargetGroups,
       PostSynthesizeSecurityGroups, Begin, Through, Post
  <2>2. Present(SG) /\ Present(TG) /\ Matched(LB) /\ Matched(LS) /\ Matched(Rule)
    BY <2>1 DEF IInv, Staged
  <2>3. \A D : [NoWork EXCEPT !.del = D] = [del |-> D, add |-> {}, upd |-> {}]
    BY SMT DEF NoWork
  <2>4. \A D : [NoWork EXCEPT !.del = D].del = D
    BY <2>3
  <2>5. IsWork(work')
    BY <2>1, <2>3 DEF IsWork
  <2>6. unmatched \cap DOMAIN stack.res = {}
    BY <2>1 DEF IInv, Leftover, Post
  <2>7. Leftover'
    <3>1. LiveOf(SG)' = LiveOf(SG) /\ LiveOf(TG)' = LiveOf(TG) /\ ResOf(SG)' = ResOf(SG) /\ ResOf(TG)' = ResOf(TG)
      BY <1>1 DEF LiveOf, ResOf
    <3>2. CASE pc = "tgb"
      BY <1>1, <2>1, <2>6, <3>1, <3>2 DEF IInv, Leftover
    <3>3. CASE pc = "posttgb"
      <4>1. work'.del = unmatched \cap TG /\ pc' = "posttg" /\ unmatched' = unmatched
        BY <2>1, <2>4, <3>3
      <4>2. LiveOf(TG) \subseteq ResOf(TG) \cup (unmatched \cap TG) /\ LiveOf(SG) \subseteq ResOf(SG) \cup unmatched
        BY <3>3 DEF IInv, Leftover, LiveOf
      <4> QED
        BY <1>1, <2>6, <3>1, <4>1, <4>2 DEF IInv, Leftover
    <3>4. CASE pc = "posttg"
      <4>1. work'.del = unmatched \cap SG /\ pc' = "postsg" /\ unmatched' = {} /\ work.del = {}
        BY <2>1, <2>4, <3>4 DEF NoWork
      <4>2. LiveOf(TG) \subseteq ResOf(TG) /\ LiveOf(SG) \subseteq ResOf(SG) \cup (unmatched \cap SG)
        BY <3>4, <4>1 DEF IInv, Leftover, LiveOf
      <4> QED
        BY <1>1, <2>6, <3>1, <4>1, <4>2 DEF IInv, Leftover
    <3> QED
      BY <2>1, <3>2, <3>3, <3>4
  <2>8. pc' \in {"posttgb", "posttg", "postsg"}
    BY <2>1
  <2> QED
    BY <1>1, <1>2, <1>3, <2>2, <2>5, <2>7, <2>8 DEF IInv, Staged, Post
<1> QED
  BY <1>1, <1>5, <1>6, <1>7, <1>8, <1>9, <1>10, <1>11 DEF Synthesize

-----------------------------------------------------------------------------
(* The other steps leave the resources alone.                              *)

Idle(k) ==
  \/ Reset
  \/ UNCHANGED <<pc, work, unmatched>>
  \/ pc \in {"tgb", "posttgb"} /\ (Did("add", k) \/ Did("upd", k) \/ Did("del", k))

LEMMA IdleKept ==
  ASSUME IInv, NEW k, UNCHANGED <<want, stack, live>>, Idle(k)
  PROVE  IInv'
<1>1. Whole' /\ (IsWork(work') => Shape')
  BY DEF IInv, Whole, Shape, Proper, MayReferTo
<1>2. CASE Reset
  BY <1>1, <1>2 DEF IInv, Reset, Staged, Leftover, NoWork, Post, IsWork
<1>3. CASE UNCHANGED <<pc, work, unmatched>>
  <2>1. Staged'
    BY <1>3 DEF IInv, Staged, Post, Present, Adding, Matching, Matched, ResOf, LiveOf
  <2>2. Leftover' /\ Shape'
    BY <1>1, <1>3 DEF IInv, Leftover, Shape, IsWork, LiveOf, ResOf
  <2> QED
    BY <1>1, <2>1, <2>2 DEF IInv
<1>4. CASE pc \in {"tgb", "posttgb"} /\ (Did("add", k) \/ Did("upd", k) \/ Did("del", k))
  <2>1. UNCHANGED <<pc, unmatched>> /\ pc \in {"tgb", "posttgb"}
    BY <1>4 DEF Did
  <2>2. IsWork(work')
    BY SMT, <1>4, DidFacts DEF IInv, IsWork
  <2>3. Leftover'
    BY <2>1 DEF IInv, Leftover, LiveOf, ResOf
  <2>4. Staged'
    BY <2>1 DEF IInv, Staged, Post, Present, Matched, ResOf, LiveOf
  <2> QED
    BY <1>1, <2>2, <2>3, <2>4 DEF IInv
<1> QED
  BY <1>2, <1>3, <1>4 DEF Idle

\* Steps on the bindings, of the queue and of the world outside.
LEMMA OtherActions ==
  ASSUME IInv, NEW k,
         \/ Resync \/ Finish \/ Fail \/ Watch \/ BindingObserved \/ BindingDeleted
         \/ Release(k) \/ ReconcileBinding(k) \/ CreateTargetGroupBinding(k)
         \/ UpdateTargetGroupBinding(k) \/ DeleteTargetGroupBinding(k)
  PROVE  UNCHANGED <<want, stack, live>> /\ IInv'
<1>1. CASE Resync \/ Watch \/ Release(k) \/ ReconcileBinding(k)
  BY <1>1, IdleKept DEF Resync, Watch, Release, ReconcileBinding, ctrl, aws, Idle
<1>2. CASE Finish \/ Fail \/ Refuse
  BY <1>2, IdleKept DEF Finish, Fail, Refuse, Abort, Reset, aws, Idle
<1>3. ASSUME NEW w, Returned(k, w), pc \in {"tgb", "posttgb"}
      PROVE  UNCHANGED <<want, stack, live>> /\ IInv'
  <2>1. UNCHANGED <<want, live>> /\ (Did("add", k) \/ Did("upd", k) \/ Did("del", k))
    BY <1>3 DEF Returned, aws
  <2>2. stack' = stack
    BY <2>1 DEF Did
  <2> QED
    BY <1>3, <2>1, <2>2, IdleKept DEF Idle
<1>4. CASE CreateTargetGroupBinding(k)
  BY <1>2, <1>3, <1>4 DEF CreateTargetGroupBinding, Due
<1>5. CASE UpdateTargetGroupBinding(k)
  BY <1>2, <1>3, <1>5 DEF UpdateTargetGroupBinding, Due
<1>6. CASE DeleteTargetGroupBinding(k)
  BY <1>2, <1>3, <1>6 DEF DeleteTargetGroupBinding, Due
<1>7. CASE BindingObserved \/ BindingDeleted
  BY <1>2, <1>7, IdleKept DEF BindingObserved, BindingDeleted, aws, Idle
<1> QED
  BY <1>1, <1>2, <1>4, <1>5, <1>6, <1>7

\* Edits and new deployments.
LEMMA RoundActions ==
  ASSUME IInv, Edit \/ Deploy
  PROVE  Promise!Next /\ IInv'
<1>1. \A s \in Stacks : Promise!IsStack(Refs(s.res))
  <2> SUFFICES ASSUME NEW s \in Stacks
               PROVE  Promise!IsStack(Refs(s.res))
    OBVIOUS
  <2>1. WellFormed(s)
    BY StackAssumption
  <2>2. DOMAIN Refs(s.res) = DOMAIN s.res /\ Refs(s.res) = [k \in DOMAIN Refs(s.res) |-> Refs(s.res)[k]]
    BY DEF Refs
  <2>3. \A k \in DOMAIN s.res : Refs(s.res)[k] \subseteq DOMAIN s.res
    BY <2>1 DEF Refs, WellFormed
  <2> QED
    BY <2>1, <2>2, <2>3 DEF Promise!IsStack, WellFormed
<1>2. CASE Edit
  <2>1. want' \in Stacks /\ UNCHANGED <<pc, stack, work, unmatched, live>>
    BY <1>2 DEF Edit, ctrl, aws
  <2>2. Promise!Edit
    BY <1>1, <2>1 DEF Promise!Edit, Refs
  <2>3. Shape' /\ Whole' /\ Leftover'
    BY SMT, <2>1 DEF IInv, Shape, Whole, Leftover, Proper, MayReferTo, IsWork, LiveOf, ResOf
  <2>4. Staged'
    BY <2>1 DEF IInv, Staged, Post, Present, Adding, Matching, Matched, ResOf, LiveOf
  <2> QED
    BY <2>2, <2>3, <2>4 DEF IInv, Promise!Next
<1>3. CASE Deploy
  <2>1. stack' = want /\ pc' = "start" /\ UNCHANGED <<want, work, unmatched, live>>
    BY <1>3 DEF Deploy, aws
  <2>2. Promise!Plan
    BY <2>1 DEF Promise!Plan, Refs
  <2>3. Shape' /\ Whole' /\ Leftover'
    BY SMT, <2>1 DEF IInv, Shape, Whole, Leftover, Proper, MayReferTo, IsWork, LiveOf, ResOf
  <2>4. Staged'
    BY <2>1 DEF Staged, Post
  <2> QED
    BY <2>2, <2>3, <2>4 DEF IInv, Promise!Next
<1> QED
  BY <1>2, <1>3

-----------------------------------------------------------------------------
(* All steps together.                                                     *)

LEMMA FirstState == Init => Promise!Init /\ IInv
<1> SUFFICES ASSUME Init PROVE Promise!Init /\ IInv
  OBVIOUS
<1>1. want \in Stacks /\ stack = NoStack /\ stack \in Stacks /\ DOMAIN stack.res = {} /\ DOMAIN live = {}
  BY StackAssumption DEF Init, Empty
<1>2. IInv
  BY <1>1 DEF Init, IInv, Shape, Whole, Staged, Leftover, Post, Empty, NoWork, IsWork
<1>3. WellFormed(want)
  BY <1>1, StackAssumption
<1>4. DOMAIN Refs(want.res) = DOMAIN want.res /\ Refs(want.res) = [k \in DOMAIN Refs(want.res) |-> Refs(want.res)[k]]
  BY DEF Refs
<1>5. \A k \in DOMAIN want.res : Refs(want.res)[k] \subseteq DOMAIN want.res
  BY <1>3 DEF Refs, WellFormed
<1>6. Promise!IsStack(Refs(want.res))
  BY <1>3, <1>4, <1>5 DEF Promise!IsStack, WellFormed
<1>7. Refs(stack.res) = Promise!NoResources /\ Refs(live) = Promise!NoResources
  BY <1>1 DEF Refs, Promise!NoResources
<1> QED
  BY <1>2, <1>6, <1>7 DEF Promise!Init

LEMMA EachStep == IInv /\ [Next]_vars => IInv' /\ [Promise!Next]_(Promise!vars)
<1> SUFFICES ASSUME IInv, [Next]_vars
             PROVE  IInv' /\ (Promise!Next \/ UNCHANGED <<Refs(want.res), Refs(stack.res), Refs(live)>>)
  BY DEF Promise!vars
<1>1. CASE UNCHANGED vars
  BY <1>1, IdleKept DEF vars, ctrl, aws, Idle, Refs
<1>2. CASE Edit \/ Deploy
  BY <1>2, RoundActions
<1>3. CASE Synthesize
  BY <1>3, SynthesizeActions DEF Refs
<1>4. CASE Resync \/ Finish \/ Fail \/ Watch \/ BindingObserved \/ BindingDeleted
  BY <1>4, OtherActions DEF Refs
<1>5. ASSUME NEW k \in Key, Release(k) \/ ReconcileBinding(k)
      PROVE  IInv' /\ UNCHANGED <<Refs(want.res), Refs(stack.res), Refs(live)>>
  BY <1>5, OtherActions DEF Refs
<1>6. ASSUME NEW k \in Key, Manage(k)
      PROVE  IInv' /\ (Promise!Next \/ UNCHANGED <<Refs(want.res), Refs(stack.res), Refs(live)>>)
  <2>1. CASE \/ CreateSecurityGroup(k) \/ UpdateSecurityGroup(k)
             \/ CreateTargetGroup(k) \/ UpdateTargetGroup(k)
             \/ CreateLoadBalancer(k) \/ UpdateLoadBalancer(k)
             \/ CreateListener(k) \/ UpdateListener(k)
             \/ CreateListenerRule(k) \/ UpdateListenerRule(k)
    BY <2>1, PutActions
  <2>2. CASE \/ DeleteSecurityGroup(k) \/ DeleteTargetGroup(k) \/ DeleteLoadBalancer(k)
             \/ DeleteListener(k) \/ DeleteListenerRule(k)
    BY <2>2, DropActions
  <2>3. CASE AttachRefused(k)
    BY <2>3, RefusedAction DEF Refs
  <2>4. CASE CreateTargetGroupBinding(k) \/ UpdateTargetGroupBinding(k) \/ DeleteTargetGroupBinding(k)
    BY <2>4, OtherActions DEF Refs
  <2> QED
    BY <1>6, <2>1, <2>2, <2>3, <2>4 DEF Manage
<1> QED
  BY <1>1, <1>2, <1>3, <1>4, <1>5, <1>6 DEF Next, Controller

\* Deploying a stack through the synthesizers, in their order and with every
\* failure, implements the abstract stack: only what the stack names is made
\* or modified, only what it does not name is deleted, and at every moment
\* all that a security group, target group, load balancer, listener or rule
\* refers to exists.
THEOREM Refinement == Spec => KeepsPromise
  BY FirstState, EachStep, PTL DEF Spec, KeepsPromise, Promise!Spec

\* At every moment, with a deployment half done, failed or abandoned, no
\* security group, target group, load balancer, listener or rule in AWS
\* refers to or is a part of one that does not exist.
THEOREM NoDanglingReference == Spec => []Promise!Integrity
<1>1. IInv => Promise!Integrity
  <2> SUFFICES ASSUME IInv PROVE Promise!IsStack(Refs(live))
    BY DEF Promise!Integrity
  <2>1. DOMAIN Refs(live) = DOMAIN live /\ Refs(live) = [k \in DOMAIN Refs(live) |-> Refs(live)[k]]
    BY DEF Refs
  <2>2. \A k \in DOMAIN live : Refs(live)[k] \subseteq DOMAIN live
    BY DEF IInv, Whole, Refs
  <2> QED
    BY <2>1, <2>2 DEF IInv, Shape, Promise!IsStack
<1> QED
  BY <1>1, FirstState, EachStep, PTL DEF Spec

\* A deployment that comes to its end has made AWS what its stack says, with
\* every setting of every resource and nothing else, from whatever earlier
\* deployments, failed or abandoned at any call, had left.
THEOREM ExactDeployment == Spec => []DeployedExactly
<1>1. IInv => DeployedExactly
  <2> SUFFICES ASSUME IInv, pc = "postsg", work = NoWork PROVE live = stack.res
    BY DEF DeployedExactly, Through
  <2>1. Present(SG) /\ Present(TG) /\ Matched(LB) /\ Matched(LS) /\ Matched(Rule)
    BY DEF IInv, Staged, Post
  <2>2. LiveOf(TG) \subseteq ResOf(TG) /\ LiveOf(SG) \subseteq ResOf(SG)
    BY DEF IInv, Leftover, NoWork
  <2>3. /\ DOMAIN live \subseteq Key /\ live = [k \in DOMAIN live |-> live[k]]
        /\ DOMAIN stack.res \subseteq Key /\ stack.res \in [DOMAIN stack.res -> Settings]
    BY StackAssumption DEF IInv, Shape, WellFormed
  <2>4. DOMAIN live = DOMAIN stack.res
    BY <2>1, <2>2, <2>3 DEF Present, Matched, LiveOf, ResOf, Key
  <2>5. \A k \in DOMAIN live : live[k] = stack.res[k]
    BY <2>1, <2>3, <2>4 DEF Present, Matched, LiveOf, ResOf, Key
  <2>6. stack.res = [k \in DOMAIN stack.res |-> stack.res[k]]
    BY <2>3
  <2> QED
    BY <2>3, <2>4, <2>5, <2>6
<1> QED
  BY <1>1, FirstState, EachStep, PTL DEF Spec

\* LoadBalancerSynthesizer deletes before it creates, and the parts of a load
\* balancer go with it: even while one load balancer replaces another, the
\* listeners and rules that use a target group belong to one.
THEOREM OneLoadBalancer == Spec => []OneLoadBalancerPerTarget
<1>1. IInv => OneLoadBalancerPerTarget
  <2> SUFFICES ASSUME IInv PROVE OneLoadBalancerPerTarget
    OBVIOUS
  <2> DEFINE Of(k) == IF k \in Rule THEN Parent[Parent[k]] ELSE Parent[k]
  <2>1. \A k \in DOMAIN live \cap LS : Parent[k] \in DOMAIN live \cap LB
    BY ParentAssumption DEF IInv, Whole
  <2>2. \A k \in DOMAIN live \cap Rule : Parent[k] \in DOMAIN live \cap LS
    BY ParentAssumption DEF IInv, Whole
  <2>3. \A k \in DOMAIN live \cap (LS \cup Rule) : Of(k) \in DOMAIN live \cap LB
    BY <2>1, <2>2
  <2>4. \A i, j \in DOMAIN live \cap LB : i = j
    BY DEF IInv, Whole
  <2> QED
    BY <2>3, <2>4 DEF OneLoadBalancerPerTarget
<1> QED
  BY <1>1, FirstState, EachStep, PTL DEF Spec

-----------------------------------------------------------------------------
(* Bindings and target groups.                                             *)

\* The bindings are left alone, and it is not their turn.
Aside == pc \notin {"tgb", "posttgb"} /\ UNCHANGED <<pc, stack, listed, k8s>>

\* A step of a manager of AWS resources takes no target group but one that
\* PostSynthesize is to delete.
LEMMA ManagerSteps ==
  ASSUME IInv, NEW k \in Key, Manage(k)
  PROVE  /\ \/ CreateTargetGroupBinding(k) \/ UpdateTargetGroupBinding(k) \/ DeleteTargetGroupBinding(k)
            \/ pc' = "idle" \/ Aside
         /\ \A t \in TG \cap (DOMAIN live \ DOMAIN live') :
              pc = "posttg" /\ t \notin DOMAIN stack.res
<1>1. ASSUME NEW s \in {"sg", "tg", "lb", "ls", "rule"}, NEW part, NEW seq, Due(s, part, k), Calls(part, k, seq)
      PROVE  (pc' = "idle" \/ Aside) /\ DOMAIN live \subseteq DOMAIN live'
  <2>1. CASE Made(part, k, seq[Len(seq)])
    BY <1>1, <2>1 DEF Calls, Due, Made, Did, With, Aside
  <2>2. CASE \E i \in 1..(Len(seq) - 1) : live' = With(live, k, seq[i]) /\ Fault /\ Abort
    BY <2>2 DEF With, Abort, Reset
  <2> QED
    BY <1>1, <2>1, <2>2 DEF Calls
<1>2. CASE CreateSecurityGroup(k) \/ UpdateSecurityGroup(k)
  BY <1>1, <1>2 DEF CreateSecurityGroup, UpdateSecurityGroup
<1>3. CASE CreateTargetGroup(k) \/ UpdateTargetGroup(k)
  BY <1>1, <1>3 DEF CreateTargetGroup, UpdateTargetGroup
<1>4. CASE CreateLoadBalancer(k) \/ UpdateLoadBalancer(k)
  BY <1>1, <1>4 DEF CreateLoadBalancer, UpdateLoadBalancer
<1>5. CASE CreateListener(k) \/ UpdateListener(k) \/ UpdateListenerRule(k)
  BY <1>1, <1>5 DEF CreateListener, UpdateListener, UpdateListenerRule
<1>6. CASE CreateListenerRule(k)
  BY <1>6 DEF CreateListenerRule, Due, Made, Did, With, Aside
<1>7. CASE AttachRefused(k)
  BY <1>7 DEF AttachRefused, Abort, Reset, With
<1>8. ASSUME NEW s \in {"lb", "ls", "rule", "posttg", "postsg"}, Due(s, "del", k), live' = Without(live, Parts(k))
      PROVE  \A t \in TG \cap (DOMAIN live \ DOMAIN live') :
               pc = "posttg" /\ t \notin DOMAIN stack.res
  <2> SUFFICES ASSUME NEW t \in TG \cap (DOMAIN live \ DOMAIN live')
               PROVE  pc = "posttg" /\ t \notin DOMAIN stack.res
    OBVIOUS
  <2>1. t \in Parts(k)
    BY <1>8 DEF Without
  <2>2. t = k
    BY <2>1, KindAssumption DEF Parts, LiveOf
  <2> QED
    BY <1>8, <2>2, DropFacts, KindAssumption
<1>9. CASE DeleteListener(k) \/ DeleteListenerRule(k) \/ DeleteTargetGroup(k) \/ DeleteSecurityGroup(k)
  <2>1. Aside
    BY <1>9 DEF DeleteListener, DeleteListenerRule, DeleteTargetGroup, DeleteSecurityGroup, Due, Drop,
       Did, Aside
  <2> QED
    BY <1>8, <1>9, <2>1 DEF DeleteListener, DeleteListenerRule, DeleteTargetGroup, DeleteSecurityGroup, Drop
<1>10. CASE DeleteLoadBalancer(k)
  <2>1. CASE live' = Without(live, Parts(k)) /\ Did("del", k)
    BY <1>8, <1>10, <2>1 DEF DeleteLoadBalancer, Due, Did, Aside
  <2>2. CASE live' = [live EXCEPT ![k].attrs = 0] /\ Abort
    BY <2>2 DEF Abort, Reset
  <2> QED
    BY <1>10, <2>1, <2>2 DEF DeleteLoadBalancer
<1>11. CASE CreateTargetGroupBinding(k) \/ UpdateTargetGroupBinding(k) \/ DeleteTargetGroupBinding(k)
  BY <1>11, OtherActions
<1> QED
  BY <1>2, <1>3, <1>4, <1>5, <1>6, <1>7, <1>9, <1>10, <1>11 DEF Manage

\* What the informer shows stays true of the bindings to be deleted.
LEMMA BindingsKept ==
  ASSUME IInv, BInv, [Next]_vars
  PROVE  BInv'
<1>1. CASE pc' \notin {"tgb", "posttgb", "posttg"}
  BY <1>1 DEF BInv
<1>2. ASSUME UNCHANGED <<pc, stack, listed, work, wait>>, DOMAIN tgb' \subseteq DOMAIN tgb,
             cache' = cache \/ DOMAIN cache' = DOMAIN tgb'
      PROVE  BInv'
  BY <1>2 DEF BInv
<1>3. CASE UNCHANGED vars \/ Edit \/ Resync \/ Watch
  BY <1>2, <1>3 DEF vars, ctrl, k8s, Edit, Resync, Watch
<1>4. CASE Deploy \/ Finish \/ Fail
  BY <1>1, <1>4 DEF Deploy, Finish, Fail, Abort, Reset
<1>5. ASSUME NEW k \in Key, Release(k) \/ ReconcileBinding(k)
      PROVE  BInv'
  <2>1. CASE Release(k)
    BY <1>2, <2>1 DEF Release, ctrl, k8s
  <2>2. CASE ReconcileBinding(k)
    <3>1. DOMAIN tgb' \subseteq DOMAIN tgb
      BY <2>2 DEF ReconcileBinding, Without
    <3> QED
      BY <1>2, <2>2, <3>1 DEF ReconcileBinding, ctrl
  <2> QED
    BY <1>5, <2>1, <2>2
<1>6. CASE Synthesize
  <2>1. CASE \/ SynthesizeSecurityGroups \/ SynthesizeTargetGroups \/ SynthesizeLoadBalancers
             \/ SynthesizeListeners \/ SynthesizeListenerRules \/ PostSynthesizeSecurityGroups
    BY <1>1, <2>1 DEF SynthesizeSecurityGroups, SynthesizeTargetGroups, SynthesizeLoadBalancers,
       SynthesizeListeners, SynthesizeListenerRules, PostSynthesizeSecurityGroups, Begin
  <2>2. CASE SynthesizeTargetGroupBindings
    <3>1. /\ pc' = "tgb" /\ listed' = cache /\ UNCHANGED <<stack, tgb, cache>>
          /\ work'.add = DOMAIN stack.bind \ DOMAIN cache
      BY <2>2, MatchFacts DEF SynthesizeTargetGroupBindings, Begin, k8s
    <3> QED
      BY <3>1 DEF BInv
  <2>3. CASE PostSynthesizeTargetGroupBindings
    <3>1. /\ pc = "tgb" /\ pc' = "posttgb" /\ UNCHANGED <<stack, listed, tgb, cache>>
          /\ work' = [NoWork EXCEPT !.del = DOMAIN listed \ DOMAIN stack.bind]
      BY <2>3 DEF PostSynthesizeTargetGroupBindings, Begin, Through, k8s
    <3>2. work'.del = DOMAIN listed \ DOMAIN stack.bind
      BY <3>1 DEF NoWork
    <3> QED
      BY <3>1, <3>2 DEF BInv
  <2>4. CASE PostSynthesizeTargetGroups
    <3>1. /\ pc = "posttgb" /\ pc' = "posttg" /\ UNCHANGED <<stack, listed, tgb, cache>>
          /\ work.del = {} /\ wait = None
      BY <2>4 DEF PostSynthesizeTargetGroups, Begin, Through, NoWork, k8s
    <3>2. \A k \in DOMAIN listed \ DOMAIN stack.bind : k \notin DOMAIN tgb
      BY <3>1 DEF BInv
    <3> QED
      BY <3>1, <3>2 DEF BInv
  <2> QED
    BY <1>6, <2>1, <2>2, <2>3, <2>4 DEF Synthesize
<1>7. CASE Refuse
  BY <1>1, <1>7 DEF Refuse, Abort, Reset
<1>8. CASE BindingObserved \/ BindingDeleted
  <2>1. CASE pc = "tgb" /\ UNCHANGED <<pc, stack, listed, work, k8s>>
    BY <2>1 DEF BInv, k8s
  <2>2. CASE BindingDeleted
    BY <2>2 DEF BindingDeleted, BInv, k8s
  <2> QED
    BY <1>7, <1>8, <2>1, <2>2 DEF BindingObserved
<1>9. ASSUME NEW k, Did("add", k) \/ Did("upd", k) \/ Did("del", k)
      PROVE  work'.add \subseteq work.add /\ (Did("del", k) => work'.del = work.del \ {k})
  BY SMT, <1>9, DidFacts DEF IInv
<1>10. ASSUME NEW k \in Key, Manage(k)
      PROVE  BInv'
  <2>1. CASE Aside
    BY <2>1 DEF Aside, BInv, k8s
  <2>2. CASE CreateTargetGroupBinding(k)
    <3>1. CASE tgb' = With(tgb, k, buildK8sTargetGroupBinding(k)) /\ Returned(k, None)
      <4>1. pc = "tgb" /\ k \in work.add /\ UNCHANGED <<pc, stack, listed, cache>>
        BY <2>2, <3>1 DEF CreateTargetGroupBinding, Due, Returned, Did
      <4>2. DOMAIN tgb' = DOMAIN tgb \cup {k} /\ k \in DOMAIN stack.bind
        BY <3>1, <4>1 DEF With, BInv
      <4>3. work'.add \subseteq work.add
        BY <1>9, <3>1 DEF Returned
      <4> QED
        BY <4>1, <4>2, <4>3 DEF BInv
    <3> QED
      BY <1>7, <2>2, <3>1 DEF CreateTargetGroupBinding
  <2>3. CASE UpdateTargetGroupBinding(k)
    <3>1. ASSUME NEW w, Returned(k, w), DOMAIN tgb' = DOMAIN tgb PROVE BInv'
      <4>1. pc = "tgb" /\ UNCHANGED <<pc, stack, listed, cache>>
        BY <2>3, <3>1 DEF UpdateTargetGroupBinding, Due, Returned, Did
      <4>2. work'.add \subseteq work.add
        BY <1>9, <3>1 DEF Returned
      <4> QED
        BY <3>1, <4>1, <4>2 DEF BInv
    <3> QED
      BY <1>7, <2>3, <3>1 DEF UpdateTargetGroupBinding
  <2>4. CASE DeleteTargetGroupBinding(k)
    <3>1. CASE tgb' = [tgb EXCEPT ![k].del = TRUE] /\ Returned(k, k)
      <4>1. /\ pc = "posttgb" /\ wait = None /\ wait' = k /\ Did("del", k)
            /\ UNCHANGED <<pc, stack, listed, cache>> /\ DOMAIN tgb' = DOMAIN tgb
        BY <2>4, <3>1 DEF DeleteTargetGroupBinding, Due, Returned, Did
      <4>2. work'.del = work.del \ {k} /\ k # None
        BY <1>9, <4>1, KindAssumption
      <4> QED
        BY <4>1, <4>2 DEF BInv
    <3> QED
      BY <1>7, <2>4, <3>1 DEF DeleteTargetGroupBinding
  <2> QED
    BY <1>1, <1>10, <2>1, <2>2, <2>3, <2>4, ManagerSteps
<1> QED
  BY <1>3, <1>4, <1>5, <1>6, <1>8, <1>10 DEF Next, Controller

\* PostSynthesize deletes a target group only when the binding to it that the
\* informer showed is gone, and with it the targets that it registered.
THEOREM BindingsGoFirst == Spec => BindingGoesFirst
<1>1. Init => BInv
  BY DEF Init, BInv
<1>2. IInv /\ BInv /\ [Next]_vars => BInv'
  BY BindingsKept
<1>3. IInv /\ BInv /\ [Next]_vars =>
        [\A k \in TG \cap (DOMAIN live \ DOMAIN live') : k \in DOMAIN tgb => k \notin DOMAIN listed]_vars
  <2> SUFFICES ASSUME IInv, BInv, [Next]_vars, NEW k \in TG \cap (DOMAIN live \ DOMAIN live'), k \in DOMAIN tgb
               PROVE  k \notin DOMAIN listed
    OBVIOUS
  <2>1. pc = "posttg" /\ k \notin DOMAIN stack.res
    <3>1. ~ UNCHANGED live
      OBVIOUS
    <3>2. ~ (UNCHANGED vars \/ Edit \/ Deploy)
      BY <3>1 DEF vars, aws, Edit, Deploy
    <3>3. ~ (Synthesize \/ Resync \/ Finish \/ Fail \/ Watch \/ BindingObserved \/ BindingDeleted)
      BY <3>1, SynthesizeActions, OtherActions
    <3>4. \A j \in Key : ~ (Release(j) \/ ReconcileBinding(j))
      BY <3>1, OtherActions
    <3>5. PICK j \in Key : Manage(j)
      BY <3>2, <3>3, <3>4 DEF Next, Controller
    <3> QED
      BY <3>5, ManagerSteps
  <2>2. k \notin DOMAIN stack.bind
    BY <2>1, StackAssumption DEF IInv, Shape, WellFormed
  <2> QED
    BY <2>1, <2>2 DEF BInv
<1> QED
  BY <1>1, <1>2, <1>3, FirstState, EachStep, PTL DEF Spec, BindingGoesFirst

=============================================================================
