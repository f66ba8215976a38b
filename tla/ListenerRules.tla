---------------------------- MODULE ListenerRules ----------------------------
(***************************************************************************)
(* pkg/ingress: from the paths of an Ingress rule to the prioritised rules *)
(* of an ALB listener, and what rule_optimizer.go leaves out of them.      *)
(*                                                                         *)
(* A path is the sequence of its elements and whether it ends in a slash;  *)
(* "/" is no element and a slash.  A pattern may also end in "/*".         *)
(***************************************************************************)
EXTENDS Naturals, Sequences, SequencesExt

Path(e, s) == [elems |-> e, slash |-> s]
Root == Path(<<>>, TRUE)

Below(p) == [elems |-> p.elems, slash |-> TRUE, star |-> TRUE]

\* ELB takes a last element "*" as the wildcard it is.
HasWildcard(p) == \E i \in DOMAIN p.elems : p.elems[i] = "*"
Literal(p) ==
  IF HasWildcard(p) THEN Below([p EXCEPT !.elems = Front(p.elems)])
  ELSE [elems |-> p.elems, slash |-> p.slash, star |-> FALSE]

\* ELB's matching: "/a/*" is "/a/" followed by anything.
PatternMatches(pat, path) ==
  IF pat.star
  THEN IsPrefix(pat.elems, path.elems)
       /\ (Len(path.elems) > Len(pat.elems) \/ path.slash)
  ELSE path.elems = pat.elems /\ path.slash = pat.slash

-----------------------------------------------------------------------------
(* The patterns of a path; none where the build fails.                     *)

buildPathPatternsForImplementationSpecificPathType(path) == {Literal(path)}

buildPathPatternsForExactPathType(path) ==
  IF HasWildcard(path) THEN {} ELSE {Literal(path)}

\* "/" stands for every path; otherwise a trailing slash is of no account.
buildPathPatternsForPrefixPathType(path) ==
  IF path = Root THEN {Below(Root)}
  ELSE IF HasWildcard(path) THEN {}
  ELSE {Literal([path EXCEPT !.slash = FALSE]), Below(path)}

buildPathPatterns(p) ==
  CASE p.type = "Exact" -> buildPathPatternsForExactPathType(p.path)
    [] p.type = "Prefix" -> buildPathPatternsForPrefixPathType(p.path)
    [] OTHER -> buildPathPatternsForImplementationSpecificPathType(p.path)

\* The number of characters, every element being one of them.
Length(path) == 2 * Len(path.elems) + IF path.slash THEN 1 ELSE 0

\* Mutant: the shorter of two prefixes first.
sortIngressPathsShortFirst(paths) ==
  LET Of(t) == SelectSeq(paths, LAMBDA p : p.type = t)
      shorter(p, q) == Length(p.path) < Length(q.path)
  IN  Of("Exact") \o SortSeq(Of("Prefix"), shorter) \o Of("ImplementationSpecific")

\* Exact paths, then prefixes with the longer first, then the others as given.
sortIngressPaths(paths) ==
  LET Of(t) == SelectSeq(paths, LAMBDA p : p.type = t)
      longer(p, q) == Length(p.path) > Length(q.path)
  IN  Of("Exact") \o SortSeq(Of("Prefix"), longer) \o Of("ImplementationSpecific")

\* Hosts and paths of the Ingress rule and of the conditions annotation are
\* alternatives of one condition each; the other conditions come on top.
buildRuleConditions(host, p, conditions) ==
  LET hosts == host \cup UNION {c.values : c \in {d \in conditions : d.field = "host-header"}}
      paths == buildPathPatterns(p)
               \cup UNION {c.values : c \in {d \in conditions : d.field = "path-pattern"}}
  IN  [hosts |-> hosts, paths |-> paths,
       other |-> {d \in conditions : d.field \notin {"host-header", "path-pattern"}}]

-----------------------------------------------------------------------------
(* The optimizer.  A rule has hosts, paths, other conditions and an action; *)
(* a component of a redirect is empty when it keeps that of the request.   *)

isInfiniteRedirectRule(port, protocol, r) ==
  /\ r.act.type = "redirect"
  /\ r.act.host \subseteq r.hosts
  /\ r.act.path \subseteq r.paths
  /\ r.act.port \subseteq {port}
  /\ r.act.protocol \subseteq {protocol}
  /\ r.act.query = {}

\* Mutant: conditions on anything else than hosts and paths are passed over.
isSupersetConditionsIgnoringOther(l, r) ==
  /\ l.hosts = {} \/ (r.hosts # {} /\ r.hosts \subseteq l.hosts)
  /\ \/ l.paths = {} \/ Below(Root) \in l.paths
     \/ r.paths # {} /\ r.paths \subseteq l.paths

isSupersetConditions(l, r) ==
  /\ l.other = {}
  /\ l.hosts = {} \/ (r.hosts # {} /\ r.hosts \subseteq l.hosts)
  /\ \/ l.paths = {} \/ Below(Root) \in l.paths
     \/ r.paths # {} /\ r.paths \subseteq l.paths

omitInfiniteRedirectRules(port, protocol, rules) ==
  SelectSeq(rules, LAMBDA r : ~isInfiniteRedirectRule(port, protocol, r))

omitOvershadowedRulesAfterRedirectRules(rules) ==
  LET Add(kept, r) ==
        IF \E i \in DOMAIN kept :
             kept[i].act.type = "redirect" /\ isSupersetConditions(kept[i], r)
        THEN kept ELSE Append(kept, r)
  IN  FoldLeft(Add, <<>>, rules)

Optimize(port, protocol, rules) ==
  omitOvershadowedRulesAfterRedirectRules(omitInfiniteRedirectRules(port, protocol, rules))

-----------------------------------------------------------------------------
(* What the load balancer does with a request: the first rule that matches, *)
(* if there is one.                                                        *)

RuleMatches(r, q) ==
  /\ r.hosts = {} \/ q.host \in r.hosts
  /\ r.paths = {} \/ \E pat \in r.paths : PatternMatches(pat, q.path)
  /\ r.other \subseteq q.other

Route(rules, q) ==
  LET hits == {i \in DOMAIN rules : RuleMatches(rules[i], q)}
  IN  IF hits = {} THEN {}
      ELSE {rules[CHOOSE i \in hits : \A j \in hits : i <= j].act}

Kept(new, old) == IF new = {} THEN old ELSE CHOOSE v \in new : TRUE

\* The request that the client sends after the redirect, to any listener.
Redirected(r, q, port, protocol) ==
  LET path == Kept(r.act.path, q.path)
  IN  [host |-> Kept(r.act.host, q.host), path |-> Path(path.elems, path.slash),
       other |-> q.other,
       port |-> Kept(r.act.port, port), protocol |-> Kept(r.act.protocol, protocol)]

\* Kubernetes' definition of the path types: "Prefix" matches
\* element by element, "ImplementationSpecific" as ELB matches.
PathTypeMatches(p, path) ==
  CASE p.type = "Exact" -> path = p.path
    [] p.type = "Prefix" -> IsPrefix(p.path.elems, path.elems)
    [] OTHER -> PatternMatches(Literal(p.path), path)
=============================================================================
