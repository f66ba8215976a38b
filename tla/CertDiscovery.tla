--------------------------- MODULE CertDiscovery ---------------------------
(***************************************************************************)
(* pkg/ingress/cert_discovery.go with its caches: the list of certificate  *)
(* ARNs is kept for ARNsTTL ticks, the domains of an imported certificate  *)
(* for ImportedTTL and those of one that ACM issued for PrivateTTL.        *)
(*                                                                         *)
(* acm maps the certificates of the account to [domains, imported]; an     *)
(* imported one can be imported anew with other domains, and what is       *)
(* deleted is gone for good.  arns is the cached list, domains the cached  *)
(* domains, each with the ticks it is still good for.  quiet counts the    *)
(* ticks since ACM was last changed, answer is what Discover last gave.    *)
(***************************************************************************)
EXTENDS Naturals, FiniteSets, TLC

Builder == INSTANCE IngressGroupModel

CONSTANTS Certs, Kinds, Hosts, DomainSets, ARNsTTL, ImportedTTL, PrivateTTL, MaxChanges

VARIABLES acm, gone, arns, domains, quiet, answer, changes

vars == <<acm, gone, arns, domains, quiet, answer, changes>>

None == <<>>

Init ==
  /\ acm = None /\ gone = {}
  /\ arns = {} /\ domains = None
  /\ quiet = 0 /\ changes = 0
  /\ answer = Builder!Failed

-----------------------------------------------------------------------------

Changing ==
  /\ changes < MaxChanges
  /\ changes' = changes + 1
  /\ quiet' = 0
  /\ UNCHANGED <<arns, domains, answer>>

Issue(c) ==
  /\ c \notin DOMAIN acm \cup gone
  /\ \E k \in Kinds, d \in DomainSets :
       acm' = c :> [domains |-> d, imported |-> k = "imported"] @@ acm
  /\ UNCHANGED gone
  /\ Changing

ImportAnew(c) ==
  /\ c \in DOMAIN acm /\ acm[c].imported
  /\ \E d \in DomainSets \ {acm[c].domains} : acm' = [acm EXCEPT ![c].domains = d]
  /\ UNCHANGED gone
  /\ Changing

Delete(c) ==
  /\ c \in DOMAIN acm
  /\ acm' = [d \in DOMAIN acm \ {c} |-> acm[d]]
  /\ gone' = gone \cup {c}
  /\ Changing

\* Entries of a cache are good for as many ticks as their TTL, whoever reads them.
Tick ==
  /\ quiet' = IF quiet < ImportedTTL THEN quiet + 1 ELSE quiet
  /\ arns' = {[a EXCEPT !.left = @ - 1] : a \in {b \in arns : b.left > 1}}
  /\ domains' = [c \in {d \in DOMAIN domains : domains[d].left > 1} |->
                   [domains[c] EXCEPT !.left = @ - 1]]
  /\ UNCHANGED <<acm, gone, answer, changes>>

-----------------------------------------------------------------------------

loadAllCertificateARNs ==
  IF arns # {} THEN arns ELSE {[value |-> DOMAIN acm, left |-> ARNsTTL]}

\* Mutant: the domains of an imported certificate are cached like the others.
loadDomainsForCertificateLong(c) ==
  IF c \in DOMAIN domains THEN domains[c] ELSE [value |-> acm[c].domains, left |-> PrivateTTL]

\* A certificate that is on the list and no longer in ACM fails the lot.
loadDomainsForCertificate(c) ==
  IF c \in DOMAIN domains THEN domains[c]
  ELSE [value |-> acm[c].domains, left |-> IF acm[c].imported THEN ImportedTTL ELSE PrivateTTL]

\* The certificates before the first that fails are described and cached;
\* the list comes in no particular order.
Discover ==
  LET listed == CHOOSE a \in loadAllCertificateARNs : TRUE
      lost == {c \in listed.value : c \notin DOMAIN domains \cup DOMAIN acm}
  IN  /\ arns' = {listed}
      /\ \E loaded \in IF lost = {} THEN {listed.value} ELSE SUBSET (listed.value \ lost) :
           domains' = [c \in loaded |-> loadDomainsForCertificate(c)] @@ domains
      /\ \E hosts \in Hosts :
           answer' = [of |-> hosts,
                      is |-> IF lost # {} THEN Builder!Failed
                             ELSE Builder!Discover(
                                    [c \in listed.value |-> loadDomainsForCertificate(c).value],
                                    hosts)]
      /\ UNCHANGED <<acm, gone, quiet, changes>>

Next ==
  \/ \E c \in Certs : Issue(c) \/ ImportAnew(c) \/ Delete(c)
  \/ Tick
  \/ Discover

Spec == Init /\ [][Next]_vars

-----------------------------------------------------------------------------

\* Once ACM was left alone for as long as the domains of an imported
\* certificate are cached, Discover gives what ACM holds, although the
\* domains of other certificates are cached for much longer: those never
\* change, and what is deleted drops off the list.
DiscoversAfterTTL ==
  Discover /\ quiet = ImportedTTL =>
    answer'.is = Builder!Discover([c \in DOMAIN acm |-> acm[c].domains], answer'.of)
=============================================================================
