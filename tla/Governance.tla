----------------------------- MODULE Governance ----------------------------
(***************************************************************************)
(* packages/enterprise/governance/src: the ConsentRegistry of              *)
(* compliance.ts, consents that are granted, revoked, granted again and    *)
(* expire, and policy-engine.ts, rules kept in the order of their          *)
(* precedence while they are added and removed, and the evaluation that    *)
(* the first matching one decides.                                         *)
(*                                                                         *)
(* An expiry is kept relative to now, so that the clock needs no bound; it *)
(* is -1 once it has passed.  The clock does not step back.  A rule names  *)
(* the requests that its actions, resource types and conditions match.     *)
(* Ids are numbers in their order.                                         *)
(***************************************************************************)
EXTENDS Integers, Sequences, FiniteSets, Functions, SequencesExt

CONSTANTS
  DataSubjects, Purposes,
  Expiries,       \* the expiries that are given, from now
  NoExpiry, NoGrant,
  Rules,          \* [id, priority, effect, matches]
  AccessRequests,
  DefaultEffect,
  NoRule

ASSUME ExpiriesAssumption == Expiries \subseteq Nat /\ NoExpiry \notin Int
ASSUME NoGrantAssumption == NoGrant \notin [revoked : BOOLEAN, expires : Int \cup {NoExpiry}]
ASSUME RulesAssumption ==
  \A r \in Rules :
    r.id \in Int /\ r.priority \in Int /\ r.matches \subseteq AccessRequests /\ r.effect \in {"allow", "deny"}

VARIABLES
  grants,        \* grants[s, p]: [revoked, expires], or NoGrant
  justGranted    \* history: the pairs the last call granted

consentVars == <<grants, justGranted>>
Pairs == DataSubjects \X Purposes

VARIABLE rules    \* the registered rules, in evaluation order

-----------------------------------------------------------------------------
(* ConsentRegistry *)

ConsentInit == grants = [k \in Pairs |-> NoGrant] /\ justGranted = {}

\* "Re-granting clears any prior revocation."
Grant(k, expires) ==
  /\ grants' = [grants EXCEPT ![k] = [revoked |-> FALSE, expires |-> expires]]
  /\ justGranted' = {k}

\* Mutant: an expired consent cannot be revoked, and is renewed instead.
Revoke_Renews(k) ==
  /\ grants[k] # NoGrant /\ ~grants[k].revoked
  /\ grants' = [grants EXCEPT ![k].revoked = grants[k].expires # -1, ![k].expires = NoExpiry]
  /\ justGranted' = {}

Revoke(k) ==
  /\ grants[k] # NoGrant /\ ~grants[k].revoked
  /\ grants' = [grants EXCEPT ![k].revoked = TRUE]
  /\ justGranted' = {}

ConsentTick ==
  /\ grants' = [k \in Pairs |->
       IF grants[k] = NoGrant \/ grants[k].expires \in {NoExpiry, -1} THEN grants[k]
       ELSE [grants[k] EXCEPT !.expires = @ - 1]]
  /\ justGranted' = {}

\* check()
Reason(k) ==
  IF grants[k] = NoGrant THEN "absent"
  ELSE IF grants[k].revoked THEN "revoked"
  ELSE IF grants[k].expires = -1 THEN "expired" ELSE "active"

HasConsent(s, p) == Reason(<<s, p>>) = "active"

ActivePurposes(s) ==
  {p \in Purposes : LET k == <<s, p>> IN grants[k] # NoGrant /\ ~grants[k].revoked /\ grants[k].expires # -1}

ConsentNext ==
  \/ \E k \in Pairs, expires \in Expiries \cup {NoExpiry} : Grant(k, expires)
  \/ \E k \in Pairs : Revoke(k)
  \/ ConsentTick

ConsentSpec == ConsentInit /\ [][ConsentNext]_consentVars /\ WF_consentVars(ConsentTick)

-----------------------------------------------------------------------------
(* PolicyEngine *)

PolicyInit == rules = <<>>

\* compareRules()
Precedes(a, b) ==
  \/ a.priority > b.priority
  \/ a.priority = b.priority /\ a.effect = "deny" /\ b.effect = "allow"
  \/ a.priority = b.priority /\ a.effect = b.effect /\ a.id < b.id

\* Mutant: the rules are not sorted again.
AddRule_Unsorted(rule) ==
  /\ \A i \in DOMAIN rules : rules[i].id # rule.id
  /\ rules' = Append(rules, rule)

\* addRule() throws for an id it knows; the rules are sorted again.
AddRule(rule) ==
  /\ \A i \in DOMAIN rules : rules[i].id # rule.id
  /\ LET all == Append(rules, rule) IN
     \E order \in Bijection(DOMAIN all, DOMAIN all) :
       /\ \A i, j \in DOMAIN all : i < j => Precedes(all[order[i]], all[order[j]])
       /\ rules' = [i \in DOMAIN all |-> all[order[i]]]

RemoveRule(id) == \E i \in DOMAIN rules : rules[i].id = id /\ rules' = RemoveAt(rules, i)

PolicyNext == (\E rule \in Rules : AddRule(rule)) \/ (\E rule \in Rules : RemoveRule(rule.id))

PolicySpec == PolicyInit /\ [][PolicyNext]_rules

Matching(request) == {i \in DOMAIN rules : request \in rules[i].matches}

\* evaluate(): the effect, the rule that decided, and the ids of the rules it went through.
Decision(request) ==
  LET i == CHOOSE i \in Matching(request) : \A j \in Matching(request) : i <= j
      Ids(n) == [k \in 1..n |-> rules[k].id]
  IN IF Matching(request) = {} THEN [effect |-> DefaultEffect, by |-> NoRule, trace |-> Ids(Len(rules))]
     ELSE [effect |-> rules[i].effect, by |-> rules[i].id, trace |-> Ids(i)]

-----------------------------------------------------------------------------
(* Properties *)

\* The two ways to ask for consent agree: purpose by purpose, and all at once.
ConsentViewsAgree == \A s \in DataSubjects : ActivePurposes(s) = {p \in Purposes : HasConsent(s, p)}

\* Consent is never regained but by being granted, which always gives it, and no call touches the
\* consent to another purpose or of another subject.
ConsentOnlyByGrant ==
  [][\A k \in Pairs :
       /\ Reason(k)' = "active" /\ Reason(k) # "active" => k \in justGranted'
       /\ k \in justGranted' => Reason(k)' = "active"
       /\ Reason(k) = "revoked" => Reason(k)' \in {"revoked", "active"}]_consentVars

\* Consent is had by those who granted it, to what they granted it for and as long as they did.
ConsentKept == []ConsentViewsAgree /\ ConsentOnlyByGrant

\* "explicit denials win": of the matching rules with the highest priority, one that denies
\* decides if there is one; without a matching rule the default effect does.  The order in which the
\* rules were added and removed makes no difference.
DenialsWin ==
  \A request \in AccessRequests :
    LET matching == {rules[i] : i \in Matching(request)}
        highest  == {r \in matching : \A q \in matching : r.priority >= q.priority}
    IN Decision(request).effect =
         IF matching = {} THEN DefaultEffect
         ELSE IF \E r \in highest : r.effect = "deny" THEN "deny" ELSE "allow"

\* The trace accounts for the decision: every rule that precedes the deciding one is in it, in
\* the order of precedence, and none of them matches.
TraceExplains ==
  \A request \in AccessRequests :
    LET d == Decision(request)
        InTrace(r) == \E k \in DOMAIN d.trace : d.trace[k] = r.id
        registered == {rules[i] : i \in DOMAIN rules}
    IN \A r \in registered :
         /\ InTrace(r) /\ request \in r.matches => r.id = d.by
         /\ ~InTrace(r) => \E decider \in registered : decider.id = d.by /\ Precedes(decider, r)

\* A decision is the one the rules call for, in whatever order they came, and its trace shows why.
DecisionsExplained == DenialsWin /\ TraceExplains
=============================================================================
