----------------------------- MODULE Campaigns -----------------------------
(***************************************************************************)
(* packages/enterprise/gtm/src/campaigns.ts: campaigns, which may be       *)
(* replaced while callers hold assignments made under the former ones,     *)
(* and the counters of their variants.                                     *)
(*                                                                         *)
(* Variants are numbered in the order of their ids.  hashUnitInterval()    *)
(* (hashing.ts) is a constant: a share of Denominator for each subject.    *)
(* Whether a user is in a segment is left to the callers.                  *)
(***************************************************************************)
EXTENDS Integers, Sequences, FiniteSets

CONSTANTS
  CampaignIds, Segments,
  Definitions,   \* what a campaign may be defined as: [segment, variants, weights]
  Subjects, Point, Denominator,
  NoCampaign,
  MaxStats       \* bound: the exposures and conversions counted per variant

ASSUME DenominatorAssumption ==
  Denominator \in Nat \ {0} /\ Point \in [Subjects \X CampaignIds -> 0..(Denominator - 1)]
ASSUME DefinitionsAssumption ==
  /\ NoCampaign \notin Definitions
  /\ \A d \in Definitions : d.variants \in Seq(Int) /\ d.weights \in Seq(Int) /\ Len(d.weights) = Len(d.variants)

VARIABLES
  knownSegments,
  campaigns,     \* campaigns[c]: its definition, or NoCampaign
  stats,         \* stats[c]: [variant -> [exposures, conversions]]
  given          \* the assignments callers hold, with the definition they were made under

campaignVars == <<knownSegments, campaigns, stats, given>>

CampaignInit ==
  /\ knownSegments = {}
  /\ campaigns = [c \in CampaignIds |-> NoCampaign]
  /\ stats = [c \in CampaignIds |-> NoCampaign]
  /\ given = {}

AddSegment(s) ==
  /\ s \notin knownSegments
  /\ knownSegments' = knownSegments \cup {s}
  /\ UNCHANGED <<campaigns, stats, given>>

VariantsOf(d) == {d.variants[i] : i \in DOMAIN d.variants}

Accepted(d) ==
  d.segment \in knownSegments /\ d.variants # <<>> /\ \A i \in DOMAIN d.weights : d.weights[i] > 0

\* addCampaign() replaces a campaign that has the id, and its counters.
AddCampaign(c, d) ==
  /\ Accepted(d)
  /\ campaigns' = [campaigns EXCEPT ![c] = d]
  /\ stats' = [stats EXCEPT ![c] = [v \in VariantsOf(d) |-> [exposures |-> 0, conversions |-> 0]]]
  /\ UNCHANGED <<knownSegments, given>>

\* Cumulative(d)[i] is the weight of the first i variants together.
Cumulative(d) ==
  LET sum[i \in 0..Len(d.weights)] == IF i = 0 THEN 0 ELSE sum[i - 1] + d.weights[i] IN sum

Total(d) == Cumulative(d)[Len(d.weights)]

\* The place of the first variant whose weights so far exceed the subject's share of the total.
Chosen(d, point) ==
  LET within == {i \in DOMAIN d.weights : point * Total(d) < Cumulative(d)[i] * Denominator}
  IN IF within = {} THEN 1 ELSE CHOOSE i \in within : \A j \in within : i <= j

Assign(c, s) ==
  /\ campaigns[c] # NoCampaign
  /\ given' = given \cup {[campaign |-> c, subject |-> s, under |-> campaigns[c],
                           variant |-> campaigns[c].variants[Chosen(campaigns[c], Point[s, c])]]}
  /\ UNCHANGED <<knownSegments, campaigns, stats>>

\* bumpStat() throws for a variant the campaign does not have any more.
Bump(a, field) ==
  /\ a.variant \in DOMAIN stats[a.campaign] /\ stats[a.campaign][a.variant][field] < MaxStats
  /\ stats' = [stats EXCEPT ![a.campaign][a.variant][field] = @ + 1]
  /\ UNCHANGED <<knownSegments, campaigns, given>>

\* Mutant: equal rates keep the variant that comes first.
Leads_Unordered(s, best, v) == s[v].conversions * s[best].exposures > s[best].conversions * s[v].exposures

\* Is the rate of v above that of best, or equal and v before best?  No exposures are a rate of 0.
Leads(s, best, v) ==
  LET Conversions(w) == IF s[w].exposures = 0 THEN 0 ELSE s[w].conversions
      Exposures(w)   == IF s[w].exposures = 0 THEN 1 ELSE s[w].exposures
      above == Conversions(v) * Exposures(best) - Conversions(best) * Exposures(v)
  IN above > 0 \/ (above = 0 /\ v < best)

LeadingVariant(c) ==
  LET v == campaigns[c].variants
      best[i \in DOMAIN v] ==
        IF i = 1 THEN v[1] ELSE IF Leads(stats[c], best[i - 1], v[i]) THEN v[i] ELSE best[i - 1]
  IN best[Len(v)]

CampaignNext ==
  \/ \E s \in Segments : AddSegment(s)
  \/ \E c \in CampaignIds, d \in Definitions : AddCampaign(c, d)
  \/ \E c \in CampaignIds, s \in Subjects : Assign(c, s)
  \/ \E a \in given, field \in {"exposures", "conversions"} : Bump(a, field)

CampaignSpec == CampaignInit /\ [][CampaignNext]_campaignVars

-----------------------------------------------------------------------------
(* Properties *)

\* An assignment can be counted as long as its campaign is not replaced, and counters belong to
\* the variants of the current campaign.
AssignmentsCount ==
  /\ \A c \in CampaignIds : campaigns[c] # NoCampaign => DOMAIN stats[c] = VariantsOf(campaigns[c])
  /\ \A a \in given : a.under = campaigns[a.campaign] => a.variant \in DOMAIN stats[a.campaign]

\* The definitions under which, of all points of the interval, each variant gets its share to within one.
Proportional ==
  {d \in Definitions : \A i \in DOMAIN d.variants :
     LET won == Cardinality({p \in 0..(Denominator - 1) : Chosen(d, p) = i}) * Total(d)
     IN d.weights[i] * Denominator - Total(d) < won /\ won < d.weights[i] * Denominator + Total(d)}

\* Every campaign that is accepted divides its subjects as its weights say.
SharesFollowWeights == \A c \in CampaignIds : campaigns[c] # NoCampaign => campaigns[c] \in Proportional

\* The leading variant is the one with the best rate, of several the first by id.
LeaderLeads ==
  \A c \in CampaignIds : campaigns[c] # NoCampaign =>
    LET s == stats[c]
        lead == LeadingVariant(c)
        Conversions(w) == IF s[w].exposures = 0 THEN 0 ELSE s[w].conversions
        Exposures(w)   == IF s[w].exposures = 0 THEN 1 ELSE s[w].exposures
    IN \A v \in DOMAIN s \ {lead} :
         \/ Conversions(lead) * Exposures(v) > Conversions(v) * Exposures(lead)
         \/ Conversions(lead) * Exposures(v) = Conversions(v) * Exposures(lead) /\ lead < v

\* A campaign can be evaluated while it runs and is replaced: subjects are divided by the
\* weights, their events are counted for the variants there are, and the best of these leads.
CampaignsCount == AssignmentsCount /\ SharesFollowWeights /\ LeaderLeads
=============================================================================
