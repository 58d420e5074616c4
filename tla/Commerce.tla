------------------------------ MODULE Commerce -----------------------------
(***************************************************************************)
(* packages/enterprise/gtm/src: pricing.ts and money.ts, the quote for a   *)
(* plan, from its flat price, tiers of metered usage, proration, a coupon  *)
(* and a tax; partners.ts, the tier a partner qualifies for, the partner a *)
(* lead is attributed to, and commission statements.                       *)
(*                                                                         *)
(* Amounts are whole minor units.  A unit price may be a fraction: it is   *)
(* given in tenths here, and what a tier adds is cut off as money() does.  *)
(* hash32 of the customer is an argument; ids are numbers, ordered as the  *)
(* strings are.                                                            *)
(***************************************************************************)
EXTENDS PureCalls, FiniteSets, Functions

CONSTANTS
  Inf,       \* the upTo of a tier without an end
  NoCoupon,
  Plans,     \* [id, base, metered]: metered is a sequence of [metric, included, tiers]
  Usages,    \* sequences of [metric, units]
  Coupons,   \* [percentage, value, baseOnly, plans]
  Prorations, \* pairs of a numerator and a denominator
  TaxRates,  \* in basis points
  TierLists,    \* sequences of [min, rate]; a Map is iterated in the order of insertion
  Revenues,     \* cumulative revenues
  Hashes,       \* values of hash32
  Candidates,   \* sequences of partners that claim a lead
  PartnerTiers, \* PartnerTiers[p]: the index of the tier of the partner p
  Referrals     \* sequences of [partner, revenue]

Tiers      == [upTo : Nat \cup {Inf}, price : Nat]
Components == [metric : STRING, included : Nat, tiers : Seq(Tiers)]

\* Nothing the plans, coupons and tax rates are made of is negative; usage and revenue may be, for
\* corrections and refunds.
ASSUME PricingAssumption ==
  /\ Inf \notin Int
  /\ \A plan \in Plans : plan.base \in Nat /\ plan.metered \in Seq(Components)
  /\ Usages \subseteq Seq([metric : STRING, units : Int])
  /\ \A coupon \in Coupons : coupon.value \in Nat
  /\ Prorations \subseteq Nat \X Nat /\ TaxRates \subseteq Nat
  /\ NoCoupon \notin Coupons

ASSUME PartnersAssumption ==
  /\ TierLists \subseteq Seq([min : Int, rate : Nat]) /\ Revenues \subseteq Int
  /\ Hashes \subseteq Nat /\ Candidates \subseteq Seq(Int) /\ <<>> \notin Candidates
  /\ PartnerTiers \in Seq(Nat) /\ Referrals \subseteq Seq([partner : Int, revenue : Int])

-----------------------------------------------------------------------------
(* Quotes *)

LargerOf(m, n)  == IF m > n THEN m ELSE n
SmallerOf(m, n) == IF m < n THEN m ELSE n

\* How many units the tier takes.
Capacity(s, tier) == IF tier.upTo = Inf THEN s.billable ELSE LargerOf(0, tier.upTo - s.lower)

\* Mutant: what a tier costs replaces what the tiers before it cost.
EnterTier_Replaces(s, tier) ==
  LET units == SmallerOf(s.billable, Capacity(s, tier))
  IN  IF s.billable <= 0 THEN s ELSE
      [billable |-> s.billable - units, lower |-> IF tier.upTo = Inf THEN s.lower ELSE tier.upTo,
       total |-> (units * tier.price) \div 10]

\* One iteration of the loop over the tiers; none is entered once all units are placed.
EnterTier(s, tier) ==
  LET units == SmallerOf(s.billable, Capacity(s, tier))
  IN  IF s.billable <= 0 THEN s ELSE
      [billable |-> s.billable - units, lower |-> IF tier.upTo = Inf THEN s.lower ELSE tier.upTo,
       total |-> s.total + (units * tier.price) \div 10]

\* What the units cost, and how many of them no tier covers; of less than none it throws.
MeterComponent(component, units) ==
  LET start == [billable |-> LargerOf(0, units - component.included), lower |-> component.included, total |-> 0]
      after[k \in 0..Len(component.tiers)] ==
        IF k = 0 THEN start ELSE EnterTier(after[k - 1], component.tiers[k])
  IN  after[Len(component.tiers)]

Units(usage, metric) ==
  Sum([k \in DOMAIN usage |-> IF usage[k].metric = metric THEN usage[k].units ELSE 0])

\* The metrics of which usage is less than none.
Negative(plan, usage) == {i \in DOMAIN plan.metered : Units(usage, plan.metered[i].metric) < 0}

Bills(plan, usage) ==
  [i \in DOMAIN plan.metered |-> MeterComponent(plan.metered[i], Units(usage, plan.metered[i].metric))]

\* Proration, when there is any; a factor outside (0, 1] is refused.
Proratable(p) == 0 < p[1] /\ p[1] <= p[2]

Subtotals(base, metered, p) == Rounded((base + metered) * p[1], p[2])

\* What the coupon takes off: nothing for another plan, never more than there is.
Discounts(plan, coupon, p, subtotal) ==
  LET of  == IF coupon.baseOnly THEN Rounded(plan.base * p[1], p[2]) ELSE {subtotal}
      raw == IF coupon.percentage THEN UNION {Rounded(b * coupon.value, 10000) : b \in of}
                                  ELSE {coupon.value}
  IN  IF coupon = NoCoupon \/ plan.id \notin coupon.plans THEN {0}
      ELSE {IF r > subtotal THEN subtotal ELSE r : r \in raw}

\* The quotes there may be, by how ties are rounded; none when quote() throws.
Quotes(plan, usage, coupon, p, rate) ==
  LET bills   == Bills(plan, usage)
      metered == Sum([i \in DOMAIN bills |-> bills[i].total])
  IN  IF ~Proratable(p) \/ Negative(plan, usage) # {} \/ \E i \in DOMAIN bills : bills[i].billable > 0 THEN {}
      ELSE UNION {UNION {{[metered |-> metered, subtotal |-> s, discount |-> d, tax |-> t, total |-> (s - d) + t] :
                            t \in Rounded((s - d) * rate, 10000)} :
                            d \in Discounts(plan, coupon, p, s)} :
                            s \in Subtotals(plan.base, metered, p)}

Quote ==
  /\ call = NoCall
  /\ \E plan \in Plans, usage \in Usages, coupon \in Coupons \cup {NoCoupon}, p \in Prorations, rate \in TaxRates :
       \E q \in Quotes(plan, usage, coupon, p, rate) :
         call' = [fn |-> "quote", plan |-> plan, usage |-> usage, coupon |-> coupon, p |-> p, rate |-> rate, quote |-> q]

-----------------------------------------------------------------------------
(* Partners *)

\* Sorting is stable: of tiers with one minimum the later one comes later.
Above(tiers, i, j) == tiers[i].min > tiers[j].min \/ (tiers[i].min = tiers[j].min /\ i > j)

\* The highest tier whose minimum is met, or the lowest of all.
QualifyingTier(tiers, revenue) ==
  LET met == {i \in DOMAIN tiers : tiers[i].min <= revenue}
  IN  IF met = {} THEN CHOOSE i \in DOMAIN tiers : \A j \in DOMAIN tiers \ {i} : Above(tiers, j, i)
      ELSE CHOOSE i \in met : \A j \in met \ {i} : Above(tiers, i, j)

\* The candidate at the index hash of the sorted ones: so many are smaller, but not so many no larger.
Attribute(hash, candidates) ==
  LET index == hash % Len(candidates)
  IN  CHOOSE c \in Range(candidates) :
        /\ Cardinality({k \in DOMAIN candidates : candidates[k] < c}) <= index
        /\ Cardinality({k \in DOMAIN candidates : candidates[k] <= c}) > index

\* What each referral brings the partner.
Owned(partner, referrals) ==
  [k \in DOMAIN referrals |-> IF referrals[k].partner = partner THEN referrals[k].revenue ELSE 0]

\* commissionFor(), and the commission of a statement.
Commissions(tiers, partner, revenue) == Rounded(revenue * tiers[PartnerTiers[partner]].rate, 10000)

Statements(tiers, partner, referrals) ==
  LET revenue == Sum(Owned(partner, referrals))
  IN  {[revenue |-> revenue, commission |-> c] : c \in Commissions(tiers, partner, revenue)}

PartnerCall ==
  /\ call = NoCall
  /\ \/ \E tiers \in TierLists, revenue \in Revenues :
          call' = [fn |-> "qualifyingTier", tiers |-> tiers, revenue |-> revenue,
                   tier |-> QualifyingTier(tiers, revenue)]
     \/ \E hash \in Hashes, candidates \in Candidates :
          call' = [fn |-> "attribute", hash |-> hash, candidates |-> candidates,
                   partner |-> Attribute(hash, candidates)]
     \/ \E tiers \in {t \in TierLists : \A p \in DOMAIN PartnerTiers : PartnerTiers[p] \in DOMAIN t}, referrals \in Referrals :
          \E statement \in [DOMAIN PartnerTiers -> UNION {Statements(tiers, p, referrals) : p \in DOMAIN PartnerTiers}] :
            /\ \A p \in DOMAIN PartnerTiers : statement[p] \in Statements(tiers, p, referrals)
            /\ call' = [fn |-> "statement", tiers |-> tiers, referrals |-> referrals, statement |-> statement]

-----------------------------------------------------------------------------
(* Properties *)

\* Tiers as MeteredComponent asks for them: ascending, beyond the included units.
Ascending(component) ==
  \A i, j \in DOMAIN component.tiers : i < j =>
    /\ component.tiers[i].upTo # Inf
    /\ component.tiers[i].upTo >= component.included
    /\ component.tiers[j].upTo # Inf => component.tiers[i].upTo < component.tiers[j].upTo

\* The first tier that goes up to the unit u sets its price.
PriceOf(component, u) ==
  LET reach(i) == component.tiers[i].upTo = Inf \/ component.tiers[i].upTo >= u
      i == CHOOSE i \in DOMAIN component.tiers : reach(i) /\ \A j \in 1..(i - 1) : ~reach(j)
  IN  component.tiers[i].price

\* Every unit beyond the included ones is charged once, at the price of its own
\* tier, and less than a minor unit is lost in each tier.
UnitsPricedByTier ==
  call.fn = "quote" /\ (\A i \in DOMAIN call.plan.metered : Ascending(call.plan.metered[i])) =>
    LET exact == Sum([i \in DOMAIN call.plan.metered |->
          LET c == call.plan.metered[i]
              n == Units(call.usage, c.metric)
          IN  Sum([k \in 1..LargerOf(0, n - c.included) |-> PriceOf(c, c.included + k)])])
        tiers == Sum([i \in DOMAIN call.plan.metered |-> Len(call.plan.metered[i].tiers)])
    IN  exact - 10 * call.quote.metered \in 0..(9 * tiers)

\* Using one unit more never makes a component cheaper, whatever the tiers.
UsageNeverCheaper ==
  call.fn = "quote" => \A i \in DOMAIN call.plan.metered :
    LET c == call.plan.metered[i]
        n == Units(call.usage, c.metric)
    IN  MeterComponent(c, n).total <= MeterComponent(c, n + 1).total

\* The discount leaves no negative amount to tax, and a coupon never makes a
\* quote dearer than it is without one: of two ways to round one tax, take the same.
CouponsOnlyLower ==
  call.fn = "quote" =>
    /\ call.quote.discount \in 0..call.quote.subtotal
    /\ \A q \in Quotes(call.plan, call.usage, NoCoupon, call.p, call.rate) :
         q.subtotal = call.quote.subtotal /\ (call.quote.discount = 0 => q.tax = call.quote.tax) =>
           call.quote.total <= q.total

\* A period billed in two parts costs what it costs as a whole, but for one unit.
PartsMakeTheWhole ==
  call.fn = "quote" /\ call.p[1] < call.p[2] =>
    \A rest \in Subtotals(call.plan.base, call.quote.metered, <<call.p[2] - call.p[1], call.p[2]>>) :
      call.quote.subtotal + rest - (call.plan.base + call.quote.metered) \in -1..1

\* "The highest tier whose minimum is met", in whatever order the tiers were
\* given, so revenue that is too low for a tier never earns its rate.
HighestTierMet ==
  call.fn = "qualifyingTier" =>
    LET chosen == call.tiers[call.tier].min
    IN  \A i \in DOMAIN call.tiers :
          call.tiers[i].min <= call.revenue => call.tiers[i].min <= chosen /\ chosen <= call.revenue

\* A lead goes to the same partner in whatever order the candidates are named.
AttributionIgnoresOrder ==
  call.fn = "attribute" =>
    \A order \in Bijection(DOMAIN call.candidates, DOMAIN call.candidates) :
      Attribute(call.hash, [k \in DOMAIN call.candidates |-> call.candidates[order[k]]]) = call.partner

\* Every referral of a known partner is in exactly one statement.
ReferralsCountOnce ==
  call.fn = "statement" =>
    Sum([p \in DOMAIN call.statement |-> call.statement[p].revenue]) =
    Sum([k \in DOMAIN call.referrals |->
           IF call.referrals[k].partner \in DOMAIN PartnerTiers THEN call.referrals[k].revenue ELSE 0])

\* The amount is exact, in ten-thousandths of a unit, to half a unit.
ToHalfUnit(exact, amount) ==
  2 * exact - 20000 * amount <= 10000 /\ 20000 * amount - 2 * exact <= 10000

\* A statement pays what its referrals earn, refunds deducted, to half a unit.
CommissionIsExact ==
  call.fn = "statement" => \A p \in DOMAIN call.statement :
    ToHalfUnit(Sum([k \in DOMAIN call.referrals |-> Owned(p, call.referrals)[k] * call.tiers[PartnerTiers[p]].rate]),
               call.statement[p].commission)
=============================================================================
