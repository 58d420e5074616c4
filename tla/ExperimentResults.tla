------------------------- MODULE ExperimentResults -------------------------
(***************************************************************************)
(* packages/analytics/experimentation/src/ab-testing.ts: getResults(), the *)
(* verdict on the counters of an experiment.  The first variant is the     *)
(* control.                                                                *)
(*                                                                         *)
(* With A conversions in M impressions against B in N, the z-test gives    *)
(* z^2 = D^2 (M+N) / (M N C (M+N-C)) where D = A N - B M and C = A + B,    *)
(* and p < 0.05 is z > 1.96, z^2 > 2401 / 625.  Nothing checks conversions *)
(* against impressions: with more of them than of these in both variants   *)
(* together the p-value is not a number, and a minimum over it is none.    *)
(***************************************************************************)
EXTENDS PureCalls

CONSTANTS
  Counters,  \* [seen, converted]
  Scale      \* how many times as much traffic a larger experiment has

\* Impressions and conversions are counted.
ASSUME CountersAssumption == Counters \subseteq [seen : Nat, converted : Nat] /\ Scale \in Nat \ {0}

\* calculatePValue(): below 0.05, not below it, or not a number.
PValue(a, b) ==
  LET D == a.converted * b.seen - b.converted * a.seen
      N == a.seen + b.seen
      C == a.converted + b.converted
  IN  IF a.seen = 0 \/ b.seen = 0 \/ C \in {0, N} THEN "large"
      ELSE IF C > N THEN "NaN"
      ELSE IF D * D * N > (2401 * a.seen * b.seen * C * (N - C)) \div 625 THEN "small" ELSE "large"

\* a converts at a higher rate than b; a variant nobody has seen has rate zero.
Beats(a, b) ==
  IF a.seen = 0 THEN FALSE
  ELSE IF b.seen = 0 THEN a.converted > 0
  ELSE a.converted * b.seen > b.converted * a.seen

\* The relative uplift over the control is positive; it is zero for a control that never converts.
Uplifts(v, control) == control.seen > 0 /\ control.converted > 0 /\ Beats(v, control)

Others(variants) == 2..Len(variants)

Contenders(variants) ==
  {i \in Others(variants) : /\ PValue(variants[i], variants[1]) = "small"
                            /\ Uplifts(variants[i], variants[1])}

\* Mutant: the variant with most conversions wins.
Winner_MostConversions(variants) ==
  {i \in Contenders(variants) : \A j \in Contenders(variants) : variants[j].converted <= variants[i].converted}

\* The first of the best contenders; empty when there is none.
Winner(variants) ==
  {i \in Contenders(variants) : \A j \in Contenders(variants) \ {i} :
     ~Beats(variants[j], variants[i]) /\ (Beats(variants[i], variants[j]) \/ i < j)}

\* minPValue is NaN as soon as one p-value is.
Significant(variants) ==
  LET values == {PValue(variants[i], variants[1]) : i \in Others(variants)}
  IN  "small" \in values /\ "NaN" \notin values

Result(variants) == [winner |-> Winner(variants), significanceReached |-> Significant(variants)]

GetResults ==
  /\ call = NoCall
  /\ \E control, one, other \in Counters :
       call' = [fn |-> "getResults", variants |-> <<control, one, other>>, result |-> Result(<<control, one, other>>)]

-----------------------------------------------------------------------------
(* Properties *)

Plausible(v) == v.converted <= v.seen

Larger(v) == [seen |-> Scale * v.seen, converted |-> Scale * v.converted]

\* The same rates with more traffic: what was significant stays significant, and where there
\* was a winner there is one that converts at no lower rate; it may be another variant,
\* whose lead was not significant before.
MoreTrafficConfirms ==
  call.fn = "getResults" /\ (\A i \in 1..3 : Plausible(call.variants[i])) =>
    LET larger == Result([i \in 1..3 |-> Larger(call.variants[i])])
    IN  /\ call.result.significanceReached => larger.significanceReached
        /\ call.result.winner # {} =>
             \E i \in call.result.winner, j \in larger.winner :
               ~Beats(call.variants[i], call.variants[j])

\* z^2 is at most the number of impressions, so nobody wins on fewer than four,
\* and never against a control that nobody has seen.
WinnersHaveTraffic ==
  call.fn = "getResults" => \A i \in {w \in call.result.winner : Plausible(call.variants[1]) /\ Plausible(call.variants[w])} :
    /\ call.variants[i].seen > 0 /\ call.variants[1].seen > 0
    /\ call.variants[i].seen + call.variants[1].seen >= 4

\* Swapping the variants beside the control does not change who wins.
WinnerIgnoresOrder ==
  call.fn = "getResults" =>
    LET v == call.variants
        swapped == Winner(<<v[1], v[3], v[2]>>)
    IN  /\ call.result.winner = {} <=> swapped = {}
        /\ \A i \in call.result.winner, j \in swapped :
             LET rival == <<v[1], v[3], v[2]>>[j]
             IN  ~Beats(v[i], rival) /\ ~Beats(rival, v[i])
=============================================================================
