---------------------------- MODULE Forecasting ----------------------------
(***************************************************************************)
(* packages/analytics/forecasting/src/forecasting-engine.ts: the line that *)
(* is fitted to a series, its trend, its season and its outliers.          *)
(*                                                                         *)
(* The code computes in floating point; here everything is multiplied by   *)
(* its denominator, so the results are exact.                              *)
(***************************************************************************)
EXTENDS PureCalls, FiniteSets

CONSTANTS
  Series,        \* sequences of values
  Sensitivities, \* sensitivities of detectAnomalies, in halves
  Horizon        \* how many days are predicted

ASSUME SeriesAssumption == Series \subseteq Seq(Int) /\ <<>> \notin Series /\ Sensitivities \subseteq Nat /\ Horizon \in Nat

Abs(x) == IF x < 0 THEN -x ELSE x

\* The sums over x = 0, ..., n - 1.
SumX(n)  == (n * (n - 1)) \div 2
SumX2(n) == ((n - 1) * n * (2 * n - 1)) \div 6
SumXY(v) == Sum([i \in DOMAIN v |-> (i - 1) * v[i]])

\* The denominator of the slope.
Spread(n) == n * SumX2(n) - SumX(n) * SumX(n)

\* slope * Spread
Slope(v) == Len(v) * SumXY(v) - SumX(Len(v)) * Sum(v)

\* linearForecast(): the line at x, times n * Spread.
LineAt(v, x) == Len(v) * Slope(v) * x + (Sum(v) * Spread(Len(v)) - Slope(v) * SumX(Len(v)))

Predictions(v) == [d \in 1..Horizon |-> LineAt(v, Len(v) - 1 + d)]

\* detectTrend(): flat below a thousandth of the mean.
Direction(v) ==
  IF Len(v) < 2 THEN "flat"
  ELSE IF IF Sum(v) = 0 THEN 1000 * Abs(Slope(v)) < Spread(Len(v))
                        ELSE 1000 * Len(v) * Abs(Slope(v)) < Abs(Sum(v)) * Spread(Len(v)) THEN "flat"
  ELSE IF Slope(v) > 0 THEN "up" ELSE "down"

\* The values less their mean, times n.
Centered(v) == [i \in DOMAIN v |-> Len(v) * v[i] - Sum(v)]
Squares(v)  == LET c == Centered(v) IN Sum([i \in DOMAIN v |-> c[i] * c[i]])

Correlation(v, lag) == LET c == Centered(v) IN Sum([i \in 1..(Len(v) - lag) |-> c[i] * c[i + lag]])

\* detectSeasonality(): the first lag with the highest correlation, if that is above 0.3.
Periods(v) ==
  {lag \in 2..(Len(v) \div 2) :
     /\ Len(v) >= 4
     /\ 10 * Correlation(v, lag) > 3 * Squares(v)
     /\ \A other \in 2..(Len(v) \div 2) :
          /\ Correlation(v, other) <= Correlation(v, lag)
          /\ other < lag => Correlation(v, other) < Correlation(v, lag)}

\* detectAnomalies(): farther from the mean than s / 2 standard deviations.
Anomalies(v, s) ==
  {i \in DOMAIN v : /\ Len(v) >= 3
                    /\ 4 * Len(v) * Centered(v)[i] * Centered(v)[i] > s * s * Squares(v)}

ForecastCall ==
  /\ call = NoCall
  /\ \E v \in Series : \/ /\ Len(v) >= 2
                          /\ call' = [fn |-> "forecast", v |-> v, predictions |-> Predictions(v)]
                       \/ call' = [fn |-> "detectTrend", v |-> v, direction |-> Direction(v)]
                       \/ call' = [fn |-> "detectSeasonality", v |-> v, periods |-> Periods(v)]
                       \/ \E s \in Sensitivities :
                            call' = [fn |-> "detectAnomalies", v |-> v, s |-> s, anomalies |-> Anomalies(v, s)]

-----------------------------------------------------------------------------
(* Properties *)

\* The line is the one of least squares: what is left over adds up to zero and has
\* no trend.  The predictions go on along it without a jump.
LineIsBestFit ==
  call.fn = "forecast" =>
    LET n == Len(call.v)
        rest(i) == n * Spread(n) * call.v[i] - LineAt(call.v, i - 1)
    IN  /\ Sum([i \in 1..n |-> rest(i)]) = 0
        /\ Sum([i \in 1..n |-> (i - 1) * rest(i)]) = 0
        /\ \A d \in 1..Horizon :
             call.predictions[d] - LineAt(call.v, n - 1) = d * (LineAt(call.v, n - 1) - LineAt(call.v, n - 2))

\* Read backwards, a series that goes up goes down, and one that is flat stays flat.
TrendReverses ==
  call.fn = "detectTrend" =>
    LET back == [i \in DOMAIN call.v |-> call.v[Len(call.v) + 1 - i]]
    IN  Direction(back) = CASE call.direction = "up" -> "down" [] call.direction = "down" -> "up" [] OTHER -> "flat"

\* A series that repeats itself at least once, and is not constant, is found to be
\* seasonal.
RepetitionIsSeasonal ==
  call.fn = "detectSeasonality" =>
    LET repeats  == \E p \in 2..(Len(call.v) \div 2) : \A i \in 1..(Len(call.v) - p) : call.v[i + p] = call.v[i]
        constant == \A i \in DOMAIN call.v : call.v[i] = call.v[1]
    IN  repeats /\ ~constant => call.periods # {}

\* At most one value in s^2 lies s standard deviations away from the mean, so in a
\* short series nothing is an outlier.
OutliersAreFew ==
  call.fn = "detectAnomalies" => call.s * call.s * Cardinality(call.anomalies) <= 4 * Len(call.v)
=============================================================================
