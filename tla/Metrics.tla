------------------------------ MODULE Metrics ------------------------------
(***************************************************************************)
(* packages/enterprise/observability/src: the counters and histograms of   *)
(* metrics.ts and the registry of registry.ts, which may be cleared while  *)
(* callers hold on to a metric.                                            *)
(*                                                                         *)
(* A gauge is a counter that may also fall, and has no promise to keep.    *)
(* The label sets of a metric are its series.  Text is left out.           *)
(***************************************************************************)
EXTENDS Integers, Sequences, FiniteSets, FiniteSetsExt

CONSTANTS
  MetricNames,
  Instances,     \* the metrics that are created, one after the other
  Series,        \* the label sets the metrics allow
  OtherLabels,   \* label sets with a name that was not declared
  Bounds,        \* the finite bounds of the buckets, ascending
  Values,        \* what is observed
  NoMetric,
  MaxSamples     \* bound: the observations, and the sum of the increments, of all metrics

ASSUME BoundsAssumption ==
  /\ Bounds \in Seq(Int) /\ Values \subseteq Int
  /\ \A i, j \in DOMAIN Bounds : i < j => Bounds[i] < Bounds[j]
ASSUME MetricsAssumption == NoMetric \notin Instances \cup MetricNames /\ Series \cap OtherLabels = {}

VARIABLES
  metricName,     \* metricName[m]: the name of the metric m, NoMetric before it is created
  registeredAs,   \* the registry: registeredAs[n] is a metric or NoMetric
  counter,        \* counter[m]: [series -> value]
  buckets,        \* buckets[m]: [series -> counts]
  observations    \* observations[m]: [series -> what was observed, in order]

metricVars == <<metricName, registeredAs, counter, buckets, observations>>

MetricInit ==
  /\ metricName = [m \in Instances |-> NoMetric]
  /\ registeredAs = [n \in MetricNames |-> NoMetric]
  /\ counter = [m \in Instances |-> [l \in Series |-> 0]]
  /\ buckets = [m \in Instances |-> [l \in Series |-> [i \in 1..(Len(Bounds) + 1) |-> 0]]]
  /\ observations = [m \in Instances |-> [l \in Series |-> <<>>]]

\* counter(), histogram(): register() throws if the name is taken.
CreateMetric(m, n) ==
  /\ metricName[m] = NoMetric /\ registeredAs[n] = NoMetric
  /\ metricName' = [metricName EXCEPT ![m] = n]
  /\ registeredAs' = [registeredAs EXCEPT ![n] = m]
  /\ UNCHANGED <<counter, buckets, observations>>

Incremented(l) == MapThenSumSet(LAMBDA m : counter[m][l], Instances)
Sampled(l)     == MapThenSumSet(LAMBDA m : Len(observations[m][l]), Instances)

\* inc() throws for a negative amount and for labels that are not declared.
Increment(m, l, amount) ==
  /\ metricName[m] # NoMetric /\ l \in Series /\ amount >= 0 /\ Incremented(l) < MaxSamples
  /\ counter' = [counter EXCEPT ![m][l] = @ + amount]
  /\ UNCHANGED <<metricName, registeredAs, buckets, observations>>

\* The first bucket whose bound is at least the value, or the one without a bound.
FirstBucket(value) ==
  LET within == {i \in DOMAIN Bounds : value <= Bounds[i]}
  IN IF within = {} THEN Len(Bounds) + 1 ELSE CHOOSE i \in within : \A j \in within : i <= j

Observe(m, l, value) ==
  /\ metricName[m] # NoMetric /\ l \in Series /\ Sampled(l) < MaxSamples
  /\ observations' = [observations EXCEPT ![m][l] = Append(@, value)]
  /\ buckets' = [buckets EXCEPT ![m][l] = [i \in DOMAIN @ |-> IF i >= FirstBucket(value) THEN @[i] + 1 ELSE @[i]]]
  /\ UNCHANGED <<metricName, registeredAs, counter>>

\* clear(): the metrics live on in the hands of their callers.
ClearMetrics ==
  /\ \E n \in MetricNames : registeredAs[n] # NoMetric
  /\ registeredAs' = [n \in MetricNames |-> NoMetric]
  /\ UNCHANGED <<metricName, counter, buckets, observations>>

MetricNext ==
  \/ \E m \in Instances, n \in MetricNames : CreateMetric(m, n)
  \/ \E m \in Instances, l \in Series \cup OtherLabels, amount \in {-1, 1} : Increment(m, l, amount)
  \/ \E m \in Instances, l \in Series, value \in Values : Observe(m, l, value)
  \/ ClearMetrics

MetricSpec == MetricInit /\ [][MetricNext]_metricVars

\* The observations in ascending order: of the k-th, fewer than k are below and at least k not above.
Ordered(s) ==
  [k \in DOMAIN s |-> CHOOSE v \in {s[i] : i \in DOMAIN s} :
     Cardinality({i \in DOMAIN s : s[i] < v}) < k /\ k <= Cardinality({i \in DOMAIN s : s[i] <= v})]

\* Mutant: the position is taken over the number of observations instead of their distances.
Percentile_FromCount(s, p) ==
  LET sorted == Ordered(s)
      rank   == p * Len(s)
      below  == IF rank \div 100 + 1 > Len(s) THEN sorted[Len(s)] ELSE sorted[rank \div 100 + 1]
      above  == IF (rank + 99) \div 100 + 1 > Len(s) THEN sorted[Len(s)] ELSE sorted[(rank + 99) \div 100 + 1]
  IN 100 * below + (above - below) * (rank % 100)

\* quantile(p / 100), times 100: the value at the position p / 100 * (n - 1), between
\* the observations next to it.
Percentile(s, p) ==
  LET sorted == Ordered(s)
      rank   == p * (Len(s) - 1)
      below  == sorted[rank \div 100 + 1]
      above  == sorted[(rank + 99) \div 100 + 1]
  IN 100 * below + (above - below) * (rank % 100)

-----------------------------------------------------------------------------
(* Properties *)

\* Each bucket counts the observations up to its bound, the last one all of them.
BucketsCumulative ==
  \A m \in Instances, l \in Series :
    LET seen == observations[m][l] IN
    \A i \in DOMAIN buckets[m][l] :
      buckets[m][l][i] = Cardinality({k \in DOMAIN seen : i <= Len(Bounds) => seen[k] <= Bounds[i]})

\* Percentiles lie between the smallest and the largest observation and do not fall as p rises; of
\* mirrored observations they are the mirror image.
PercentilesSound ==
  \A m \in Instances, l \in Series :
    LET s == observations[m][l]
        mirrored == [k \in DOMAIN s |-> 0 - s[k]]
        ps == {0, 10, 50, 75, 99, 100}
    IN s # <<>> =>
       /\ Percentile(s, 0) = 100 * Head(Ordered(s)) /\ Percentile(s, 100) = 100 * Ordered(s)[Len(s)]
       /\ \A p, q \in ps : p <= q => Percentile(s, p) <= Percentile(s, q)
       /\ \A p \in ps : Percentile(mirrored, 100 - p) = 0 - Percentile(s, p)

\* Buckets and percentiles tell what was observed, also on the bounds and beyond the last one.
HistogramsFaithful == BucketsCumulative /\ PercentilesSound
=============================================================================
