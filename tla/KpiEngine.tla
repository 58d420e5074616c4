----------------------------- MODULE KpiEngine -----------------------------
(***************************************************************************)
(* packages/analytics/kpi/src/kpi-engine.ts: key figures with thresholds,  *)
(* the values recorded for them and the alerts these raise.                *)
(*                                                                         *)
(* Values are whole: where the table says so they are tenths or hundredths.*)
(* Of a history only the last value decides; targets decide nothing.       *)
(***************************************************************************)
EXTENDS Integers

CONSTANTS
  Recorded,  \* the ids of the figures whose values are recorded
  NewIds,    \* an id that is registered later
  NewLimits, \* the thresholds that a later registration may give a figure
  KpiValues, \* the values recorded
  NoValue    \* no value yet, no thresholds

VARIABLES
  definitions, \* definitions[id]: the thresholds of a figure, which may have none
  latest,      \* latest[id]: the last entry of its history
  fresh        \* ids not defined anew since their latest value, for the properties

kpiVars == <<definitions, latest, fresh>>

\* The thresholds of the figures the engine starts with.
Defaults == [
  streams_total      |-> [warning |-> 800000, critical |-> 500000],
  revenue_total      |-> [warning |-> 80000, critical |-> 50000],
  active_users       |-> [warning |-> 40000, critical |-> 25000],
  ai_generations     |-> [warning |-> 8000, critical |-> 5000],
  track_quality_avg  |-> [warning |-> 75, critical |-> 60],      \* hundredths
  api_latency_p99    |-> [warning |-> 500, critical |-> 1000],
  error_rate         |-> [warning |-> 10, critical |-> 50],      \* tenths
  catalog_size       |-> [warning |-> 80000, critical |-> 50000],
  territory_coverage |-> [warning |-> 85, critical |-> 70],
  royalty_accuracy   |-> [warning |-> 990, critical |-> 950]]    \* tenths

Limit == [warning : Int, critical : Int]

ASSUME KpiAssumption ==
  /\ KpiValues \subseteq Int /\ \A limits \in NewLimits : limits = NoValue \/ limits \in Limit
  /\ NoValue \notin [value : Int, trend : {"flat", "up", "down"}, status : {"healthy", "warning", "critical"}]

\* The figures of which more is worse, whatever thresholds they are registered with.
InverseKpis == {"api_latency_p99", "error_rate"}

\* recordValue(): the status; a figure without thresholds is healthy.
Status(id, value, thresholds) ==
  LET worse(limit) == IF id \in InverseKpis THEN value >= limit ELSE value <= limit
  IN  IF thresholds = NoValue THEN "healthy"
      ELSE IF worse(thresholds.critical) THEN "critical" ELSE IF worse(thresholds.warning) THEN "warning" ELSE "healthy"

\* Mutant: every step that is not small goes up.
Trend_Absolute(before, value) ==
  IF before = 0 \/ before = value THEN "flat" ELSE "up"

\* recordValue(): flat below a change of 0.1 percent of what it was; from zero there is none.
Trend(before, value) ==
  LET size(x) == IF x < 0 THEN -x ELSE x
  IN  IF before = 0 \/ size(value - before) <= (size(before) - 1) \div 1000 THEN "flat"
      ELSE IF value > before THEN "up" ELSE "down"

KpiInit ==
  /\ definitions = Defaults
  /\ latest = [id \in DOMAIN Defaults \cup NewIds |-> NoValue]
  /\ fresh = {}

\* registerKPI(): the history of an id that is known stays; thresholds are optional.
RegisterKPI(id, thresholds) ==
  /\ definitions' = [k \in DOMAIN definitions \cup {id} |-> IF k = id THEN thresholds ELSE definitions[k]]
  /\ fresh' = fresh \ {id}
  /\ UNCHANGED latest

\* recordValue(), computeKPI()
RecordValue(id, value) ==
  /\ id \in DOMAIN definitions
  /\ LET before == IF latest[id] = NoValue THEN value ELSE latest[id].value
     IN latest' = [latest EXCEPT ![id] = [value |-> value, trend |-> Trend(before, value),
                                          status |-> Status(id, value, definitions[id])]]
  /\ fresh' = fresh \cup {id}
  /\ UNCHANGED definitions

\* getAlerts()
Alerts ==
  {[kpi |-> id, status |-> latest[id].status, value |-> latest[id].value,
    threshold |-> IF latest[id].status = "critical" THEN definitions[id].critical ELSE definitions[id].warning] :
     id \in {k \in DOMAIN definitions : /\ latest[k] # NoValue /\ latest[k].status # "healthy"
                                        /\ definitions[k] # NoValue}}

KpiNext ==
  \/ \E id \in Recorded \cap DOMAIN definitions, value \in KpiValues : RecordValue(id, value)
  \/ \E id \in NewIds \cup (Recorded \cap DOMAIN Defaults), limits \in NewLimits : RegisterKPI(id, limits)

-----------------------------------------------------------------------------
(* Properties *)

\* The critical threshold of a figure tells which way it is meant to get worse.
Worse(limits, value, before) == IF limits.critical > limits.warning THEN value > before ELSE value < before

\* The figures of which the engine says that higher is worse.
HigherIsWorse == {"api_latency_p99", "error_rate"}

\* The thresholds of a figure are those of the table, or go the way the engine assumes by its id.
RightWay(id, limits) ==
  \/ id \in DOMAIN Defaults /\ limits = Defaults[id]
  \/ limits.critical > limits.warning <=> id \in HigherIsWorse

KeepAlerts ==
  \A id \in {k \in fresh : /\ definitions[k] # NoValue /\ RightWay(k, definitions[k])
                          /\ latest'[k] # latest[k]} :
    Worse(definitions[id], latest'[id].value, latest[id].value) =>
      \A a \in {b \in Alerts : b.kpi = id} : \E b \in Alerts' :
        b.kpi = id /\ (a.status = "critical" => b.status = "critical")

\* A figure that gets worse keeps its alert, and a critical one stays critical, for every figure
\* of the table and every one registered later, unless it is registered with thresholds the
\* other way round: the engine knows by id of two figures of which higher is worse, and any other
\* one whose critical threshold is the higher one loses its alert as it gets worse.
AlertsStay == [][KeepAlerts]_kpiVars

\* Recording values step by step: the trend tells which way the last step went.
TrendsFollowValues ==
  [][\A id \in DOMAIN latest : latest'[id] # latest[id] /\ latest[id] # NoValue =>
       /\ latest'[id].trend = "up" => latest'[id].value > latest[id].value
       /\ latest'[id].trend = "down" => latest'[id].value < latest[id].value]_kpiVars
=============================================================================
