---------------------------- MODULE Experiments ----------------------------
(***************************************************************************)
(* packages/analytics/experimentation/src/ab-testing.ts: the life cycle    *)
(* of an experiment, the assignment of users to its variants and the       *)
(* counters; the statistics are in ExperimentResults.                      *)
(***************************************************************************)
EXTENDS Integers, Sequences, FiniteSets

CONSTANTS
  ExpUsers,
  ExpWeights,   \* the weights of the variants, in their order
  NoVariant,    \* a user without an assignment
  MaxEvents     \* bound: the calls of recordImpression() and recordConversion() per variant

ASSUME ExpWeightsAssumption == ExpWeights # <<>> /\ \A v \in DOMAIN ExpWeights : ExpWeights[v] \in Nat
ASSUME NoVariantAssumption == NoVariant \notin DOMAIN ExpWeights

VARIABLES
  expStatus,    \* the status of the experiment, "none" before it is created
  assigned,     \* userAssignments
  impressions, conversions, sampled,   \* the counters of the variants, and currentSampleSize
  recordedImpressions                  \* history: the calls of recordImpression()

expVars == <<expStatus, assigned, impressions, conversions, sampled, recordedImpressions>>

ExpVariants == DOMAIN ExpWeights
Zeros       == [v \in ExpVariants |-> 0]

ExpInit ==
  /\ expStatus = "none" /\ assigned = [u \in ExpUsers |-> NoVariant]
  /\ impressions = Zeros /\ conversions = Zeros /\ sampled = 0 /\ recordedImpressions = Zeros

CreateExperiment ==
  /\ expStatus = "none"
  /\ expStatus' = "draft"
  /\ UNCHANGED <<assigned, impressions, conversions, sampled, recordedImpressions>>

\* Mutant: what was stopped can be started again.
StartExperiment_Again ==
  /\ expStatus \in {"draft", "paused", "completed"}
  /\ expStatus' = "running"
  /\ UNCHANGED <<assigned, impressions, conversions, sampled, recordedImpressions>>

StartExperiment ==
  /\ expStatus \in {"draft", "paused"}
  /\ expStatus' = "running"
  /\ UNCHANGED <<assigned, impressions, conversions, sampled, recordedImpressions>>

\* The draw falls in [0, total) and goes down by one weight after the other until
\* it is at most 0: a draw of 0 takes the first variant, of whatever weight.
Drawn == {v \in ExpVariants : v = 1 \/ ExpWeights[v] > 0}

\* A user who has a variant keeps it, and nothing is counted.
AssignVariant(u, v) ==
  /\ expStatus = "running" /\ assigned[u] = NoVariant
  /\ assigned' = [assigned EXCEPT ![u] = v]
  /\ impressions' = [impressions EXCEPT ![v] = @ + 1]
  /\ sampled' = sampled + 1
  /\ UNCHANGED <<expStatus, conversions, recordedImpressions>>

\* In whatever status the experiment is.
RecordConversion(v) ==
  /\ expStatus # "none" /\ conversions[v] < MaxEvents
  /\ conversions' = [conversions EXCEPT ![v] = @ + 1]
  /\ UNCHANGED <<expStatus, assigned, impressions, sampled, recordedImpressions>>

RecordImpression(v) ==
  /\ expStatus # "none" /\ recordedImpressions[v] < MaxEvents
  /\ impressions' = [impressions EXCEPT ![v] = @ + 1]
  /\ recordedImpressions' = [recordedImpressions EXCEPT ![v] = @ + 1]
  /\ UNCHANGED <<expStatus, assigned, conversions, sampled>>

\* From any status, a draft included.
StopExperiment ==
  /\ expStatus # "none"
  /\ expStatus' = "completed"
  /\ UNCHANGED <<assigned, impressions, conversions, sampled, recordedImpressions>>

ExpNext ==
  \/ CreateExperiment \/ StartExperiment \/ StopExperiment
  \/ \E u \in ExpUsers, v \in Drawn : AssignVariant(u, v)
  \/ \E v \in ExpVariants : RecordConversion(v) \/ RecordImpression(v)

ExpSpec == ExpInit /\ [][ExpNext]_expVars

-----------------------------------------------------------------------------
(* Properties *)

\* The counters agree with the assignments: each user was sampled and shown a variant once,
\* however often the user was asked for, and what else was shown was recorded by its callers.
SampleCountsUsersOnce ==
  LET With(v) == {u \in ExpUsers : assigned[u] = v} IN
  /\ sampled = Cardinality({u \in ExpUsers : assigned[u] # NoVariant})
  /\ \A v \in ExpVariants : impressions[v] = recordedImpressions[v] + Cardinality(With(v))

\* No user gets a variant without weight, the first excepted.
WeightlessNotAssigned == \A u \in ExpUsers : assigned[u] \notin {v \in ExpVariants \ {1} : ExpWeights[v] = 0}

\* A user never moves to another variant, and once the experiment is stopped, it stays stopped and
\* nobody enters it.
AssignmentsStick ==
  [][/\ \A u \in ExpUsers : assigned[u] # NoVariant => assigned'[u] = assigned[u]
     /\ expStatus = "completed" => expStatus' = "completed" /\ assigned' = assigned]_expVars

\* An experiment is fair to count on: users stay where the weights put them, counted once.
ExperimentsCount == []SampleCountsUsersOnce /\ []WeightlessNotAssigned /\ AssignmentsStick
=============================================================================
