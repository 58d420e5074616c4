---------------------------- MODULE JobLifecycle ----------------------------
(***************************************************************************)
(* What packages/core/queue promises its callers, without timers, ticks,   *)
(* containers or call stacks: the life of each job and the three limits    *)
(* that tie the jobs together (the concurrency of the worker, the attempts *)
(* of a job, one live job per dedupe key).  JobQueue.tla implements it.    *)
(***************************************************************************)
EXTENDS Naturals, FiniteSets

CONSTANTS
  Jobs,          \* every job that can ever be created
  Keys, NoKey,   \* dedupe keys, and "no key given"
  AttemptLimits, \* values of maxAttempts
  Concurrency    \* how many jobs the worker may run at once

VARIABLES
  state,    \* state[j]: where job j is in its life
  tries,    \* tries[j]: how often the worker was invoked for j
  limit,    \* limit[j]: the maxAttempts j was created with
  key       \* key[j]: the dedupe key j was created with

vars == <<state, tries, limit, key>>

States   == {"new", "pending", "running", "completed", "dead", "cancelled"}
Live(j)  == state[j] \in {"pending", "running"}
Running  == {j \in Jobs : state[j] = "running"}

Init ==
  /\ state = [j \in Jobs |-> "new"]
  /\ tries = [j \in Jobs |-> 0]
  /\ limit = [j \in Jobs |-> 0]
  /\ key = [j \in Jobs |-> NoKey]

-----------------------------------------------------------------------------
Become(j, s) == state' = [state EXCEPT ![j] = s]

\* A job is accepted only when no live job holds its dedupe key.
Accept(j) ==
  /\ state[j] = "new"
  /\ \E k \in Keys \cup {NoKey}, l \in AttemptLimits :
       /\ k # NoKey => \A i \in Jobs : Live(i) => key[i] # k
       /\ key' = [key EXCEPT ![j] = k]
       /\ limit' = [limit EXCEPT ![j] = l]
  /\ Become(j, "pending")
  /\ tries' = [tries EXCEPT ![j] = 0]

Start(j) ==
  /\ state[j] = "pending"
  /\ Cardinality(Running) < Concurrency
  /\ tries[j] < limit[j]
  /\ Become(j, "running")
  /\ tries' = [tries EXCEPT ![j] = @ + 1]
  /\ UNCHANGED <<limit, key>>

Complete(j) ==
  /\ state[j] = "running"
  /\ Become(j, "completed")
  /\ UNCHANGED <<tries, limit, key>>

\* A failed attempt: another try while there are tries left, death otherwise.
Retry(j) ==
  /\ state[j] = "running"
  /\ tries[j] < limit[j]
  /\ Become(j, "pending")
  /\ UNCHANGED <<tries, limit, key>>

Bury(j) ==
  /\ state[j] = "running"
  /\ tries[j] = limit[j]
  /\ Become(j, "dead")
  /\ UNCHANGED <<tries, limit, key>>

\* A running job is never cancelled.
Cancel(j) ==
  /\ state[j] = "pending"
  /\ Become(j, "cancelled")
  /\ UNCHANGED <<tries, limit, key>>

Next ==
  \E j \in Jobs :
    Accept(j) \/ Start(j) \/ Complete(j) \/ Retry(j) \/ Bury(j) \/ Cancel(j)

Spec == Init /\ [][Next]_vars
=============================================================================
