-------------------------- MODULE WorkflowPromise --------------------------
(***************************************************************************)
(* What packages/core/engine promises the caller of execute(), without     *)
(* groups, attempts, timeouts or timers: how many runs may be under way,   *)
(* what a node waits for, and what it takes for a run to complete or fail. *)
(* WorkflowEngine.tla implements it.                                       *)
(***************************************************************************)
EXTENDS Naturals, FiniteSets

CONSTANTS
  Runs,      \* the calls of execute()
  NodeIds,
  Scheduled, \* Scheduled[r]: the ids the run r executes
  Needs,     \* Needs[r][n]: the nodes the node n of r depends on
  Limit      \* how many runs may be under way

VARIABLES
  state,     \* state[r]: where run r is
  begun,     \* begun[r]: the nodes that were started, or skipped
  done       \* done[r]: the nodes that completed, or were skipped

vars == <<state, begun, done>>

UnderWay == {r \in Runs : state[r] = "running"}

Init ==
  /\ state = [r \in Runs |-> "idle"]
  /\ begun = [r \in Runs |-> {}]
  /\ done = [r \in Runs |-> {}]

-----------------------------------------------------------------------------
Become(r, s) == state' = [state EXCEPT ![r] = s]

\* Nodes are started, each for the first time and after all it depends on;
\* the skipped ones are done at once.
Begin(r) ==
  \E S \in SUBSET (Scheduled[r] \ begun[r]) : \E D \in SUBSET S :
    /\ \A n \in S : Needs[r][n] \subseteq done[r]
    /\ begun' = [begun EXCEPT ![r] = @ \cup S]
    /\ done' = [done EXCEPT ![r] = @ \cup D]

Reject(r) ==
  /\ state[r] = "idle"
  /\ Cardinality(UnderWay) >= Limit
  /\ Become(r, "rejected")
  /\ UNCHANGED <<begun, done>>

Accept(r) ==
  /\ state[r] = "idle"
  /\ Cardinality(UnderWay) < Limit
  /\ Become(r, "running")
  /\ Begin(r)

Proceed(r) ==
  /\ state[r] = "running"
  /\ Begin(r)
  /\ UNCHANGED state

\* A node that was started may complete after its run has failed.
EndNode(r) ==
  \E n \in begun[r] \ done[r] :
    /\ done' = [done EXCEPT ![r] = @ \cup {n}]
    /\ UNCHANGED <<state, begun>>

\* A run completes only when every node it was to execute is done.
Complete(r) ==
  /\ state[r] = "running" \/ (state[r] = "idle" /\ Cardinality(UnderWay) < Limit)
  /\ done[r] = Scheduled[r]
  /\ Become(r, "completed")
  /\ UNCHANGED <<begun, done>>

\* A run fails before it started anything, or because of a node that was started.
Fail(r) ==
  /\ \/ state[r] = "idle" /\ Cardinality(UnderWay) < Limit
     \/ state[r] = "running" /\ begun[r] # done[r]
  /\ Become(r, "failed")
  /\ UNCHANGED <<begun, done>>

Next ==
  \E r \in Runs :
    Reject(r) \/ Accept(r) \/ Proceed(r) \/ EndNode(r) \/ Complete(r) \/ Fail(r)

Spec == Init /\ [][Next]_vars
=============================================================================
