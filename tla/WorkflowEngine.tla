--------------------------- MODULE WorkflowEngine ---------------------------
(***************************************************************************)
(* packages/core/engine/src/engine.ts and executor.ts: workflows executed  *)
(* group by group, the nodes of a group side by side, each node with its   *)
(* attempts, timeouts and retries.                                         *)
(*                                                                         *)
(* JavaScript runs one of these steps at a time.  A timeout rejects an     *)
(* attempt but does not stop its handler, and a node that fails ends the   *)
(* run but does not stop the other nodes of its group: both go on beside   *)
(* whatever comes next, and are kept in the state for that reason.         *)
(*                                                                         *)
(* The execution order of a workflow is the constant Plan[r].order; what   *)
(* is assumed of it is what DAGBuilder.tla shows of getParallelGroups.     *)
(***************************************************************************)
EXTENDS Naturals, FiniteSets, Sequences

CONSTANTS
  Runs,                   \* the calls of execute()
  NodeIds,                \* the ids that occur in the workflows
  Plan,                   \* Plan[r]: the workflow that r executes
  MaxRetries,             \* MaxRetries[n]: retryPolicy.maxRetries
  Conditional,            \* nodes with a condition
  Selective,              \* nodes whose retryPolicy lists retryableErrors
  MaxConcurrentWorkflows  \* config.maxConcurrentWorkflows

Nodes(r)  == Plan[r].nodes
Order(r)  == Plan[r].order
Groups(r) == 1..Len(Order(r))

\* getPredecessors(): the sources of the edges to n, those that are nodes.
Predecessors(r, n) == {p \in Nodes(r) : <<p, n>> \in Plan[r].edges}

ASSUME RunsAssumption == IsFiniteSet(Runs)
ASSUME PlanAssumption ==
  Plan \in [Runs -> [nodes : SUBSET NodeIds, edges : SUBSET (NodeIds \X NodeIds),
                     order : Seq(SUBSET NodeIds), cyclic : BOOLEAN]]
ASSUME OrderAssumption ==
  \A r \in Runs : ~Plan[r].cyclic => \A k \in Groups(r) :
    /\ Order(r)[k] # {}
    /\ \A n \in Order(r)[k] : \A p \in Predecessors(r, n) :
         \E j \in Groups(r) : j < k /\ p \in Order(r)[j]
    /\ \A j \in Groups(r) : j # k => Order(r)[j] \cap Order(r)[k] = {}
ASSUME PolicyAssumption ==
  MaxRetries \in [NodeIds -> Nat] /\ MaxConcurrentWorkflows \in Nat

VARIABLES
  activeExecutions, \* this.activeExecutions
  run,              \* run[r]: what became of the call
  level,            \* level[r]: how many groups were started
  node,             \* node[r][n]: where execution of the node is
  retryCount,       \* retryCount[r][n]: retryCount of NodeExecutor.execute
  fed,              \* fed[r][n]: the nodes whose output n was given
  stray             \* stray[r][n]: timed-out attempts whose handler still runs

runVars == <<activeExecutions, run, level>>
vars    == <<runVars, node, retryCount, fed, stray>>

Done  == {"completed", "skipped"}
Ended == {"completed", "failed", "rejected"}

-----------------------------------------------------------------------------
(* execute(): slots, groups, results *)

\* The group k is started.  Conditions look at variables that handlers may
\* set at any time, so each may hold or not; a condition that throws holds.
StartGroup(r, k) ==
  \E skipped \in SUBSET (Order(r)[k] \cap Conditional \cap Nodes(r)) :
    /\ node' = [node EXCEPT ![r] =
         [n \in NodeIds |-> IF n \notin Order(r)[k] THEN @[n]
                            ELSE IF n \notin Nodes(r) THEN "missing"
                            ELSE IF n \in skipped THEN "skipped" ELSE "attempt"]]
    /\ fed' = [fed EXCEPT ![r] =
         [n \in NodeIds |-> IF n \in (Order(r)[k] \cap Nodes(r)) \ skipped
           THEN {p \in Predecessors(r, n) : node[r][p] = "completed"} ELSE @[n]]]
    /\ level' = [level EXCEPT ![r] = k]

\* Mutant: the slot is checked with an off-by-one.
SlotFree_OffByOne == activeExecutions <= MaxConcurrentWorkflows

SlotFree == activeExecutions < MaxConcurrentWorkflows

Reject(r) ==
  /\ run[r] = "idle" /\ ~SlotFree
  /\ run' = [run EXCEPT ![r] = "rejected"]
  /\ UNCHANGED <<activeExecutions, level, node, retryCount, fed, stray>>

\* A cycle is found before anything is started: the slot is given back at once.
FindCycle(r) ==
  /\ run[r] = "idle" /\ SlotFree
  /\ Plan[r].cyclic
  /\ run' = [run EXCEPT ![r] = "failed"]
  /\ UNCHANGED <<activeExecutions, level, node, retryCount, fed, stray>>

\* No id without predecessors: there is no group, and the loop is not entered.
FindNothing(r) ==
  /\ run[r] = "idle" /\ SlotFree
  /\ ~Plan[r].cyclic /\ Order(r) = <<>>
  /\ run' = [run EXCEPT ![r] = "completed"]
  /\ UNCHANGED <<activeExecutions, level, node, retryCount, fed, stray>>

Execute(r) ==
  /\ run[r] = "idle" /\ SlotFree
  /\ ~Plan[r].cyclic /\ Order(r) # <<>>
  /\ activeExecutions' = activeExecutions + 1
  /\ run' = [run EXCEPT ![r] = "running"]
  /\ StartGroup(r, 1)
  /\ UNCHANGED <<retryCount, stray>>

\* Mutant: the group is over as soon as one of its nodes is (Promise.race).
GroupDone_Race(r) == \E n \in Order(r)[level[r]] : node[r][n] \in Done

\* Mutant: failed nodes count as done (Promise.allSettled).
GroupDone_Settled(r) ==
  \A n \in Order(r)[level[r]] : node[r][n] \in Done \cup {"failed", "missing"}

\* Promise.all of the group's promises is fulfilled.
GroupDone(r) == \A n \in Order(r)[level[r]] : node[r][n] \in Done

Advance(r) ==
  /\ run[r] = "running" /\ GroupDone(r)
  /\ level[r] < Len(Order(r))
  /\ StartGroup(r, level[r] + 1)
  /\ UNCHANGED <<activeExecutions, run, retryCount, stray>>

Complete(r) ==
  /\ run[r] = "running" /\ GroupDone(r)
  /\ level[r] = Len(Order(r))
  /\ activeExecutions' = activeExecutions - 1
  /\ run' = [run EXCEPT ![r] = "completed"]
  /\ UNCHANGED <<level, node, retryCount, fed, stray>>

\* Mutant: the catch block keeps the slot.
Fail_KeepsSlot(r) ==
  /\ run[r] = "running"
  /\ \E n \in Order(r)[level[r]] : node[r][n] \in {"failed", "missing"}
  /\ run' = [run EXCEPT ![r] = "failed"]
  /\ UNCHANGED <<activeExecutions, level, node, retryCount, fed, stray>>

\* Promise.all is rejected by the first node that fails.
Fail(r) ==
  /\ run[r] = "running"
  /\ \E n \in Order(r)[level[r]] : node[r][n] \in {"failed", "missing"}
  /\ activeExecutions' = activeExecutions - 1
  /\ run' = [run EXCEPT ![r] = "failed"]
  /\ UNCHANGED <<level, node, retryCount, fed, stray>>

-----------------------------------------------------------------------------
(* NodeExecutor.execute: attempts, timeouts, retries *)

Become(r, n, s) == node' = [node EXCEPT ![r][n] = s]

Succeed(r, n) ==
  /\ node[r][n] = "attempt"
  /\ Become(r, n, "completed")
  /\ UNCHANGED <<runVars, retryCount, fed, stray>>

\* The catch block: wait for another attempt, or give up.
AfterError(r, n) ==
  /\ \/ retryCount[r][n] < MaxRetries[n] /\ Become(r, n, "backoff")
     \/ (retryCount[r][n] >= MaxRetries[n] \/ n \in Selective) /\ Become(r, n, "failed")
  /\ UNCHANGED <<runVars, retryCount, fed>>

\* The handler rejects, its type is not registered, or its output cannot be
\* serialised for the metrics.
Throw(r, n) ==
  /\ node[r][n] = "attempt"
  /\ AfterError(r, n)
  /\ UNCHANGED stray

\* Mutant: only the first attempt has a timer.
TimeOut_FirstOnly(r, n) ==
  /\ node[r][n] = "attempt" /\ retryCount[r][n] = 0
  /\ AfterError(r, n)
  /\ stray' = [stray EXCEPT ![r][n] = @ + 1]

\* The timer rejects the attempt; the handler goes on.
TimeOut(r, n) ==
  /\ node[r][n] = "attempt"
  /\ AfterError(r, n)
  /\ stray' = [stray EXCEPT ![r][n] = @ + 1]

Retry(r, n) ==
  /\ node[r][n] = "backoff"
  /\ Become(r, n, "attempt")
  /\ retryCount' = [retryCount EXCEPT ![r][n] = @ + 1]
  /\ UNCHANGED <<runVars, fed, stray>>

\* A handler whose attempt has timed out ends: nobody looks at its result.
EndStray(r, n) ==
  /\ stray[r][n] > 0
  /\ stray' = [stray EXCEPT ![r][n] = @ - 1]
  /\ UNCHANGED <<runVars, node, retryCount, fed>>

-----------------------------------------------------------------------------
Init ==
  /\ activeExecutions = 0
  /\ run = [r \in Runs |-> "idle"]
  /\ level = [r \in Runs |-> 0]
  /\ node = [r \in Runs |-> [n \in NodeIds |-> "idle"]]
  /\ retryCount = [r \in Runs |-> [n \in NodeIds |-> 0]]
  /\ fed = [r \in Runs |-> [n \in NodeIds |-> {}]]
  /\ stray = [r \in Runs |-> [n \in NodeIds |-> 0]]

RunStep(r) == Reject(r) \/ FindCycle(r) \/ FindNothing(r) \/ Execute(r)
              \/ Advance(r) \/ Complete(r) \/ Fail(r)

NodeStep(r, n) == Succeed(r, n) \/ Throw(r, n) \/ TimeOut(r, n)
                  \/ Retry(r, n) \/ EndStray(r, n)

Next == \E r \in Runs : RunStep(r) \/ \E n \in NodeIds : NodeStep(r, n)

Spec == Init /\ [][Next]_vars

\* The event loop runs continuations and due timers.  Handlers owe nothing:
\* an attempt is only sure to end because its timer is.
Fairness ==
  \A r \in Runs :
    /\ WF_vars(Advance(r)) /\ WF_vars(Complete(r)) /\ WF_vars(Fail(r))
    /\ \A n \in NodeIds : WF_vars(TimeOut(r, n)) /\ WF_vars(Retry(r, n))

FairSpec == Spec /\ Fairness

-----------------------------------------------------------------------------
(* Properties *)

UnderWay == {r \in Runs : run[r] = "running"}
Started(r, n) == node[r][n] \notin {"idle", "missing"}

\* Every variable has the shape the code gives it.
TypeOK ==
  /\ activeExecutions \in Nat
  /\ run \in [Runs -> Ended \cup {"idle", "running"}]
  /\ level \in [Runs -> Nat]
  /\ node \in [Runs -> [NodeIds -> {"idle", "missing", "attempt", "backoff", "failed"} \cup Done]]
  /\ retryCount \in [Runs -> [NodeIds -> Nat]]
  /\ fed \in [Runs -> [NodeIds -> SUBSET NodeIds]]
  /\ stray \in [Runs -> [NodeIds -> Nat]]

\* No slot is lost or given back twice, whichever way a run ends, and no more
\* runs are under way than there are slots.
SlotsAccounted ==
  /\ activeExecutions = Cardinality(UnderWay)
  /\ activeExecutions <= MaxConcurrentWorkflows

\* A node is started only after every node it depends on has completed or was
\* skipped, and it is given the outputs of all those that completed.
PredecessorsFirst ==
  \A r \in Runs, n \in NodeIds : Started(r, n) =>
    \A p \in Predecessors(r, n) :
      /\ node[r][p] \in Done
      /\ node[r][n] # "skipped" => (p \in fed[r][n] <=> node[r][p] = "completed")

\* A node is attempted at most maxRetries + 1 times, and no more of its handlers
\* run at once, the timed-out ones included.
AttemptsBounded ==
  \A r \in Runs, n \in NodeIds :
    /\ retryCount[r][n] <= MaxRetries[n]
    /\ stray[r][n] + (IF node[r][n] = "attempt" THEN 1 ELSE 0) <= retryCount[r][n] + 1

\* A completed run has no node that failed or is still being attempted: every id
\* of its groups completed or was skipped.
CompletedMeansDone ==
  \A r \in Runs : run[r] = "completed" =>
    \A k \in Groups(r) : \A n \in Order(r)[k] : node[r][n] \in Done

\* Once a node has failed no later group is started, however the nodes beside it
\* go on: a node is started only by a run under way whose earlier groups are done.
FailFast ==
  [][\A r \in Runs, n \in NodeIds : ~Started(r, n) /\ Started(r, n)' =>
       /\ run'[r] = "running"
       /\ \A j \in 1..(level'[r] - 1) : \A m \in Order(r)[j] : node[r][m] \in Done]_vars

\* Slots, attempts and overlapping handlers stay within the options, through timeouts, retries
\* and runs that fail while some of their nodes go on.
BoundsKept == TypeOK /\ SlotsAccounted /\ AttemptsBounded

\* How a run ends follows from its nodes: it completes with all of them done, and one that
\* fails starts nothing more, although the nodes beside the failed one still settle.
RunsEndRight == []CompletedMeansDone /\ FailFast

\* A run ends although handlers may never return.
EveryRunEnds == \A r \in Runs : run[r] = "running" ~> run[r] \in Ended

\* The nodes beside a failed one are settled too, also after the run has failed.
EveryNodeSettles ==
  \A r \in Runs, n \in NodeIds :
    node[r][n] \in {"attempt", "backoff"} ~> node[r][n] \in Done \cup {"failed"}

\* DAG-based execution: a completed workflow has run, or skipped, all its nodes.
CompletedRunsEveryNode ==
  \A r \in Runs : run[r] = "completed" => \A n \in Nodes(r) : node[r][n] \in Done

PromiseBegun == [r \in Runs |-> {n \in NodeIds : node[r][n] # "idle"}]
PromiseDone  == [r \in Runs |-> {n \in NodeIds : node[r][n] \in Done}]

\* What a caller of execute() may rely on.
Promise ==
  INSTANCE WorkflowPromise WITH
    Scheduled <- [r \in Runs |-> UNION {Order(r)[k] : k \in Groups(r)}],
    Needs <- [r \in Runs |-> [n \in NodeIds |-> Predecessors(r, n)]],
    Limit <- MaxConcurrentWorkflows,
    state <- run, begun <- PromiseBegun, done <- PromiseDone

\* Every step of the engine is a step of the promise: nodes in dependency order,
\* none of them twice, runs that complete with everything done.
ImplementsPromise == Promise!Spec
=============================================================================
