------------------------ MODULE WorkflowEngineProofs ------------------------
(***************************************************************************)
(* Proofs about WorkflowEngine, for every set of runs, every workflow whose *)
(* order respects its edges, every retry policy and every number of slots. *)
(* The inductive invariant is IInv: the shape of the state, the count of   *)
(* the slots, the attempts of each node, and how far the groups have come. *)
(***************************************************************************)
EXTENDS WorkflowEngine, FiniteSetTheorems, TLAPS

NodeStates == {"idle", "missing", "attempt", "backoff", "failed"} \cup Done

\* An attempt that waits for its retry has a retry left, and a node that was
\* not started has neither attempts nor handlers.
RetriesInv ==
  \A r \in Runs, n \in NodeIds :
    /\ node[r][n] = "backoff" => retryCount[r][n] < MaxRetries[n]
    /\ node[r][n] = "idle" => retryCount[r][n] = 0 /\ stray[r][n] = 0

\* The groups up to the current one were started, those before it are done.
GroupsInv ==
  \A r \in Runs :
    /\ level[r] <= Len(Order(r))
    /\ level[r] > 0 => ~Plan[r].cyclic
    /\ run[r] = "running" => level[r] > 0
    /\ run[r] = "idle" => level[r] = 0
    /\ run[r] = "completed" => level[r] = Len(Order(r))
    /\ \A n \in NodeIds : node[r][n] # "idle" => \E j \in 1..level[r] : n \in Order(r)[j]
    /\ \A j \in 1..level[r] : \A n \in Order(r)[j] :
         /\ node[r][n] # "idle"
         /\ j < level[r] \/ run[r] = "completed" => node[r][n] \in Done

IInv ==
  /\ TypeOK /\ SlotsAccounted /\ AttemptsBounded
  /\ RetriesInv /\ GroupsInv /\ PredecessorsFirst

-----------------------------------------------------------------------------
(* What the constants and the steps are made of *)

LEMMA PlanShape ==
  ASSUME NEW r \in Runs
  PROVE  /\ Nodes(r) \subseteq NodeIds
         /\ Order(r) \in Seq(SUBSET NodeIds)
         /\ Len(Order(r)) \in Nat
         /\ \A k \in 1..Len(Order(r)) : Order(r)[k] \subseteq NodeIds
  BY PlanAssumption DEF Nodes, Order

\* A group changes only its own nodes, and starts or skips each of them.
LEMMA StartGroupEffect ==
  ASSUME TypeOK, NEW r \in Runs, NEW k \in Nat, k \in Groups(r), StartGroup(r, k)
  PROVE  /\ level' = [level EXCEPT ![r] = k]
         /\ node' \in [Runs -> [NodeIds -> NodeStates]]
         /\ fed' \in [Runs -> [NodeIds -> SUBSET NodeIds]]
         /\ \A q \in Runs, n \in NodeIds : q # r \/ n \notin Order(r)[k] =>
              node'[q][n] = node[q][n] /\ fed'[q][n] = fed[q][n]
         /\ \A n \in Order(r)[k] :
              /\ node'[r][n] \in {"missing", "skipped", "attempt"}
              /\ node'[r][n] = "attempt" =>
                   fed'[r][n] = {p \in Predecessors(r, n) : node[r][p] = "completed"}
<1>1. PICK skipped \in SUBSET (Order(r)[k] \cap Conditional \cap Nodes(r)) :
        /\ node' = [node EXCEPT ![r] =
             [n \in NodeIds |-> IF n \notin Order(r)[k] THEN @[n]
                                ELSE IF n \notin Nodes(r) THEN "missing"
                                ELSE IF n \in skipped THEN "skipped" ELSE "attempt"]]
        /\ fed' = [fed EXCEPT ![r] =
             [n \in NodeIds |-> IF n \in (Order(r)[k] \cap Nodes(r)) \ skipped
               THEN {p \in Predecessors(r, n) : node[r][p] = "completed"} ELSE @[n]]]
        /\ level' = [level EXCEPT ![r] = k]
  BY DEF StartGroup
<1>2. Order(r)[k] \subseteq NodeIds
  BY PlanShape DEF Groups
<1>3. node \in [Runs -> [NodeIds -> NodeStates]] /\ fed \in [Runs -> [NodeIds -> SUBSET NodeIds]]
  BY DEF TypeOK, NodeStates
<1>4. node' \in [Runs -> [NodeIds -> NodeStates]]
  BY <1>1, <1>3 DEF NodeStates, Done
<1>5. \A n \in NodeIds : {p \in Predecessors(r, n) : node[r][p] = "completed"} \subseteq NodeIds
  BY PlanShape DEF Predecessors
<1>6. fed' \in [Runs -> [NodeIds -> SUBSET NodeIds]]
  BY <1>1, <1>3, <1>5
<1>7. \A q \in Runs, n \in NodeIds : q # r \/ n \notin Order(r)[k] =>
        node'[q][n] = node[q][n] /\ fed'[q][n] = fed[q][n]
  BY <1>1, <1>3
<1>8. ASSUME NEW n \in Order(r)[k]
      PROVE  /\ node'[r][n] \in {"missing", "skipped", "attempt"}
             /\ node'[r][n] = "attempt" =>
                  fed'[r][n] = {p \in Predecessors(r, n) : node[r][p] = "completed"}
  BY <1>1, <1>2, <1>3
<1> QED
  BY <1>1, <1>4, <1>6, <1>7, <1>8

\* What the steps of a node do to it, and that they leave all else alone.
LEMMA NodeStepEffect ==
  ASSUME TypeOK, NEW r \in Runs, NEW n \in NodeIds, NodeStep(r, n)
  PROVE  /\ UNCHANGED <<activeExecutions, run, level, fed>>
         /\ \A q \in Runs, m \in NodeIds : q # r \/ m # n =>
              /\ node'[q][m] = node[q][m]
              /\ retryCount'[q][m] = retryCount[q][m]
              /\ stray'[q][m] = stray[q][m]
         /\ \/ node'[r][n] = node[r][n]
            \/ /\ node[r][n] \in {"attempt", "backoff"}
               /\ node'[r][n] \in {"attempt", "backoff", "completed", "failed"}
         /\ node' \in [Runs -> [NodeIds -> NodeStates]]
<1>1. node \in [Runs -> [NodeIds -> NodeStates]]
  BY DEF TypeOK, NodeStates
<1>2. CASE Succeed(r, n)
  <2>1. node[r][n] = "attempt" /\ node' = [node EXCEPT ![r][n] = "completed"]
    BY <1>2 DEF Succeed, Become
  <2> QED
    BY <1>1, <1>2, <2>1 DEF Succeed, runVars, NodeStates, Done
<1>3. CASE Throw(r, n) \/ TimeOut(r, n)
  <2>1. /\ node[r][n] = "attempt"
        /\ UNCHANGED <<activeExecutions, run, level, fed, retryCount>>
        /\ \/ UNCHANGED stray
           \/ stray' = [stray EXCEPT ![r][n] = @ + 1]
    BY <1>3 DEF Throw, TimeOut, AfterError, runVars
  <2>2. PICK s \in {"backoff", "failed"} : node' = [node EXCEPT ![r][n] = s]
    BY <1>3 DEF Throw, TimeOut, AfterError, Become
  <2>3. stray \in [Runs -> [NodeIds -> Nat]]
    BY DEF TypeOK
  <2> QED
    BY <1>1, <2>1, <2>2, <2>3 DEF NodeStates
<1>4. CASE Retry(r, n)
  <2>1. node[r][n] = "backoff" /\ node' = [node EXCEPT ![r][n] = "attempt"]
    BY <1>4 DEF Retry, Become
  <2>2. retryCount \in [Runs -> [NodeIds -> Nat]]
    BY DEF TypeOK
  <2> QED
    BY <1>1, <1>4, <2>1, <2>2 DEF Retry, runVars, NodeStates
<1>5. CASE EndStray(r, n)
  BY <1>1, <1>5 DEF EndStray, runVars, TypeOK
<1> QED
  BY <1>2, <1>3, <1>4, <1>5 DEF NodeStep

-----------------------------------------------------------------------------
(* The parts of the invariant *)

\* A node's attempts and handlers stay within its retries, whatever it does.
LEMMA NodeStepAttempts ==
  ASSUME TypeOK, AttemptsBounded, RetriesInv, NEW r \in Runs, NEW n \in NodeIds, NodeStep(r, n)
  PROVE  /\ retryCount' \in [Runs -> [NodeIds -> Nat]]
         /\ stray' \in [Runs -> [NodeIds -> Nat]]
         /\ AttemptsBounded' /\ RetriesInv'
<1>1. /\ node \in [Runs -> [NodeIds -> NodeStates]]
      /\ retryCount \in [Runs -> [NodeIds -> Nat]]
      /\ stray \in [Runs -> [NodeIds -> Nat]]
      /\ MaxRetries[n] \in Nat
  BY PolicyAssumption DEF TypeOK, NodeStates
<1>2. /\ retryCount[r][n] <= MaxRetries[n]
      /\ stray[r][n] + (IF node[r][n] = "attempt" THEN 1 ELSE 0) <= retryCount[r][n] + 1
      /\ node[r][n] = "backoff" => retryCount[r][n] < MaxRetries[n]
      /\ node[r][n] = "idle" => retryCount[r][n] = 0 /\ stray[r][n] = 0
  BY DEF AttemptsBounded, RetriesInv
<1>3. /\ retryCount' \in [Runs -> [NodeIds -> Nat]]
      /\ stray' \in [Runs -> [NodeIds -> Nat]]
      /\ retryCount'[r][n] <= MaxRetries[n]
      /\ stray'[r][n] + (IF node'[r][n] = "attempt" THEN 1 ELSE 0) <= retryCount'[r][n] + 1
      /\ node'[r][n] = "backoff" => retryCount'[r][n] < MaxRetries[n]
      /\ node'[r][n] = "idle" => retryCount'[r][n] = 0 /\ stray'[r][n] = 0
  <2>1. CASE Succeed(r, n)
    <3>1. /\ node[r][n] = "attempt" /\ node' = [node EXCEPT ![r][n] = "completed"]
          /\ UNCHANGED <<retryCount, stray>>
      BY <2>1 DEF Succeed, Become
    <3> QED
      BY <1>1, <1>2, <3>1
  <2>2. CASE Throw(r, n) \/ TimeOut(r, n)
    <3>1. /\ node[r][n] = "attempt"
          /\ retryCount' = retryCount
          /\ stray' = stray \/ stray' = [stray EXCEPT ![r][n] = @ + 1]
      BY <2>2 DEF Throw, TimeOut, AfterError
    <3>2. \/ retryCount[r][n] < MaxRetries[n] /\ node' = [node EXCEPT ![r][n] = "backoff"]
          \/ node' = [node EXCEPT ![r][n] = "failed"]
      BY <2>2 DEF Throw, TimeOut, AfterError, Become
    <3>3. stray' \in [Runs -> [NodeIds -> Nat]] /\ stray'[r][n] <= stray[r][n] + 1
      <4>1. stray[r][n] \in Nat
        BY <1>1
      <4>2. CASE stray' = stray
        BY <1>1, <4>1, <4>2
      <4>3. CASE stray' = [stray EXCEPT ![r][n] = @ + 1]
        BY <1>1, <4>1, <4>3
      <4> QED
        BY <3>1, <4>2, <4>3
    <3>4. \/ retryCount[r][n] < MaxRetries[n] /\ node'[r][n] = "backoff"
          \/ node'[r][n] = "failed"
      BY <1>1, <3>2
    <3> QED
      BY <1>1, <1>2, <3>1, <3>3, <3>4
  <2>3. CASE Retry(r, n)
    <3>1. /\ node[r][n] = "backoff" /\ node' = [node EXCEPT ![r][n] = "attempt"]
          /\ retryCount' = [retryCount EXCEPT ![r][n] = @ + 1] /\ stray' = stray
      BY <2>3 DEF Retry, Become
    <3>2. node'[r][n] = "attempt" /\ retryCount'[r][n] = retryCount[r][n] + 1
      BY <1>1, <3>1
    <3>3. retryCount' \in [Runs -> [NodeIds -> Nat]]
      BY <1>1, <3>1
    <3> QED
      BY <1>1, <1>2, <3>1, <3>2, <3>3
  <2>4. CASE EndStray(r, n)
    <3>1. /\ stray[r][n] > 0 /\ stray' = [stray EXCEPT ![r][n] = @ - 1]
          /\ UNCHANGED <<node, retryCount>>
      BY <2>4 DEF EndStray
    <3> QED
      BY <1>1, <1>2, <3>1
  <2> QED
    BY <2>1, <2>2, <2>3, <2>4 DEF NodeStep
<1>4. \A q \in Runs, m \in NodeIds : q # r \/ m # n =>
        /\ node'[q][m] = node[q][m]
        /\ retryCount'[q][m] = retryCount[q][m]
        /\ stray'[q][m] = stray[q][m]
  BY NodeStepEffect
<1>5. AttemptsBounded'
  <2> SUFFICES ASSUME NEW q \in Runs, NEW m \in NodeIds
               PROVE  /\ retryCount'[q][m] <= MaxRetries[m]
                      /\ stray'[q][m] + (IF node'[q][m] = "attempt" THEN 1 ELSE 0)
                           <= retryCount'[q][m] + 1
    BY DEF AttemptsBounded
  <2>1. CASE q = r /\ m = n
    BY <1>3, <2>1
  <2>2. CASE q # r \/ m # n
    BY <1>4, <2>2 DEF AttemptsBounded
  <2> QED
    BY <2>1, <2>2
<1>6. RetriesInv'
  <2> SUFFICES ASSUME NEW q \in Runs, NEW m \in NodeIds
               PROVE  /\ node'[q][m] = "backoff" => retryCount'[q][m] < MaxRetries[m]
                      /\ node'[q][m] = "idle" => retryCount'[q][m] = 0 /\ stray'[q][m] = 0
    BY DEF RetriesInv
  <2>1. CASE q = r /\ m = n
    BY <1>3, <2>1
  <2>2. CASE q # r \/ m # n
    BY <1>4, <2>2 DEF RetriesInv
  <2> QED
    BY <2>1, <2>2
<1> QED
  BY <1>3, <1>5, <1>6

\* A node's step starts no node and undoes none that is done.
LEMMA NodeStepGroups ==
  ASSUME TypeOK, GroupsInv, PredecessorsFirst, NEW r \in Runs, NEW n \in NodeIds, NodeStep(r, n)
  PROVE  GroupsInv' /\ PredecessorsFirst'
<1>1. /\ UNCHANGED <<activeExecutions, run, level, fed>>
      /\ \A q \in Runs, m \in NodeIds : q # r \/ m # n => node'[q][m] = node[q][m]
      /\ \/ node'[r][n] = node[r][n]
         \/ /\ node[r][n] \in {"attempt", "backoff"}
            /\ node'[r][n] \in {"attempt", "backoff", "completed", "failed"}
  BY NodeStepEffect
<1>2. \A q \in Runs, m \in NodeIds :
        /\ node[q][m] \in Done => node'[q][m] = node[q][m]
        /\ node'[q][m] = "idle" <=> node[q][m] = "idle"
        /\ node'[q][m] = "missing" <=> node[q][m] = "missing"
        /\ node'[q][m] = "skipped" <=> node[q][m] = "skipped"
  BY <1>1 DEF Done
<1>3. GroupsInv'
  <2> SUFFICES ASSUME NEW q \in Runs
               PROVE  /\ level[q] <= Len(Order(q))
                      /\ level[q] > 0 => ~Plan[q].cyclic
                      /\ run[q] = "running" => level[q] > 0
                      /\ run[q] = "idle" => level[q] = 0
                      /\ run[q] = "completed" => level[q] = Len(Order(q))
                      /\ \A m \in NodeIds : node'[q][m] # "idle" => \E j \in 1..level[q] : m \in Order(q)[j]
                      /\ \A j \in 1..level[q] : \A m \in Order(q)[j] :
                           /\ node'[q][m] # "idle"
                           /\ j < level[q] \/ run[q] = "completed" => node'[q][m] \in Done
    BY <1>1 DEF GroupsInv, Order
  <2>1. \A j \in 1..level[q] : Order(q)[j] \subseteq NodeIds
    BY PlanShape DEF GroupsInv, TypeOK
  <2> QED
    BY <1>2, <2>1 DEF GroupsInv
<1>4. PredecessorsFirst'
  <2> SUFFICES ASSUME NEW q \in Runs, NEW m \in NodeIds, Started(q, m)', NEW p \in Predecessors(q, m)
               PROVE  /\ node'[q][p] \in Done
                      /\ node'[q][m] # "skipped" =>
                           (p \in fed'[q][m] <=> node'[q][p] = "completed")
    BY DEF PredecessorsFirst, Predecessors, Nodes
  <2>1. Started(q, m) /\ p \in NodeIds
    BY <1>2, PlanShape DEF Started, Predecessors
  <2>2. /\ node[q][p] \in Done
        /\ node[q][m] # "skipped" => (p \in fed[q][m] <=> node[q][p] = "completed")
    BY <2>1 DEF PredecessorsFirst
  <2> QED
    BY <1>1, <1>2, <2>1, <2>2
<1> QED
  BY <1>3, <1>4

\* The next group holds nodes that were not started, and all that these wait
\* for is done.
LEMMA NextGroupFresh ==
  ASSUME TypeOK, GroupsInv, NEW r \in Runs, NEW k \in Groups(r), k = level[r] + 1,
         ~Plan[r].cyclic,
         k > 1 => \A n \in Order(r)[k - 1] : node[r][n] \in Done
  PROVE  /\ \A n \in Order(r)[k] : n \in NodeIds /\ node[r][n] = "idle"
         /\ \A j \in 1..(k - 1) : \A n \in Order(r)[j] : n \in NodeIds /\ node[r][n] \in Done
         /\ \A n \in Order(r)[k] : \A p \in Predecessors(r, n) :
              p \in NodeIds /\ node[r][p] \in Done
<1>1. level[r] \in Nat /\ k \in Nat /\ level[r] = k - 1 /\ Len(Order(r)) \in Nat
  BY PlanShape DEF TypeOK, Groups
<1>2. \A j \in 1..k : Order(r)[j] \subseteq NodeIds
  BY <1>1, PlanShape DEF Groups
<1>3. ASSUME NEW n \in Order(r)[k]
      PROVE  node[r][n] = "idle"
  <2>1. ASSUME NEW j \in 1..level[r]
        PROVE  n \notin Order(r)[j]
    <3>1. j \in Groups(r) /\ j # k
      BY <1>1 DEF Groups
    <3>2. Order(r)[j] \cap Order(r)[k] = {}
      BY <3>1, OrderAssumption
    <3> QED
      BY <1>3, <3>2
  <2>2. n \in NodeIds
    BY <1>1, <1>2
  <2>3. node[r][n] # "idle" => \E j \in 1..level[r] : n \in Order(r)[j]
    BY <2>2 DEF GroupsInv
  <2> QED
    BY <2>1, <2>3
<1>4. ASSUME NEW j \in 1..(k - 1), NEW n \in Order(r)[j]
      PROVE  node[r][n] \in Done
  <2>1. CASE j = k - 1
    BY <1>1, <2>1
  <2>2. CASE j < k - 1
    BY <1>1, <2>2 DEF GroupsInv
  <2> QED
    BY <1>1, <2>1, <2>2
<1>5. ASSUME NEW n \in Order(r)[k], NEW p \in Predecessors(r, n)
      PROVE  p \in NodeIds /\ node[r][p] \in Done
  <2>1. PICK j \in Groups(r) : j < k /\ p \in Order(r)[j]
    BY OrderAssumption
  <2> QED
    BY <1>1, <1>2, <1>4, <2>1 DEF Groups
<1> QED
  BY <1>1, <1>2, <1>3, <1>4, <1>5

\* Starting the next group keeps every part of the invariant but the count of
\* the slots.
LEMMA StartGroupKeeps ==
  ASSUME TypeOK, AttemptsBounded, RetriesInv, GroupsInv, PredecessorsFirst,
         NEW r \in Runs, NEW k \in Groups(r), k = level[r] + 1,
         ~Plan[r].cyclic,
         k > 1 => \A n \in Order(r)[k - 1] : node[r][n] \in Done,
         StartGroup(r, k), UNCHANGED <<retryCount, stray>>,
         run' \in [Runs -> Ended \cup {"idle", "running"}],
         run'[r] = "running",
         \A q \in Runs : q # r => run'[q] = run[q]
  PROVE  /\ AttemptsBounded' /\ RetriesInv' /\ GroupsInv' /\ PredecessorsFirst'
         /\ level' \in [Runs -> Nat]
<1>1. /\ level \in [Runs -> Nat] /\ level[r] \in Nat /\ k \in Nat /\ level[r] = k - 1
      /\ Len(Order(r)) \in Nat /\ k <= Len(Order(r))
  BY PlanShape DEF TypeOK, Groups
<1>2. /\ level' = [level EXCEPT ![r] = k]
      /\ \A q \in Runs, n \in NodeIds : q # r \/ n \notin Order(r)[k] =>
           node'[q][n] = node[q][n] /\ fed'[q][n] = fed[q][n]
      /\ \A n \in Order(r)[k] :
           /\ node'[r][n] \in {"missing", "skipped", "attempt"}
           /\ node'[r][n] = "attempt" =>
                fed'[r][n] = {p \in Predecessors(r, n) : node[r][p] = "completed"}
  BY <1>1, StartGroupEffect
<1>3. level'[r] = k /\ \A q \in Runs : q # r => level'[q] = level[q]
  BY <1>1, <1>2
<1>4. /\ \A n \in Order(r)[k] : n \in NodeIds /\ node[r][n] = "idle"
      /\ \A j \in 1..(k - 1) : \A n \in Order(r)[j] : n \in NodeIds /\ node[r][n] \in Done
      /\ \A n \in Order(r)[k] : \A p \in Predecessors(r, n) :
           p \in NodeIds /\ node[r][p] \in Done
  BY NextGroupFresh
<1>5. \A n \in NodeIds : node[r][n] # "idle" => n \notin Order(r)[k]
  BY <1>4
<1>6. AttemptsBounded' /\ RetriesInv'
  <2> SUFFICES ASSUME NEW q \in Runs, NEW m \in NodeIds
               PROVE  /\ retryCount[q][m] <= MaxRetries[m]
                      /\ stray[q][m] + (IF node'[q][m] = "attempt" THEN 1 ELSE 0)
                           <= retryCount[q][m] + 1
                      /\ node'[q][m] = "backoff" => retryCount[q][m] < MaxRetries[m]
                      /\ node'[q][m] = "idle" => retryCount[q][m] = 0 /\ stray[q][m] = 0
    BY DEF AttemptsBounded, RetriesInv
  <2>1. CASE q = r /\ m \in Order(r)[k]
    <3>1. retryCount[q][m] = 0 /\ stray[q][m] = 0 /\ MaxRetries[m] \in Nat
      BY <1>4, <2>1, PolicyAssumption DEF RetriesInv
    <3>2. node'[q][m] \in {"missing", "skipped", "attempt"}
      BY <1>2, <2>1
    <3> QED
      BY <3>1, <3>2
  <2>2. CASE q # r \/ m \notin Order(r)[k]
    BY <1>2, <2>2 DEF AttemptsBounded, RetriesInv
  <2> QED
    BY <2>1, <2>2
<1>7. GroupsInv'
  <2> SUFFICES ASSUME NEW q \in Runs
               PROVE  /\ level'[q] <= Len(Order(q))
                      /\ level'[q] > 0 => ~Plan[q].cyclic
                      /\ run'[q] = "running" => level'[q] > 0
                      /\ run'[q] = "idle" => level'[q] = 0
                      /\ run'[q] = "completed" => level'[q] = Len(Order(q))
                      /\ \A m \in NodeIds : node'[q][m] # "idle" => \E j \in 1..level'[q] : m \in Order(q)[j]
                      /\ \A j \in 1..level'[q] : \A m \in Order(q)[j] :
                           /\ node'[q][m] # "idle"
                           /\ j < level'[q] \/ run'[q] = "completed" => node'[q][m] \in Done
    BY DEF GroupsInv, Order
  <2>1. CASE q # r
    <3>1. \A j \in 1..level[q] : Order(q)[j] \subseteq NodeIds
      BY PlanShape DEF GroupsInv, TypeOK
    <3> QED
      BY <1>2, <1>3, <2>1, <3>1 DEF GroupsInv
  <2>2. CASE q = r
    <3>1. ASSUME NEW m \in NodeIds, node'[r][m] # "idle"
          PROVE  \E j \in 1..k : m \in Order(r)[j]
      <4>1. CASE m \in Order(r)[k]
        BY <1>1, <4>1
      <4>2. CASE m \notin Order(r)[k]
        <5>1. PICK j \in 1..level[r] : m \in Order(r)[j]
          BY <1>2, <3>1, <4>2 DEF GroupsInv
        <5> QED
          BY <1>1, <5>1
      <4> QED
        BY <4>1, <4>2
    <3>2. ASSUME NEW j \in 1..k, NEW m \in Order(r)[j]
          PROVE  node'[r][m] # "idle" /\ (j < k => node'[r][m] \in Done)
      <4>1. CASE j = k
        BY <1>1, <1>2, <4>1
      <4>2. CASE j # k
        <5>1. j \in 1..(k - 1)
          BY <1>1, <4>2
        <5>2. m \in NodeIds /\ node[r][m] \in Done
          BY <1>4, <5>1
        <5>3. node'[r][m] = node[r][m]
          BY <1>2, <1>5, <5>2 DEF Done
        <5> QED
          BY <5>2, <5>3 DEF Done
      <4> QED
        BY <4>1, <4>2
    <3> QED
      BY <1>1, <1>3, <2>2, <3>1, <3>2
  <2> QED
    BY <2>1, <2>2
<1>8. PredecessorsFirst'
  <2> SUFFICES ASSUME NEW q \in Runs, NEW m \in NodeIds, Started(q, m)', NEW p \in Predecessors(q, m)
               PROVE  /\ node'[q][p] \in Done
                      /\ node'[q][m] # "skipped" =>
                           (p \in fed'[q][m] <=> node'[q][p] = "completed")
    BY DEF PredecessorsFirst, Predecessors, Nodes
  <2>1. p \in NodeIds
    BY PlanShape DEF Predecessors
  <2>2. CASE q = r /\ m \in Order(r)[k]
    <3>1. node[r][p] \in Done
      BY <1>4, <2>2
    <3>2. node'[r][p] = node[r][p]
      BY <1>2, <1>5, <2>1, <3>1 DEF Done
    <3>3. node'[r][m] # "skipped" =>
            fed'[r][m] = {x \in Predecessors(r, m) : node[r][x] = "completed"}
      BY <1>2, <2>2 DEF Started
    <3> QED
      BY <2>2, <3>1, <3>2, <3>3
  <2>3. CASE q # r \/ m \notin Order(r)[k]
    <3>1. node'[q][m] = node[q][m] /\ fed'[q][m] = fed[q][m]
      BY <1>2, <2>3
    <3>2. /\ node[q][p] \in Done
          /\ node[q][m] # "skipped" => (p \in fed[q][m] <=> node[q][p] = "completed")
      BY <3>1 DEF PredecessorsFirst, Started
    <3>3. node'[q][p] = node[q][p]
      BY <1>2, <1>5, <2>1, <3>2 DEF Done
    <3> QED
      BY <3>1, <3>2, <3>3
  <2> QED
    BY <2>2, <2>3
<1>9. level' \in [Runs -> Nat]
  BY <1>1, <1>2
<1> QED
  BY <1>6, <1>7, <1>8, <1>9

-----------------------------------------------------------------------------
(* The count of the slots *)

LEMMA UnderWayFinite == IsFiniteSet(UnderWay) /\ Cardinality(UnderWay) \in Nat
  BY RunsAssumption, FS_Subset, FS_CardinalityType DEF UnderWay

\* A run that starts takes a slot, and only if there is one.
LEMMA TakeSlot ==
  ASSUME TypeOK, SlotsAccounted, NEW r \in Runs, run[r] # "running", SlotFree,
         activeExecutions' = activeExecutions + 1,
         run' = [run EXCEPT ![r] = "running"]
  PROVE  SlotsAccounted' /\ activeExecutions' \in Nat
<1>1. UnderWay' = UnderWay \cup {r} /\ r \notin UnderWay
  BY DEF UnderWay, TypeOK
<1>2. Cardinality(UnderWay') = Cardinality(UnderWay) + 1
  BY <1>1, UnderWayFinite, FS_AddElement
<1> QED
  BY <1>2, UnderWayFinite, PolicyAssumption DEF SlotsAccounted, SlotFree, TypeOK

\* A run that ends gives its slot back.
LEMMA GiveSlot ==
  ASSUME TypeOK, SlotsAccounted, NEW r \in Runs, run[r] = "running",
         activeExecutions' = activeExecutions - 1,
         NEW s, s # "running", run' = [run EXCEPT ![r] = s]
  PROVE  SlotsAccounted' /\ activeExecutions' \in Nat
<1>1. UnderWay' = UnderWay \ {r} /\ r \in UnderWay
  BY DEF UnderWay, TypeOK
<1>2. Cardinality(UnderWay') = Cardinality(UnderWay) - 1
  BY <1>1, UnderWayFinite, FS_RemoveElement
<1>3. Cardinality(UnderWay') \in Nat
  BY <1>1, UnderWayFinite, FS_RemoveElement, FS_CardinalityType
<1> QED
  BY <1>2, <1>3, UnderWayFinite, PolicyAssumption DEF SlotsAccounted, TypeOK

\* A run that never started, or a node's step, does not touch the slots.
LEMMA SameSlots ==
  ASSUME SlotsAccounted, activeExecutions' = activeExecutions, UnderWay' = UnderWay
  PROVE  SlotsAccounted'
  BY DEF SlotsAccounted

-----------------------------------------------------------------------------
(* The invariant is inductive *)

LEMMA InitIInv == Init => IInv
<1> SUFFICES ASSUME Init PROVE IInv
  OBVIOUS
<1>1. TypeOK
  BY DEF Init, TypeOK
<1>2. SlotsAccounted
  <2>1. UnderWay = {}
    BY DEF Init, UnderWay
  <2> QED
    BY <2>1, FS_EmptySet, PolicyAssumption DEF SlotsAccounted, Init
<1>3. AttemptsBounded /\ RetriesInv
  BY PolicyAssumption DEF Init, AttemptsBounded, RetriesInv
<1>4. GroupsInv
  BY PlanShape DEF Init, GroupsInv
<1>5. PredecessorsFirst
  BY DEF Init, PredecessorsFirst, Started
<1> QED
  BY <1>1, <1>2, <1>3, <1>4, <1>5 DEF IInv

\* Only run and the slots change: what the nodes have reached stays true.
LEMMA RunOnlyKeeps ==
  ASSUME IInv, NEW r \in Runs, NEW s \in Ended, run' = [run EXCEPT ![r] = s],
         UNCHANGED <<level, node, retryCount, fed, stray>>,
         s = "completed" =>
           /\ level[r] = Len(Order(r))
           /\ level[r] > 0 => \A n \in Order(r)[level[r]] : node[r][n] \in Done
  PROVE  /\ run' \in [Runs -> Ended \cup {"idle", "running"}]
         /\ AttemptsBounded' /\ RetriesInv' /\ GroupsInv' /\ PredecessorsFirst'
<1> USE DEF IInv
<1>1. run' \in [Runs -> Ended \cup {"idle", "running"}]
  BY DEF TypeOK
<1>2. run'[r] = s /\ \A q \in Runs : q # r => run'[q] = run[q]
  BY DEF TypeOK
<1>3. AttemptsBounded' /\ RetriesInv' /\ PredecessorsFirst'
  BY DEF AttemptsBounded, RetriesInv, PredecessorsFirst, Started
<1>4. GroupsInv'
  <2> SUFFICES ASSUME NEW q \in Runs
               PROVE  /\ level[q] <= Len(Order(q))
                      /\ level[q] > 0 => ~Plan[q].cyclic
                      /\ run'[q] = "running" => level[q] > 0
                      /\ run'[q] = "idle" => level[q] = 0
                      /\ run'[q] = "completed" => level[q] = Len(Order(q))
                      /\ \A m \in NodeIds : node[q][m] # "idle" => \E j \in 1..level[q] : m \in Order(q)[j]
                      /\ \A j \in 1..level[q] : \A m \in Order(q)[j] :
                           /\ node[q][m] # "idle"
                           /\ j < level[q] \/ run'[q] = "completed" => node[q][m] \in Done
    BY DEF GroupsInv, Order
  <2>1. CASE q # r
    BY <1>2, <2>1 DEF GroupsInv
  <2>2. CASE q = r
    <3>1. s # "running" /\ s # "idle"
      BY DEF Ended
    <3>2. level[r] \in Nat
      BY DEF TypeOK
    <3>3. ASSUME NEW j \in 1..level[r], NEW m \in Order(r)[j], s = "completed"
          PROVE  node[r][m] \in Done
      BY <3>2, <3>3 DEF GroupsInv
    <3> QED
      BY <1>2, <2>2, <3>1, <3>3 DEF GroupsInv
  <2> QED
    BY <2>1, <2>2
<1> QED
  BY <1>1, <1>3, <1>4

LEMMA NextIInv == IInv /\ [Next]_vars => IInv'
<1> SUFFICES ASSUME IInv, [Next]_vars PROVE IInv'
  OBVIOUS
<1> USE DEF IInv
<1>1. ASSUME NEW r \in Runs, Reject(r) \/ FindCycle(r) \/ FindNothing(r)
      PROVE  IInv'
  <2>1. PICK s \in Ended :
          /\ run' = [run EXCEPT ![r] = s]
          /\ s = "completed" => ~Plan[r].cyclic /\ Order(r) = <<>>
    BY <1>1 DEF Reject, FindCycle, FindNothing, Ended
  <2>2. run[r] = "idle" /\ UNCHANGED <<activeExecutions, level, node, retryCount, fed, stray>>
    BY <1>1 DEF Reject, FindCycle, FindNothing
  <2>3. level[r] = 0 /\ (Order(r) = <<>> => Len(Order(r)) = 0)
    BY <2>2 DEF GroupsInv
  <2>4. /\ run' \in [Runs -> Ended \cup {"idle", "running"}]
        /\ AttemptsBounded' /\ RetriesInv' /\ GroupsInv' /\ PredecessorsFirst'
    <3>1. s = "completed" =>
            /\ level[r] = Len(Order(r))
            /\ level[r] > 0 => \A n \in Order(r)[level[r]] : node[r][n] \in Done
      BY <2>1, <2>3
    <3>2. UNCHANGED <<level, node, retryCount, fed, stray>>
      BY <2>2
    <3>3. run' = [run EXCEPT ![r] = s]
      BY <2>1
    <3> QED
      BY <3>1, <3>2, <3>3, RunOnlyKeeps
  <2>5. UnderWay' = UnderWay
    BY <2>1, <2>2 DEF UnderWay, TypeOK, Ended
  <2> QED
    BY <2>2, <2>4, <2>5, SameSlots DEF TypeOK
<1>2. ASSUME NEW r \in Runs, Execute(r)
      PROVE  IInv'
  <2>1. /\ run[r] = "idle" /\ SlotFree /\ ~Plan[r].cyclic /\ Order(r) # <<>>
        /\ activeExecutions' = activeExecutions + 1
        /\ run' = [run EXCEPT ![r] = "running"]
        /\ StartGroup(r, 1) /\ UNCHANGED <<retryCount, stray>>
    BY <1>2 DEF Execute
  <2>2. level[r] = 0 /\ 1 \in Groups(r)
    BY <2>1, PlanShape DEF GroupsInv, Groups
  <2>3. /\ run' \in [Runs -> Ended \cup {"idle", "running"}]
        /\ run'[r] = "running" /\ \A q \in Runs : q # r => run'[q] = run[q]
    BY <2>1 DEF TypeOK
  <2>4. /\ AttemptsBounded' /\ RetriesInv' /\ GroupsInv' /\ PredecessorsFirst'
        /\ level' \in [Runs -> Nat]
    BY <2>1, <2>2, <2>3, StartGroupKeeps
  <2>5. SlotsAccounted' /\ activeExecutions' \in Nat
    BY <2>1, TakeSlot
  <2>6. node' \in [Runs -> [NodeIds -> NodeStates]] /\ fed' \in [Runs -> [NodeIds -> SUBSET NodeIds]]
    BY <2>1, <2>2, StartGroupEffect
  <2> QED
    BY <2>1, <2>3, <2>4, <2>5, <2>6 DEF TypeOK, NodeStates
<1>3. ASSUME NEW r \in Runs, Advance(r)
      PROVE  IInv'
  <2>1. /\ run[r] = "running" /\ level[r] < Len(Order(r))
        /\ \A n \in Order(r)[level[r]] : node[r][n] \in Done
        /\ StartGroup(r, level[r] + 1) /\ UNCHANGED <<activeExecutions, run, retryCount, stray>>
    BY <1>3 DEF Advance, GroupDone
  <2>2. level[r] \in Nat /\ level[r] > 0 /\ ~Plan[r].cyclic /\ level[r] + 1 \in Groups(r)
    BY <2>1, PlanShape DEF GroupsInv, Groups, TypeOK
  <2>3. run' \in [Runs -> Ended \cup {"idle", "running"}]
    BY <2>1 DEF TypeOK
  <2>4. PICK k \in Nat : k = level[r] + 1
    BY <2>2
  <2>5. /\ AttemptsBounded' /\ RetriesInv' /\ GroupsInv' /\ PredecessorsFirst'
        /\ level' \in [Runs -> Nat]
    <3>1. k \in Groups(r) /\ StartGroup(r, k)
      BY <2>1, <2>2, <2>4
    <3>2. k - 1 = level[r]
      BY <2>2, <2>4
    <3>3. \A n \in Order(r)[k - 1] : node[r][n] \in Done
      BY <2>1, <3>2
    <3> QED
      BY <2>1, <2>2, <2>3, <2>4, <3>1, <3>3, StartGroupKeeps
  <2>6. UnderWay' = UnderWay
    BY <2>1 DEF UnderWay
  <2>7. node' \in [Runs -> [NodeIds -> NodeStates]] /\ fed' \in [Runs -> [NodeIds -> SUBSET NodeIds]]
    BY <2>1, <2>2, StartGroupEffect
  <2> QED
    BY <2>1, <2>3, <2>5, <2>6, <2>7, SameSlots DEF TypeOK, NodeStates
<1>4. ASSUME NEW r \in Runs, Complete(r) \/ Fail(r)
      PROVE  IInv'
  <2>1. PICK s \in Ended :
          /\ run' = [run EXCEPT ![r] = s]
          /\ s = "completed" => GroupDone(r) /\ level[r] = Len(Order(r))
    BY <1>4 DEF Complete, Fail, Ended
  <2>2. /\ run[r] = "running" /\ activeExecutions' = activeExecutions - 1
        /\ UNCHANGED <<level, node, retryCount, fed, stray>>
    BY <1>4 DEF Complete, Fail
  <2>3. /\ run' \in [Runs -> Ended \cup {"idle", "running"}]
        /\ AttemptsBounded' /\ RetriesInv' /\ GroupsInv' /\ PredecessorsFirst'
    BY <2>1, <2>2, RunOnlyKeeps DEF GroupDone
  <2>4. SlotsAccounted' /\ activeExecutions' \in Nat
    BY <2>1, <2>2, GiveSlot DEF Ended
  <2> QED
    BY <2>2, <2>3, <2>4 DEF TypeOK
<1>5. ASSUME NEW r \in Runs, NEW n \in NodeIds, NodeStep(r, n)
      PROVE  IInv'
  <2>1. /\ UNCHANGED <<activeExecutions, run, level, fed>>
        /\ node' \in [Runs -> [NodeIds -> NodeStates]]
    BY <1>5, NodeStepEffect
  <2>2. /\ retryCount' \in [Runs -> [NodeIds -> Nat]]
        /\ stray' \in [Runs -> [NodeIds -> Nat]]
        /\ AttemptsBounded' /\ RetriesInv'
    BY <1>5, NodeStepAttempts
  <2>3. GroupsInv' /\ PredecessorsFirst'
    BY <1>5, NodeStepGroups
  <2>4. UnderWay' = UnderWay
    BY <2>1 DEF UnderWay
  <2> QED
    BY <2>1, <2>2, <2>3, <2>4, SameSlots DEF TypeOK, NodeStates
<1>6. CASE UNCHANGED vars
  BY <1>6 DEF vars, runVars, TypeOK, SlotsAccounted, UnderWay, AttemptsBounded, RetriesInv,
              GroupsInv, PredecessorsFirst, Started
<1> QED
  BY <1>1, <1>2, <1>3, <1>4, <1>5, <1>6 DEF Next, RunStep

\* The invariant holds throughout: the groups come one after the other.
THEOREM Invariance == Spec => []IInv
<1>1. Init => IInv
  BY InitIInv
<1>2. IInv /\ [Next]_vars => IInv'
  BY NextIInv
<1> QED
  BY <1>1, <1>2, PTL DEF Spec

-----------------------------------------------------------------------------
(* What follows from it *)

\* The state keeps the shape the code gives it.
THEOREM TypeCorrect == Spec => []TypeOK
<1>1. IInv => TypeOK
  BY DEF IInv
<1> QED
  BY <1>1, Invariance, PTL

\* activeExecutions counts the runs under way and stays within the limit.
THEOREM SlotsCorrect == Spec => []SlotsAccounted
<1>1. IInv => SlotsAccounted
  BY DEF IInv
<1> QED
  BY <1>1, Invariance, PTL

\* Nodes start after what they depend on, with its outputs.
THEOREM OrderCorrect == Spec => []PredecessorsFirst
<1>1. IInv => PredecessorsFirst
  BY DEF IInv
<1> QED
  BY <1>1, Invariance, PTL

\* The retry policy bounds the attempts and the handlers of every node.
THEOREM AttemptsCorrect == Spec => []AttemptsBounded
<1>1. IInv => AttemptsBounded
  BY DEF IInv
<1> QED
  BY <1>1, Invariance, PTL

\* A run reported as completed left nothing of its groups undone.
THEOREM CompletionCorrect == Spec => []CompletedMeansDone
<1>1. IInv => CompletedMeansDone
  <2> SUFFICES ASSUME IInv, NEW r \in Runs, run[r] = "completed",
                      NEW k \in Groups(r), NEW n \in Order(r)[k]
               PROVE  node[r][n] \in Done
    BY DEF CompletedMeansDone
  <2> QED
    BY DEF IInv, GroupsInv, Groups
<1> QED
  BY <1>1, Invariance, PTL

\* Nothing is started behind a failure.
THEOREM FailFastCorrect == Spec => FailFast
<1> DEFINE Behind == \A r \in Runs, n \in NodeIds : ~Started(r, n) /\ Started(r, n)' =>
             /\ run'[r] = "running"
             /\ \A j \in 1..(level'[r] - 1) : \A m \in Order(r)[j] : node[r][m] \in Done
<1>1. IInv /\ [Next]_vars => [Behind]_vars
  <2> SUFFICES ASSUME IInv, [Next]_vars, NEW r \in Runs, NEW n \in NodeIds,
                      ~Started(r, n), Started(r, n)'
               PROVE  /\ run'[r] = "running"
                      /\ \A j \in 1..(level'[r] - 1) : \A m \in Order(r)[j] : node[r][m] \in Done
    OBVIOUS
  <2> USE DEF IInv
  <2>1. ASSUME NEW q \in Runs, NEW m \in NodeIds, NodeStep(q, m)
        PROVE  FALSE
    BY <2>1, NodeStepEffect DEF Started
  <2>2. ASSUME NEW q \in Runs,
               Reject(q) \/ FindCycle(q) \/ FindNothing(q) \/ Complete(q) \/ Fail(q)
        PROVE  FALSE
    BY <2>2 DEF Reject, FindCycle, FindNothing, Complete, Fail, Started
  <2>3. ASSUME NEW q \in Runs, Execute(q)
        PROVE  /\ run'[r] = "running"
               /\ \A j \in 1..(level'[r] - 1) : \A m \in Order(r)[j] : node[r][m] \in Done
    <3>1. /\ run' = [run EXCEPT ![q] = "running"] /\ run[q] = "idle" /\ Order(q) # <<>>
          /\ StartGroup(q, 1)
      BY <2>3 DEF Execute
    <3>2. 1 \in Groups(q)
      BY <3>1, PlanShape DEF Groups
    <3>3. /\ level' = [level EXCEPT ![q] = 1]
          /\ r # q => node'[r][n] = node[r][n]
      BY <3>1, <3>2, StartGroupEffect
    <3>4. r = q
      BY <3>3 DEF Started
    <3> QED
      BY <3>1, <3>3, <3>4 DEF TypeOK
  <2>4. ASSUME NEW q \in Runs, Advance(q)
        PROVE  /\ run'[r] = "running"
               /\ \A j \in 1..(level'[r] - 1) : \A m \in Order(r)[j] : node[r][m] \in Done
    <3>1. /\ run[q] = "running" /\ run' = run /\ level[q] < Len(Order(q))
          /\ \A m \in Order(q)[level[q]] : node[q][m] \in Done
          /\ StartGroup(q, level[q] + 1)
      BY <2>4 DEF Advance, GroupDone
    <3>2. level[q] \in Nat /\ level[q] + 1 \in Groups(q) /\ level[q] + 1 \in Nat
      BY <3>1, PlanShape DEF Groups, TypeOK
    <3>3. /\ level' = [level EXCEPT ![q] = level[q] + 1]
          /\ r # q => node'[r][n] = node[r][n]
      BY <3>1, <3>2, StartGroupEffect
    <3>4. r = q
      BY <3>3 DEF Started
    <3>5. level'[r] - 1 = level[r]
      BY <3>2, <3>3, <3>4 DEF TypeOK
    <3>6. ASSUME NEW j \in 1..level[r], NEW m \in Order(r)[j]
          PROVE  node[r][m] \in Done
      <4>1. CASE j = level[r]
        BY <3>1, <3>4, <4>1
      <4>2. CASE j < level[r]
        BY <4>2 DEF GroupsInv
      <4> QED
        BY <3>2, <3>4, <4>1, <4>2
    <3> QED
      BY <3>1, <3>4, <3>5, <3>6
  <2>5. CASE UNCHANGED vars
    BY <2>5 DEF vars, runVars, Started
  <2> QED
    BY <2>1, <2>2, <2>3, <2>4, <2>5 DEF Next, RunStep
<1> QED
  BY <1>1, Invariance, PTL DEF Spec, FailFast

-----------------------------------------------------------------------------
(* The engine implements WorkflowPromise *)

Scheduled == [r \in Runs |-> UNION {Order(r)[k] : k \in Groups(r)}]
Needs     == [r \in Runs |-> [n \in NodeIds |-> Predecessors(r, n)]]

LEMMA InitRefines == Init => Promise!Init
  BY DEF Init, Promise!Init, PromiseBegun, PromiseDone, Done

LEMMA SameCount == Promise!Cardinality(Promise!UnderWay) = Cardinality(UnderWay)
<1>1. Promise!UnderWay = UnderWay
  BY DEF Promise!UnderWay, UnderWay
<1>2. Promise!Cardinality(UnderWay) = Cardinality(UnderWay)
  BY DEF Promise!Cardinality, Cardinality
<1> QED
  BY <1>1, <1>2

\* Every id that was started is one its run is to execute.
LEMMA BegunScheduled ==
  ASSUME IInv, NEW r \in Runs
  PROVE  /\ PromiseBegun[r] \subseteq Scheduled[r]
         /\ PromiseDone[r] \subseteq PromiseBegun[r]
<1>1. ASSUME NEW n \in NodeIds, node[r][n] # "idle"
      PROVE  n \in Scheduled[r]
  <2>1. PICK j \in 1..level[r] : n \in Order(r)[j]
    BY <1>1 DEF IInv, GroupsInv
  <2>2. j \in Groups(r)
    BY PlanShape DEF IInv, TypeOK, GroupsInv, Groups
  <2> QED
    BY <2>1, <2>2 DEF Scheduled
<1> QED
  BY <1>1 DEF PromiseBegun, PromiseDone, Done

\* Starting a group is a Begin of the promise.
LEMMA StartGroupRefines ==
  ASSUME IInv, NEW r \in Runs, NEW k \in Groups(r), k = level[r] + 1,
         ~Plan[r].cyclic,
         k > 1 => \A n \in Order(r)[k - 1] : node[r][n] \in Done,
         StartGroup(r, k)
  PROVE  Promise!Begin(r)
<1> DEFINE S == Order(r)[k]
           D == {n \in Order(r)[k] : node'[r][n] = "skipped"}
<1>1. k \in Nat
  BY DEF Groups
<1>2. /\ \A q \in Runs, n \in NodeIds : q # r \/ n \notin S => node'[q][n] = node[q][n]
      /\ \A n \in S : node'[r][n] \in {"missing", "skipped", "attempt"}
  BY <1>1, StartGroupEffect DEF IInv
<1>3. /\ \A n \in S : n \in NodeIds /\ node[r][n] = "idle"
      /\ \A n \in S : \A p \in Predecessors(r, n) : p \in NodeIds /\ node[r][p] \in Done
  BY NextGroupFresh DEF IInv
<1>4. S \in SUBSET (Scheduled[r] \ PromiseBegun[r]) /\ D \in SUBSET S
  BY <1>3 DEF Scheduled, PromiseBegun
<1>5. \A n \in S : Needs[r][n] \subseteq PromiseDone[r]
  BY <1>3 DEF Needs, PromiseDone
<1>6. PromiseBegun' = [PromiseBegun EXCEPT ![r] = @ \cup S]
  <2>1. \A q \in Runs : q # r => PromiseBegun'[q] = PromiseBegun[q]
    BY <1>2 DEF PromiseBegun
  <2>2. PromiseBegun'[r] = PromiseBegun[r] \cup S
    BY <1>2, <1>3 DEF PromiseBegun
  <2> QED
    BY <2>1, <2>2 DEF PromiseBegun
<1>7. PromiseDone' = [PromiseDone EXCEPT ![r] = @ \cup D]
  <2>1. \A q \in Runs : q # r => PromiseDone'[q] = PromiseDone[q]
    BY <1>2 DEF PromiseDone
  <2>2. PromiseDone'[r] = PromiseDone[r] \cup D
    BY <1>2, <1>3 DEF PromiseDone, Done
  <2> QED
    BY <2>1, <2>2 DEF PromiseDone
<1> QED
  BY <1>4, <1>5, <1>6, <1>7 DEF Promise!Begin, Scheduled, Needs

\* The steps of a node: it ends well, or the promise does not see them.
LEMMA NodeStepRefines ==
  ASSUME IInv, NEW r \in Runs, NEW n \in NodeIds, NodeStep(r, n)
  PROVE  Promise!EndNode(r) \/ UNCHANGED Promise!vars
<1>1. /\ run' = run
      /\ \A q \in Runs, m \in NodeIds : q # r \/ m # n => node'[q][m] = node[q][m]
      /\ \/ node'[r][n] = node[r][n]
         \/ /\ node[r][n] \in {"attempt", "backoff"}
            /\ node'[r][n] \in {"attempt", "backoff", "completed", "failed"}
  BY NodeStepEffect DEF IInv
<1>2. PromiseBegun' = PromiseBegun
  <2>1. \A q \in Runs, m \in NodeIds : node'[q][m] = "idle" <=> node[q][m] = "idle"
    BY <1>1
  <2> QED
    BY <2>1 DEF PromiseBegun
<1>3. CASE node'[r][n] = "completed" /\ node[r][n] \in {"attempt", "backoff"}
  <2>1. n \in PromiseBegun[r] \ PromiseDone[r]
    BY <1>3 DEF PromiseBegun, PromiseDone, Done
  <2>2. \A q \in Runs : q # r => PromiseDone'[q] = PromiseDone[q]
    BY <1>1 DEF PromiseDone
  <2>3. PromiseDone'[r] = PromiseDone[r] \cup {n}
    BY <1>1, <1>3 DEF PromiseDone, Done
  <2>4. PromiseDone' = [PromiseDone EXCEPT ![r] = @ \cup {n}]
    BY <2>2, <2>3 DEF PromiseDone
  <2> QED
    BY <1>1, <1>2, <2>1, <2>4 DEF Promise!EndNode
<1>4. CASE ~(node'[r][n] = "completed" /\ node[r][n] \in {"attempt", "backoff"})
  <2>1. \A q \in Runs, m \in NodeIds : node'[q][m] \in Done <=> node[q][m] \in Done
    BY <1>1, <1>4 DEF Done
  <2> QED
    BY <1>1, <1>2, <2>1 DEF Promise!vars, PromiseDone
<1> QED
  BY <1>3, <1>4

LEMMA NextRefines == IInv /\ [Next]_vars => [Promise!Next]_(Promise!vars)
<1> SUFFICES ASSUME IInv, [Next]_vars
             PROVE  Promise!Next \/ UNCHANGED Promise!vars
  OBVIOUS
<1>0. /\ SlotFree => Promise!Cardinality(Promise!UnderWay) < MaxConcurrentWorkflows
      /\ ~SlotFree => Promise!Cardinality(Promise!UnderWay) >= MaxConcurrentWorkflows
  BY SameCount, UnderWayFinite, PolicyAssumption DEF IInv, SlotsAccounted, SlotFree
<1>u. ASSUME UNCHANGED node
      PROVE  UNCHANGED <<PromiseBegun, PromiseDone>>
  BY <1>u DEF PromiseBegun, PromiseDone
<1>1. ASSUME NEW r \in Runs, Reject(r)
      PROVE  Promise!Next
  BY <1>0, <1>1, <1>u DEF Reject, Promise!Reject, Promise!Become, Promise!Next
<1>2. ASSUME NEW r \in Runs, FindCycle(r)
      PROVE  Promise!Next
  BY <1>0, <1>2, <1>u DEF FindCycle, Promise!Fail, Promise!Become, Promise!Next
<1>3. ASSUME NEW r \in Runs, FindNothing(r)
      PROVE  Promise!Next
  <2>1. Scheduled[r] = {}
    BY <1>3 DEF FindNothing, Scheduled, Groups
  <2>2. PromiseDone[r] = {}
    BY <2>1, BegunScheduled
  <2>3. Promise!Complete(r)
    BY <1>0, <1>3, <1>u, <2>1, <2>2 DEF FindNothing, Promise!Complete, Promise!Become, Scheduled
  <2> QED
    BY <2>3 DEF Promise!Next
<1>4. ASSUME NEW r \in Runs, Execute(r)
      PROVE  Promise!Next
  <2>1. /\ run[r] = "idle" /\ SlotFree /\ ~Plan[r].cyclic /\ Order(r) # <<>>
        /\ run' = [run EXCEPT ![r] = "running"] /\ StartGroup(r, 1)
    BY <1>4 DEF Execute
  <2>2. level[r] = 0 /\ 1 \in Groups(r)
    BY <2>1, PlanShape DEF IInv, GroupsInv, Groups
  <2>3. Promise!Begin(r)
    BY <2>1, <2>2, StartGroupRefines
  <2> QED
    BY <1>0, <2>1, <2>3 DEF Promise!Accept, Promise!Become, Promise!Next
<1>5. ASSUME NEW r \in Runs, Advance(r)
      PROVE  Promise!Next
  <2>1. /\ run[r] = "running" /\ level[r] < Len(Order(r)) /\ run' = run
        /\ \A n \in Order(r)[level[r]] : node[r][n] \in Done
        /\ StartGroup(r, level[r] + 1)
    BY <1>5 DEF Advance, GroupDone
  <2>2. level[r] \in Nat /\ ~Plan[r].cyclic /\ level[r] + 1 \in Groups(r)
    BY <2>1, PlanShape DEF IInv, GroupsInv, Groups, TypeOK
  <2>3. PICK k \in Nat : k = level[r] + 1
    BY <2>2
  <2>4. k \in Groups(r) /\ StartGroup(r, k) /\ k - 1 = level[r]
    BY <2>1, <2>2, <2>3
  <2>5. \A n \in Order(r)[k - 1] : node[r][n] \in Done
    BY <2>1, <2>4
  <2>6. Promise!Begin(r)
    BY <2>2, <2>3, <2>4, <2>5, StartGroupRefines
  <2> QED
    BY <2>1, <2>6 DEF Promise!Proceed, Promise!Next
<1>6. ASSUME NEW r \in Runs, Complete(r)
      PROVE  Promise!Next
  <2>1. /\ run[r] = "running" /\ level[r] = Len(Order(r))
        /\ \A n \in Order(r)[level[r]] : node[r][n] \in Done
        /\ run' = [run EXCEPT ![r] = "completed"] /\ node' = node
    BY <1>6 DEF Complete, GroupDone
  <2>2. ASSUME NEW n \in Scheduled[r]
        PROVE  n \in PromiseDone[r]
    <3>1. PICK k \in Groups(r) : n \in Order(r)[k]
      BY <2>2 DEF Scheduled
    <3>2. n \in NodeIds /\ level[r] \in Nat
      BY <3>1, PlanShape DEF Groups, IInv, TypeOK
    <3>3. node[r][n] \in Done
      <4>1. CASE k = level[r]
        BY <2>1, <3>1, <4>1
      <4>2. CASE k # level[r]
        BY <2>1, <3>1, <3>2, <4>2 DEF IInv, GroupsInv, Groups
      <4> QED
        BY <4>1, <4>2
    <3> QED
      BY <3>2, <3>3 DEF PromiseDone
  <2>3. PromiseDone[r] = Scheduled[r]
    BY <2>2, BegunScheduled
  <2> QED
    BY <1>u, <2>1, <2>3 DEF Promise!Complete, Promise!Become, Promise!Next, Scheduled
<1>7. ASSUME NEW r \in Runs, Fail(r)
      PROVE  Promise!Next
  <2>1. /\ run[r] = "running"
        /\ \E n \in Order(r)[level[r]] : node[r][n] \in {"failed", "missing"}
        /\ run' = [run EXCEPT ![r] = "failed"] /\ node' = node
    BY <1>7 DEF Fail
  <2>2. level[r] \in 1..Len(Order(r))
    BY <2>1, PlanShape DEF IInv, GroupsInv, TypeOK
  <2>3. PICK n \in Order(r)[level[r]] : node[r][n] \in {"failed", "missing"}
    BY <2>1
  <2>4. n \in PromiseBegun[r] /\ n \notin PromiseDone[r]
    BY <2>2, <2>3, PlanShape DEF PromiseBegun, PromiseDone, Done
  <2>5. PromiseBegun[r] # PromiseDone[r]
    BY <2>4
  <2> QED
    BY <1>u, <2>1, <2>5 DEF Promise!Fail, Promise!Become, Promise!Next
<1>8. ASSUME NEW r \in Runs, NEW n \in NodeIds, NodeStep(r, n)
      PROVE  Promise!Next \/ UNCHANGED Promise!vars
  BY <1>8, NodeStepRefines DEF Promise!Next
<1>9. CASE UNCHANGED vars
  BY <1>9, <1>u DEF vars, runVars, Promise!vars
<1> QED
  BY <1>1, <1>2, <1>3, <1>4, <1>5, <1>6, <1>7, <1>8, <1>9 DEF Next, RunStep

\* Whatever the engine does is what WorkflowPromise allows.
THEOREM Refinement == Spec => ImplementsPromise
<1>1. Init => Promise!Init
  BY InitRefines
<1>2. IInv /\ [Next]_vars => [Promise!Next]_(Promise!vars)
  BY NextRefines
<1> QED
  BY <1>1, <1>2, Invariance, PTL DEF Spec, ImplementsPromise, Promise!Spec

\* Slots, attempts and handlers are bounded by the options, for any workflows.
THEOREM BoundsHold == Spec => []BoundsKept
  BY TypeCorrect, SlotsCorrect, AttemptsCorrect, PTL DEF BoundsKept

\* A run completes with everything done, and a failed one starts nothing more.
THEOREM EndsHold == Spec => RunsEndRight
  BY CompletionCorrect, FailFastCorrect, PTL DEF RunsEndRight
=============================================================================
