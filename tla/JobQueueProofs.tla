--------------------------- MODULE JobQueueProofs ---------------------------
(***************************************************************************)
(* The safety properties of JobQueue.tla, proved for every number of jobs, *)
(* keys, callers and slots.                                                *)
(***************************************************************************)
EXTENDS JobQueue, FiniteSetTheorems, TLAPS

\* What is known of single jobs: an accepted job has a limit, and a job that is
\* waiting rather than delayed is due by now.
JobFacts ==
  /\ \A j \in Jobs : job[j].status # "new" => job[j].limit \in AttemptLimits
  /\ \A j \in Jobs : job[j].status = "waiting" => job[j].dueIn <= lag

\* While tick() is on the stack the timer is unarmed or due at once.
TickTimer == ticking => timer \in {NoTimer, 0}

\* What entered the queue since the tick read its `now`, and what the listeners of
\* 'drained' added, has armed it.
TickArmed ==
  ticking /\ worker /\ ~closed =>
    \A j \in pending :
      announcing \/ (job[j].status = "waiting" /\ job[j].dueIn > 0) => timer = 0

\* Somebody has found the queue idle and is about to go on, or has.
Quiet == announcing \/ Telling # {} \/ closed \/ \E c \in Closers : call[c] = "resuming"

\* Then no worker is running, and nothing can start one: a tick on the stack has only
\* the listeners of 'drained' to tell.  What those add has not been tried.
DrainInv ==
  /\ announcing => ticking
  /\ (\E c \in Callers : call[c] = "announced") => announcing
  /\ Quiet => active = {} /\ (ticking => announcing)
  /\ announcing \/ Telling # {} => \A j \in pending : job[j].attempts = 0

\* The inductive invariant.
IInv ==
  /\ TypeOK
  /\ OnePlace
  /\ ConcurrencyBound
  /\ DedupeExclusive
  /\ AttemptsWithinLimit
  /\ JobFacts
  /\ TickTimer
  /\ TickArmed
  /\ WakesOnTime
  /\ DrainInv

USE JobsAssumption, KeysAssumption, PrioritiesAssumption, DelaysAssumption,
    LimitsAssumption, ConcurrencyAssumption, TtlAssumption, CallersAssumption

LEMMA InitTypeOK == Init => TypeOK
<1> SUFFICES ASSUME Init PROVE TypeOK
  OBVIOUS
<1>1. NotCreated \in Job
  BY DEF NotCreated, Job, Status
<1>2. job \in [Jobs -> Job]
  BY <1>1 DEF Init
<1>3. lag = 0 /\ 0 \in 0..TickTime
  BY DEF Init
<1> QED
  BY <1>2, <1>3 DEF Init, TypeOK, NoTimer

\* Every step keeps the shape of the variables.
LEMMA NextTypeOK == TypeOK /\ OnePlace /\ [Next]_vars => TypeOK'
<1> SUFFICES ASSUME TypeOK, OnePlace, [Next]_vars PROVE TypeOK'
  OBVIOUS
<1> USE DEF TypeOK, NoTimer, jobVars, deadVars, lifeVars, stackVars, Schedule
<1>a. ASSUME NEW j \in Jobs, NEW k \in Keys \cup {NoKey}, NEW p \in Int,
             NEW d \in Nat, NEW l \in Nat, Insert(j, k, p, d, l)
      PROVE  /\ job' \in [Jobs -> Job] /\ pending' \subseteq Jobs
             /\ active' \subseteq Jobs /\ lastCreated' \in Nat
             /\ dedupeIndex' \in [Keys -> Jobs \cup {NoJob}]
             /\ completedCount' \in Nat /\ timer' \in Nat \cup {NoTimer}
  BY <1>a DEF Insert, Job, Status
<1>1. CASE Process
  BY <1>1 DEF Process
<1>2. ASSUME NEW j \in Jobs, NEW k \in Keys \cup {NoKey}, NEW p \in Priorities,
             NEW d \in Delays, NEW l \in AttemptLimits, Enqueue(j, k, p, d, l)
      PROVE  TypeOK'
  <2>1. p \in Int /\ d \in Nat /\ l \in Nat
    OBVIOUS
  <2>2. Insert(j, k, p, d, l)
    BY <1>2 DEF Enqueue
  <2> QED
    BY <1>2, <1>a, <2>1, <2>2 DEF Enqueue
<1>3. ASSUME NEW j \in Jobs, Cancel(j) PROVE TypeOK'
  BY <1>3 DEF Cancel, ReleaseDedupe, Job, Status
<1>4. ASSUME NEW i \in Jobs, RetryDead(i) PROVE TypeOK'
  <2>1. job[i].priority \in Int /\ job[i].limit \in Nat
    BY DEF Job
  <2>2. CASE \E j \in Jobs : Insert(j, NoKey, job[i].priority, 0, job[i].limit)
    BY <1>4, <1>a, <2>1, <2>2 DEF RetryDead
  <2>3. CASE UNCHANGED <<jobVars, timer>>
    BY <1>4, <2>3 DEF RetryDead
  <2> QED
    BY <1>4, <2>2, <2>3 DEF RetryDead
<1>5. ASSUME NEW c \in Drainers, Drain(c) PROVE TypeOK'
  BY <1>5 DEF Drain, BeginDrain, Callers, IsIdle
<1>6. ASSUME NEW c \in Closers, Close(c) PROVE TypeOK'
  <2>1. call' \in [Callers -> {"none", "waiting", "announced", "telling", "resuming", "returned"}]
    BY <1>6 DEF Close, BeginDrain, Callers
  <2>2. draining' \in BOOLEAN
    BY <1>6, Zenon DEF Close, BeginDrain, IsIdle
  <2>3. timer' \in Nat \cup {NoTimer}
    BY <1>6 DEF Close, BeginDrain
  <2> QED
    BY <1>6, <2>1, <2>2, <2>3 DEF Close
<1>7. CASE BeginTick
  BY <1>7 DEF BeginTick, Job, Status
<1>8. ASSUME NEW j \in Jobs, Dispatch(j) PROVE TypeOK'
  BY <1>8 DEF Dispatch, Job, Status
<1>9. CASE Await
  BY <1>9 DEF Await
<1>10. CASE EndTick
  <2>1. timer' \in Nat \cup {NoTimer}
    BY <1>10 DEF EndTick, ArmNextDelayTimer, Delayed, Job
  <2>2. call' \in [Callers -> {"none", "waiting", "announced", "telling", "resuming", "returned"}]
    BY <1>10 DEF EndTick, Resolved
  <2>3. job' \in [Jobs -> Job]
    <3>1. ASSUME NEW j \in Jobs PROVE [job[j] EXCEPT !.dueIn = Left(@, lag)] \in Job
      <4>1. job[j] \in Job /\ lag \in Nat
        OBVIOUS
      <4>2. Left(job[j].dueIn, lag) \in Nat
        BY <4>1 DEF Job, Left
      <4> QED
        BY <4>1, <4>2 DEF Job
    <3> QED
      BY <1>10, <3>1 DEF EndTick
  <2>4. lag' = 0 /\ 0 \in 0..TickTime
    BY <1>10 DEF EndTick
  <2> QED
    BY <1>10, <2>1, <2>2, <2>3, <2>4 DEF EndTick
<1>11. ASSUME NEW j \in Jobs, Settle(j) PROVE TypeOK'
  <2>1. CASE Succeed(j)
    BY <2>1 DEF Succeed, ReleaseDedupe, Job, Status
  <2>2. CASE Bury(j)
    BY <2>2 DEF Bury, Fails, ReleaseDedupe, Job, Status
  <2>3. ASSUME NEW d \in RetryDelays, Retry(j, d) PROVE TypeOK'
    <3>1. lag + d \in Nat
      OBVIOUS
    <3>2. job' \in [Jobs -> Job]
      <4>1. job[j] \in Job /\ "delayed" \in Status
        BY DEF Status
      <4>2. [job[j] EXCEPT !.status = "delayed", !.dueIn = lag + d] \in Job
        BY <3>1, <4>1 DEF Job
      <4>3. job' = [job EXCEPT ![j] = [job[j] EXCEPT !.status = "delayed",
                                             !.dueIn = lag + d]]
        BY <2>3 DEF Retry
      <4> QED
        BY <4>2, <4>3
    <3> QED
      BY <2>3, <3>2 DEF Retry, Fails
  <2> QED
    BY <1>11, <2>1, <2>2, <2>3 DEF Settle
<1>12. CASE Release
  BY <1>12 DEF Release
<1>13. ASSUME NEW c \in Closers, FinishClose(c) PROVE TypeOK'
  BY <1>13 DEF FinishClose, Callers
<1>14. ASSUME NEW j \in Jobs, Evict(j) PROVE TypeOK'
  BY <1>14 DEF Evict
<1>15. CASE Elapse
  <2>1. job' \in [Jobs -> Job] /\ lag' \in 0..TickTime /\ (~ticking' => lag' = 0)
    <3>1. ASSUME NEW j \in Jobs
          PROVE  [job[j] EXCEPT !.dueIn = Countdown(@)] \in Job
      <4>1. job[j] \in Job /\ Countdown(job[j].dueIn) \in Nat
        BY DEF Job, Countdown
      <4> QED
        BY <4>1 DEF Job
    <3> QED
      BY <1>15, <3>1 DEF Elapse
  <2>2. /\ evictIn' \in [Jobs -> Nat \cup {NoTimer}]
        /\ timer' \in Nat \cup {NoTimer}
    BY <1>15 DEF Elapse, Countdown
  <2> QED
    BY <1>15, <2>1, <2>2 DEF Elapse
<1>16. CASE UNCHANGED vars
  BY <1>16 DEF vars
<1>17. CASE AnnounceDrained
  <2>1. call' \in [Callers -> {"none", "waiting", "announced", "telling", "resuming", "returned"}]
    BY <1>17 DEF AnnounceDrained
  <2> QED
    BY <1>17, <2>1 DEF AnnounceDrained
<1>18. CASE PushBack
  BY <1>18 DEF PushBack, OnePlace
<1>19. ASSUME NEW c \in Callers, EndDrain(c) PROVE TypeOK'
  BY <1>19 DEF EndDrain, Resolved
<1> QED
  BY <1>1, <1>2, <1>3, <1>4, <1>5, <1>6, <1>7, <1>8, <1>9, <1>10, <1>11, <1>12,
     <1>13, <1>14, <1>15, <1>16, <1>17, <1>18, <1>19 DEF Next, UserStep, QueueStep

-----------------------------------------------------------------------------
(* Where the jobs are *)

\* A new job is nowhere before Insert and waiting or delayed after it.
LEMMA InsertStatus ==
  ASSUME TypeOK, NEW j \in Jobs, NEW k, NEW p, NEW d, NEW l, Insert(j, k, p, d, l)
  PROVE  /\ job[j].status = "new" /\ job'[j].status \in {"waiting", "delayed"}
         /\ \A i \in Jobs \ {j} : job'[i] = job[i]
         /\ pending' = pending \cup {j} /\ active' = active
  BY DEF Insert, TypeOK

LEMMA InitOnePlace == Init => OnePlace
  BY DEF Init, OnePlace, LiveJob, NotCreated

\* Every step moves a job from one container to another together with its status.
LEMMA NextOnePlace == TypeOK /\ OnePlace /\ DrainInv /\ [Next]_vars => OnePlace'
<1> SUFFICES ASSUME TypeOK, OnePlace, DrainInv, [Next]_vars PROVE OnePlace'
  OBVIOUS
<1> USE DEF OnePlace, LiveJob, jobVars, deadVars, lifeVars, stackVars
<1>a. ASSUME NEW j \in Jobs, NEW k, NEW p, NEW d, NEW l, Insert(j, k, p, d, l),
             deadLetter' \subseteq deadLetter, UNCHANGED stackVars
      PROVE  OnePlace'
  <2>1. /\ job[j].status = "new" /\ job'[j].status \in {"waiting", "delayed"}
        /\ \A i \in Jobs \ {j} : job'[i] = job[i]
        /\ pending' = pending \cup {j} /\ active' = active
    BY <1>a, InsertStatus
  <2>2. j \notin deadLetter /\ deadLetter \subseteq Jobs /\ ~(failing /\ j = settling)
    BY <2>1 DEF TypeOK
  <2>3. \A i \in Jobs : i \in pending' <=> /\ job'[i].status \in {"waiting", "delayed"}
                                         /\ ~(failing /\ i = settling)
    BY <2>1, <2>2
  <2>4. \A i \in Jobs : job'[i].status = "active" <=> i \in active /\ i # settling
    BY <2>1
  <2>5. /\ \A i \in deadLetter' : job'[i].status = "dead"
        /\ failing' => settling' # NoJob /\ job'[settling'].status = "delayed"
        /\ \A i \in Jobs : LiveJob(i)' => i \in pending' \cup active'
    BY <1>a, <2>1, <2>2 DEF TypeOK
  <2> QED
    BY <1>a, <2>1, <2>3, <2>4, <2>5
<1>1. CASE Process
  BY <1>1 DEF Process
<1>2. ASSUME NEW j \in Jobs, NEW k \in Keys \cup {NoKey}, NEW p \in Priorities,
             NEW d \in Delays, NEW l \in AttemptLimits, Enqueue(j, k, p, d, l)
      PROVE  OnePlace'
  BY <1>2, <1>a DEF Enqueue
<1>3. ASSUME NEW j \in Jobs, Cancel(j) PROVE OnePlace'
  BY <1>3 DEF Cancel, TypeOK
<1>4. ASSUME NEW i \in Jobs, RetryDead(i) PROVE OnePlace'
  <2>1. CASE UNCHANGED <<jobVars, timer>>
    BY <1>4, <2>1 DEF RetryDead
  <2>2. CASE \E j \in Jobs : Insert(j, NoKey, job[i].priority, 0, job[i].limit)
    BY <1>4, <2>2, <1>a DEF RetryDead
  <2> QED
    BY <1>4, <2>1, <2>2 DEF RetryDead
<1>5. ASSUME NEW c \in Drainers, Drain(c) PROVE OnePlace'
  BY <1>5 DEF Drain
<1>6. ASSUME NEW c \in Closers, Close(c) PROVE OnePlace'
  BY <1>6 DEF Close
<1>7. CASE BeginTick
  <2>1. \A j \in Jobs : \/ job'[j] = job[j]
                        \/ /\ job[j].status = "delayed"
                           /\ job'[j].status = "waiting"
    BY <1>7 DEF BeginTick, TypeOK, Job
  <2> QED
    BY <1>7, <2>1 DEF BeginTick, TypeOK, LoopIdle, Unwound
<1>8. ASSUME NEW j \in Jobs, Dispatch(j) PROVE OnePlace'
  <2>1. /\ job'[j].status = "active" /\ job[j].status = "waiting"
        /\ \A i \in Jobs \ {j} : job'[i].status = job[i].status
    BY <1>8 DEF Dispatch, TypeOK, Job, Ready
  <2> QED
    BY <1>8, <2>1 DEF Dispatch, TypeOK, Callback, Ready
<1>9. CASE Await
  BY <1>9 DEF Await
<1>10. CASE EndTick
  <2>1. calling = NoJob /\ settling = NoJob
    BY <1>10 DEF EndTick, Dispatched, Callback, DrainInv, Quiet
  <2>2. \A j \in Jobs : job'[j].status = job[j].status
    BY <1>10 DEF EndTick, TypeOK, Job
  <2> QED
    BY <1>10, <2>1, <2>2 DEF EndTick, TypeOK
<1>11. ASSUME NEW j \in Jobs, Settle(j) PROVE OnePlace'
  <2>1. CASE Succeed(j)
    BY <2>1 DEF Succeed, TypeOK, Unwound
  <2>2. CASE Bury(j)
    <3>1. /\ job'[j].status = "dead" /\ job[j].status = "active"
          /\ \A i \in Jobs \ {j} : job'[i].status = job[i].status
          /\ settling = NoJob /\ j \in active
      BY <2>2 DEF Bury, Fails, Unwound, TypeOK, Job
    <3> QED
      BY <2>2, <3>1 DEF Bury, Fails, TypeOK
  <2>3. ASSUME NEW d \in RetryDelays, Retry(j, d) PROVE OnePlace'
    <3>1. /\ job'[j].status = "delayed" /\ job[j].status = "active"
          /\ \A i \in Jobs \ {j} : job'[i].status = job[i].status
          /\ settling = NoJob /\ j \in active
      BY <2>3 DEF Retry, Fails, Unwound, TypeOK, Job
    <3> QED
      BY <2>3, <3>1 DEF Retry, Fails, TypeOK
  <2> QED
    BY <1>11, <2>1, <2>2, <2>3 DEF Settle
<1>12. CASE Release
  BY <1>12 DEF Release, TypeOK
<1>13. ASSUME NEW c \in Closers, FinishClose(c) PROVE OnePlace'
  BY <1>13 DEF FinishClose
<1>14. ASSUME NEW j \in Jobs, Evict(j) PROVE OnePlace'
  BY <1>14 DEF Evict
<1>15. CASE Elapse
  <2>1. \A j \in Jobs : job'[j].status = job[j].status
    BY <1>15 DEF Elapse, TypeOK, Job
  <2> QED
    BY <1>15, <2>1 DEF Elapse, TypeOK
<1>16. CASE UNCHANGED vars
  BY <1>16 DEF vars
<1>17. CASE AnnounceDrained
  BY <1>17 DEF AnnounceDrained
<1>18. CASE PushBack
  BY <1>18 DEF PushBack, TypeOK
<1>19. ASSUME NEW c \in Callers, EndDrain(c) PROVE OnePlace'
  BY <1>19 DEF EndDrain
<1> QED
  BY <1>1, <1>2, <1>3, <1>4, <1>5, <1>6, <1>7, <1>8, <1>9, <1>10, <1>11, <1>12,
     <1>13, <1>14, <1>15, <1>16, <1>17, <1>18, <1>19 DEF Next, UserStep, QueueStep

-----------------------------------------------------------------------------
(* How many jobs run, and how often *)

LEMMA InitConcurrencyBound == Init => ConcurrencyBound
  BY FS_EmptySet DEF Init, ConcurrencyBound

\* Only Dispatch adds to `active`, and only into a free slot.
LEMMA NextConcurrencyBound ==
  TypeOK /\ ConcurrencyBound /\ [Next]_vars => ConcurrencyBound'
<1> SUFFICES ASSUME TypeOK, ConcurrencyBound, [Next]_vars PROVE ConcurrencyBound'
  OBVIOUS
<1>1. IsFiniteSet(active) /\ Cardinality(active) \in Nat
  BY FS_Subset, FS_CardinalityType DEF TypeOK
<1>2. CASE \E j \in Jobs : Dispatch(j)
  <2>1. PICK j \in Jobs : Dispatch(j)
    BY <1>2
  <2>2. active' = active \cup {j} /\ Cardinality(active) < Concurrency
    BY <2>1 DEF Dispatch, SlotFree
  <2>3. Cardinality(active') \in {Cardinality(active), Cardinality(active) + 1}
    BY <1>1, <2>2, FS_AddElement
  <2> QED
    BY <1>1, <2>2, <2>3 DEF ConcurrencyBound
<1>3. CASE active' \subseteq active
  <2>1. Cardinality(active') \in Nat /\ Cardinality(active') <= Cardinality(active)
    BY <1>1, <1>3, FS_Subset, FS_CardinalityType
  <2> QED
    BY <1>1, <2>1 DEF ConcurrencyBound
<1>4. (\E j \in Jobs : Dispatch(j)) \/ active' \subseteq active
  <2> USE DEF jobVars
  <2>1. UserStep => active' = active
    BY DEF UserStep, Process, Enqueue, Insert, Cancel, RetryDead, Drain, Close
  <2>2. ASSUME NEW j \in Jobs, Settle(j) PROVE active' = active
    BY <2>2 DEF Settle, Succeed, Bury, Retry, Fails
  <2>3. BeginTick \/ Await \/ AnnounceDrained \/ EndTick \/ PushBack \/ Release \/ Elapse
          => active' \subseteq active
    BY DEF BeginTick, Await, AnnounceDrained, EndTick, PushBack, Release, Elapse
  <2>4. ASSUME NEW c \in Closers, FinishClose(c) PROVE active' = active
    BY <2>4 DEF FinishClose
  <2>0. ASSUME NEW c \in Callers, EndDrain(c) PROVE active' = active
    BY <2>0 DEF EndDrain
  <2>5. ASSUME NEW j \in Jobs, Evict(j) PROVE active' = active
    BY <2>5 DEF Evict
  <2> QED
    BY <2>0, <2>1, <2>2, <2>3, <2>4, <2>5 DEF Next, QueueStep, vars
<1> QED
  BY <1>2, <1>3, <1>4

\* The attempts of a job and its limit, with what is known of single jobs.
AttemptInv == AttemptsWithinLimit /\ JobFacts

LEMMA InitAttemptInv == Init => AttemptInv
  BY DEF Init, AttemptInv, AttemptsWithinLimit, JobFacts, NotCreated

\* A new job starts with no attempt and a positive limit.
LEMMA InsertAttemptInv ==
  ASSUME TypeOK, AttemptInv, NEW j \in Jobs, NEW k, NEW p, NEW d \in Nat,
         NEW l \in AttemptLimits, Insert(j, k, p, d, l), UNCHANGED lag
  PROVE  AttemptInv'
<1>1. /\ job'[j].attempts = 0 /\ job'[j].limit = l /\ job'[j].dueIn = lag + d
      /\ job'[j].status = IF d > 0 THEN "delayed" ELSE "waiting"
      /\ \A i \in Jobs \ {j} : job'[i] = job[i]
      /\ pending' = pending \cup {j}
  BY DEF Insert, TypeOK
<1> QED
  BY <1>1 DEF AttemptInv, AttemptsWithinLimit, JobFacts, TypeOK

LEMMA NextAttemptInv == TypeOK /\ OnePlace /\ AttemptInv /\ [Next]_vars => AttemptInv'
<1> SUFFICES ASSUME TypeOK, OnePlace, AttemptInv, [Next]_vars PROVE AttemptInv'
  OBVIOUS
<1> USE DEF AttemptInv, AttemptsWithinLimit, JobFacts, jobVars, stackVars
<1>a. CASE UNCHANGED <<job, lag>>
  BY <1>a
<1>1. CASE Process
  BY <1>1, <1>a DEF Process
<1>2. ASSUME NEW j \in Jobs, NEW k \in Keys \cup {NoKey}, NEW p \in Priorities,
             NEW d \in Delays, NEW l \in AttemptLimits, Enqueue(j, k, p, d, l)
      PROVE  AttemptInv'
  <2>1. d \in Nat /\ Insert(j, k, p, d, l) /\ UNCHANGED lag
    BY <1>2 DEF Enqueue
  <2> QED
    BY <2>1, InsertAttemptInv
<1>3. ASSUME NEW j \in Jobs, Cancel(j) PROVE AttemptInv'
  <2>1. /\ \A i \in Jobs : /\ job'[i].attempts = job[i].attempts
                           /\ job'[i].limit = job[i].limit
                           /\ job'[i].dueIn = job[i].dueIn
        /\ \A i \in Jobs \ {j} : job'[i].status = job[i].status
        /\ job'[j].status = "cancelled" /\ UNCHANGED lag
        /\ job[j].status # "new"
    BY <1>3 DEF Cancel, TypeOK, Job, OnePlace
  <2> QED
    BY <2>1
<1>4. ASSUME NEW i \in Jobs, RetryDead(i) PROVE AttemptInv'
  <2>1. CASE UNCHANGED <<jobVars, timer>>
    BY <1>4, <1>a, <2>1 DEF RetryDead
  <2>2. ASSUME NEW j \in Jobs, Insert(j, NoKey, job[i].priority, 0, job[i].limit)
        PROVE  AttemptInv'
    <3>1. job[i].limit \in AttemptLimits
      BY <1>4 DEF RetryDead, OnePlace
    <3> QED
      BY <1>4, <2>2, <3>1, InsertAttemptInv DEF RetryDead
  <2> QED
    BY <1>4, <2>1, <2>2 DEF RetryDead
<1>5. ASSUME NEW c \in Drainers, Drain(c) PROVE AttemptInv'
  BY <1>5, <1>a DEF Drain
<1>6. ASSUME NEW c \in Closers, Close(c) PROVE AttemptInv'
  BY <1>6, <1>a DEF Close
<1>7. CASE BeginTick
  <2>1. \A j \in Jobs : \/ job'[j] = job[j]
                        \/ /\ job[j].status = "delayed" /\ job[j].dueIn = 0
                           /\ job'[j] = [job[j] EXCEPT !.status = "waiting"]
    BY <1>7 DEF BeginTick, TypeOK
  <2>2. \A j \in Jobs : /\ job'[j].attempts = job[j].attempts
                        /\ job'[j].limit = job[j].limit
                        /\ job'[j].dueIn = job[j].dueIn
                        /\ \/ job'[j].status = job[j].status
                           \/ /\ job[j].status = "delayed" /\ job[j].dueIn = 0
                              /\ job'[j].status = "waiting"
    <3> SUFFICES ASSUME NEW j \in Jobs
                 PROVE  /\ job'[j].attempts = job[j].attempts
                        /\ job'[j].limit = job[j].limit
                        /\ job'[j].dueIn = job[j].dueIn
                        /\ \/ job'[j].status = job[j].status
                           \/ /\ job[j].status = "delayed" /\ job[j].dueIn = 0
                              /\ job'[j].status = "waiting"
      OBVIOUS
    <3>1. job[j] \in Job
      BY DEF TypeOK
    <3> QED
      BY <2>1, <3>1 DEF Job
  <2> QED
    BY <1>7, <2>2 DEF BeginTick, TypeOK
<1>8. ASSUME NEW j \in Jobs, Dispatch(j) PROVE AttemptInv'
  <2>1. /\ \A i \in Jobs : /\ job'[i].limit = job[i].limit
                           /\ job'[i].dueIn = job[i].dueIn
        /\ \A i \in Jobs \ {j} : /\ job'[i].status = job[i].status
                                 /\ job'[i].attempts = job[i].attempts
        /\ job'[j].status = "active" /\ job[j].status = "waiting"
        /\ job'[j].attempts = job[j].attempts + 1
        /\ job[j].attempts < job[j].limit /\ UNCHANGED lag
    BY <1>8 DEF Dispatch, TypeOK, Job, Ready
  <2>2. job[j].attempts \in Nat /\ job[j].limit \in Nat
    BY DEF TypeOK, Job
  <2> QED
    BY <2>1, <2>2
<1>9. CASE Await
  BY <1>9, <1>a DEF Await
<1>10. CASE EndTick
  <2>1. ASSUME NEW j \in Jobs
        PROVE  /\ job'[j].attempts = job[j].attempts
               /\ job'[j].limit = job[j].limit
               /\ job'[j].status = job[j].status
               /\ job'[j].dueIn = Left(job[j].dueIn, lag)
    BY <1>10 DEF EndTick, TypeOK, Job
  <2>2. ASSUME NEW j \in Jobs, job[j].status = "waiting" PROVE job'[j].dueIn = 0
    <3>1. job[j].dueIn \in Nat /\ lag \in Nat /\ job[j].dueIn <= lag
      BY <2>2 DEF TypeOK, Job
    <3> QED
      BY <2>1, <3>1 DEF Left
  <2> QED
    BY <1>10, <2>1, <2>2 DEF EndTick
<1>11. ASSUME NEW j \in Jobs, Settle(j) PROVE AttemptInv'
  <2>1. job[j].attempts \in Nat /\ job[j].limit \in Nat
    BY DEF TypeOK, Job
  <2>2. CASE Succeed(j) \/ Bury(j)
    <3>1. job[j].status = "active"
      BY <2>2 DEF Succeed, Bury, Fails, Unwound, OnePlace
    <3>2. /\ \A i \in Jobs : /\ job'[i].attempts = job[i].attempts
                             /\ job'[i].limit = job[i].limit
                             /\ job'[i].dueIn = job[i].dueIn
          /\ \A i \in Jobs \ {j} : job'[i].status = job[i].status
          /\ job'[j].status \in {"completed", "dead"} /\ UNCHANGED lag
          /\ job'[j].status = "dead" => job[j].attempts >= job[j].limit
      BY <2>2 DEF Succeed, Bury, Fails, TypeOK, Job
    <3> QED
      BY <2>1, <3>1, <3>2
  <2>3. ASSUME NEW d \in RetryDelays, Retry(j, d) PROVE AttemptInv'
    <3>1. /\ \A i \in Jobs : /\ job'[i].attempts = job[i].attempts
                             /\ job'[i].limit = job[i].limit
          /\ \A i \in Jobs \ {j} : /\ job'[i].status = job[i].status
                                   /\ job'[i].dueIn = job[i].dueIn
          /\ job'[j].status = "delayed" /\ UNCHANGED lag
          /\ job[j].attempts < job[j].limit
          /\ job[j].status = "active"
      BY <2>3 DEF Retry, Fails, Unwound, TypeOK, Job, OnePlace
    <3> QED
      BY <2>1, <3>1
  <2> QED
    BY <1>11, <2>2, <2>3 DEF Settle
<1>12. CASE Release
  BY <1>12, <1>a DEF Release
<1>13. ASSUME NEW c \in Closers, FinishClose(c) PROVE AttemptInv'
  BY <1>13, <1>a DEF FinishClose
<1>14. ASSUME NEW j \in Jobs, Evict(j) PROVE AttemptInv'
  BY <1>14, <1>a DEF Evict
<1>15. CASE Elapse
  <2>1. \A j \in Jobs : /\ job'[j].attempts = job[j].attempts
                        /\ job'[j].limit = job[j].limit
                        /\ job'[j].status = job[j].status
    BY <1>15 DEF Elapse, TypeOK, Job
  <2>2. ASSUME NEW j \in Jobs, job[j].status = "waiting" PROVE job'[j].dueIn <= lag'
    <3>1. job[j].dueIn \in Nat /\ lag \in Nat /\ job[j].dueIn <= lag
      BY <2>2 DEF TypeOK, Job
    <3>2. CASE ticking
      BY <1>15, <3>1, <3>2 DEF Elapse
    <3>3. CASE ~ticking
      <4>1. job'[j].dueIn = Countdown(job[j].dueIn) /\ lag' = lag
        BY <1>15, <3>3 DEF Elapse, TypeOK, Job
      <4> QED
        BY <3>1, <4>1 DEF Countdown
    <3> QED
      BY <3>2, <3>3
  <2> QED
    BY <2>1, <2>2
<1>16. CASE UNCHANGED vars
  BY <1>16, <1>a DEF vars
<1>17. CASE AnnounceDrained
  BY <1>17, <1>a DEF AnnounceDrained
<1>18. CASE PushBack
  BY <1>18, <1>a DEF PushBack
<1>19. ASSUME NEW c \in Callers, EndDrain(c) PROVE AttemptInv'
  BY <1>19, <1>a DEF EndDrain
<1> QED
  BY <1>1, <1>2, <1>3, <1>4, <1>5, <1>6, <1>7, <1>8, <1>9, <1>10, <1>11, <1>12,
     <1>13, <1>14, <1>15, <1>16, <1>17, <1>18, <1>19 DEF Next, UserStep, QueueStep

-----------------------------------------------------------------------------
(* One live job per dedupe key *)

LEMMA InitDedupeExclusive == Init => DedupeExclusive
  BY DEF Init, DedupeExclusive, LiveJob, NotCreated

\* A key is given to a new job only when no live job holds it.
LEMMA InsertDedupeExclusive ==
  ASSUME TypeOK, OnePlace, DedupeExclusive, NEW j \in Jobs, NEW k \in Keys \cup {NoKey},
         NEW p, NEW d, NEW l, Insert(j, k, p, d, l), ~Duplicate(k)
  PROVE  DedupeExclusive'
<1>1. /\ job'[j].key = k
      /\ \A i \in Jobs \ {j} : job'[i] = job[i]
      /\ dedupeIndex' = [x \in Keys |-> IF x = k THEN j ELSE dedupeIndex[x]]
  BY DEF Insert, TypeOK
<1>2. ASSUME NEW i \in Jobs \ {j}, LiveJob(i), job[i].key = k PROVE k = NoKey
  <2>1. i \in active \cup pending
    BY <1>2 DEF OnePlace, LiveJob
  <2> QED
    BY <1>2, <2>1 DEF DedupeExclusive, Duplicate
<1>3. \A i \in Jobs : job[i].key \in Keys \cup {NoKey}
  BY DEF TypeOK, Job
<1> QED
  BY <1>1, <1>2, <1>3 DEF DedupeExclusive, LiveJob

LEMMA NextDedupeExclusive ==
  TypeOK /\ OnePlace /\ DedupeExclusive /\ [Next]_vars => DedupeExclusive'
<1> SUFFICES ASSUME TypeOK, OnePlace, DedupeExclusive, [Next]_vars
             PROVE  DedupeExclusive'
  OBVIOUS
<1> USE DEF jobVars
<1>a. CASE /\ dedupeIndex' = dedupeIndex
           /\ \A j \in Jobs : job'[j].key = job[j].key /\ (LiveJob(j)' => LiveJob(j))
  BY <1>a DEF DedupeExclusive
\* A job that leaves the live ones releases nobody's key but its own.
<1>b. ASSUME NEW j \in Jobs, ReleaseDedupe(j), ~LiveJob(j)',
             \A i \in Jobs : job'[i].key = job[i].key /\ (LiveJob(i)' => LiveJob(i))
      PROVE  DedupeExclusive'
  <2>1. \A i \in Jobs : job[i].key \in Keys \cup {NoKey}
    BY DEF TypeOK, Job
  <2> QED
    BY <1>b, <2>1 DEF DedupeExclusive, ReleaseDedupe
<1>c. CASE UNCHANGED <<job, dedupeIndex>>
  BY <1>c DEF DedupeExclusive, LiveJob
<1>1. CASE Process
  BY <1>1, <1>c DEF Process
<1>2. ASSUME NEW j \in Jobs, NEW k \in Keys \cup {NoKey}, NEW p \in Priorities,
             NEW d \in Delays, NEW l \in AttemptLimits, Enqueue(j, k, p, d, l)
      PROVE  DedupeExclusive'
  BY <1>2, InsertDedupeExclusive DEF Enqueue
<1>3. ASSUME NEW j \in Jobs, Cancel(j) PROVE DedupeExclusive'
  <2>1. /\ \A i \in Jobs : job'[i].key = job[i].key
        /\ \A i \in Jobs \ {j} : job'[i].status = job[i].status
        /\ job'[j].status = "cancelled"
    BY <1>3 DEF Cancel, TypeOK, Job
  <2> QED
    BY <1>3, <1>b, <2>1 DEF Cancel, LiveJob
<1>4. ASSUME NEW i \in Jobs, RetryDead(i) PROVE DedupeExclusive'
  <2>1. CASE UNCHANGED <<jobVars, timer>>
    BY <1>c, <2>1
  <2>2. ASSUME NEW j \in Jobs, Insert(j, NoKey, job[i].priority, 0, job[i].limit)
        PROVE  DedupeExclusive'
    BY <2>2, InsertDedupeExclusive DEF Duplicate
  <2> QED
    BY <1>4, <2>1, <2>2 DEF RetryDead
<1>5. ASSUME NEW c \in Drainers, Drain(c) PROVE DedupeExclusive'
  BY <1>5, <1>c DEF Drain
<1>6. ASSUME NEW c \in Closers, Close(c) PROVE DedupeExclusive'
  BY <1>6, <1>c DEF Close
<1>7. CASE BeginTick
  <2>1. ASSUME NEW j \in Jobs
        PROVE  job'[j].key = job[j].key /\ (LiveJob(j)' => LiveJob(j))
    <3>1. job[j] \in Job
      BY DEF TypeOK
    <3>2. \/ job'[j] = job[j]
          \/ /\ job[j].status = "delayed"
             /\ job'[j] = [job[j] EXCEPT !.status = "waiting"]
      BY <1>7 DEF BeginTick
    <3> QED
      BY <3>1, <3>2 DEF Job, LiveJob
  <2> QED
    BY <1>7, <1>a, <2>1 DEF BeginTick
<1>8. ASSUME NEW j \in Jobs, Dispatch(j) PROVE DedupeExclusive'
  <2>1. /\ \A i \in Jobs : job'[i].key = job[i].key
        /\ \A i \in Jobs \ {j} : job'[i].status = job[i].status
        /\ job[j].status = "waiting"
    BY <1>8 DEF Dispatch, TypeOK, Job, Ready
  <2> QED
    BY <1>8, <1>a, <2>1 DEF Dispatch, LiveJob
<1>9. CASE Await
  BY <1>9, <1>c DEF Await
<1>10. CASE EndTick
  <2>1. \A j \in Jobs : job'[j].key = job[j].key /\ job'[j].status = job[j].status
    BY <1>10 DEF EndTick, TypeOK, Job
  <2> QED
    BY <1>10, <1>a, <2>1 DEF EndTick, LiveJob
<1>11. ASSUME NEW j \in Jobs, Settle(j) PROVE DedupeExclusive'
  <2>1. CASE Succeed(j) \/ Bury(j)
    <3>1. /\ \A i \in Jobs : job'[i].key = job[i].key
          /\ \A i \in Jobs \ {j} : job'[i].status = job[i].status
          /\ job'[j].status \in {"completed", "dead"}
      BY <2>1 DEF Succeed, Bury, TypeOK, Job
    <3> QED
      BY <2>1, <1>b, <3>1 DEF Succeed, Bury, LiveJob
  <2>2. ASSUME NEW d \in RetryDelays, Retry(j, d) PROVE DedupeExclusive'
    <3>1. /\ \A i \in Jobs : job'[i].key = job[i].key
          /\ \A i \in Jobs \ {j} : job'[i].status = job[i].status
          /\ job[j].status = "active"
      BY <2>2 DEF Retry, Fails, Unwound, TypeOK, Job, OnePlace
    <3> QED
      BY <2>2, <1>a, <3>1 DEF Retry, LiveJob
  <2> QED
    BY <1>11, <2>1, <2>2 DEF Settle
<1>12. CASE Release
  BY <1>12, <1>c DEF Release
<1>13. ASSUME NEW c \in Closers, FinishClose(c) PROVE DedupeExclusive'
  BY <1>13, <1>c DEF FinishClose
<1>14. ASSUME NEW j \in Jobs, Evict(j) PROVE DedupeExclusive'
  BY <1>14, <1>c DEF Evict
<1>15. CASE Elapse
  <2>1. \A j \in Jobs : job'[j].key = job[j].key /\ job'[j].status = job[j].status
    BY <1>15 DEF Elapse, TypeOK, Job
  <2> QED
    BY <1>15, <1>a, <2>1 DEF Elapse, LiveJob
<1>16. CASE UNCHANGED vars
  BY <1>16, <1>c DEF vars
<1>17. CASE AnnounceDrained
  BY <1>17, <1>c DEF AnnounceDrained
<1>18. CASE PushBack
  BY <1>18, <1>c DEF PushBack
<1>19. ASSUME NEW c \in Callers, EndDrain(c) PROVE DedupeExclusive'
  BY <1>19, <1>c DEF EndDrain
<1> QED
  BY <1>1, <1>2, <1>3, <1>4, <1>5, <1>6, <1>7, <1>8, <1>9, <1>10, <1>11, <1>12,
     <1>13, <1>14, <1>15, <1>16, <1>17, <1>18, <1>19 DEF Next, UserStep, QueueStep

-----------------------------------------------------------------------------
(* No wake-up is lost *)

TimerInv == TickTimer /\ TickArmed /\ WakesOnTime

LEMMA InitTimerInv == Init => TimerInv
  BY DEF Init, TimerInv, TickTimer, TickArmed, WakesOnTime

\* An armed timer survives only where it is early enough; every step that frees
\* a slot or adds a job arms it for now.
LEMMA NextTimerInv ==
  TypeOK /\ OnePlace /\ JobFacts /\ DrainInv /\ TimerInv /\ [Next]_vars => TimerInv'
<1> SUFFICES ASSUME TypeOK, OnePlace, JobFacts, DrainInv, TimerInv, [Next]_vars
             PROVE  TimerInv'
  OBVIOUS
<1> USE DEF TimerInv, TickTimer, NoTimer, jobVars, deadVars, lifeVars, stackVars
<1>d. \A j \in Jobs : job[j].dueIn \in Nat
  BY DEF TypeOK, Job
<1>n. TypeOK'
  BY NextTypeOK
<1>e. /\ \A j \in Jobs : job'[j].dueIn \in Nat
      /\ pending \subseteq Jobs /\ pending' \subseteq Jobs
  BY <1>n DEF TypeOK, Job
\* schedule(0): armed for now is early enough for everybody.
<1>z. CASE Schedule(0) /\ UNCHANGED <<worker, closed, ticking>>
  <2>1. worker /\ ~closed => timer' = 0
    BY <1>z DEF Schedule
  <2>2. timer' \in {timer, 0}
    BY <1>z DEF Schedule
  <2>3. WakesOnTime'
    BY <1>z, <1>e, <2>1 DEF WakesOnTime
  <2>4. TickArmed'
    BY <1>z, <2>1 DEF TickArmed
  <2>5. TickTimer'
    BY <1>z, <2>2
  <2> QED
    BY <2>3, <2>4, <2>5
\* The timer, the slots and the due times stay as they are.
<1>q. CASE /\ UNCHANGED <<timer, active, worker, closed, ticking, announcing>>
           /\ settling' = settling \/ settling' # NoJob
           /\ pending' \subseteq pending
           /\ \A j \in pending' : /\ job'[j].dueIn = job[j].dueIn
                                  /\ job'[j].status = job[j].status
  BY <1>q DEF WakesOnTime, TickArmed, SlotFree
<1>c. CASE UNCHANGED <<job, pending, active, timer, worker, closed, ticking, settling,
                       announcing>>
  BY <1>c DEF WakesOnTime, TickArmed, SlotFree
<1>1. CASE Process
  <2>1. WakesOnTime'
    BY <1>1, <1>d DEF Process, WakesOnTime, TypeOK
  <2> QED
    BY <1>1, <2>1 DEF Process, TickArmed
<1>2. ASSUME NEW j \in Jobs, NEW k \in Keys \cup {NoKey}, NEW p \in Priorities,
             NEW d \in Delays, NEW l \in AttemptLimits, Enqueue(j, k, p, d, l)
      PROVE  TimerInv'
  BY <1>2, <1>z DEF Enqueue, Insert
<1>3. ASSUME NEW j \in Jobs, Cancel(j) PROVE TimerInv'
  <2>1. /\ \A i \in Jobs : job'[i].dueIn = job[i].dueIn
        /\ \A i \in Jobs \ {j} : job'[i].status = job[i].status
    BY <1>3 DEF Cancel, TypeOK, Job
  <2> QED
    BY <1>3, <1>e, <2>1, <1>q DEF Cancel
<1>4. ASSUME NEW i \in Jobs, RetryDead(i) PROVE TimerInv'
  <2>1. CASE UNCHANGED <<jobVars, timer>>
    BY <1>4, <1>c, <2>1 DEF RetryDead
  <2>2. ASSUME NEW j \in Jobs, Insert(j, NoKey, job[i].priority, 0, job[i].limit)
        PROVE  TimerInv'
    BY <1>4, <1>z, <2>2 DEF RetryDead, Insert
  <2> QED
    BY <1>4, <2>1, <2>2 DEF RetryDead
<1>5. ASSUME NEW c \in Drainers, Drain(c) PROVE TimerInv'
  BY <1>5, <1>z DEF Drain, BeginDrain
<1>6. ASSUME NEW c \in Closers, Close(c) PROVE TimerInv'
  <2>1. CASE closed /\ UNCHANGED timer
    BY <1>6, <1>c, <2>1 DEF Close
  <2>2. CASE BeginDrain(c)
    BY <1>6, <1>z, <2>2 DEF Close, BeginDrain
  <2> QED
    BY <1>6, <2>1, <2>2 DEF Close
<1>7. CASE BeginTick
  <2>1. lag = 0 /\ announcing' = FALSE
    BY <1>7 DEF BeginTick, LoopIdle, Unwound, TypeOK, DrainInv
  <2>2. ASSUME NEW j \in pending', job'[j].status = "waiting" PROVE job'[j].dueIn = 0
    <3>1. job[j] \in Job /\ j \in pending
      BY <1>7, <2>2 DEF BeginTick, TypeOK
    <3>2. job'[j] = IF job[j].status = "delayed" /\ job[j].dueIn = 0
                      THEN [job[j] EXCEPT !.status = "waiting"] ELSE job[j]
      BY <1>7, <3>1 DEF BeginTick, TypeOK
    <3> QED
      BY <2>1, <2>2, <3>1, <3>2 DEF JobFacts, Job, TypeOK
  <2>3. TickArmed'
    BY <2>1, <2>2 DEF TickArmed
  <2> QED
    BY <1>7, <2>3 DEF BeginTick, WakesOnTime
<1>8. ASSUME NEW j \in Jobs, Dispatch(j) PROVE TimerInv'
  <2>1. /\ \A i \in Jobs \ {j} : job'[i] = job[i]
        /\ pending' = pending \ {j} /\ UNCHANGED <<timer, ticking, worker, closed, announcing>>
    BY <1>8 DEF Dispatch, TypeOK
  <2>2. TickArmed'
    BY <1>e, <2>1 DEF TickArmed
  <2> QED
    BY <1>8, <2>2 DEF Dispatch, WakesOnTime
<1>9. CASE Await
  BY <1>9, <1>c DEF Await
<1>10. CASE EndTick
  <2>1. /\ ticking = TRUE /\ ticking' = FALSE /\ timer \in {NoTimer, 0} /\ lag \in Nat
        /\ lag <= TickTime /\ TickTime \in Nat
    BY <1>10 DEF EndTick, TypeOK
  <2>2. ASSUME NEW j \in Jobs
        PROVE  job'[j].dueIn = Left(job[j].dueIn, lag) /\ job'[j].status = job[j].status
    BY <1>10 DEF EndTick, TypeOK, Job
  <2>3. ASSUME worker, ~closed, SlotFree, NEW j \in pending
        PROVE  /\ timer' # NoTimer /\ timer' <= job'[j].dueIn + TickTime
               /\ job'[j].status = "waiting" => timer' = 0
    <3>1. j \in Jobs /\ job[j].status \in {"waiting", "delayed"}
      BY <2>3, <1>e DEF OnePlace
    <3>2. CASE timer = 0
      <4>1. timer' = 0
        BY <1>10, <3>2 DEF EndTick, ArmNextDelayTimer
      <4> QED
        BY <4>1, <1>e, <2>1, <3>1
    <3>3. CASE timer = NoTimer
      <4>1. ~announcing /\ Dispatched
        BY <1>10, <2>1, <2>3, <3>3 DEF EndTick, TickArmed
      <4>2. job[j].status = "delayed"
        BY <2>1, <2>3, <3>1, <3>3, <4>1, <1>d DEF TickArmed, Dispatched, Ready
      <4>3. PICK i \in Delayed : /\ job[i].dueIn <= job[j].dueIn
                                 /\ timer' = job[i].dueIn
        BY <1>10, <2>3, <3>3, <4>2 DEF EndTick, ArmNextDelayTimer, Delayed
      <4>4. job[i].dueIn \in Nat /\ job[j].dueIn \in Nat
        BY <1>d, <1>e, <3>1, <4>3 DEF Delayed
      <4>5. job'[j].dueIn \in Nat /\ job[j].dueIn <= job'[j].dueIn + lag
        BY <1>e, <2>1, <2>2, <3>1, <4>4 DEF Left
      <4>6. timer' <= job'[j].dueIn + TickTime
        BY <2>1, <4>3, <4>4, <4>5
      <4> QED
        BY <2>2, <3>1, <4>2, <4>3, <4>4, <4>6
    <3> QED
      BY <2>1, <3>2, <3>3
  <2> QED
    BY <1>10, <2>1, <2>3 DEF EndTick, WakesOnTime, SlotFree, TickArmed
<1>11. ASSUME NEW j \in Jobs, Settle(j) PROVE TimerInv'
  <2>1. /\ settling' = j
        /\ UNCHANGED <<timer, pending, active, worker, closed, ticking, announcing>>
    BY <1>11 DEF Settle, Succeed, Bury, Retry, Fails
  <2>2. settling' # NoJob
    BY <2>1
  <2>3. /\ \A i \in Jobs \ {j} : job'[i] = job[i]
        /\ job'[j].status # "waiting"
    BY <1>11 DEF Settle, Succeed, Bury, Retry, TypeOK, Job
  <2>4. ~announcing
    BY <1>11 DEF Settle, Succeed, Bury, Retry, Fails, DrainInv, Quiet
  <2>5. TickArmed'
    BY <1>e, <2>1, <2>3, <2>4 DEF TickArmed
  <2> QED
    BY <2>1, <2>2, <2>5 DEF WakesOnTime
<1>12. CASE Release
  BY <1>12, <1>z DEF Release
<1>13. ASSUME NEW c \in Closers, FinishClose(c) PROVE TimerInv'
  BY <1>13 DEF FinishClose, WakesOnTime, TickArmed, Unwound
<1>14. ASSUME NEW j \in Jobs, Evict(j) PROVE TimerInv'
  BY <1>14, <1>c DEF Evict
<1>15. CASE Elapse
  <2>1. /\ UNCHANGED <<pending, active, worker, closed, ticking, settling, announcing>>
        /\ timer' = Countdown(timer)
    BY <1>15 DEF Elapse
  <2>2. CASE ticking
    <3>1. UNCHANGED job
      BY <1>15, <2>2 DEF Elapse
    <3>2. timer \in {NoTimer, 0} /\ timer' = timer
      BY <2>1, <2>2 DEF Countdown
    <3> QED
      BY <2>1, <2>2, <3>1, <3>2 DEF WakesOnTime, TickArmed
  <2>3. CASE ~ticking
    <3>1. ASSUME NEW j \in Jobs
          PROVE  /\ job'[j].dueIn = Countdown(job[j].dueIn)
                 /\ job'[j].status = job[j].status
      BY <1>15, <2>3 DEF Elapse, TypeOK, Job
    <3>2. ASSUME NEW j \in pending, timer # NoTimer, timer <= job[j].dueIn + TickTime
          PROVE  timer' # NoTimer /\ timer' <= job'[j].dueIn + TickTime
      <4>1. timer \in Nat /\ job[j].dueIn \in Nat /\ TickTime \in Nat
        BY <1>d, <1>e, <3>2 DEF TypeOK
      <4> QED
        BY <1>e, <2>1, <3>1, <3>2, <4>1 DEF Countdown
    <3>3. timer = 0 => timer' = 0
      BY <2>1 DEF Countdown
    <3> QED
      BY <1>e, <2>1, <2>3, <3>1, <3>2, <3>3 DEF WakesOnTime, TickArmed, SlotFree
  <2> QED
    BY <2>2, <2>3
<1>16. CASE UNCHANGED vars
  BY <1>16, <1>c DEF vars
<1>17. CASE AnnounceDrained
  BY <1>17 DEF AnnounceDrained, Dispatched, IsIdle, WakesOnTime, TickArmed
<1>18. CASE PushBack
  <2>1. job[settling].status = "delayed" /\ settling \in active /\ settling # NoJob
    BY <1>18 DEF PushBack, OnePlace
  <2>2. ~announcing
    BY <2>1 DEF DrainInv, Quiet
  <2> QED
    BY <1>18, <2>1, <2>2 DEF PushBack, WakesOnTime, TickArmed
<1>19. ASSUME NEW c \in Callers, EndDrain(c) PROVE TimerInv'
  BY <1>19, <1>c DEF EndDrain
<1> QED
  BY <1>1, <1>2, <1>3, <1>4, <1>5, <1>6, <1>7, <1>8, <1>9, <1>10, <1>11, <1>12,
     <1>13, <1>14, <1>15, <1>16, <1>17, <1>18, <1>19 DEF Next, UserStep, QueueStep

-----------------------------------------------------------------------------
(* Who is let go finds an idle queue *)

LEMMA InitDrainInv == Init => DrainInv
  BY DEF Init, DrainInv, Quiet, Telling

\* Once the queue was found idle nothing starts a worker before the callers go on.
LEMMA NextDrainInv == TypeOK /\ OnePlace /\ DrainInv /\ [Next]_vars => DrainInv'
<1> SUFFICES ASSUME TypeOK, OnePlace, DrainInv, [Next]_vars PROVE DrainInv'
  OBVIOUS
<1> USE DEF DrainInv, Quiet, Telling, jobVars, stackVars, lifeVars, deadVars
<1>t. pending \subseteq Jobs /\ active \subseteq Jobs
  BY DEF TypeOK
<1>c. CASE /\ UNCHANGED <<active, closed, call, ticking, announcing>>
           /\ \A j \in pending' : job'[j].attempts = 0 \/ (j \in pending /\ job'[j].attempts = job[j].attempts)
  BY <1>c
\* While a worker runs nobody has found the queue idle.
<1>b. ASSUME active # {}, UNCHANGED <<closed, call, ticking, announcing>> PROVE DrainInv'
  BY <1>b
<1>i. ASSUME NEW j \in Jobs, NEW k, NEW p, NEW d, NEW l, Insert(j, k, p, d, l),
             UNCHANGED <<closed, call, ticking, announcing>>
      PROVE  DrainInv'
  <2>1. /\ \A i \in Jobs \ {j} : job'[i] = job[i]
        /\ job'[j].attempts = 0 /\ pending' = pending \cup {j} /\ active' = active
    BY <1>i DEF Insert, TypeOK
  <2> QED
    BY <1>i, <1>t, <1>c, <2>1
\* drain() from a callback: an idle queue is not in the middle of a tick.
<1>d. ASSUME NEW c \in Callers, CanCall, BeginDrain(c), call[c] = "none",
             UNCHANGED <<job, pending, active, closed, ticking, announcing>>
      PROVE  DrainInv'
  <2>1. CASE IsIdle
    <3>1. ticking => announcing
      BY <1>d, <2>1 DEF CanCall, Callback, IsIdle, OnePlace
    <3>2. call' = [call EXCEPT ![c] = "telling"]
      BY <1>d, <2>1 DEF BeginDrain
    <3> QED
      BY <1>d, <2>1, <3>1, <3>2 DEF IsIdle, TypeOK
  <2>2. CASE ~IsIdle
    <3>1. call' = [call EXCEPT ![c] = "waiting"]
      BY <1>d, <2>2 DEF BeginDrain
    <3> QED
      BY <1>d, <3>1 DEF TypeOK, Callers
  <2> QED
    BY <2>1, <2>2
<1>1. CASE Process
  BY <1>1, <1>c DEF Process
<1>2. ASSUME NEW j \in Jobs, NEW k \in Keys \cup {NoKey}, NEW p \in Priorities,
             NEW d \in Delays, NEW l \in AttemptLimits, Enqueue(j, k, p, d, l)
      PROVE  DrainInv'
  BY <1>2, <1>i DEF Enqueue
<1>3. ASSUME NEW j \in Jobs, Cancel(j) PROVE DrainInv'
  <2>1. \A i \in Jobs : job'[i].attempts = job[i].attempts
    BY <1>3 DEF Cancel, TypeOK, Job
  <2> QED
    BY <1>3, <1>t, <1>c, <2>1 DEF Cancel
<1>4. ASSUME NEW i \in Jobs, RetryDead(i) PROVE DrainInv'
  <2>1. CASE UNCHANGED <<jobVars, timer>>
    BY <1>4, <1>c, <2>1 DEF RetryDead
  <2>2. ASSUME NEW j \in Jobs, Insert(j, NoKey, job[i].priority, 0, job[i].limit)
        PROVE  DrainInv'
    BY <1>4, <1>i, <2>2 DEF RetryDead
  <2> QED
    BY <1>4, <2>1, <2>2 DEF RetryDead
<1>5. ASSUME NEW c \in Drainers, Drain(c) PROVE DrainInv'
  BY <1>5, <1>d DEF Drain, Callers
<1>6. ASSUME NEW c \in Closers, Close(c) PROVE DrainInv'
  <2>1. CASE closed /\ call' = [call EXCEPT ![c] = "returned"]
    BY <1>6, <2>1 DEF Close, TypeOK, Callers
  <2>2. CASE BeginDrain(c)
    BY <1>6, <1>d, <2>2 DEF Close, Callers
  <2> QED
    BY <1>6, <2>1, <2>2 DEF Close
<1>7. CASE BeginTick
  BY <1>7 DEF BeginTick, LoopIdle, Unwound
<1>8. ASSUME NEW j \in Jobs, Dispatch(j) PROVE DrainInv'
  BY <1>8 DEF Dispatch, Callback
<1>9. CASE Await
  BY <1>9, <1>c DEF Await
<1>10. CASE EndTick
  <2>1. /\ \A c \in Callers : call'[c] = IF call[c] = "announced" THEN Resolved(c) ELSE call[c]
        /\ Telling = {} /\ announcing' = FALSE /\ ticking' = FALSE
        /\ active' = active /\ closed' = closed
    BY <1>10 DEF EndTick
  <2>2. \A c \in Callers : Resolved(c) \in {"resuming", "returned"}
    BY DEF Resolved
  <2>3. Telling' = {} /\ \A c \in Callers : call'[c] # "announced"
    BY <2>1, <2>2
  <2>4. Quiet' => Quiet
    BY <2>1, <2>3 DEF Callers
  <2> QED
    BY <2>1, <2>3, <2>4
<1>11. ASSUME NEW j \in Jobs, Settle(j) PROVE DrainInv'
  BY <1>11, <1>b DEF Settle, Succeed, Bury, Retry, Fails
<1>12. CASE Release
  BY <1>12, <1>b DEF Release, OnePlace
<1>13. ASSUME NEW c \in Closers, FinishClose(c) PROVE DrainInv'
  BY <1>13 DEF FinishClose, Unwound, TypeOK, Callers
<1>14. ASSUME NEW j \in Jobs, Evict(j) PROVE DrainInv'
  BY <1>14, <1>c DEF Evict
<1>15. CASE Elapse
  <2>1. \A j \in Jobs : job'[j].attempts = job[j].attempts
    BY <1>15 DEF Elapse, TypeOK, Job
  <2> QED
    BY <1>15, <1>t, <1>c, <2>1 DEF Elapse
<1>16. CASE UNCHANGED vars
  BY <1>16, <1>c DEF vars
<1>17. CASE AnnounceDrained
  BY <1>17 DEF AnnounceDrained, Dispatched, IsIdle
<1>18. CASE PushBack
  BY <1>18, <1>b DEF PushBack, OnePlace
<1>19. ASSUME NEW c \in Callers, EndDrain(c) PROVE DrainInv'
  <2>1. Resolved(c) \in {"resuming", "returned"}
    BY DEF Resolved
  <2>2. /\ \A b \in Callers \ {c} : call'[b] = call[b]
        /\ call'[c] \in {"resuming", "returned"} /\ call[c] = "telling"
    BY <1>19, <2>1 DEF EndDrain, TypeOK
  <2> QED
    BY <1>19, <2>2 DEF EndDrain, Callers
<1> QED
  BY <1>1, <1>2, <1>3, <1>4, <1>5, <1>6, <1>7, <1>8, <1>9, <1>10, <1>11, <1>12,
     <1>13, <1>14, <1>15, <1>16, <1>17, <1>18, <1>19 DEF Next, UserStep, QueueStep

-----------------------------------------------------------------------------
(* The invariant, and what follows from it *)

LEMMA InitIInv == Init => IInv
  BY InitTypeOK, InitOnePlace, InitConcurrencyBound, InitAttemptInv,
     InitDedupeExclusive, InitTimerInv, InitDrainInv DEF IInv, AttemptInv, TimerInv

LEMMA NextIInv == IInv /\ [Next]_vars => IInv'
  BY NextTypeOK, NextOnePlace, NextConcurrencyBound, NextAttemptInv,
     NextDedupeExclusive, NextTimerInv, NextDrainInv DEF IInv, AttemptInv, TimerInv

LEMMA Invariance == Spec => []IInv
  BY InitIInv, NextIInv, PTL DEF Spec

\* The queue's variables always have the shape the code gives them.
THEOREM TypeCorrect == Spec => []TypeOK
  BY Invariance, PTL DEF IInv

\* However ticks, callbacks and promises interleave, the worker never runs more
\* jobs at once than the concurrency option allows.
THEOREM Concurrent == Spec => []ConcurrencyBound
  BY Invariance, PTL DEF IInv

\* Every job is in the container its status calls for, but for a job of which the
\* listeners of 'failed' are being told.
THEOREM Placed == Spec => []OnePlace
  BY Invariance, PTL DEF IInv

\* Two live jobs never share a dedupe key.
THEOREM Deduped == Spec => []DedupeExclusive
  BY Invariance, PTL DEF IInv

\* No job is attempted more often than its limit, and none dies earlier.
THEOREM Attempted == Spec => []AttemptsWithinLimit
  BY Invariance, PTL DEF IInv

\* A pending job and a free slot always have a timer armed, late by a tick at most.
THEOREM Woken == Spec => []WakesOnTime
  BY Invariance, PTL DEF IInv

\* Who waits in drain() or close() is let go when nothing is pending or runs, and goes on
\* when still nothing runs and what is pending has not been tried.
THEOREM Drained == Spec => DrainSettlesAll
<1> DEFINE Fine(c) ==
             call'[c] # call[c] /\ ~closed =>
               /\ call'[c] \in {"announced", "telling"} => pending' = {} /\ active' = {}
               /\ call'[c] \in {"resuming", "returned"} /\ call[c] # "resuming" =>
                    /\ call[c] \in {"announced", "telling"} /\ active' = {}
                    /\ \A j \in pending' : job'[j].attempts = 0
           Step == \A c \in Callers : Fine(c)
<1>1. IInv /\ [Next]_vars => [Step]_vars
  <2> SUFFICES ASSUME IInv, Next, NEW c \in Callers, call'[c] # call[c], ~closed
               PROVE  Fine(c)
    OBVIOUS
  <2> USE DEF IInv, jobVars, lifeVars
  <2>1. ASSUME NEW b \in Callers, BeginDrain(b), UNCHANGED jobVars PROVE Fine(c)
    <3>1. b = c
      BY <2>1 DEF BeginDrain, TypeOK
    <3>2. CASE IsIdle
      BY <2>1, <3>1, <3>2 DEF BeginDrain, IsIdle, TypeOK
    <3>3. CASE ~IsIdle
      BY <2>1, <3>1, <3>3 DEF BeginDrain, TypeOK
    <3> QED
      BY <3>2, <3>3
  <2>2. ASSUME NEW b \in Drainers, Drain(b) PROVE Fine(c)
    BY <2>1, <2>2 DEF Drain, Callers
  <2>3. ASSUME NEW b \in Closers, Close(b) PROVE Fine(c)
    BY <2>1, <2>3 DEF Close, Callers
  <2>4. CASE AnnounceDrained
    BY <2>4 DEF AnnounceDrained, IsIdle
  <2>5. CASE EndTick
    <3>1. call[c] = "announced" /\ call'[c] = Resolved(c)
      BY <2>5 DEF EndTick
    <3>2. /\ announcing /\ active = {}
          /\ \A j \in pending : job[j].attempts = 0
      BY <3>1 DEF DrainInv, Quiet
    <3>3. \A j \in Jobs : job'[j].attempts = job[j].attempts
      BY <2>5 DEF EndTick, TypeOK, Job
    <3>4. pending' = pending /\ pending \subseteq Jobs /\ active' = active
      BY <2>5 DEF EndTick, TypeOK
    <3>5. \A j \in pending' : job'[j].attempts = 0
      BY <3>2, <3>3, <3>4
    <3> QED
      BY <3>1, <3>2, <3>4, <3>5 DEF Resolved
  <2>6. ASSUME NEW b \in Callers, EndDrain(b) PROVE Fine(c)
    <3>1. b = c /\ call[c] = "telling" /\ call'[c] = Resolved(c)
      BY <2>6 DEF EndDrain, TypeOK
    <3>2. /\ active = {} /\ \A j \in pending : job[j].attempts = 0
      BY <3>1 DEF DrainInv, Quiet, Telling
    <3> QED
      BY <2>6, <3>1, <3>2 DEF EndDrain, Resolved
  <2>7. ASSUME NEW b \in Closers, FinishClose(b) PROVE Fine(c)
    BY <2>7 DEF FinishClose, TypeOK, Callers
  <2>8. ASSUME NEW j \in Jobs, Settle(j) PROVE UNCHANGED call
    BY <2>8 DEF Settle, Succeed, Bury, Retry, Fails
  <2>9. ASSUME ~\E b \in Drainers : Drain(b), ~\E b \in Closers : Close(b), UserStep
        PROVE  UNCHANGED call
    BY <2>9 DEF UserStep, Process, Enqueue, Cancel, RetryDead
  <2>10. BeginTick \/ (\E j \in Jobs : Dispatch(j)) \/ Await \/ PushBack \/ Release
           \/ (\E j \in Jobs : Evict(j)) \/ Elapse => UNCHANGED call
    BY DEF BeginTick, Dispatch, Await, PushBack, Release, Evict, Elapse
  <2> HIDE DEF Fine
  <2> QED
    BY <2>2, <2>3, <2>4, <2>5, <2>6, <2>7, <2>8, <2>9, <2>10 DEF Next, QueueStep
<1> QED
  BY <1>1, Invariance, PTL DEF Spec, DrainSettlesAll

-----------------------------------------------------------------------------
(* The order of dispatch *)

\* While tick() is on the stack no due job is left unpromoted but one that failed
\* in this very tick; a running job was attempted.
OrderInv ==
  /\ ticking => \A j \in pending : job[j].status = "delayed" /\ job[j].dueIn = 0
                                     => job[j].attempts > 0
  /\ \A j \in active : job[j].attempts > 0 /\ job[j].status # "new"

LEMMA InitOrderInv == Init => OrderInv
  BY DEF Init, OrderInv

LEMMA NextOrderInv == IInv /\ OrderInv /\ [Next]_vars => OrderInv'
<1> SUFFICES ASSUME IInv, OrderInv, [Next]_vars PROVE OrderInv'
  OBVIOUS
<1> USE DEF IInv, OrderInv, jobVars, stackVars, lifeVars, deadVars
<1>t. pending \subseteq Jobs /\ active \subseteq Jobs
  BY DEF TypeOK
<1>c. CASE UNCHANGED <<job, active, ticking>> /\ pending' \subseteq pending
  BY <1>c
<1>i. ASSUME NEW j \in Jobs, NEW k, NEW p, NEW d \in Nat, NEW l,
             Insert(j, k, p, d, l), UNCHANGED ticking
      PROVE  OrderInv'
  <2>1. /\ job'[j].dueIn = lag + d /\ lag \in Nat
        /\ job'[j].status = IF d > 0 THEN "delayed" ELSE "waiting"
        /\ \A i \in Jobs \ {j} : job'[i] = job[i]
        /\ pending' = pending \cup {j} /\ active' = active
    BY <1>i DEF Insert, TypeOK
  <2>2. j \notin active
    BY <1>i DEF Insert
  <2> QED
    BY <1>i, <1>t, <2>1, <2>2
<1>1. CASE Process
  BY <1>1, <1>c DEF Process
<1>2. ASSUME NEW j \in Jobs, NEW k \in Keys \cup {NoKey}, NEW p \in Priorities,
             NEW d \in Delays, NEW l \in AttemptLimits, Enqueue(j, k, p, d, l)
      PROVE  OrderInv'
  <2>1. d \in Nat
    OBVIOUS
  <2> QED
    BY <1>2, <1>i, <2>1 DEF Enqueue
<1>3. ASSUME NEW j \in Jobs, Cancel(j) PROVE OrderInv'
  <2>1. /\ \A i \in Jobs : job'[i].attempts = job[i].attempts
        /\ \A i \in Jobs \ {j} : job'[i] = job[i]
        /\ job'[j].status = "cancelled"
    BY <1>3 DEF Cancel, TypeOK, Job
  <2> QED
    BY <1>3, <1>t, <2>1 DEF Cancel
<1>4. ASSUME NEW i \in Jobs, RetryDead(i) PROVE OrderInv'
  <2>1. CASE UNCHANGED <<jobVars, timer>>
    BY <1>4, <1>c, <2>1 DEF RetryDead
  <2>2. ASSUME NEW j \in Jobs, Insert(j, NoKey, job[i].priority, 0, job[i].limit)
        PROVE  OrderInv'
    BY <1>4, <1>i, <2>2 DEF RetryDead
  <2> QED
    BY <1>4, <2>1, <2>2 DEF RetryDead
<1>5. ASSUME NEW c \in Drainers, Drain(c) PROVE OrderInv'
  BY <1>5, <1>c DEF Drain
<1>6. ASSUME NEW c \in Closers, Close(c) PROVE OrderInv'
  BY <1>6, <1>c DEF Close
<1>7. CASE BeginTick
  <2>1. ASSUME NEW j \in Jobs
        PROVE  /\ job'[j].attempts = job[j].attempts
               /\ job'[j].dueIn = job[j].dueIn
               /\ job'[j].status # "new" \/ job[j].status = "new"
               /\ ~(j \in pending /\ job'[j].status = "delayed" /\ job'[j].dueIn = 0)
    <3>1. job[j] \in Job
      BY DEF TypeOK
    <3>2. job'[j] = IF j \in pending /\ job[j].status = "delayed" /\ job[j].dueIn = 0
                      THEN [job[j] EXCEPT !.status = "waiting"] ELSE job[j]
      BY <1>7 DEF BeginTick
    <3> QED
      BY <3>1, <3>2 DEF Job
  <2> QED
    BY <1>7, <1>t, <2>1 DEF BeginTick
<1>8. ASSUME NEW j \in Jobs, Dispatch(j) PROVE OrderInv'
  <2>1. /\ \A i \in Jobs \ {j} : job'[i] = job[i]
        /\ job'[j].status = "active" /\ job'[j].attempts = job[j].attempts + 1
        /\ job[j].attempts \in Nat
        /\ pending' = pending \ {j} /\ active' = active \cup {j}
        /\ ticking' = ticking
    BY <1>8 DEF Dispatch, TypeOK, Job
  <2> QED
    BY <1>t, <2>1
<1>9. CASE Await
  BY <1>9, <1>c DEF Await
<1>10. CASE EndTick
  <2>1. \A i \in Jobs : /\ job'[i].attempts = job[i].attempts
                        /\ job'[i].status = job[i].status
    BY <1>10 DEF EndTick, TypeOK, Job
  <2> QED
    BY <1>10, <1>t, <2>1 DEF EndTick
<1>11. ASSUME NEW j \in Jobs, Settle(j) PROVE OrderInv'
  <2>1. \A i \in Jobs : job'[i].attempts = job[i].attempts
    BY <1>11 DEF Settle, Succeed, Bury, Retry, TypeOK, Job
  <2>2. /\ \A i \in Jobs \ {j} : job'[i] = job[i]
        /\ job'[j].status \in {"completed", "dead", "delayed"}
        /\ UNCHANGED <<pending, active, ticking>>
    BY <1>11 DEF Settle, Succeed, Bury, Retry, Fails, TypeOK, Job
  <2>3. j \in active
    BY <1>11 DEF Settle, Succeed, Bury, Retry, Fails
  <2> QED
    BY <1>t, <2>1, <2>2, <2>3
<1>12. CASE Release
  BY <1>12, <1>t DEF Release
<1>13. ASSUME NEW c \in Closers, FinishClose(c) PROVE OrderInv'
  BY <1>13, <1>c DEF FinishClose
<1>14. ASSUME NEW j \in Jobs, Evict(j) PROVE OrderInv'
  BY <1>14, <1>c DEF Evict
<1>15. CASE Elapse
  <2>1. \A i \in Jobs : /\ job'[i].attempts = job[i].attempts
                        /\ job'[i].status = job[i].status
                        /\ ticking => job'[i] = job[i]
    BY <1>15 DEF Elapse, TypeOK, Job
  <2> QED
    BY <1>15, <1>t, <2>1 DEF Elapse
<1>16. CASE UNCHANGED vars
  BY <1>16, <1>c DEF vars
<1>17. CASE AnnounceDrained
  BY <1>17, <1>c DEF AnnounceDrained
<1>18. CASE PushBack
  BY <1>18, <1>t DEF PushBack, OnePlace
<1>19. ASSUME NEW c \in Callers, EndDrain(c) PROVE OrderInv'
  BY <1>19, <1>c DEF EndDrain
<1> QED
  BY <1>1, <1>2, <1>3, <1>4, <1>5, <1>6, <1>7, <1>8, <1>9, <1>10, <1>11, <1>12,
     <1>13, <1>14, <1>15, <1>16, <1>17, <1>18, <1>19 DEF Next, UserStep, QueueStep

\* A due job is never overtaken by a job that should come after it.
LEMMA DispatchesInOrder ==
  ASSUME IInv, OrderInv, [Next]_vars, NEW j \in active' \ active,
         NEW i \in pending, job[i].dueIn = 0, Before(i, j)
  PROVE  job[i].status = "delayed" /\ job[i].attempts > 0
<1>1. j \in Jobs /\ Dispatch(j)
  <2> USE DEF jobVars
  <2>1. UserStep => active' = active
    BY DEF UserStep, Process, Enqueue, Insert, Cancel, RetryDead, Drain, Close
  <2>2. ASSUME NEW i1 \in Jobs, Settle(i1) PROVE active' = active
    BY <2>2 DEF Settle, Succeed, Bury, Retry, Fails
  <2>3. BeginTick \/ Await \/ AnnounceDrained \/ EndTick \/ PushBack \/ Release \/ Elapse
          => active' \subseteq active
    BY DEF BeginTick, Await, AnnounceDrained, EndTick, PushBack, Release, Elapse
  <2>4. ASSUME NEW c \in Closers, FinishClose(c) PROVE active' = active
    BY <2>4 DEF FinishClose
  <2>0. ASSUME NEW c \in Callers, EndDrain(c) PROVE active' = active
    BY <2>0 DEF EndDrain
  <2>5. ASSUME NEW i1 \in Jobs, Evict(i1) PROVE active' = active
    BY <2>5 DEF Evict
  <2>6. PICK i1 \in Jobs : Dispatch(i1)
    BY <2>0, <2>1, <2>2, <2>3, <2>4, <2>5 DEF Next, QueueStep, vars
  <2> QED
    BY <2>6 DEF Dispatch
<1>2. i \in Jobs /\ i \notin Ready /\ ticking
  BY <1>1 DEF Dispatch, IInv, TypeOK
<1> QED
  BY <1>2 DEF Ready, IInv, OnePlace, OrderInv

\* The dispatch order of the queue: priority, then age, over all jobs that are due.
THEOREM Ordered == Spec => NoOvertaking
<1>1. IInv /\ OrderInv /\ [Next]_vars =>
        [\A j \in Jobs : j \in active' \ active =>
           \A i \in pending : job[i].dueIn = 0 /\ Before(i, j)
                                => job[i].status = "delayed" /\ job[i].attempts > 0]_vars
  BY DispatchesInOrder
<1> QED
  BY <1>1, InitOrderInv, NextOrderInv, Invariance, PTL DEF Spec, NoOvertaking

-----------------------------------------------------------------------------
(* close() waits for the running workers *)

\* No worker is running in a closed queue.
THEOREM ClosedQuietly == Spec => []CloseWaitsForWorkers
<1>1. IInv => CloseWaitsForWorkers
  BY DEF IInv, DrainInv, Quiet, CloseWaitsForWorkers
<1> QED
  BY <1>1, Invariance, PTL

-----------------------------------------------------------------------------
(* The queue implements JobLifecycle *)

LEMMA InitRefines == Init => Lifecycle!Init
  BY DEF Init, NotCreated, Lifecycle!Init, LifeState, LifeTries, LifeLimit, LifeKey

\* A step that changes the record of job j only.
OnlyJob(j) == \A i \in Jobs \ {j} : job'[i] = job[i]

\* What the caller of the queue sees of the other jobs stays as it was.
LEMMA LifeOfOthers ==
  ASSUME NEW j \in Jobs, OnlyJob(j)
  PROVE  /\ LifeState' = [LifeState EXCEPT ![j] = LifeState'[j]]
         /\ LifeTries' = [LifeTries EXCEPT ![j] = job'[j].attempts]
         /\ LifeLimit' = [LifeLimit EXCEPT ![j] = job'[j].limit]
         /\ LifeKey' = [LifeKey EXCEPT ![j] = job'[j].key]
  BY DEF OnlyJob, LifeState, LifeTries, LifeLimit, LifeKey

\* A new job that takes nobody's key is an Accept of the abstract queue.
LEMMA InsertRefines ==
  ASSUME IInv, NEW j \in Jobs, NEW k \in Keys \cup {NoKey}, NEW p, NEW d,
         NEW l \in AttemptLimits, Insert(j, k, p, d, l), ~Duplicate(k)
  PROVE  Lifecycle!Accept(j)
<1>1. /\ OnlyJob(j) /\ job'[j].status \in {"waiting", "delayed"}
      /\ job[j].status = "new"
      /\ job'[j].attempts = 0 /\ job'[j].limit = l /\ job'[j].key = k
  BY DEF Insert, IInv, TypeOK, OnePlace, OnlyJob
<1>2. LifeState[j] = "new" /\ LifeState'[j] = "pending"
  BY <1>1 DEF LifeState
<1>3. ASSUME k # NoKey, NEW i \in Jobs, LifeState[i] \in {"pending", "running"}
      PROVE  LifeKey[i] # k
  <2>1. LiveJob(i) /\ i \in active \cup pending
    <3>1. job[i].status \in Status
      BY DEF IInv, TypeOK, Job
    <3> QED
      BY <1>3, <3>1 DEF LifeState, LiveJob, IInv, OnePlace, Status
  <2>2. dedupeIndex[k] # i
    BY <1>3, <2>1 DEF Duplicate
  <2> QED
    BY <1>3, <2>1, <2>2 DEF IInv, DedupeExclusive, LifeKey
<1> QED
  BY <1>1, <1>2, <1>3, LifeOfOthers
     DEF Lifecycle!Accept, Lifecycle!Become, Lifecycle!Live

\* What is seen of the jobs does not change with the time until they are due, nor when
\* a delayed job is promoted.
LEMMA LifeUnchanged ==
  ASSUME \A j \in Jobs :
           /\ job'[j].attempts = job[j].attempts
           /\ job'[j].limit = job[j].limit /\ job'[j].key = job[j].key
           /\ \/ job'[j].status = job[j].status
              \/ job[j].status = "delayed" /\ job'[j].status = "waiting"
  PROVE  UNCHANGED Lifecycle!vars
  BY DEF Lifecycle!vars, LifeState, LifeTries, LifeLimit, LifeKey

\* Every step of the queue is a step of a job's life or leaves them all alone.
LEMMA NextRefines ==
  IInv /\ [Next]_vars => [Lifecycle!Next]_(Lifecycle!vars)
<1> SUFFICES ASSUME IInv, [Next]_vars
             PROVE  Lifecycle!Next \/ UNCHANGED Lifecycle!vars
  OBVIOUS
<1> USE DEF IInv, jobVars, stackVars
<1>c. ASSUME UNCHANGED job PROVE UNCHANGED Lifecycle!vars
  BY <1>c DEF Lifecycle!vars, LifeState, LifeTries, LifeLimit, LifeKey
<1>i. ASSUME NEW j \in Jobs, NEW k \in Keys \cup {NoKey}, NEW p, NEW d,
             NEW l \in AttemptLimits, Insert(j, k, p, d, l), ~Duplicate(k)
      PROVE  Lifecycle!Next
  BY <1>i, InsertRefines DEF Lifecycle!Next
<1>1. CASE Process
  BY <1>1, <1>c DEF Process
<1>2. ASSUME NEW j \in Jobs, NEW k \in Keys \cup {NoKey}, NEW p \in Priorities,
             NEW d \in Delays, NEW l \in AttemptLimits, Enqueue(j, k, p, d, l)
      PROVE  Lifecycle!Next
  BY <1>2, <1>i DEF Enqueue
<1>3. ASSUME NEW j \in Jobs, Cancel(j) PROVE Lifecycle!Next
  <2>1. job[j] \in Job
    BY DEF TypeOK
  <2>2. /\ OnlyJob(j) /\ job[j].status \in {"waiting", "delayed"}
        /\ job'[j] = [job[j] EXCEPT !.status = "cancelled"]
    BY <1>3 DEF Cancel, TypeOK, OnePlace, OnlyJob
  <2>3. /\ job'[j].status = "cancelled" /\ job'[j].attempts = job[j].attempts
        /\ job'[j].limit = job[j].limit /\ job'[j].key = job[j].key
    BY <2>1, <2>2 DEF Job
  <2>4. LifeState[j] = "pending" /\ LifeState'[j] = "cancelled"
    BY <2>2, <2>3 DEF LifeState
  <2>5. UNCHANGED <<LifeTries, LifeLimit, LifeKey>>
    BY <2>2, <2>3 DEF OnlyJob, LifeTries, LifeLimit, LifeKey
  <2>6. Lifecycle!Cancel(j)
    BY <2>2, <2>4, <2>5, LifeOfOthers DEF Lifecycle!Cancel, Lifecycle!Become
  <2> QED
    BY <2>6 DEF Lifecycle!Next
<1>4. ASSUME NEW i \in Jobs, RetryDead(i)
      PROVE  Lifecycle!Next \/ UNCHANGED Lifecycle!vars
  <2>1. CASE UNCHANGED <<jobVars, timer>>
    BY <1>c, <2>1
  <2>2. ASSUME NEW j \in Jobs, Insert(j, NoKey, job[i].priority, 0, job[i].limit)
        PROVE  Lifecycle!Next
    <3>1. job[i].limit \in AttemptLimits
      BY <1>4 DEF RetryDead, OnePlace, JobFacts
    <3> QED
      BY <1>i, <2>2, <3>1 DEF Duplicate
  <2> QED
    BY <1>4, <2>1, <2>2 DEF RetryDead
<1>5. ASSUME NEW c \in Drainers, Drain(c) PROVE UNCHANGED Lifecycle!vars
  BY <1>5, <1>c DEF Drain
<1>6. ASSUME NEW c \in Closers, Close(c) PROVE UNCHANGED Lifecycle!vars
  BY <1>6, <1>c DEF Close
<1>7. CASE BeginTick
  <2>1. ASSUME NEW j \in Jobs
        PROVE  /\ job'[j].attempts = job[j].attempts
               /\ job'[j].limit = job[j].limit /\ job'[j].key = job[j].key
               /\ \/ job'[j].status = job[j].status
                  \/ job[j].status = "delayed" /\ job'[j].status = "waiting"
    <3>1. job[j] \in Job
      BY DEF TypeOK
    <3>2. \/ job'[j] = job[j]
          \/ job[j].status = "delayed" /\ job'[j] = [job[j] EXCEPT !.status = "waiting"]
      BY <1>7 DEF BeginTick
    <3> QED
      BY <3>1, <3>2 DEF Job
  <2> QED
    BY <2>1, LifeUnchanged
<1>8. ASSUME NEW j \in Jobs, Dispatch(j) PROVE Lifecycle!Next
  <2>1. job[j] \in Job
    BY DEF TypeOK
  <2>2. /\ OnlyJob(j) /\ job[j].status = "waiting"
        /\ job'[j] = [job[j] EXCEPT !.status = "active", !.attempts = @ + 1]
    BY <1>8 DEF Dispatch, Ready, TypeOK, OnlyJob
  <2>3. /\ job'[j].status = "active" /\ job'[j].attempts = job[j].attempts + 1
        /\ job'[j].limit = job[j].limit /\ job'[j].key = job[j].key
    BY <2>1, <2>2 DEF Job
  <2>4. LifeState[j] = "pending" /\ LifeState'[j] = "running"
    BY <2>2, <2>3 DEF LifeState
  <2>5. UNCHANGED <<LifeLimit, LifeKey>>
    BY <2>2, <2>3 DEF OnlyJob, LifeLimit, LifeKey
  <2>6. LifeTries' = [LifeTries EXCEPT ![j] = @ + 1]
    BY <2>2, <2>3, LifeOfOthers DEF LifeTries
  <2>7. LifeTries[j] < LifeLimit[j]
    BY <2>2 DEF LifeTries, LifeLimit, AttemptsWithinLimit
  <2>8. Cardinality(Lifecycle!Running) < Concurrency
    <3>1. Lifecycle!Running \subseteq active
      <4>1. \A i \in Jobs : job[i].status \in Status
        BY DEF TypeOK, Job
      <4> QED
        BY <4>1 DEF Lifecycle!Running, LifeState, OnePlace, Status
    <3>2. IsFiniteSet(active) /\ Cardinality(active) \in Nat
      BY FS_Subset, FS_CardinalityType DEF TypeOK
    <3>3. /\ Cardinality(Lifecycle!Running) \in Nat
          /\ Cardinality(Lifecycle!Running) <= Cardinality(active)
      BY <3>1, <3>2, FS_Subset, FS_CardinalityType
    <3>4. Cardinality(active) < Concurrency
      BY <1>8 DEF Dispatch, SlotFree
    <3> QED
      BY <3>2, <3>3, <3>4
  <2>9. LifeState' = [LifeState EXCEPT ![j] = "running"]
    BY <2>2, <2>4, LifeOfOthers
  <2>10. Lifecycle!Cardinality(Lifecycle!Running) = Cardinality(Lifecycle!Running)
    BY DEF Lifecycle!Cardinality, Cardinality
  <2>11. Lifecycle!Start(j)
    BY <2>4, <2>5, <2>6, <2>7, <2>8, <2>9, <2>10
       DEF Lifecycle!Start, Lifecycle!Become
  <2> QED
    BY <2>11 DEF Lifecycle!Next
<1>9. CASE Await
  BY <1>9, <1>c DEF Await
<1>10. CASE EndTick
  <2>1. ASSUME NEW j \in Jobs
        PROVE  /\ job'[j].attempts = job[j].attempts
               /\ job'[j].limit = job[j].limit /\ job'[j].key = job[j].key
               /\ job'[j].status = job[j].status
    <3>1. job[j] \in Job
      BY DEF TypeOK
    <3> QED
      BY <1>10, <3>1 DEF EndTick, Job
  <2> QED
    BY <2>1, LifeUnchanged
<1>11. ASSUME NEW j \in Jobs, Settle(j) PROVE Lifecycle!Next
  <2>1. job[j] \in Job
    BY DEF TypeOK
  <2>2. job[j].status = "active" /\ LifeState[j] = "running"
    BY <1>11 DEF Settle, Succeed, Bury, Retry, Fails, Unwound, OnePlace, LifeState
  <2>3. CASE Succeed(j)
    <3>1. OnlyJob(j) /\ job'[j] = [job[j] EXCEPT !.status = "completed"]
      BY <2>3 DEF Succeed, OnlyJob, TypeOK
    <3>2. /\ job'[j].status = "completed" /\ job'[j].attempts = job[j].attempts
          /\ job'[j].limit = job[j].limit /\ job'[j].key = job[j].key
      BY <2>1, <3>1 DEF Job
    <3>3. LifeState'[j] = "completed"
      BY <2>2, <2>3, <3>2 DEF LifeState, Succeed
    <3>4. UNCHANGED <<LifeTries, LifeLimit, LifeKey>>
      BY <3>1, <3>2 DEF OnlyJob, LifeTries, LifeLimit, LifeKey
    <3>5. Lifecycle!Complete(j)
      BY <2>2, <3>1, <3>3, <3>4, LifeOfOthers
         DEF Lifecycle!Complete, Lifecycle!Become
    <3> QED
      BY <3>5 DEF Lifecycle!Next
  <2>4. CASE Bury(j)
    <3>1. OnlyJob(j) /\ job'[j] = [job[j] EXCEPT !.status = "dead"]
      BY <2>4 DEF Bury, OnlyJob, TypeOK
    <3>2. /\ job'[j].status = "dead" /\ job'[j].attempts = job[j].attempts
          /\ job'[j].limit = job[j].limit /\ job'[j].key = job[j].key
      BY <2>1, <3>1 DEF Job
    <3>3. LifeState'[j] = "dead"
      BY <2>2, <2>4, <3>2 DEF LifeState, Bury
    <3>4. UNCHANGED <<LifeTries, LifeLimit, LifeKey>>
      BY <3>1, <3>2 DEF OnlyJob, LifeTries, LifeLimit, LifeKey
    <3>5. LifeTries[j] = LifeLimit[j]
      BY <2>1, <2>4 DEF Bury, LifeTries, LifeLimit, AttemptsWithinLimit, Job
    <3>6. Lifecycle!Bury(j)
      BY <2>2, <3>1, <3>3, <3>4, <3>5, LifeOfOthers
         DEF Lifecycle!Bury, Lifecycle!Become
    <3> QED
      BY <3>6 DEF Lifecycle!Next
  <2>5. ASSUME NEW d \in RetryDelays, Retry(j, d) PROVE Lifecycle!Next
    <3>1. /\ OnlyJob(j)
          /\ job'[j] = [job[j] EXCEPT !.status = "delayed", !.dueIn = lag + d]
      BY <2>5 DEF Retry, OnlyJob, TypeOK
    <3>2. /\ job'[j].attempts = job[j].attempts
          /\ job'[j].limit = job[j].limit /\ job'[j].key = job[j].key
      BY <2>1, <3>1 DEF Job
    <3>3. LifeState'[j] = "pending"
      BY <2>1, <3>1 DEF LifeState, Job
    <3>4. UNCHANGED <<LifeTries, LifeLimit, LifeKey>>
      BY <3>1, <3>2 DEF OnlyJob, LifeTries, LifeLimit, LifeKey
    <3>5. LifeTries[j] < LifeLimit[j]
      BY <2>5 DEF Retry, LifeTries, LifeLimit
    <3>6. Lifecycle!Retry(j)
      BY <2>2, <3>1, <3>3, <3>4, <3>5, LifeOfOthers
         DEF Lifecycle!Retry, Lifecycle!Become
    <3> QED
      BY <3>6 DEF Lifecycle!Next
  <2> QED
    BY <1>11, <2>3, <2>4, <2>5 DEF Settle
<1>12. CASE Release
  BY <1>12, <1>c DEF Release
<1>13. ASSUME NEW c \in Closers, FinishClose(c) PROVE UNCHANGED Lifecycle!vars
  BY <1>13, <1>c DEF FinishClose
<1>14. ASSUME NEW j \in Jobs, Evict(j) PROVE UNCHANGED Lifecycle!vars
  BY <1>14, <1>c DEF Evict
<1>15. CASE Elapse
  <2>1. ASSUME NEW j \in Jobs
        PROVE  /\ job'[j].attempts = job[j].attempts
               /\ job'[j].limit = job[j].limit /\ job'[j].key = job[j].key
               /\ job'[j].status = job[j].status
    <3>1. job[j] \in Job
      BY DEF TypeOK
    <3> QED
      BY <1>15, <3>1 DEF Elapse, Job
  <2> QED
    BY <2>1, LifeUnchanged
<1>16. CASE UNCHANGED vars
  BY <1>16, <1>c DEF vars
<1>17. CASE AnnounceDrained
  BY <1>17, <1>c DEF AnnounceDrained
<1>18. CASE PushBack
  BY <1>18, <1>c DEF PushBack
<1>19. ASSUME NEW c \in Callers, EndDrain(c) PROVE UNCHANGED Lifecycle!vars
  BY <1>19, <1>c DEF EndDrain
<1> QED
  BY <1>1, <1>2, <1>3, <1>4, <1>5, <1>6, <1>7, <1>8, <1>9, <1>10, <1>11, <1>12,
     <1>13, <1>14, <1>15, <1>16, <1>17, <1>18, <1>19 DEF Next, UserStep, QueueStep

\* The queue, with its timers, ticks, callbacks and containers, implements the
\* life of a job that JobLifecycle promises.
THEOREM Refinement == Spec => ImplementsLifecycle
  BY InitRefines, NextRefines, Invariance, PTL
     DEF Spec, ImplementsLifecycle, Lifecycle!Spec

\* Workers, attempts and the shape of the state stay within the limits of the options.
THEOREM LimitsHold == Spec => []LimitsKept
  BY TypeCorrect, Concurrent, Attempted, PTL DEF LimitsKept

\* Every job is in the container its status calls for, up to the listeners of 'failed',
\* and the index of keys finds it as long as it is alive.
THEOREM PlacesHold == Spec => []PlacedOnce
  BY Placed, Deduped, PTL DEF PlacedOnce

\* Who waits in drain() or close() is let go when nothing is pending and nothing runs, and
\* nothing runs in a closed queue.
THEOREM ShutdownHolds == Spec => ShutdownSettles
  BY Drained, ClosedQuietly, PTL DEF ShutdownSettles
=============================================================================
