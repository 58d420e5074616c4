------------------------------ MODULE JobQueue ------------------------------
(***************************************************************************)
(* packages/core/queue/src/queue.ts: the in-memory JobQueue, run by one    *)
(* JavaScript event loop.                                                  *)
(*                                                                         *)
(* The call stack is state where it matters.  A tick of the queue is not   *)
(* one step: every job it dispatches runs the synchronous part of the      *)
(* worker and the 'active' listeners, and every settled attempt runs the   *)
(* 'completed', 'failed', 'retrying' and 'dead' listeners, all of which    *)
(* may call the queue again.  So do the 'drained' listeners, before those  *)
(* who wait in drain() go on.  `ticking`, `calling`, `settling`, `failing` *)
(* and `announcing` say where the stack is; CanCall says when user code    *)
(* has control.                                                            *)
(*                                                                         *)
(* Time is relative, and passes between any two steps: a job's runAt is    *)
(* kept as dueIn, the time from now until it, and an armed timer as the    *)
(* time left until it is due.  tick() reads the clock once, before it      *)
(* calls anybody, and goes on with that `now`; whoever it calls reads the  *)
(* clock anew.  So while a tick is on the stack dueIn counts from its      *)
(* `now`, and `lag` is the time that has passed since.                     *)
(*                                                                         *)
(* The clock never runs backwards.  Caller-supplied ids are fresh, so a    *)
(* job stands for its id.                                                  *)
(***************************************************************************)
EXTENDS Integers, FiniteSets

CONSTANTS
  Jobs,          \* the jobs that can be created (bounds the model)
  NoJob,
  Keys, NoKey,   \* dedupe keys
  Priorities,    \* values of options.priority
  Delays,        \* values of options.delayMs
  AttemptLimits, \* values of maxAttempts
  RetryDelays,   \* values computeBackoffDelay may return
  Concurrency,   \* options.concurrency
  DeadLetterTtl, \* options.deadLetterTtlMs, 0 for ever
  TickTime,      \* the longest a tick takes, callbacks included (bounds the model)
  Drainers,      \* callers of drain(), one call each
  Closers        \* callers of close(), one call each

ASSUME JobsAssumption == IsFiniteSet(Jobs) /\ NoJob \notin Jobs
ASSUME KeysAssumption == NoKey \notin Keys
ASSUME PrioritiesAssumption == Priorities \subseteq Int
ASSUME DelaysAssumption == Delays \subseteq Nat /\ RetryDelays \subseteq Nat /\ TickTime \in Nat
ASSUME LimitsAssumption == AttemptLimits \subseteq Nat \ {0}
ASSUME ConcurrencyAssumption == Concurrency \in Nat \ {0}
ASSUME TtlAssumption == DeadLetterTtl \in Nat
ASSUME CallersAssumption == Drainers \cap Closers = {}

VARIABLES
  job,            \* job[j]: the Job record
  pending,        \* this.pending
  active,         \* this.active
  deadLetter,     \* this.deadLetter
  evictIn,        \* evictIn[j]: time left on j's eviction timer, or NoTimer
  dedupeIndex,    \* this.dedupeIndex
  completedCount, \* this.completedCount
  lastCreated,    \* the createdAt of the newest job
  worker,         \* has process() registered a worker?
  timer,          \* time left on this.timer, or NoTimer
  closed,         \* this.closed
  draining,       \* this.draining
  call,           \* call[c]: how far the drain() or close() of c has come
  ticking,        \* is tick() on the stack?
  lag,            \* the time since the tick on the stack read its `now`
  calling,        \* the job whose worker is in its synchronous part, or NoJob
  settling,       \* the job whose outcome the listeners are being told, or NoJob
  failing,        \* are they told 'failed', and the job is not pending again yet?
  announcing      \* does the tick on the stack tell the listeners 'drained'?

jobVars   == <<job, pending, active, dedupeIndex, completedCount, lastCreated>>
deadVars  == <<deadLetter, evictIn>>
lifeVars  == <<worker, closed, draining, call>>
stackVars == <<ticking, lag, calling, settling, failing, announcing>>
vars      == <<jobVars, deadVars, lifeVars, stackVars, timer>>

Callers == Drainers \cup Closers
NoTimer == -1

Status == {"new", "waiting", "delayed", "active", "completed", "dead", "cancelled"}
Job == [status : Status, key : Keys \cup {NoKey}, priority : Int, limit : Nat,
        attempts : Nat, dueIn : Nat, createdAt : Nat]
NotCreated == [status |-> "new", key |-> NoKey, priority |-> 0, limit |-> 0,
               attempts |-> 0, dueIn |-> 0, createdAt |-> 0]

-----------------------------------------------------------------------------
(* Where the event loop is *)

\* Whose drain() found the queue idle and tells the listeners 'drained'.
Telling == {c \in Callers : call[c] = "telling"}

Callback == calling # NoJob \/ settling # NoJob \/ announcing

\* User code has control: in a callback, or between the queue's own turns.
CanCall == ticking => Callback

\* The loop is between two turns of the queue: promises may be settled.
Unwound == ~ticking /\ settling = NoJob /\ Telling = {}

\* No continuation of a close() is queued: timers may fire.
LoopIdle == Unwound /\ \A c \in Closers : call[c] # "resuming"

(* Helpers of the queue *)

\* Mutant: idleness forgets the running jobs.
IsIdle_PendingOnly == pending = {}

IsIdle == active = {} /\ pending = {}

SlotFree == Cardinality(active) < Concurrency

\* schedule(delay): replaces whatever timer is armed.
Schedule(delay) == timer' = IF closed \/ ~worker THEN timer ELSE delay

ReleaseDedupe(j) ==
  dedupeIndex' = [k \in Keys |-> IF k = job[j].key /\ dedupeIndex[k] = j
                                   THEN NoJob ELSE dedupeIndex[k]]

\* Mutant: findLiveJob looks only at the pending jobs.
Duplicate_PendingOnly(k) == k # NoKey /\ dedupeIndex[k] \in pending

\* A live job holds the key: enqueue returns it and creates nothing.
Duplicate(k) == k # NoKey /\ dedupeIndex[k] \in active \cup pending

-----------------------------------------------------------------------------
(* The public operations *)

Process ==
  /\ CanCall /\ ~worker /\ ~closed
  /\ worker' = TRUE
  /\ timer' = 0
  /\ UNCHANGED <<jobVars, deadVars, stackVars, closed, draining, call>>

\* The part of enqueue after its guards: a new job enters the queue.
Insert(j, k, p, delay, l) ==
  /\ job[j].status = "new"
  /\ \E now \in {lastCreated, lastCreated + 1} :
       /\ job' = [job EXCEPT ![j] =
                    [status |-> IF delay > 0 THEN "delayed" ELSE "waiting",
                     key |-> k, priority |-> p, limit |-> l, attempts |-> 0,
                     dueIn |-> lag + delay, createdAt |-> now]]
       /\ lastCreated' = now
  /\ pending' = pending \cup {j}
  /\ dedupeIndex' = [i \in Keys |-> IF i = k THEN j ELSE dedupeIndex[i]]
  /\ Schedule(0)
  /\ UNCHANGED <<active, completedCount>>

Enqueue(j, k, p, delay, l) ==
  /\ CanCall /\ ~closed /\ ~draining
  /\ ~Duplicate(k)
  /\ Insert(j, k, p, delay, l)
  /\ UNCHANGED <<deadVars, lifeVars, stackVars>>

Cancel(j) ==
  /\ CanCall
  /\ j \in pending
  /\ pending' = pending \ {j}
  /\ job' = [job EXCEPT ![j].status = "cancelled"]
  /\ ReleaseDedupe(j)
  /\ UNCHANGED <<active, completedCount, lastCreated, deadVars, lifeVars,
                 stackVars, timer>>

\* The dead letter is deleted before enqueue is called, and enqueue may throw.
RetryDead(i) ==
  /\ CanCall
  /\ i \in deadLetter
  /\ deadLetter' = deadLetter \ {i}
  /\ \/ /\ ~closed /\ ~draining
        /\ \E j \in Jobs : Insert(j, NoKey, job[i].priority, 0, job[i].limit)
     \/ /\ closed \/ draining
        /\ UNCHANGED <<jobVars, timer>>
  /\ UNCHANGED <<evictIn, lifeVars, stackVars>>

\* drain(): an idle queue tells the listeners of 'drained' at once.
BeginDrain(c) ==
  /\ Schedule(0)
  /\ draining' = ~IsIdle
  /\ call' = [call EXCEPT ![c] = IF IsIdle THEN "telling" ELSE "waiting"]

\* What the caller does once the promise of drain() is resolved.
Resolved(c) == IF c \in Closers THEN "resuming" ELSE "returned"

Drain(c) ==
  /\ CanCall /\ call[c] = "none"
  /\ BeginDrain(c)
  /\ UNCHANGED <<jobVars, deadVars, stackVars, worker, closed>>

Close(c) ==
  /\ CanCall /\ call[c] = "none"
  /\ \/ /\ closed
        /\ call' = [call EXCEPT ![c] = "returned"]
        /\ UNCHANGED <<draining, timer>>
     \/ /\ ~closed
        /\ BeginDrain(c)
  /\ UNCHANGED <<jobVars, deadVars, stackVars, worker, closed>>

\* The listeners return, and with them the drain() that told them.
EndDrain(c) ==
  /\ call[c] = "telling"
  /\ call' = [call EXCEPT ![c] = Resolved(c)]
  /\ UNCHANGED <<jobVars, deadVars, stackVars, timer, worker, closed, draining>>

\* The continuation of close() after `await this.drain()`.
FinishClose(c) ==
  /\ Unwound /\ call[c] = "resuming"
  /\ closed' = TRUE
  /\ timer' = NoTimer
  /\ call' = [call EXCEPT ![c] = "returned"]
  /\ UNCHANGED <<jobVars, deadVars, stackVars, worker, draining>>

-----------------------------------------------------------------------------
(* tick() *)

\* Mutant: delayed jobs are not promoted.
BeginTick_NoPromotion ==
  /\ LoopIdle /\ timer = 0 /\ worker /\ ~closed
  /\ timer' = NoTimer
  /\ ticking' = TRUE
  /\ UNCHANGED <<jobVars, deadVars, lifeVars, lag, calling, settling, failing, announcing>>

\* The timer fires and the jobs whose time has come are promoted.
BeginTick ==
  /\ LoopIdle /\ timer = 0 /\ worker /\ ~closed
  /\ timer' = NoTimer
  /\ ticking' = TRUE
  /\ job' = [j \in Jobs |->
               IF j \in pending /\ job[j].status = "delayed" /\ job[j].dueIn = 0
                 THEN [job[j] EXCEPT !.status = "waiting"] ELSE job[j]]
  /\ UNCHANGED <<pending, active, dedupeIndex, completedCount, lastCreated,
                 deadVars, lifeVars, lag, calling, settling, failing, announcing>>

\* runAt is compared with the `now` of the tick.
Ready == {j \in pending : job[j].status = "waiting" /\ job[j].dueIn = 0}

Before(i, j) ==
  \/ job[i].priority > job[j].priority
  \/ job[i].priority = job[j].priority /\ job[i].createdAt < job[j].createdAt

\* takeNextReady and the synchronous part of run.  Jobs created in the same
\* millisecond are taken in any order.
Dispatch(j) ==
  /\ ticking /\ ~Callback /\ SlotFree
  /\ j \in Ready /\ ~\E i \in Ready : Before(i, j)
  /\ pending' = pending \ {j}
  /\ active' = active \cup {j}
  /\ job' = [job EXCEPT ![j].status = "active", ![j].attempts = @ + 1]
  /\ calling' = j
  /\ UNCHANGED <<dedupeIndex, completedCount, lastCreated, deadVars, lifeVars,
                 ticking, lag, settling, failing, announcing, timer>>

\* The worker returns a promise: control goes back to the loop of tick().
Await ==
  /\ calling # NoJob /\ settling = NoJob
  /\ calling' = NoJob
  /\ UNCHANGED <<jobVars, deadVars, lifeVars, ticking, lag, settling, failing,
                 announcing, timer>>

\* The loop of tick() is done: no slot is free, or no job is ready.
Dispatched == ticking /\ ~Callback /\ (~SlotFree \/ Ready = {})

\* Mutant: the waiters are resolved although jobs are running.
AnnounceDrained_Early ==
  /\ Dispatched /\ draining /\ pending = {}
  /\ draining' = FALSE
  /\ announcing' = TRUE
  /\ call' = [c \in Callers |-> IF call[c] = "waiting" THEN "announced" ELSE call[c]]
  /\ UNCHANGED <<jobVars, deadVars, worker, closed, ticking, lag, calling,
                 settling, failing, timer>>

\* maybeResolveDrain, up to the listeners of 'drained': the waiters are taken out.
AnnounceDrained ==
  /\ Dispatched /\ draining /\ IsIdle
  /\ draining' = FALSE
  /\ announcing' = TRUE
  /\ call' = [c \in Callers |-> IF call[c] = "waiting" THEN "announced" ELSE call[c]]
  /\ UNCHANGED <<jobVars, deadVars, worker, closed, ticking, lag, calling,
                 settling, failing, timer>>

Delayed == {j \in pending : job[j].status = "delayed"}

\* Mutant: tick() does not arm a timer for the delayed jobs.
ArmNextDelayTimer_Never == UNCHANGED timer

\* Unless a callback has armed the timer, it is set for the soonest delayed job:
\* counted from the `now` of the tick, which is over by `lag`.
ArmNextDelayTimer ==
  \/ /\ timer # NoTimer \/ Delayed = {}
     /\ UNCHANGED timer
  \/ /\ timer = NoTimer
     /\ \E j \in Delayed : /\ \A i \in Delayed : job[j].dueIn <= job[i].dueIn
                           /\ timer' = job[j].dueIn

\* How long it is until then, after `passed` has passed.
Left(dueIn, passed) == IF dueIn > passed THEN dueIn - passed ELSE 0

\* The waiters taken out are resolved, the timer is armed, and tick() returns:
\* from here on dueIn counts from the present again.
EndTick ==
  /\ ticking /\ Telling = {}
  /\ announcing \/ (Dispatched /\ ~(draining /\ IsIdle))
  /\ ArmNextDelayTimer
  /\ job' = [j \in Jobs |-> [job[j] EXCEPT !.dueIn = Left(@, lag)]]
  /\ call' = [c \in Callers |-> IF call[c] = "announced" THEN Resolved(c) ELSE call[c]]
  /\ ticking' = FALSE /\ announcing' = FALSE /\ lag' = 0
  /\ UNCHANGED <<pending, active, dedupeIndex, completedCount, lastCreated, deadVars,
                 worker, closed, draining, calling, settling, failing>>

-----------------------------------------------------------------------------
(* The end of an attempt: onSuccess, onFailure, then the finally of run() *)

Succeed(j) ==
  /\ Unwound /\ j \in active
  /\ job' = [job EXCEPT ![j].status = "completed"]
  /\ completedCount' = completedCount + 1
  /\ ReleaseDedupe(j)
  /\ settling' = j
  /\ UNCHANGED <<pending, active, lastCreated, deadVars, lifeVars, ticking, lag,
                 calling, failing, announcing, timer>>

\* An attempt fails when its promise rejects, or while the worker is called.
Fails(j) ==
  /\ j \in active
  /\ Unwound \/ (calling = j /\ settling = NoJob)
  /\ settling' = j
  /\ calling' = NoJob
  /\ UNCHANGED <<pending, active, completedCount, lastCreated, lifeVars, ticking,
                 lag, announcing, timer>>

Bury(j) ==
  /\ Fails(j)
  /\ job[j].attempts >= job[j].limit
  /\ job' = [job EXCEPT ![j].status = "dead"]
  /\ ReleaseDedupe(j)
  /\ deadLetter' = deadLetter \cup {j}
  /\ evictIn' = [evictIn EXCEPT ![j] = IF DeadLetterTtl > 0 THEN DeadLetterTtl
                                                            ELSE NoTimer]
  /\ UNCHANGED failing

\* Mutant: every failure releases the dedupe key, not only the last.
Retry_ReleasesKey(j, delay) ==
  /\ Fails(j)
  /\ job[j].attempts < job[j].limit
  /\ job' = [job EXCEPT ![j].status = "delayed", ![j].dueIn = lag + delay]
  /\ failing' = TRUE
  /\ ReleaseDedupe(j)
  /\ UNCHANGED deadVars

\* Mutant: one attempt too many.
Retry_OnceMore(j, delay) ==
  /\ Fails(j)
  /\ job[j].attempts <= job[j].limit
  /\ job' = [job EXCEPT ![j].status = "delayed", ![j].dueIn = lag + delay]
  /\ failing' = TRUE
  /\ UNCHANGED <<dedupeIndex, deadVars>>

\* onFailure with attempts left, up to the listeners of 'failed': the job is in
\* `active` still and not in `pending` yet.
Retry(j, delay) ==
  /\ Fails(j)
  /\ job[j].attempts < job[j].limit
  /\ job' = [job EXCEPT ![j].status = "delayed", ![j].dueIn = lag + delay]
  /\ failing' = TRUE
  /\ UNCHANGED <<dedupeIndex, deadVars>>

\* The listeners of 'failed' return; the job is pending when those of 'retrying' run.
PushBack ==
  /\ failing
  /\ failing' = FALSE
  /\ pending' = pending \cup {settling}
  /\ UNCHANGED <<job, active, dedupeIndex, completedCount, lastCreated, deadVars,
                 lifeVars, ticking, lag, calling, settling, announcing, timer>>

\* Mutant: the freed slot wakes nobody.
Release_NoSchedule ==
  /\ settling # NoJob /\ ~failing
  /\ active' = active \ {settling}
  /\ settling' = NoJob
  /\ UNCHANGED <<job, pending, dedupeIndex, completedCount, lastCreated,
                 deadVars, lifeVars, ticking, lag, calling, failing, announcing, timer>>

Release ==
  /\ settling # NoJob /\ ~failing
  /\ active' = active \ {settling}
  /\ settling' = NoJob
  /\ Schedule(0)
  /\ UNCHANGED <<job, pending, dedupeIndex, completedCount, lastCreated,
                 deadVars, lifeVars, ticking, lag, calling, failing, announcing>>

-----------------------------------------------------------------------------
(* Timers and time *)

Evict(j) ==
  /\ LoopIdle /\ evictIn[j] = 0
  /\ evictIn' = [evictIn EXCEPT ![j] = NoTimer]
  /\ deadLetter' = deadLetter \ {j}
  /\ UNCHANGED <<jobVars, lifeVars, stackVars, timer>>

Countdown(t) == IF t > 0 THEN t - 1 ELSE t

\* A millisecond passes, on whatever code is running.  A timer that is due may
\* still fire later.
Elapse ==
  /\ timer' = Countdown(timer)
  /\ evictIn' = [j \in Jobs |-> Countdown(evictIn[j])]
  /\ \/ /\ ticking /\ lag < TickTime
        /\ lag' = lag + 1
        /\ UNCHANGED job
     \/ /\ ~ticking
        /\ timer > 0 \/ \E j \in Jobs : evictIn[j] > 0 \/ job[j].dueIn > 0
        /\ job' = [j \in Jobs |-> [job[j] EXCEPT !.dueIn = Countdown(@)]]
        /\ UNCHANGED lag
  /\ UNCHANGED <<pending, active, dedupeIndex, completedCount, lastCreated, deadLetter,
                 lifeVars, ticking, calling, settling, failing, announcing>>

-----------------------------------------------------------------------------
Init ==
  /\ job = [j \in Jobs |-> NotCreated]
  /\ pending = {} /\ active = {} /\ deadLetter = {}
  /\ evictIn = [j \in Jobs |-> NoTimer]
  /\ dedupeIndex = [k \in Keys |-> NoJob]
  /\ completedCount = 0 /\ lastCreated = 0
  /\ worker = FALSE /\ timer = NoTimer /\ closed = FALSE /\ draining = FALSE
  /\ call = [c \in Callers |-> "none"]
  /\ ticking = FALSE /\ lag = 0 /\ calling = NoJob /\ settling = NoJob
  /\ failing = FALSE /\ announcing = FALSE

UserStep ==
  \/ Process
  \/ \E j \in Jobs, k \in Keys \cup {NoKey}, p \in Priorities, d \in Delays,
        l \in AttemptLimits : Enqueue(j, k, p, d, l)
  \/ \E j \in Jobs : Cancel(j)
  \/ \E j \in Jobs : RetryDead(j)
  \/ \E c \in Drainers : Drain(c)
  \/ \E c \in Closers : Close(c)

Settle(j) == Succeed(j) \/ Bury(j) \/ \E d \in RetryDelays : Retry(j, d)

QueueStep ==
  \/ BeginTick
  \/ \E j \in Jobs : Dispatch(j)
  \/ Await
  \/ AnnounceDrained
  \/ EndTick
  \/ \E j \in Jobs : Settle(j)
  \/ PushBack
  \/ Release
  \/ \E c \in Callers : EndDrain(c)
  \/ \E c \in Closers : FinishClose(c)
  \/ \E j \in Jobs : Evict(j)
  \/ Elapse

Next == UserStep \/ QueueStep

\* The event loop runs what is on its stack, its due timers and its queued
\* continuations; time passes; every promise the worker returns settles.
Fairness ==
  /\ WF_vars(BeginTick) /\ WF_vars(\E j \in Jobs : Dispatch(j))
  /\ WF_vars(Await) /\ WF_vars(AnnounceDrained) /\ WF_vars(EndTick)
  /\ WF_vars(PushBack) /\ WF_vars(Release)
  /\ WF_vars(\E c \in Callers : EndDrain(c)) /\ WF_vars(\E c \in Closers : FinishClose(c))
  /\ WF_vars(Elapse)
  /\ \A j \in Jobs : WF_vars(Settle(j))

Spec == Init /\ [][Next]_vars
FairSpec == Spec /\ Fairness

-----------------------------------------------------------------------------
(* Properties *)

Terminal == {"completed", "dead", "cancelled"}
LiveJob(j) == job[j].status \in {"waiting", "delayed", "active"}

\* Every variable has the shape the code gives it.
TypeOK ==
  /\ job \in [Jobs -> Job]
  /\ pending \subseteq Jobs /\ active \subseteq Jobs /\ deadLetter \subseteq Jobs
  /\ evictIn \in [Jobs -> Nat \cup {NoTimer}]
  /\ dedupeIndex \in [Keys -> Jobs \cup {NoJob}]
  /\ completedCount \in Nat /\ lastCreated \in Nat
  /\ worker \in BOOLEAN /\ timer \in Nat \cup {NoTimer}
  /\ closed \in BOOLEAN /\ draining \in BOOLEAN
  /\ call \in [Callers -> {"none", "waiting", "announced", "telling", "resuming", "returned"}]
  /\ ticking \in BOOLEAN /\ lag \in 0..TickTime /\ (~ticking => lag = 0)
  /\ calling \in Jobs \cup {NoJob} /\ settling \in Jobs \cup {NoJob}
  /\ failing \in BOOLEAN /\ announcing \in BOOLEAN

\* However ticks, callbacks and settled promises interleave, no more workers are
\* outstanding than the concurrency option allows.
ConcurrencyBound == Cardinality(active) <= Concurrency

\* The status of a job and the container that holds it agree, up to the call in
\* which one has changed and the other has not: a job is in `pending` exactly while
\* it is waiting or delayed, but for the listeners of 'failed', who see it delayed
\* and still in `active`; its status is active exactly while an unsettled attempt of
\* it is in `active`; only a dead job is a dead letter.  So a live job is always in a
\* container, and findLiveJob finds it.
OnePlace ==
  /\ \A j \in Jobs : j \in pending <=> job[j].status \in {"waiting", "delayed"} /\ ~(failing /\ j = settling)
  /\ \A j \in Jobs : job[j].status = "active" <=> j \in active /\ j # settling
  /\ \A j \in deadLetter : job[j].status = "dead"
  /\ settling # NoJob => settling \in active
  /\ calling # NoJob => ticking /\ settling = NoJob /\ calling \in active
  /\ failing => settling # NoJob /\ job[settling].status = "delayed"
  /\ \A j \in Jobs : LiveJob(j) => j \in pending \cup active

\* Two live jobs never share a dedupe key, through any sequence of retries,
\* cancellations, deaths and re-enqueues: the index names every live holder.
DedupeExclusive ==
  \A j \in Jobs : LiveJob(j) /\ job[j].key # NoKey => dedupeIndex[job[j].key] = j

\* A job dies only when the worker was invoked maxAttempts times for it, and is
\* never given one attempt more or fewer, whatever cancels or delays it between.
AttemptsWithinLimit ==
  \A j \in Jobs :
    /\ job[j].attempts <= job[j].limit
    /\ job[j].status \in {"waiting", "delayed"} => job[j].attempts < job[j].limit
    /\ job[j].status = "dead" => job[j].attempts = job[j].limit

\* No wake-up is lost: whenever the loop is back and a job could be given a free
\* slot, a timer is armed.  It is due at once for a waiting job; for a delayed one it
\* is late by no more than a tick takes, since tick() arms it for a time it counts
\* from its beginning.  Every path out of every operation, the ones inside callbacks
\* included, keeps this.
WakesOnTime ==
  worker /\ ~closed /\ ~ticking /\ settling = NoJob /\ SlotFree =>
    \A j \in pending :
      /\ timer # NoTimer
      /\ timer <= job[j].dueIn + TickTime
      /\ job[j].status = "waiting" => timer = 0

\* Who waits in drain() or close() is let go when nothing is pending and nothing
\* runs; the listeners of 'drained' come first and may enqueue, so when the waiter
\* does go on still nothing runs, and what is pending has not been tried.
DrainSettlesAll ==
  [][\A c \in Callers : call'[c] # call[c] /\ ~closed =>
       /\ call'[c] \in {"announced", "telling"} => pending' = {} /\ active' = {}
       /\ call'[c] \in {"resuming", "returned"} /\ call[c] # "resuming" =>
            /\ call[c] \in {"announced", "telling"} /\ active' = {}
            /\ \A j \in pending' : job'[j].attempts = 0]_vars

\* A job that is due when a tick begins, promoted or not, is never overtaken in it by
\* one of lower priority, or by a younger one of the same priority.  The one exception
\* is a job that was retried without delay while the tick goes on: it is delayed until
\* the next tick promotes it.  What becomes due after the tick has read its `now` has
\* to wait for the next one, where this holds of it.
NoOvertaking ==
  [][\A j \in Jobs : j \in active' \ active =>
       \A i \in pending : job[i].dueIn = 0 /\ Before(i, j)
                            => job[i].status = "delayed" /\ job[i].attempts > 0]_vars

\* While a worker is registered every job that enters the queue reaches a
\* terminal status: retries, delays, full slots and drains never strand it.
EveryJobSettles ==
  \A j \in Jobs : LiveJob(j) /\ worker ~> job[j].status \in Terminal

\* A drain() on a queue with a worker returns: "Wait until every pending and
\* active job has reached a terminal state".
DrainReturns ==
  \A c \in Callers : call[c] = "waiting" /\ worker ~> call[c] # "waiting"

\* "Gracefully drain then stop the queue": nothing is left in a closed queue.
CloseLeavesNothing == closed => pending = {} /\ active = {}

\* close() waits for the running workers: none is outstanding when it is done.
CloseWaitsForWorkers == closed => active = {}

\* "Re-enqueue a dead-lettered job": a dead letter that leaves other than by its
\* eviction timer leaves a new job behind.
RetryDeadKeepsJob ==
  [][\A j \in deadLetter \ deadLetter' :
       evictIn[j] = 0 \/ \E i \in Jobs : i \in pending' \ pending]_vars

\* Nothing of the queue exceeds its limits: workers, attempts, counters and timers.
LimitsKept == TypeOK /\ ConcurrencyBound /\ AttemptsWithinLimit

\* A job is where its status and the index of keys say, and nowhere else: what leaves
\* `pending` or `active` by a failure, a retry, a cancellation or a listener's call is
\* found again by its key as long as it is alive.
PlacedOnce == OnePlace /\ DedupeExclusive

\* A shutdown takes nothing away from anybody: who waits in drain() or close() goes on only
\* when all is settled, and no worker is left behind in the closed queue.
ShutdownSettles == []CloseWaitsForWorkers /\ DrainSettlesAll

\* The status of a job as its caller sees it: waiting and delayed are both pending.
LifeState ==
  [j \in Jobs |-> IF job[j].status \in {"waiting", "delayed"} THEN "pending"
                  ELSE IF job[j].status = "active" THEN "running"
                  ELSE job[j].status]
LifeTries == [j \in Jobs |-> job[j].attempts]
LifeLimit == [j \in Jobs |-> job[j].limit]
LifeKey   == [j \in Jobs |-> job[j].key]

\* The queue implements the life of a job its callers rely on.
Lifecycle ==
  INSTANCE JobLifecycle WITH
    state <- LifeState, tries <- LifeTries, limit <- LifeLimit, key <- LifeKey

\* Every step of the queue is a step of some job's life or leaves them all alone:
\* no job starts while the worker is full or its attempts are used up, a running
\* job is never cancelled, no finished job moves again, and a job whose dedupe key
\* is held by a live job is not accepted.
ImplementsLifecycle == Lifecycle!Spec
=============================================================================
