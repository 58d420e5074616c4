--------------------------- MODULE GenerationJobs --------------------------
(***************************************************************************)
(* packages/music/generator/src/music-generator.ts: jobs that are          *)
(* processed in the background and may be cancelled meanwhile.             *)
(*                                                                         *)
(* processGeneration() runs up to its first timer within generate(), so    *)
(* nobody sees a job "queued"; after its fourth timer it runs to the end.  *)
(* What a track sounds like is left out.                                   *)
(***************************************************************************)
EXTENDS Integers

CONSTANT GenIds    \* the ids of the jobs

VARIABLE gen       \* gen[j]: the job, alive in the hands of its callers

NoGenJob == [status |-> "none", progress |-> 0, result |-> FALSE, error |-> FALSE]

GenInit == gen = [j \in GenIds |-> NoGenJob]

Generate(j) ==
  /\ gen[j] = NoGenJob
  /\ gen' = [gen EXCEPT ![j].status = "processing"]

\* Mutant: the loop waits for a job that is still being processed.
Progress_UntilCancelled(j) ==
  /\ gen[j].status = "processing"
  /\ gen' = [gen EXCEPT ![j].progress = @ + 25,
                        ![j].status = IF gen[j].progress = 75 THEN "completed" ELSE @,
                        ![j].result = gen[j].progress = 75]

\* One of the four timers goes off; what became of the job meanwhile is not looked at.
Progress(j) ==
  /\ gen[j].status # "none" /\ gen[j].progress < 100
  /\ gen' = [gen EXCEPT ![j].progress = @ + 25,
                        ![j].status = IF gen[j].progress = 75 THEN "completed" ELSE @,
                        ![j].result = gen[j].progress = 75]

\* cancelJob() has no effect on a job that is completed or failed.
CancelJob(j) ==
  /\ gen[j].status = "processing"
  /\ gen' = [gen EXCEPT ![j].status = "failed", ![j].error = TRUE]

GenNext == \E j \in GenIds : Generate(j) \/ Progress(j) \/ CancelJob(j)

\* The timers go off.
GenSpec == GenInit /\ [][GenNext]_gen /\ \A j \in GenIds : WF_gen(Progress(j))

-----------------------------------------------------------------------------
(* Properties *)

\* A job has a result exactly if it is completed, whatever was asked of it on the way; one that
\* failed was cancelled.
ResultIffCompleted ==
  \A j \in GenIds :
    /\ gen[j].result <=> gen[j].status = "completed"
    /\ gen[j].status = "completed" => gen[j].progress = 100
    /\ gen[j].status = "failed" => gen[j].error

\* A completed job changes no more.
CompletedIsFinal == [][\A j \in GenIds : gen[j].status = "completed" => gen'[j] = gen[j]]_gen

\* Cancelling lasts until the processing ends: it overwrites the status, so
\* that every job is completed in the end, the cancelled ones too.
EveryJobCompletes == \A j \in GenIds : gen[j].status \in {"processing", "failed"} ~> gen[j].status = "completed"
=============================================================================
