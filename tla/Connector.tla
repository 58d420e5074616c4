----------------------------- MODULE Connector -----------------------------
(***************************************************************************)
(* packages/enterprise/connectors/src: connector.ts (execute), concrete.ts *)
(* (the operations built on it) and registry.ts (runSync).                 *)
(*                                                                         *)
(* A request goes to another company's system, which may carry it out      *)
(* whatever this side has seen of it: before or after an abort, with an    *)
(* answer that is lost, or not at all.  URLs, headers and the fields of a  *)
(* payload are left out; a body is empty or it is not.                     *)
(***************************************************************************)
EXTENDS Integers, Sequences, FiniteSets

CONSTANTS
  Calls,          \* the calls of operations
  Operation,      \* Operation[c]: the operation the call c is of
  Capabilities,   \* config.capabilities
  PolicyAttempts, \* config.retry.maxAttempts
  SyncJobs,       \* the calls of runSync()
  Enabled,        \* the jobs that are enabled
  Cursors,        \* the values of a cursor
  NoCursor        \* undefined

ASSUME PolicyAssumption == PolicyAttempts \in Nat
ASSUME CursorAssumption == NoCursor \notin Cursors

(* The eight operations: the capability each requires. *)
Requires ==
  [getTrack |-> "catalog.read", getStreams |-> "streams.read",
   getRoyalties |-> "royalties.read", submitReport |-> "royalties.report",
   deliver |-> "releases.deliver", takedown |-> "releases.takedown",
   getContact |-> "contacts.read", upsertContact |-> "contacts.write"]

ASSUME OperationAssumption == Operation \in [Calls -> DOMAIN Requires]

(* Classes of status codes: 2xx, those in retryableStatuses, the others. *)
Statuses == {"ok", "retryable", "refused"}
NoStatus == "none"

VARIABLES
  stage,     \* stage[c]: where execute() is
  tries,     \* tries[c]: attempt
  status,    \* status[c]: lastStatus
  answer,    \* answer[c]: the status of the attempt that is being read, or why it failed
  wire,      \* wire[c]: the attempts the upstream may still carry out
  carried,   \* carried[c]: the attempts it has carried out
  ending,    \* ending[c]: what the caller of the operation gets
  registry,  \* connectors: is the connector registered?
  sync       \* sync[j]: the call of runSync() and its result

execution     == <<stage, tries, status, answer, wire, carried, ending>>
connectorVars == <<execution, registry, sync>>

Endings == {"none", "value", "CapabilityError", "TransportError", "TypeError", "SecretError"}

-----------------------------------------------------------------------------
(* execute() *)

Finish(c, how) ==
  /\ stage' = [stage EXCEPT ![c] = "over"]
  /\ ending' = [ending EXCEPT ![c] = how]

\* requireCapability(), then the secret is awaited.
Call(c) ==
  /\ stage[c] = "idle"
  /\ IF Requires[Operation[c]] \in Capabilities
       THEN stage' = [stage EXCEPT ![c] = "secret"] /\ UNCHANGED ending
       ELSE Finish(c, "CapabilityError")
  /\ UNCHANGED <<tries, status, answer, wire, carried, registry, sync>>

Fetch(c) ==
  /\ stage' = [stage EXCEPT ![c] = "fetching"]
  /\ tries' = [tries EXCEPT ![c] = @ + 1]
  /\ answer' = [answer EXCEPT ![c] = NoStatus]
  /\ wire' = [wire EXCEPT ![c] = @ \cup {tries[c] + 1}]

\* buildAuthHeaders() is done; a policy of no attempts fails without a request.
Authorize(c) ==
  /\ stage[c] = "secret"
  /\ IF PolicyAttempts > 0
       THEN Fetch(c) /\ UNCHANGED ending
       ELSE Finish(c, "TransportError") /\ UNCHANGED <<tries, answer, wire>>
  /\ UNCHANGED <<status, carried, registry, sync>>

NoSecret(c) ==
  /\ stage[c] = "secret"
  /\ Finish(c, "SecretError")
  /\ UNCHANGED <<tries, status, answer, wire, carried, registry, sync>>

\* The status arrives.  A success was carried out, a refusal never will be; a
\* retryable status says nothing, as a gateway may have lost the answer.
Answer(c, s) ==
  /\ stage[c] = "fetching"
  /\ s = "ok" => tries[c] \in carried[c]
  /\ s = "refused" => tries[c] \notin carried[c]
  /\ status' = [status EXCEPT ![c] = s]
  /\ answer' = [answer EXCEPT ![c] = s]
  /\ wire' = IF s = "refused" THEN [wire EXCEPT ![c] = @ \ {tries[c]}] ELSE wire
  /\ stage' = [stage EXCEPT ![c] = IF s = "retryable" THEN "failed" ELSE "reading"]
  /\ UNCHANGED <<tries, carried, ending, registry, sync>>

\* The connection breaks or the timer aborts the attempt, while the status or
\* the body is awaited; the body is read inside the same try.
BreakOff(c) ==
  /\ stage[c] \in {"fetching", "reading"}
  /\ answer' = [answer EXCEPT ![c] = "error"]
  /\ stage' = [stage EXCEPT ![c] = "failed"]
  /\ UNCHANGED <<tries, status, wire, carried, ending, registry, sync>>

\* Mutant: one attempt less than the policy has.
GoAgain_OneLess(c) ==
  /\ stage[c] = "failed"
  /\ IF tries[c] < PolicyAttempts - 1
       THEN stage' = [stage EXCEPT ![c] = "sleeping"] /\ UNCHANGED ending
       ELSE Finish(c, "TransportError")
  /\ UNCHANGED <<tries, status, answer, wire, carried, registry, sync>>

\* The end of the loop body: back off, or give up after the last attempt.
GoAgain(c) ==
  /\ stage[c] = "failed"
  /\ IF tries[c] < PolicyAttempts
       THEN stage' = [stage EXCEPT ![c] = "sleeping"] /\ UNCHANGED ending
       ELSE Finish(c, "TransportError")
  /\ UNCHANGED <<tries, status, answer, wire, carried, registry, sync>>

Wake(c) ==
  /\ stage[c] = "sleeping"
  /\ Fetch(c)
  /\ UNCHANGED <<status, carried, ending, registry, sync>>

\* normalize() and the mapping of the operation, which reads a property of the
\* data: an empty body is null and throws, whatever the upstream has done.
\* No operation looks at the status: a refusal is mapped like a success.
Normalize(c, empty) ==
  /\ stage[c] = "reading"
  /\ Finish(c, IF empty THEN "TypeError" ELSE "value")
  /\ UNCHANGED <<tries, status, answer, wire, carried, registry, sync>>

\* The upstream carries out a request that reached it, at any time.
CarryOut(c) ==
  \E k \in wire[c] :
    /\ carried' = [carried EXCEPT ![c] = @ \cup {k}]
    /\ wire' = [wire EXCEPT ![c] = @ \ {k}]
    /\ UNCHANGED <<stage, tries, status, answer, ending, registry, sync>>

-----------------------------------------------------------------------------
(* ConnectorRegistry *)

Register ==
  /\ ~registry
  /\ registry' = TRUE
  /\ UNCHANGED <<execution, sync>>

Unregister ==
  /\ registry
  /\ registry' = FALSE
  /\ UNCHANGED <<execution, sync>>

\* Bound: the number of records in a page.
PageSizes == 0..2

SyncResult(ran, records, error, cursor) ==
  [state |-> "over", ran |-> ran, records |-> records, error |-> error, cursor |-> cursor]

\* runSync() up to the await: a job that does not run reports no cursor.
StartSync(j, cursor) ==
  /\ sync[j].state = "idle"
  /\ sync' = [sync EXCEPT ![j] =
       IF j \in Enabled /\ registry
       THEN [@ EXCEPT !.state = "pulling", !.cursor = cursor]
       ELSE SyncResult(FALSE, 0, TRUE, NoCursor)]
  /\ UNCHANGED <<execution, registry>>

\* Mutant: the cursor moves although the page was not processed.
PullFails_Advances(j) ==
  /\ sync[j].state = "pulling"
  /\ \E next \in Cursors : sync' = [sync EXCEPT ![j] = SyncResult(TRUE, 0, TRUE, next)]
  /\ UNCHANGED <<execution, registry>>

PullFails(j) ==
  /\ sync[j].state = "pulling"
  /\ sync' = [sync EXCEPT ![j] = SyncResult(TRUE, 0, TRUE, @.cursor)]
  /\ UNCHANGED <<execution, registry>>

\* A page without a next cursor leaves the cursor where it was.
PullSucceeds(j, records, next) ==
  /\ sync[j].state = "pulling"
  /\ sync' = [sync EXCEPT ![j] =
       SyncResult(TRUE, records, FALSE, IF next = NoCursor THEN @.cursor ELSE next)]
  /\ UNCHANGED <<execution, registry>>

-----------------------------------------------------------------------------
ConnectorInit ==
  /\ stage = [c \in Calls |-> "idle"] /\ tries = [c \in Calls |-> 0]
  /\ status = [c \in Calls |-> NoStatus] /\ answer = [c \in Calls |-> NoStatus]
  /\ wire = [c \in Calls |-> {}] /\ carried = [c \in Calls |-> {}]
  /\ ending = [c \in Calls |-> "none"]
  /\ registry = FALSE
  /\ sync = [j \in SyncJobs |->
       [state |-> "idle", ran |-> FALSE, records |-> 0, error |-> FALSE, cursor |-> NoCursor]]

ConnectorStep(c) ==
  \/ Call(c) \/ Authorize(c) \/ NoSecret(c) \/ GoAgain(c) \/ Wake(c) \/ BreakOff(c)
  \/ \E s \in Statuses : Answer(c, s)
  \/ \E empty \in BOOLEAN : Normalize(c, empty)

SyncStep(j) ==
  \/ \E cursor \in Cursors \cup {NoCursor} : StartSync(j, cursor)
  \/ PullFails(j)
  \/ \E records \in PageSizes, next \in Cursors \cup {NoCursor} : PullSucceeds(j, records, next)

ConnectorNext ==
  \/ \E c \in Calls : ConnectorStep(c) \/ CarryOut(c)
  \/ \E j \in SyncJobs : SyncStep(j)
  \/ Register \/ Unregister

\* The event loop, the secret resolver and the timer of each attempt; the
\* upstream owes nothing, nor does the caller of runSync().
ConnectorFairness == \A c \in Calls : WF_connectorVars(ConnectorStep(c))

ConnectorSpec == ConnectorInit /\ [][ConnectorNext]_connectorVars /\ ConnectorFairness

-----------------------------------------------------------------------------
(* Properties *)

\* Every variable has the shape the code gives it.
ConnectorTypeOK ==
  /\ stage \in [Calls -> {"idle", "secret", "fetching", "reading", "failed", "sleeping", "over"}]
  /\ tries \in [Calls -> Nat]
  /\ status \in [Calls -> Statuses \cup {NoStatus}]
  /\ answer \in [Calls -> Statuses \cup {NoStatus, "error"}]
  /\ wire \in [Calls -> SUBSET (Nat \ {0})] /\ carried \in [Calls -> SUBSET (Nat \ {0})]
  /\ ending \in [Calls -> Endings]
  /\ registry \in BOOLEAN
  /\ sync \in [SyncJobs -> [state : {"idle", "pulling", "over"}, ran : BOOLEAN, records : Nat,
                            error : BOOLEAN, cursor : Cursors \cup {NoCursor}]]

\* The upstream carries a request out at most once for each attempt of the policy,
\* and at most once altogether for a call that got its answer at the first attempt.
EffectsBounded ==
  \A c \in Calls :
    /\ wire[c] \cup carried[c] \subseteq 1..tries[c] /\ wire[c] \cap carried[c] = {}
    /\ tries[c] <= PolicyAttempts

\* A call that returns a value or fails in the mapping has read the status of its last
\* attempt, and what that says is true of the upstream: a success was
\* carried out, a refusal was not and will not be.
AnswersAreTrue ==
  \A c \in Calls :
    ending[c] \in {"value", "TypeError"} =>
      /\ answer[c] = status[c] /\ status[c] \in {"ok", "refused"}
      /\ status[c] = "ok" => tries[c] \in carried[c]
      /\ status[c] = "refused" => tries[c] \notin wire[c] \cup carried[c]

\* A TransportError is thrown only after the last attempt allowed has failed, and no
\* request was sent if the capability or the secret is missing.
FailsAfterAllAttempts ==
  \A c \in Calls :
    /\ ending[c] = "TransportError" =>
         tries[c] = PolicyAttempts /\ answer[c] \in {"retryable", "error", NoStatus}
    /\ ending[c] \in {"CapabilityError", "SecretError"} => wire[c] = {} /\ carried[c] = {}

\* An attempt is made only after the one before it failed: after a retryable status,
\* or when no status was read to its end.
RetriesOnlyFailures ==
  [][\A c \in Calls : tries[c]' # tries[c] =>
       tries[c]' = tries[c] + 1 /\ (tries[c] > 0 => answer[c] \in {"retryable", "error"})]_connectorVars

\* A synchronization that fails keeps the cursor and counts no record, so that the
\* next one pulls the same page.
FailedSyncKeepsCursor ==
  [][\A j \in SyncJobs : sync[j].state = "pulling" /\ sync'[j].state = "over" /\ sync'[j].error =>
       sync'[j].cursor = sync[j].cursor /\ sync'[j].records = 0]_connectorVars

\* Every call that has begun ends, although the upstream may never answer.
EveryCallEnds == \A c \in Calls : stage[c] = "secret" ~> stage[c] = "over"

\* What a caller learns of its call is what became of it upstream, through aborted attempts
\* whose requests arrive late, retries, and answers whose body cannot be read.
AnswersAgree == ConnectorTypeOK /\ EffectsBounded /\ AnswersAreTrue /\ FailsAfterAllAttempts

\* Only what failed is done again: an attempt after a failed attempt, a page after a failed pull.
OnlyFailuresRepeat == RetriesOnlyFailures /\ FailedSyncKeepsCursor
=============================================================================
