--------------------------- MODULE Notifications ---------------------------
(***************************************************************************)
(* packages/enterprise/notifications/src/service.ts, channels.ts,          *)
(* deliveryLog.ts: several callers of dispatchAll() share one service and  *)
(* its delivery log, and are interleaved whenever they await a transport.  *)
(*                                                                         *)
(* Templates, addresses and registered channels are settled before the     *)
(* first dispatch; the text of a message and of an error is left out.      *)
(***************************************************************************)
EXTENDS Integers, Sequences, FiniteSets

CONSTANTS
  Callers,       \* the calls of dispatchAll()
  Batch,         \* Batch[c]: the notifications the call c is given
  Kinds,         \* the kinds of channels
  Preferred,         \* Preferred[n]: resolveChannelOrder(n), <<>> where it throws
  Renders,       \* the notifications whose template renders
  Registered,    \* the kinds that have an adapter
  Addressed,     \* Addressed[n]: the kinds the recipient of n has an address for
  MaxAttemptsOption \* options.maxAttempts

Notifications == DOMAIN Preferred

ASSUME OptionAssumption == MaxAttemptsOption \in Int
ASSUME OrderAssumption == Preferred \in [Notifications -> Seq(Kinds)]
ASSUME AddressAssumption == Addressed \in [Notifications -> SUBSET Kinds]
\* Ids are unique, so the log of a notification is that of one dispatch.
ASSUME BatchAssumption ==
  /\ Batch \in [Callers -> Seq(Notifications)]
  /\ \A c, d \in Callers : \A i \in DOMAIN Batch[c], k \in DOMAIN Batch[d] :
       Batch[c][i] = Batch[d][k] => c = d /\ i = k

VARIABLES
  phase,    \* phase[c]: where the call is
  at,       \* at[c]: index in the batch of the notification under dispatch
  walk,     \* walk[c]: index in its order of the channel under attempt
  attempt,  \* attempt[c]: the attempt that is made at the channel
  results,  \* results[c]: the last result of every channel so far
  total,    \* total[c]: totalAttempts
  outcomes, \* outcomes[c]: the outcomes of the batch so far
  log,      \* the entries of the DeliveryLog
  copies    \* copies[n]: how many times the recipient has received n

walking == <<walk, attempt, results, total>>
vars    == <<phase, at, walking, outcomes, log, copies>>

MaxAttempts == IF MaxAttemptsOption > 1 THEN MaxAttemptsOption ELSE 1

Errors == {"none", "transient", "final", "no address", "no adapter"}
Result == [channel : Kinds, error : Errors]
Entry  == [notification : Notifications, channel : Kinds, attempt : Nat, error : Errors]
Outcome == [notification : Notifications, delivered : BOOLEAN,
            results : Seq(Result), totalAttempts : Nat]
None   == "none"

Current(c) == Batch[c][at[c]]
Kind(c)    == Preferred[Current(c)][walk[c]]

-----------------------------------------------------------------------------
(* dispatch() *)

Deliver(c, delivered, res, n) ==
  /\ outcomes' = [outcomes EXCEPT ![c] = Append(@,
       [notification |-> Current(c), delivered |-> delivered, results |-> res, totalAttempts |-> n])]
  /\ at' = [at EXCEPT ![c] = @ + 1]
  /\ phase' = [phase EXCEPT ![c] = "between"]
  /\ walk' = [walk EXCEPT ![c] = 0] /\ attempt' = [attempt EXCEPT ![c] = 0]
  /\ results' = [results EXCEPT ![c] = <<>>] /\ total' = [total EXCEPT ![c] = 0]

Attempt(c, i, k, res, n) ==
  /\ walk' = [walk EXCEPT ![c] = i]
  /\ attempt' = [attempt EXCEPT ![c] = k]
  /\ results' = [results EXCEPT ![c] = res]
  /\ total' = [total EXCEPT ![c] = n]
  /\ phase' = [phase EXCEPT ![c] = "sending"]
  /\ UNCHANGED <<at, outcomes>>

\* The results of the channels from i on that are passed over to get to the channel next.
PassedOver(order, i, next) ==
  [k \in 1..(next - i) |-> [channel |-> order[i + k - 1], error |-> "no adapter"]]

\* Go on with the channel i, or the first one after it that has an adapter.
GoOn(c, i, res, n) ==
  LET order == Preferred[Current(c)]
      able  == {k \in i..Len(order) : order[k] \in Registered}
      next  == IF able = {} THEN Len(order) + 1
               ELSE CHOOSE k \in able : \A m \in able : k <= m
      seen  == res \o PassedOver(order, i, next)
  IN IF able = {} THEN Deliver(c, FALSE, seen, n) ELSE Attempt(c, next, 1, seen, n)

\* Mutant: a notification that throws is passed over.
Dispatch_SkipsThrown(c) ==
  /\ phase[c] = "between" /\ at[c] <= Len(Batch[c])
  /\ IF Current(c) \in Renders /\ Preferred[Current(c)] # <<>>
       THEN GoOn(c, 1, <<>>, 0)
       ELSE /\ at' = [at EXCEPT ![c] = @ + 1]
            /\ UNCHANGED <<phase, outcomes, walking>>
  /\ UNCHANGED <<log, copies>>

Dispatch(c) ==
  /\ phase[c] = "between" /\ at[c] <= Len(Batch[c])
  /\ Current(c) \in Renders /\ Preferred[Current(c)] # <<>>
  /\ GoOn(c, 1, <<>>, 0)
  /\ UNCHANGED <<log, copies>>

\* The whole batch is rejected, what it has sent included.
Throw(c) ==
  /\ phase[c] = "between" /\ at[c] <= Len(Batch[c])
  /\ ~(Current(c) \in Renders /\ Preferred[Current(c)] # <<>>)
  /\ phase' = [phase EXCEPT ![c] = "thrown"]
  /\ UNCHANGED <<at, walking, outcomes, log, copies>>

Return(c) ==
  /\ phase[c] = "between" /\ at[c] > Len(Batch[c])
  /\ phase' = [phase EXCEPT ![c] = "returned"]
  /\ UNCHANGED <<at, walking, outcomes, log, copies>>

-----------------------------------------------------------------------------
(* attemptChannel(): an awaited send() answers *)

Record(c, error) ==
  log' = Append(log, [notification |-> Current(c), channel |-> Kind(c),
                      attempt |-> attempt[c], error |-> error])

Succeed(c) ==
  /\ phase[c] = "sending" /\ Kind(c) \in Addressed[Current(c)]
  /\ Record(c, None)
  /\ copies' = [copies EXCEPT ![Current(c)] = @ + 1]
  /\ Deliver(c, TRUE, Append(results[c], [channel |-> Kind(c), error |-> None]),
             total[c] + attempt[c])

GiveUp(c, error) ==
  GoOn(c, walk[c] + 1, Append(results[c], [channel |-> Kind(c), error |-> error]),
       total[c] + attempt[c])

\* There is no address: the transport is not called.
Unaddressed(c) ==
  /\ phase[c] = "sending" /\ Kind(c) \notin Addressed[Current(c)]
  /\ Record(c, "no address")
  /\ GiveUp(c, "no address")
  /\ UNCHANGED copies

\* The transport fails, although the recipient may have received the message (m = 1).
Retry(c, error, m) ==
  /\ phase[c] = "sending" /\ Kind(c) \in Addressed[Current(c)]
  /\ error = "transient" /\ attempt[c] < MaxAttempts
  /\ Record(c, error)
  /\ copies' = [copies EXCEPT ![Current(c)] = @ + m]
  /\ Attempt(c, walk[c], attempt[c] + 1, results[c], total[c])

FallThrough(c, error, m) ==
  /\ phase[c] = "sending" /\ Kind(c) \in Addressed[Current(c)]
  /\ error = "transient" => attempt[c] >= MaxAttempts
  /\ Record(c, error)
  /\ copies' = [copies EXCEPT ![Current(c)] = @ + m]
  /\ GiveUp(c, error)

Fail(c) ==
  \E error \in {"transient", "final"}, m \in 0..1 : Retry(c, error, m) \/ FallThrough(c, error, m)

-----------------------------------------------------------------------------
Init ==
  /\ phase = [c \in Callers |-> "between"] /\ at = [c \in Callers |-> 1]
  /\ walk = [c \in Callers |-> 0] /\ attempt = [c \in Callers |-> 0]
  /\ results = [c \in Callers |-> <<>>] /\ total = [c \in Callers |-> 0]
  /\ outcomes = [c \in Callers |-> <<>>]
  /\ log = <<>>
  /\ copies = [n \in Notifications |-> 0]

Step(c) == Dispatch(c) \/ Throw(c) \/ Return(c) \/ Succeed(c) \/ Unaddressed(c) \/ Fail(c)

Next == \E c \in Callers : Step(c)

\* The event loop runs every continuation, and every transport settles in the end.
Spec == Init /\ [][Next]_vars /\ \A c \in Callers : WF_vars(Step(c))

-----------------------------------------------------------------------------
(* Properties *)

\* Every variable has the shape the code gives it.
TypeOK ==
  /\ phase \in [Callers -> {"between", "sending", "returned", "thrown"}]
  /\ at \in [Callers -> Nat \ {0}] /\ walk \in [Callers -> Nat]
  /\ attempt \in [Callers -> 0..MaxAttempts] /\ total \in [Callers -> Nat]
  /\ results \in [Callers -> Seq(Result)]
  /\ outcomes \in [Callers -> Seq(Outcome)]
  /\ log \in Seq(Entry)
  /\ copies \in [Notifications -> Nat]

Outcomes == UNION {{outcomes[c][i] : i \in DOMAIN outcomes[c]} : c \in Callers}

\* deliveryLog.forNotification(n): where in the log the entries of n are.
ForNotification(n) == {i \in DOMAIN log : log[i].notification = n}

\* The entries i and k are of one notification, and none of it is between them.
Successive(i, k) ==
  /\ i < k /\ log[i].notification = log[k].notification
  /\ \A j \in DOMAIN log : log[j].notification = log[k].notification => j <= i \/ k <= j

\* As many entries as attempts, all failures but the last, which is a success if
\* and only if the notification was delivered.
ToldByLog(o) ==
  LET entries == ForNotification(o.notification)
  IN /\ Cardinality(entries) = o.totalAttempts
     /\ o.delivered <=> \E i \in entries : log[i].error = None
     /\ \A i, k \in entries : i < k => log[i].error # None

\* The log of a notification tells what its outcome tells, however the callers that
\* share the log are interleaved.
LogTellsOutcome == \A o \in Outcomes : ToldByLog(o)

FirstAccepted(o) ==
  LET order == Preferred[o.notification]
      count == Len(o.results)
  IN /\ count \in 1..Len(order)
     /\ \A k \in 1..count : o.results[k].channel = order[k]
     /\ \A k \in 1..(count - 1) : o.results[k].error # None
     /\ IF o.delivered THEN o.results[count].error = None
        ELSE count = Len(order) /\ o.results[count].error # None

\* "A recipient is notified by the first channel that accepts": the results follow the
\* order of preference without a gap, none but the last succeeded, and a
\* notification is undeliverable only after every channel of the order failed.
FirstAcceptingChannel == \A o \in Outcomes : FirstAccepted(o)

\* A channel is tried again only after a transient failure and within the limit, and
\* the next channel only after the one before it is out of attempts.
RetriesJustified ==
  \A k \in DOMAIN log :
    /\ log[k].attempt \in 1..MaxAttempts
    /\ log[k].attempt > 1 =>
         \E i \in DOMAIN log :
           /\ Successive(i, k) /\ log[i].channel = log[k].channel
           /\ log[i].error = "transient" /\ log[i].attempt = log[k].attempt - 1
    /\ log[k].attempt = 1 =>
         \A i \in DOMAIN log :
           Successive(i, k) => log[i].error # "transient" \/ log[i].attempt = MaxAttempts

\* The entries of n for which the transport was called.
Called(n) == {i \in ForNotification(n) : log[i].error # "no address"}

\* Whoever received a notification twice was sent the second copy after an attempt
\* that the log has as failed, and who was notified by the log has received it.
DuplicatesAreLogged ==
  \A n \in Notifications :
    /\ copies[n] <= Cardinality(Called(n))
    /\ (\E i \in Called(n) : log[i].error = None) => copies[n] > 0

InOrder(c) ==
  /\ Len(outcomes[c]) = at[c] - 1
  /\ \A i \in DOMAIN outcomes[c] : outcomes[c][i].notification = Batch[c][i]
  /\ \A i \in DOMAIN Batch[c] :
       i > at[c] \/ (i = at[c] /\ phase[c] # "sending") => ForNotification(Batch[c][i]) = {}

\* The outcomes are those of the batch in its order, and nothing is sent after the
\* notification under dispatch, nor after one that throws.
BatchInOrder == \A c \in Callers : InOrder(c)

\* A call of dispatchAll() that waits for a transport returns or throws in the end.
EveryBatchEnds == \A c \in Callers : phase[c] = "sending" ~> phase[c] \in {"returned", "thrown"}

\* What a caller is told, what the log has and what recipients got agree, with two batches
\* under way and a transport that fails before or after it delivers.
OutcomesAgree ==
  TypeOK /\ LogTellsOutcome /\ FirstAcceptingChannel /\ RetriesJustified /\ DuplicatesAreLogged /\ BatchInOrder
=============================================================================
