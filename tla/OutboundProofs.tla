--------------------------- MODULE OutboundProofs ---------------------------
(***************************************************************************)
(* Proofs about Notifications, for every set of callers, batches, orders   *)
(* of preference and registered channels, and about Connector, for every   *)
(* set of calls and every policy.                                          *)
(***************************************************************************)
EXTENDS Notifications, Connector, FiniteSetTheorems, WellFoundedInduction, TLAPS

-----------------------------------------------------------------------------
(* Notifications *)

\* The first channels of the order of n have answered res, and none accepted.
Refused(n, res, count) ==
  /\ res \in Seq(Result) /\ Len(res) = count /\ count <= Len(Preferred[n])
  /\ \A k \in 1..count : res[k].channel = Preferred[n][k] /\ res[k].error # None

Last(n, i) == i \in ForNotification(n) /\ \A j \in ForNotification(n) : j <= i

\* The log of n, whose attempt number k at a channel of the given kind comes next.
Awaits(n, kind, k) ==
  /\ \A i \in ForNotification(n) : log[i].error # None
  /\ k > 1 => \E i \in DOMAIN log :
                /\ Last(n, i) /\ log[i].channel = kind
                /\ log[i].error = "transient" /\ log[i].attempt = k - 1
  /\ k = 1 => \A i \in DOMAIN log :
                Last(n, i) => log[i].error # "transient" \/ log[i].attempt = MaxAttempts

\* What is known of a call that waits for a transport.
Underway(c) ==
  LET n == Current(c) IN
  /\ at[c] \in DOMAIN Batch[c] /\ walk[c] \in DOMAIN Preferred[n]
  /\ attempt[c] \in 1..MaxAttempts
  /\ Refused(n, results[c], walk[c] - 1)
  /\ Cardinality(ForNotification(n)) = total[c] + attempt[c] - 1
  /\ Awaits(n, Kind(c), attempt[c])

\* What is known of the outcomes of a call.
Settled(c) == \A i \in DOMAIN outcomes[c] : ToldByLog(outcomes[c][i]) /\ FirstAccepted(outcomes[c][i])

\* The inductive invariant.
IInv ==
  /\ TypeOK /\ BatchInOrder /\ RetriesJustified /\ DuplicatesAreLogged
  /\ \A c \in Callers : /\ Settled(c) /\ (phase[c] = "sending" => Underway(c))
                        /\ at[c] <= Len(Batch[c]) + 1

LEMMA LimitIsPositive == MaxAttempts \in Nat /\ MaxAttempts >= 1
BY OptionAssumption DEF MaxAttempts

LEMMA ParametersTyped ==
  /\ \A c \in Callers : Batch[c] \in Seq(Notifications)
  /\ \A n \in Notifications : Preferred[n] \in Seq(Kinds)
BY OrderAssumption, BatchAssumption

LEMMA BatchDistinct ==
  ASSUME NEW c \in Callers, NEW d \in Callers, NEW i \in DOMAIN Batch[c], NEW k \in DOMAIN Batch[d],
         Batch[c][i] = Batch[d][k]
  PROVE  c = d /\ i = k
BY BatchAssumption

-----------------------------------------------------------------------------
(* The log grows by one entry *)

LEMMA LogGrows ==
  ASSUME log \in Seq(Entry), NEW e \in Entry, log' = Append(log, e)
  PROVE  /\ log' \in Seq(Entry) /\ Len(log) \in Nat /\ Len(log') = Len(log) + 1
         /\ \A i \in DOMAIN log : i \in DOMAIN log' /\ log'[i] = log[i] /\ i < Len(log) + 1
         /\ DOMAIN log' = DOMAIN log \cup {Len(log) + 1} /\ Len(log) + 1 \notin DOMAIN log
         /\ log'[Len(log) + 1] = e
BY DEF Entry

LEMMA EntriesGrow ==
  ASSUME log \in Seq(Entry), NEW e \in Entry, log' = Append(log, e), NEW n
  PROVE  /\ e.notification # n => ForNotification(n)' = ForNotification(n)
         /\ e.notification = n => ForNotification(n)' = ForNotification(n) \cup {Len(log) + 1}
         /\ \A i \in ForNotification(n) : log'[i] = log[i]
BY LogGrows DEF ForNotification

LEMMA EntriesFinite ==
  ASSUME log \in Seq(Entry), NEW n
  PROVE  /\ IsFiniteSet(ForNotification(n)) /\ Cardinality(ForNotification(n)) \in Nat
         /\ Len(log) + 1 \notin ForNotification(n)
         /\ ForNotification(n) \subseteq 1..Len(log)
         /\ \A S \in SUBSET ForNotification(n) :
              IsFiniteSet(S) /\ Cardinality(S) \in Nat /\ Cardinality(S) <= Cardinality(ForNotification(n))
<1>1. ForNotification(n) \subseteq 1..Len(log) /\ Len(log) \in Nat /\ Len(log) + 1 \notin 1..Len(log)
  BY DEF ForNotification
<1>2. IsFiniteSet(1..Len(log))
  BY <1>1, FS_Interval
<1>3. IsFiniteSet(ForNotification(n)) /\ Cardinality(ForNotification(n)) \in Nat
  BY <1>1, <1>2, FS_Subset, FS_CardinalityType
<1> QED BY <1>1, <1>3, FS_Subset, FS_CardinalityType

LEMMA CountGrows ==
  ASSUME log \in Seq(Entry), NEW e \in Entry, log' = Append(log, e)
  PROVE  Cardinality(ForNotification(e.notification)') = Cardinality(ForNotification(e.notification)) + 1
<1> DEFINE n == e.notification
<1>1. ForNotification(n)' = ForNotification(n) \cup {Len(log) + 1}
  BY EntriesGrow
<1>2. IsFiniteSet(ForNotification(n)) /\ Len(log) + 1 \notin ForNotification(n)
  BY EntriesFinite
<1> QED BY <1>1, <1>2, FS_AddElement

LEMMA LastGrows ==
  ASSUME log \in Seq(Entry), NEW e \in Entry, log' = Append(log, e)
  PROVE  \A i \in DOMAIN log' : Last(e.notification, i)' => i = Len(log) + 1 /\ log'[i] = e
<1> QED BY LogGrows, EntriesGrow, EntriesFinite DEF Last

\* An entry after another one of its notification that is the last follows it directly.
LEMMA RetriesStep ==
  ASSUME log \in Seq(Entry), RetriesJustified, NEW e \in Entry, log' = Append(log, e),
         e.attempt \in 1..MaxAttempts, Awaits(e.notification, e.channel, e.attempt)
  PROVE  RetriesJustified'
<1> DEFINE n == e.notification
<1>0. PICK top \in Nat :
      /\ DOMAIN log' = DOMAIN log \cup {top} /\ log'[top] = e
      /\ \A i \in DOMAIN log : log'[i] = log[i] /\ i < top /\ i \in Nat
  BY LogGrows
<1>1. ASSUME NEW i \in DOMAIN log, NEW k \in DOMAIN log PROVE Successive(i, k)' <=> Successive(i, k)
  <2>1. log'[i] = log[i] /\ log'[k] = log[k] /\ k < top /\ i \in Nat /\ k \in Nat
    BY <1>0
  <2> QED BY <1>0 DEF Successive
<1>2. ASSUME NEW i \in DOMAIN log PROVE Successive(i, top)' <=> Last(n, i)
  <2>1. log'[i] = log[i] /\ log'[top] = e /\ i < top /\ i \in Nat /\ top \in Nat
    BY <1>0
  <2>3. Successive(i, top)' <=>
          log[i].notification = n /\ \A j \in DOMAIN log : log[j].notification = n => j <= i
    BY <1>0 DEF Successive
  <2> QED BY <1>0, <2>3, <2>1 DEF Last, ForNotification
<1>3. ASSUME NEW i \in DOMAIN log PROVE ~Successive(top, i)'
  BY <1>0 DEF Successive
<1>4. ~Successive(top, top)'
  BY <1>0 DEF Successive
<1>5. ASSUME NEW k \in DOMAIN log'
      PROVE  /\ log'[k].attempt \in 1..MaxAttempts
             /\ log'[k].attempt > 1 =>
                  \E i \in DOMAIN log' :
                    /\ Successive(i, k)' /\ log'[i].channel = log'[k].channel
                    /\ log'[i].error = "transient" /\ log'[i].attempt = log'[k].attempt - 1
             /\ log'[k].attempt = 1 =>
                  \A i \in DOMAIN log' :
                    Successive(i, k)' => log'[i].error # "transient" \/ log'[i].attempt = MaxAttempts
  <2>1. CASE k \in DOMAIN log
    <3>1. log'[k] = log[k]
      BY <1>0, <2>1
    <3>2. log[k].attempt \in 1..MaxAttempts
      BY <1>0, <2>1 DEF RetriesJustified
    <3>3. ASSUME log[k].attempt > 1
          PROVE  \E i \in DOMAIN log' :
                    /\ Successive(i, k)' /\ log'[i].channel = log'[k].channel
                    /\ log'[i].error = "transient" /\ log'[i].attempt = log'[k].attempt - 1
      <4>1. PICK i \in DOMAIN log : /\ Successive(i, k) /\ log[i].channel = log[k].channel
                                   /\ log[i].error = "transient" /\ log[i].attempt = log[k].attempt - 1
        BY <1>0, <2>1, <3>3 DEF RetriesJustified
      <4>2. i \in DOMAIN log' /\ log'[i] = log[i] /\ Successive(i, k)'
        BY <1>0, <2>1, <1>1, <4>1
      <4> QED BY <4>1, <4>2, <3>1
    <3>4. ASSUME log[k].attempt = 1, NEW i \in DOMAIN log', Successive(i, k)'
          PROVE  log'[i].error # "transient" \/ log'[i].attempt = MaxAttempts
      <4>1. i \in DOMAIN log /\ log'[i] = log[i]
        BY <1>0, <2>1, <3>4, <1>3
      <4>2. Successive(i, k)
        BY <1>0, <2>1, <3>4, <4>1, <1>1
      <4> QED BY <1>0, <2>1, <3>4, <4>1, <4>2 DEF RetriesJustified
    <3> QED BY <3>1, <3>2, <3>3, <3>4
  <2>2. CASE k = top
    BY <1>0, <1>2, <1>4, <2>2 DEF Awaits
  <2> QED BY <1>0, <2>1, <2>2
<1> QED BY <1>5 DEF RetriesJustified

\* What the attempt adds to the copies: nothing if the transport is not called, and the
\* message if the transport accepts it.
Copied(error, m) == (error = "no address" => m = 0) /\ (error = None => m = 1)

LEMMA CopiesStep ==
  ASSUME log \in Seq(Entry), DuplicatesAreLogged, copies \in [Notifications -> Nat],
         NEW q \in Notifications, NEW m \in {0, 1}, copies' = [copies EXCEPT ![q] = @ + m],
         NEW e \in Entry, e.notification = q, log' = Append(log, e),
         Copied(e.error, m)
  PROVE  DuplicatesAreLogged' /\ copies' \in [Notifications -> Nat]
<1>2. /\ copies' \in [Notifications -> Nat] /\ copies'[q] = copies[q] + m /\ copies[q] \in Nat /\ m \in Nat
      /\ \A n \in Notifications \ {q} : copies'[n] = copies[n]
  <2>0. m \in Nat
    OBVIOUS
  <2>1. copies[q] \in Nat
    OBVIOUS
  <2>2. copies[q] + m \in Nat
    BY <2>0, <2>1
  <2> QED BY <2>0, <2>1, <2>2
<1>3. PICK top \in Nat :
        /\ DOMAIN log' = DOMAIN log \cup {top} /\ log'[top] = e /\ top \notin DOMAIN log
        /\ \A i \in DOMAIN log : log'[i] = log[i]
  BY LogGrows
<1>4. ASSUME NEW n \in Notifications
      PROVE  /\ copies'[n] <= Cardinality(Called(n)')
             /\ (\E i \in Called(n)' : log'[i].error = None) => copies'[n] > 0
  <2>0. copies[n] \in Nat /\ copies[n] <= Cardinality(Called(n))
    BY DEF DuplicatesAreLogged
  <2>1. (\E i \in Called(n) : log[i].error = None) => copies[n] > 0
    BY DEF DuplicatesAreLogged
  <2>2. /\ IsFiniteSet(Called(n)) /\ Cardinality(Called(n)) \in Nat /\ top \notin Called(n)
        /\ \A i \in Called(n) : log'[i] = log[i]
    <3>1. Called(n) \in SUBSET ForNotification(n)
      BY DEF Called
    <3>2. IsFiniteSet(Called(n)) /\ Cardinality(Called(n)) \in Nat
      BY <3>1, EntriesFinite
    <3> QED BY <1>3, <3>2 DEF Called, ForNotification
  <2>3. CASE q # n
    <3>1. Called(n)' = Called(n)
      BY <2>3, <1>3 DEF Called, ForNotification
    <3>2. copies'[n] = copies[n]
      BY <2>3, <1>2
    <3> QED BY <2>0, <2>1, <2>2, <3>1, <3>2
  <2>4. CASE q = n /\ e.error = "no address"
    <3>1. Called(n)' = Called(n)
      BY <2>4, <1>3 DEF Called, ForNotification
    <3>2. q = n /\ m = 0
      BY <2>4 DEF Copied
    <3>3. copies'[n] = copies[n]
      BY <3>2, <1>2
    <3> QED BY <2>0, <2>1, <2>2, <3>1, <3>3
  <2>5. CASE q = n /\ e.error # "no address"
    <3>1. Called(n)' = Called(n) \cup {top}
      BY <2>5, <1>3 DEF Called, ForNotification
    <3>2. Cardinality(Called(n)') = Cardinality(Called(n)) + 1
      BY <2>2, <3>1, FS_AddElement
    <3>3. q = n
      BY <2>5
    <3>4. copies'[n] \in Nat /\ copies'[n] <= copies[n] + 1 /\ copies'[n] >= copies[n]
      BY <3>3, <1>2
    <3>5. e.error = None => copies'[n] > 0
      <4>1. e.error = None => m = 1
        BY DEF Copied
      <4> QED BY <4>1, <3>3, <1>2
    <3>6. (\E i \in Called(n) : log'[i].error = None) => copies'[n] > 0
      <4>1. SUFFICES ASSUME NEW i \in Called(n), log'[i].error = None PROVE copies'[n] > 0
        OBVIOUS
      <4>2. copies[n] > 0
        BY <2>1, <2>2, <4>1
      <4> QED BY <2>0, <3>4, <4>2
    <3>7. (\E i \in Called(n)' : log'[i].error = None) => copies'[n] > 0
      BY <3>1, <3>5, <3>6, <1>3
    <3>8. copies'[n] <= Cardinality(Called(n)')
      <4>1. Cardinality(Called(n)) \in Nat
        BY <2>2
      <4> QED BY <2>0, <4>1, <3>2, <3>4
    <3> QED BY <3>7, <3>8
  <2> QED BY <2>3, <2>4, <2>5
<1> QED BY <1>2, <1>4 DEF DuplicatesAreLogged

-----------------------------------------------------------------------------
(* A step on behalf of one notification *)

\* Whatever the step does to the log and the copies concerns the notification n.
Logged(n) ==
  /\ log' \in Seq(Entry) /\ copies' \in [Notifications -> Nat]
  /\ RetriesJustified' /\ DuplicatesAreLogged'
  /\ \A m \in Notifications \ {n} : /\ ForNotification(m)' = ForNotification(m)
                                    /\ \A i \in ForNotification(m) : log'[i] = log[i]

LEMMA ToldKept ==
  ASSUME NEW n, Logged(n), NEW o, o.notification \in Notifications \ {n}, ToldByLog(o),
         log \in Seq(Entry)
  PROVE  ToldByLog(o)'
<1>1. /\ ForNotification(o.notification)' = ForNotification(o.notification)
      /\ \A i \in ForNotification(o.notification) : log'[i] = log[i]
  BY DEF Logged
<1> QED BY <1>1 DEF ToldByLog

LEMMA AwaitsKept ==
  ASSUME NEW n, Logged(n), NEW m \in Notifications \ {n}, NEW kind, NEW k, Awaits(m, kind, k),
         log \in Seq(Entry)
  PROVE  Awaits(m, kind, k)'
<1>1. ForNotification(m)' = ForNotification(m) /\ \A i \in ForNotification(m) : log'[i] = log[i]
  BY DEF Logged
<1>2. \A i : Last(m, i)' <=> Last(m, i)
  BY <1>1 DEF Last
<1>3. \A i : Last(m, i) => i \in DOMAIN log /\ i \in DOMAIN log' /\ log'[i] = log[i]
  BY <1>1 DEF Last, ForNotification
<1> QED BY <1>1, <1>2, <1>3 DEF Awaits

LEMMA UnderwayKept ==
  ASSUME NEW n, Logged(n), TypeOK, NEW d \in Callers, Underway(d), Current(d) # n,
         at'[d] = at[d], walk'[d] = walk[d], attempt'[d] = attempt[d],
         results'[d] = results[d], total'[d] = total[d]
  PROVE  Underway(d)'
<1>1. PICK m : m = Current(d)
  OBVIOUS
<1>2. PICK kind : kind = Kind(d)
  OBVIOUS
<1>3. PICK k : k = attempt[d]
  OBVIOUS
<1>4. m = Current(d)' /\ kind = Kind(d)' /\ k = attempt'[d]
  BY <1>1, <1>2, <1>3 DEF Current, Kind
<1>5. m \in Notifications \ {n} /\ log \in Seq(Entry)
  BY <1>1, ParametersTyped DEF Underway, Current, TypeOK
<1>6. Awaits(m, kind, k)
  BY <1>1, <1>2, <1>3 DEF Underway
<1>7. Awaits(m, kind, k)'
  BY <1>5, <1>6, AwaitsKept
<1>8. ForNotification(m)' = ForNotification(m)
  BY <1>5 DEF Logged
<1>9. /\ at[d] \in DOMAIN Batch[d] /\ walk[d] \in DOMAIN Preferred[m] /\ attempt[d] \in 1..MaxAttempts
      /\ Refused(m, results[d], walk[d] - 1)
      /\ Cardinality(ForNotification(m)) = total[d] + attempt[d] - 1
  BY <1>1 DEF Underway
<1> QED BY <1>4, <1>7, <1>8, <1>9 DEF Underway, Refused

LEMMA Positions ==
  ASSUME TypeOK, NEW d \in Callers
  PROVE  /\ at[d] \in Nat /\ at[d] > 0 /\ Len(Batch[d]) \in Nat /\ DOMAIN Batch[d] = 1..Len(Batch[d])
         /\ outcomes[d] \in Seq(Outcome)
         /\ Len(outcomes[d]) \in Nat /\ DOMAIN outcomes[d] = 1..Len(outcomes[d])
<1>1. at[d] \in Nat /\ at[d] > 0 /\ outcomes[d] \in Seq(Outcome)
  BY DEF TypeOK
<1> QED BY <1>1, ParametersTyped

LEMMA OutcomeInBatch ==
  ASSUME IInv, NEW d \in Callers, NEW i \in DOMAIN outcomes[d]
  PROVE  i \in DOMAIN Batch[d] /\ i < at[d]
<1>1. TypeOK /\ Len(outcomes[d]) = at[d] - 1 /\ at[d] <= Len(Batch[d]) + 1
  BY DEF IInv, BatchInOrder, InOrder
<1> QED BY <1>1, Positions

\* What the callers but c are known to do stays true.
LEMMA OthersKept ==
  ASSUME IInv, NEW c \in Callers, at[c] \in DOMAIN Batch[c],
         NEW n \in Notifications, n = Current(c), Logged(n),
         NEW d \in Callers \ {c},
         phase'[d] = phase[d], at'[d] = at[d], walk'[d] = walk[d], attempt'[d] = attempt[d],
         results'[d] = results[d], total'[d] = total[d], outcomes'[d] = outcomes[d]
  PROVE  /\ Settled(d)' /\ (phase'[d] = "sending" => Underway(d)')
         /\ at'[d] <= Len(Batch[d]) + 1 /\ InOrder(d)'
<1>1. \A i \in DOMAIN Batch[d] : Batch[d][i] \in Notifications \ {n}
  BY BatchDistinct, ParametersTyped DEF Current
<1>2. /\ TypeOK /\ Settled(d) /\ Len(outcomes[d]) = at[d] - 1 /\ at[d] <= Len(Batch[d]) + 1
      /\ \A i \in DOMAIN outcomes[d] : outcomes[d][i].notification = Batch[d][i]
      /\ \A i \in DOMAIN Batch[d] :
           i > at[d] \/ (i = at[d] /\ phase[d] # "sending") => ForNotification(Batch[d][i]) = {}
      /\ phase[d] = "sending" => Underway(d)
  BY DEF IInv, BatchInOrder, InOrder
<1>3. phase'[d] = "sending" => Underway(d)'
  <2>1. SUFFICES ASSUME phase[d] = "sending" PROVE Underway(d)'
    OBVIOUS
  <2>2. Underway(d) /\ Current(d) # n
    BY <1>1, <1>2, <2>1 DEF Underway, Current
  <2> QED BY <1>2, <2>2, UnderwayKept
<1>4. ASSUME NEW i \in DOMAIN outcomes[d]
      PROVE  ToldByLog(outcomes[d][i])' /\ FirstAccepted(outcomes[d][i])'
  <2>1. PICK o : o = outcomes[d][i]
    OBVIOUS
  <2>2. ToldByLog(o) /\ FirstAccepted(o)
    BY <1>2, <2>1 DEF Settled
  <2>4. i \in DOMAIN Batch[d]
    BY <1>2, OutcomeInBatch DEF IInv
  <2>5. o.notification \in Notifications \ {n}
    BY <1>1, <1>2, <2>1, <2>4
  <2>6. ToldByLog(o)'
    BY <1>2, <2>2, <2>5, ToldKept DEF TypeOK
  <2>7. FirstAccepted(o)'
    BY <2>2 DEF FirstAccepted
  <2> QED BY <2>1, <2>6, <2>7
<1>5. Settled(d)'
  BY <1>4 DEF Settled
<1>6. \A m \in Notifications \ {n} : ForNotification(m)' = ForNotification(m)
  BY DEF Logged
<1>7. InOrder(d)'
  BY <1>1, <1>2, <1>6 DEF InOrder
<1> QED BY <1>2, <1>3, <1>5, <1>7

\* c waits for the attempt k at the channel w of the order.
LEMMA AttemptInv ==
  ASSUME IInv, NEW c \in Callers, at[c] \in DOMAIN Batch[c],
         NEW n \in Notifications, n = Current(c), Logged(n),
         NEW w \in DOMAIN Preferred[n], NEW k \in 1..MaxAttempts, NEW res, NEW t \in Nat,
         Attempt(c, w, k, res, t), Refused(n, res, w - 1),
         Cardinality(ForNotification(n)') = t + k - 1, Awaits(n, Preferred[n][w], k)'
  PROVE  IInv'
<1>1. /\ walk' = [walk EXCEPT ![c] = w] /\ attempt' = [attempt EXCEPT ![c] = k]
      /\ results' = [results EXCEPT ![c] = res] /\ total' = [total EXCEPT ![c] = t]
      /\ phase' = [phase EXCEPT ![c] = "sending"] /\ at' = at /\ outcomes' = outcomes
  BY DEF Attempt
<1>2. TypeOK /\ w \in Nat /\ k \in 0..MaxAttempts /\ res \in Seq(Result)
  BY LimitIsPositive, ParametersTyped DEF IInv, Refused
<1>3. TypeOK'
  BY <1>1, <1>2 DEF TypeOK, Logged
<1>4. /\ walk'[c] = w /\ attempt'[c] = k /\ results'[c] = res /\ total'[c] = t
      /\ phase'[c] = "sending" /\ at'[c] = at[c] /\ Current(c)' = n /\ Kind(c)' = Preferred[n][w]
  BY <1>1, <1>2 DEF TypeOK, Current, Kind
<1>5. ASSUME NEW d \in Callers \ {c}
      PROVE  /\ phase'[d] = phase[d] /\ at'[d] = at[d] /\ walk'[d] = walk[d]
             /\ attempt'[d] = attempt[d] /\ results'[d] = results[d] /\ total'[d] = total[d]
             /\ outcomes'[d] = outcomes[d]
  BY <1>1, <1>2 DEF TypeOK
<1>6. Underway(c)'
  BY <1>4 DEF Underway, Refused
<1>7. InOrder(c) /\ at[c] <= Len(Batch[c]) + 1 /\ at[c] \in Nat /\ DOMAIN Batch[c] \subseteq Nat
  BY <1>2, Positions DEF IInv, BatchInOrder
<1>8. ASSUME NEW i \in DOMAIN Batch[c], i # at[c] PROVE Batch[c][i] \in Notifications \ {n}
  BY <1>8, BatchDistinct, ParametersTyped DEF Current
<1>9. InOrder(c)'
  <2>1. ASSUME NEW i \in DOMAIN Batch[c], i > at[c] PROVE ForNotification(Batch[c][i])' = {}
    <3>1. i # at[c]
      BY <1>7, <2>1
    <3>2. ForNotification(Batch[c][i]) = {}
      BY <1>7, <2>1, Zenon DEF InOrder
    <3> QED BY <3>1, <3>2, <1>8 DEF Logged
  <2> QED BY <1>1, <1>4, <1>7, <2>1 DEF InOrder
<1>10. Settled(c)'
  <2>1. ASSUME NEW i \in DOMAIN outcomes[c]
        PROVE  ToldByLog(outcomes[c][i])' /\ FirstAccepted(outcomes[c][i])'
    <3>1. PICK o : o = outcomes[c][i]
      OBVIOUS
    <3>2. ToldByLog(o) /\ FirstAccepted(o)
      BY <3>1 DEF IInv, Settled
    <3>3. i \in DOMAIN Batch[c] /\ i # at[c] /\ log \in Seq(Entry)
      BY <1>2, <1>7, OutcomeInBatch DEF TypeOK
    <3>4. o.notification \in Notifications \ {n}
      BY <3>1, <3>3, <1>7, <1>8 DEF InOrder
    <3>5. ToldByLog(o)'
      BY <3>2, <3>3, <3>4, ToldKept
    <3> QED BY <3>1, <3>2, <3>5, <1>1 DEF FirstAccepted
  <2> QED BY <2>1, <1>1 DEF Settled
<1>11. BatchInOrder'
  BY <1>5, <1>9, OthersKept DEF BatchInOrder
<1>12. \A d \in Callers : /\ Settled(d)' /\ (phase'[d] = "sending" => Underway(d)')
                          /\ at'[d] <= Len(Batch[d]) + 1
  BY <1>4, <1>5, <1>6, <1>7, <1>10, OthersKept
<1> QED BY <1>3, <1>11, <1>12 DEF IInv, Logged

\* c is done with a notification.
LEMMA DeliverInv ==
  ASSUME IInv, NEW c \in Callers, at[c] \in DOMAIN Batch[c],
         NEW n \in Notifications, n = Current(c), Logged(n),
         NEW delivered \in BOOLEAN, NEW res \in Seq(Result), NEW t \in Nat,
         Deliver(c, delivered, res, t),
         NEW new, new = [notification |-> n, delivered |-> delivered, results |-> res, totalAttempts |-> t],
         ToldByLog(new)', FirstAccepted(new)
  PROVE  IInv'
<1>1. /\ outcomes' = [outcomes EXCEPT ![c] = Append(@, new)]
      /\ at' = [at EXCEPT ![c] = @ + 1] /\ phase' = [phase EXCEPT ![c] = "between"]
      /\ walk' = [walk EXCEPT ![c] = 0] /\ attempt' = [attempt EXCEPT ![c] = 0]
      /\ results' = [results EXCEPT ![c] = <<>>] /\ total' = [total EXCEPT ![c] = 0]
  BY DEF Deliver
<1>2. TypeOK /\ new \in Outcome /\ at[c] \in Nat /\ outcomes[c] \in Seq(Outcome)
  BY Positions DEF IInv, Outcome
<1>3. Append(outcomes[c], new) \in Seq(Outcome) /\ at[c] + 1 \in Nat \ {0} /\ <<>> \in Seq(Result)
  BY <1>2
<1>4. TypeOK'
  <2>1. log' \in Seq(Entry) /\ copies' \in [Notifications -> Nat]
    BY DEF Logged
  <2>2. at' \in [Callers -> Nat \ {0}] /\ outcomes' \in [Callers -> Seq(Outcome)]
    BY <1>1, <1>2, <1>3 DEF TypeOK
  <2>3. results' \in [Callers -> Seq(Result)]
    BY <1>1, <1>2, <1>3 DEF TypeOK
  <2>4. /\ phase' \in [Callers -> {"between", "sending", "returned", "thrown"}]
        /\ walk' \in [Callers -> Nat] /\ attempt' \in [Callers -> 0..MaxAttempts]
        /\ total' \in [Callers -> Nat]
    BY <1>1, <1>2, LimitIsPositive DEF TypeOK
  <2> QED BY <2>1, <2>2, <2>3, <2>4 DEF TypeOK
<1>5. /\ outcomes'[c] = Append(outcomes[c], new) /\ at'[c] = at[c] + 1 /\ phase'[c] = "between"
  BY <1>1, <1>2 DEF TypeOK
<1>6. ASSUME NEW d \in Callers \ {c}
      PROVE  /\ phase'[d] = phase[d] /\ at'[d] = at[d] /\ walk'[d] = walk[d]
             /\ attempt'[d] = attempt[d] /\ results'[d] = results[d] /\ total'[d] = total[d]
             /\ outcomes'[d] = outcomes[d]
  BY <1>1, <1>2 DEF TypeOK
<1>7. InOrder(c) /\ at[c] <= Len(Batch[c]) /\ DOMAIN Batch[c] \subseteq Nat
  BY <1>2, Positions DEF IInv, BatchInOrder
<1>8. ASSUME NEW i \in DOMAIN Batch[c], i # at[c] PROVE Batch[c][i] \in Notifications \ {n}
  BY <1>8, BatchDistinct, ParametersTyped DEF Current
<1>9. Len(outcomes[c]) = at[c] - 1 /\ Len(outcomes'[c]) = at[c]
  BY <1>2, <1>5, <1>7 DEF InOrder
<1>10. ASSUME NEW i \in DOMAIN outcomes'[c]
       PROVE  \/ i \in DOMAIN outcomes[c] /\ outcomes'[c][i] = outcomes[c][i]
              \/ i = at[c] /\ outcomes'[c][i] = new
  BY <1>2, <1>5, <1>9
<1>11. InOrder(c)'
  <2>1. ASSUME NEW i \in DOMAIN Batch[c], i > at[c] PROVE ForNotification(Batch[c][i])' = {}
    <3>1. i # at[c]
      BY <1>2, <1>7, <2>1
    <3>2. ForNotification(Batch[c][i]) = {}
      BY <1>7, <2>1, Zenon DEF InOrder
    <3> QED BY <3>1, <3>2, <1>8 DEF Logged
  <2>2. ASSUME NEW i \in DOMAIN outcomes'[c] PROVE outcomes'[c][i].notification = Batch[c][i]
    <3>1. CASE i \in DOMAIN outcomes[c] /\ outcomes'[c][i] = outcomes[c][i]
      BY <3>1, <1>7 DEF InOrder
    <3>2. CASE i = at[c] /\ outcomes'[c][i] = new
      BY <3>2 DEF Current
    <3> QED BY <1>10, <3>1, <3>2
  <2>3. ASSUME NEW i \in DOMAIN Batch[c], i > at'[c] \/ (i = at'[c] /\ phase'[c] # "sending")
        PROVE  i > at[c]
    BY <2>3, <1>2, <1>5, <1>7
  <2>4. Len(outcomes'[c]) = at'[c] - 1
    BY <1>2, <1>5, <1>9
  <2> QED BY <2>1, <2>2, <2>3, <2>4 DEF InOrder
<1>12. Settled(c)'
  <2>1. ASSUME NEW i \in DOMAIN outcomes'[c]
        PROVE  (ToldByLog(outcomes[c][i]) /\ FirstAccepted(outcomes[c][i]))'
    <3>1. PICK o : o = outcomes'[c][i]
      OBVIOUS
    <3>2. CASE i \in DOMAIN outcomes[c] /\ o = outcomes[c][i]
      <4>1. ToldByLog(o) /\ FirstAccepted(o)
        BY <3>2 DEF IInv, Settled
      <4>2. i \in DOMAIN Batch[c] /\ i # at[c] /\ log \in Seq(Entry)
        BY <1>2, <3>2, OutcomeInBatch DEF TypeOK
      <4>3. o.notification \in Notifications \ {n}
        BY <3>2, <4>2, <1>7, <1>8 DEF InOrder
      <4>4. ToldByLog(o)'
        BY <4>1, <4>2, <4>3, ToldKept
      <4> QED BY <3>1, <4>1, <4>4 DEF FirstAccepted
    <3>3. CASE o = new
      BY <3>1, <3>3 DEF FirstAccepted
    <3> QED BY <1>10, <3>1, <3>2, <3>3
  <2> QED BY <2>1 DEF Settled
<1>13. BatchInOrder'
  BY <1>6, <1>11, OthersKept DEF BatchInOrder
<1>14. at'[c] <= Len(Batch[c]) + 1
  BY <1>2, <1>5, <1>7, Positions
<1>15. \A d \in Callers : /\ Settled(d)' /\ (phase'[d] = "sending" => Underway(d)')
                          /\ at'[d] <= Len(Batch[d]) + 1
  BY <1>5, <1>6, <1>12, <1>14, OthersKept
<1> QED BY <1>4, <1>13, <1>15 DEF IInv, Logged

-----------------------------------------------------------------------------
(* The channel loop goes on *)

LEMMA LeastExists ==
  ASSUME NEW S \in SUBSET Nat, S # {}
  PROVE  \E k \in S : \A m \in S : k <= m
<1>1. PICK k \in S : \A m \in Nat : <<m, k>> \in OpToRel(<, Nat) => m \notin S
  BY NatLessThanWellFounded, WFMin
<1>2. \A m \in S : ~(m < k)
  BY <1>1 DEF OpToRel
<1> QED BY <1>2

LEMMA PassedOverIs ==
  ASSUME NEW order \in Seq(Kinds), NEW i \in Nat \ {0}, NEW next \in Nat, i <= next,
         next <= Len(order) + 1
  PROVE  /\ PassedOver(order, i, next) \in Seq(Result) /\ Len(PassedOver(order, i, next)) = next - i
         /\ \A k \in 1..(next - i) : /\ PassedOver(order, i, next)[k].channel = order[i + k - 1]
                                     /\ PassedOver(order, i, next)[k].error # None
<1> DEFINE more == PassedOver(order, i, next)
<1>1. more = [k \in 1..(next - i) |-> [channel |-> order[i + k - 1], error |-> "no adapter"]]
  BY DEF PassedOver
<1>2. next - i \in Nat /\ Len(order) \in Nat
  OBVIOUS
<1> HIDE DEF more
<1>3. ASSUME NEW k \in 1..(next - i)
      PROVE  more[k] \in Result /\ more[k].channel = order[i + k - 1] /\ more[k].error # None
  <2>1. i + k - 1 \in 1..Len(order)
    BY <1>2
  <2>2. PICK kind \in Kinds : kind = order[i + k - 1]
    BY <2>1
  <2>3. PICK r : r = [channel |-> kind, error |-> "no adapter"]
    OBVIOUS
  <2>4. r \in Result /\ r.channel = kind /\ r.error = "no adapter"
    BY <2>3 DEF Result, Errors
  <2>5. more[k] = r
    BY <1>1, <2>2, <2>3
  <2>6. "no adapter" # None
    BY DEF None
  <2> QED BY <2>2, <2>4, <2>5, <2>6
<1>4. more \in [1..(next - i) -> Result]
  BY <1>1, <1>3
<1>5. more \in Seq(Result) /\ Len(more) = next - i
  BY <1>2, <1>4
<1> QED BY <1>3, <1>5 DEF more

LEMMA RefusedMore ==
  ASSUME NEW n \in Notifications, NEW i \in Nat \ {0}, NEW next \in Nat, i <= next,
         next <= Len(Preferred[n]) + 1, NEW res, Refused(n, res, i - 1)
  PROVE  Refused(n, res \o PassedOver(Preferred[n], i, next), next - 1)
<1>1. PICK order \in Seq(Kinds) : order = Preferred[n]
  BY ParametersTyped
<1>here. next <= Len(order) + 1
  BY <1>1
<1>2. PICK more \in Seq(Result) :
        /\ more = PassedOver(order, i, next) /\ Len(more) = next - i
        /\ \A k \in 1..(next - i) : more[k].channel = order[i + k - 1] /\ more[k].error # None
  BY <1>here, PassedOverIs, Zenon
<1>3. /\ res \in Seq(Result) /\ Len(res) = i - 1
      /\ \A k \in 1..(i - 1) : res[k].channel = order[k] /\ res[k].error # None
  BY <1>1 DEF Refused
<1>4. PICK seen : seen = res \o more
  OBVIOUS
<1>5. /\ seen \in Seq(Result) /\ Len(seen) = next - 1
      /\ \A k \in 1..(i - 1) : seen[k] = res[k]
      /\ \A k \in i..(next - 1) : seen[k] = more[k - i + 1]
  <2>1. res \in Seq(Result) /\ more \in Seq(Result)
    BY <1>2, <1>3
  <2>2. seen \in Seq(Result) /\ Len(seen) = Len(res) + Len(more)
    BY <1>4, <2>1
  <2>3. \A k \in 1..(Len(res) + Len(more)) : seen[k] = IF k <= Len(res) THEN res[k] ELSE more[k - Len(res)]
    BY <1>4, <2>1
  <2>4. Len(res) = i - 1 /\ Len(more) = next - i
    BY <1>2, <1>3
  <2>5. \A k \in 1..(i - 1) : seen[k] = res[k]
    BY <2>3, <2>4
  <2>6. ASSUME NEW k \in i..(next - 1) PROVE seen[k] = more[k - i + 1]
    <3>1. k \in 1..(Len(res) + Len(more)) /\ ~(k <= Len(res)) /\ k - Len(res) = k - i + 1
      BY <2>4
    <3> QED BY <2>3, <3>1
  <2> QED BY <2>2, <2>4, <2>5, <2>6, SMTT(30)
<1>6. ASSUME NEW k \in 1..(next - 1) PROVE seen[k].channel = order[k] /\ seen[k].error # None
  <2>1. CASE k \in 1..(i - 1)
    BY <1>3, <1>5, <2>1
  <2>2. CASE k \in i..(next - 1)
    <3>1. k - i + 1 \in 1..(next - i) /\ i + (k - i + 1) - 1 = k
      BY <2>2
    <3> QED BY <1>2, <1>5, <2>2, <3>1
  <2> QED BY <2>1, <2>2
<1> QED BY <1>1, <1>2, <1>4, <1>5, <1>6 DEF Refused

\* What the log of n tells when none of its attempts is under way.
Exhausted(n, count) ==
  /\ Cardinality(ForNotification(n)) = count
  /\ \A i \in ForNotification(n) : log[i].error # None
  /\ \A i \in DOMAIN log : Last(n, i) => log[i].error # "transient" \/ log[i].attempt = MaxAttempts

LEMMA GoOnInv ==
  ASSUME IInv, NEW c \in Callers, at[c] \in DOMAIN Batch[c],
         NEW n \in Notifications, n = Current(c), Logged(n), Preferred[n] # <<>>,
         NEW i \in Nat \ {0}, i <= Len(Preferred[n]) + 1, NEW res, NEW t \in Nat,
         GoOn(c, i, res, t), Refused(n, res, i - 1), Exhausted(n, t)'
  PROVE  IInv'
<1> DEFINE able == {k \in i..Len(Preferred[n]) : Preferred[n][k] \in Registered}
<1>1. PICK order \in Seq(Kinds) : order = Preferred[n] /\ order # <<>> /\ Len(order) \in Nat /\ Len(order) > 0
  BY ParametersTyped
<1>2. CASE able = {}
  <2>1. PICK seen : seen = res \o PassedOver(order, i, Len(order) + 1)
    OBVIOUS
  <2>2. Deliver(c, FALSE, seen, t)
    BY <1>1, <1>2, <2>1 DEF GoOn
  <2>3. Refused(n, seen, Len(order))
    <3>1. PICK next \in Nat : next = Len(order) + 1
      BY <1>1
    <3>2. i <= next /\ next <= Len(Preferred[n]) + 1 /\ next - 1 = Len(order)
      BY <1>1, <3>1
    <3>3. Refused(n, seen, next - 1)
      BY <1>1, <2>1, <3>1, <3>2, RefusedMore
    <3> QED BY <3>2, <3>3
  <2>4. PICK new : new = [notification |-> n, delivered |-> FALSE, results |-> seen, totalAttempts |-> t]
    OBVIOUS
  <2>5. FirstAccepted(new)
    BY <1>1, <2>3, <2>4 DEF FirstAccepted, Refused
  <2>6. ToldByLog(new)'
    BY <2>4 DEF ToldByLog, Exhausted
  <2> QED BY <2>2, <2>3, <2>4, <2>5, <2>6, DeliverInv DEF Refused
<1>3. CASE able # {}
  <2>1. PICK w : w = CHOOSE k \in able : \A m \in able : k <= m
    OBVIOUS
  <2>2. able \in SUBSET Nat
    BY <1>1
  <2>3. w \in able
    BY <1>3, <2>1, <2>2, LeastExists
  <2>4. PICK seen : seen = res \o PassedOver(order, i, w)
    OBVIOUS
  <2>5. Attempt(c, w, 1, seen, t)
    BY <1>1, <1>3, <2>1, <2>4 DEF GoOn
  <2>6. w \in Nat /\ i <= w /\ w <= Len(order) /\ w \in DOMAIN Preferred[n]
    BY <1>1, <2>3
  <2>7. Refused(n, seen, w - 1)
    BY <1>1, <2>4, <2>6, RefusedMore
  <2>8. PICK kind : kind = Preferred[n][w]
    OBVIOUS
  <2>9. Awaits(n, kind, 1)' /\ Cardinality(ForNotification(n)') = t + 1 - 1
    BY DEF Exhausted, Awaits
  <2> QED BY <2>5, <2>6, <2>7, <2>8, <2>9, LimitIsPositive, AttemptInv
<1> QED BY <1>2, <1>3

-----------------------------------------------------------------------------
(* An awaited send() answers *)

\* The attempt of c under way ends, and m copies more have reached the recipient.
AttemptEnds(c, error, m) ==
  /\ Record(c, error) /\ Copied(error, m)
  /\ copies' = [copies EXCEPT ![Current(c)] = @ + m]

\* The log and the copies after the attempt of c under way.
LEMMA RecordStep ==
  ASSUME IInv, NEW c \in Callers, phase[c] = "sending",
         NEW n, n = Current(c), NEW error \in Errors, NEW m \in {0, 1}, AttemptEnds(c, error, m)
  PROVE  /\ n \in Notifications /\ Logged(n)
         /\ Cardinality(ForNotification(n)') = total[c] + attempt[c]
         /\ \E top \in DOMAIN log' :
              /\ ForNotification(n)' = ForNotification(n) \cup {top}
              /\ Last(n, top)' /\ \A i \in DOMAIN log' : Last(n, i)' => i = top
              /\ \A i \in ForNotification(n) : log'[i].error # None /\ i < top
              /\ log'[top].error = error /\ log'[top].channel = Kind(c) /\ log'[top].attempt = attempt[c]
<1>1. /\ TypeOK /\ Underway(c) /\ RetriesJustified /\ DuplicatesAreLogged
      /\ log \in Seq(Entry) /\ copies \in [Notifications -> Nat] /\ total[c] \in Nat
  BY DEF IInv, TypeOK
<1>2. n \in Notifications /\ at[c] \in DOMAIN Batch[c]
  BY <1>1, ParametersTyped DEF Underway, Current
<1>3. PICK kind \in Kinds : kind = Kind(c)
  BY <1>1, <1>2, ParametersTyped DEF Underway, Kind
<1>4. PICK k \in 1..MaxAttempts : k = attempt[c]
  BY <1>1 DEF Underway
<1>5. PICK e : e = [notification |-> n, channel |-> kind, attempt |-> k, error |-> error]
  OBVIOUS
<1>6. /\ e \in Entry /\ e.notification = n /\ e.channel = kind /\ e.attempt = k /\ e.error = error
  <2>1. k \in Nat
    BY LimitIsPositive
  <2> QED BY <1>2, <1>5, <2>1 DEF Entry
<1>7. log' = Append(log, e)
  BY <1>3, <1>4, <1>5 DEF Record, AttemptEnds
<1>8. Awaits(n, kind, k) /\ Cardinality(ForNotification(n)) = total[c] + k - 1
  BY <1>1, <1>3, <1>4 DEF Underway
<1>9. RetriesJustified'
  BY <1>1, <1>6, <1>7, <1>8, RetriesStep
<1>10. DuplicatesAreLogged' /\ copies' \in [Notifications -> Nat]
  <2>1. copies' = [copies EXCEPT ![n] = @ + m] /\ Copied(e.error, m)
    BY <1>6 DEF AttemptEnds
  <2> QED BY <1>1, <1>2, <1>6, <1>7, <2>1, CopiesStep
<1>11. /\ ForNotification(n)' = ForNotification(n) \cup {Len(log) + 1} /\ Len(log) \in Nat
       /\ \A q \in Notifications \ {n} : ForNotification(q)' = ForNotification(q)
       /\ \A q \in Notifications : \A i \in ForNotification(q) : log'[i] = log[i]
  <2>1. /\ ForNotification(n)' = ForNotification(n) \cup {Len(log) + 1}
        /\ \A q \in Notifications : q # n => ForNotification(q)' = ForNotification(q)
    BY <1>1, <1>6, <1>7, EntriesGrow
  <2>2. \A q \in Notifications : \A i \in ForNotification(q) : log'[i] = log[i]
    BY <1>1, <1>6, <1>7, EntriesGrow
  <2> QED BY <1>1, <2>1, <2>2
<1>12. Logged(n)
  BY <1>1, <1>6, <1>7, <1>9, <1>10, <1>11, LogGrows DEF Logged
<1>13. Cardinality(ForNotification(n)') = total[c] + k
  <2>1. Cardinality(ForNotification(n)') = Cardinality(ForNotification(n)) + 1
    BY <1>1, <1>6, <1>7, CountGrows
  <2> QED BY <1>1, <1>8, <2>1, LimitIsPositive
<1>14. PICK top \in DOMAIN log' : top = Len(log) + 1 /\ log'[top] = e
  BY <1>1, <1>6, <1>7, LogGrows
<1>15. \A i \in ForNotification(n) : log'[i] = log[i] /\ log[i].error # None /\ i < top /\ i \in Nat
  BY <1>1, <1>2, <1>8, <1>11, <1>14, EntriesFinite DEF Awaits
<1>16. Last(n, top)' /\ \A i \in DOMAIN log' : Last(n, i)' => i = top
  BY <1>11, <1>14, <1>15 DEF Last
<1> QED BY <1>2, <1>3, <1>4, <1>6, <1>11, <1>12, <1>13, <1>14, <1>15, <1>16

Thrown   == {"transient", "final"}
Failures == Thrown \cup {"no address"}

OutOfAttempts(c, error) == error # "transient" \/ attempt[c] = MaxAttempts

\* The channel is given up with a failure that is not retried.
LEMMA GiveUpInv ==
  ASSUME IInv, NEW c \in Callers, phase[c] = "sending", NEW n, n = Current(c),
         NEW error \in Failures, NEW m \in {0, 1}, AttemptEnds(c, error, m),
         OutOfAttempts(c, error), GiveUp(c, error)
  PROVE  IInv'
<1>1. error \in Errors /\ error # None
  BY DEF Errors, None, Failures, Thrown
<1>2. /\ n \in Notifications /\ Logged(n) /\ Cardinality(ForNotification(n)') = total[c] + attempt[c]
  BY <1>1, RecordStep
<1>3. PICK top \in DOMAIN log' :
        /\ ForNotification(n)' = ForNotification(n) \cup {top}
        /\ \A i \in DOMAIN log' : Last(n, i)' => i = top
        /\ \A i \in ForNotification(n) : log'[i].error # None
        /\ log'[top].error = error /\ log'[top].attempt = attempt[c]
  BY <1>1, RecordStep
<1>4. /\ TypeOK /\ at[c] \in DOMAIN Batch[c] /\ walk[c] \in DOMAIN Preferred[n]
      /\ Refused(n, results[c], walk[c] - 1) /\ attempt[c] \in 1..MaxAttempts /\ total[c] \in Nat
  BY DEF IInv, Underway, TypeOK
<1>5. PICK w \in Nat \ {0} : w = walk[c] /\ w <= Len(Preferred[n]) /\ Preferred[n] \in Seq(Kinds)
  BY <1>2, <1>4, ParametersTyped
<1>6. PICK kind \in Kinds : kind = Kind(c) /\ kind = Preferred[n][w]
  BY <1>1, <1>5 DEF Kind
<1>7. PICK t \in Nat : t = total[c] + attempt[c]
  BY <1>4, LimitIsPositive
<1>8. PICK r : r = [channel |-> kind, error |-> error]
  OBVIOUS
<1>9. r \in Result /\ r.channel = kind /\ r.error = error
  BY <1>1, <1>8 DEF Result
<1>10. PICK res : res = Append(results[c], r)
  OBVIOUS
<1>11. Refused(n, res, w)
  <2>1. results[c] \in Seq(Result) /\ Len(results[c]) = w - 1
    BY <1>4, <1>5 DEF Refused
  <2>2. res \in Seq(Result) /\ Len(res) = w /\ res[w] = r /\ \A k \in 1..(w - 1) : res[k] = results[c][k]
    BY <1>9, <1>10, <2>1
  <2>3. ASSUME NEW k \in 1..w PROVE res[k].channel = Preferred[n][k] /\ res[k].error # None
    <3>1. CASE k = w
      BY <3>1, <2>2, <1>1, <1>6, <1>9
    <3>2. CASE k \in 1..(w - 1)
      BY <3>2, <2>2, <1>4, <1>5 DEF Refused
    <3> QED BY <3>1, <3>2
  <2> QED BY <1>5, <2>2, <2>3 DEF Refused
<1>12. Exhausted(n, t)'
  <2>1. \A i \in ForNotification(n)' : log'[i].error # None
    BY <1>1, <1>3
  <2>2. ASSUME NEW i \in DOMAIN log', Last(n, i)'
        PROVE  log'[i].error # "transient" \/ log'[i].attempt = MaxAttempts
    <3>1. log'[i].error = error /\ log'[i].attempt = attempt[c]
      BY <1>3, <2>2
    <3> QED BY <3>1 DEF OutOfAttempts
  <2> QED BY <1>2, <1>7, <2>1, <2>2 DEF Exhausted
<1>13. GoOn(c, w + 1, res, t)
  BY <1>5, <1>6, <1>7, <1>8, <1>10 DEF GiveUp
<1>14. PICK i \in Nat \ {0} : i = w + 1 /\ i - 1 = w /\ i <= Len(Preferred[n]) + 1
  BY <1>5
<1>15. Preferred[n] # <<>>
  BY <1>5
<1> QED BY <1>1, <1>2, <1>4, <1>11, <1>12, <1>13, <1>14, <1>15, GoOnInv

-----------------------------------------------------------------------------
(* Every action *)

LEMMA DispatchInv ==
  ASSUME IInv, NEW c \in Callers, Dispatch(c)
  PROVE  IInv'
<1>1. PICK n : n = Current(c)
  OBVIOUS
<1>2. /\ TypeOK /\ InOrder(c) /\ phase[c] = "between" /\ at[c] <= Len(Batch[c])
      /\ Preferred[n] # <<>> /\ GoOn(c, 1, <<>>, 0) /\ log' = log /\ copies' = copies
  BY <1>1 DEF Dispatch, IInv, BatchInOrder
<1>3. at[c] \in DOMAIN Batch[c] /\ n = Batch[c][at[c]] /\ n \in Notifications
  BY <1>1, <1>2, Positions, ParametersTyped DEF Current
<1>4. ForNotification(n) = {}
  BY <1>2, <1>3, Zenon DEF InOrder
<1>5. ForNotification(n)' = {} /\ \A m : ForNotification(m)' = ForNotification(m)
  BY <1>2, <1>4 DEF ForNotification
<1>6. RetriesJustified'
  BY <1>2 DEF IInv, RetriesJustified, Successive
<1>7. DuplicatesAreLogged'
  BY <1>2 DEF IInv, DuplicatesAreLogged, Called, ForNotification
<1>8. Logged(n)
  BY <1>2, <1>5, <1>6, <1>7 DEF Logged, TypeOK
<1>9. PICK t \in Nat : t = 0
  OBVIOUS
<1>10. Exhausted(n, t)'
  BY <1>5, <1>9, FS_EmptySet DEF Exhausted, Last
<1>11. PICK res : res = <<>>
  OBVIOUS
<1>12. PICK i \in Nat \ {0} : i = 1 /\ i <= Len(Preferred[n]) + 1 /\ i - 1 = 0
  BY <1>3, ParametersTyped
<1>13. Refused(n, res, i - 1)
  BY <1>3, <1>11, <1>12, ParametersTyped DEF Refused
<1>14. GoOn(c, i, res, t)
  BY <1>2, <1>9, <1>11, <1>12
<1> QED BY <1>1, <1>2, <1>3, <1>8, <1>10, <1>12, <1>13, <1>14, GoOnInv

\* Steps that leave every call waiting for what it waits for, and change nothing else.
LEMMA StillInv ==
  ASSUME IInv, UNCHANGED <<at, walking, outcomes, log, copies>>,
         phase' \in [Callers -> {"between", "sending", "returned", "thrown"}],
         \A d \in Callers : phase'[d] = "sending" <=> phase[d] = "sending"
  PROVE  IInv'
<1>1. /\ at' = at /\ walk' = walk /\ attempt' = attempt /\ results' = results /\ total' = total
      /\ outcomes' = outcomes /\ log' = log /\ copies' = copies
  BY DEF walking
<1>2. TypeOK /\ TypeOK'
  BY <1>1 DEF IInv, TypeOK
<1>3. \A n : ForNotification(n)' = ForNotification(n)
  BY <1>1 DEF ForNotification
<1>4. RetriesJustified'
  BY <1>1 DEF IInv, RetriesJustified, Successive
<1>5. DuplicatesAreLogged'
  BY <1>1 DEF IInv, DuplicatesAreLogged, Called, ForNotification
<1>6. ASSUME NEW d \in Callers
      PROVE  InOrder(d)' /\ Settled(d)' /\ (phase'[d] = "sending" => Underway(d)') /\ at'[d] <= Len(Batch[d]) + 1
  <2>1. /\ InOrder(d) /\ Settled(d) /\ (phase[d] = "sending" => Underway(d)) /\ at[d] <= Len(Batch[d]) + 1
    BY DEF IInv, BatchInOrder
  <2>2. (phase'[d] = "sending" <=> phase[d] = "sending")
    OBVIOUS
  <2>3. InOrder(d)'
    BY <1>1, <1>3, <2>1, <2>2 DEF InOrder
  <2>4. Settled(d)'
    <3>1. ASSUME NEW o PROVE (ToldByLog(o) => ToldByLog(o)') /\ (FirstAccepted(o) => FirstAccepted(o)')
      BY <1>1, <1>3 DEF ToldByLog, FirstAccepted
    <3>2. ASSUME NEW i \in DOMAIN outcomes[d] PROVE (ToldByLog(outcomes[d][i]) /\ FirstAccepted(outcomes[d][i]))'
      <4>1. PICK o : o = outcomes[d][i]
        OBVIOUS
      <4>2. ToldByLog(o) /\ FirstAccepted(o) /\ o = outcomes[d][i]'
        BY <1>1, <2>1, <4>1 DEF Settled
      <4> QED BY <3>1, <4>2
    <3> QED BY <1>1, <3>2 DEF Settled
  <2>5. Underway(d) => Underway(d)'
    BY <1>1 DEF Underway, Refused, Awaits, Last, ForNotification, Current, Kind
  <2> QED BY <1>1, <2>1, <2>2, <2>3, <2>4, <2>5
<1> QED BY <1>2, <1>4, <1>5, <1>6 DEF IInv, BatchInOrder

LEMMA StopInv ==
  ASSUME IInv, NEW c \in Callers, Throw(c) \/ Return(c)
  PROVE  IInv'
<1>1. PICK end \in {"returned", "thrown"} : phase' = [phase EXCEPT ![c] = end]
  BY DEF Throw, Return
<1>2. phase[c] = "between" /\ UNCHANGED <<at, walking, outcomes, log, copies>>
  BY DEF Throw, Return
<1>3. phase \in [Callers -> {"between", "sending", "returned", "thrown"}]
  BY DEF IInv, TypeOK
<1> QED BY <1>1, <1>2, <1>3, StillInv

LEMMA SucceedInv ==
  ASSUME IInv, NEW c \in Callers, Succeed(c)
  PROVE  IInv'
<1>1. PICK n : n = Current(c)
  OBVIOUS
<1>2. phase[c] = "sending" /\ AttemptEnds(c, None, 1)
  <2>1. Copied(None, 1)
    BY DEF Copied, None
  <2> QED BY <2>1 DEF Succeed, AttemptEnds
<1>3. None \in Errors
  BY DEF Errors, None
<1>4. n \in Notifications /\ Logged(n) /\ Cardinality(ForNotification(n)') = total[c] + attempt[c]
  BY <1>1, <1>2, <1>3, RecordStep
<1>5. PICK top \in DOMAIN log' :
        /\ ForNotification(n)' = ForNotification(n) \cup {top}
        /\ \A i \in ForNotification(n) : log'[i].error # None /\ i < top
        /\ log'[top].error = None
  BY <1>1, <1>2, <1>3, RecordStep
<1>6. /\ TypeOK /\ at[c] \in DOMAIN Batch[c] /\ walk[c] \in DOMAIN Preferred[n]
      /\ Refused(n, results[c], walk[c] - 1) /\ attempt[c] \in 1..MaxAttempts /\ total[c] \in Nat
  BY <1>1, <1>2 DEF IInv, Underway, TypeOK
<1>7. PICK w \in Nat \ {0} : w = walk[c] /\ w <= Len(Preferred[n]) /\ Preferred[n] \in Seq(Kinds)
  BY <1>4, <1>6, ParametersTyped
<1>8. PICK kind \in Kinds : kind = Kind(c) /\ kind = Preferred[n][w]
  BY <1>1, <1>7 DEF Kind
<1>9. PICK t \in Nat : t = total[c] + attempt[c]
  BY <1>6, LimitIsPositive
<1>10. PICK r : r = [channel |-> kind, error |-> None]
  OBVIOUS
<1>11. r \in Result /\ r.channel = kind /\ r.error = None
  BY <1>3, <1>10 DEF Result
<1>12. PICK res : res = Append(results[c], r)
  OBVIOUS
<1>13. /\ res \in Seq(Result) /\ Len(res) = w /\ res[w] = r
       /\ \A k \in 1..(w - 1) : res[k] = results[c][k]
  <2>1. results[c] \in Seq(Result) /\ Len(results[c]) = w - 1
    BY <1>6, <1>7 DEF Refused
  <2> QED BY <1>11, <1>12, <2>1
<1>14. PICK new : new = [notification |-> n, delivered |-> TRUE, results |-> res, totalAttempts |-> t]
  OBVIOUS
<1>15. \A k \in 1..(w - 1) : results[c][k].channel = Preferred[n][k] /\ results[c][k].error # None
  BY <1>6, <1>7 DEF Refused
<1>16. FirstAccepted(new)
  <2>1. \A k \in 1..w : k = w \/ k \in 1..(w - 1)
    OBVIOUS
  <2>2. \A k \in 1..w : res[k].channel = Preferred[n][k]
    BY <1>8, <1>11, <1>13, <1>15, <2>1
  <2>3. \A k \in 1..(w - 1) : res[k].error # None
    BY <1>13, <1>15
  <2>4. w \in 1..Len(Preferred[n]) /\ res[w].error = None
    BY <1>7, <1>11, <1>13
  <2>5. new.notification = n /\ new.delivered = TRUE /\ new.results = res /\ Len(res) = w
    BY <1>13, <1>14
  <2> QED BY <2>2, <2>3, <2>4, <2>5 DEF FirstAccepted
<1>17. ToldByLog(new)'
  <2>1. Cardinality(ForNotification(n)') = t /\ \E i \in ForNotification(n)' : log'[i].error = None
    BY <1>4, <1>5, <1>9
  <2>2. ASSUME NEW i \in ForNotification(n)', NEW k \in ForNotification(n)', i < k
        PROVE  log'[i].error # None
    <3>1. i # top
      <4>1. k = top \/ k < top
        BY <1>5
      <4>2. top \in Nat /\ i \in Nat /\ k \in Nat
        BY <1>4 DEF Logged, ForNotification
      <4> QED BY <2>2, <4>1, <4>2
    <3> QED BY <1>5, <3>1
  <2>3. new.notification = n /\ new.delivered = TRUE /\ new.totalAttempts = t
    BY <1>14
  <2> QED BY <2>1, <2>2, <2>3 DEF ToldByLog
<1>18. Deliver(c, TRUE, res, t)
  BY <1>8, <1>9, <1>10, <1>12 DEF Succeed
<1> QED BY <1>1, <1>4, <1>6, <1>13, <1>14, <1>16, <1>17, <1>18, DeliverInv

LEMMA RetryInv ==
  ASSUME IInv, NEW c \in Callers, NEW m \in {0, 1}, Retry(c, "transient", m)
  PROVE  IInv'
<1>1. PICK n : n = Current(c)
  OBVIOUS
<1>2. PICK error : error = "transient"
  OBVIOUS
<1>3. error \in Errors /\ phase[c] = "sending" /\ AttemptEnds(c, error, m) /\ attempt[c] < MaxAttempts
  BY <1>2 DEF Retry, AttemptEnds, Copied, None, Errors
<1>4. n \in Notifications /\ Logged(n) /\ Cardinality(ForNotification(n)') = total[c] + attempt[c]
  BY <1>1, <1>3, RecordStep
<1>5. PICK top \in DOMAIN log' :
        /\ ForNotification(n)' = ForNotification(n) \cup {top} /\ Last(n, top)'
        /\ \A i \in ForNotification(n) : log'[i].error # None
        /\ log'[top].error = error /\ log'[top].channel = Kind(c) /\ log'[top].attempt = attempt[c]
  BY <1>1, <1>3, RecordStep
<1>6. /\ TypeOK /\ at[c] \in DOMAIN Batch[c] /\ walk[c] \in DOMAIN Preferred[n]
      /\ Refused(n, results[c], walk[c] - 1) /\ attempt[c] \in 1..MaxAttempts /\ total[c] \in Nat
  BY <1>1, <1>3 DEF IInv, Underway, TypeOK
<1>7. PICK w \in DOMAIN Preferred[n] : w = walk[c]
  BY <1>6
<1>8. PICK k \in 1..MaxAttempts : k = attempt[c] + 1 /\ k > 1 /\ k # 1 /\ k - 1 = attempt[c]
  BY <1>3, <1>6, LimitIsPositive
<1>9. PICK t \in Nat : t = total[c]
  BY <1>6
<1>10. PICK res : res = results[c]
  OBVIOUS
<1>11. PICK kind : kind = Preferred[n][w]
  OBVIOUS
<1>12. kind = Kind(c)
  BY <1>1, <1>7, <1>11 DEF Kind
<1>13. Awaits(n, kind, k)'
  <2>1. error # None
    BY <1>2 DEF None
  <2>2. \A i \in ForNotification(n)' : log'[i].error # None
    BY <1>5, <2>1
  <2>3. /\ Last(n, top)' /\ log'[top].channel = kind
        /\ log'[top].error = "transient" /\ log'[top].attempt = k - 1
    BY <1>2, <1>5, <1>8, <1>12
  <2> QED BY <1>8, <2>2, <2>3 DEF Awaits
<1>14. Cardinality(ForNotification(n)') = t + k - 1
  BY <1>4, <1>6, <1>8, <1>9
<1>15. Attempt(c, w, k, res, t)
  BY <1>7, <1>8, <1>9, <1>10 DEF Retry
<1>16. Refused(n, res, w - 1)
  BY <1>6, <1>7, <1>10
<1> QED BY <1>1, <1>4, <1>6, <1>11, <1>13, <1>14, <1>15, <1>16, AttemptInv

LEMMA FallThroughInv ==
  ASSUME IInv, NEW c \in Callers, NEW error \in Thrown, NEW m \in {0, 1}, FallThrough(c, error, m)
  PROVE  IInv'
<1>1. phase[c] = "sending" /\ AttemptEnds(c, error, m) /\ GiveUp(c, error)
  BY DEF FallThrough, AttemptEnds, Copied, Thrown, None
<1>2. OutOfAttempts(c, error)
  <2>1. attempt[c] \in 1..MaxAttempts
    BY <1>1 DEF IInv, Underway
  <2>2. error = "transient" => attempt[c] >= MaxAttempts
    BY DEF FallThrough
  <2>3. attempt[c] >= MaxAttempts => attempt[c] = MaxAttempts
    BY <2>1, LimitIsPositive
  <2> QED BY <2>2, <2>3 DEF OutOfAttempts
<1> QED BY <1>1, <1>2, GiveUpInv DEF Failures

LEMMA UnaddressedInv ==
  ASSUME IInv, NEW c \in Callers, Unaddressed(c)
  PROVE  IInv'
<1>1. PICK error : error = "no address"
  OBVIOUS
<1>2. error \in Failures /\ Copied(error, 0) /\ OutOfAttempts(c, error)
  BY <1>1 DEF Failures, Thrown, Copied, None, OutOfAttempts
<1>3. phase[c] = "sending" /\ Record(c, error) /\ GiveUp(c, error) /\ copies' = copies
  BY <1>1 DEF Unaddressed
<1>4. PICK n : n = Current(c)
  OBVIOUS
<1>5. copies' = [copies EXCEPT ![n] = @ + 0]
  <2>1. n \in Notifications /\ copies \in [Notifications -> Nat]
    BY <1>3, <1>4, ParametersTyped, SMTT(30) DEF IInv, Underway, Current, TypeOK
  <2>2. copies[n] + 0 = copies[n]
    BY <2>1
  <2> QED BY <1>3, <2>1, <2>2
<1>6. AttemptEnds(c, error, 0)
  BY <1>2, <1>3, <1>4, <1>5 DEF AttemptEnds
<1> QED BY <1>2, <1>3, <1>6, GiveUpInv

LEMMA InitInv == Init => IInv
<1> SUFFICES ASSUME Init PROVE IInv
  OBVIOUS
<1>1. TypeOK
  BY LimitIsPositive DEF Init, TypeOK
<1>2. \A n : ForNotification(n) = {} /\ Called(n) = {}
  BY DEF Init, ForNotification, Called
<1>3. RetriesJustified
  BY DEF Init, RetriesJustified
<1>4. DuplicatesAreLogged
  BY <1>2, FS_EmptySet DEF Init, DuplicatesAreLogged
<1>5. BatchInOrder
  BY <1>2 DEF Init, BatchInOrder, InOrder
<1>6. \A c \in Callers : Settled(c) /\ phase[c] # "sending" /\ at[c] <= Len(Batch[c]) + 1
  BY ParametersTyped DEF Init, Settled
<1> QED BY <1>1, <1>3, <1>4, <1>5, <1>6 DEF IInv

LEMMA NextInv == IInv /\ [Next]_vars => IInv'
<1> SUFFICES ASSUME IInv, [Next]_vars PROVE IInv'
  OBVIOUS
<1>1. CASE UNCHANGED vars
  <2>1. phase \in [Callers -> {"between", "sending", "returned", "thrown"}] /\ phase' = phase
    BY <1>1 DEF IInv, TypeOK, vars
  <2> QED BY <1>1, <2>1, StillInv DEF vars
<1>2. CASE Next
  <2>1. PICK c \in Callers : Step(c)
    BY <1>2 DEF Next
  <2>2. CASE Dispatch(c)
    BY <2>2, DispatchInv
  <2>3. CASE Throw(c) \/ Return(c)
    BY <2>3, StopInv
  <2>5. CASE Succeed(c)
    BY <2>5, SucceedInv
  <2>6. CASE Unaddressed(c)
    BY <2>6, UnaddressedInv
  <2>7. CASE Fail(c)
    <3>1. PICK error \in {"transient", "final"}, m \in 0..1 : Retry(c, error, m) \/ FallThrough(c, error, m)
      BY <2>7 DEF Fail
    <3>2. error \in Thrown /\ (Retry(c, error, m) => error = "transient")
      BY <3>1 DEF Thrown, Retry
    <3>3. m \in {0, 1}
      BY <3>1
    <3> QED BY <3>1, <3>2, <3>3, RetryInv, FallThroughInv
  <2> QED BY <2>1, <2>2, <2>3, <2>5, <2>6, <2>7 DEF Step
<1> QED BY <1>1, <1>2

\* What a caller is told, what the log has and what recipients got agree, however many
\* calls of dispatchAll() share the service, whatever their batches and however the
\* transports behave.
THEOREM OutcomesAlwaysAgree == Spec => []OutcomesAgree
<1>1. IInv => OutcomesAgree
  <2> SUFFICES ASSUME IInv PROVE OutcomesAgree
    OBVIOUS
  <2>1. ASSUME NEW o \in Outcomes PROVE ToldByLog(o) /\ FirstAccepted(o)
    BY DEF IInv, Settled, Outcomes
  <2> QED BY <2>1 DEF IInv, OutcomesAgree, LogTellsOutcome, FirstAcceptingChannel
<1> QED BY <1>1, InitInv, NextInv, PTL DEF Spec

-----------------------------------------------------------------------------
(* Connectors *)

UpstreamFailures == {"retryable", "error"}

\* What is known of a call c in each stage of execute().
StageInv(c) ==
  /\ stage[c] \in {"idle", "secret"} => tries[c] = 0 /\ answer[c] = NoStatus
  /\ stage[c] \in {"fetching", "reading", "failed", "sleeping"} => tries[c] > 0
  /\ stage[c] \in {"failed", "sleeping"} => answer[c] \in UpstreamFailures
  /\ stage[c] = "sleeping" => tries[c] < PolicyAttempts
  /\ stage[c] # "over" => ending[c] = "none"

\* A status that has been read stays true of the upstream: an attempt carried out is off the
\* wire, and one that was refused has left it.
Truthful(c) ==
  /\ answer[c] = status[c] /\ status[c] \in {"ok", "refused"}
  /\ status[c] = "ok" => tries[c] \in carried[c]
  /\ status[c] = "refused" => tries[c] \notin wire[c] \cup carried[c]

ReadInv(c) == stage[c] = "reading" \/ ending[c] \in {"value", "TypeError"} => Truthful(c)

Bounded(c) ==
  /\ wire[c] \cup carried[c] \subseteq 1..tries[c] /\ wire[c] \cap carried[c] = {}
  /\ tries[c] <= PolicyAttempts

FailInv(c) ==
  /\ ending[c] = "TransportError" =>
       tries[c] = PolicyAttempts /\ answer[c] \in {"retryable", "error", NoStatus}
  /\ ending[c] \in {"CapabilityError", "SecretError"} => wire[c] = {} /\ carried[c] = {}

\* The inductive invariant of the connectors.
ConnectorInv == ConnectorTypeOK /\ \A c \in Calls : StageInv(c) /\ ReadInv(c) /\ Bounded(c) /\ FailInv(c)

LEMMA ConnectorInitInv == ConnectorInit => ConnectorInv
<1> SUFFICES ASSUME ConnectorInit PROVE ConnectorInv
  OBVIOUS
<1>1. ConnectorTypeOK
  BY DEF ConnectorInit, ConnectorTypeOK, Endings, NoStatus, Statuses
<1>2. ASSUME NEW c \in Calls PROVE StageInv(c) /\ ReadInv(c) /\ Bounded(c) /\ FailInv(c)
  BY PolicyAssumption DEF ConnectorInit, StageInv, ReadInv, Bounded, FailInv
<1> QED BY <1>1, <1>2 DEF ConnectorInv

\* All an action of the call c leaves to be shown is what it does to c itself.
LEMMA StepOfOne ==
  ASSUME ConnectorInv, ConnectorTypeOK', NEW c \in Calls,
         \A d \in Calls \ {c} : /\ stage'[d] = stage[d] /\ tries'[d] = tries[d] /\ status'[d] = status[d]
                                /\ answer'[d] = answer[d] /\ wire'[d] = wire[d] /\ carried'[d] = carried[d]
                                /\ ending'[d] = ending[d],
         StageInv(c)', ReadInv(c)', Bounded(c)', FailInv(c)'
  PROVE  ConnectorInv'
<1>1. ASSUME NEW d \in Calls \ {c} PROVE (StageInv(d) /\ ReadInv(d) /\ Bounded(d) /\ FailInv(d))'
  <2>1. StageInv(d) /\ ReadInv(d) /\ Bounded(d) /\ FailInv(d)
    BY DEF ConnectorInv
  <2>2. StageInv(d)'
    BY <2>1 DEF StageInv
  <2>3. ReadInv(d)'
    BY <2>1 DEF ReadInv, Truthful
  <2>4. Bounded(d)' /\ FailInv(d)'
    BY <2>1 DEF Bounded, FailInv
  <2> QED BY <2>2, <2>3, <2>4
<1> QED BY <1>1 DEF ConnectorInv

LEMMA FetchInv ==
  ASSUME ConnectorInv, NEW c \in Calls, Fetch(c), tries[c] < PolicyAttempts, ending[c] = "none",
         UNCHANGED <<status, carried, ending, registry, sync>>
  PROVE  ConnectorInv'
<1> USE DEF Fetch
<1>1. ConnectorTypeOK /\ Bounded(c)
  BY DEF ConnectorInv
<1>2. tries[c] \in Nat /\ tries[c] + 1 \in Nat \ {0} /\ PolicyAttempts \in Nat
  BY <1>1, PolicyAssumption DEF ConnectorTypeOK
<1>3. ConnectorTypeOK'
  BY <1>1, <1>2 DEF ConnectorTypeOK, NoStatus
<1>4. /\ tries'[c] = tries[c] + 1 /\ stage'[c] = "fetching" /\ wire'[c] = wire[c] \cup {tries[c] + 1}
      /\ carried'[c] = carried[c] /\ ending'[c] = "none"
  BY <1>1 DEF ConnectorTypeOK
<1>5. Bounded(c)'
  <2>1. wire'[c] \cup carried'[c] \subseteq 1..tries'[c]
    BY <1>1, <1>2, <1>4 DEF Bounded
  <2>2. tries[c] + 1 \notin carried[c]
    BY <1>1, <1>2 DEF Bounded
  <2> QED BY <1>1, <1>2, <1>4, <2>1, <2>2 DEF Bounded
<1>6. StageInv(c)' /\ ReadInv(c)' /\ FailInv(c)'
  BY <1>2, <1>4 DEF StageInv, ReadInv, FailInv
<1> QED BY <1>1, <1>3, <1>5, <1>6, StepOfOne DEF ConnectorTypeOK

LEMMA AnswerInv ==
  ASSUME ConnectorInv, NEW c \in Calls, NEW s \in Statuses, Answer(c, s)
  PROVE  ConnectorInv'
<1> USE DEF Answer
<1>1. ConnectorTypeOK /\ Bounded(c) /\ StageInv(c) /\ FailInv(c)
  BY DEF ConnectorInv
<1>2. ConnectorTypeOK'
  <2>1. stage' \in [Calls -> {"idle", "secret", "fetching", "reading", "failed", "sleeping", "over"}]
    BY <1>1 DEF ConnectorTypeOK
  <2>2. wire' \in [Calls -> SUBSET (Nat \ {0})]
    <3>1. CASE s = "refused"
      BY <1>1, <3>1 DEF ConnectorTypeOK
    <3>2. CASE s # "refused"
      BY <1>1, <3>2 DEF ConnectorTypeOK
    <3> QED BY <3>1, <3>2
  <2>3. status' \in [Calls -> Statuses \cup {NoStatus}] /\ answer' \in [Calls -> Statuses \cup {NoStatus, "error"}]
    BY <1>1 DEF ConnectorTypeOK
  <2> QED BY <1>1, <2>1, <2>2, <2>3 DEF ConnectorTypeOK
<1>3. /\ stage'[c] = IF s = "retryable" THEN "failed" ELSE "reading"
      /\ status'[c] = s /\ answer'[c] = s /\ tries'[c] = tries[c] /\ carried'[c] = carried[c] /\ ending'[c] = ending[c]
      /\ wire'[c] = IF s = "refused" THEN wire[c] \ {tries[c]} ELSE wire[c]
  BY <1>1 DEF ConnectorTypeOK
<1>4. StageInv(c)'
  BY <1>1, <1>3 DEF StageInv, UpstreamFailures, Statuses
<1>5. ReadInv(c)'
  <2>1. CASE s = "retryable"
    BY <1>1, <1>3, <2>1 DEF ReadInv, StageInv
  <2>2. CASE s # "retryable"
    BY <1>1, <1>3, <2>2 DEF ReadInv, Truthful, Statuses
  <2> QED BY <2>1, <2>2
<1>6. Bounded(c)' /\ FailInv(c)'
  BY <1>1, <1>3 DEF Bounded, FailInv, StageInv
<1> QED BY <1>1, <1>2, <1>4, <1>5, <1>6, StepOfOne DEF ConnectorTypeOK

LEMMA CarryOutInv ==
  ASSUME ConnectorInv, NEW c \in Calls, CarryOut(c)
  PROVE  ConnectorInv'
<1>1. ConnectorTypeOK /\ Bounded(c) /\ StageInv(c) /\ ReadInv(c) /\ FailInv(c)
  BY DEF ConnectorInv
<1>2. PICK k \in wire[c] : /\ carried' = [carried EXCEPT ![c] = @ \cup {k}]
                           /\ wire' = [wire EXCEPT ![c] = @ \ {k}]
                           /\ UNCHANGED <<stage, tries, status, answer, ending, registry, sync>>
  BY DEF CarryOut
<1>3. k \in Nat \ {0}
  BY <1>1 DEF ConnectorTypeOK
<1>4. ConnectorTypeOK'
  BY <1>1, <1>2, <1>3 DEF ConnectorTypeOK
<1>5. carried'[c] = carried[c] \cup {k} /\ wire'[c] = wire[c] \ {k}
  BY <1>1, <1>2 DEF ConnectorTypeOK
<1>6. StageInv(c)' /\ ReadInv(c)' /\ Bounded(c)'
  BY <1>1, <1>2, <1>5 DEF StageInv, ReadInv, Truthful, Bounded
<1>7. FailInv(c)'
  BY <1>1, <1>2 DEF FailInv
<1> QED BY <1>1, <1>2, <1>4, <1>6, <1>7, StepOfOne DEF ConnectorTypeOK

\* The steps that neither send a request nor learn of one.
LEMMA QuietInv ==
  ASSUME ConnectorInv, NEW c \in Calls,
         \/ Call(c) \/ NoSecret(c) \/ BreakOff(c) \/ GoAgain(c)
         \/ \E empty \in BOOLEAN : Normalize(c, empty)
  PROVE  ConnectorInv'
<1>1. ConnectorTypeOK /\ Bounded(c) /\ StageInv(c) /\ ReadInv(c) /\ FailInv(c)
  BY DEF ConnectorInv
<1>2. tries[c] \in Nat /\ PolicyAttempts \in Nat
  BY <1>1, PolicyAssumption DEF ConnectorTypeOK
<1>3. tries[c] = 0 => wire[c] = {} /\ carried[c] = {}
  BY <1>1, <1>2 DEF Bounded
<1>4. CASE Call(c)
  <2>1. ConnectorTypeOK'
    BY <1>1, <1>4 DEF Call, Finish, ConnectorTypeOK, Endings
  <2>2. StageInv(c)' /\ ReadInv(c)' /\ Bounded(c)' /\ FailInv(c)'
    BY <1>1, <1>3, <1>4 DEF Call, Finish, StageInv, ReadInv, Bounded, FailInv, ConnectorTypeOK
  <2> QED BY <1>1, <1>4, <2>1, <2>2, StepOfOne DEF Call, Finish, ConnectorTypeOK
<1>5. CASE NoSecret(c)
  <2>1. ConnectorTypeOK'
    BY <1>1, <1>5 DEF NoSecret, Finish, ConnectorTypeOK, Endings
  <2>2. StageInv(c)' /\ ReadInv(c)' /\ Bounded(c)' /\ FailInv(c)'
    BY <1>1, <1>3, <1>5 DEF NoSecret, Finish, StageInv, ReadInv, Bounded, FailInv, ConnectorTypeOK
  <2> QED BY <1>1, <1>5, <2>1, <2>2, StepOfOne DEF NoSecret, Finish, ConnectorTypeOK
<1>6. CASE BreakOff(c)
  <2>1. ConnectorTypeOK'
    BY <1>1, <1>6 DEF BreakOff, ConnectorTypeOK
  <2>2. StageInv(c)' /\ ReadInv(c)' /\ Bounded(c)' /\ FailInv(c)'
    BY <1>1, <1>6 DEF BreakOff, StageInv, ReadInv, Bounded, FailInv, UpstreamFailures, ConnectorTypeOK
  <2> QED BY <1>1, <1>6, <2>1, <2>2, StepOfOne DEF BreakOff, ConnectorTypeOK
<1>7. CASE GoAgain(c)
  <2>1. ConnectorTypeOK'
    BY <1>1, <1>7 DEF GoAgain, Finish, ConnectorTypeOK, Endings
  <2>2. StageInv(c)' /\ ReadInv(c)' /\ Bounded(c)' /\ FailInv(c)'
    <3>1. CASE tries[c] < PolicyAttempts
      BY <1>1, <1>7, <3>1 DEF GoAgain, StageInv, ReadInv, Truthful, Bounded, FailInv, UpstreamFailures, ConnectorTypeOK
    <3>2. CASE ~(tries[c] < PolicyAttempts)
      <4>1. tries[c] = PolicyAttempts
        BY <1>1, <1>2, <3>2 DEF Bounded
      <4> QED BY <1>1, <1>7, <3>2, <4>1
              DEF GoAgain, Finish, StageInv, ReadInv, Truthful, Bounded, FailInv, UpstreamFailures, ConnectorTypeOK
    <3> QED BY <3>1, <3>2
  <2> QED BY <1>1, <1>7, <2>1, <2>2, StepOfOne DEF GoAgain, Finish, ConnectorTypeOK
<1>8. ASSUME NEW empty \in BOOLEAN, Normalize(c, empty) PROVE ConnectorInv'
  <2>1. ConnectorTypeOK'
    BY <1>1, <1>8 DEF Normalize, Finish, ConnectorTypeOK, Endings
  <2>2. ending'[c] \in {"value", "TypeError"} /\ stage'[c] = "over"
    BY <1>1, <1>8 DEF Normalize, Finish, ConnectorTypeOK
  <2>3. Truthful(c)
    BY <1>1, <1>8 DEF Normalize, ReadInv
  <2>4. StageInv(c)' /\ ReadInv(c)' /\ Bounded(c)' /\ FailInv(c)'
    BY <1>1, <1>8, <2>2, <2>3 DEF Normalize, StageInv, ReadInv, Truthful, Bounded, FailInv
  <2> QED BY <1>1, <1>8, <2>1, <2>4, StepOfOne DEF Normalize, Finish, ConnectorTypeOK
<1> QED BY <1>4, <1>5, <1>6, <1>7, <1>8

SyncRecords == [state : {"idle", "pulling", "over"}, ran : BOOLEAN, records : Nat,
                error : BOOLEAN, cursor : Cursors \cup {NoCursor}]

\* runSync() and the registry share nothing with the calls.
LEMMA RegistryInv ==
  ASSUME ConnectorInv, Register \/ Unregister \/ \E j \in SyncJobs : SyncStep(j)
  PROVE  ConnectorInv'
<1>1. UNCHANGED execution
  BY DEF Register, Unregister, SyncStep, StartSync, PullFails, PullSucceeds
<1>2. ConnectorTypeOK'
  <2>1. ConnectorTypeOK
    BY DEF ConnectorInv
  <2>2. registry' \in BOOLEAN
    BY <2>1 DEF Register, Unregister, SyncStep, StartSync, PullFails, PullSucceeds, ConnectorTypeOK
  <2>3. sync' \in [SyncJobs -> SyncRecords]
    <3>1. sync \in [SyncJobs -> SyncRecords]
      BY <2>1 DEF ConnectorTypeOK, SyncRecords
    <3>2. CASE Register \/ Unregister
      BY <3>1, <3>2 DEF Register, Unregister
    <3>3. ASSUME NEW ran \in BOOLEAN, NEW records \in Nat, NEW error \in BOOLEAN, NEW cursor \in Cursors \cup {NoCursor}
          PROVE  SyncResult(ran, records, error, cursor) \in SyncRecords
      BY DEF SyncResult, SyncRecords
    <3>4. ASSUME NEW j \in SyncJobs, NEW cursor \in Cursors \cup {NoCursor}, StartSync(j, cursor)
          PROVE  sync' \in [SyncJobs -> SyncRecords]
      <4>1. [sync[j] EXCEPT !.state = "pulling", !.cursor = cursor] \in SyncRecords
        BY <3>1 DEF SyncRecords
      <4>2. SyncResult(FALSE, 0, TRUE, NoCursor) \in SyncRecords
        BY <3>3
      <4> QED BY <3>1, <3>4, <4>1, <4>2 DEF StartSync
    <3>5. ASSUME NEW j \in SyncJobs, PullFails(j)
          PROVE  sync' \in [SyncJobs -> SyncRecords]
      <4>1. sync[j].cursor \in Cursors \cup {NoCursor}
        BY <3>1 DEF SyncRecords
      <4>2. SyncResult(TRUE, 0, TRUE, sync[j].cursor) \in SyncRecords
        BY <3>3, <4>1
      <4> QED BY <3>1, <3>5, <4>2 DEF PullFails
    <3>6. ASSUME NEW j \in SyncJobs, NEW records \in PageSizes, NEW next \in Cursors \cup {NoCursor},
                 PullSucceeds(j, records, next)
          PROVE  sync' \in [SyncJobs -> SyncRecords]
      <4>1. (IF next = NoCursor THEN sync[j].cursor ELSE next) \in Cursors \cup {NoCursor}
        BY <3>1 DEF SyncRecords
      <4>2. SyncResult(TRUE, records, FALSE, IF next = NoCursor THEN sync[j].cursor ELSE next) \in SyncRecords
        <5>1. records \in Nat
          BY DEF PageSizes
        <5> QED BY <3>3, <4>1, <5>1, Zenon
      <4> QED BY <3>1, <3>6, <4>2 DEF PullSucceeds
    <3> QED BY <3>2, <3>4, <3>5, <3>6 DEF SyncStep
  <2> QED BY <1>1, <2>1, <2>2, <2>3 DEF ConnectorTypeOK, SyncRecords, execution
<1>3. ASSUME NEW c \in Calls PROVE (StageInv(c) /\ ReadInv(c) /\ Bounded(c) /\ FailInv(c))'
  <2>1. StageInv(c) /\ ReadInv(c) /\ Bounded(c) /\ FailInv(c)
    BY DEF ConnectorInv
  <2> QED BY <1>1, <2>1 DEF execution, StageInv, ReadInv, Truthful, Bounded, FailInv
<1> QED BY <1>2, <1>3 DEF ConnectorInv

LEMMA ConnectorStepInv == ConnectorInv /\ [ConnectorNext]_connectorVars => ConnectorInv'
<1> SUFFICES ASSUME ConnectorInv, [ConnectorNext]_connectorVars PROVE ConnectorInv'
  OBVIOUS
<1>1. ASSUME NEW c \in Calls, ConnectorStep(c) PROVE ConnectorInv'
  <2>1. StageInv(c) /\ ConnectorTypeOK
    BY DEF ConnectorInv
  <2>2. CASE Call(c) \/ NoSecret(c) \/ BreakOff(c) \/ GoAgain(c) \/ \E empty \in BOOLEAN : Normalize(c, empty)
    BY <2>2, QuietInv
  <2>3. CASE Authorize(c)
    <3>1. CASE PolicyAttempts > 0
      <4>1. tries[c] < PolicyAttempts /\ ending[c] = "none"
        BY <2>1, <2>3, <3>1, PolicyAssumption DEF Authorize, StageInv
      <4> QED BY <2>3, <3>1, <4>1, FetchInv DEF Authorize
    <3>2. CASE ~(PolicyAttempts > 0)
      <4>1. ConnectorTypeOK'
        BY <2>1, <2>3, <3>2 DEF Authorize, Finish, ConnectorTypeOK, Endings
      <4>2. tries[c] = PolicyAttempts
        BY <2>1, <2>3, <3>2, PolicyAssumption DEF Authorize, StageInv
      <4>3. Bounded(c)
        BY DEF ConnectorInv
      <4>4. StageInv(c)' /\ ReadInv(c)' /\ Bounded(c)' /\ FailInv(c)'
        BY <2>1, <2>3, <3>2, <4>2, <4>3 DEF Authorize, Finish, StageInv, ReadInv, Bounded, FailInv, ConnectorTypeOK
      <4> QED BY <2>1, <2>3, <3>2, <4>1, <4>4, StepOfOne DEF Authorize, Finish, ConnectorTypeOK
    <3> QED BY <3>1, <3>2
  <2>4. CASE Wake(c)
    BY <2>1, <2>4, FetchInv DEF Wake, StageInv
  <2>5. CASE \E s \in Statuses : Answer(c, s)
    BY <2>5, AnswerInv
  <2> QED BY <1>1, <2>2, <2>3, <2>4, <2>5 DEF ConnectorStep
<1>2. CASE UNCHANGED connectorVars
  <2>1. ConnectorTypeOK'
    BY <1>2 DEF ConnectorInv, ConnectorTypeOK, connectorVars, execution
  <2>2. ASSUME NEW c \in Calls PROVE (StageInv(c) /\ ReadInv(c) /\ Bounded(c) /\ FailInv(c))'
    <3>1. StageInv(c) /\ ReadInv(c) /\ Bounded(c) /\ FailInv(c)
      BY DEF ConnectorInv
    <3> QED BY <1>2, <3>1 DEF connectorVars, execution, StageInv, ReadInv, Truthful, Bounded, FailInv
  <2> QED BY <2>1, <2>2 DEF ConnectorInv
<1> QED BY <1>1, <1>2, CarryOutInv, RegistryInv DEF ConnectorNext

\* The inductive invariant holds, whatever the upstream does and when.
THEOREM ConnectorInvariance == ConnectorSpec => []ConnectorInv
<1> QED BY ConnectorInitInv, ConnectorStepInv, PTL DEF ConnectorSpec

\* What a caller learns of its call is what became of it upstream, for any number of calls and
\* attempts: execute() of connector.ts.
THEOREM AnswersHold == ConnectorSpec => []AnswersAgree
<1>1. ConnectorInv => AnswersAgree
  BY DEF ConnectorInv, AnswersAgree, EffectsBounded, AnswersAreTrue, FailsAfterAllAttempts, ReadInv, Truthful, Bounded, FailInv
<1> QED BY <1>1, ConnectorInvariance, PTL

\* Only failures are repeated: an attempt of execute() follows a failed one, and a failed pull of
\* runSync() leaves the cursor for the next.
THEOREM RepeatsHold == ConnectorSpec => OnlyFailuresRepeat
<1>1. ConnectorInv /\ [ConnectorNext]_connectorVars =>
        [\A c \in Calls : tries[c]' # tries[c] =>
           tries[c]' = tries[c] + 1 /\ (tries[c] > 0 => answer[c] \in {"retryable", "error"})]_connectorVars
  <2> SUFFICES ASSUME ConnectorInv, ConnectorNext, NEW c \in Calls, tries'[c] # tries[c]
               PROVE  tries[c]' = tries[c] + 1 /\ (tries[c] > 0 => answer[c] \in {"retryable", "error"})
    BY DEF connectorVars, execution
  <2>1. StageInv(c) /\ ConnectorTypeOK
    BY DEF ConnectorInv
  <2>2. PICK d \in Calls : Fetch(d) /\ (stage[d] = "secret" \/ stage[d] = "sleeping")
    BY DEF ConnectorNext, ConnectorStep, SyncStep, StartSync, PullFails, PullSucceeds, Register, Unregister, execution,
           CarryOut, Call, NoSecret, BreakOff, GoAgain, Answer, Normalize, Authorize, Wake
  <2>3. d = c /\ tries'[c] = tries[c] + 1
    BY <2>1, <2>2 DEF Fetch, ConnectorTypeOK
  <2> QED BY <2>1, <2>2, <2>3 DEF StageInv, UpstreamFailures
<1>2. ConnectorInv /\ [ConnectorNext]_connectorVars =>
        [\A j \in SyncJobs : sync[j].state = "pulling" /\ sync'[j].state = "over" /\ sync'[j].error =>
           sync'[j].cursor = sync[j].cursor /\ sync'[j].records = 0]_connectorVars
  <2> SUFFICES ASSUME ConnectorInv, ConnectorNext, NEW j \in SyncJobs,
                      sync[j].state = "pulling", sync'[j].state = "over", sync'[j].error
               PROVE  sync'[j].cursor = sync[j].cursor /\ sync'[j].records = 0
    BY DEF connectorVars
  <2>1. ConnectorTypeOK
    BY DEF ConnectorInv
  <2>2. sync' # sync
    OBVIOUS
  <2>3. PICK i \in SyncJobs : SyncStep(i)
    BY <2>2 DEF ConnectorNext, ConnectorStep, Register, Unregister, execution,
           CarryOut, Call, NoSecret, BreakOff, GoAgain, Answer, Normalize, Authorize, Wake
  <2>4. i = j
    BY <2>1, <2>3 DEF SyncStep, StartSync, PullFails, PullSucceeds, ConnectorTypeOK
  <2>5. ~ \E cursor \in Cursors \cup {NoCursor} : StartSync(j, cursor)
    BY DEF StartSync
  <2>6. CASE PullFails(j)
    BY <2>1, <2>6 DEF PullFails, SyncResult, ConnectorTypeOK
  <2>7. ASSUME NEW records \in PageSizes, NEW next \in Cursors \cup {NoCursor}, PullSucceeds(j, records, next)
        PROVE  FALSE
    BY <2>1, <2>7 DEF PullSucceeds, SyncResult, ConnectorTypeOK
  <2> QED BY <2>3, <2>4, <2>5, <2>6, <2>7 DEF SyncStep
<1> QED BY <1>1, <1>2, ConnectorInvariance, PTL DEF ConnectorSpec, OnlyFailuresRepeat, RetriesOnlyFailures, FailedSyncKeepsCursor
=============================================================================
