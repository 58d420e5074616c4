------------------------------ MODULE AuditLog -----------------------------
(***************************************************************************)
(* packages/enterprise/governance/src/audit-log.ts: a ring buffer that     *)
(* overwrites its oldest entry.                                            *)
(*                                                                         *)
(* An entry has what a query can ask for: what was done, by whom, to what, *)
(* whether it succeeded, how severe it is and when.  Its id is left out.   *)
(* The clock may be set back: the newest entry need not be the latest.     *)
(***************************************************************************)
EXTENDS Integers, Sequences, FiniteSets

CONSTANTS
  Capacity,      \* capacity
  AuditActions, AuditActors, AuditResources, AuditMetadata, AuditTimes,
  Inputs,        \* what callers record
  Filters,       \* what callers ask for
  Undefined,     \* the value of a field that is not given, and of an empty slot
  MaxRecorded    \* bound: how many entries are recorded between two clears

Severities == {"info", "warning", "critical"}
\* The actor and the resource are given "when known".
Events(severities) ==
  [action : AuditActions, actor : AuditActors \cup {Undefined}, resource : AuditResources \cup {Undefined},
   success : BOOLEAN, severity : severities, metadata : AuditMetadata, at : AuditTimes]

AuditEntry == Events(Severities)
AuditInput == Events(Severities \cup {Undefined})

ASSUME CapacityAssumption == Capacity \in Nat \ {0}
ASSUME UndefinedAssumption == Undefined \notin Severities \cup AuditEntry
ASSUME InputsAssumption == Inputs \subseteq AuditInput
ASSUME FiltersAssumption == \A f \in Filters : f.limit \in Nat \cup {Undefined}

VARIABLES
  buffer,   \* buffer[i]: the entry at the index i, or Undefined
  head,     \* the index of the next write
  total,    \* the number of entries ever recorded
  recorded  \* history: all entries since the log was last cleared

auditVars == <<buffer, head, total, recorded>>

Slots == 0..(Capacity - 1)

\* An input without a severity gets one from its success.
Materialize(input) ==
  IF input.severity # Undefined THEN input
  ELSE [input EXCEPT !.severity = IF input.success THEN "info" ELSE "warning"]

\* Mutant: the head moves before the entry is written.
Record_AfterHead(e) ==
  /\ head' = (head + 1) % Capacity
  /\ buffer' = [buffer EXCEPT ![head'] = e]
  /\ total' = total + 1
  /\ recorded' = Append(recorded, e)

Record(e) ==
  /\ buffer' = [buffer EXCEPT ![head] = e]
  /\ head' = (head + 1) % Capacity
  /\ total' = total + 1
  /\ recorded' = Append(recorded, e)

Clear ==
  /\ buffer' = [i \in Slots |-> Undefined]
  /\ head' = 0
  /\ total' = 0
  /\ recorded' = <<>>

Size == IF total < Capacity THEN total ELSE Capacity

\* iterateNewestFirst(): it passes over an empty slot, of which there is none.
NewestFirst == [i \in 1..Size |-> buffer[(head - i + Capacity) % Capacity]]

\* matches(): a field of the filter that is undefined asks for nothing.
Satisfies(e, f) ==
  /\ f.action = Undefined \/ e.action = f.action
  /\ f.actor = Undefined \/ e.actor = f.actor
  /\ f.resource = Undefined \/ e.resource = f.resource
  /\ f.severity = Undefined \/ e.severity = f.severity
  /\ f.success = Undefined \/ e.success = (f.success = "yes")
  /\ f.since = Undefined \/ e.at >= f.since
  /\ f.until = Undefined \/ e.at <= f.until

\* The loop of query(): the limit is compared after an entry was pushed, so a limit of 0 lets one through.
Full(out, limit) == limit # Undefined /\ out # <<>> /\ Len(out) >= limit

Push(out, e, f) ==
  IF e # Undefined /\ Satisfies(e, f) /\ ~Full(out, f.limit) THEN Append(out, e) ELSE out

\* What query() has found after each entry.
Scan(f) ==
  LET out[i \in 0..Size] == IF i = 0 THEN <<>> ELSE Push(out[i - 1], NewestFirst[i], f) IN out

Query(f) == Scan(f)[Size]

Everything == [action |-> Undefined, actor |-> Undefined, resource |-> Undefined, severity |-> Undefined,
               success |-> Undefined, since |-> Undefined, until |-> Undefined, limit |-> Undefined]

Recent(count) == Query([Everything EXCEPT !.limit = count])

AuditInit ==
  /\ buffer = [i \in Slots |-> Undefined]
  /\ head = 0 /\ total = 0
  /\ recorded = <<>>

AuditNext ==
  \/ total < MaxRecorded /\ \E input \in Inputs : Record(Materialize(input))
  \/ Clear

AuditSpec == AuditInit /\ [][AuditNext]_auditVars

-----------------------------------------------------------------------------
(* Properties *)

\* Every variable has the shape the code gives it.
AuditTypeOK ==
  /\ buffer \in [Slots -> AuditEntry \cup {Undefined}]
  /\ head \in Slots /\ total \in Nat
  /\ recorded \in Seq(AuditEntry)

\* The ring holds the newest Capacity entries in the order of their age, at any fill
\* and wherever the head is.
RingHoldsNewest ==
  /\ Size = IF Len(recorded) < Capacity THEN Len(recorded) ELSE Capacity
  /\ \A i \in 1..Size :
       buffer[(head - i + Capacity) % Capacity] = recorded[Len(recorded) + 1 - i]

\* Whatever the filter, the answer to a query is retained entries that match all its fields, newest
\* first, and an entry that matches is left out only for newer ones that fill the limit.  A limit of
\* one or more is the cap on the entries that audit-log.ts:39 calls it; a limit of 0 is not, since
\* query() pushes before it compares: it answers with the newest match.
QueryAnswers ==
  \A f \in Filters :
    LET n       == Len(recorded)
        kept    == {p \in 1..n : p > n - Capacity /\ Satisfies(recorded[p], f)}
        answer  == Query(f)
        allowed == IF f.limit = 0 THEN 1 ELSE f.limit
    IN \E at \in [1..Len(answer) -> kept] :
         /\ \A k \in DOMAIN at : answer[k] = recorded[at[k]]
         /\ \A j, k \in DOMAIN at : j < k => at[k] < at[j]
         /\ f.limit = Undefined \/ Len(answer) <= allowed
         /\ \A p \in kept \ {at[k] : k \in DOMAIN at} :
              f.limit # Undefined /\ Len(answer) = allowed /\ \A k \in DOMAIN at : p < at[k]

\* The log as a reader sees it: the sequence without the ring.
Seen == INSTANCE BoundedLog WITH Entries <- AuditEntry, Bound <- Capacity, seen <- NewestFirst

ImplementsBoundedLog == Seen!BoundedSpec
=============================================================================
