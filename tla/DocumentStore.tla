--------------------------- MODULE DocumentStore ---------------------------
(***************************************************************************)
(* packages/api/src/http/context.ts, persistence.ts, server.ts: documents  *)
(* kept in a cache by every process of the API and written through to one  *)
(* table of the database.                                                  *)
(*                                                                         *)
(* Nobody waits for a write: it is handed to the connection pool, which    *)
(* runs several at a time, so they commit in any order, or fail.  A process*)
(* may stop at any moment; what it had sent may still commit.  A process   *)
(* that starts loads the table once and never looks at it again.           *)
(*                                                                         *)
(* A row is the set of the requests whose changes it contains; the empty   *)
(* set is no row.  The collections do not interact, one stands for all.    *)
(***************************************************************************)
EXTENDS Naturals, FiniteSets, Sequences, Functions

CONSTANTS
  Replicas, \* the processes of the API
  Gone,     \* stands for a process that has stopped
  Ids,      \* the ids of rows
  Requests, \* the requests that change rows, each of which comes once
  PoolSize  \* max of the connection pool

ASSUME ReplicasAssumption == Gone \notin Replicas
ASSUME PoolAssumption == PoolSize \in Nat \ {0}

VARIABLES
  phase,    \* phase[r]: what the process r does
  durable,  \* durable[r]: r has a persistence adapter
  cache,    \* cache[r]: the rows of its Collection, or those r had when it stopped
  snapshot, \* snapshot[r]: what loadAll() has read
  queue,    \* queue[r]: writes that wait for a connection
  flights,  \* writes that a connection has sent
  table,    \* kv_documents
  served    \* the requests that were answered

(* What can have gone wrong, recorded for the properties only. *)
VARIABLES
  atRisk,   \* atRisk[r]: rows whose writes overlapped, failed or were cut off, or
            \* that another process wrote, since r was hydrated
  missed    \* missed[r]: rows another process may have written since r loaded them

ghosts == <<atRisk, missed>>
vars   == <<phase, durable, cache, snapshot, queue, flights, table, served, ghosts>>

NoRow == {}
Row   == SUBSET Requests
Rows  == [Ids -> Row]
Write == [id : Ids, row : Row, by : Replicas \cup {Gone}, request : Requests]

Queued(r) == Range(queue[r])
Sent(r)   == {w \in flights : w.by = r}

\* The writes of a row that may still commit.
Outstanding(id) ==
  {w \in flights \cup UNION {Queued(r) : r \in Replicas} : w.id = id}

-----------------------------------------------------------------------------
(* Collection: every change of a row is handed to the sink *)

\* Mutant: the row is changed in the cache only.
Put_CacheOnly(r, id, row, q) ==
  /\ phase[r] = "up" /\ q \notin served
  /\ served' = served \cup {q}
  /\ cache' = [cache EXCEPT ![r][id] = row]
  /\ UNCHANGED <<phase, durable, snapshot, queue, flights, table, ghosts>>

Put(r, id, row, q) ==
  /\ phase[r] = "up" /\ q \notin served
  /\ served' = served \cup {q}
  /\ cache' = [cache EXCEPT ![r][id] = row]
  /\ queue' = IF durable[r]
       THEN [queue EXCEPT ![r] = Append(@, [id |-> id, row |-> row, by |-> r, request |-> q])]
       ELSE queue
  /\ atRisk' = [p \in Replicas |->
       IF (IF p = r THEN ~durable[r] \/ Outstanding(id) # {} ELSE durable[r])
       THEN atRisk[p] \cup {id} ELSE atRisk[p]]
  /\ missed' = [p \in Replicas |-> missed[p] \cup {id}]
  /\ UNCHANGED <<phase, durable, snapshot, flights, table>>

\* The id may come with the request, and then replaces a row that has it.
Insert(r, id, q) == Put(r, id, {q}, q)

Update(r, id, q) == cache[r][id] # NoRow /\ Put(r, id, cache[r][id] \cup {q}, q)

Remove(r, id, q) == cache[r][id] # NoRow /\ Put(r, id, NoRow, q)

-----------------------------------------------------------------------------
(* The pool and the database *)

Send(r) ==
  /\ queue[r] # <<>> /\ Cardinality(Sent(r)) < PoolSize
  /\ flights' = flights \cup {Head(queue[r])}
  /\ queue' = [queue EXCEPT ![r] = Tail(@)]
  /\ UNCHANGED <<phase, durable, cache, snapshot, table, served, ghosts>>

\* connectionTimeoutMillis: the write has waited too long; it is only logged.
GiveUp(r) ==
  /\ queue[r] # <<>>
  /\ atRisk' = [atRisk EXCEPT ![r] = @ \cup {Head(queue[r]).id}]
  /\ queue' = [queue EXCEPT ![r] = Tail(@)]
  /\ UNCHANGED <<phase, durable, cache, snapshot, flights, table, served, missed>>

\* Mutant: ON CONFLICT DO NOTHING.
Commit_KeepsFirst(w) ==
  /\ w \in flights
  /\ flights' = flights \ {w}
  /\ table' = IF table[w.id] # NoRow /\ w.row # NoRow THEN table
              ELSE [table EXCEPT ![w.id] = w.row]
  /\ UNCHANGED <<phase, durable, cache, snapshot, queue, served, ghosts>>

Commit(w) ==
  /\ w \in flights
  /\ flights' = flights \ {w}
  /\ table' = [table EXCEPT ![w.id] = w.row]
  /\ UNCHANGED <<phase, durable, cache, snapshot, queue, served, ghosts>>

\* The query is rejected; it is only logged.
Fail(w) ==
  /\ w \in flights
  /\ flights' = flights \ {w}
  /\ atRisk' = [r \in Replicas |-> IF w.by = r THEN atRisk[r] \cup {w.id} ELSE atRisk[r]]
  /\ UNCHANGED <<phase, durable, cache, snapshot, queue, table, served, missed>>

-----------------------------------------------------------------------------
(* Processes stop and start *)

\* What was queued is lost, what was sent is not.
Stop(r) ==
  /\ phase[r] # "down"
  /\ phase' = [phase EXCEPT ![r] = "down"]
  /\ atRisk' = [atRisk EXCEPT ![r] = @ \cup {w.id : w \in Queued(r) \cup Sent(r)}]
  /\ queue' = [queue EXCEPT ![r] = <<>>]
  /\ flights' = {IF w.by = r THEN [w EXCEPT !.by = Gone] ELSE w : w \in flights}
  /\ UNCHANGED <<durable, cache, snapshot, table, served, missed>>

\* createPersistence() does not reach the database: the API boots without it.
StartWithout(r) ==
  /\ phase[r] = "down"
  /\ phase' = [phase EXCEPT ![r] = "up"]
  /\ durable' = [durable EXCEPT ![r] = FALSE]
  /\ cache' = [cache EXCEPT ![r] = [id \in Ids |-> NoRow]]
  /\ atRisk' = [atRisk EXCEPT ![r] = Ids]
  /\ UNCHANGED <<snapshot, queue, flights, table, served, missed>>

LoadAll(r) ==
  /\ phase[r] = "down"
  /\ phase' = [phase EXCEPT ![r] = "loading"]
  /\ durable' = [durable EXCEPT ![r] = TRUE]
  /\ snapshot' = [snapshot EXCEPT ![r] = table]
  /\ missed' = [missed EXCEPT ![r] = {id \in Ids : Outstanding(id) # {}}]
  /\ UNCHANGED <<cache, queue, flights, table, served, atRisk>>

\* hydrate(); the server listens from then on.
Hydrate(r) ==
  /\ phase[r] = "loading"
  /\ phase' = [phase EXCEPT ![r] = "up"]
  /\ cache' = [cache EXCEPT ![r] = snapshot[r]]
  /\ atRisk' = [atRisk EXCEPT ![r] = missed[r]]
  /\ UNCHANGED <<durable, snapshot, queue, flights, table, served, missed>>

-----------------------------------------------------------------------------
Init ==
  /\ phase = [r \in Replicas |-> "down"]
  /\ durable = [r \in Replicas |-> FALSE]
  /\ cache = [r \in Replicas |-> [id \in Ids |-> NoRow]]
  /\ snapshot = [r \in Replicas |-> [id \in Ids |-> NoRow]]
  /\ queue = [r \in Replicas |-> <<>>]
  /\ flights = {}
  /\ table = [id \in Ids |-> NoRow]
  /\ served = {}
  /\ atRisk = [r \in Replicas |-> {}] /\ missed = [r \in Replicas |-> {}]

Mutate(r) ==
  \E id \in Ids, q \in Requests : Insert(r, id, q) \/ Update(r, id, q) \/ Remove(r, id, q)

Next ==
  \/ \E r \in Replicas : \/ Mutate(r) \/ Send(r) \/ GiveUp(r)
                         \/ Stop(r) \/ StartWithout(r) \/ LoadAll(r) \/ Hydrate(r)
  \/ \E w \in flights : Commit(w) \/ Fail(w)

Spec == Init /\ [][Next]_vars

-----------------------------------------------------------------------------
(* Properties *)

\* Every variable has the shape the code gives it.
TypeOK ==
  /\ phase \in [Replicas -> {"down", "loading", "up"}]
  /\ durable \in [Replicas -> BOOLEAN]
  /\ cache \in [Replicas -> Rows] /\ snapshot \in [Replicas -> Rows]
  /\ queue \in [Replicas -> Seq(Write)]
  /\ flights \subseteq Write
  /\ table \in Rows /\ served \subseteq Requests
  /\ atRisk \in [Replicas -> SUBSET Ids] /\ missed \in [Replicas -> SUBSET Ids]

\* The cache of a process and the table differ in a row only while a write of
\* the row is under way, or after its writes overlapped, failed or were cut off,
\* or another process wrote it: the write-through goes wrong in no other way.
SettledRowsAgree ==
  \A r \in Replicas : phase[r] = "up" /\ durable[r] =>
    \A id \in Ids \ atRisk[r] : Outstanding(id) = {} => table[id] = cache[r][id]

\* "On startup loadAll() rehydrates the cache so data survives restarts": a row is
\* served after a restart as it was before, unless one of these things happened.
RestartKeepsRows ==
  [][\A r \in Replicas : phase[r] = "loading" /\ phase'[r] = "up" =>
       \A id \in Ids \ atRisk[r] : cache'[r][id] = cache[r][id]]_vars
=============================================================================
