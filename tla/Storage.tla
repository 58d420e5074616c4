------------------------------- MODULE Storage ------------------------------
(***************************************************************************)
(* packages/core/storage/src: the transactions of db.ts, whose callbacks   *)
(* may let their TransactionClient escape, and the store of vector-db.ts,  *)
(* whose vectors are stored in batches, deleted and searched by            *)
(* similarity.                                                             *)
(*                                                                         *)
(* query() answers without a database behind it, so a transaction is known *)
(* by the queries it let through.  The vector store is a sequence, as a    *)
(* Map keeps the order in which its keys came.  Square roots are monotone, *)
(* so similarities are compared by integers.                               *)
(***************************************************************************)
EXTENDS Integers, Sequences, FiniteSets

CONSTANTS
  Txs,          \* the calls of transaction()
  MaxQueries,   \* bound: the queries a transaction lets through
  Dimensions, Metric,
  Batches,      \* the calls of upsert(): sequences of [id, embedding, tag]
  VectorIds, Tags,
  Queries       \* the embeddings searched for, of the right dimension

ASSUME MetricAssumption == Metric \in {"cosine", "euclidean", "dot_product"}
ASSUME EntriesAssumption ==
  /\ Batches \subseteq Seq([id : VectorIds, embedding : Seq(Int), tag : Tags])
  /\ \A q \in Queries : q \in Seq(Int) /\ Len(q) = Dimensions

VARIABLES
  connected,
  tx,        \* tx[t]: [stage, active], the progress of transaction() and its client
  ran,       \* history: ran[t], the queries that went through
  vectors    \* the entries of the vector store

txVars == <<connected, tx, ran>>

-----------------------------------------------------------------------------
(* DatabaseManager, TransactionClient *)

TxInit ==
  /\ connected = FALSE
  /\ tx = [t \in Txs |-> [stage |-> "none", active |-> FALSE]]
  /\ ran = [t \in Txs |-> 0]

Connect == connected' = TRUE /\ UNCHANGED <<tx, ran>>
Disconnect == connected' = FALSE /\ UNCHANGED <<tx, ran>>

\* begin() does not look at the connection.
Begin(t) ==
  /\ tx[t].stage = "none"
  /\ tx' = [tx EXCEPT ![t] = [stage |-> "callback", active |-> TRUE]]
  /\ UNCHANGED <<connected, ran>>

\* A query of the callback, or of who keeps the client: without effect if the client is not
\* active or the database not connected.
TxQuery(t) ==
  /\ tx[t].active /\ connected /\ ran[t] < MaxQueries
  /\ ran' = [ran EXCEPT ![t] = @ + 1]
  /\ UNCHANGED <<connected, tx>>

\* A query that throws may end the callback, and so may anything else.
CallbackEnds(t, how) ==
  /\ tx[t].stage = "callback"
  /\ tx' = [tx EXCEPT ![t].stage = how]
  /\ UNCHANGED <<connected, ran>>

\* commit() or rollback(), a microtask after the callback's promise has settled; neither looks
\* at the connection.
Settle(t) ==
  /\ tx[t].stage \in {"returned", "threw"}
  /\ tx' = [tx EXCEPT ![t] = [stage |-> IF @.stage = "returned" THEN "committed" ELSE "rolled back", active |-> FALSE]]
  /\ UNCHANGED <<connected, ran>>

TxNext ==
  \/ Connect \/ Disconnect
  \/ \E t \in Txs : Begin(t) \/ TxQuery(t) \/ Settle(t) \/ \E how \in {"returned", "threw"} : CallbackEnds(t, how)

TxSpec == TxInit /\ [][TxNext]_txVars /\ \A t \in Txs : WF_txVars(Settle(t))

-----------------------------------------------------------------------------
(* VectorStore *)

VectorInit == vectors = <<>>

Fitting(entry) == Len(entry.embedding) = Dimensions

\* Map.set()
Stored(s, entry) ==
  IF \E i \in DOMAIN s : s[i].id = entry.id
  THEN [i \in DOMAIN s |-> IF s[i].id = entry.id THEN entry ELSE s[i]]
  ELSE Append(s, entry)

\* What is stored of a batch: the entries before the first one of a wrong dimension.
Prefix(batch) ==
  LET wrong == {i \in DOMAIN batch : ~Fitting(batch[i])}
  IN IF wrong = {} THEN batch ELSE SubSeq(batch, 1, (CHOOSE i \in wrong : \A j \in wrong : i <= j) - 1)

\* One entry after the other, into what s holds.
StoredAll(s, entries) ==
  LET kept[i \in 0..Len(entries)] == IF i = 0 THEN s ELSE Stored(kept[i - 1], entries[i]) IN kept[Len(entries)]

Upsert(batch) == vectors' = StoredAll(vectors, Prefix(batch))

\* The members of places, the least first by the order that before, a set of pairs, is.
Arranged(places, before) ==
  [n \in 1..Cardinality(places) |-> CHOOSE i \in places : Cardinality({j \in places : <<j, i>> \in before}) = n - 1]

Delete(ids) ==
  LET kept  == {i \in DOMAIN vectors : vectors[i].id \notin ids}
      order == Arranged(kept, {p \in kept \X kept : p[1] < p[2]})
  IN /\ kept # DOMAIN vectors
     /\ vectors' = [n \in DOMAIN order |-> vectors[order[n]]]

VectorNext == (\E batch \in Batches : Upsert(batch)) \/ (\E ids \in SUBSET VectorIds : Delete(ids))

VectorSpec == VectorInit /\ [][VectorNext]_vectors

Dot(a, b) == LET sum[i \in 0..Len(a)] == IF i = 0 THEN 0 ELSE sum[i - 1] + a[i] * b[i] IN sum[Len(a)]
SignedSquare(n) == IF n < 0 THEN 0 - n * n ELSE n * n

\* Mutant: the length of a vector counts.
Closer_Unscaled(q, a, b) ==
  IF Metric = "euclidean" THEN Dot(a, a) - 2 * Dot(q, a) < Dot(b, b) - 2 * Dot(q, b) ELSE Dot(q, a) > Dot(q, b)

\* Is a more similar to q than b?  The similarity to a zero vector is 0.
Closer(q, a, b) ==
  LET Norm(v) == IF Dot(v, v) = 0 THEN 1 ELSE Dot(v, v) IN
  CASE Metric = "cosine"      -> SignedSquare(Dot(q, a)) * Norm(b) > SignedSquare(Dot(q, b)) * Norm(a)
    [] Metric = "dot_product" -> Dot(q, a) > Dot(q, b)
    [] OTHER                  -> Dot(a, a) - 2 * Dot(q, a) < Dot(b, b) - 2 * Dot(q, b)

\* search() with a filter on the tag; the sort is stable.
FoundVectors(q, k, tag) ==
  LET matching == {i \in DOMAIN vectors : vectors[i].tag = tag}
      IsCloser(i, j) == Closer(q, vectors[i].embedding, vectors[j].embedding)
      order == Arranged(matching, {p \in matching \X matching : IsCloser(p[1], p[2]) \/ (~IsCloser(p[2], p[1]) /\ p[1] < p[2])})
  IN [n \in 1..(IF k < Len(order) THEN k ELSE Len(order)) |-> vectors[order[n]]]

-----------------------------------------------------------------------------
(* Properties *)

\* Once a transaction has been committed or rolled back nothing more runs in it, although its
\* client may still be in use elsewhere.
LateQueriesRefused ==
  [][\A t \in Txs : tx[t].stage \in {"committed", "rolled back"} => ran'[t] = ran[t] /\ tx'[t] = tx[t]]_txVars

\* A callback that has ended is followed by a commit if it returned, and by a rollback if it
\* threw, whatever becomes of the connection.
EveryTransactionEnds ==
  \A t \in Txs : /\ tx[t].stage = "returned" ~> tx[t].stage = "committed"
                 /\ tx[t].stage = "threw" ~> tx[t].stage = "rolled back"

\* The store stays searchable: whatever batches were accepted or failed half way, all vectors
\* have the configured dimension and no id is there twice.
AllComparable ==
  /\ \A i \in DOMAIN vectors : Fitting(vectors[i])
  /\ \A i, j \in DOMAIN vectors : vectors[i].id = vectors[j].id => i = j

\* A search answers with as many of the matching entries as asked for, and none it leaves out
\* is closer than one it returns.
SearchIsTopK ==
  \A q \in Queries, tag \in Tags, k \in 0..2 :
    LET found    == FoundVectors(q, k, tag)
        matching == {vectors[i] : i \in {i \in DOMAIN vectors : vectors[i].tag = tag}}
        inside   == {found[i] : i \in DOMAIN found}
    IN /\ inside \subseteq matching
       /\ Cardinality(inside) = Len(found)
       /\ Len(found) = IF Cardinality(matching) < k THEN Cardinality(matching) ELSE k
       /\ \A out \in matching \ inside, in \in inside : ~Closer(q, out.embedding, in.embedding)

\* By cosine and by distance nothing is closer to a stored vector than itself.
SelfIsClosest ==
  Metric # "dot_product" =>
    \A i, j \in DOMAIN vectors : ~Closer(vectors[i].embedding, vectors[j].embedding, vectors[i].embedding)

\* Searches find what is closest, whatever batches went in, whole or in part.
SearchesSound == AllComparable /\ SearchIsTopK /\ SelfIsClosest
=============================================================================
