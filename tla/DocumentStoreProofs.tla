------------------------ MODULE DocumentStoreProofs ------------------------
(***************************************************************************)
(* Proofs about DocumentStore, for every set of processes, rows and        *)
(* requests and every size of the pool.  The inductive invariant is IInv:  *)
(* what is known of a row that is not at risk, in each phase of a process. *)
(***************************************************************************)
EXTENDS DocumentStore, SequenceTheorems, TLAPS

\* A process queues its own writes only.
QueuesOwn == \A r \in Replicas : \A w \in Queued(r) : w.by = r

\* Nobody writes the row, and the table has the version v.
Quiet(id, v) == Outstanding(id) = {} /\ table[id] = v

\* One write of the row is under way: this process wrote what its cache has.
OneWrite(r, id) == \E w \in Outstanding(id) :
  Outstanding(id) = {w} /\ w.by = r /\ w.row = cache[r][id]

UpInv(r) ==
  phase[r] = "up" =>
    /\ ~durable[r] => atRisk[r] = Ids
    /\ durable[r] => \A id \in Ids \ atRisk[r] : Quiet(id, cache[r][id]) \/ OneWrite(r, id)

\* While a process is not up its cache is what it had when it stopped.
DownInv(r) ==
  phase[r] # "up" => \A id \in Ids \ atRisk[r] : Quiet(id, cache[r][id])

LoadInv(r) ==
  phase[r] = "loading" =>
    /\ durable[r]
    /\ \A id \in Ids \ missed[r] : Quiet(id, snapshot[r][id])
    /\ \A id \in Ids \ atRisk[r] : snapshot[r][id] = cache[r][id]

IInv ==
  /\ TypeOK /\ QueuesOwn
  /\ \A r \in Replicas : UpInv(r) /\ DownInv(r) /\ LoadInv(r)

-----------------------------------------------------------------------------
(* Queues *)

LEMMA RangeOfAppend ==
  ASSUME NEW S, NEW s \in Seq(S), NEW e \in S
  PROVE  Range(Append(s, e)) = Range(s) \cup {e}
<1>1. /\ Append(s, e) \in Seq(S) /\ Len(Append(s, e)) = Len(s) + 1
      /\ \A i \in 1..Len(s) : Append(s, e)[i] = s[i]
      /\ Append(s, e)[Len(s) + 1] = e
  BY AppendProperties
<1>2. DOMAIN Append(s, e) = 1..(Len(s) + 1) /\ DOMAIN s = 1..Len(s) /\ Len(s) \in Nat
  BY <1>1
<1>3. 1..(Len(s) + 1) = 1..Len(s) \cup {Len(s) + 1}
  BY <1>2
<1> QED BY <1>1, <1>2, <1>3 DEF Range

LEMMA RangeOfTail ==
  ASSUME NEW S, NEW s \in Seq(S), s # <<>>
  PROVE  /\ Head(s) \in S /\ Tail(s) \in Seq(S)
         /\ Head(s) \in Range(s)
         /\ Range(s) = {Head(s)} \cup Range(Tail(s))
<1>1. /\ Head(s) \in S /\ Head(s) = s[1] /\ Tail(s) \in Seq(S) /\ Len(Tail(s)) = Len(s) - 1
      /\ \A i \in 1..Len(Tail(s)) : Tail(s)[i] = s[i + 1]
  BY HeadTailProperties
<1>2. DOMAIN s = 1..Len(s) /\ DOMAIN Tail(s) = 1..(Len(s) - 1) /\ Len(s) \in Nat \ {0}
  BY <1>1
<1>3. \A i \in 1..Len(s) : i = 1 \/ i - 1 \in 1..(Len(s) - 1)
  BY <1>2
<1>4. \A i \in 1..Len(s) : s[i] = Head(s) \/ s[i] \in Range(Tail(s))
  <2>1. SUFFICES ASSUME NEW i \in 1..Len(s), i # 1 PROVE s[i] \in Range(Tail(s))
    BY <1>1
  <2>2. PICK k \in 1..(Len(s) - 1) : k + 1 = i
    BY <1>2, <1>3, <2>1
  <2> QED BY <1>1, <1>2, <2>2 DEF Range
<1>5. \A i \in 1..(Len(s) - 1) : i + 1 \in 1..Len(s)
  BY <1>2
<1> QED BY <1>1, <1>2, <1>4, <1>5 DEF Range

-----------------------------------------------------------------------------
(* What each step does to the writes that are outstanding *)

LEMMA QueueShape ==
  ASSUME TypeOK
  PROVE  /\ queue \in [Replicas -> Seq(Write)]
         /\ \A r \in Replicas : queue[r] \in Seq(Write) /\ Queued(r) \subseteq Write
  BY DEF TypeOK, Queued, Range

LEMMA PutOutstanding ==
  ASSUME TypeOK, NEW r \in Replicas, NEW id \in Ids, NEW row \in Row, NEW q \in Requests,
         Put(r, id, row, q)
  PROVE  \A i \in Ids : Outstanding(i)' =
           IF durable[r] /\ i = id
           THEN Outstanding(i) \cup {[id |-> id, row |-> row, by |-> r, request |-> q]}
           ELSE Outstanding(i)
<1> DEFINE w == [id |-> id, row |-> row, by |-> r, request |-> q]
<1>1. CASE ~durable[r]
  <2>1. flights' = flights /\ queue' = queue
    BY <1>1 DEF Put
  <2> QED BY <1>1, <2>1 DEF Outstanding, Queued
<1>2. CASE durable[r]
  <2>1. flights' = flights /\ queue' = [queue EXCEPT ![r] = Append(@, w)]
    BY <1>2 DEF Put
  <2>2. w \in Write
    BY DEF Write
  <2>3. Queued(r)' = Queued(r) \cup {w}
    BY <2>1, <2>2, QueueShape, RangeOfAppend DEF Queued
  <2>4. \A p \in Replicas : p # r => Queued(p)' = Queued(p)
    BY <2>1, QueueShape DEF Queued
  <2>5. UNION {Queued(p)' : p \in Replicas} = (UNION {Queued(p) : p \in Replicas}) \cup {w}
    BY <2>3, <2>4
  <2> HIDE DEF w
  <2>6. \A i : Outstanding(i)' = {x \in flights \cup (UNION {Queued(p) : p \in Replicas}) \cup {w} : x.id = i}
    BY <2>1, <2>5 DEF Outstanding
  <2>7. w.id = id
    BY DEF w
  <2> QED BY <1>2, <2>6, <2>7 DEF Outstanding, w
<1> QED BY <1>1, <1>2

LEMMA SendOutstanding ==
  ASSUME TypeOK, NEW r \in Replicas, Send(r)
  PROVE  \A i \in Ids : Outstanding(i)' = Outstanding(i)
<1>1. /\ Head(queue[r]) \in Queued(r)
      /\ Queued(r) = {Head(queue[r])} \cup Range(Tail(queue[r]))
  BY QueueShape, RangeOfTail DEF Send, Queued
<1>2. Queued(r)' = Range(Tail(queue[r])) /\ \A p \in Replicas : p # r => Queued(p)' = Queued(p)
  BY QueueShape DEF Send, Queued
<1>3. flights' = flights \cup {Head(queue[r])}
  BY DEF Send
<1>4. flights' \cup UNION {Queued(p)' : p \in Replicas} = flights \cup UNION {Queued(p) : p \in Replicas}
  BY <1>1, <1>2, <1>3
<1> QED BY <1>4 DEF Outstanding

LEMMA GiveUpOutstanding ==
  ASSUME TypeOK, NEW r \in Replicas, GiveUp(r)
  PROVE  /\ Head(queue[r]) \in Write /\ Head(queue[r]) \in Queued(r)
         /\ Head(queue[r]) \in Outstanding(Head(queue[r]).id)
         /\ \A i \in Ids : i # Head(queue[r]).id => Outstanding(i)' = Outstanding(i)
<1>1. /\ Head(queue[r]) \in Queued(r) /\ Head(queue[r]) \in Write
      /\ Queued(r) = {Head(queue[r])} \cup Range(Tail(queue[r]))
  BY QueueShape, RangeOfTail DEF GiveUp, Queued
<1>2. Queued(r)' = Range(Tail(queue[r])) /\ \A p \in Replicas : p # r => Queued(p)' = Queued(p)
  BY QueueShape DEF GiveUp, Queued
<1>3. flights' = flights
  BY DEF GiveUp
<1>4. UNION {Queued(p) : p \in Replicas} = (UNION {Queued(p)' : p \in Replicas}) \cup {Head(queue[r])}
  BY <1>1, <1>2
<1> QED BY <1>1, <1>3, <1>4 DEF Outstanding

\* A write is done, for better or worse.
LEMMA DoneOutstanding ==
  ASSUME NEW w \in flights, flights' = flights \ {w}, queue' = queue
  PROVE  /\ w \in Outstanding(w.id)
         /\ \A i \in Ids : /\ i # w.id => Outstanding(i)' = Outstanding(i)
                          /\ Outstanding(i)' \subseteq Outstanding(i)
  BY DEF Outstanding, Queued

LEMMA StopOutstanding ==
  ASSUME TypeOK, QueuesOwn, NEW r \in Replicas, Stop(r)
  PROVE  \A i \in Ids :
           /\ Outstanding(i) = {} => Outstanding(i)' = {}
           /\ \A w \in Outstanding(i) : Outstanding(i) = {w} /\ w.by # r => Outstanding(i)' = {w}
<1> DEFINE Left(w) == IF w.by = r THEN [w EXCEPT !.by = Gone] ELSE w
<1>1. flights' = {Left(w) : w \in flights} /\ queue' = [queue EXCEPT ![r] = <<>>]
  BY DEF Stop
<1>2. \A w \in flights : Left(w).id = w.id /\ (w.by # r => Left(w) = w)
  BY DEF TypeOK, Write
<1>3. Queued(r)' = {} /\ \A p \in Replicas : p # r => Queued(p)' = Queued(p)
  BY <1>1, QueueShape DEF Queued, Range
<1> HIDE DEF Left
<1>4. \A w \in Queued(r) : w.by = r
  BY DEF QueuesOwn
<1>5. UNION {Queued(p)' : p \in Replicas} \subseteq UNION {Queued(p) : p \in Replicas}
  BY <1>3
<1>6. \A w \in UNION {Queued(p) : p \in Replicas} : w.by # r => w \in UNION {Queued(p)' : p \in Replicas}
  BY <1>3, <1>4
<1>7. SUFFICES ASSUME NEW i \in Ids
      PROVE  /\ Outstanding(i) = {} => Outstanding(i)' = {}
             /\ \A w \in Outstanding(i) : Outstanding(i) = {w} /\ w.by # r => Outstanding(i)' = {w}
  OBVIOUS
<1>8. \A x \in Outstanding(i)' : x \in Outstanding(i) \/ \E w \in flights : x = Left(w) /\ w \in Outstanding(i)
  BY <1>1, <1>2, <1>5 DEF Outstanding
<1>9. \A w \in Outstanding(i) : w.by # r => w \in Outstanding(i)'
  BY <1>1, <1>2, <1>6 DEF Outstanding
<1>10. ASSUME NEW w \in Outstanding(i), Outstanding(i) = {w}, w.by # r
       PROVE  Outstanding(i)' = {w}
  BY <1>2, <1>8, <1>9, <1>10
<1> QED BY <1>8, <1>10

-----------------------------------------------------------------------------
(* The shape of the state *)

LEMMA PutShape ==
  ASSUME TypeOK, QueuesOwn, NEW r \in Replicas, NEW id \in Ids, NEW row \in Row, NEW q \in Requests,
         Put(r, id, row, q)
  PROVE  TypeOK' /\ QueuesOwn'
<1> DEFINE w == [id |-> id, row |-> row, by |-> r, request |-> q]
<1>1. w \in Write /\ w.by = r
  BY DEF Write
<1>2. queue' = IF durable[r] THEN [queue EXCEPT ![r] = Append(@, w)] ELSE queue
  BY DEF Put
<1> HIDE DEF w
<1>3. queue' \in [Replicas -> Seq(Write)]
  BY <1>1, <1>2, QueueShape
<1>4. cache' \in [Replicas -> Rows]
  <2>1. cache' = [cache EXCEPT ![r] = [cache[r] EXCEPT ![id] = row]] /\ cache[r] \in Rows
    BY DEF Put, TypeOK
  <2>2. [cache[r] EXCEPT ![id] = row] \in Rows
    BY <2>1 DEF Rows
  <2> QED BY <2>1, <2>2 DEF TypeOK
<1>5. atRisk' \in [Replicas -> SUBSET Ids] /\ missed' \in [Replicas -> SUBSET Ids]
  BY DEF Put, TypeOK
<1>6. TypeOK'
  BY <1>3, <1>4, <1>5 DEF TypeOK, Put
<1>7. Queued(r)' \subseteq Queued(r) \cup {w}
  BY <1>1, <1>2, QueueShape, RangeOfAppend DEF Queued
<1>8. \A p \in Replicas : p # r => Queued(p)' = Queued(p)
  BY <1>2, QueueShape DEF Queued
<1> QED BY <1>1, <1>6, <1>7, <1>8 DEF QueuesOwn

\* The head of a queue leaves it.
LEMMA DequeueShape ==
  ASSUME TypeOK, QueuesOwn, NEW r \in Replicas, queue[r] # <<>>,
         queue' = [queue EXCEPT ![r] = Tail(@)]
  PROVE  /\ queue' \in [Replicas -> Seq(Write)]
         /\ Head(queue[r]) \in Write
         /\ QueuesOwn'
<1>1. /\ Head(queue[r]) \in Write /\ Tail(queue[r]) \in Seq(Write)
      /\ Queued(r) = {Head(queue[r])} \cup Range(Tail(queue[r]))
  BY QueueShape, RangeOfTail DEF Queued
<1>2. Queued(r)' = Range(Tail(queue[r])) /\ \A p \in Replicas : p # r => Queued(p)' = Queued(p)
  BY QueueShape DEF Queued
<1> QED BY <1>1, <1>2, QueueShape DEF QueuesOwn

LEMMA StopShape ==
  ASSUME TypeOK, QueuesOwn, NEW r \in Replicas, Stop(r)
  PROVE  TypeOK' /\ QueuesOwn'
<1>1. queue' = [queue EXCEPT ![r] = <<>>] /\ <<>> \in Seq(Write)
  BY DEF Stop
<1>2. queue' \in [Replicas -> Seq(Write)]
  BY <1>1, QueueShape
<1>3. \A w \in flights : [w EXCEPT !.by = Gone] \in Write
  BY DEF TypeOK, Write
<1>4. flights' \subseteq Write
  BY <1>3 DEF Stop, TypeOK
<1>5. {w.id : w \in Queued(r) \cup Sent(r)} \subseteq Ids
  BY QueueShape DEF TypeOK, Sent, Write
<1>6. atRisk' \in [Replicas -> SUBSET Ids]
  BY <1>5 DEF Stop, TypeOK
<1>7. Queued(r)' = {} /\ \A p \in Replicas : p # r => Queued(p)' = Queued(p)
  BY <1>1, QueueShape DEF Queued, Range
<1> QED BY <1>2, <1>4, <1>6, <1>7 DEF TypeOK, Stop, QueuesOwn

LEMMA Shape ==
  ASSUME TypeOK, QueuesOwn, [Next]_vars
  PROVE  TypeOK' /\ QueuesOwn'
<1>1. ASSUME NEW r \in Replicas, Mutate(r) PROVE TypeOK' /\ QueuesOwn'
  <2>1. PICK id \in Ids, q \in Requests : Insert(r, id, q) \/ Update(r, id, q) \/ Remove(r, id, q)
    BY <1>1 DEF Mutate
  <2>2. cache[r][id] \in Row
    BY DEF TypeOK, Rows
  <2>3. \E row \in Row : Put(r, id, row, q)
    <3>1. {q} \in Row /\ cache[r][id] \cup {q} \in Row /\ NoRow \in Row
      BY <2>2 DEF Row, NoRow
    <3> QED BY <2>1, <3>1 DEF Insert, Update, Remove
  <2> QED BY <2>3, PutShape
<1>2. ASSUME NEW r \in Replicas, Send(r) PROVE TypeOK' /\ QueuesOwn'
  <2>1. Head(queue[r]) \in Write /\ QueuesOwn' /\ queue' \in [Replicas -> Seq(Write)]
    BY <1>2, DequeueShape DEF Send
  <2>2. flights' \subseteq Write
    BY <1>2, <2>1 DEF TypeOK, Send
  <2> QED BY <1>2, <2>1, <2>2 DEF TypeOK, Send, ghosts
<1>3. ASSUME NEW r \in Replicas, GiveUp(r) PROVE TypeOK' /\ QueuesOwn'
  <2>1. Head(queue[r]).id \in Ids /\ QueuesOwn' /\ queue' \in [Replicas -> Seq(Write)]
    BY <1>3, DequeueShape DEF GiveUp, Write
  <2> QED BY <1>3, <2>1 DEF TypeOK, GiveUp
<1>4. ASSUME NEW r \in Replicas, Stop(r) PROVE TypeOK' /\ QueuesOwn'
  BY <1>4, StopShape
<1>5. ASSUME NEW r \in Replicas, StartWithout(r) PROVE TypeOK' /\ QueuesOwn'
  <2>1. [id \in Ids |-> NoRow] \in Rows
    BY DEF Rows, Row, NoRow
  <2>2. QueuesOwn'
    BY <1>5 DEF QueuesOwn, Queued, StartWithout
  <2> QED BY <1>5, <2>1, <2>2 DEF TypeOK, StartWithout
<1>6. ASSUME NEW r \in Replicas, LoadAll(r) PROVE TypeOK' /\ QueuesOwn'
  <2>1. QueuesOwn'
    BY <1>6 DEF QueuesOwn, Queued, LoadAll
  <2> QED BY <1>6, <2>1 DEF TypeOK, LoadAll
<1>7. ASSUME NEW r \in Replicas, Hydrate(r) PROVE TypeOK' /\ QueuesOwn'
  <2>1. QueuesOwn'
    BY <1>7 DEF QueuesOwn, Queued, Hydrate
  <2> QED BY <1>7, <2>1 DEF TypeOK, Hydrate
<1>8. ASSUME NEW w \in flights, Commit(w) PROVE TypeOK' /\ QueuesOwn'
  <2>1. w.id \in Ids /\ w.row \in Row
    BY DEF TypeOK, Write
  <2>2. table' \in Rows
    BY <1>8, <2>1 DEF Commit, TypeOK, Rows
  <2>3. QueuesOwn'
    BY <1>8 DEF QueuesOwn, Queued, Commit
  <2> QED BY <1>8, <2>2, <2>3 DEF TypeOK, Commit, ghosts
<1>9. ASSUME NEW w \in flights, Fail(w) PROVE TypeOK' /\ QueuesOwn'
  <2>1. w.id \in Ids
    BY DEF TypeOK, Write
  <2>2. QueuesOwn'
    BY <1>9 DEF QueuesOwn, Queued, Fail
  <2>3. atRisk' \in [Replicas -> SUBSET Ids] /\ flights' \subseteq Write
    BY <1>9, <2>1 DEF TypeOK, Fail
  <2> QED BY <1>9, <2>2, <2>3 DEF TypeOK, Fail
<1>10. CASE UNCHANGED vars
  BY <1>10 DEF TypeOK, QueuesOwn, Queued, vars, ghosts
<1> QED BY <1>1, <1>2, <1>3, <1>4, <1>5, <1>6, <1>7, <1>8, <1>9, <1>10 DEF Next

-----------------------------------------------------------------------------
(* What is known of rows that are not at risk *)

Known(r) == UpInv(r) /\ DownInv(r) /\ LoadInv(r)

\* A step that touches no process and no row of the table, and loses no write.
LEMMA KeepsKnown ==
  ASSUME NEW p \in Replicas, Known(p),
         phase'[p] = phase[p], durable'[p] = durable[p], cache'[p] = cache[p],
         snapshot'[p] = snapshot[p], atRisk[p] \subseteq atRisk'[p], atRisk'[p] \subseteq Ids,
         missed[p] \subseteq missed'[p],
         \A id \in Ids : id \notin atRisk'[p] \/ (phase[p] = "loading" /\ id \notin missed'[p]) =>
           /\ Outstanding(id)' = Outstanding(id)
           /\ table'[id] = table[id]
  PROVE  Known(p)'
<1>1. UpInv(p)'
  <2>1. CASE phase[p] # "up"
    BY <2>1 DEF UpInv
  <2>2. CASE phase[p] = "up" /\ ~durable[p]
    <3>1. atRisk[p] = Ids
      BY <2>2 DEF UpInv, Known
    <3>2. atRisk'[p] = Ids
      BY <3>1
    <3> QED BY <2>2, <3>2 DEF UpInv
  <2>3. CASE phase[p] = "up" /\ durable[p]
    <3>1. SUFFICES ASSUME NEW id \in Ids \ atRisk'[p]
          PROVE Quiet(id, cache[p][id])' \/ OneWrite(p, id)'
      BY <2>3 DEF UpInv
    <3>2. Quiet(id, cache[p][id]) \/ OneWrite(p, id)
      BY <2>3 DEF UpInv, Known
    <3>3. Outstanding(id)' = Outstanding(id) /\ table'[id] = table[id]
      OBVIOUS
    <3>4. CASE Quiet(id, cache[p][id])
      BY <3>3, <3>4 DEF Quiet
    <3>5. CASE OneWrite(p, id)
      BY <3>3, <3>5 DEF OneWrite
    <3> QED BY <3>2, <3>4, <3>5
  <2> QED BY <2>1, <2>2, <2>3
<1>2. DownInv(p)'
  BY DEF DownInv, Known, Quiet
<1>3. LoadInv(p)'
  BY DEF LoadInv, Known, Quiet
<1> QED BY <1>1, <1>2, <1>3 DEF Known

\* Only its own write of what its cache has may be under way of a row not at risk.
LEMMA OwnWrite ==
  ASSUME NEW p \in Replicas, Known(p), NEW i \in Ids, NEW w \in Outstanding(i)
  PROVE  /\ i \notin atRisk[p] =>
              /\ phase[p] = "up" /\ durable[p]
              /\ Outstanding(i) = {w} /\ w.by = p /\ w.row = cache[p][i]
         /\ phase[p] = "loading" => i \in missed[p]
<1>1. phase[p] = "loading" => i \in missed[p]
  BY DEF Known, LoadInv, Quiet
<1>2. SUFFICES ASSUME i \notin atRisk[p]
      PROVE  /\ phase[p] = "up" /\ durable[p]
             /\ Outstanding(i) = {w} /\ w.by = p /\ w.row = cache[p][i]
  BY <1>1
<1>3. phase[p] = "up"
  BY <1>2 DEF Known, DownInv, Quiet
<1>4. durable[p]
  BY <1>2, <1>3 DEF Known, UpInv
<1>5. Quiet(i, cache[p][i]) \/ OneWrite(p, i)
  BY <1>2, <1>3, <1>4 DEF Known, UpInv
<1>6. OneWrite(p, i)
  BY <1>5 DEF Quiet
<1> QED BY <1>3, <1>4, <1>6 DEF OneWrite

LEMMA NoWriteQuiet ==
  ASSUME NEW p \in Replicas, Known(p), NEW i \in Ids, Outstanding(i) = {}, i \notin atRisk[p]
  PROVE  Quiet(i, cache[p][i])
<1>1. CASE phase[p] # "up"
  BY <1>1 DEF Known, DownInv
<1>2. CASE phase[p] = "up"
  <2>1. durable[p]
    BY <1>2 DEF Known, UpInv
  <2>2. Quiet(i, cache[p][i]) \/ OneWrite(p, i)
    BY <1>2, <2>1 DEF Known, UpInv
  <2> QED BY <2>2 DEF OneWrite
<1> QED BY <1>1, <1>2

LEMMA PutKnown ==
  ASSUME IInv, NEW r \in Replicas, NEW id \in Ids, NEW row \in Row, NEW q \in Requests,
         Put(r, id, row, q), NEW p \in Replicas
  PROVE  Known(p)'
<1> DEFINE w == [id |-> id, row |-> row, by |-> r, request |-> q]
<1>1. TypeOK /\ Known(p) /\ Known(r)
  BY DEF IInv, Known
<1>2. \A i \in Ids : Outstanding(i)' = IF durable[r] /\ i = id THEN Outstanding(i) \cup {w} ELSE Outstanding(i)
  BY <1>1, PutOutstanding
<1>3. /\ phase[r] = "up" /\ UNCHANGED <<phase, durable, snapshot, table>>
      /\ cache' = [cache EXCEPT ![r][id] = row]
  BY DEF Put
<1>4. /\ atRisk'[p] = IF (IF p = r THEN ~durable[r] \/ Outstanding(id) # {} ELSE durable[r])
                      THEN atRisk[p] \cup {id} ELSE atRisk[p]
      /\ missed'[p] = missed[p] \cup {id}
  BY DEF Put
<1>5. atRisk[p] \subseteq atRisk'[p] /\ atRisk'[p] \subseteq Ids /\ missed[p] \subseteq missed'[p]
  BY <1>1, <1>4 DEF TypeOK
<1>6. CASE p # r
  <2>1. cache'[p] = cache[p]
    BY <1>1, <1>3, <1>6 DEF TypeOK
  <2>2. ASSUME NEW i \in Ids, i \notin atRisk'[p] \/ i \notin missed'[p]
        PROVE  Outstanding(i)' = Outstanding(i)
    BY <1>2, <1>4, <1>6, <2>2
  <2> QED BY <1>1, <1>3, <1>5, <2>1, <2>2, KeepsKnown
<1>7. CASE p = r
  <2>1. cache'[r] = [cache[r] EXCEPT ![id] = row] /\ cache[r] \in [Ids -> Row]
    BY <1>1, <1>3 DEF TypeOK, Rows
  <2>2. ~durable[r] => atRisk'[r] = Ids
    BY <1>1, <1>3, <1>5, <1>7 DEF Known, UpInv
  <2>3. ASSUME NEW i \in Ids \ atRisk'[r], durable[r]
        PROVE  Quiet(i, cache[r][i])' \/ OneWrite(r, i)'
    <3>1. i \notin atRisk[r] /\ (i = id => Outstanding(id) = {})
      BY <1>4, <1>5, <1>7, <2>3
    <3>2. CASE i = id
      <4>1. Outstanding(i)' = {w}
        BY <1>2, <2>3, <3>1, <3>2
      <4>2. w.by = r /\ w.row = cache'[r][i]
        BY <2>1, <3>2
      <4> QED BY <4>1, <4>2 DEF OneWrite
    <3>3. CASE i # id
      <4>1. Outstanding(i)' = Outstanding(i) /\ table' = table /\ cache'[r][i] = cache[r][i]
        BY <1>2, <1>3, <2>1, <3>3
      <4>2. Quiet(i, cache[r][i]) \/ OneWrite(r, i)
        BY <1>1, <1>3, <2>3, <3>1 DEF Known, UpInv
      <4>3. CASE Quiet(i, cache[r][i])
        BY <4>1, <4>3 DEF Quiet
      <4>4. CASE OneWrite(r, i)
        BY <4>1, <4>4 DEF OneWrite
      <4> QED BY <4>2, <4>3, <4>4
    <3> QED BY <3>2, <3>3
  <2>4. UpInv(r)'
    BY <1>3, <2>2, <2>3 DEF UpInv
  <2> QED BY <1>3, <1>7, <2>4 DEF Known, DownInv, LoadInv
<1> QED BY <1>6, <1>7

LEMMA GiveUpKnown ==
  ASSUME IInv, NEW r \in Replicas, GiveUp(r), NEW p \in Replicas
  PROVE  Known(p)'
<1> DEFINE w == Head(queue[r])
<1>1. TypeOK /\ QueuesOwn /\ Known(p)
  BY DEF IInv, Known
<1>2. /\ w \in Write /\ w \in Queued(r) /\ w \in Outstanding(w.id)
      /\ \A i \in Ids : i # w.id => Outstanding(i)' = Outstanding(i)
  BY <1>1, GiveUpOutstanding
<1>3. w.by = r /\ w.id \in Ids
  BY <1>1, <1>2 DEF QueuesOwn, Write
<1>4. /\ UNCHANGED <<phase, durable, cache, snapshot, table, missed>>
      /\ atRisk' = [atRisk EXCEPT ![r] = @ \cup {w.id}]
  BY DEF GiveUp
<1> HIDE DEF w
<1>5. atRisk'[p] = IF p = r THEN atRisk[p] \cup {w.id} ELSE atRisk[p]
  BY <1>1, <1>4 DEF TypeOK
<1>6. atRisk[p] \subseteq atRisk'[p] /\ atRisk'[p] \subseteq Ids
  BY <1>1, <1>3, <1>5 DEF TypeOK
<1>7. /\ w.id \notin atRisk[p] => w.by = p
      /\ phase[p] = "loading" => w.id \in missed[p]
  BY <1>1, <1>2, <1>3, OwnWrite
<1>8. ASSUME NEW i \in Ids, i \notin atRisk'[p] \/ (phase[p] = "loading" /\ i \notin missed'[p])
      PROVE  Outstanding(i)' = Outstanding(i)
  BY <1>2, <1>3, <1>4, <1>5, <1>7, <1>8
<1> QED BY <1>1, <1>4, <1>6, <1>8, KeepsKnown

LEMMA FailKnown ==
  ASSUME IInv, NEW w \in flights, Fail(w), NEW p \in Replicas
  PROVE  Known(p)'
<1>1. TypeOK /\ Known(p)
  BY DEF IInv, Known
<1>2. /\ w \in Outstanding(w.id)
      /\ \A i \in Ids : i # w.id => Outstanding(i)' = Outstanding(i)
  BY DoneOutstanding DEF Fail
<1>3. w.id \in Ids
  BY <1>1 DEF TypeOK, Write
<1>4. /\ UNCHANGED <<phase, durable, cache, snapshot, table, missed>>
      /\ atRisk'[p] = IF w.by = p THEN atRisk[p] \cup {w.id} ELSE atRisk[p]
  BY DEF Fail
<1>5. atRisk[p] \subseteq atRisk'[p] /\ atRisk'[p] \subseteq Ids
  BY <1>1, <1>3, <1>4 DEF TypeOK
<1>6. /\ w.id \notin atRisk[p] => w.by = p
      /\ phase[p] = "loading" => w.id \in missed[p]
  BY <1>1, <1>2, <1>3, OwnWrite
<1>7. ASSUME NEW i \in Ids, i \notin atRisk'[p] \/ (phase[p] = "loading" /\ i \notin missed'[p])
      PROVE  Outstanding(i)' = Outstanding(i)
  BY <1>2, <1>4, <1>6, <1>7
<1> QED BY <1>1, <1>4, <1>5, <1>7, KeepsKnown

\* The write that commits is the one the process knows of, or the row is at risk.
LEMMA CommitKnown ==
  ASSUME IInv, NEW w \in flights, Commit(w), NEW p \in Replicas
  PROVE  Known(p)'
<1>1. TypeOK /\ Known(p)
  BY DEF IInv, Known
<1>2. /\ w \in Outstanding(w.id)
      /\ \A i \in Ids : /\ i # w.id => Outstanding(i)' = Outstanding(i)
                       /\ Outstanding(i)' \subseteq Outstanding(i)
  BY DoneOutstanding DEF Commit
<1>3. w.id \in Ids /\ w.row \in Row
  BY <1>1 DEF TypeOK, Write
<1>4. UNCHANGED <<phase, durable, cache, snapshot, atRisk, missed>>
  BY DEF Commit, ghosts
<1>5. table' = [table EXCEPT ![w.id] = w.row] /\ table \in [Ids -> Row]
  BY <1>1 DEF Commit, TypeOK, Rows
<1>6. \A i \in Ids : i # w.id => Outstanding(i)' = Outstanding(i) /\ table'[i] = table[i]
  BY <1>2, <1>5
<1>7. CASE w.id \notin atRisk[p]
  <2>1. /\ phase[p] = "up" /\ durable[p]
        /\ Outstanding(w.id) = {w} /\ w.by = p /\ w.row = cache[p][w.id]
    BY <1>1, <1>2, <1>3, <1>7, OwnWrite
  <2>2. table'[w.id] = cache'[p][w.id] /\ Outstanding(w.id)' \subseteq {w}
    BY <1>2, <1>3, <1>4, <1>5, <2>1
  <2>3. Quiet(w.id, cache[p][w.id])' \/ OneWrite(p, w.id)'
    <3>1. CASE Outstanding(w.id)' = {}
      BY <2>2, <3>1 DEF Quiet
    <3>2. CASE Outstanding(w.id)' = {w}
      BY <1>4, <2>1, <3>2 DEF OneWrite
    <3> QED BY <2>2, <3>1, <3>2
  <2>4. ASSUME NEW i \in Ids \ atRisk[p], i # w.id
        PROVE  Quiet(i, cache[p][i])' \/ OneWrite(p, i)'
    <3>1. Outstanding(i)' = Outstanding(i) /\ table'[i] = table[i] /\ cache'[p][i] = cache[p][i]
      BY <1>4, <1>6, <2>4
    <3>2. CASE Quiet(i, cache[p][i])
      BY <3>1, <3>2 DEF Quiet
    <3>3. CASE OneWrite(p, i)
      BY <3>1, <3>3 DEF OneWrite
    <3> QED BY <1>1, <2>1, <3>2, <3>3 DEF Known, UpInv
  <2>5. UpInv(p)'
    BY <1>4, <2>1, <2>3, <2>4 DEF UpInv
  <2> QED BY <1>4, <2>1, <2>5 DEF Known, DownInv, LoadInv
<1>8. CASE w.id \in atRisk[p]
  <2>1. phase[p] = "loading" => w.id \in missed[p]
    BY <1>1, <1>2, <1>3, OwnWrite
  <2>2. ASSUME NEW i \in Ids, i \notin atRisk'[p] \/ (phase[p] = "loading" /\ i \notin missed'[p])
        PROVE  Outstanding(i)' = Outstanding(i) /\ table'[i] = table[i]
    BY <1>4, <1>6, <1>8, <2>1, <2>2
  <2>3. atRisk[p] \subseteq Ids
    BY <1>1 DEF TypeOK
  <2> QED BY <1>1, <1>4, <2>2, <2>3, KeepsKnown
<1> QED BY <1>7, <1>8

LEMMA StopKnown ==
  ASSUME IInv, NEW r \in Replicas, Stop(r), NEW p \in Replicas
  PROVE  Known(p)'
<1>1. TypeOK /\ QueuesOwn /\ Known(p)
  BY DEF IInv, Known
<1>2. \A i \in Ids :
        /\ Outstanding(i) = {} => Outstanding(i)' = {}
        /\ \A w \in Outstanding(i) : Outstanding(i) = {w} /\ w.by # r => Outstanding(i)' = {w}
  BY <1>1, StopOutstanding
<1>3. /\ UNCHANGED <<durable, cache, snapshot, table, missed>>
      /\ phase' = [phase EXCEPT ![r] = "down"]
      /\ atRisk' = [atRisk EXCEPT ![r] = @ \cup {w.id : w \in Queued(r) \cup Sent(r)}]
  BY DEF Stop
<1>4. atRisk[p] \subseteq atRisk'[p] /\ atRisk[p] \subseteq Ids
  BY <1>1, <1>3 DEF TypeOK
<1>5. CASE p # r
  <2>1. phase'[p] = phase[p] /\ atRisk'[p] = atRisk[p]
    BY <1>1, <1>3, <1>5 DEF TypeOK
  <2>2. ASSUME NEW i \in Ids, i \notin atRisk'[p] \/ (phase[p] = "loading" /\ i \notin missed'[p])
        PROVE  Outstanding(i)' = Outstanding(i)
    <3>1. CASE Outstanding(i) = {}
      BY <1>2, <3>1
    <3>2. ASSUME NEW w \in Outstanding(i)
          PROVE  Outstanding(i)' = Outstanding(i)
      <4>1. Outstanding(i) = {w} /\ w.by = p
        BY <1>1, <1>3, <2>1, <2>2, OwnWrite
      <4> QED BY <1>2, <1>5, <4>1
    <3> QED BY <3>1, <3>2
  <2> QED BY <1>1, <1>3, <1>4, <2>1, <2>2, KeepsKnown
<1>6. CASE p = r
  <2>1. phase'[r] = "down"
    BY <1>1, <1>3 DEF TypeOK
  <2>2. ASSUME NEW i \in Ids \ atRisk'[r] PROVE Quiet(i, cache[r][i])'
    <3>1. i \notin atRisk[r] /\ \A w \in Queued(r) \cup Sent(r) : w.id # i
      BY <1>1, <1>3, <2>2 DEF TypeOK
    <3>2. Outstanding(i) = {}
      <4>1. SUFFICES ASSUME NEW w \in Outstanding(i) PROVE FALSE
        OBVIOUS
      <4>2. w.by = r /\ w.id = i
        BY <1>1, <1>6, <3>1, OwnWrite DEF Outstanding
      <4>3. CASE w \in flights
        BY <3>1, <4>2, <4>3 DEF Sent
      <4>4. CASE w \in UNION {Queued(d) : d \in Replicas}
        BY <1>1, <3>1, <4>2, <4>4 DEF QueuesOwn
      <4> QED BY <4>3, <4>4 DEF Outstanding
    <3>3. Quiet(i, cache[r][i])
      BY <1>1, <1>6, <3>1, <3>2, NoWriteQuiet
    <3> QED BY <1>2, <1>3, <3>2, <3>3 DEF Quiet
  <2> QED BY <1>6, <2>1, <2>2 DEF Known, UpInv, DownInv, LoadInv
<1> QED BY <1>5, <1>6

LEMMA StartKnown ==
  ASSUME IInv, NEW r \in Replicas, StartWithout(r) \/ LoadAll(r) \/ Hydrate(r), NEW p \in Replicas
  PROVE  Known(p)'
<1>1. TypeOK /\ Known(p) /\ Known(r)
  BY DEF IInv, Known
<1>2. UNCHANGED <<queue, flights, table>>
  BY DEF StartWithout, LoadAll, Hydrate
<1>3. \A i : Outstanding(i)' = Outstanding(i)
  BY <1>2 DEF Outstanding, Queued
<1>4. CASE p # r
  <2>1. /\ phase'[p] = phase[p] /\ durable'[p] = durable[p] /\ cache'[p] = cache[p]
        /\ snapshot'[p] = snapshot[p] /\ atRisk'[p] = atRisk[p] /\ missed'[p] = missed[p]
    BY <1>1, <1>4 DEF StartWithout, LoadAll, Hydrate, TypeOK
  <2>2. atRisk[p] \subseteq Ids
    BY <1>1 DEF TypeOK
  <2> QED BY <1>1, <1>2, <1>3, <2>1, <2>2, KeepsKnown
<1>5. CASE p = r /\ StartWithout(r)
  <2>1. phase'[r] = "up" /\ ~durable'[r] /\ atRisk'[r] = Ids
    BY <1>1, <1>5 DEF StartWithout, TypeOK
  <2> QED BY <1>5, <2>1 DEF Known, UpInv, DownInv, LoadInv
<1>6. CASE p = r /\ LoadAll(r)
  <2>1. /\ phase[r] = "down" /\ phase'[r] = "loading" /\ durable'[r]
        /\ snapshot'[r] = table /\ missed'[r] = {i \in Ids : Outstanding(i) # {}}
        /\ UNCHANGED <<cache, atRisk>>
    BY <1>1, <1>6 DEF LoadAll, TypeOK
  <2>2. \A i \in Ids \ atRisk[r] : Quiet(i, cache[r][i])
    BY <1>1, <2>1 DEF Known, DownInv
  <2>3. DownInv(r)'
    BY <1>2, <1>3, <2>1, <2>2 DEF DownInv, Quiet
  <2>4. LoadInv(r)'
    BY <1>2, <1>3, <2>1, <2>2 DEF LoadInv, Quiet
  <2> QED BY <1>6, <2>1, <2>3, <2>4 DEF Known, UpInv
<1>7. CASE p = r /\ Hydrate(r)
  <2>1. /\ phase[r] = "loading" /\ phase'[r] = "up" /\ durable' = durable
        /\ cache'[r] = snapshot[r] /\ atRisk'[r] = missed[r]
    BY <1>1, <1>7 DEF Hydrate, TypeOK
  <2>2. durable[r] /\ \A i \in Ids \ missed[r] : Quiet(i, snapshot[r][i])
    BY <1>1, <2>1 DEF Known, LoadInv
  <2>3. UpInv(r)'
    BY <1>2, <1>3, <2>1, <2>2 DEF UpInv, Quiet
  <2> QED BY <1>7, <2>1, <2>3 DEF Known, DownInv, LoadInv
<1> QED BY <1>4, <1>5, <1>6, <1>7

-----------------------------------------------------------------------------
(* The theorems *)

LEMMA Initially == Init => IInv
<1>1. SUFFICES ASSUME Init PROVE IInv
  OBVIOUS
<1>2. [i \in Ids |-> NoRow] \in Rows /\ <<>> \in Seq(Write)
  BY DEF Rows, Row, NoRow
<1>3. \A r \in Replicas : Queued(r) = {}
  BY <1>1 DEF Init, Queued, Range
<1>4. TypeOK /\ QueuesOwn
  BY <1>1, <1>2, <1>3 DEF Init, TypeOK, QueuesOwn
<1>5. \A i \in Ids : Outstanding(i) = {}
  BY <1>1, <1>3 DEF Init, Outstanding
<1>6. \A r \in Replicas : UpInv(r) /\ DownInv(r) /\ LoadInv(r)
  BY <1>1, <1>5 DEF Init, UpInv, DownInv, LoadInv, Quiet
<1> QED BY <1>4, <1>6 DEF IInv

LEMMA Inductive == IInv /\ [Next]_vars => IInv'
<1>1. SUFFICES ASSUME IInv, [Next]_vars PROVE IInv'
  OBVIOUS
<1>2. TypeOK /\ QueuesOwn
  BY <1>1 DEF IInv
<1>3. TypeOK' /\ QueuesOwn'
  BY <1>1, <1>2, Shape
<1>4. SUFFICES ASSUME NEW p \in Replicas PROVE Known(p)'
  BY <1>3 DEF IInv, Known
<1>5. Known(p) /\ atRisk[p] \subseteq Ids
  BY <1>1, <1>2 DEF IInv, Known, TypeOK
<1>6. ASSUME NEW r \in Replicas, Mutate(r) PROVE Known(p)'
  <2>1. PICK id \in Ids, q \in Requests : Insert(r, id, q) \/ Update(r, id, q) \/ Remove(r, id, q)
    BY <1>6 DEF Mutate
  <2>2. {q} \in Row /\ cache[r][id] \cup {q} \in Row /\ NoRow \in Row
    BY <1>2 DEF TypeOK, Rows, Row, NoRow
  <2>3. PICK row \in Row : Put(r, id, row, q)
    BY <2>1, <2>2 DEF Insert, Update, Remove
  <2> QED BY <1>1, <2>3, PutKnown
<1>7. ASSUME NEW r \in Replicas, Send(r) PROVE Known(p)'
  <2>1. \A i \in Ids : Outstanding(i)' = Outstanding(i)
    BY <1>2, <1>7, SendOutstanding
  <2>2. UNCHANGED <<phase, durable, cache, snapshot, table, atRisk, missed>>
    BY <1>7 DEF Send, ghosts
  <2> QED BY <1>5, <2>1, <2>2, KeepsKnown
<1>8. CASE UNCHANGED vars
  <2>1. UNCHANGED <<phase, durable, cache, snapshot, table, atRisk, missed, queue, flights>>
    BY <1>8 DEF vars, ghosts
  <2>2. \A i : Outstanding(i)' = Outstanding(i)
    BY <2>1 DEF Outstanding, Queued
  <2> QED BY <1>5, <2>1, <2>2, KeepsKnown
<1> QED
  BY <1>1, <1>6, <1>7, <1>8, GiveUpKnown, StopKnown, StartKnown, CommitKnown, FailKnown DEF Next

\* The invariant holds for every set of processes, rows and requests.
THEOREM Invariance == Spec => []IInv
<1> QED BY Initially, Inductive, PTL DEF Spec

\* The state keeps the shape the code gives it.
THEOREM TypeCorrect == Spec => []TypeOK
<1>1. IInv => TypeOK
  BY DEF IInv
<1> QED BY <1>1, Invariance, PTL

\* The write-through cache: the cache of a process and the table agree in every row
\* of which no write is under way, unless its writes overlapped, failed or were
\* cut off, or another process wrote it.
THEOREM WriteThrough == Spec => []SettledRowsAgree
<1>1. IInv => SettledRowsAgree
  <2>1. SUFFICES ASSUME IInv, NEW r \in Replicas, NEW id \in Ids \ atRisk[r], Outstanding(id) = {}
        PROVE  table[id] = cache[r][id]
    BY DEF SettledRowsAgree
  <2>2. Known(r)
    BY <2>1 DEF IInv, Known
  <2> QED BY <2>1, <2>2, NoWriteQuiet DEF Quiet
<1> QED BY <1>1, Invariance, PTL

\* A restart serves every other row as it was before the process stopped.
THEOREM SurvivesRestarts == Spec => RestartKeepsRows
<1> DEFINE Keeps == \A r \in Replicas : phase[r] = "loading" /\ phase'[r] = "up" =>
                      \A id \in Ids \ atRisk[r] : cache'[r][id] = cache[r][id]
<1>1. IInv /\ [Next]_vars => [Keeps]_vars
  <2>1. SUFFICES ASSUME IInv, Next, NEW r \in Replicas, phase[r] = "loading", phase'[r] = "up",
                        NEW id \in Ids \ atRisk[r]
                 PROVE  cache'[r][id] = cache[r][id]
    OBVIOUS
  <2>2. TypeOK /\ Known(r)
    BY <2>1 DEF IInv, Known
  <2>3. snapshot[r][id] = cache[r][id]
    BY <2>1, <2>2 DEF Known, LoadInv
  <2>4. ASSUME NEW p \in Replicas, Mutate(p) PROVE phase' = phase
    BY <2>4 DEF Mutate, Insert, Update, Remove, Put
  <2>5. ASSUME NEW p \in Replicas, Send(p) \/ GiveUp(p) PROVE phase' = phase
    BY <2>5 DEF Send, GiveUp
  <2>6. ASSUME NEW w \in flights, Commit(w) \/ Fail(w) PROVE phase' = phase
    BY <2>6 DEF Commit, Fail
  <2>7. PICK p \in Replicas : Stop(p) \/ StartWithout(p) \/ LoadAll(p) \/ Hydrate(p)
    BY <2>1, <2>4, <2>5, <2>6 DEF Next
  <2>8. p = r /\ Hydrate(r)
    BY <2>1, <2>2, <2>7 DEF Stop, StartWithout, LoadAll, Hydrate, TypeOK
  <2>9. cache'[r] = snapshot[r]
    BY <2>2, <2>8 DEF Hydrate, TypeOK
  <2> QED BY <2>3, <2>9
<1> QED BY <1>1, Invariance, PTL DEF Spec, RestartKeepsRows
=============================================================================
