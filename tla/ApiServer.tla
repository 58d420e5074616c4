----------------------------- MODULE ApiServer -----------------------------
(***************************************************************************)
(* packages/api/src/http: one process of the API.  server.ts takes a       *)
(* request through routing, authentication, the reading of its body, its   *)
(* handler, the audit log and the answer; the handlers of handlers/*.ts    *)
(* keep their rows in collections and in Maps of their modules.            *)
(*                                                                         *)
(* Requests are interleaved while their bodies arrive and after their      *)
(* handlers: `await handler(...)` continues as a microtask, in turn.       *)
(* A row is its id and the request that wrote it last; a body is what the  *)
(* handlers ask of it.  A path that cannot be decoded ends the process.    *)
(* The database behind the collections is left out (DocumentStore).        *)
(***************************************************************************)
EXTENDS Routes, AuditLog

CONSTANTS
  Reqs,       \* the requests, whose names serve as the ids randomUUID() gives
  OddIds,     \* ids that no path can spell: numbers and other values of a body that are no strings
  NoAsk,      \* a request not made yet, or not resolved
  Asks,       \* what clients may ask for
  Now         \* the clock's reading

ASSUME AsksAssumption ==
  /\ NoAsk \notin Asks /\ Undefined \notin Reqs /\ Undefined \notin OddIds
  /\ \A id \in OddIds : id \notin STRING
  /\ \A i \in Asks : /\ {"method", "path", "user", "valid", "id", "email", "password", "sound"} \subseteq DOMAIN i
                     /\ i.path \in Seq(STRING) /\ i.valid \in BOOLEAN /\ i.sound \in BOOLEAN
                     /\ i.id \in Reqs \cup OddIds \cup {Undefined}

\* What the audit log is told of requests is of the types it keeps.
ASSUME AuditedAssumption ==
  /\ {entry.handler : entry \in Registry} \subseteq AuditActions
  /\ \A i \in Asks : i.user # Undefined => i.user \in AuditActors
  /\ "anonymous" \in AuditActors /\ Reqs \subseteq AuditMetadata /\ Now \in AuditTimes

Mutating == {"POST", "PUT", "PATCH", "DELETE"}

VARIABLES
  up,        \* whether the process runs
  ask,       \* ask[r]: [method, path, user, valid, id, email, password, sound]
  call,      \* call[r]: the matched route, its handler and parameter
  stage,     \* stage[r]: where handle() is
  status,    \* status[r]: the status of the handler's result or of the answer
  microtask, \* the requests whose handler has run, in turn
  ran,       \* history: the requests whose handler has returned, in order
  rows,      \* the rows of the collections and module-level Maps but users and runs
  users,     \* the users in the order of their Map
  runs       \* the runs of workflows

apiVars == <<up, ask, call, stage, status, microtask, ran, rows, users, runs, auditVars>>

\* In ctx.params, the last parameter of the path: the id the handler looks for.
Param(pattern, path) ==
  LET params == {k \in DOMAIN path : pattern[k] = Any}
  IN  IF params = {} THEN Undefined ELSE path[CHOOSE k \in params : \A m \in params : m <= k]

\* What handle() finds out before it reads the body.
Resolve(i) ==
  LET route == CHOOSE row \in Candidates(i.method, i.path) : TRUE
      entry == Entry(route.handlers[i.method])
  IN [handler |-> entry.handler, does |-> entry.does, on |-> entry.on, id |-> Param(route.path, i.path)]

Does(r)   == call[r].does
Of(r)     == call[r].on
PathId(r) == call[r].id

-----------------------------------------------------------------------------
(* handle(), up to the reading of the body *)

\* What is answered at once, or 0: the preflight and the metrics, then routing,
\* authentication and the registry.
Admit(i, handler) ==
  IF handler \notin Public /\ i.user = Undefined THEN 401
  ELSE IF ~Registered(handler) THEN 501 ELSE 0

EarlyAnswer(i) ==
  LET matched == Candidates(i.method, i.path) IN
  IF i.method = "OPTIONS" THEN 204
  ELSE IF i.method = "GET" /\ i.path = <<"metrics">> THEN 200
  ELSE IF matched = {} THEN IF PathExists(i.path) THEN 405 ELSE 404
  ELSE Admit(i, (CHOOSE row \in matched : TRUE).handlers[i.method])

Arrive(r, i) ==
  /\ up /\ ask[r] = NoAsk /\ ~Undecodable(i.method, i.path)
  /\ ask' = [ask EXCEPT ![r] = i]
  /\ status' = [status EXCEPT ![r] = EarlyAnswer(i)]
  /\ IF EarlyAnswer(i) = 0
       THEN stage' = [stage EXCEPT ![r] = "reading"] /\ call' = [call EXCEPT ![r] = Resolve(i)]
       ELSE stage' = [stage EXCEPT ![r] = "answered"] /\ UNCHANGED call
  /\ UNCHANGED <<up, microtask, ran, rows, users, runs, auditVars>>

\* match() is called outside of the try of handle(), whose promise nobody looks after: when it
\* throws, the rejection is unhandled, and Node (20 or later, without a handler for it) ends
\* the process.  This request, and those under way, are not answered.
Collapse(r, i) ==
  /\ up /\ ask[r] = NoAsk /\ Undecodable(i.method, i.path)
  /\ up' = FALSE
  /\ UNCHANGED <<ask, call, stage, status, microtask, ran, rows, users, runs, auditVars>>

\* The connection breaks while the body arrives, the query string cannot be decoded, or the handler throws.
Throw(r) ==
  /\ status' = [status EXCEPT ![r] = 500]
  /\ stage' = [stage EXCEPT ![r] = "answered"]
  /\ UNCHANGED <<ask, call, microtask, ran, rows, users, runs, auditVars>>

BreakOff(r) == stage[r] = "reading" /\ Throw(r)

-----------------------------------------------------------------------------
(* The handlers: the body is complete, and the handler runs to its end. *)

Return(r, code) ==
  /\ status' = [status EXCEPT ![r] = code]
  /\ stage' = [stage EXCEPT ![r] = "settled"]
  /\ microtask' = Append(microtask, r)
  /\ ran' = Append(ran, r)
  /\ UNCHANGED <<ask, call, auditVars>>

Keep(r, code) == Return(r, code) /\ UNCHANGED <<rows, users, runs>>

Called(r, operations) == stage[r] = "reading" /\ Does(r) \in operations

Found(r) == {row \in rows : row.on = Of(r) /\ row.id = PathId(r)}
Others(r, id) == {row \in rows : row.on # Of(r) \/ row.id # id}

\* Lists, and answers computed from the request or from constants: a success or a refusal.
Answer(r) ==
  /\ Called(r, {"list", "compute"})
  /\ \E code \in {200, 400} : (Does(r) = "list" => code = 200) /\ Keep(r, code)

\* Collection.insert(): "spread" handlers insert the whole body, an id it may have included,
\* of whatever type: the Map of the collection takes an id that is no string, but a path never spells it.
InsertedId(r) == IF Does(r) = "spread" /\ ask[r].id # Undefined THEN ask[r].id ELSE r

\* A workflow's nodes are an array of anything, of nulls for example; titles are made strings.
Sound(r) == ask[r].sound \/ Of(r) # "workflows"

Create(r) ==
  /\ Called(r, {"create", "spread", "open"})
  /\ IF ask[r].valid \/ Does(r) = "open"
       THEN /\ rows' = Others(r, InsertedId(r))
                         \cup {[on |-> Of(r), id |-> InsertedId(r), by |-> r, sound |-> Sound(r)]}
            /\ Return(r, 201)
            /\ UNCHANGED <<users, runs>>
       ELSE Keep(r, 400)

\* A job's status is "completed" whenever it is asked for (ai.generationStatus).
Get(r) == Called(r, {"get"}) /\ Keep(r, IF Found(r) = {} THEN 404 ELSE 200)

\* update() merges any body: the nodes may then be no array, a title no string.
Update(r) ==
  /\ Called(r, {"update"})
  /\ IF Found(r) = {} THEN Keep(r, 404)
     ELSE /\ rows' = Others(r, PathId(r))
                       \cup {[on |-> Of(r), id |-> PathId(r), by |-> r, sound |-> ask[r].sound]}
          /\ Return(r, 200)
          /\ UNCHANGED <<users, runs>>

Remove(r) ==
  /\ Called(r, {"remove"})
  /\ IF Found(r) = {} THEN Keep(r, 404)
     ELSE rows' = Others(r, PathId(r)) /\ Return(r, 200) /\ UNCHANGED <<users, runs>>

\* tracks.search reads every title.
Search(r) ==
  /\ Called(r, {"search"})
  /\ IF \E row \in rows : row.on = "tracks" /\ ~row.sound THEN Throw(r) ELSE Keep(r, 200)

ById(id) == {k \in DOMAIN users : users[k].id = id}
ByEmail(email) == {k \in DOMAIN users : users[k].email = email}
First(positions) == CHOOSE k \in positions : \A m \in positions : k <= m

AddUser(r, password) ==
  /\ users' = Append(users, [id |-> r, email |-> ask[r].email, password |-> password, by |-> r])
  /\ Return(r, 201)
  /\ UNCHANGED <<rows, runs>>

\* Mutant: the email is not looked up.
Register_Unchecked(r) ==
  /\ Called(r, {"register"})
  /\ IF ask[r].valid THEN AddUser(r, ask[r].password) ELSE Keep(r, 400)

Register(r) ==
  /\ Called(r, {"register"})
  /\ IF ask[r].valid /\ ask[r].password # Undefined /\ ByEmail(ask[r].email) = {}
       THEN AddUser(r, ask[r].password) ELSE Keep(r, 400)

\* Who may log in is the first user with the email.
Authenticated(email, password) ==
  ByEmail(email) # {} /\ password # Undefined /\ users[First(ByEmail(email))].password = password

Login(r) ==
  Called(r, {"login"}) /\ Keep(r, IF Authenticated(ask[r].email, ask[r].password) THEN 200 ELSE 401)

\* admin.createUser does not look the email up and sets no password.
CreateUser(r) ==
  /\ Called(r, {"addUser"})
  /\ IF ask[r].valid THEN AddUser(r, Undefined) ELSE Keep(r, 400)

\* update() merges any fields of the body, a password hash too: that of ask[r].password.
Given(value, old) == IF value = Undefined THEN old ELSE value
Changed(user, r)  == [user EXCEPT !.email = Given(ask[r].email, user.email),
                                  !.password = Given(ask[r].password, user.password), !.by = r]

ChangeUser(r) ==
  /\ Called(r, {"changeUser"})
  /\ IF ById(PathId(r)) = {} THEN Keep(r, 404)
     ELSE /\ users' = [users EXCEPT ![First(ById(PathId(r)))] = Changed(@, r)]
          /\ Return(r, 200)
          /\ UNCHANGED <<rows, runs>>

\* workflows.execute records a completed run at once.
Execute(r) ==
  /\ Called(r, {"execute"})
  /\ IF Found(r) = {} THEN Keep(r, 404)
     ELSE IF \E row \in Found(r) : ~row.sound THEN Throw(r)
     ELSE /\ runs' = runs \cup {[id |-> r, status |-> "completed", by |-> r]}
          /\ Return(r, 201)
          /\ UNCHANGED <<rows, users>>

Run(r) == {run \in runs : run.id = PathId(r)}

GetRun(r) == Called(r, {"getRun"}) /\ Keep(r, IF Run(r) = {} THEN 404 ELSE 200)

CancelRun(r) ==
  /\ Called(r, {"cancel"})
  /\ IF Run(r) = {} THEN Keep(r, 404)
     ELSE /\ runs' = (runs \ Run(r)) \cup {[run EXCEPT !.status = "cancelled", !.by = r] : run \in Run(r)}
          /\ Return(r, 200)
          /\ UNCHANGED <<rows, users>>

Handle(r) ==
  \/ Answer(r) \/ Create(r) \/ Get(r) \/ Update(r) \/ Remove(r) \/ Search(r)
  \/ Register(r) \/ Login(r) \/ CreateUser(r) \/ ChangeUser(r)
  \/ Execute(r) \/ GetRun(r) \/ CancelRun(r)

-----------------------------------------------------------------------------
(* The continuation of handle(): audit.record() and send() *)

AuditOf(r) ==
  [action |-> call[r].handler, actor |-> IF ask[r].user = Undefined THEN "anonymous" ELSE ask[r].user,
   resource |-> Undefined, success |-> status[r] < 400, severity |-> Undefined, metadata |-> r, at |-> Now]

\* Mutant: the continuations do not keep their turn.
Continue_AnyTurn(r) ==
  /\ stage[r] = "settled"
  /\ microtask' = SelectSeq(microtask, LAMBDA other : other # r)
  /\ IF ask[r].method \in Mutating THEN Record(Materialize(AuditOf(r))) ELSE UNCHANGED auditVars
  /\ stage' = [stage EXCEPT ![r] = "answered"]
  /\ UNCHANGED <<ask, call, status, ran, rows, users, runs>>

\* Mutant: a request that changes nothing leaves its answer unsent.
Continue_OnlyMutating(r) ==
  /\ microtask # <<>> /\ r = Head(microtask)
  /\ microtask' = Tail(microtask)
  /\ IF ask[r].method \in Mutating
       THEN Record(Materialize(AuditOf(r))) /\ stage' = [stage EXCEPT ![r] = "answered"]
       ELSE UNCHANGED <<auditVars, stage>>
  /\ UNCHANGED <<ask, call, status, ran, rows, users, runs>>

Continue(r) ==
  /\ microtask # <<>> /\ r = Head(microtask)
  /\ microtask' = Tail(microtask)
  /\ IF ask[r].method \in Mutating THEN Record(Materialize(AuditOf(r))) ELSE UNCHANGED auditVars
  /\ stage' = [stage EXCEPT ![r] = "answered"]
  /\ UNCHANGED <<ask, call, status, ran, rows, users, runs>>

-----------------------------------------------------------------------------
ApiInit ==
  /\ up = TRUE
  /\ ask = [r \in Reqs |-> NoAsk] /\ call = [r \in Reqs |-> NoAsk] /\ stage = [r \in Reqs |-> "none"] /\ status = [r \in Reqs |-> 0]
  /\ microtask = <<>> /\ ran = <<>>
  /\ rows = {} /\ users = <<>> /\ runs = {}
  /\ AuditInit

Serve(r) == up /\ UNCHANGED up /\ (Handle(r) \/ BreakOff(r) \/ Continue(r))

ApiNext == \E r \in Reqs : Serve(r) \/ \E i \in Asks : Arrive(r, i) \/ Collapse(r, i)

ApiSpec == ApiInit /\ [][ApiNext]_apiVars

-----------------------------------------------------------------------------
(* Properties *)

\* Every variable has the shape the code gives it.
ApiTypeOK ==
  /\ up \in BOOLEAN
  /\ stage \in [Reqs -> {"none", "reading", "settled", "answered"}]
  /\ status \in [Reqs -> {0, 200, 201, 204, 400, 401, 404, 405, 500, 501}]
  /\ microtask \in Seq(Reqs) /\ ran \in Seq(Reqs)
  /\ \A row \in rows : row.id \in Reqs \cup OddIds /\ row.by \in Reqs /\ row.sound \in BOOLEAN
  /\ \A run \in runs : run.id \in Reqs /\ run.by \in Reqs /\ run.status \in {"completed", "cancelled"}
  /\ \A k \in DOMAIN users : users[k].id \in Reqs /\ users[k].by \in Reqs
  /\ AuditTypeOK

\* "The route table is hand-authored and unambiguous" (router.ts:20): at most one route
\* fits a request, and its handler is registered.
RoutedToOneHandler ==
  \A r \in Reqs : ask[r] # NoAsk =>
    /\ Cardinality(Candidates(ask[r].method, ask[r].path)) <= 1
    /\ status[r] # 501

HasRun(r)   == \E j \in DOMAIN ran : ran[j] = r
AuditsOf(r) == {k \in DOMAIN recorded : recorded[k].metadata = r}

\* "Mutating requests are recorded in the governance audit log": one entry for each whose
\* handler returned, with the success of its answer, in the order in which the
\* handlers took effect, however the requests are interleaved.  A request that is refused
\* before its handler, or whose handler throws, leaves no entry; the latter keeps nothing either.
AuditFollowsEffects ==
  /\ \A r \in Reqs :
       /\ AuditsOf(r) # {} <=> HasRun(r) /\ stage[r] = "answered" /\ ask[r].method \in Mutating
       /\ \A k \in AuditsOf(r) : AuditsOf(r) = {k} /\ recorded[k].success = (status[r] < 400)
  /\ \A i, j \in DOMAIN ran : i < j => \A k \in AuditsOf(ran[i]), m \in AuditsOf(ran[j]) : k < m

Writers == {row.by : row \in rows} \cup {run.by : run \in runs} \cup {users[k].by : k \in DOMAIN users}

\* What the server keeps was written by requests of a mutating method that were not refused, and
\* by nobody without a valid token, but for the handlers open to all; none of these is a handler
\* whose route lists permissions.  This is all server.ts grants by: a user with a token writes
\* whatever the permissions a route lists, a viewer too.
OnlyGrantedWrites ==
  \A r \in Writers :
    /\ ask[r].method \in Mutating /\ status[r] \in {200, 201}
    /\ ask[r].user = Undefined => call[r].handler \in Public /\ ~Restricted(call[r].handler)

Created(r)    == Does(r) \in {"create", "spread", "open"} /\ status[r] = 201
Kept(r)       == \E row \in rows : row.on = Of(r) /\ row.id = InsertedId(r)
Deletes(s, r) == /\ Does(s) = "remove" /\ Of(s) = Of(r) /\ status[s] = 200
                 /\ PathId(s) = InsertedId(r) /\ InsertedId(r) \notin OddIds

\* What was created is in its collection, where a list shows it, under the id its creator was told,
\* until it is deleted.  Only an id that is a string can also be found, changed or deleted by
\* its path: a row under one of OddIds is there for good.
CreatedStays ==
  \A k \in DOMAIN ran : Created(ran[k]) =>
    Kept(ran[k]) \/ \E m \in (k + 1)..Len(ran) : Deletes(ran[m], ran[k])

SignedUp(r) == Does(r) = "register" /\ status[r] = 201
CanLogIn(r) == /\ Authenticated(ask[r].email, ask[r].password)
               /\ users[First(ByEmail(ask[r].email))].id = r

\* Who has registered can log in with what was registered, as long as an administrator
\* has not changed a user, and shares the email with no other who registered.
RegisteredCanLogin ==
  (\A k \in DOMAIN ran : Does(ran[k]) # "changeUser") =>
    \A k \in DOMAIN ran : SignedUp(ran[k]) => CanLogIn(ran[k])

\* A request whose body arrives or breaks off is answered, unless another's path, which cannot
\* be decoded, ends the process first.
EveryRequestAnswered == \A r \in Reqs : stage[r] = "reading" ~> stage[r] = "answered" \/ ~up

\* The audit log can be relied on: it has the effects in their order, and reading it back gives
\* its newest entries in full, wherever the ring has wrapped around.
AuditTrustworthy == AuditFollowsEffects /\ RingHoldsNewest /\ QueryAnswers

\* What requests put into the server is what is there: written with a token where one is asked for,
\* kept until deleted, and good for the logins it was meant for.
RowsKept == ApiTypeOK /\ OnlyGrantedWrites /\ CreatedStays /\ RegisteredCanLogin
=============================================================================
