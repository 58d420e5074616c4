------------------------------- MODULE MCApi -------------------------------
(***************************************************************************)
(* One process of the API and its audit log.  Each behaviour exercises     *)
(* what focus names: requests that meet each other, the routing of a       *)
(* single request, or the audit log on its own, which is also cleared.     *)
(***************************************************************************)
EXTENDS ApiServer

CONSTANT Seven   \* an id that is a number

VARIABLE focus

MCOddIds == {Seven}

MCInputs ==
  {[action |-> a, actor |-> "u", resource |-> IF a = "x" THEN "g" ELSE Undefined, success |-> a = "x",
    severity |-> "critical", metadata |-> "m", at |-> t] : a \in {"x", "y"}, t \in {1, 2}}
  \cup {[action |-> "y", actor |-> Undefined, resource |-> "g", success |-> FALSE,
         severity |-> Undefined, metadata |-> "m", at |-> 1]}

\* Who did what to which resource, and how it went and when.
MCFilters ==
  {[Everything EXCEPT !.action = a, !.actor = u, !.resource = g, !.limit = n] :
     a \in {"x", "y", Undefined}, u \in {"u", Undefined}, g \in {"g", Undefined}, n \in {0, 1, 2, Undefined}}
  \cup {[Everything EXCEPT !.severity = v, !.success = s, !.since = from, !.until = to, !.limit = n] :
     v \in {"critical", Undefined}, s \in {"yes", "no", Undefined}, from \in {2, Undefined},
     to \in {1, Undefined}, n \in {1, Undefined}}

MCActions == {"x", "y"} \cup {entry.handler : entry \in Registry}

Ask(method, path) == [method |-> method, path |-> path, user |-> "u", valid |-> TRUE, id |-> Undefined,
                      email |-> "e", password |-> "p", sound |-> TRUE]

\* r1 creates, r2 and r3 come across it, at any time.
MCAsks ==
  [r1 |-> {Ask("POST", <<"workflows">>), Ask("POST", <<"auth", "register">>), Ask("POST", <<"admin", "users">>),
           [Ask("POST", <<"experiments">>) EXCEPT !.user = Undefined], Ask("POST", <<"tracks">>),
           [Ask("POST", <<"tracks">>) EXCEPT !.valid = FALSE], Ask("POST", <<"rights", "contracts">>),
           [Ask("POST", <<"rights", "contracts">>) EXCEPT !.id = Seven],
           [Ask("POST", <<"workflows">>) EXCEPT !.sound = FALSE]},
   r2 |-> {[Ask("PUT", <<"workflows", "r1">>) EXCEPT !.sound = FALSE], Ask("DELETE", <<"workflows", "r1">>),
           Ask("POST", <<"workflows", "r1", "execute">>), [Ask("PUT", <<"tracks", "r1">>) EXCEPT !.sound = FALSE],
           [Ask("POST", <<"auth", "register">>) EXCEPT !.password = "q"], Ask("POST", <<"admin", "users">>),
           [Ask("PUT", <<"admin", "users", "r1">>) EXCEPT !.email = "f"], Ask("OPTIONS", <<"tracks">>),
           [Ask("POST", <<"rights", "contracts">>) EXCEPT !.id = "r1"],
           [Ask("POST", <<"rights", "contracts">>) EXCEPT !.id = Seven], Ask("PATCH", <<"tracks", "r1">>),
           [Ask("PUT", <<"admin", "users", "r1">>) EXCEPT !.email = Undefined, !.password = "q"],
           Ask("GET", <<"tracks", Malformed>>)},
   r3 |-> {Ask("POST", <<"workflows", "r1", "execute">>), Ask("GET", <<"workflows", "r1">>),
           Ask("POST", <<"workflows", "r1", "runs", "r2", "cancel">>), Ask("GET", <<"workflows", "r1", "runs", "r2">>),
           Ask("POST", <<"tracks", "search">>), Ask("POST", <<"auth", "login">>), Ask("GET", <<"admin", "users">>),
           Ask("POST", <<"royalties", "calculate">>), Ask("DELETE", <<"tracks", "r1">>),
           [Ask("POST", <<"auth", "register">>) EXCEPT !.valid = FALSE], Ask("GET", <<"metrics">>)}]

\* Every path a pattern of the table stands for, its parameters replaced by words of the table.
Words == {"nodes", "registry", "search", "runs", "r1", Malformed}
Paths == UNION {LET params == {k \in DOMAIN row.path : row.path[k] = Any} IN
                {[k \in DOMAIN row.path |-> IF k \in params THEN words[k] ELSE row.path[k]] : words \in [params -> Words]}
                  : row \in Table}
EveryAsk == {Ask(method, path) : method \in Mutating \cup {"GET"}, path \in Paths}

MCAllAsks == EveryAsk \cup UNION {MCAsks[r] : r \in DOMAIN MCAsks}

MCInit == focus \in {"requests", "routing", "audit"} /\ ApiInit

Make(r) ==
  \/ focus = "requests" /\ \E i \in MCAsks[r] : Arrive(r, i) \/ Collapse(r, i)
  \/ focus = "routing" /\ r = "r1" /\ \E i \in EveryAsk : Arrive(r, i) \/ Collapse(r, i)

Log == focus = "audit" /\ AuditNext /\ UNCHANGED <<up, ask, call, stage, status, microtask, ran, rows, users, runs>>

MCNext == UNCHANGED focus /\ (Log \/ \E r \in Reqs : Make(r) \/ Serve(r))

\* A client sends its body or gives up, and the event loop runs what is queued.
MCSpec == MCInit /\ [][MCNext]_<<apiVars, focus>> /\ \A r \in Reqs : WF_<<apiVars, focus>>(UNCHANGED focus /\ Serve(r))
=============================================================================
