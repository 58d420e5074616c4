------------------------------- MODULE Routes ------------------------------
(***************************************************************************)
(* packages/api/src: the tables of routes/*.ts, the registry of            *)
(* http/handlers/*.ts and the matching of http/router.ts.                  *)
(*                                                                         *)
(* A path is the sequence of its segments after /api/v1; in a pattern, a   *)
(* segment that begins with a colon is a parameter.  A handler is known by *)
(* what it does to the state of the server: "compute" is said of those     *)
(* that keep nothing.  The permissions that routes list are declared, and  *)
(* nothing in packages/api/src asks for them.                              *)
(***************************************************************************)
EXTENDS Integers, Sequences, FiniteSets

Any == ":"

On(path, handlers) == [path |-> path, handlers |-> handlers]

authRoutes == {
  On(<<"auth", "register">>, [POST |-> "auth.register"]), On(<<"auth", "login">>, [POST |-> "auth.login"]),
  On(<<"auth", "refresh">>, [POST |-> "auth.refresh"]), On(<<"auth", "logout">>, [POST |-> "auth.logout"]),
  On(<<"auth", "me">>, [GET |-> "auth.me"]),
  On(<<"auth", "forgot-password">>, [POST |-> "auth.forgotPassword"]),
  On(<<"auth", "reset-password">>, [POST |-> "auth.resetPassword"]),
  On(<<"auth", "verify-email">>, [POST |-> "auth.verifyEmail"]),
  On(<<"auth", "mfa", "enable">>, [POST |-> "auth.enableMfa"]),
  On(<<"auth", "mfa", "verify">>, [POST |-> "auth.verifyMfa"])}

\* Mutant: a second way to a run, written with a parameter.
workflowRoutes_Shorthand == {
  On(<<"workflows", Any, Any>>, [GET |-> "workflows.getRun"]),
  On(<<"workflows", "nodes", "registry">>, [GET |-> "workflows.nodeRegistry"])}

workflowRoutes == {
  On(<<"workflows">>, [GET |-> "workflows.list", POST |-> "workflows.create"]),
  On(<<"workflows", Any>>, [GET |-> "workflows.get", PUT |-> "workflows.update", DELETE |-> "workflows.delete"]),
  On(<<"workflows", Any, "execute">>, [POST |-> "workflows.execute"]),
  On(<<"workflows", Any, "runs">>, [GET |-> "workflows.listRuns"]),
  On(<<"workflows", Any, "runs", Any>>, [GET |-> "workflows.getRun"]),
  On(<<"workflows", Any, "runs", Any, "cancel">>, [POST |-> "workflows.cancelRun"]),
  On(<<"workflows", "nodes", "registry">>, [GET |-> "workflows.nodeRegistry"])}

musicRoutes == {
  On(<<"tracks">>, [GET |-> "tracks.list", POST |-> "tracks.create"]),
  On(<<"tracks", Any>>, [GET |-> "tracks.get", PUT |-> "tracks.update", DELETE |-> "tracks.delete"]),
  On(<<"tracks", Any, "analytics">>, [GET |-> "tracks.analytics"]),
  On(<<"tracks", "search">>, [POST |-> "tracks.search"]),
  On(<<"artists">>, [GET |-> "artists.list", POST |-> "artists.create"]),
  On(<<"artists", Any>>, [GET |-> "artists.get"]),
  On(<<"albums">>, [GET |-> "albums.list", POST |-> "albums.create"]),
  On(<<"genres">>, [GET |-> "genres.list"]), On(<<"genres", Any>>, [GET |-> "genres.get"]),
  On(<<"genres", Any, "subgenres">>, [GET |-> "genres.subgenres"]),
  On(<<"languages">>, [GET |-> "languages.list"]), On(<<"catalog", "ingest">>, [POST |-> "catalog.ingest"]),
  On(<<"catalog", "jobs">>, [GET |-> "catalog.listJobs"]),
  On(<<"catalog", "jobs", Any>>, [GET |-> "catalog.getJob"])}

rightsRoutes == {
  On(<<"rights", "contracts">>, [GET |-> "rights.listContracts", POST |-> "rights.createContract"]),
  On(<<"rights", "contracts", Any>>, [GET |-> "rights.getContract", PUT |-> "rights.updateContract"]),
  On(<<"rights", "bundles">>, [GET |-> "rights.listBundles", POST |-> "rights.createBundle"]),
  On(<<"rights", "territories">>, [GET |-> "rights.listTerritories"]),
  On(<<"rights", "check", Any, Any>>, [GET |-> "rights.checkTerritory"]),
  On(<<"royalties", "calculate">>, [POST |-> "royalties.calculate"]),
  On(<<"royalties", "reports">>, [GET |-> "royalties.reports"]),
  On(<<"royalties", "forecasts">>, [GET |-> "royalties.forecasts"])}

analyticsRoutes == {
  On(<<"analytics", "kpis">>, [GET |-> "analytics.kpis"]),
  On(<<"analytics", "kpis", Any>>, [GET |-> "analytics.getKpi"]),
  On(<<"analytics", "forecasts">>, [GET |-> "analytics.forecasts"]),
  On(<<"analytics", "forecasts", "generate">>, [POST |-> "analytics.generateForecast"]),
  On(<<"analytics", "segments">>, [GET |-> "analytics.segments"]),
  On(<<"experiments">>, [GET |-> "experiments.list", POST |-> "experiments.create"]),
  On(<<"experiments", Any>>, [GET |-> "experiments.get"]),
  On(<<"experiments", Any, "start">>, [POST |-> "experiments.start"]),
  On(<<"experiments", Any, "stop">>, [POST |-> "experiments.stop"]),
  On(<<"experiments", Any, "results">>, [GET |-> "experiments.results"]),
  On(<<"analytics", "revenue">>, [GET |-> "analytics.revenue"]),
  On(<<"analytics", "costs">>, [GET |-> "analytics.costs"])}

adminRoutes == {
  On(<<"admin", "tenants">>, [GET |-> "admin.listTenants", POST |-> "admin.createTenant"]),
  On(<<"admin", "tenants", Any>>, [GET |-> "admin.getTenant", PUT |-> "admin.updateTenant"]),
  On(<<"admin", "users">>, [GET |-> "admin.listUsers", POST |-> "admin.createUser"]),
  On(<<"admin", "users", Any>>, [PUT |-> "admin.updateUser"]),
  On(<<"admin", "roles">>, [GET |-> "admin.listRoles"]),
  On(<<"admin", "audit-logs">>, [GET |-> "admin.auditLogs"]),
  On(<<"admin", "api-keys">>, [GET |-> "admin.listApiKeys", POST |-> "admin.createApiKey"]),
  On(<<"admin", "api-keys", Any>>, [DELETE |-> "admin.revokeApiKey"]),
  On(<<"health">>, [GET |-> "system.health"]), On(<<"health", "detailed">>, [GET |-> "system.healthDetailed"]),
  On(<<"admin", "incidents">>, [GET |-> "admin.incidents"]),
  On(<<"admin", "system-health">>, [GET |-> "admin.systemHealth"])}

aiRoutes == {
  On(<<"ai", "generate", "music">>, [POST |-> "ai.generateMusic"]),
  On(<<"ai", "generate", "music", Any, "status">>, [GET |-> "ai.generationStatus"]),
  On(<<"ai", "evaluate">>, [POST |-> "ai.evaluate"]),
  On(<<"ai", "guardrails", "check">>, [POST |-> "ai.guardrailCheck"]),
  On(<<"ai", "embeddings", "generate">>, [POST |-> "ai.generateEmbedding"]),
  On(<<"ai", "embeddings", "search">>, [POST |-> "ai.searchSimilar"]),
  On(<<"ai", "llm", "generate">>, [POST |-> "ai.llmGenerate"]),
  On(<<"ai", "llm", "summarize">>, [POST |-> "ai.llmSummarize"]),
  On(<<"ai", "llm", "classify">>, [POST |-> "ai.llmClassify"]),
  On(<<"ai", "prompts">>, [GET |-> "ai.listPrompts", POST |-> "ai.createPrompt"]),
  On(<<"ai", "narrative", "generate">>, [POST |-> "ai.generateNarrative"]),
  On(<<"ai", "playlist", "generate">>, [POST |-> "ai.generatePlaylist"]),
  On(<<"ai", "recommend">>, [POST |-> "ai.recommend"]), On(<<"ai", "usage">>, [GET |-> "ai.usage"])}

Table == authRoutes \cup workflowRoutes \cup musicRoutes \cup rightsRoutes
           \cup analyticsRoutes \cup adminRoutes \cup aiRoutes

Public == {"auth.register", "auth.login", "auth.refresh", "auth.forgotPassword",
           "auth.resetPassword", "auth.verifyEmail", "system.health"}

\* `permissions` of the routes: each permission, and the handlers whose routes list it.
Listed(permission, handlers) == [permission |-> permission, handlers |-> handlers]

Permissions == {
  Listed("admin", {"admin.listTenants", "admin.createTenant", "admin.getTenant", "admin.updateTenant",
    "admin.listUsers", "admin.createUser", "admin.updateUser", "admin.listRoles", "admin.auditLogs",
    "admin.listApiKeys", "admin.createApiKey", "admin.revokeApiKey", "system.healthDetailed",
    "admin.incidents", "admin.systemHealth"}),
  Listed("ai:execute", {"ai.generateMusic", "ai.evaluate", "ai.guardrailCheck", "ai.generateEmbedding",
    "ai.llmGenerate", "ai.llmSummarize", "ai.llmClassify", "ai.generateNarrative", "ai.generatePlaylist",
    "ai.recommend"}),
  Listed("ai:read", {"ai.generationStatus", "ai.searchSimilar", "ai.listPrompts", "ai.usage"}),
  Listed("ai:create", {"ai.createPrompt"}),
  Listed("analytics:read", {"analytics.kpis", "analytics.getKpi", "analytics.forecasts", "analytics.segments",
    "analytics.revenue", "analytics.costs", "tracks.analytics"}),
  Listed("analytics:create", {"analytics.generateForecast"}),
  Listed("experiments:read", {"experiments.list", "experiments.get", "experiments.results"}),
  Listed("experiments:create", {"experiments.create"}),
  Listed("experiments:execute", {"experiments.start", "experiments.stop"}),
  Listed("tracks:read", {"tracks.list", "tracks.get", "tracks.search", "artists.list", "artists.get", "albums.list"}),
  Listed("tracks:create", {"tracks.create", "artists.create", "albums.create"}),
  Listed("tracks:update", {"tracks.update"}), Listed("tracks:delete", {"tracks.delete"}),
  Listed("catalog:create", {"catalog.ingest"}), Listed("catalog:read", {"catalog.listJobs", "catalog.getJob"}),
  Listed("rights:read", {"rights.listContracts", "rights.getContract", "rights.listBundles", "rights.checkTerritory",
    "royalties.calculate", "royalties.reports", "royalties.forecasts"}),
  Listed("rights:create", {"rights.createContract", "rights.createBundle"}),
  Listed("rights:update", {"rights.updateContract"}),
  Listed("workflows:read", {"workflows.list", "workflows.get", "workflows.listRuns", "workflows.getRun",
    "workflows.nodeRegistry"}),
  Listed("workflows:create", {"workflows.create"}), Listed("workflows:update", {"workflows.update"}),
  Listed("workflows:delete", {"workflows.delete"}),
  Listed("workflows:execute", {"workflows.execute", "workflows.cancelRun"})}

Restricted(handler) == \E entry \in Permissions : handler \in entry.handlers

-----------------------------------------------------------------------------
(* http/router.ts *)

Fits(pattern, path) ==
  Len(pattern) = Len(path) /\ \A k \in DOMAIN path : pattern[k] \in {Any, path[k]}

\* match() takes the first of these.
Candidates(method, path) == {row \in Table : Fits(row.path, path) /\ method \in DOMAIN row.handlers}
PathExists(path)         == \E row \in Table : Fits(row.path, path)

\* A segment that decodeURIComponent() refuses, such as a lone percent sign.
Malformed == "%"

\* match() throws: a row of the method has a parameter where such a segment is, after
\* segments that are as the row has them.  What follows does not count, nor whether
\* another row fits: its segments equal no such segment either.
Undecodable(method, path) ==
  \E row \in Table :
    /\ method \in DOMAIN row.handlers /\ Len(row.path) = Len(path)
    /\ \E k \in DOMAIN path : /\ row.path[k] = Any /\ path[k] = Malformed
                              /\ \A m \in 1..(k - 1) : row.path[m] \in {Any, path[m]}

-----------------------------------------------------------------------------
(* http/handlers *)

Do(handler, does, on) == [handler |-> handler, does |-> does, on |-> on]
Compute(handlers)     == {Do(h, "compute", "nothing") : h \in handlers}

authHandlers == {Do("auth.register", "register", "users"), Do("auth.login", "login", "users")}
  \cup Compute({"auth.refresh", "auth.logout", "auth.me", "auth.forgotPassword", "auth.resetPassword",
                "auth.verifyEmail", "auth.enableMfa", "auth.verifyMfa"})

musicHandlers == {Do("tracks.list", "list", "tracks"), Do("tracks.create", "create", "tracks"),
   Do("tracks.get", "get", "tracks"), Do("tracks.update", "update", "tracks"),
   Do("tracks.delete", "remove", "tracks"), Do("tracks.analytics", "get", "tracks"),
   Do("tracks.search", "search", "tracks"), Do("artists.list", "list", "artists"),
   Do("artists.create", "create", "artists"), Do("artists.get", "get", "artists"),
   Do("albums.list", "list", "albums"), Do("albums.create", "create", "albums"),
   Do("catalog.ingest", "open", "catalogJobs"), Do("catalog.listJobs", "list", "catalogJobs"),
   Do("catalog.getJob", "get", "catalogJobs")}
  \cup Compute({"genres.list", "genres.get", "genres.subgenres", "languages.list"})

workflowHandlers == {Do("workflows.list", "list", "workflows"), Do("workflows.create", "create", "workflows"),
   Do("workflows.get", "get", "workflows"), Do("workflows.update", "update", "workflows"),
   Do("workflows.delete", "remove", "workflows"), Do("workflows.execute", "execute", "workflows"),
   Do("workflows.listRuns", "list", "runs"), Do("workflows.getRun", "getRun", "runs"),
   Do("workflows.cancelRun", "cancel", "runs")} \cup Compute({"workflows.nodeRegistry"})

rightsHandlers == {Do("rights.listContracts", "list", "contracts"), Do("rights.createContract", "spread", "contracts"),
   Do("rights.getContract", "get", "contracts"), Do("rights.updateContract", "update", "contracts"),
   Do("rights.listBundles", "list", "bundles"), Do("rights.createBundle", "create", "bundles")}
  \cup Compute({"rights.listTerritories", "rights.checkTerritory", "royalties.calculate",
                "royalties.reports", "royalties.forecasts"})

analyticsHandlers == {Do("experiments.list", "list", "experiments"), Do("experiments.create", "spread", "experiments"),
   Do("experiments.get", "get", "experiments"), Do("experiments.start", "update", "experiments"),
   Do("experiments.stop", "update", "experiments"), Do("experiments.results", "get", "experiments")}
  \cup Compute({"analytics.kpis", "analytics.getKpi", "analytics.forecasts", "analytics.generateForecast",
                "analytics.segments", "analytics.revenue", "analytics.costs"})

aiHandlers == {Do("ai.generateMusic", "create", "genJobs"), Do("ai.generationStatus", "get", "genJobs"),
   Do("ai.listPrompts", "list", "prompts"), Do("ai.createPrompt", "spread", "prompts")}
  \cup Compute({"ai.evaluate", "ai.guardrailCheck", "ai.generateEmbedding", "ai.searchSimilar", "ai.llmGenerate",
                "ai.llmSummarize", "ai.llmClassify", "ai.generateNarrative", "ai.generatePlaylist",
                "ai.recommend", "ai.usage"})

adminHandlers == {Do("admin.listTenants", "list", "tenants"), Do("admin.createTenant", "spread", "tenants"),
   Do("admin.getTenant", "get", "tenants"), Do("admin.updateTenant", "update", "tenants"),
   Do("admin.listUsers", "list", "users"), Do("admin.createUser", "addUser", "users"),
   Do("admin.updateUser", "changeUser", "users"), Do("admin.listApiKeys", "list", "apiKeys"),
   Do("admin.createApiKey", "open", "apiKeys"), Do("admin.revokeApiKey", "remove", "apiKeys")}
  \cup Compute({"system.health", "system.healthDetailed", "admin.systemHealth", "admin.listRoles",
                "admin.auditLogs", "admin.incidents"})

Registry == authHandlers \cup musicHandlers \cup workflowHandlers \cup rightsHandlers
              \cup analyticsHandlers \cup aiHandlers \cup adminHandlers

Registered(handler) == \E entry \in Registry : entry.handler = handler
Entry(handler)      == CHOOSE entry \in Registry : entry.handler = handler
=============================================================================
