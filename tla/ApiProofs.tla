------------------------------ MODULE ApiProofs ----------------------------
(***************************************************************************)
(* Proofs about one process of the API and its audit log: the ring buffer  *)
(* of enterprise/governance, the tables of packages/api/src/routes and the *)
(* requests that server.ts takes through them.                             *)
(***************************************************************************)
EXTENDS ApiServer, FiniteSetTheorems, WellFoundedInduction, TLAPS

-----------------------------------------------------------------------------
(* The route table *)

One(path)   == Len(path) = 1
Two(path)   == Len(path) = 2
Three(path) == Len(path) = 3
Four(path)  == Len(path) = 4
Five(path)  == Len(path) = 5

Initial(path) == path[1]
Second(path) == path[2]
Third(path)  == path[3]
Fourth(path) == path[4]
Fifth(path)  == path[5]

LEMMA FitsOne ==
  ASSUME NEW W, NEW path \in Seq(W), NEW v, Fits(<<v>>, path)
  PROVE  One(path) /\ v \in {Any, Initial(path)}
<1>1. PICK p : p = <<v>>
  OBVIOUS
<1>2. Len(p) = 1 /\ p[1] = v
  BY <1>1
<1>3. Fits(p, path)
  BY <1>1, Zenon
<1>4. Len(path) = 1
  BY <1>2, <1>3 DEF Fits
<1>5. 1 \in DOMAIN path
  BY <1>4
<1>6. p[1] \in {Any, path[1]}
  BY <1>3, <1>5, Zenon DEF Fits
<1> QED BY <1>2, <1>4, <1>6 DEF One, Initial

LEMMA FitsTwo ==
  ASSUME NEW W, NEW path \in Seq(W), NEW v, NEW w, Fits(<<v, w>>, path)
  PROVE  Two(path) /\ v \in {Any, Initial(path)} /\ w \in {Any, Second(path)}
<1>1. PICK p : p = <<v, w>>
  OBVIOUS
<1>2. Len(p) = 2 /\ p[1] = v /\ p[2] = w
  BY <1>1
<1>3. Fits(p, path)
  BY <1>1, Zenon
<1>4. Len(path) = 2
  BY <1>2, <1>3 DEF Fits
<1>5. 1 \in DOMAIN path /\ 2 \in DOMAIN path
  BY <1>4
<1>6. p[1] \in {Any, path[1]} /\ p[2] \in {Any, path[2]}
  BY <1>3, <1>5, Zenon DEF Fits
<1> QED BY <1>2, <1>4, <1>6 DEF Two, Initial, Second

LEMMA FitsThree ==
  ASSUME NEW W, NEW path \in Seq(W), NEW v, NEW w, NEW x, Fits(<<v, w, x>>, path)
  PROVE  Three(path) /\ v \in {Any, Initial(path)} /\ w \in {Any, Second(path)} /\ x \in {Any, Third(path)}
<1>1. PICK p : p = <<v, w, x>>
  OBVIOUS
<1>2. Len(p) = 3 /\ p[1] = v /\ p[2] = w /\ p[3] = x
  BY <1>1
<1>3. Fits(p, path)
  BY <1>1, Zenon
<1>4. Len(path) = 3
  BY <1>2, <1>3 DEF Fits
<1>5. 1 \in DOMAIN path /\ 2 \in DOMAIN path /\ 3 \in DOMAIN path
  BY <1>4
<1>6. p[1] \in {Any, path[1]} /\ p[2] \in {Any, path[2]} /\ p[3] \in {Any, path[3]}
  BY <1>3, <1>5, Zenon DEF Fits
<1> QED BY <1>2, <1>4, <1>6 DEF Three, Initial, Second, Third

LEMMA FitsFour ==
  ASSUME NEW W, NEW path \in Seq(W), NEW v, NEW w, NEW x, NEW y, Fits(<<v, w, x, y>>, path)
  PROVE  Four(path) /\ v \in {Any, Initial(path)} /\ w \in {Any, Second(path)} /\ x \in {Any, Third(path)} /\ y \in {Any, Fourth(path)}
<1>1. PICK p : p = <<v, w, x, y>>
  OBVIOUS
<1>2. Len(p) = 4 /\ p[1] = v /\ p[2] = w /\ p[3] = x /\ p[4] = y
  BY <1>1
<1>3. Fits(p, path)
  BY <1>1, Zenon
<1>4. Len(path) = 4
  BY <1>2, <1>3 DEF Fits
<1>5. 1 \in DOMAIN path /\ 2 \in DOMAIN path /\ 3 \in DOMAIN path /\ 4 \in DOMAIN path
  BY <1>4
<1>6. p[1] \in {Any, path[1]} /\ p[2] \in {Any, path[2]} /\ p[3] \in {Any, path[3]} /\ p[4] \in {Any, path[4]}
  BY <1>3, <1>5, Zenon DEF Fits
<1> QED BY <1>2, <1>4, <1>6 DEF Four, Initial, Second, Third, Fourth

LEMMA FitsFive ==
  ASSUME NEW W, NEW path \in Seq(W), NEW v, NEW w, NEW x, NEW y, NEW z, Fits(<<v, w, x, y, z>>, path)
  PROVE  Five(path) /\ v \in {Any, Initial(path)} /\ w \in {Any, Second(path)} /\ x \in {Any, Third(path)} /\ y \in {Any, Fourth(path)} /\ z \in {Any, Fifth(path)}
<1>1. PICK p : p = <<v, w, x, y, z>>
  OBVIOUS
<1>2. Len(p) = 5 /\ p[1] = v /\ p[2] = w /\ p[3] = x /\ p[4] = y /\ p[5] = z
  BY <1>1
<1>3. Fits(p, path)
  BY <1>1, Zenon
<1>4. Len(path) = 5
  BY <1>2, <1>3 DEF Fits
<1>5. 1 \in DOMAIN path /\ 2 \in DOMAIN path /\ 3 \in DOMAIN path /\ 4 \in DOMAIN path /\ 5 \in DOMAIN path
  BY <1>4
<1>6. p[1] \in {Any, path[1]} /\ p[2] \in {Any, path[2]} /\ p[3] \in {Any, path[3]} /\ p[4] \in {Any, path[4]} /\ p[5] \in {Any, path[5]}
  BY <1>3, <1>5, Zenon DEF Fits
<1> QED BY <1>2, <1>4, <1>6 DEF Five, Initial, Second, Third, Fourth, Fifth

LEMMA Arity ==
  ASSUME NEW path
  PROVE  /\ One(path) => ~(Two(path) \/ Three(path) \/ Four(path) \/ Five(path))
         /\ Two(path) => ~(Three(path) \/ Four(path) \/ Five(path))
         /\ Three(path) => ~(Four(path) \/ Five(path)) /\ (Four(path) => ~Five(path))
BY DEF One, Two, Three, Four, Five

\* The two rows fit the path and answer the method.
Both(a, b, path, m) ==
  Fits(a.path, path) /\ m \in DOMAIN a.handlers /\ Fits(b.path, path) /\ m \in DOMAIN b.handlers

LEMMA AuthAlone ==
  ASSUME NEW W, NEW path \in Seq(W), NEW m, NEW a \in authRoutes, Fits(a.path, path)
  PROVE  Initial(path) \in {"auth"} /\ \A b \in authRoutes : Both(a, b, path, m) => a = b
<1>1. Initial(path) \in {"auth"}
  BY FitsOne, FitsTwo, FitsThree, FitsFour, FitsFive DEF Any, On, authRoutes
<1>2. ASSUME NEW b \in authRoutes, Both(a, b, path, m) PROVE a = b
  BY <1>2, FitsOne, FitsTwo, FitsThree, FitsFour, FitsFive, Arity DEF Any, On, Both, authRoutes
<1> QED BY <1>1, <1>2

LEMMA WorkflowAlone ==
  ASSUME NEW W, NEW path \in Seq(W), NEW m, NEW a \in workflowRoutes, Fits(a.path, path)
  PROVE  Initial(path) \in {"workflows"} /\ \A b \in workflowRoutes : Both(a, b, path, m) => a = b
<1>1. Initial(path) \in {"workflows"}
  BY FitsOne, FitsTwo, FitsThree, FitsFour, FitsFive DEF Any, On, workflowRoutes
<1>2. ASSUME NEW b \in workflowRoutes, Both(a, b, path, m) PROVE a = b
  BY <1>2, FitsOne, FitsTwo, FitsThree, FitsFour, FitsFive, Arity, SMTT(30) DEF Any, On, Both, workflowRoutes
<1> QED BY <1>1, <1>2

LEMMA MusicAlone ==
  ASSUME NEW W, NEW path \in Seq(W), NEW m, NEW a \in musicRoutes, Fits(a.path, path)
  PROVE  Initial(path) \in {"tracks", "artists", "albums", "genres", "languages", "catalog"} /\ \A b \in musicRoutes : Both(a, b, path, m) => a = b
<1>1. Initial(path) \in {"tracks", "artists", "albums", "genres", "languages", "catalog"}
  BY FitsOne, FitsTwo, FitsThree, FitsFour, FitsFive DEF Any, On, musicRoutes
<1>2. ASSUME NEW b \in musicRoutes, Both(a, b, path, m) PROVE a = b
  BY <1>2, FitsOne, FitsTwo, FitsThree, FitsFour, FitsFive, Arity DEF Any, On, Both, musicRoutes
<1> QED BY <1>1, <1>2

LEMMA RightsAlone ==
  ASSUME NEW W, NEW path \in Seq(W), NEW m, NEW a \in rightsRoutes, Fits(a.path, path)
  PROVE  Initial(path) \in {"rights", "royalties"} /\ \A b \in rightsRoutes : Both(a, b, path, m) => a = b
<1>1. Initial(path) \in {"rights", "royalties"}
  BY FitsOne, FitsTwo, FitsThree, FitsFour, FitsFive DEF Any, On, rightsRoutes
<1>2. ASSUME NEW b \in rightsRoutes, Both(a, b, path, m) PROVE a = b
  BY <1>2, FitsOne, FitsTwo, FitsThree, FitsFour, FitsFive, Arity, SMTT(30) DEF Any, On, Both, rightsRoutes
<1> QED BY <1>1, <1>2

LEMMA AnalyticsAlone ==
  ASSUME NEW W, NEW path \in Seq(W), NEW m, NEW a \in analyticsRoutes, Fits(a.path, path)
  PROVE  Initial(path) \in {"analytics", "experiments"} /\ \A b \in analyticsRoutes : Both(a, b, path, m) => a = b
<1>1. Initial(path) \in {"analytics", "experiments"}
  BY FitsOne, FitsTwo, FitsThree, FitsFour, FitsFive DEF Any, On, analyticsRoutes
<1>2. ASSUME NEW b \in analyticsRoutes, Both(a, b, path, m) PROVE a = b
  BY <1>2, FitsOne, FitsTwo, FitsThree, FitsFour, FitsFive, Arity DEF Any, On, Both, analyticsRoutes
<1> QED BY <1>1, <1>2

LEMMA AdminAlone ==
  ASSUME NEW W, NEW path \in Seq(W), NEW m, NEW a \in adminRoutes, Fits(a.path, path)
  PROVE  Initial(path) \in {"admin", "health"} /\ \A b \in adminRoutes : Both(a, b, path, m) => a = b
<1>1. Initial(path) \in {"admin", "health"}
  BY FitsOne, FitsTwo, FitsThree, FitsFour, FitsFive DEF Any, On, adminRoutes
<1>2. ASSUME NEW b \in adminRoutes, Both(a, b, path, m) PROVE a = b
  BY <1>2, FitsOne, FitsTwo, FitsThree, FitsFour, FitsFive, Arity DEF Any, On, Both, adminRoutes
<1> QED BY <1>1, <1>2

LEMMA AiAlone ==
  ASSUME NEW W, NEW path \in Seq(W), NEW m, NEW a \in aiRoutes, Fits(a.path, path)
  PROVE  Initial(path) \in {"ai"} /\ \A b \in aiRoutes : Both(a, b, path, m) => a = b
<1>1. Initial(path) \in {"ai"}
  BY FitsOne, FitsTwo, FitsThree, FitsFour, FitsFive DEF Any, On, aiRoutes
<1>2. ASSUME NEW b \in aiRoutes, Both(a, b, path, m) PROVE a = b
  BY <1>2, FitsOne, FitsTwo, FitsThree, FitsFour, FitsFive, Arity DEF Any, On, Both, aiRoutes
<1> QED BY <1>1, <1>2

\* "The route table is hand-authored and unambiguous" (router.ts:20), for any path and method.
THEOREM RoutesUnambiguous ==
  ASSUME NEW path \in Seq(STRING), NEW m, NEW a \in Table, NEW b \in Table, Both(a, b, path, m)
  PROVE  a = b
BY AuthAlone, WorkflowAlone, MusicAlone, RightsAlone, AnalyticsAlone, AdminAlone, AiAlone DEF Table, Both

-----------------------------------------------------------------------------
(* What the handlers of a row do *)

\* The handlers that a GET can reach.
Reading == {
  "admin.auditLogs", "admin.getTenant", "admin.incidents", "admin.listApiKeys", "admin.listRoles",
  "admin.listTenants", "admin.listUsers", "admin.systemHealth", "ai.generationStatus",
  "ai.listPrompts", "ai.usage", "albums.list", "analytics.costs", "analytics.forecasts",
  "analytics.getKpi", "analytics.kpis", "analytics.revenue", "analytics.segments", "artists.get",
  "artists.list", "auth.me", "catalog.getJob", "catalog.listJobs", "experiments.get",
  "experiments.list", "experiments.results", "genres.get", "genres.list", "genres.subgenres",
  "languages.list", "rights.checkTerritory", "rights.getContract", "rights.listBundles",
  "rights.listContracts", "rights.listTerritories", "royalties.forecasts", "royalties.reports",
  "system.health", "system.healthDetailed", "tracks.analytics", "tracks.get", "tracks.list",
  "workflows.get", "workflows.getRun", "workflows.list", "workflows.listRuns",
  "workflows.nodeRegistry"}

Idle == {"list", "compute", "get", "getRun"}

LEMMA Doing == ASSUME NEW h, NEW does, NEW on PROVE Do(h, does, on).handler = h
BY DEF Do

LEMMA AuthHandled ==
  ASSUME NEW row \in authRoutes, NEW m \in DOMAIN row.handlers
  PROVE  Registered(row.handlers[m]) /\ (m \notin Mutating => row.handlers[m] \in Reading)
<1> DEFINE computing == {
             "auth.refresh", "auth.logout", "auth.me", "auth.forgotPassword", "auth.resetPassword",
             "auth.verifyEmail", "auth.enableMfa", "auth.verifyMfa"}
           own == {
             "auth.register", "auth.login"}
<1>1. PICK h : h = row.handlers[m]
  OBVIOUS
<1>2. h \in computing \cup own /\ (m \notin Mutating => h \in Reading)
  BY <1>1 DEF authRoutes, On, Mutating, Reading
<1>3. h \in computing => Do(h, "compute", "nothing") \in authHandlers
  BY DEF authHandlers, Compute
<1>4. h \in own => \E does, on : Do(h, does, on) \in authHandlers
  BY DEF authHandlers
<1> HIDE DEF computing, own
<1> QED BY <1>1, <1>2, <1>3, <1>4, Doing DEF Registered, Registry

LEMMA AuthIdle ==
  ASSUME NEW entry \in authHandlers, entry.handler \in Reading
  PROVE  entry.does \in Idle
BY DEF authHandlers, Do, Compute, Reading, Idle

LEMMA WorkflowHandled ==
  ASSUME NEW row \in workflowRoutes, NEW m \in DOMAIN row.handlers
  PROVE  Registered(row.handlers[m]) /\ (m \notin Mutating => row.handlers[m] \in Reading)
<1> DEFINE computing == {
             "workflows.nodeRegistry"}
           own == {
             "workflows.list", "workflows.create", "workflows.get", "workflows.update",
             "workflows.delete", "workflows.execute", "workflows.listRuns", "workflows.getRun",
             "workflows.cancelRun"}
<1>1. PICK h : h = row.handlers[m]
  OBVIOUS
<1>2. h \in computing \cup own /\ (m \notin Mutating => h \in Reading)
  BY <1>1 DEF workflowRoutes, On, Mutating, Reading
<1>3. h \in computing => Do(h, "compute", "nothing") \in workflowHandlers
  BY DEF workflowHandlers, Compute
<1>4. h \in own => \E does, on : Do(h, does, on) \in workflowHandlers
  BY DEF workflowHandlers
<1> HIDE DEF computing, own
<1> QED BY <1>1, <1>2, <1>3, <1>4, Doing DEF Registered, Registry

LEMMA WorkflowIdle ==
  ASSUME NEW entry \in workflowHandlers, entry.handler \in Reading
  PROVE  entry.does \in Idle
BY DEF workflowHandlers, Do, Compute, Reading, Idle

LEMMA MusicHandled ==
  ASSUME NEW row \in musicRoutes, NEW m \in DOMAIN row.handlers
  PROVE  Registered(row.handlers[m]) /\ (m \notin Mutating => row.handlers[m] \in Reading)
<1> DEFINE computing == {
             "genres.list", "genres.get", "genres.subgenres", "languages.list"}
           own == {
             "tracks.list", "tracks.create", "tracks.get", "tracks.update", "tracks.delete",
             "tracks.analytics", "tracks.search", "artists.list", "artists.create", "artists.get",
             "albums.list", "albums.create", "catalog.ingest", "catalog.listJobs", "catalog.getJob"}
<1>1. PICK h : h = row.handlers[m]
  OBVIOUS
<1>2. h \in computing \cup own /\ (m \notin Mutating => h \in Reading)
  BY <1>1 DEF musicRoutes, On, Mutating, Reading
<1>3. h \in computing => Do(h, "compute", "nothing") \in musicHandlers
  BY DEF musicHandlers, Compute
<1>4. h \in own => \E does, on : Do(h, does, on) \in musicHandlers
  BY DEF musicHandlers
<1> HIDE DEF computing, own
<1> QED BY <1>1, <1>2, <1>3, <1>4, Doing DEF Registered, Registry

LEMMA MusicIdle ==
  ASSUME NEW entry \in musicHandlers, entry.handler \in Reading
  PROVE  entry.does \in Idle
BY DEF musicHandlers, Do, Compute, Reading, Idle

LEMMA RightsHandled ==
  ASSUME NEW row \in rightsRoutes, NEW m \in DOMAIN row.handlers
  PROVE  Registered(row.handlers[m]) /\ (m \notin Mutating => row.handlers[m] \in Reading)
<1> DEFINE computing == {
             "rights.listTerritories", "rights.checkTerritory", "royalties.calculate",
             "royalties.reports", "royalties.forecasts"}
           own == {
             "rights.listContracts", "rights.createContract", "rights.getContract",
             "rights.updateContract", "rights.listBundles", "rights.createBundle"}
<1>1. PICK h : h = row.handlers[m]
  OBVIOUS
<1>2. h \in computing \cup own /\ (m \notin Mutating => h \in Reading)
  BY <1>1 DEF rightsRoutes, On, Mutating, Reading
<1>3. h \in computing => Do(h, "compute", "nothing") \in rightsHandlers
  BY DEF rightsHandlers, Compute
<1>4. h \in own => \E does, on : Do(h, does, on) \in rightsHandlers
  BY DEF rightsHandlers
<1> HIDE DEF computing, own
<1> QED BY <1>1, <1>2, <1>3, <1>4, Doing DEF Registered, Registry

LEMMA RightsIdle ==
  ASSUME NEW entry \in rightsHandlers, entry.handler \in Reading
  PROVE  entry.does \in Idle
BY DEF rightsHandlers, Do, Compute, Reading, Idle

LEMMA AnalyticsHandled ==
  ASSUME NEW row \in analyticsRoutes, NEW m \in DOMAIN row.handlers
  PROVE  Registered(row.handlers[m]) /\ (m \notin Mutating => row.handlers[m] \in Reading)
<1> DEFINE computing == {
             "analytics.kpis", "analytics.getKpi", "analytics.forecasts",
             "analytics.generateForecast", "analytics.segments", "analytics.revenue",
             "analytics.costs"}
           own == {
             "experiments.list", "experiments.create", "experiments.get", "experiments.start",
             "experiments.stop", "experiments.results"}
<1>1. PICK h : h = row.handlers[m]
  OBVIOUS
<1>2. h \in computing \cup own /\ (m \notin Mutating => h \in Reading)
  BY <1>1 DEF analyticsRoutes, On, Mutating, Reading
<1>3. h \in computing => Do(h, "compute", "nothing") \in analyticsHandlers
  BY DEF analyticsHandlers, Compute
<1>4. h \in own => \E does, on : Do(h, does, on) \in analyticsHandlers
  BY DEF analyticsHandlers
<1> HIDE DEF computing, own
<1> QED BY <1>1, <1>2, <1>3, <1>4, Doing DEF Registered, Registry

LEMMA AnalyticsIdle ==
  ASSUME NEW entry \in analyticsHandlers, entry.handler \in Reading
  PROVE  entry.does \in Idle
BY DEF analyticsHandlers, Do, Compute, Reading, Idle

LEMMA AdminHandled ==
  ASSUME NEW row \in adminRoutes, NEW m \in DOMAIN row.handlers
  PROVE  Registered(row.handlers[m]) /\ (m \notin Mutating => row.handlers[m] \in Reading)
<1> DEFINE computing == {
             "system.health", "system.healthDetailed", "admin.systemHealth", "admin.listRoles",
             "admin.auditLogs", "admin.incidents"}
           own == {
             "admin.listTenants", "admin.createTenant", "admin.getTenant", "admin.updateTenant",
             "admin.listUsers", "admin.createUser", "admin.updateUser", "admin.listApiKeys",
             "admin.createApiKey", "admin.revokeApiKey"}
<1>1. PICK h : h = row.handlers[m]
  OBVIOUS
<1>2. h \in computing \cup own /\ (m \notin Mutating => h \in Reading)
  BY <1>1 DEF adminRoutes, On, Mutating, Reading
<1>3. h \in computing => Do(h, "compute", "nothing") \in adminHandlers
  BY DEF adminHandlers, Compute
<1>4. h \in own => \E does, on : Do(h, does, on) \in adminHandlers
  BY DEF adminHandlers
<1> HIDE DEF computing, own
<1> QED BY <1>1, <1>2, <1>3, <1>4, Doing DEF Registered, Registry

LEMMA AdminIdle ==
  ASSUME NEW entry \in adminHandlers, entry.handler \in Reading
  PROVE  entry.does \in Idle
BY DEF adminHandlers, Do, Compute, Reading, Idle

LEMMA AiHandled ==
  ASSUME NEW row \in aiRoutes, NEW m \in DOMAIN row.handlers
  PROVE  Registered(row.handlers[m]) /\ (m \notin Mutating => row.handlers[m] \in Reading)
<1> DEFINE computing == {
             "ai.evaluate", "ai.guardrailCheck", "ai.generateEmbedding", "ai.searchSimilar",
             "ai.llmGenerate", "ai.llmSummarize", "ai.llmClassify", "ai.generateNarrative",
             "ai.generatePlaylist", "ai.recommend", "ai.usage"}
           own == {
             "ai.generateMusic", "ai.generationStatus", "ai.listPrompts", "ai.createPrompt"}
<1>1. PICK h : h = row.handlers[m]
  OBVIOUS
<1>2. h \in computing \cup own /\ (m \notin Mutating => h \in Reading)
  BY <1>1 DEF aiRoutes, On, Mutating, Reading
<1>3. h \in computing => Do(h, "compute", "nothing") \in aiHandlers
  BY DEF aiHandlers, Compute
<1>4. h \in own => \E does, on : Do(h, does, on) \in aiHandlers
  BY DEF aiHandlers
<1> HIDE DEF computing, own
<1> QED BY <1>1, <1>2, <1>3, <1>4, Doing DEF Registered, Registry

LEMMA AiIdle ==
  ASSUME NEW entry \in aiHandlers, entry.handler \in Reading
  PROVE  entry.does \in Idle
BY DEF aiHandlers, Do, Compute, Reading, Idle

LEMMA TableHandled ==
  ASSUME NEW row \in Table, NEW m \in DOMAIN row.handlers
  PROVE  Registered(row.handlers[m]) /\ (m \notin Mutating => row.handlers[m] \in Reading)
BY AuthHandled, WorkflowHandled, MusicHandled, RightsHandled, AnalyticsHandled, AdminHandled, AiHandled DEF Table

LEMMA RegistryIdle ==
  ASSUME NEW entry \in Registry, entry.handler \in Reading
  PROVE  entry.does \in Idle
BY AuthIdle, WorkflowIdle, MusicIdle, RightsIdle, AnalyticsIdle, AdminIdle, AiIdle DEF Registry

LEMMA RouteTaken ==
  ASSUME NEW i, Candidates(i.method, i.path) # {}
  PROVE  LET row == CHOOSE row \in Candidates(i.method, i.path) : TRUE IN
         row \in Table /\ i.method \in DOMAIN row.handlers
<1>1. (CHOOSE row \in Candidates(i.method, i.path) : TRUE) \in Candidates(i.method, i.path)
  OBVIOUS
<1> QED BY <1>1 DEF Candidates

LEMMA EarlyAnswers ==
  ASSUME NEW i
  PROVE  EarlyAnswer(i) \in {0, 200, 204, 401, 404, 405}
<1> DEFINE row == CHOOSE row \in Candidates(i.method, i.path) : TRUE
           handler == row.handlers[i.method]
<1>1. \/ EarlyAnswer(i) = 204 \/ EarlyAnswer(i) = 200 \/ EarlyAnswer(i) = 405 \/ EarlyAnswer(i) = 404
      \/ Candidates(i.method, i.path) # {} /\ EarlyAnswer(i) = Admit(i, handler)
  <2>1. CASE i.method = "OPTIONS"
    BY <2>1 DEF EarlyAnswer
  <2>2. CASE i.method # "OPTIONS" /\ i.method = "GET" /\ i.path = <<"metrics">>
    BY <2>2 DEF EarlyAnswer
  <2>3. CASE i.method # "OPTIONS" /\ ~(i.method = "GET" /\ i.path = <<"metrics">>) /\ Candidates(i.method, i.path) = {}
    <3>1. EarlyAnswer(i) = IF PathExists(i.path) THEN 405 ELSE 404
      BY <2>3, Zenon DEF EarlyAnswer
    <3> QED BY <3>1
  <2>4. CASE i.method # "OPTIONS" /\ ~(i.method = "GET" /\ i.path = <<"metrics">>) /\ Candidates(i.method, i.path) # {}
    BY <2>4, Zenon DEF EarlyAnswer
  <2> QED BY <2>1, <2>2, <2>3, <2>4
<1>2. ASSUME Candidates(i.method, i.path) # {} PROVE Registered(handler)
  <2>1. row \in Table /\ i.method \in DOMAIN row.handlers
    BY <1>2, RouteTaken, Zenon
  <2> QED BY <2>1, TableHandled, Zenon
<1> HIDE DEF row, handler
<1>3. Registered(handler) => Admit(i, handler) \in {0, 401}
  BY DEF Admit
<1> QED BY <1>1, <1>2, <1>3

\* What is said of a request whose body is read.
LEMMA Routed ==
  ASSUME NEW i, EarlyAnswer(i) = 0
  PROVE  /\ \E entry \in Registry : /\ Resolve(i).handler = entry.handler
                                    /\ Resolve(i).does = entry.does /\ Resolve(i).on = entry.on
         /\ i.method \notin Mutating => Resolve(i).does \in Idle
         /\ i.user = Undefined => Resolve(i).handler \in Public
<1> DEFINE row == CHOOSE row \in Candidates(i.method, i.path) : TRUE
           handler == row.handlers[i.method]
<1>1. Candidates(i.method, i.path) # {}
  BY SMT DEF EarlyAnswer
<1>2. row \in Table /\ i.method \in DOMAIN row.handlers
  BY <1>1, RouteTaken, Zenon
<1>3. Registered(handler) /\ (i.method \notin Mutating => handler \in Reading)
  BY <1>2, TableHandled, Zenon
<1>4. Entry(handler) \in Registry /\ Entry(handler).handler = handler
  BY <1>3 DEF Registered, Entry
<1>5. /\ Resolve(i).handler = Entry(handler).handler
      /\ Resolve(i).does = Entry(handler).does /\ Resolve(i).on = Entry(handler).on
  BY DEF Resolve
<1>6. i.method \notin Mutating => Resolve(i).does \in Idle
  BY <1>3, <1>4, <1>5, RegistryIdle
<1>7. i.user = Undefined => handler \in Public
  <2>1. EarlyAnswer(i) = Admit(i, handler)
    BY <1>1, SMT DEF EarlyAnswer
  <2> QED BY <2>1, SMT DEF Admit
<1>8. Resolve(i).handler = handler
  BY <1>4, <1>5
<1> HIDE DEF row, handler
<1>9. i.user = Undefined => Resolve(i).handler \in Public
  BY <1>7, <1>8
<1> QED BY <1>4, <1>5, <1>6, <1>9

\* The handlers open to all are none that permissions are listed for.
LEMMA OpenToAll ==
  ASSUME NEW h \in Public
  PROVE  ~Restricted(h)
<1> DEFINE listed == {entry.handlers : entry \in Permissions}
<1>1. \A permission, handlers : Listed(permission, handlers).handlers = handlers
  BY DEF Listed
<1>2. ASSUME NEW handlers \in listed PROVE h \notin handlers
  BY <1>1, SMTT(60) DEF Permissions, Public
<1> QED BY <1>2 DEF Restricted

-----------------------------------------------------------------------------
(* The ring of the audit log *)

\* An index of the ring is reached by wrapping around at most once.
LEMMA WrapOnce ==
  ASSUME NEW x \in 0..(2 * Capacity - 1)
  PROVE  x % Capacity = IF x < Capacity THEN x ELSE x - Capacity
<1>1. Capacity \in Nat \ {0} /\ x \in Nat
  BY CapacityAssumption
<1>2. CASE x < Capacity
  BY <1>1, <1>2
<1>3. CASE ~(x < Capacity)
  BY <1>1, <1>3
<1> QED BY <1>2, <1>3

\* The slot of the i-th newest entry when the next one goes to h.
Slot(h, i) == (h - i + Capacity) % Capacity

LEMMA SlotIs ==
  ASSUME NEW h \in Slots, NEW i \in 1..Capacity
  PROVE  Slot(h, i) = (IF i <= h THEN h - i ELSE h - i + Capacity) /\ Slot(h, i) \in Slots
<1> DEFINE x == h - i + Capacity
<1>1. Capacity \in Nat \ {0} /\ x \in 0..(2 * Capacity - 1)
  BY CapacityAssumption DEF Slots
<1>2. x % Capacity = IF x < Capacity THEN x ELSE x - Capacity
  <2> HIDE DEF x
  <2> QED BY <1>1, WrapOnce
<1>3. Slot(h, i) = x % Capacity
  BY DEF Slot
<1> QED BY <1>1, <1>2, <1>3 DEF Slots

LEMMA NextSlot ==
  ASSUME NEW h \in Slots
  PROVE  /\ (h + 1) % Capacity \in Slots
         /\ Slot((h + 1) % Capacity, 1) = h
         /\ \A i \in 2..Capacity : /\ i - 1 \in 1..Capacity
                                   /\ Slot((h + 1) % Capacity, i) = Slot(h, i - 1)
                                   /\ Slot(h, i - 1) # h
<1> DEFINE x == h + 1
<1>1. Capacity \in Nat \ {0} /\ x \in 0..(2 * Capacity - 1)
  BY CapacityAssumption DEF Slots
<1>2. x % Capacity = IF x < Capacity THEN x ELSE x - Capacity
  <2> HIDE DEF x
  <2> QED BY <1>1, WrapOnce
<1>3. (h + 1) % Capacity \in Slots
  BY <1>1, <1>2 DEF Slots
<1>4. Slot((h + 1) % Capacity, 1) = h
  BY <1>1, <1>2, <1>3, SlotIs DEF Slots
<1>5. ASSUME NEW i \in 2..Capacity
      PROVE  /\ i - 1 \in 1..Capacity
             /\ Slot((h + 1) % Capacity, i) = Slot(h, i - 1)
             /\ Slot(h, i - 1) # h
  <2>1. i - 1 \in 1..Capacity /\ i \in 1..Capacity
    BY <1>1
  <2>2. Slot(h, i - 1) = IF i - 1 <= h THEN h - (i - 1) ELSE h - (i - 1) + Capacity
    BY <2>1, SlotIs
  <2>3. Slot((h + 1) % Capacity, i)
          = IF i <= (h + 1) % Capacity THEN ((h + 1) % Capacity) - i ELSE ((h + 1) % Capacity) - i + Capacity
    BY <1>3, <2>1, SlotIs
  <2> QED BY <1>1, <1>2, <2>1, <2>2, <2>3 DEF Slots
<1> QED BY <1>3, <1>4, <1>5

\* Every slot in use has its place among the recorded entries.
RingInv ==
  /\ AuditTypeOK
  /\ total = Len(recorded)
  /\ \A i \in 1..Size : buffer[Slot(head, i)] = recorded[Len(recorded) + 1 - i]

LEMMA MaterializeType ==
  ASSUME NEW input \in AuditInput
  PROVE  /\ Materialize(input) \in AuditEntry
         /\ Materialize(input).metadata = input.metadata /\ Materialize(input).success = input.success
<1>1. CASE input.severity # Undefined
  BY <1>1 DEF Materialize, AuditInput, AuditEntry, Events
<1>2. CASE input.severity = Undefined
  <2>1. (IF input.success THEN "info" ELSE "warning") \in Severities
    BY DEF Severities
  <2> QED BY <1>2, <2>1 DEF Materialize, AuditInput, AuditEntry, Events
<1> QED BY <1>1, <1>2

LEMMA SizeBound ==
  ASSUME RingInv
  PROVE  Size \in 0..Capacity /\ Size <= total
BY CapacityAssumption DEF RingInv, AuditTypeOK, Size

LEMMA RecordRing ==
  ASSUME RingInv, NEW e \in AuditEntry, Record(e)
  PROVE  /\ RingInv'
         /\ Size' = IF Size + 1 < Capacity THEN Size + 1 ELSE Capacity
         /\ Slot(head', 1) = head /\ buffer'[head] = e
         /\ \A i \in 2..Size' : i - 1 \in 1..Size /\ buffer'[Slot(head', i)] = buffer[Slot(head, i - 1)]
<1>1. AuditTypeOK /\ Capacity \in Nat \ {0} /\ total = Len(recorded)
  BY CapacityAssumption DEF RingInv
<1>2. head' = (head + 1) % Capacity /\ head' \in Slots /\ Slot(head', 1) = head
  BY <1>1, NextSlot DEF Record, AuditTypeOK
<1>3. AuditTypeOK' /\ total' = Len(recorded') /\ Len(recorded') = Len(recorded) + 1
  BY <1>1, <1>2 DEF Record, AuditTypeOK
<1>4. Size' = (IF Size + 1 < Capacity THEN Size + 1 ELSE Capacity) /\ Size' <= Capacity /\ Size' <= Size + 1
  BY <1>1 DEF Record, Size, AuditTypeOK
<1>5. buffer'[head] = e
  BY <1>1 DEF Record, AuditTypeOK
<1>6. ASSUME NEW i \in 2..Size'
      PROVE  i - 1 \in 1..Size /\ buffer'[Slot(head', i)] = buffer[Slot(head, i - 1)]
  <2>1. i \in 2..Capacity /\ i - 1 \in 1..Size
    BY <1>1, <1>4, SizeBound
  <2>2. Slot(head', i) = Slot(head, i - 1) /\ Slot(head, i - 1) # head
    BY <1>1, <1>2, <2>1, NextSlot DEF AuditTypeOK
  <2>3. Slot(head, i - 1) \in Slots
    BY <1>1, <2>1, NextSlot, SlotIs DEF AuditTypeOK
  <2> QED BY <1>1, <2>1, <2>2, <2>3 DEF Record, AuditTypeOK
<1>7. ASSUME NEW i \in 1..Size'
      PROVE  buffer'[Slot(head', i)] = recorded'[Len(recorded') + 1 - i]
  <2>1. CASE i = 1
    BY <1>1, <1>2, <1>3, <1>5, <2>1 DEF Record, AuditTypeOK
  <2>2. CASE i # 1
    <3>1. i \in 2..Size' /\ i - 1 \in 1..Size
      BY <1>4, <1>6, <2>2, SizeBound
    <3>2. buffer'[Slot(head', i)] = recorded[Len(recorded) + 1 - (i - 1)]
      BY <1>6, <3>1 DEF RingInv
    <3>3. Len(recorded) + 1 - (i - 1) \in 1..Len(recorded) /\ Len(recorded') + 1 - i = Len(recorded) + 1 - (i - 1)
      BY <1>1, <1>3, <3>1, SizeBound DEF AuditTypeOK
    <3>4. recorded'[Len(recorded) + 1 - (i - 1)] = recorded[Len(recorded) + 1 - (i - 1)]
      BY <1>1, <3>3 DEF Record, AuditTypeOK
    <3> QED BY <3>2, <3>3, <3>4
  <2> QED BY <2>1, <2>2
<1> QED BY <1>2, <1>3, <1>4, <1>5, <1>6, <1>7 DEF RingInv

LEMMA ClearRing ==
  ASSUME RingInv, Clear
  PROVE  RingInv' /\ Size' = 0
<1>1. AuditTypeOK'
  BY CapacityAssumption DEF Clear, AuditTypeOK, Slots
<1>2. Size' = 0 /\ total' = Len(recorded')
  BY CapacityAssumption DEF Clear, Size
<1> QED BY <1>1, <1>2 DEF RingInv

LEMMA InitRing ==
  ASSUME AuditInit
  PROVE  RingInv
<1>1. AuditTypeOK
  BY CapacityAssumption DEF AuditInit, AuditTypeOK, Slots
<1>2. Size = 0 /\ total = Len(recorded)
  BY CapacityAssumption DEF AuditInit, Size
<1> QED BY <1>1, <1>2 DEF RingInv

LEMMA RingNewest == RingInv => RingHoldsNewest
BY DEF RingInv, RingHoldsNewest, Size, Slot

THEOREM RingInvariance == AuditSpec => []RingInv
<1>1. AuditInit => RingInv
  BY InitRing
<1>2. RingInv /\ [AuditNext]_auditVars => RingInv'
  <2> SUFFICES ASSUME RingInv, [AuditNext]_auditVars PROVE RingInv'
    OBVIOUS
  <2>1. ASSUME NEW input \in Inputs, Record(Materialize(input)) PROVE RingInv'
    BY <2>1, InputsAssumption, MaterializeType, RecordRing
  <2>2. CASE UNCHANGED auditVars
    BY <2>2 DEF auditVars, RingInv, AuditTypeOK, Size
  <2> QED BY <2>1, <2>2, ClearRing DEF AuditNext
<1> QED BY <1>1, <1>2, PTL DEF AuditSpec

\* The ring of audit-log.ts holds the newest entries in the order of their age, whatever its
\* capacity and however often it has wrapped around.
THEOREM RingCorrect == AuditSpec => []RingHoldsNewest
BY RingNewest, RingInvariance, PTL

\* To its readers the ring of audit-log.ts is the log that keeps the newest Capacity entries.
THEOREM LogRefinement == AuditSpec => ImplementsBoundedLog
<1>1. AuditInit => NewestFirst = <<>>
  BY CapacityAssumption DEF AuditInit, NewestFirst, Size
<1>2. RingInv /\ [AuditNext]_auditVars => [Seen!Add \/ Seen!Empty]_NewestFirst
  <2> SUFFICES ASSUME RingInv, [AuditNext]_auditVars PROVE [Seen!Add \/ Seen!Empty]_NewestFirst
    OBVIOUS
  <2>1. ASSUME NEW e \in AuditEntry, Record(e) PROVE Seen!Add
    <3>1. /\ RingInv' /\ Size' = IF Size + 1 < Capacity THEN Size + 1 ELSE Capacity
          /\ Slot(head', 1) = head /\ buffer'[head] = e
          /\ \A i \in 2..Size' : i - 1 \in 1..Size /\ buffer'[Slot(head', i)] = buffer[Slot(head, i - 1)]
      BY <2>1, RecordRing
    <3>2. Size \in Nat /\ Size <= Capacity /\ Size' \in Nat /\ Size' > 0 /\ Size' <= Size + 1 /\ Capacity \in Nat \ {0}
      BY <3>1, SizeBound, CapacityAssumption
    <3> DEFINE old == NewestFirst
               new == NewestFirst'
    <3>3. old = [i \in 1..Size |-> buffer[Slot(head, i)]] /\ new = [i \in 1..Size' |-> buffer'[Slot(head', i)]]
      BY DEF NewestFirst, Slot
    <3> DEFINE Cell == AuditEntry \cup {Undefined}
    <3>typed. old \in Seq(Cell) /\ new \in Seq(Cell) /\ e \in Cell
      <4>1. \A i \in 1..Capacity : Slot(head, i) \in Slots /\ Slot(head', i) \in Slots
        BY <3>1, SlotIs DEF RingInv, AuditTypeOK
      <4>2. ASSUME NEW i \in 1..Size PROVE buffer[Slot(head, i)] \in Cell
        BY <3>2, <4>1 DEF RingInv, AuditTypeOK
      <4>3. ASSUME NEW i \in 1..Size' PROVE buffer'[Slot(head', i)] \in Cell
        <5>1. i \in 1..Capacity
          BY <3>1, <3>2
        <5> QED BY <3>1, <4>1, <5>1 DEF RingInv, AuditTypeOK
      <4> HIDE DEF Cell
      <4> QED BY <3>2, <3>3, <4>2, <4>3 DEF Cell
    <3>4. Head(new) = e /\ new # <<>>
      <4>1. new[1] = e /\ Len(new) = Size'
        BY <3>1, <3>2, <3>3
      <4> HIDE DEF new, Cell
      <4> QED BY <3>2, <3>typed, <4>1
    <3>5. new = Seen!Keep(<<e>> \o old)
      <4>1. Len(<<e>> \o old) = Size + 1
        BY <3>2, <3>3
      <4>2. Seen!Keep(<<e>> \o old) = SubSeq(<<e>> \o old, 1, Size')
        BY <3>1, <3>2, <4>1 DEF Seen!Keep
      <4>3. SubSeq(<<e>> \o old, 1, Size') = [i \in 1..Size' |-> (<<e>> \o old)[i]]
        <5>1. <<e>> \o old \in Seq(Cell)
          BY <3>typed
        <5> HIDE DEF old, Cell
        <5> QED BY <3>2, <4>1, <5>1
      <4>4. ASSUME NEW i \in 1..Size' PROVE (<<e>> \o old)[i] = new[i]
        <5>1. CASE i = 1
          BY <3>1, <3>2, <3>3, <5>1
        <5>2. CASE i # 1
          <6>1. i \in 2..Size' /\ i - 1 \in 1..Size
            BY <3>1, <3>2, <5>2
          <6>2. (<<e>> \o old)[i] = old[i - 1]
            BY <3>2, <3>3, <6>1
          <6> QED BY <3>1, <3>3, <6>1, <6>2
        <5> QED BY <5>1, <5>2
      <4> QED BY <3>3, <4>2, <4>3, <4>4
    <3> QED BY <3>4, <3>5 DEF Seen!Add
  <2>2. CASE Clear
    BY <2>2, ClearRing DEF Seen!Empty, NewestFirst
  <2>3. CASE UNCHANGED auditVars
    BY <2>3 DEF auditVars, NewestFirst, Size
  <2> QED BY <2>1, <2>2, <2>3, InputsAssumption, MaterializeType DEF AuditNext
<1> QED BY <1>1, <1>2, RingInvariance, PTL DEF AuditSpec, ImplementsBoundedLog, Seen!BoundedSpec


LEMMA LeastExists ==
  ASSUME NEW S \in SUBSET Nat, S # {}
  PROVE  \E k \in S : \A m \in S : k <= m
<1>1. PICK k \in S : \A m \in Nat : <<m, k>> \in OpToRel(<, Nat) => m \notin S
  BY NatLessThanWellFounded, WFMin
<1>2. \A m \in S : ~(m < k)
  BY <1>1 DEF OpToRel
<1> QED BY <1>2


-----------------------------------------------------------------------------
(* What a query answers *)

Scans(f, n, out) == out = [i \in 0..n |-> IF i = 0 THEN <<>> ELSE Push(out[i - 1], NewestFirst[i], f)]

LEMMA ScanExists ==
  ASSUME NEW f, NEW n \in Nat
  PROVE  \E out : Scans(f, n, out)
<1> DEFINE Bad == {m \in Nat : ~\E out : Scans(f, m, out)}
<1> SUFFICES ASSUME Bad # {} PROVE FALSE
  OBVIOUS
<1>1. PICK m \in Bad : \A k \in Bad : m <= k
  BY LeastExists
<1>2. m \in Nat /\ ~\E out : Scans(f, m, out)
  BY <1>1
<1>3. CASE m = 0
  <2>1. Scans(f, 0, [i \in 0..0 |-> <<>>])
    BY DEF Scans
  <2> QED BY <1>2, <1>3, <2>1
<1>4. CASE m # 0
  <2>1. m - 1 \in Nat /\ m - 1 \notin Bad
    BY <1>1, <1>2, <1>4
  <2>2. PICK old : Scans(f, m - 1, old)
    BY <2>1
  <2>3. PICK last : last = Push(old[m - 1], NewestFirst[m], f)
    OBVIOUS
  <2>4. PICK out : out = [i \in 0..m |-> IF i = m THEN last ELSE old[i]]
    OBVIOUS
  <2>5. ASSUME NEW i \in 0..m PROVE out[i] = IF i = 0 THEN <<>> ELSE Push(out[i - 1], NewestFirst[i], f)
    <3>1. CASE i = m
      <4>1. out[i] = last /\ out[i - 1] = old[m - 1] /\ i # 0
        BY <1>2, <1>4, <2>4, <3>1
      <4> QED BY <2>3, <3>1, <4>1
    <3>2. CASE i # m
      <4>1. i \in 0..(m - 1) /\ out[i] = old[i] /\ (i # 0 => out[i - 1] = old[i - 1])
        BY <1>2, <1>4, <2>4, <3>2
      <4>2. old[i] = IF i = 0 THEN <<>> ELSE Push(old[i - 1], NewestFirst[i], f)
        BY <2>2, <4>1 DEF Scans
      <4> QED BY <4>1, <4>2
    <3> QED BY <3>1, <3>2
  <2>6. DOMAIN out = 0..m /\ out = [i \in 0..m |-> out[i]]
    BY <2>4
  <2>7. Scans(f, m, out)
    BY <2>5, <2>6 DEF Scans
  <2> QED BY <1>2, <2>7
<1> QED BY <1>3, <1>4

LEMMA ScanIs ==
  ASSUME NEW f, Size \in Nat
  PROVE  Scan(f)[0] = <<>> /\ \A i \in 1..Size : Scan(f)[i] = Push(Scan(f)[i - 1], NewestFirst[i], f)
<1>1. PICK out : Scans(f, Size, out)
  BY ScanExists
<1>2. Scan(f) = CHOOSE g : Scans(f, Size, g)
  BY DEF Scan, Scans
<1>3. Scans(f, Size, Scan(f))
  BY <1>1, <1>2
<1> QED BY <1>3 DEF Scans

Allowed(limit) == IF limit = 0 THEN 1 ELSE limit

\* At the positions at are the matching ones of the first i entries, but for those over the limit.
Picks(f, i, out, at) ==
  /\ out \in Seq(AuditEntry) /\ at \in [1..Len(out) -> 1..i]
  /\ \A k \in 1..Len(out) : out[k] = NewestFirst[at[k]] /\ Satisfies(out[k], f)
  /\ \A j, k \in 1..Len(out) : j < k => at[j] < at[k]
  /\ f.limit # Undefined => Len(out) <= Allowed(f.limit)
  /\ \A p \in 1..i : Satisfies(NewestFirst[p], f) /\ (\A k \in 1..Len(out) : at[k] # p) =>
       f.limit # Undefined /\ Len(out) = Allowed(f.limit) /\ \A k \in 1..Len(out) : at[k] < p

LEMMA PushPicks ==
  ASSUME NEW f, f.limit # Undefined => f.limit \in Nat,
         NEW i \in Nat \ {0}, NewestFirst[i] \in AuditEntry, NEW out, NEW at, Picks(f, i - 1, out, at)
  PROVE  \E more : Picks(f, i, Push(out, NewestFirst[i], f), more)
<1>1. PICK e \in AuditEntry : e = NewestFirst[i]
  OBVIOUS
<1>2. e # Undefined
  BY UndefinedAssumption
<1>3. PICK n \in Nat : n = Len(out) /\ out \in Seq(AuditEntry)
  BY DEF Picks
<1>4. /\ at \in [1..n -> 1..(i - 1)]
      /\ \A k \in 1..n : out[k] = NewestFirst[at[k]] /\ Satisfies(out[k], f)
      /\ \A j, k \in 1..n : j < k => at[j] < at[k]
      /\ f.limit # Undefined => n <= Allowed(f.limit)
      /\ \A p \in 1..(i - 1) : Satisfies(NewestFirst[p], f) /\ (\A k \in 1..n : at[k] # p) =>
           f.limit # Undefined /\ n = Allowed(f.limit) /\ \A k \in 1..n : at[k] < p
  BY <1>3 DEF Picks
<1>5. \A p \in 1..i : p \in 1..(i - 1) \/ p = i
  OBVIOUS
<1>6. \A k \in 1..n : at[k] \in 1..i /\ at[k] < i
  BY <1>4
<1>7. out = <<>> <=> n = 0
  BY <1>3
<1>8. at \in [1..n -> 1..i]
  BY <1>4, <1>6
<1>9. CASE Satisfies(e, f) /\ ~Full(out, f.limit)
  <2>1. PICK new : new = Append(out, e)
    OBVIOUS
  <2>2. /\ Push(out, e, f) = new /\ new \in Seq(AuditEntry) /\ Len(new) = n + 1 /\ new[n + 1] = e
        /\ \A k \in 1..n : new[k] = out[k]
    BY <1>2, <1>3, <1>9, <2>1 DEF Push
  <2>3. PICK more : more = [k \in 1..(n + 1) |-> IF k = n + 1 THEN i ELSE at[k]]
    OBVIOUS
  <2>4. /\ more \in [1..(n + 1) -> 1..i] /\ more[n + 1] = i /\ \A k \in 1..n : more[k] = at[k]
    BY <1>6, <2>3
  <2>5. \A k \in 1..(n + 1) : k \in 1..n \/ k = n + 1
    OBVIOUS
  <2>6. f.limit # Undefined => n < Allowed(f.limit) /\ n + 1 <= Allowed(f.limit)
    BY <1>3, <1>7, <1>9 DEF Full, Allowed
  <2>7. \A k \in 1..(n + 1) : new[k] = NewestFirst[more[k]] /\ Satisfies(new[k], f)
    BY <1>1, <1>4, <1>9, <2>2, <2>4, <2>5
  <2>8. ASSUME NEW j \in 1..(n + 1), NEW k \in 1..(n + 1), j < k PROVE more[j] < more[k]
    <3>1. j \in 1..n
      BY <2>8
    <3> QED BY <1>4, <1>6, <2>4, <2>5, <2>8, <3>1
  <2>9. ASSUME NEW p \in 1..i, Satisfies(NewestFirst[p], f), \A k \in 1..(n + 1) : more[k] # p PROVE FALSE
    <3>1. p \in 1..(i - 1)
      <4>1. n + 1 \in 1..(n + 1)
        OBVIOUS
      <4> QED BY <1>5, <2>4, <2>9, <4>1
    <3>2. \A k \in 1..n : k \in 1..(n + 1) /\ at[k] # p
      BY <2>4, <2>9
    <3>3. f.limit # Undefined /\ n = Allowed(f.limit)
      BY <1>4, <2>9, <3>1, <3>2
    <3>4. n < n
      BY <2>6, <3>3
    <3> QED BY <3>4
  <2>10. Picks(f, i, new, more)
    BY <2>2, <2>4, <2>6, <2>7, <2>8, <2>9 DEF Picks
  <2> QED BY <1>1, <2>2, <2>10
<1>10. CASE ~Satisfies(e, f)
  <2>1. Push(out, e, f) = out
    BY <1>10 DEF Push
  <2>2. Picks(f, i, out, at)
    <3>1. \A p \in 1..i : Satisfies(NewestFirst[p], f) => p \in 1..(i - 1)
      BY <1>1, <1>5, <1>10
    <3> QED BY <1>3, <1>4, <1>8, <3>1 DEF Picks
  <2> QED BY <1>1, <2>1, <2>2
<1>11. CASE Full(out, f.limit)
  <2>1. Push(out, e, f) = out
    BY <1>11 DEF Push
  <2>2. f.limit # Undefined /\ n = Allowed(f.limit)
    BY <1>3, <1>4, <1>7, <1>11 DEF Full, Allowed
  <2>3. Picks(f, i, out, at)
    <3>1. \A p \in 1..i : (\A k \in 1..n : at[k] # p) /\ Satisfies(NewestFirst[p], f) => \A k \in 1..n : at[k] < p
      BY <1>4, <1>5, <1>6
    <3> QED BY <1>3, <1>4, <1>8, <2>2, <3>1 DEF Picks
  <2> QED BY <1>1, <2>1, <2>3
<1> QED BY <1>9, <1>10, <1>11

LEMMA QueryPicks ==
  ASSUME NEW f, f.limit # Undefined => f.limit \in Nat,
         Size \in Nat, \A i \in 1..Size : NewestFirst[i] \in AuditEntry
  PROVE  \E at : Picks(f, Size, Query(f), at)
<1> DEFINE Bad == {i \in 0..Size : ~\E at : Picks(f, i, Scan(f)[i], at)}
<1>1. ASSUME Bad # {} PROVE FALSE
  <2>1. PICK i \in Bad : \A k \in Bad : i <= k
    <3>1. Bad \in SUBSET Nat
      OBVIOUS
    <3> QED BY <1>1, <3>1, LeastExists
  <2>2. i \in 0..Size /\ ~\E at : Picks(f, i, Scan(f)[i], at)
    BY <2>1
  <2>3. CASE i = 0
    <3>1. Scan(f)[i] = <<>>
      BY <2>3, ScanIs
    <3>2. PICK out : out = <<>>
      OBVIOUS
    <3>3. out \in Seq(AuditEntry) /\ Len(out) = 0
      BY <3>2
    <3>4. PICK at : at \in [1..0 -> 1..0]
      <4>1. [k \in 1..0 |-> k] \in [1..0 -> 1..0]
        OBVIOUS
      <4> QED BY <4>1
    <3>5. f.limit # Undefined => 0 <= Allowed(f.limit)
      BY DEF Allowed
    <3>6. Picks(f, 0, out, at)
      BY <3>3, <3>4, <3>5 DEF Picks
    <3> QED BY <2>2, <2>3, <3>1, <3>2, <3>6
  <2>4. CASE i # 0
    <3>1. i \in 1..Size /\ i - 1 \in 0..Size /\ i - 1 \notin Bad
      BY <2>1, <2>2, <2>4
    <3>2. PICK at : Picks(f, i - 1, Scan(f)[i - 1], at)
      BY <3>1
    <3>3. Scan(f)[i] = Push(Scan(f)[i - 1], NewestFirst[i], f)
      BY <3>1, ScanIs
    <3>4. NewestFirst[i] \in AuditEntry /\ i \in Nat \ {0}
      BY <3>1
    <3>5. \E more : Picks(f, i, Scan(f)[i], more)
      BY <3>2, <3>3, <3>4, PushPicks
    <3> QED BY <2>2, <3>5
  <2> QED BY <2>3, <2>4
<1>2. Size \notin Bad /\ Size \in 0..Size
  BY <1>1
<1> QED BY <1>2 DEF Query

\* The i-th newest entry is at the position n + 1 - i.
LEMMA QuerySound ==
  ASSUME RingInv
  PROVE  QueryAnswers
<1>1. PICK n \in Nat : n = Len(recorded) /\ recorded \in Seq(AuditEntry)
  BY DEF RingInv, AuditTypeOK
<1>2. PICK size \in Nat : size = Size /\ size <= n /\ (size = n \/ size = Capacity) /\ size <= Capacity
  BY <1>1, CapacityAssumption DEF RingInv, AuditTypeOK, Size
<1>3. \A i \in 1..size : n + 1 - i \in 1..n /\ NewestFirst[i] = recorded[n + 1 - i]
  BY <1>1, <1>2 DEF RingInv, NewestFirst, Slot
<1>4. \A i \in 1..size : NewestFirst[i] \in AuditEntry
  BY <1>1, <1>3
<1> SUFFICES ASSUME NEW f \in Filters
             PROVE  LET kept    == {p \in 1..n : p > n - Capacity /\ Satisfies(recorded[p], f)}
                        answer  == Query(f)
                        allowed == IF f.limit = 0 THEN 1 ELSE f.limit
                    IN \E at \in [1..Len(answer) -> kept] :
                         /\ \A k \in DOMAIN at : answer[k] = recorded[at[k]]
                         /\ \A j, k \in DOMAIN at : j < k => at[k] < at[j]
                         /\ f.limit = Undefined \/ Len(answer) <= allowed
                         /\ \A p \in kept \ {at[k] : k \in DOMAIN at} :
                              f.limit # Undefined /\ Len(answer) = allowed /\ \A k \in DOMAIN at : p < at[k]
  BY <1>1, SMTT(30) DEF QueryAnswers
<1>5. f.limit # Undefined => f.limit \in Nat
  <2>1. f.limit \in Nat \cup {Undefined}
    BY FiltersAssumption
  <2> QED BY <2>1
<1>6. PICK answer : answer = Query(f)
  OBVIOUS
<1>7. PICK old : Picks(f, size, answer, old)
  BY <1>2, <1>4, <1>5, <1>6, QueryPicks
<1>8. PICK m \in Nat : m = Len(answer)
  BY <1>7 DEF Picks
<1>9. /\ old \in [1..m -> 1..size]
      /\ \A k \in 1..m : answer[k] = NewestFirst[old[k]] /\ Satisfies(answer[k], f)
      /\ \A j, k \in 1..m : j < k => old[j] < old[k]
      /\ f.limit # Undefined => m <= Allowed(f.limit)
      /\ \A p \in 1..size : Satisfies(NewestFirst[p], f) /\ (\A k \in 1..m : old[k] # p) =>
           f.limit # Undefined /\ m = Allowed(f.limit) /\ \A k \in 1..m : old[k] < p
  BY <1>7, <1>8 DEF Picks
<1>10. PICK at : at = [k \in 1..m |-> n + 1 - old[k]]
  OBVIOUS
<1>11. DOMAIN at = 1..m /\ \A k \in 1..m : old[k] \in 1..size /\ at[k] = n + 1 - old[k]
  BY <1>9, <1>10
<1> DEFINE kept == {p \in 1..n : p > n - Capacity /\ Satisfies(recorded[p], f)}
<1>12. ASSUME NEW k \in 1..m PROVE at[k] \in kept /\ answer[k] = recorded[at[k]]
  <2>1. answer[k] = recorded[at[k]] /\ at[k] \in 1..n
    BY <1>3, <1>9, <1>11
  <2>2. at[k] > n - Capacity
    BY <1>2, <1>11, CapacityAssumption
  <2>3. Satisfies(recorded[at[k]], f)
    BY <1>9, <2>1
  <2> QED BY <2>1, <2>2, <2>3
<1>13. at \in [1..m -> kept]
  BY <1>10, <1>11, <1>12
<1>14. \A j, k \in 1..m : j < k => at[k] < at[j]
  BY <1>9, <1>11
<1>15. ASSUME NEW p \in kept, \A k \in 1..m : at[k] # p
       PROVE  f.limit # Undefined /\ m = Allowed(f.limit) /\ \A k \in 1..m : p < at[k]
  <2>1. PICK i : i = n + 1 - p
    OBVIOUS
  <2>2. p \in 1..n /\ p > n - Capacity /\ Satisfies(recorded[p], f)
    OBVIOUS
  <2>3. i \in 1..size /\ p = n + 1 - i
    BY <1>2, <2>1, <2>2, CapacityAssumption
  <2>4. Satisfies(NewestFirst[i], f)
    BY <1>3, <2>2, <2>3
  <2>5. \A k \in 1..m : old[k] # i
    BY <1>11, <1>15, <2>3
  <2>6. f.limit # Undefined /\ m = Allowed(f.limit) /\ \A k \in 1..m : old[k] < i
    BY <1>9, <2>3, <2>4, <2>5
  <2> QED BY <1>11, <2>3, <2>6, SMTT(30)
<1>16. \A p \in kept \ {at[k] : k \in DOMAIN at} : p \in kept /\ \A k \in 1..m : at[k] # p
  BY <1>11
<1> HIDE DEF kept
<1>17. \A p \in kept \ {at[k] : k \in DOMAIN at} :
         f.limit # Undefined /\ m = Allowed(f.limit) /\ \A k \in DOMAIN at : p < at[k]
  BY <1>11, <1>15, <1>16
<1>18. f.limit = Undefined \/ m <= Allowed(f.limit)
  BY <1>9
<1> QED BY <1>6, <1>8, <1>11, <1>12, <1>13, <1>14, <1>17, <1>18 DEF kept, Allowed
-----------------------------------------------------------------------------
(* The stages of a request *)

Stages == {"none", "reading", "settled", "answered"}
Codes  == {0, 200, 201, 204, 400, 401, 404, 405, 500}
Calls  == {Resolve(i) : i \in Asks} \cup {NoAsk}

IsFresh(r)    == stage[r] = "none"
IsReading(r)  == stage[r] = "reading"
IsSettled(r)  == stage[r] = "settled"
IsAnswered(r) == stage[r] = "answered"

\* The handler of r was found before its body was read.
Matched(r) == ask[r] \in Asks /\ EarlyAnswer(ask[r]) = 0 /\ call[r] = Resolve(ask[r])

RequestInv ==
  /\ ask \in [Reqs -> Asks \cup {NoAsk}] /\ call \in [Reqs -> Calls]
  /\ stage \in [Reqs -> Stages] /\ status \in [Reqs -> Codes]
  /\ \A r \in Reqs : ~IsFresh(r) <=> ask[r] \in Asks
  /\ \A r \in Reqs : IsReading(r) \/ HasRun(r) => Matched(r)

\* How many of those that ran have been continued.
Continued == Len(ran) - Len(microtask)

\* The continuations that wait are those of the last requests that ran, in turn.
TurnInv ==
  /\ ran \in Seq(Reqs) /\ microtask \in Seq(Reqs) /\ Len(microtask) <= Len(ran)
  /\ \A j, k \in DOMAIN ran : ran[j] = ran[k] => j = k
  /\ \A k \in DOMAIN microtask : microtask[k] = ran[Continued + k]
  /\ \A k \in DOMAIN ran : k <= Continued => IsAnswered(ran[k])
  /\ \A k \in DOMAIN ran : k > Continued => IsSettled(ran[k])

LEMMA StageIsOne ==
  ASSUME NEW r
  PROVE  /\ IsFresh(r) => ~IsReading(r) /\ ~IsSettled(r) /\ ~IsAnswered(r)
         /\ IsReading(r) => ~IsSettled(r) /\ ~IsAnswered(r)
         /\ IsSettled(r) => ~IsAnswered(r)
BY DEF IsFresh, IsReading, IsSettled, IsAnswered

LEMMA RunIsOver ==
  ASSUME TurnInv, NEW r, HasRun(r)
  PROVE  (IsSettled(r) \/ IsAnswered(r)) /\ ~IsFresh(r) /\ ~IsReading(r)
<1>1. PICK k \in DOMAIN ran : ran[k] = r
  BY DEF HasRun
<1>2. k <= Continued \/ k > Continued
  BY DEF TurnInv, Continued
<1>3. IsSettled(r) \/ IsAnswered(r)
  BY <1>1, <1>2 DEF TurnInv
<1> QED BY <1>3, StageIsOne

LEMMA ArriveStep ==
  ASSUME RequestInv, TurnInv, NEW r \in Reqs, NEW i \in Asks, Arrive(r, i)
  PROVE  /\ RequestInv' /\ TurnInv' /\ ~HasRun(r) /\ ~IsReading(r)
         /\ \A s \in Reqs \ {r} : /\ ask'[s] = ask[s] /\ call'[s] = call[s] /\ status'[s] = status[s]
                                  /\ stage'[s] = stage[s]
<1>1. ask[r] = NoAsk /\ ask[r] \notin Asks
  BY AsksAssumption DEF Arrive
<1>2. IsFresh(r) /\ ~HasRun(r) /\ ~IsReading(r)
  BY <1>1, RunIsOver, StageIsOne DEF RequestInv
<1>3. /\ ask' = [ask EXCEPT ![r] = i] /\ ask'[r] = i
      /\ status' = [status EXCEPT ![r] = EarlyAnswer(i)]
      /\ \A s \in Reqs \ {r} : ask'[s] = ask[s] /\ status'[s] = status[s]
  BY DEF Arrive, RequestInv
<1>4. /\ ask' \in [Reqs -> Asks \cup {NoAsk}]
      /\ status' \in [Reqs -> Codes]
  BY <1>3, EarlyAnswers DEF RequestInv, Codes
<1>5. /\ EarlyAnswer(i) = 0 => IsReading(r)' /\ call'[r] = Resolve(i)
      /\ EarlyAnswer(i) # 0 => IsAnswered(r)' /\ call' = call
      /\ \A s \in Reqs \ {r} : call'[s] = call[s] /\ stage'[s] = stage[s]
      /\ stage' \in [Reqs -> Stages] /\ call' \in [Reqs -> Calls]
  <2>1. CASE EarlyAnswer(i) = 0
    <3>1. stage' = [stage EXCEPT ![r] = "reading"] /\ call' = [call EXCEPT ![r] = Resolve(i)]
      BY <2>1 DEF Arrive
    <3> QED BY <2>1, <3>1 DEF RequestInv, IsReading, Stages, Calls
  <2>2. CASE EarlyAnswer(i) # 0
    <3>1. stage' = [stage EXCEPT ![r] = "answered"] /\ call' = call
      BY <2>2 DEF Arrive
    <3> QED BY <2>2, <3>1 DEF RequestInv, IsAnswered, Stages, Calls
  <2> QED BY <2>1, <2>2
<1>6. ran' = ran /\ microtask' = microtask
  BY DEF Arrive
<1>7. \A s \in Reqs : HasRun(s)' <=> HasRun(s)
  BY <1>6 DEF HasRun
<1>8. ASSUME NEW s \in Reqs
      PROVE  (~IsFresh(s)' <=> ask'[s] \in Asks) /\ ((IsReading(s) \/ HasRun(s))' => Matched(s)')
  <2>1. CASE s = r
    <3>1. ~IsFresh(r)' /\ ask'[r] \in Asks /\ ~HasRun(r)'
      <4>1. IsReading(r)' => ~IsFresh(r)'
        BY DEF IsFresh, IsReading
      <4>2. IsAnswered(r)' => ~IsFresh(r)' /\ ~IsReading(r)'
        BY DEF IsFresh, IsReading, IsAnswered
      <4> QED BY <1>2, <1>3, <1>5, <1>7, <4>1, <4>2
    <3>2. IsReading(r)' => EarlyAnswer(i) = 0
      BY <1>5 DEF IsReading, IsAnswered
    <3> QED BY <1>3, <1>5, <2>1, <3>1, <3>2 DEF Matched
  <2>2. CASE s # r
    <3>1. /\ IsFresh(s)' <=> IsFresh(s)
          /\ IsReading(s)' <=> IsReading(s)
          /\ Matched(s)' <=> Matched(s)
      BY <1>3, <1>5, <2>2 DEF IsFresh, IsReading, Matched
    <3> QED BY <1>3, <1>7, <2>2, <3>1 DEF RequestInv
  <2> QED BY <2>1, <2>2
<1>9. TurnInv'
  <2>1. \A k \in DOMAIN ran : ran[k] \in Reqs \ {r}
    BY <1>2 DEF HasRun, TurnInv
  <2>2. \A k \in DOMAIN ran : (IsAnswered(ran[k])' <=> IsAnswered(ran[k])) /\ (IsSettled(ran[k])' <=> IsSettled(ran[k]))
    BY <1>5, <1>6, <2>1 DEF IsAnswered, IsSettled
  <2>3. Continued' = Continued
    BY <1>6 DEF Continued
  <2> QED BY <1>6, <2>2, <2>3 DEF TurnInv
<1>10. RequestInv'
  BY <1>4, <1>5, <1>8 DEF RequestInv
<1> QED BY <1>2, <1>3, <1>5, <1>9, <1>10

\* Only the stage and the status of r change; neither it nor another begins to be read.
LEMMA OthersStay ==
  ASSUME RequestInv, NEW r \in Reqs, ~IsFresh(r), ask' = ask, call' = call,
         status' \in [Reqs -> Codes], stage' \in [Reqs -> Stages],
         \A s \in Reqs \ {r} : stage'[s] = stage[s] /\ (HasRun(s)' => HasRun(s)),
         ~IsFresh(r)' /\ ~IsReading(r)' /\ (HasRun(r)' => Matched(r))
  PROVE  RequestInv'
<1>1. ASSUME NEW s \in Reqs
      PROVE  (~IsFresh(s)' <=> ask'[s] \in Asks) /\ ((IsReading(s) \/ HasRun(s))' => Matched(s)')
  <2>1. Matched(s)' <=> Matched(s)
    BY DEF Matched
  <2>2. CASE s = r
    BY <2>1, <2>2 DEF RequestInv
  <2>3. CASE s # r
    <3>1. (IsFresh(s)' <=> IsFresh(s)) /\ (IsReading(s)' <=> IsReading(s))
      BY <2>3 DEF IsFresh, IsReading
    <3> QED BY <2>1, <2>3, <3>1 DEF RequestInv
  <2> QED BY <2>2, <2>3
<1> QED BY <1>1 DEF RequestInv

LEMMA ThrowStep ==
  ASSUME RequestInv, TurnInv, NEW r \in Reqs, IsReading(r), Throw(r)
  PROVE  /\ RequestInv' /\ TurnInv' /\ ~HasRun(r)
         /\ \A s \in Reqs \ {r} : status'[s] = status[s] /\ stage'[s] = stage[s]
<1>1. ~HasRun(r) /\ ~IsFresh(r)
  BY RunIsOver, StageIsOne
<1>2. /\ status' = [status EXCEPT ![r] = 500] /\ stage' = [stage EXCEPT ![r] = "answered"]
      /\ ask' = ask /\ call' = call /\ microtask' = microtask /\ ran' = ran
  BY DEF Throw
<1>3. /\ status' \in [Reqs -> Codes] /\ \A s \in Reqs \ {r} : status'[s] = status[s]
  BY <1>2 DEF RequestInv, Codes
<1>4. /\ stage' \in [Reqs -> Stages] /\ IsAnswered(r)' /\ \A s \in Reqs \ {r} : stage'[s] = stage[s]
  BY <1>2 DEF RequestInv, Stages, IsAnswered
<1>5. ~IsFresh(r)' /\ ~IsReading(r)'
  BY <1>4 DEF IsFresh, IsReading, IsAnswered
<1>6. \A s : HasRun(s)' <=> HasRun(s)
  BY <1>2 DEF HasRun
<1>7. RequestInv'
  BY <1>1, <1>2, <1>3, <1>4, <1>5, <1>6, OthersStay
<1>8. TurnInv'
  <2>1. \A k \in DOMAIN ran : ran[k] \in Reqs \ {r}
    BY <1>1 DEF HasRun, TurnInv
  <2>2. \A k \in DOMAIN ran : (IsAnswered(ran[k])' <=> IsAnswered(ran[k])) /\ (IsSettled(ran[k])' <=> IsSettled(ran[k]))
    BY <1>2, <1>4, <2>1 DEF IsAnswered, IsSettled
  <2>3. Continued' = Continued
    BY <1>2 DEF Continued
  <2> QED BY <1>2, <2>2, <2>3 DEF TurnInv
<1> QED BY <1>1, <1>3, <1>4, <1>7, <1>8

LEMMA ReturnStep ==
  ASSUME RequestInv, TurnInv, NEW r \in Reqs, IsReading(r), NEW code \in Codes, Return(r, code)
  PROVE  /\ RequestInv' /\ TurnInv' /\ ~HasRun(r)
         /\ ran' = Append(ran, r) /\ Continued' = Continued
         /\ status'[r] = code /\ \A s \in Reqs \ {r} : status'[s] = status[s] /\ stage'[s] = stage[s]
         /\ \A s \in Reqs : HasRun(s)' <=> HasRun(s) \/ s = r
<1>1. ~HasRun(r) /\ ~IsFresh(r) /\ Matched(r)
  BY RunIsOver, StageIsOne DEF RequestInv
<1>2. /\ status' = [status EXCEPT ![r] = code] /\ stage' = [stage EXCEPT ![r] = "settled"]
      /\ ask' = ask /\ call' = call /\ microtask' = Append(microtask, r) /\ ran' = Append(ran, r)
  BY DEF Return
<1>3. /\ status' \in [Reqs -> Codes] /\ status'[r] = code /\ \A s \in Reqs \ {r} : status'[s] = status[s]
  BY <1>2 DEF RequestInv
<1>4. /\ stage' \in [Reqs -> Stages] /\ IsSettled(r)' /\ \A s \in Reqs \ {r} : stage'[s] = stage[s]
  BY <1>2 DEF RequestInv, Stages, IsSettled
<1>5. ~IsFresh(r)' /\ ~IsReading(r)'
  BY <1>4 DEF IsFresh, IsReading, IsSettled
<1>6. /\ ran' \in Seq(Reqs) /\ Len(ran') = Len(ran) + 1 /\ ran'[Len(ran) + 1] = r
      /\ \A k \in DOMAIN ran : ran'[k] = ran[k]
      /\ microtask' \in Seq(Reqs) /\ Len(microtask') = Len(microtask) + 1 /\ microtask'[Len(microtask) + 1] = r
      /\ \A k \in DOMAIN microtask : microtask'[k] = microtask[k]
      /\ Len(ran) \in Nat /\ Len(microtask) \in Nat /\ Len(microtask) <= Len(ran)
  BY <1>2 DEF TurnInv
<1>7. \A s \in Reqs : HasRun(s)' <=> HasRun(s) \/ s = r
  <2>1. \A k : k \in DOMAIN ran' <=> k \in DOMAIN ran \/ k = Len(ran) + 1
    BY <1>6 DEF TurnInv
  <2> QED BY <1>6, <2>1 DEF HasRun
<1>8. RequestInv'
  BY <1>1, <1>2, <1>3, <1>4, <1>5, <1>7, OthersStay
<1>9. Continued' = Continued /\ Continued \in Nat /\ Continued <= Len(ran)
  BY <1>6 DEF Continued
<1>10. TurnInv'
  <2>1. \A k \in DOMAIN ran : ran[k] \in Reqs \ {r}
    BY <1>1 DEF HasRun, TurnInv
  <2>2. \A k \in DOMAIN ran : (IsAnswered(ran[k])' <=> IsAnswered(ran[k])) /\ (IsSettled(ran[k])' <=> IsSettled(ran[k]))
    <3> SUFFICES ASSUME NEW k \in DOMAIN ran
                 PROVE  (IsAnswered(ran[k])' <=> IsAnswered(ran[k])) /\ (IsSettled(ran[k])' <=> IsSettled(ran[k]))
      OBVIOUS
    <3>1. PICK s \in Reqs \ {r} : s = ran[k]
      BY <2>1
    <3>2. ran'[k] = s
      BY <1>6, <3>1
    <3> QED BY <1>4, <3>1, <3>2 DEF IsAnswered, IsSettled
  <2>3. \A j, k \in DOMAIN ran' : ran'[j] = ran'[k] => j = k
    <3>1. \A k \in DOMAIN ran' : k \in DOMAIN ran \/ k = Len(ran) + 1
      BY <1>6
    <3> QED BY <1>6, <2>1, <3>1 DEF TurnInv
  <2>4. \A k \in DOMAIN microtask' : microtask'[k] = ran'[Continued + k]
    <3> SUFFICES ASSUME NEW k \in DOMAIN microtask' PROVE microtask'[k] = ran'[Continued + k]
      OBVIOUS
    <3>1. CASE k \in DOMAIN microtask
      <4>1. Continued + k \in DOMAIN ran
        BY <1>6, <3>1 DEF Continued, TurnInv
      <4> QED BY <1>6, <3>1, <4>1 DEF TurnInv
    <3>2. CASE k = Len(microtask) + 1
      BY <1>6, <3>2 DEF Continued
    <3> QED BY <1>6, <3>1, <3>2
  <2>5. ASSUME NEW k \in DOMAIN ran'
        PROVE  (k <= Continued => IsAnswered(ran[k])') /\ (k > Continued => IsSettled(ran[k])')
    <3>1. CASE k \in DOMAIN ran
      BY <2>2, <3>1 DEF TurnInv
    <3>2. CASE k = Len(ran) + 1
      <4>1. k > Continued /\ ~(k <= Continued)
        BY <1>9, <1>6, <3>2
      <4>2. ran'[k] = r
        BY <1>6, <3>2
      <4> QED BY <1>4, <4>1, <4>2 DEF IsSettled
    <3> QED BY <1>6, <3>1, <3>2
  <2>6. Len(microtask') <= Len(ran')
    BY <1>6
  <2> QED BY <1>6, <1>9, <2>3, <2>4, <2>5, <2>6 DEF TurnInv
<1> QED BY <1>1, <1>2, <1>3, <1>4, <1>7, <1>8, <1>9, <1>10

LEMMA ContinueStep ==
  ASSUME RequestInv, TurnInv, NEW r \in Reqs, Continue(r)
  PROVE  /\ RequestInv' /\ TurnInv' /\ Continued' = Continued + 1
         /\ Continued + 1 \in DOMAIN ran /\ ran[Continued + 1] = r /\ Continued \in Nat
         /\ IsSettled(r)
<1>1. /\ Len(microtask) \in Nat \ {0} /\ microtask[1] = r
      /\ Len(microtask') = Len(microtask) - 1 /\ microtask' \in Seq(Reqs)
      /\ \A k \in 1..(Len(microtask) - 1) : microtask'[k] = microtask[k + 1]
  BY DEF Continue, TurnInv
<1>2. /\ stage' = [stage EXCEPT ![r] = "answered"]
      /\ ask' = ask /\ call' = call /\ status' = status /\ ran' = ran
  BY DEF Continue
<1>3. /\ Len(ran) \in Nat /\ Len(microtask) <= Len(ran) /\ Continued \in Nat /\ Continued + 1 <= Len(ran)
      /\ Continued' = Continued + 1 /\ Continued + 1 \in DOMAIN ran
  BY <1>1, <1>2 DEF Continued, TurnInv
<1>4. ran[Continued + 1] = r
  BY <1>1 DEF TurnInv
<1>5. IsSettled(r) /\ HasRun(r) /\ ~IsFresh(r) /\ Matched(r)
  <2>1. Continued + 1 > Continued
    BY <1>3
  <2>2. IsSettled(r)
    BY <1>3, <1>4, <2>1 DEF TurnInv
  <2>3. HasRun(r)
    BY <1>3, <1>4 DEF HasRun
  <2> QED BY <2>2, <2>3, StageIsOne DEF RequestInv
<1>6. /\ stage' \in [Reqs -> Stages] /\ IsAnswered(r)' /\ \A s \in Reqs \ {r} : stage'[s] = stage[s]
  BY <1>2 DEF RequestInv, Stages, IsAnswered
<1>7. ~IsFresh(r)' /\ ~IsReading(r)'
  BY <1>6 DEF IsFresh, IsReading, IsAnswered
<1>8. \A s : HasRun(s)' <=> HasRun(s)
  BY <1>2 DEF HasRun
<1>9. RequestInv'
  <2>1. status' \in [Reqs -> Codes]
    BY <1>2 DEF RequestInv
  <2> QED BY <1>2, <1>5, <1>6, <1>7, <1>8, <2>1, OthersStay
<1>10. TurnInv'
  <2>1. ASSUME NEW k \in DOMAIN ran
        PROVE  (k <= Continued + 1 => IsAnswered(ran[k])') /\ (k > Continued + 1 => IsSettled(ran[k])')
    <3>1. CASE k = Continued + 1
      <4>1. IsAnswered(ran[k])'
        BY <1>2, <1>4, <1>6, <3>1 DEF IsAnswered
      <4> QED BY <1>3, <3>1, <4>1
    <3>2. CASE k # Continued + 1
      <4>1. PICK s \in Reqs : s = ran[k]
        BY DEF TurnInv
      <4>2. s # r /\ ran'[k] = s
        BY <1>2, <1>3, <1>4, <3>2, <4>1 DEF TurnInv
      <4>3. (IsAnswered(ran[k])' <=> IsAnswered(ran[k])) /\ (IsSettled(ran[k])' <=> IsSettled(ran[k]))
        BY <1>6, <4>1, <4>2 DEF IsAnswered, IsSettled
      <4>4. (k <= Continued + 1 => k <= Continued) /\ (k > Continued + 1 => k > Continued)
        BY <1>3, <3>2
      <4> QED BY <4>3, <4>4 DEF TurnInv
    <3> QED BY <3>1, <3>2
  <2>2. \A k \in DOMAIN microtask' : microtask'[k] = ran[Continued + 1 + k]
    <3> SUFFICES ASSUME NEW k \in 1..(Len(microtask) - 1) PROVE microtask'[k] = ran[Continued + 1 + k]
      BY <1>1
    <3>1. k + 1 \in DOMAIN microtask /\ Continued + (k + 1) = Continued + 1 + k
      BY <1>1, <1>3 DEF TurnInv
    <3> QED BY <1>1, <3>1 DEF TurnInv
  <2>3. Len(microtask') <= Len(ran)
    BY <1>1, <1>3
  <2> QED BY <1>1, <1>2, <1>3, <2>1, <2>2, <2>3 DEF TurnInv
<1> QED BY <1>3, <1>4, <1>5, <1>9, <1>10

-----------------------------------------------------------------------------
(* The audit log of the API *)

\* The k-th entry is about r and says how it ended.
Tells(k, r) ==
  recorded[k].metadata = r /\ ask[r].method \in Mutating /\ recorded[k].success = (status[r] < 400)

LogInv ==
  /\ RingInv
  /\ \A k \in DOMAIN recorded : \E j \in DOMAIN ran : j <= Continued /\ Tells(k, ran[j])
  /\ \A j \in DOMAIN ran : j <= Continued /\ ask[ran[j]].method \in Mutating => AuditsOf(ran[j]) # {}
  /\ \A k, m \in DOMAIN recorded : \A i, j \in DOMAIN ran :
       k < m /\ recorded[k].metadata = ran[i] /\ recorded[m].metadata = ran[j] => i < j

LEMMA LogFollows ==
  ASSUME RequestInv, TurnInv, LogInv
  PROVE  AuditFollowsEffects
<1>0. DOMAIN recorded = 1..Len(recorded) /\ Len(recorded) \in Nat /\ DOMAIN ran = 1..Len(ran) /\ Len(ran) \in Nat
  BY DEF LogInv, RingInv, AuditTypeOK, TurnInv
<1>1. ASSUME NEW r \in Reqs, NEW k \in AuditsOf(r)
      PROVE  /\ HasRun(r) /\ IsAnswered(r) /\ Tells(k, r)
             /\ AuditsOf(r) = {k}
  <2>1. k \in DOMAIN recorded /\ recorded[k].metadata = r
    BY DEF AuditsOf
  <2>2. PICK j \in DOMAIN ran : j <= Continued /\ Tells(k, ran[j])
    BY <2>1 DEF LogInv
  <2>3. ran[j] = r
    BY <2>1, <2>2 DEF Tells
  <2>4. HasRun(r) /\ IsAnswered(r) /\ Tells(k, r)
    BY <2>2, <2>3 DEF HasRun, TurnInv
  <2>5. ASSUME NEW m \in AuditsOf(r), m # k PROVE FALSE
    <3>1. m \in DOMAIN recorded /\ recorded[m].metadata = r
      BY DEF AuditsOf
    <3>2. k < m \/ m < k
      BY <1>0, <2>1, <2>5, <3>1
    <3>3. j < j
      BY <2>1, <2>3, <3>1, <3>2 DEF LogInv
    <3> QED BY <1>0, <3>3
  <2> QED BY <2>4, <2>5
<1>2. ASSUME NEW r \in Reqs, HasRun(r), IsAnswered(r), ask[r].method \in Mutating
      PROVE  AuditsOf(r) # {}
  <2>1. PICK j \in DOMAIN ran : ran[j] = r
    BY <1>2 DEF HasRun
  <2>2. ~IsSettled(ran[j])
    BY <1>2, <2>1, StageIsOne
  <2>3. j <= Continued
    BY <1>0, <2>1, <2>2 DEF TurnInv, Continued
  <2> QED BY <1>2, <2>1, <2>3 DEF LogInv
<1>3. ASSUME NEW i \in DOMAIN ran, NEW j \in DOMAIN ran, i < j,
             NEW k \in AuditsOf(ran[i]), NEW m \in AuditsOf(ran[j])
      PROVE  k < m
  <2>1. /\ k \in DOMAIN recorded /\ recorded[k].metadata = ran[i]
        /\ m \in DOMAIN recorded /\ recorded[m].metadata = ran[j]
    BY DEF AuditsOf
  <2>2. k # m
    BY <1>0, <1>3, <2>1 DEF TurnInv
  <2>3. ~(m < k)
    BY <1>0, <1>3, <2>1 DEF LogInv
  <2> QED BY <1>0, <2>1, <2>2, <2>3
<1> QED BY <1>1, <1>2, <1>3 DEF AuditFollowsEffects, IsAnswered, Tells

\* As long as nothing is recorded, and what ran and its status stays.
LEMMA LogStays ==
  ASSUME TurnInv, LogInv, UNCHANGED auditVars, Continued' = Continued,
         \A k \in DOMAIN ran : k \in DOMAIN ran' /\ ran'[k] = ran[k],
         \A k \in DOMAIN ran' : k \notin DOMAIN ran => ran'[k] \notin {ran[j] : j \in DOMAIN ran} /\ ~(k <= Continued),
         \A k \in DOMAIN ran : ask'[ran[k]] = ask[ran[k]] /\ status'[ran[k]] = status[ran[k]]
  PROVE  LogInv'
<1>1. buffer' = buffer /\ head' = head /\ total' = total /\ recorded' = recorded
  BY DEF auditVars
<1>2. RingInv'
  BY <1>1 DEF LogInv, RingInv, AuditTypeOK, Size
<1>3. ASSUME NEW k \in DOMAIN recorded PROVE \E j \in DOMAIN ran' : j <= Continued /\ Tells(k, ran[j])'
  <2>1. PICK j \in DOMAIN ran : j <= Continued /\ Tells(k, ran[j])
    BY DEF LogInv
  <2>2. ran'[j] = ran[j] /\ j \in DOMAIN ran'
    OBVIOUS
  <2>3. Tells(k, ran[j])'
    BY <1>1, <2>1, <2>2 DEF Tells
  <2> QED BY <2>1, <2>2, <2>3
<1>4. ASSUME NEW j \in DOMAIN ran', j <= Continued, ask'[ran'[j]].method \in Mutating
      PROVE  AuditsOf(ran[j])' # {}
  <2>1. j \in DOMAIN ran /\ ran'[j] = ran[j] /\ ask[ran[j]].method \in Mutating
    BY <1>4
  <2>2. AuditsOf(ran[j])' = AuditsOf(ran[j])
    BY <1>1, <2>1 DEF AuditsOf
  <2> QED BY <1>4, <2>1, <2>2 DEF LogInv
<1>5. ASSUME NEW k \in DOMAIN recorded, NEW m \in DOMAIN recorded, NEW i \in DOMAIN ran', NEW j \in DOMAIN ran',
             k < m, recorded[k].metadata = ran'[i], recorded[m].metadata = ran'[j]
      PROVE  i < j
  <2>1. ASSUME NEW l \in DOMAIN recorded PROVE recorded[l].metadata \in {ran[n] : n \in DOMAIN ran}
    BY DEF LogInv, Tells
  <2>2. i \in DOMAIN ran /\ j \in DOMAIN ran
    BY <1>5, <2>1
  <2> QED BY <1>5, <2>2 DEF LogInv
<1> QED BY <1>1, <1>2, <1>3, <1>4, <1>5 DEF LogInv

LEMMA EntryOfRequest ==
  ASSUME RequestInv, NEW r \in Reqs, Matched(r)
  PROVE  /\ Materialize(AuditOf(r)) \in AuditEntry
         /\ Materialize(AuditOf(r)).metadata = r
         /\ Materialize(AuditOf(r)).success = (status[r] < 400)
<1>1. call[r].handler \in AuditActions
  <2>1. PICK entry \in Registry : call[r].handler = entry.handler
    BY Routed DEF Matched
  <2> QED BY <2>1, AuditedAssumption
<1>2. (IF ask[r].user = Undefined THEN "anonymous" ELSE ask[r].user) \in AuditActors
  BY AuditedAssumption DEF Matched
<1>3. (status[r] < 400) \in BOOLEAN
  OBVIOUS
<1>4. AuditOf(r) \in AuditInput /\ AuditOf(r).metadata = r /\ AuditOf(r).success = (status[r] < 400)
  BY <1>1, <1>2, <1>3, AuditedAssumption, Zenon DEF AuditOf, AuditInput, Events
<1> QED BY <1>4, MaterializeType

LEMMA ContinueLog ==
  ASSUME RequestInv, TurnInv, LogInv, NEW r \in Reqs, Continue(r)
  PROVE  LogInv'
<1>1. /\ TurnInv' /\ Continued' = Continued + 1 /\ Continued + 1 \in DOMAIN ran /\ ran[Continued + 1] = r
      /\ Continued \in Nat
  BY ContinueStep
<1>2. ask' = ask /\ status' = status /\ ran' = ran
  BY DEF Continue
<1>3. Matched(r)
  BY <1>1 DEF RequestInv, HasRun
<1>4. \A j \in DOMAIN ran : j \in Nat /\ (j <= Continued + 1 <=> j <= Continued \/ j = Continued + 1)
  BY <1>1 DEF TurnInv
<1>5. CASE ask[r].method \notin Mutating
  <2>1. buffer' = buffer /\ head' = head /\ total' = total /\ recorded' = recorded
    BY <1>5 DEF Continue, auditVars
  <2>2. RingInv'
    BY <2>1 DEF LogInv, RingInv, AuditTypeOK, Size
  <2>3. \A k : \A s : Tells(k, s)' <=> Tells(k, s)
    BY <1>2, <2>1 DEF Tells
  <2>4. \A s : AuditsOf(s)' = AuditsOf(s)
    BY <2>1 DEF AuditsOf
  <2> QED BY <1>1, <1>2, <1>4, <1>5, <2>1, <2>2, <2>3, <2>4 DEF LogInv
<1>6. CASE ask[r].method \in Mutating
  <2>1. PICK e : e = Materialize(AuditOf(r))
    OBVIOUS
  <2>2. e \in AuditEntry /\ e.metadata = r /\ e.success = (status[r] < 400)
    BY <1>3, <2>1, EntryOfRequest
  <2>3. Record(e)
    BY <1>6, <2>1 DEF Continue
  <2>4. RingInv'
    BY <2>2, <2>3, RecordRing DEF LogInv
  <2>5. PICK n \in Nat : n = Len(recorded)
    BY DEF LogInv, RingInv, AuditTypeOK
  <2>6. /\ recorded' = Append(recorded, e) /\ recorded'[n + 1] = e /\ \A k \in 1..n : recorded'[k] = recorded[k]
        /\ DOMAIN recorded = 1..n /\ DOMAIN recorded' = 1..(n + 1)
    BY <2>2, <2>3, <2>5 DEF Record, LogInv, RingInv, AuditTypeOK
  <2>7. ASSUME NEW k \in 1..(n + 1) PROVE \E j \in DOMAIN ran : j <= Continued + 1 /\ Tells(k, ran[j])'
    <3>1. CASE k = n + 1
      <4>1. PICK j \in DOMAIN ran : j = Continued + 1 /\ ran[j] = r
        BY <1>1
      <4>2. Tells(k, ran[j])'
        BY <1>2, <1>6, <2>2, <2>6, <3>1, <4>1 DEF Tells
      <4> QED BY <1>4, <4>1, <4>2
    <3>2. CASE k \in 1..n
      <4>1. PICK j \in DOMAIN ran : j <= Continued /\ Tells(k, ran[j])
        BY <2>6, <3>2 DEF LogInv
      <4>2. Tells(k, ran[j])'
        BY <1>2, <2>6, <3>2, <4>1 DEF Tells
      <4> QED BY <1>4, <4>1, <4>2
    <3> QED BY <2>5, <3>1, <3>2
  <2>8. ASSUME NEW j \in DOMAIN ran, j <= Continued + 1, ask[ran[j]].method \in Mutating
        PROVE  AuditsOf(ran[j])' # {}
    <3>1. CASE j = Continued + 1
      <4>1. n + 1 \in AuditsOf(ran[j])'
        BY <1>1, <1>2, <2>2, <2>5, <2>6, <3>1 DEF AuditsOf
      <4> QED BY <4>1
    <3>2. CASE j <= Continued
      <4>1. PICK k \in 1..n : recorded[k].metadata = ran[j]
        BY <2>6, <2>8, <3>2 DEF LogInv, AuditsOf
      <4>2. k \in AuditsOf(ran[j])'
        BY <1>2, <2>5, <2>6, <4>1 DEF AuditsOf
      <4> QED BY <4>2
    <3> QED BY <1>4, <2>8, <3>1, <3>2
  <2>9. ASSUME NEW k \in 1..(n + 1), NEW m \in 1..(n + 1), NEW i \in DOMAIN ran, NEW j \in DOMAIN ran,
               k < m, recorded'[k].metadata = ran[i], recorded'[m].metadata = ran[j]
        PROVE  i < j
    <3>1. k \in 1..n
      BY <2>5, <2>9
    <3>2. CASE m \in 1..n
      BY <2>6, <2>9, <3>1, <3>2 DEF LogInv
    <3>3. CASE m = n + 1
      <4>1. j = Continued + 1
        BY <1>1, <2>2, <2>6, <2>9, <3>3 DEF TurnInv
      <4>2. PICK l \in DOMAIN ran : l <= Continued /\ recorded[k].metadata = ran[l]
        BY <2>6, <3>1 DEF LogInv, Tells
      <4>3. l = i
        BY <2>6, <2>9, <3>1, <4>2 DEF TurnInv
      <4> QED BY <1>1, <1>4, <4>1, <4>2, <4>3
    <3> QED BY <2>5, <3>2, <3>3
  <2> QED BY <1>1, <1>2, <2>4, <2>6, <2>7, <2>8, <2>9 DEF LogInv
<1> QED BY <1>5, <1>6

LEMMA WhatRanStays ==
  ASSUME NEW r, \A k \in DOMAIN ran : ran[k] \in Reqs \ {r},
         \A s \in Reqs \ {r} : ask'[s] = ask[s], \A s \in Reqs \ {r} : status'[s] = status[s]
  PROVE  \A k \in DOMAIN ran : ask'[ran[k]] = ask[ran[k]] /\ status'[ran[k]] = status[ran[k]]
OBVIOUS

LEMMA ArriveLog ==
  ASSUME RequestInv, TurnInv, LogInv, NEW r \in Reqs, NEW i \in Asks, Arrive(r, i)
  PROVE  LogInv'
<1>1. ~HasRun(r) /\ \A s \in Reqs \ {r} : ask'[s] = ask[s] /\ status'[s] = status[s]
  BY ArriveStep
<1>2. ran' = ran /\ microtask' = microtask /\ UNCHANGED auditVars
  BY DEF Arrive
<1>3. Continued' = Continued
  BY <1>2 DEF Continued
<1>4. \A k \in DOMAIN ran : ran[k] \in Reqs \ {r}
  BY <1>1 DEF HasRun, TurnInv
<1>5. /\ \A k \in DOMAIN ran : k \in DOMAIN ran' /\ ran'[k] = ran[k]
      /\ \A k \in DOMAIN ran' : k \notin DOMAIN ran => ran'[k] \notin {ran[j] : j \in DOMAIN ran} /\ ~(k <= Continued)
  BY <1>2, Zenon
<1>6. \A k \in DOMAIN ran : ask'[ran[k]] = ask[ran[k]] /\ status'[ran[k]] = status[ran[k]]
  BY <1>1, <1>2, <1>4, WhatRanStays
<1> QED BY <1>2, <1>3, <1>5, <1>6, LogStays, Zenon

LEMMA ThrowLog ==
  ASSUME RequestInv, TurnInv, LogInv, NEW r \in Reqs, IsReading(r), Throw(r)
  PROVE  LogInv'
<1>1. ~HasRun(r) /\ \A s \in Reqs \ {r} : status'[s] = status[s]
  BY ThrowStep
<1>2. ran' = ran /\ microtask' = microtask /\ ask' = ask /\ UNCHANGED auditVars
  BY DEF Throw
<1>3. Continued' = Continued
  BY <1>2 DEF Continued
<1>4. \A k \in DOMAIN ran : ran[k] \in Reqs \ {r}
  BY <1>1 DEF HasRun, TurnInv
<1>5. /\ \A k \in DOMAIN ran : k \in DOMAIN ran' /\ ran'[k] = ran[k]
      /\ \A k \in DOMAIN ran' : k \notin DOMAIN ran => ran'[k] \notin {ran[j] : j \in DOMAIN ran} /\ ~(k <= Continued)
  BY <1>2, Zenon
<1>6. \A k \in DOMAIN ran : ask'[ran[k]] = ask[ran[k]] /\ status'[ran[k]] = status[ran[k]]
  BY <1>1, <1>2, <1>4, WhatRanStays
<1> QED BY <1>2, <1>3, <1>5, <1>6, LogStays, Zenon

LEMMA ReturnLog ==
  ASSUME RequestInv, TurnInv, LogInv, NEW r \in Reqs, IsReading(r), NEW code \in Codes, Return(r, code)
  PROVE  LogInv'
<1>1. /\ ~HasRun(r) /\ ran' = Append(ran, r) /\ Continued' = Continued
      /\ \A s \in Reqs \ {r} : status'[s] = status[s]
  BY ReturnStep
<1>2. ask' = ask /\ UNCHANGED auditVars
  BY DEF Return
<1>3. \A k \in DOMAIN ran : ran[k] \in Reqs \ {r}
  BY <1>1 DEF HasRun, TurnInv
<1>4. /\ \A k \in DOMAIN ran : k \in DOMAIN ran' /\ ran'[k] = ran[k]
      /\ \A k \in DOMAIN ran' : k \in DOMAIN ran \/ (ran'[k] = r /\ k = Len(ran) + 1)
  BY <1>1 DEF TurnInv
<1>5. ~(Len(ran) + 1 <= Continued)
  BY DEF TurnInv, Continued
<1>6. r \notin {ran[j] : j \in DOMAIN ran}
  BY <1>3
<1>7. \A k \in DOMAIN ran' : k \notin DOMAIN ran => ran'[k] \notin {ran[j] : j \in DOMAIN ran} /\ ~(k <= Continued)
  <2> SUFFICES ASSUME NEW k \in DOMAIN ran', k \notin DOMAIN ran
               PROVE  ran'[k] \notin {ran[j] : j \in DOMAIN ran} /\ ~(k <= Continued)
    OBVIOUS
  <2>1. ran'[k] = r /\ k = Len(ran) + 1
    BY <1>4
  <2> QED BY <1>5, <1>6, <2>1, Zenon
<1>8. \A k \in DOMAIN ran : ask'[ran[k]] = ask[ran[k]] /\ status'[ran[k]] = status[ran[k]]
  BY <1>1, <1>2, <1>3, WhatRanStays
<1> QED BY <1>1, <1>2, <1>4, <1>7, <1>8, LogStays, Zenon

LEMMA HandleEnds ==
  ASSUME NEW r, Handle(r)
  PROVE  IsReading(r) /\ (Throw(r) \/ \E code \in Codes : Return(r, code))
<1>1. CASE Answer(r)
  BY <1>1 DEF Answer, Called, IsReading, Codes, Keep
<1>2. CASE Create(r)
  BY <1>2 DEF Create, Called, IsReading, Codes, Keep
<1>3. CASE Get(r)
  BY <1>3 DEF Get, Called, IsReading, Codes, Keep
<1>4. CASE Update(r)
  BY <1>4 DEF Update, Called, IsReading, Codes, Keep
<1>5. CASE Remove(r)
  BY <1>5 DEF Remove, Called, IsReading, Codes, Keep
<1>6. CASE Search(r)
  BY <1>6 DEF Search, Called, IsReading, Codes, Keep
<1>7. CASE Register(r)
  BY <1>7 DEF Register, Called, IsReading, Codes, Keep, AddUser
<1>8. CASE Login(r)
  BY <1>8 DEF Login, Called, IsReading, Codes, Keep
<1>9. CASE CreateUser(r)
  BY <1>9 DEF CreateUser, Called, IsReading, Codes, Keep, AddUser
<1>10. CASE ChangeUser(r)
  BY <1>10 DEF ChangeUser, Called, IsReading, Codes, Keep
<1>11. CASE Execute(r)
  BY <1>11 DEF Execute, Called, IsReading, Codes, Keep
<1>12. CASE GetRun(r)
  BY <1>12 DEF GetRun, Called, IsReading, Codes, Keep
<1>13. CASE CancelRun(r)
  <2>1. IsReading(r) /\ \E code \in {200, 404} : Return(r, code)
    BY <1>13, Zenon DEF CancelRun, Called, IsReading, Keep
  <2> QED BY <2>1 DEF Codes
<1> QED BY <1>1, <1>2, <1>3, <1>4, <1>5, <1>6, <1>7, <1>8, <1>9, <1>10, <1>11, <1>12, <1>13 DEF Handle

-----------------------------------------------------------------------------
(* The rows, users and runs *)

\* The handler of r has returned, and r may write and was not refused.
Written(r) ==
  /\ HasRun(r) /\ ask[r].method \in Mutating /\ status[r] \in {200, 201}
  /\ ask[r].user = Undefined => call[r].handler \in Public

Runs  == [id : Reqs, status : {"completed", "cancelled"}, by : Reqs]

Emails    == {i.email : i \in Asks}
Passwords == {i.password : i \in Asks} \cup {Undefined}
Users     == [id : Reqs, email : Emails, password : Passwords, by : Reqs]

RowIds == Reqs \cup OddIds

RowInv ==
  /\ \A row \in rows : row.id \in RowIds /\ row.by \in Reqs /\ row.sound \in BOOLEAN /\ Written(row.by)
  /\ \A run \in runs : run \in Runs /\ Written(run.by)
  /\ users \in Seq(Users) /\ \A k \in DOMAIN users : Written(users[k].by)

\* r is the first user with its email, and has the password it registered.
Owns(r) ==
  /\ ask[r].password # Undefined
  /\ \E p \in DOMAIN users :
       /\ users[p].id = r /\ users[p].password = ask[r].password /\ users[p].email = ask[r].email
       /\ \A q \in DOMAIN users : q < p => users[q].email # ask[r].email

NoneChanged == \A k \in DOMAIN ran : Does(ran[k]) # "changeUser"

UserInv == NoneChanged => \A k \in DOMAIN ran : SignedUp(ran[k]) => Owns(ran[k])

\* What is known of a request whose handler has returned does not change.
RanStays ==
  \A s \in Reqs : HasRun(s) =>
    HasRun(s)' /\ ask'[s] = ask[s] /\ call'[s] = call[s] /\ status'[s] = status[s]

LEMMA OwnerLogsIn ==
  ASSUME NEW r, Owns(r), users \in Seq(Users)
  PROVE  CanLogIn(r)
<1>1. PICK p \in DOMAIN users :
        /\ users[p].id = r /\ users[p].password = ask[r].password /\ users[p].email = ask[r].email
        /\ \A q \in DOMAIN users : q < p => users[q].email # ask[r].email
  BY DEF Owns
<1>2. ByEmail(ask[r].email) \subseteq 1..Len(users) /\ p \in ByEmail(ask[r].email) /\ Len(users) \in Nat
  BY <1>1 DEF ByEmail
<1>3. \A m \in ByEmail(ask[r].email) : p <= m
  BY <1>1, <1>2 DEF ByEmail
<1>4. First(ByEmail(ask[r].email)) = p
  <2>1. PICK f : f = First(ByEmail(ask[r].email))
    OBVIOUS
  <2>2. f \in ByEmail(ask[r].email) /\ \A m \in ByEmail(ask[r].email) : f <= m
    BY <1>2, <1>3, <2>1 DEF First
  <2> QED BY <1>2, <1>3, <2>1, <2>2
<1> QED BY <1>1, <1>2, <1>4 DEF CanLogIn, Authenticated, Owns

LEMMA WrittenStays ==
  ASSUME RanStays, NEW s \in Reqs, Written(s)
  PROVE  Written(s)'
BY DEF RanStays, Written

\* A request that changes anything was made with a method that may.
LEMMA WritersMutate ==
  ASSUME RequestInv, NEW r \in Reqs, IsReading(r), Does(r) \notin Idle
  PROVE  ask[r].method \in Mutating /\ (ask[r].user = Undefined => call[r].handler \in Public)
<1>1. EarlyAnswer(ask[r]) = 0 /\ call[r] = Resolve(ask[r])
  BY DEF RequestInv, Matched
<1> QED BY <1>1, Routed DEF Does

LEMMA ReturnWrites ==
  ASSUME RequestInv, TurnInv, NEW r \in Reqs, IsReading(r), NEW code \in {200, 201}, Return(r, code),
         Does(r) \notin Idle
  PROVE  Written(r)'
<1>1. code \in Codes
  BY DEF Codes
<1>2. status'[r] = code /\ HasRun(r)'
  BY <1>1, ReturnStep
<1>3. ask' = ask /\ call' = call
  BY DEF Return
<1> QED BY <1>2, <1>3, WritersMutate DEF Written

\* A path never spells an id that is no string.
LEMMA ParamSpelt ==
  ASSUME NEW pattern, NEW path \in Seq(STRING)
  PROVE  Param(pattern, path) \notin OddIds
<1> DEFINE params == {k \in DOMAIN path : pattern[k] = Any}
<1>2. Param(pattern, path) = IF params = {} THEN Undefined ELSE path[CHOOSE k \in params : \A m \in params : m <= k]
  BY DEF Param
<1>3. PICK n \in Nat : n = Len(path) /\ params \subseteq 1..n
  OBVIOUS
<1> HIDE DEF params
<1>4. ASSUME params # {} PROVE \E k \in params : \A m \in params : m <= k
  <2> DEFINE over == {n - k : k \in params}
  <2>1. over \in SUBSET Nat /\ over # {}
    <3>1. \A k \in params : n - k \in Nat
      BY <1>3
    <3>2. over # {}
      BY <1>4
    <3> QED BY <3>1, <3>2
  <2>2. PICK least \in over : \A m \in over : least <= m
    BY <2>1, LeastExists
  <2>3. PICK k \in params : least = n - k
    BY <2>2
  <2>4. ASSUME NEW m \in params PROVE m <= k
    <3>1. n - k <= n - m
      BY <2>2, <2>3
    <3> QED BY <1>3, <3>1
  <2> QED BY <2>4
<1>5. params # {} => Param(pattern, path) \in STRING
  <2> SUFFICES ASSUME params # {} PROVE Param(pattern, path) \in STRING
    OBVIOUS
  <2>1. PICK last : last = CHOOSE k \in params : \A m \in params : m <= k
    OBVIOUS
  <2>2. last \in params
    BY <1>4, <2>1
  <2>3. path[last] \in STRING
    BY <1>3, <2>2
  <2> QED BY <1>2, <2>1, <2>3
<1> QED BY <1>2, <1>5, AsksAssumption

LEMMA PathSpelt ==
  ASSUME RequestInv, NEW r \in Reqs, IsReading(r)
  PROVE  PathId(r) \notin OddIds
<1>1. PICK i \in Asks : i = ask[r] /\ call[r] = Resolve(i)
  BY DEF RequestInv, Matched
<1>2. i.path \in Seq(STRING)
  BY AsksAssumption
<1>3. PICK pattern : Resolve(i).id = Param(pattern, i.path)
  BY DEF Resolve
<1> QED BY <1>1, <1>2, <1>3, ParamSpelt DEF PathId

LEMMA ReturnKeeps ==
  ASSUME RequestInv, TurnInv, NEW r \in Reqs, IsReading(r), NEW code \in Codes, Return(r, code)
  PROVE  RanStays /\ ask' = ask /\ call' = call /\ ran' = Append(ran, r) /\ ~HasRun(r)
<1>1. ask' = ask /\ call' = call
  BY DEF Return
<1>2. /\ ~HasRun(r) /\ ran' = Append(ran, r)
      /\ \A s \in Reqs \ {r} : status'[s] = status[s]
      /\ \A s \in Reqs : HasRun(s)' <=> HasRun(s) \/ s = r
  BY ReturnStep
<1> QED BY <1>1, <1>2 DEF RanStays

LEMMA ThrowKeeps ==
  ASSUME RequestInv, TurnInv, NEW r \in Reqs, IsReading(r), Throw(r)
  PROVE  RanStays /\ ran' = ran
<1>1. ~HasRun(r) /\ \A s \in Reqs \ {r} : status'[s] = status[s]
  BY ThrowStep
<1>2. ran' = ran /\ ask' = ask /\ call' = call
  BY DEF Throw
<1> QED BY <1>1, <1>2 DEF RanStays, HasRun

LEMMA ArriveKeeps ==
  ASSUME RequestInv, TurnInv, NEW r \in Reqs, NEW i \in Asks, Arrive(r, i)
  PROVE  RanStays /\ ran' = ran
<1>1. ~HasRun(r) /\ \A s \in Reqs \ {r} : ask'[s] = ask[s] /\ call'[s] = call[s] /\ status'[s] = status[s]
  BY ArriveStep
<1>2. ran' = ran
  BY DEF Arrive
<1> QED BY <1>1, <1>2 DEF RanStays, HasRun

LEMMA QuietRows ==
  ASSUME RowInv, RanStays, rows' = rows, users' = users, runs' = runs
  PROVE  RowInv'
<1>1. \A s \in Reqs : Written(s) => Written(s)'
  BY WrittenStays
<1>2. \A k \in DOMAIN users : users[k].by \in Reqs
  <2>1. \A k \in DOMAIN users : users[k] \in Users
    BY DEF RowInv
  <2> QED BY <2>1 DEF Users
<1> QED BY <1>1, <1>2 DEF RowInv, Runs

\* What r made and what of it was deleted stays as it was said.
LEMMA SaidStays ==
  ASSUME RanStays, NEW s \in Reqs, HasRun(s), NEW t \in Reqs, HasRun(t)
  PROVE  /\ Created(s)' <=> Created(s)
         /\ Deletes(t, s)' <=> Deletes(t, s)
         /\ InsertedId(s)' = InsertedId(s) /\ Of(s)' = Of(s) /\ PathId(s)' = PathId(s)
         /\ SignedUp(s)' <=> SignedUp(s)
         /\ Does(s)' = Does(s)
<1>1. /\ ask'[s] = ask[s] /\ call'[s] = call[s] /\ status'[s] = status[s]
      /\ ask'[t] = ask[t] /\ call'[t] = call[t] /\ status'[t] = status[t]
  BY DEF RanStays
<1>2. Does(s)' = Does(s) /\ Of(s)' = Of(s) /\ PathId(s)' = PathId(s)
  BY <1>1 DEF Does, Of, PathId
<1>3. Does(t)' = Does(t) /\ Of(t)' = Of(t) /\ PathId(t)' = PathId(t)
  BY <1>1 DEF Does, Of, PathId
<1>4. InsertedId(s)' = InsertedId(s)
  BY <1>1, <1>2 DEF InsertedId
<1>5. Created(s)' <=> Created(s)
  BY <1>1, <1>2 DEF Created
<1>6. SignedUp(s)' <=> SignedUp(s)
  BY <1>1, <1>2 DEF SignedUp
<1>7. Deletes(t, s)' <=> Deletes(t, s)
  BY <1>1, <1>2, <1>3, <1>4 DEF Deletes
<1> QED BY <1>2, <1>4, <1>5, <1>6, <1>7

LEMMA QuietCreated ==
  ASSUME TurnInv, CreatedStays, RanStays, ran' = ran, rows' = rows
  PROVE  CreatedStays'
<1> SUFFICES ASSUME NEW k \in DOMAIN ran, Created(ran[k])'
             PROVE  Kept(ran[k])' \/ \E m \in (k + 1)..Len(ran) : Deletes(ran[m], ran[k])'
  BY DEF CreatedStays
<1>1. PICK s \in Reqs : s = ran[k] /\ s = ran'[k] /\ HasRun(s)
  BY DEF TurnInv, HasRun
<1>2. Created(s)
  BY <1>1, SaidStays
<1>3. CASE Kept(s)
  <2>1. Kept(s)'
    BY <1>1, <1>3, SaidStays DEF Kept
  <2> QED BY <1>1, <2>1
<1>4. CASE \E m \in (k + 1)..Len(ran) : Deletes(ran[m], s)
  <2>1. PICK m \in (k + 1)..Len(ran) : Deletes(ran[m], s)
    BY <1>4
  <2>2. m \in DOMAIN ran
    BY DEF TurnInv
  <2>3. PICK t \in Reqs : t = ran[m] /\ t = ran'[m] /\ HasRun(t)
    BY <2>2 DEF TurnInv, HasRun
  <2>4. Deletes(t, s)'
    BY <1>1, <2>1, <2>3, SaidStays
  <2> QED BY <1>1, <2>3, <2>4
<1> QED BY <1>1, <1>2, <1>3, <1>4 DEF CreatedStays

LEMMA QuietUsers ==
  ASSUME TurnInv, UserInv, RanStays, ran' = ran, users' = users
  PROVE  UserInv'
<1>1. ASSUME NEW k \in DOMAIN ran
      PROVE  /\ Does(ran[k])' = Does(ran[k])
             /\ SignedUp(ran[k])' <=> SignedUp(ran[k])
             /\ Owns(ran[k]) => Owns(ran[k])'
  <2>1. PICK s \in Reqs : s = ran[k] /\ s = ran'[k] /\ HasRun(s)
    BY DEF TurnInv, HasRun
  <2>2. ask'[s] = ask[s]
    BY <2>1 DEF RanStays
  <2>3. Owns(s) => Owns(s)'
    BY <2>2 DEF Owns
  <2>4. Does(s)' = Does(s) /\ (SignedUp(s)' <=> SignedUp(s))
    BY <2>1, SaidStays
  <2> QED BY <2>1, <2>3, <2>4
<1> QED BY <1>1 DEF UserInv, NoneChanged

\* The handler of r returns: what was created stays if r deletes what is no longer there.
LEMMA CreatedLater ==
  ASSUME TurnInv, CreatedStays, RanStays, NEW r \in Reqs, ran' = Append(ran, r), TurnInv', ~HasRun(r),
         \A s \in Reqs : HasRun(s) /\ Kept(s) => Kept(s)' \/ Deletes(r, s)',
         Created(r)' => Kept(r)'
  PROVE  CreatedStays'
<1>0. PICK n \in Nat : n = Len(ran)
  BY DEF TurnInv
<1>1. /\ DOMAIN ran = 1..n /\ DOMAIN ran' = 1..(n + 1) /\ Len(ran') = n + 1 /\ ran'[n + 1] = r
      /\ \A k \in 1..n : ran'[k] = ran[k]
  BY <1>0 DEF TurnInv
<1> SUFFICES ASSUME NEW k \in 1..(n + 1), Created(ran[k])'
             PROVE  Kept(ran[k])' \/ \E m \in (k + 1)..(n + 1) : Deletes(ran[m], ran[k])'
  BY <1>1 DEF CreatedStays
<1>2. CASE k = n + 1
  <2>1. r = ran'[k]
    BY <1>1, <1>2
  <2> QED BY <2>1
<1>3. CASE k \in 1..n
  <2>1. PICK s \in Reqs : s = ran[k] /\ s = ran'[k] /\ HasRun(s)
    BY <1>1, <1>3 DEF TurnInv, HasRun
  <2>2. Created(s)
    BY <2>1, SaidStays
  <2>3. CASE Kept(s)
    <3>1. Kept(s)' \/ Deletes(r, s)'
      BY <2>1, <2>3
    <3>2. Deletes(r, s)' => \E m \in (k + 1)..(n + 1) : Deletes(ran[m], ran[k])'
      <4>1. n + 1 \in (k + 1)..(n + 1)
        BY <1>3
      <4>2. PICK m \in (k + 1)..(n + 1) : m = n + 1
        BY <4>1
      <4>3. ran'[m] = r
        BY <1>1, <4>2
      <4> QED BY <2>1, <4>3
    <3> QED BY <2>1, <3>1, <3>2
  <2>4. CASE \E m \in (k + 1)..n : Deletes(ran[m], s)
    <3>1. PICK m \in (k + 1)..n : Deletes(ran[m], s)
      BY <2>4
    <3>2. m \in 1..n /\ m \in (k + 1)..(n + 1)
      OBVIOUS
    <3>3. PICK t \in Reqs : t = ran[m] /\ t = ran'[m] /\ HasRun(t)
      <4>1. ran[m] \in Reqs /\ HasRun(ran[m])
        BY <1>1, <3>2, SMTT(30) DEF TurnInv, HasRun
      <4>2. ran'[m] = ran[m]
        BY <1>1, <3>2
      <4> QED BY <4>1, <4>2
    <3>4. Deletes(t, s)'
      BY <2>1, <3>1, <3>3, SaidStays
    <3> QED BY <2>1, <3>2, <3>3, <3>4
  <2> QED BY <1>0, <1>1, <1>3, <2>1, <2>2, <2>3, <2>4 DEF CreatedStays
<1> QED BY <1>0, <1>2, <1>3

\* The handler of r returns: who has registered goes on owning its email.
LEMMA UsersLater ==
  ASSUME TurnInv, UserInv, RanStays, NEW r \in Reqs, ran' = Append(ran, r), call' = call,
         Does(r) # "changeUser" => \A s \in Reqs : HasRun(s) /\ Owns(s) => Owns(s)',
         SignedUp(r)' => Owns(r)'
  PROVE  UserInv'
<1>0. PICK n \in Nat : n = Len(ran)
  BY DEF TurnInv
<1>1. /\ DOMAIN ran = 1..n /\ DOMAIN ran' = 1..(n + 1) /\ ran'[n + 1] = r
      /\ \A k \in 1..n : ran'[k] = ran[k]
  BY <1>0 DEF TurnInv
<1> SUFFICES ASSUME NoneChanged', NEW k \in 1..(n + 1), SignedUp(ran[k])'
             PROVE  Owns(ran[k])'
  BY <1>1 DEF UserInv
<1>2. \A j \in 1..(n + 1) : Does(ran[j])' # "changeUser"
  BY <1>1 DEF NoneChanged
<1>3. CASE k = n + 1
  <2>1. r = ran'[k]
    BY <1>1, <1>3
  <2> QED BY <2>1
<1>4. CASE k \in 1..n
  <2>1. PICK s \in Reqs : s = ran[k] /\ s = ran'[k] /\ HasRun(s)
    BY <1>1, <1>4, SMTT(30) DEF TurnInv, HasRun
  <2>2. NoneChanged
    <3> SUFFICES ASSUME NEW j \in 1..n PROVE Does(ran[j]) # "changeUser"
      BY <1>1 DEF NoneChanged
    <3>1. Does(ran[j])' # "changeUser" /\ ran'[j] = ran[j]
      BY <1>1, <1>2
    <3> QED BY <3>1 DEF Does
  <2>3. Does(r) # "changeUser"
    <3>1. PICK j \in 1..(n + 1) : ran'[j] = r
      BY <1>1
    <3>2. Does(ran[j])' # "changeUser"
      BY <1>2
    <3> QED BY <3>1, <3>2 DEF Does
  <2>4. SignedUp(s)
    BY <2>1, SaidStays
  <2>5. Owns(s)
    BY <1>1, <1>4, <2>1, <2>2, <2>4 DEF UserInv
  <2>6. Owns(s)'
    BY <2>1, <2>3, <2>5
  <2> QED BY <2>1, <2>6
<1> QED BY <1>0, <1>3, <1>4

-----------------------------------------------------------------------------
(* The handlers *)

ApiInv == RequestInv /\ TurnInv /\ LogInv /\ RowInv /\ CreatedStays /\ UserInv

\* The handler of r returns and neither creates nor deletes anything.
LEMMA KeepInv ==
  ASSUME ApiInv, NEW r \in Reqs, IsReading(r), NEW code \in Codes \ {201}, Keep(r, code)
  PROVE  ApiInv'
<1>1. Return(r, code) /\ rows' = rows /\ users' = users /\ runs' = runs
  BY DEF Keep
<1>2. RequestInv' /\ TurnInv' /\ LogInv' /\ status'[r] = code
  BY <1>1, ReturnStep, ReturnLog DEF ApiInv
<1>3. RanStays /\ ask' = ask /\ call' = call /\ ran' = Append(ran, r) /\ ~HasRun(r)
  BY <1>1, ReturnKeeps DEF ApiInv
<1>4. RowInv'
  BY <1>1, <1>3, QuietRows DEF ApiInv
<1>5. ~(status'[r] = 201)
  BY <1>2
<1>6. ~(Created(r)') /\ ~(SignedUp(r)')
  BY <1>5 DEF Created, SignedUp
<1>7. \A s \in Reqs : HasRun(s) /\ Kept(s) => Kept(s)'
  BY <1>1, <1>3 DEF Kept, Of, InsertedId, Does
<1>8. \A s \in Reqs : Owns(s) => Owns(s)'
  BY <1>1, <1>3 DEF Owns
<1>9. CreatedStays'
  BY <1>2, <1>3, <1>6, <1>7, CreatedLater DEF ApiInv
<1>10. UserInv'
  BY <1>2, <1>3, <1>6, <1>8, UsersLater DEF ApiInv
<1> QED BY <1>2, <1>4, <1>9, <1>10 DEF ApiInv

LEMMA ThrowInv ==
  ASSUME ApiInv, NEW r \in Reqs, IsReading(r), Throw(r)
  PROVE  ApiInv'
<1>1. RequestInv' /\ TurnInv' /\ LogInv'
  BY ThrowStep, ThrowLog DEF ApiInv
<1>2. RanStays /\ ran' = ran /\ rows' = rows /\ users' = users /\ runs' = runs
  BY ThrowKeeps DEF ApiInv, Throw
<1> QED BY <1>1, <1>2, QuietRows, QuietCreated, QuietUsers DEF ApiInv

LEMMA ArriveInv ==
  ASSUME ApiInv, NEW r \in Reqs, NEW i \in Asks, Arrive(r, i)
  PROVE  ApiInv'
<1>1. RequestInv' /\ TurnInv' /\ LogInv'
  BY ArriveStep, ArriveLog DEF ApiInv
<1>2. RanStays /\ ran' = ran /\ rows' = rows /\ users' = users /\ runs' = runs
  BY ArriveKeeps DEF ApiInv, Arrive
<1> QED BY <1>1, <1>2, QuietRows, QuietCreated, QuietUsers DEF ApiInv

LEMMA ContinueInv ==
  ASSUME ApiInv, NEW r \in Reqs, Continue(r)
  PROVE  ApiInv'
<1>1. RequestInv' /\ TurnInv' /\ LogInv'
  BY ContinueStep, ContinueLog DEF ApiInv
<1>2. /\ ran' = ran /\ rows' = rows /\ users' = users /\ runs' = runs
      /\ ask' = ask /\ call' = call /\ status' = status
  BY DEF Continue
<1>3. RanStays
  BY <1>2 DEF RanStays, HasRun
<1> QED BY <1>1, <1>2, <1>3, QuietRows, QuietCreated, QuietUsers DEF ApiInv

\* The handler of r puts a row in the place of those with the id.
Puts(r, id, sound) == rows' = Others(r, id) \cup {[on |-> Of(r), id |-> id, by |-> r, sound |-> sound]}

\* The handler of r writes the row with the id and deletes none.
LEMMA WriteInv ==
  ASSUME ApiInv, NEW r \in Reqs, IsReading(r), NEW code \in {200, 201}, Return(r, code), Does(r) \notin Idle,
         NEW id \in RowIds, NEW sound \in BOOLEAN, Puts(r, id, sound), users' = users, runs' = runs,
         Created(r)' => id = InsertedId(r), ~(SignedUp(r)')
  PROVE  ApiInv'
<1>1. code \in Codes
  BY DEF Codes
<1>2. RequestInv' /\ TurnInv' /\ LogInv' /\ Written(r)'
  BY <1>1, ReturnStep, ReturnLog, ReturnWrites DEF ApiInv
<1>3. RanStays /\ ask' = ask /\ call' = call /\ ran' = Append(ran, r) /\ ~HasRun(r)
  BY <1>1, ReturnKeeps DEF ApiInv
<1> DEFINE new == [on |-> Of(r), id |-> id, by |-> r, sound |-> sound]
<1>4. new.on = Of(r) /\ new.id = id /\ new.by = r /\ new.sound = sound
  OBVIOUS
<1> HIDE DEF new
<1>5. /\ new.on = Of(r) /\ new.id = id /\ new.by = r /\ new.sound = sound
      /\ rows' = Others(r, id) \cup {new} /\ Others(r, id) \subseteq rows
      /\ \A row \in rows : (row.on = Of(r) /\ row.id = id) \/ row \in Others(r, id)
  BY <1>4 DEF Others, Puts, new
<1>6. RowInv'
  <2>1. \A s \in Reqs : Written(s) => Written(s)'
    BY <1>3, WrittenStays
  <2>2. \A k \in DOMAIN users : users[k] \in Users
    BY DEF ApiInv, RowInv
  <2>3. \A k \in DOMAIN users : users[k].by \in Reqs
    BY <2>2 DEF Users
  <2>4. \A row \in rows' : row.id \in RowIds /\ row.by \in Reqs /\ row.sound \in BOOLEAN /\ Written(row.by)'
    BY <1>2, <1>5, <2>1 DEF ApiInv, RowInv
  <2>5. \A run \in runs : run \in Runs /\ Written(run.by)'
    BY <2>1 DEF ApiInv, RowInv, Runs
  <2>6. \A k \in DOMAIN users : Written(users[k].by)'
    <3> SUFFICES ASSUME NEW k \in DOMAIN users PROVE Written(users[k].by)'
      OBVIOUS
    <3>1. PICK s \in Reqs : s = users[k].by /\ s = users'[k].by /\ Written(s)
      BY <2>3 DEF ApiInv, RowInv
    <3>2. Written(s)'
      BY <2>1, <3>1
    <3> QED BY <3>1, <3>2
  <2> QED BY <2>4, <2>5, <2>6 DEF ApiInv, RowInv
<1>7. ASSUME NEW s \in Reqs, Kept(s) PROVE Kept(s)'
  <2>1. PICK row \in rows : row.on = Of(s) /\ row.id = InsertedId(s)
    BY <1>7 DEF Kept
  <2>2. Of(s)' = Of(s) /\ InsertedId(s)' = InsertedId(s)
    BY <1>3 DEF Of, InsertedId, Does
  <2> QED BY <1>5, <2>1, <2>2 DEF Kept
<1>8. Created(r)' => Kept(r)'
  <2>1. Of(r)' = Of(r) /\ InsertedId(r)' = InsertedId(r)
    BY <1>3 DEF Of, InsertedId, Does
  <2> QED BY <1>5, <2>1 DEF Kept
<1>9. \A s \in Reqs : Owns(s) => Owns(s)'
  BY <1>3 DEF Owns
<1>10. CreatedStays'
  BY <1>2, <1>3, <1>7, <1>8, CreatedLater DEF ApiInv
<1>11. UserInv'
  BY <1>2, <1>3, <1>9, UsersLater DEF ApiInv
<1> QED BY <1>2, <1>6, <1>10, <1>11 DEF ApiInv


\* The handler of r deletes the rows with the id in its path.
LEMMA RemoveInv ==
  ASSUME ApiInv, NEW r \in Reqs, IsReading(r), Return(r, 200), Does(r) = "remove",
         rows' = Others(r, PathId(r)), users' = users, runs' = runs
  PROVE  ApiInv'
<1>1. 200 \in Codes /\ 200 \in {200, 201}
  BY DEF Codes
<1>2. Does(r) \notin Idle
  BY DEF Idle
<1>3. RequestInv' /\ TurnInv' /\ LogInv' /\ Written(r)' /\ status'[r] = 200
  BY <1>1, <1>2, ReturnStep, ReturnLog, ReturnWrites DEF ApiInv
<1>4. RanStays /\ ask' = ask /\ call' = call /\ ran' = Append(ran, r) /\ ~HasRun(r)
  BY <1>1, ReturnKeeps DEF ApiInv
<1>5. Others(r, PathId(r)) \subseteq rows
  BY DEF Others
<1>6. RowInv'
  <2>1. \A s \in Reqs : Written(s) => Written(s)'
    BY <1>4, WrittenStays
  <2>2. \A k \in DOMAIN users : users[k].by \in Reqs
    <3>1. \A k \in DOMAIN users : users[k] \in Users
      BY DEF ApiInv, RowInv
    <3> QED BY <3>1 DEF Users
  <2>3. \A row \in rows' : row.id \in RowIds /\ row.by \in Reqs /\ row.sound \in BOOLEAN /\ Written(row.by)'
    BY <1>5, <2>1 DEF ApiInv, RowInv
  <2>4. \A run \in runs : run \in Runs /\ Written(run.by)'
    BY <2>1 DEF ApiInv, RowInv, Runs
  <2> QED BY <2>1, <2>2, <2>3, <2>4 DEF ApiInv, RowInv
<1>7. ASSUME NEW s \in Reqs, HasRun(s), Kept(s) PROVE Kept(s)' \/ Deletes(r, s)'
  <2>1. PICK row \in rows : row.on = Of(s) /\ row.id = InsertedId(s)
    BY <1>7 DEF Kept
  <2>2. Of(s)' = Of(s) /\ InsertedId(s)' = InsertedId(s) /\ Does(r)' = Does(r) /\ PathId(r)' = PathId(r) /\ Of(r)' = Of(r)
    BY <1>4 DEF Of, InsertedId, Does, PathId
  <2>5. PathId(r) \notin OddIds
    BY PathSpelt DEF ApiInv
  <2>3. CASE row \in Others(r, PathId(r))
    BY <2>1, <2>2, <2>3 DEF Kept
  <2>4. CASE row \notin Others(r, PathId(r))
    <3>1. row.on = Of(r) /\ row.id = PathId(r)
      BY <2>4 DEF Others
    <3> QED BY <1>3, <2>1, <2>2, <2>5, <3>1 DEF Deletes
  <2> QED BY <2>3, <2>4
<1>8. ~(Created(r)') /\ ~(SignedUp(r)')
  BY <1>4 DEF Created, SignedUp, Does
<1>9. \A s \in Reqs : Owns(s) => Owns(s)'
  BY <1>4 DEF Owns
<1>10. CreatedStays'
  BY <1>3, <1>4, <1>7, <1>8, CreatedLater DEF ApiInv
<1>11. UserInv'
  BY <1>3, <1>4, <1>8, <1>9, UsersLater DEF ApiInv
<1> QED BY <1>3, <1>6, <1>10, <1>11 DEF ApiInv

\* The handler of r writes runs or users, and leaves the rows alone.
LEMMA OtherWriteInv ==
  ASSUME ApiInv, NEW r \in Reqs, IsReading(r), NEW code \in {200, 201}, Return(r, code), Does(r) \notin Idle,
         rows' = rows, ~(Created(r)'),
         \A run \in runs' : run \in runs \/ (run \in Runs /\ run.by = r),
         users' \in Seq(Users),
         \A k \in DOMAIN users' : users'[k].by = r \/ (k \in DOMAIN users /\ users'[k].by = users[k].by),
         Does(r) # "changeUser" => \A s \in Reqs : Owns(s) => Owns(s)',
         SignedUp(r)' => Owns(r)'
  PROVE  ApiInv'
<1>1. code \in Codes
  BY DEF Codes
<1>2. RequestInv' /\ TurnInv' /\ LogInv' /\ Written(r)'
  BY <1>1, ReturnStep, ReturnLog, ReturnWrites DEF ApiInv
<1>3. RanStays /\ ask' = ask /\ call' = call /\ ran' = Append(ran, r) /\ ~HasRun(r)
  BY <1>1, ReturnKeeps DEF ApiInv
<1>4. \A s \in Reqs : Written(s) => Written(s)'
  BY <1>3, WrittenStays
<1>5. RowInv'
  <2>1. \A row \in rows : row.id \in RowIds /\ row.by \in Reqs /\ row.sound \in BOOLEAN /\ Written(row.by)'
    BY <1>4 DEF ApiInv, RowInv
  <2>2. \A run \in runs : run \in Runs /\ Written(run.by)'
    BY <1>4 DEF ApiInv, RowInv, Runs
  <2>3. \A run \in runs' : run \in Runs /\ Written(run.by)'
    BY <1>2, <2>2
  <2>4. ASSUME NEW k \in DOMAIN users' PROVE Written(users[k].by)'
    <3>1. PICK s : s = users'[k].by
      OBVIOUS
    <3>2. CASE s = r
      BY <1>2, <3>1, <3>2
    <3>3. CASE s # r
      <4>1. k \in DOMAIN users /\ s = users[k].by
        BY <3>1, <3>3
      <4>2. users[k] \in Users
        BY <4>1 DEF ApiInv, RowInv
      <4>3. s \in Reqs /\ Written(s)
        BY <4>1, <4>2 DEF ApiInv, RowInv, Users
      <4>4. Written(s)'
        BY <1>4, <4>3
      <4> QED BY <3>1, <4>4
    <3> QED BY <3>2, <3>3
  <2> QED BY <2>1, <2>3, <2>4 DEF RowInv
<1>6. \A s \in Reqs : HasRun(s) /\ Kept(s) => Kept(s)'
  BY <1>3 DEF Kept, Of, InsertedId, Does
<1>7. CreatedStays'
  BY <1>2, <1>3, <1>6, CreatedLater DEF ApiInv
<1>8. UserInv'
  BY <1>2, <1>3, UsersLater DEF ApiInv
<1> QED BY <1>2, <1>5, <1>7, <1>8 DEF ApiInv

LEMMA AddUserInv ==
  ASSUME ApiInv, NEW r \in Reqs, IsReading(r), Does(r) \in {"register", "addUser"},
         NEW password \in Passwords, AddUser(r, password),
         Does(r) = "register" => ByEmail(ask[r].email) = {} /\ password # Undefined /\ password = ask[r].password
  PROVE  ApiInv'
<1>1. Return(r, 201) /\ rows' = rows /\ runs' = runs
  BY DEF AddUser
<1>2. PICK email : email = ask[r].email
  OBVIOUS
<1>3. email \in Emails
  BY <1>2 DEF ApiInv, RequestInv, Matched, Emails
<1>4. PICK new : new = [id |-> r, email |-> email, password |-> password, by |-> r]
  OBVIOUS
<1>5. new \in Users /\ new.id = r /\ new.email = email /\ new.password = password /\ new.by = r
  BY <1>3, <1>4 DEF Users
<1>6. users \in Seq(Users) /\ users' = Append(users, new)
  BY <1>2, <1>4 DEF ApiInv, RowInv, AddUser
<1>7. PICK n \in Nat : n = Len(users)
  BY <1>6
<1>8. /\ users' \in Seq(Users) /\ DOMAIN users = 1..n /\ DOMAIN users' = 1..(n + 1) /\ users'[n + 1] = new
      /\ \A k \in 1..n : users'[k] = users[k]
  BY <1>5, <1>6, <1>7
<1>9. ask' = ask /\ call' = call
  BY <1>1 DEF Return
<1>10. \A k \in DOMAIN users' : users'[k].by = r \/ (k \in DOMAIN users /\ users'[k].by = users[k].by)
  <2>1. \A k \in 1..(n + 1) : k \in 1..n \/ k = n + 1
    OBVIOUS
  <2> QED BY <1>5, <1>8, <2>1
<1>11. ASSUME NEW s \in Reqs, Owns(s) PROVE Owns(s)'
  <2>1. PICK p \in 1..n :
          /\ users[p].id = s /\ users[p].password = ask[s].password /\ users[p].email = ask[s].email
          /\ \A q \in 1..n : q < p => users[q].email # ask[s].email
    BY <1>8, <1>11 DEF Owns
  <2>2. p \in 1..(n + 1) /\ \A q \in 1..(n + 1) : q < p => q \in 1..n
    OBVIOUS
  <2>3. /\ users'[p].id = s /\ users'[p].password = ask[s].password /\ users'[p].email = ask[s].email
        /\ \A q \in 1..(n + 1) : q < p => users'[q].email # ask[s].email
    BY <1>8, <2>1, <2>2
  <2> QED BY <1>8, <1>9, <1>11, <2>2, <2>3 DEF Owns
<1>12. SignedUp(r)' => Owns(r)'
  <2> SUFFICES ASSUME SignedUp(r)' PROVE Owns(r)'
    OBVIOUS
  <2>1. Does(r) = "register"
    BY <1>9 DEF SignedUp, Does
  <2>2. ByEmail(email) = {} /\ password # Undefined /\ password = ask[r].password
    BY <1>2, <2>1
  <2>3. \A q \in 1..n : users[q].email # email
    BY <1>8, <2>2 DEF ByEmail
  <2>4. n + 1 \in 1..(n + 1) /\ \A q \in 1..(n + 1) : q < n + 1 => q \in 1..n
    OBVIOUS
  <2>5. \A q \in 1..(n + 1) : q < n + 1 => users'[q].email # email
    BY <1>8, <2>3, <2>4
  <2> QED BY <1>2, <1>5, <1>8, <1>9, <2>2, <2>4, <2>5 DEF Owns
<1>13. Does(r) \notin Idle /\ ~(Created(r)')
  BY <1>9 DEF Idle, Created, Does
<1>14. 201 \in {200, 201}
  OBVIOUS
<1> QED BY <1>1, <1>8, <1>10, <1>11, <1>12, <1>13, <1>14, OtherWriteInv

LEMMA ChangeUserInv ==
  ASSUME ApiInv, NEW r \in Reqs, IsReading(r), Does(r) = "changeUser", Return(r, 200), rows' = rows, runs' = runs,
         NEW k \in DOMAIN users,
         users' = [users EXCEPT ![k] = Changed(@, r)]
  PROVE  ApiInv'
<1>1. users \in Seq(Users) /\ users[k] \in Users
  BY DEF ApiInv, RowInv
<1>2. users[k].email \in Emails /\ users[k].password \in Passwords
  BY <1>1 DEF Users
<1>3. Given(ask[r].email, users[k].email) \in Emails /\ Given(ask[r].password, users[k].password) \in Passwords
  <2>1. ask[r].email \in Emails /\ ask[r].password \in Passwords
    BY DEF ApiInv, RequestInv, Matched, Emails, Passwords
  <2> QED BY <1>2, <2>1 DEF Given
<1>4. PICK new : new = Changed(users[k], r)
  OBVIOUS
<1>5. new \in Users /\ new.by = r /\ users' = [users EXCEPT ![k] = new]
  BY <1>1, <1>3, <1>4 DEF Users, Changed
<1>6. /\ users' \in Seq(Users) /\ DOMAIN users' = DOMAIN users /\ users'[k] = new
      /\ \A j \in DOMAIN users : j # k => users'[j] = users[j]
  BY <1>1, <1>5
<1>7. \A j \in DOMAIN users' : users'[j].by = r \/ (j \in DOMAIN users /\ users'[j].by = users[j].by)
  BY <1>5, <1>6
<1>8. ask' = ask /\ call' = call
  BY DEF Return
<1>9. Does(r) \notin Idle /\ ~(Created(r)') /\ ~(SignedUp(r)')
  BY <1>8 DEF Idle, Created, SignedUp, Does
<1>10. 200 \in {200, 201}
  OBVIOUS
<1> QED BY <1>6, <1>7, <1>9, <1>10, OtherWriteInv
\* The first of some users is one of them.
LEMMA FirstIsOne ==
  ASSUME NEW n \in Nat, NEW positions, positions \subseteq 1..n, positions # {}
  PROVE  First(positions) \in positions
<1>1. positions \in SUBSET Nat
  OBVIOUS
<1> QED BY <1>1, LeastExists DEF First

LEMMA AnswerInv ==
  ASSUME ApiInv, NEW r \in Reqs, Answer(r)
  PROVE  ApiInv'
<1>1. PICK code \in {200, 400} : Keep(r, code) /\ IsReading(r)
  BY DEF Answer, Called, IsReading
<1>2. code \in Codes \ {201}
  BY DEF Codes
<1> QED BY <1>1, <1>2, KeepInv

LEMMA RefuseInv ==
  ASSUME ApiInv, NEW r \in Reqs, IsReading(r), NEW code \in {200, 400, 401, 404}, Keep(r, code)
  PROVE  ApiInv'
<1>1. code \in Codes \ {201}
  BY DEF Codes
<1> QED BY <1>1, KeepInv

LEMMA CreateInv ==
  ASSUME ApiInv, NEW r \in Reqs, Create(r)
  PROVE  ApiInv'
<1>1. IsReading(r) /\ Does(r) \in {"create", "spread", "open"}
  BY DEF Create, Called, IsReading
<1>2. CASE Keep(r, 400)
  <2>1. 400 \in {200, 400, 401, 404}
    OBVIOUS
  <2> QED BY <1>1, <1>2, <2>1, RefuseInv
<1>3. CASE /\ rows' = Others(r, InsertedId(r))
                        \cup {[on |-> Of(r), id |-> InsertedId(r), by |-> r, sound |-> Sound(r)]}
           /\ Return(r, 201)
           /\ UNCHANGED <<users, runs>>
  <2>1. PICK id, sound : id = InsertedId(r) /\ sound = Sound(r)
    OBVIOUS
  <2>2. id \in RowIds
    <3>1. ask[r] \in Asks
      BY <1>1 DEF ApiInv, RequestInv, Matched
    <3> QED BY <2>1, <3>1, AsksAssumption DEF InsertedId, RowIds
  <2>3. ask' = ask /\ call' = call
    BY <1>3 DEF Return
  <2>4. id = InsertedId(r)' /\ ~(SignedUp(r)') /\ Does(r) \notin Idle
    BY <1>1, <2>1, <2>3 DEF InsertedId, SignedUp, Does, Idle
  <2>5. 201 \in {200, 201} /\ sound \in BOOLEAN
    BY <2>1 DEF Sound
  <2>6. Puts(r, id, sound) /\ users' = users /\ runs' = runs
    BY <1>3, <2>1 DEF Puts
  <2> QED BY <1>1, <1>3, <2>1, <2>2, <2>4, <2>5, <2>6, WriteInv
<1> QED BY <1>2, <1>3 DEF Create

LEMMA GetInv ==
  ASSUME ApiInv, NEW r \in Reqs, Get(r) \/ GetRun(r) \/ Login(r)
  PROVE  ApiInv'
<1>1. IsReading(r) /\ \E code \in {200, 400, 401, 404} : Keep(r, code)
  BY DEF Get, GetRun, Login, Called, IsReading
<1> QED BY <1>1, RefuseInv

LEMMA UpdateInv ==
  ASSUME ApiInv, NEW r \in Reqs, Update(r)
  PROVE  ApiInv'
<1>1. IsReading(r) /\ Does(r) = "update"
  BY DEF Update, Called, IsReading
<1>2. CASE Keep(r, 404)
  <2>1. 404 \in {200, 400, 401, 404}
    OBVIOUS
  <2> QED BY <1>1, <1>2, <2>1, RefuseInv
<1>3. CASE /\ Found(r) # {}
           /\ rows' = Others(r, PathId(r))
                        \cup {[on |-> Of(r), id |-> PathId(r), by |-> r, sound |-> ask[r].sound]}
           /\ Return(r, 200)
           /\ UNCHANGED <<users, runs>>
  <2>1. PICK id, sound : id = PathId(r) /\ sound = ask[r].sound
    OBVIOUS
  <2>2. id \in RowIds
    BY <1>3, <2>1 DEF Found, ApiInv, RowInv
  <2>3. sound \in BOOLEAN
    <3>1. ask[r] \in Asks
      BY <1>1 DEF ApiInv, RequestInv, Matched
    <3> QED BY <2>1, <3>1, AsksAssumption
  <2>4. ask' = ask /\ call' = call
    BY <1>3 DEF Return
  <2>5. ~(Created(r)') /\ ~(SignedUp(r)') /\ Does(r) \notin Idle
    BY <1>1, <2>4 DEF Created, SignedUp, Does, Idle
  <2>6. 200 \in {200, 201}
    OBVIOUS
  <2>7. Puts(r, id, sound) /\ users' = users /\ runs' = runs
    BY <1>3, <2>1 DEF Puts
  <2> QED BY <1>1, <1>3, <2>2, <2>3, <2>5, <2>6, <2>7, WriteInv
<1> QED BY <1>2, <1>3 DEF Update

LEMMA RemovesInv ==
  ASSUME ApiInv, NEW r \in Reqs, Remove(r)
  PROVE  ApiInv'
<1>1. IsReading(r) /\ Does(r) = "remove"
  BY DEF Remove, Called, IsReading
<1>2. CASE Keep(r, 404)
  <2>1. 404 \in {200, 400, 401, 404}
    OBVIOUS
  <2> QED BY <1>1, <1>2, <2>1, RefuseInv
<1>3. CASE rows' = Others(r, PathId(r)) /\ Return(r, 200) /\ UNCHANGED <<users, runs>>
  BY <1>1, <1>3, RemoveInv
<1> QED BY <1>2, <1>3 DEF Remove

LEMMA SearchInv ==
  ASSUME ApiInv, NEW r \in Reqs, Search(r)
  PROVE  ApiInv'
<1>1. IsReading(r) /\ (Throw(r) \/ Keep(r, 200))
  BY DEF Search, Called, IsReading
<1>2. 200 \in {200, 400, 401, 404}
  OBVIOUS
<1> QED BY <1>1, <1>2, ThrowInv, RefuseInv

LEMMA RegisterInv ==
  ASSUME ApiInv, NEW r \in Reqs, Register(r) \/ CreateUser(r)
  PROVE  ApiInv'
<1>1. IsReading(r) /\ Does(r) \in {"register", "addUser"}
  BY DEF Register, CreateUser, Called, IsReading
<1>2. CASE Keep(r, 400)
  <2>1. 400 \in {200, 400, 401, 404}
    OBVIOUS
  <2> QED BY <1>1, <1>2, <2>1, RefuseInv
<1>3. CASE Does(r) = "register" /\ ask[r].password # Undefined /\ ByEmail(ask[r].email) = {} /\ AddUser(r, ask[r].password)
  <2>1. ask[r].password \in Passwords
    BY <1>1 DEF ApiInv, RequestInv, Matched, Passwords
  <2> QED BY <1>1, <1>3, <2>1, AddUserInv
<1>4. CASE Does(r) = "addUser" /\ AddUser(r, Undefined)
  <2>1. Undefined \in Passwords /\ Does(r) # "register"
    BY <1>4 DEF Passwords
  <2> QED BY <1>1, <1>4, <2>1, AddUserInv
<1> QED BY <1>2, <1>3, <1>4 DEF Register, CreateUser, Called

LEMMA ChangeInv ==
  ASSUME ApiInv, NEW r \in Reqs, ChangeUser(r)
  PROVE  ApiInv'
<1>1. IsReading(r) /\ Does(r) = "changeUser"
  BY DEF ChangeUser, Called, IsReading
<1>2. CASE Keep(r, 404)
  <2>1. 404 \in {200, 400, 401, 404}
    OBVIOUS
  <2> QED BY <1>1, <1>2, <2>1, RefuseInv
<1>3. CASE /\ ById(PathId(r)) # {}
           /\ users' = [users EXCEPT ![First(ById(PathId(r)))] = Changed(@, r)]
           /\ Return(r, 200)
           /\ UNCHANGED <<rows, runs>>
  <2>1. PICK k : k = First(ById(PathId(r)))
    OBVIOUS
  <2>2. ById(PathId(r)) \subseteq DOMAIN users
    BY DEF ById
  <2>3. PICK n \in Nat : DOMAIN users = 1..n
    BY DEF ApiInv, RowInv
  <2>4. k \in DOMAIN users
    BY <1>3, <2>1, <2>2, <2>3, FirstIsOne
  <2>5. users' = [users EXCEPT ![k] = Changed(@, r)]
    BY <1>3, <2>1
  <2> QED BY <1>1, <1>3, <2>4, <2>5, ChangeUserInv
<1> QED BY <1>2, <1>3 DEF ChangeUser

LEMMA ExecuteInv ==
  ASSUME ApiInv, NEW r \in Reqs, Execute(r)
  PROVE  ApiInv'
<1>1. IsReading(r) /\ Does(r) = "execute"
  BY DEF Execute, Called, IsReading
<1>2. CASE Keep(r, 404)
  <2>1. 404 \in {200, 400, 401, 404}
    OBVIOUS
  <2> QED BY <1>1, <1>2, <2>1, RefuseInv
<1>3. CASE Throw(r)
  BY <1>1, <1>3, ThrowInv
<1>4. CASE /\ runs' = runs \cup {[id |-> r, status |-> "completed", by |-> r]}
           /\ Return(r, 201)
           /\ UNCHANGED <<rows, users>>
  <2>1. [id |-> r, status |-> "completed", by |-> r] \in Runs /\ [id |-> r, status |-> "completed", by |-> r].by = r
    BY DEF Runs
  <2>2. \A run \in runs' : run \in runs \/ (run \in Runs /\ run.by = r)
    BY <1>4, <2>1
  <2>3. ask' = ask /\ call' = call
    BY <1>4 DEF Return
  <2>4. ~(Created(r)') /\ ~(SignedUp(r)') /\ Does(r) \notin Idle
    BY <1>1, <2>3 DEF Created, SignedUp, Does, Idle
  <2>5. \A s \in Reqs : Owns(s) => Owns(s)'
    BY <1>4, <2>3 DEF Owns
  <2>6. users' \in Seq(Users) /\ \A k \in DOMAIN users' : k \in DOMAIN users /\ users'[k].by = users[k].by
    BY <1>4 DEF ApiInv, RowInv
  <2>7. 201 \in {200, 201}
    OBVIOUS
  <2> QED BY <1>1, <1>4, <2>2, <2>4, <2>5, <2>6, <2>7, OtherWriteInv
<1> QED BY <1>2, <1>3, <1>4 DEF Execute

LEMMA CancelInv ==
  ASSUME ApiInv, NEW r \in Reqs, CancelRun(r)
  PROVE  ApiInv'
<1>1. IsReading(r) /\ Does(r) = "cancel"
  BY DEF CancelRun, Called, IsReading
<1>2. CASE Keep(r, 404)
  <2>1. 404 \in {200, 400, 401, 404}
    OBVIOUS
  <2> QED BY <1>1, <1>2, <2>1, RefuseInv
<1>3. CASE /\ runs' = (runs \ Run(r)) \cup {[run EXCEPT !.status = "cancelled", !.by = r] : run \in Run(r)}
           /\ Return(r, 200)
           /\ UNCHANGED <<rows, users>>
  <2>1. ASSUME NEW run \in Run(r)
        PROVE  [run EXCEPT !.status = "cancelled", !.by = r] \in Runs /\ [run EXCEPT !.status = "cancelled", !.by = r].by = r
    <3>1. run \in Runs
      BY DEF Run, ApiInv, RowInv
    <3> QED BY <3>1 DEF Runs
  <2>2. \A run \in runs' : run \in runs \/ (run \in Runs /\ run.by = r)
    BY <1>3, <2>1
  <2>3. ask' = ask /\ call' = call
    BY <1>3 DEF Return
  <2>4. ~(Created(r)') /\ ~(SignedUp(r)') /\ Does(r) \notin Idle
    BY <1>1, <2>3 DEF Created, SignedUp, Does, Idle
  <2>5. \A s \in Reqs : Owns(s) => Owns(s)'
    BY <1>3, <2>3 DEF Owns
  <2>6. users' \in Seq(Users) /\ \A k \in DOMAIN users' : k \in DOMAIN users /\ users'[k].by = users[k].by
    BY <1>3 DEF ApiInv, RowInv
  <2>7. 200 \in {200, 201}
    OBVIOUS
  <2> QED BY <1>1, <1>3, <2>2, <2>4, <2>5, <2>6, <2>7, OtherWriteInv
<1> QED BY <1>2, <1>3, Zenon DEF CancelRun

LEMMA ApiStart == ApiInit => ApiInv
<1> SUFFICES ASSUME ApiInit PROVE ApiInv
  OBVIOUS
<1>1. /\ ask = [r \in Reqs |-> NoAsk] /\ call = [r \in Reqs |-> NoAsk] /\ stage = [r \in Reqs |-> "none"]
      /\ status = [r \in Reqs |-> 0] /\ microtask = <<>> /\ ran = <<>> /\ rows = {} /\ users = <<>> /\ runs = {} /\ AuditInit
  BY DEF ApiInit
<1>2. DOMAIN ran = {} /\ Len(ran) = 0 /\ Len(microtask) = 0 /\ DOMAIN microtask = {} /\ \A r : ~HasRun(r)
  BY <1>1 DEF HasRun
<1>3. RequestInv
  <2>1. \A r \in Reqs : IsFresh(r) /\ ask[r] = NoAsk
    BY <1>1 DEF IsFresh
  <2>2. \A r \in Reqs : ask[r] \notin Asks /\ ~IsReading(r)
    BY <2>1, AsksAssumption, StageIsOne
  <2>3. ask \in [Reqs -> Asks \cup {NoAsk}] /\ call \in [Reqs -> Calls]
    BY <1>1 DEF Calls
  <2>4. stage \in [Reqs -> Stages] /\ status \in [Reqs -> Codes]
    BY <1>1 DEF Stages, Codes
  <2> QED BY <1>2, <2>1, <2>2, <2>3, <2>4 DEF RequestInv
<1>4. TurnInv
  BY <1>1, <1>2 DEF TurnInv
<1>5. LogInv
  <2>1. RingInv /\ recorded = <<>>
    BY <1>1, InitRing DEF AuditInit
  <2> QED BY <1>2, <2>1 DEF LogInv
<1>6. RowInv /\ CreatedStays /\ UserInv
  BY <1>1, <1>2 DEF RowInv, CreatedStays, UserInv
<1> QED BY <1>3, <1>4, <1>5, <1>6 DEF ApiInv

\* A step that leaves all but the process itself as it is.
LEMMA StillInv ==
  ASSUME ApiInv, UNCHANGED <<ask, call, stage, status, microtask, ran, rows, users, runs, auditVars>>
  PROVE  ApiInv'
<1>1. /\ ask' = ask /\ call' = call /\ stage' = stage /\ status' = status /\ microtask' = microtask /\ ran' = ran
      /\ rows' = rows /\ users' = users /\ runs' = runs
      /\ buffer' = buffer /\ head' = head /\ total' = total /\ recorded' = recorded
  BY DEF auditVars
<1>2. RanStays
  BY <1>1 DEF RanStays, HasRun
<1>3. RowInv' /\ CreatedStays' /\ UserInv'
  BY <1>1, <1>2, QuietRows, QuietCreated, QuietUsers DEF ApiInv
<1>4. RequestInv' /\ TurnInv'
  BY <1>1 DEF ApiInv, RequestInv, TurnInv, IsFresh, IsReading, IsSettled, IsAnswered, HasRun, Matched, Continued
<1>5. LogInv'
  <2>1. Continued' = Continued /\ UNCHANGED auditVars
    BY <1>1 DEF Continued, auditVars
  <2>2. /\ \A k \in DOMAIN ran : k \in DOMAIN ran' /\ ran'[k] = ran[k]
        /\ \A k \in DOMAIN ran' : k \notin DOMAIN ran => ran'[k] \notin {ran[j] : j \in DOMAIN ran} /\ ~(k <= Continued)
    BY <1>1, Zenon
  <2>3. \A k \in DOMAIN ran : ask'[ran[k]] = ask[ran[k]] /\ status'[ran[k]] = status[ran[k]]
    BY <1>1
  <2> QED BY <2>1, <2>2, <2>3, LogStays, Zenon DEF ApiInv
<1> QED BY <1>3, <1>4, <1>5 DEF ApiInv

LEMMA ApiStep == ApiInv /\ [ApiNext]_apiVars => ApiInv'
<1> SUFFICES ASSUME ApiInv, [ApiNext]_apiVars PROVE ApiInv'
  OBVIOUS
<1>1. ASSUME NEW r \in Reqs, NEW i \in Asks, Arrive(r, i) PROVE ApiInv'
  BY <1>1, ArriveInv
<1>2. ASSUME NEW r \in Reqs, BreakOff(r) PROVE ApiInv'
  BY <1>2, ThrowInv DEF BreakOff, IsReading
<1>3. ASSUME NEW r \in Reqs, Continue(r) PROVE ApiInv'
  BY <1>3, ContinueInv
<1>4. ASSUME NEW r \in Reqs, Handle(r) PROVE ApiInv'
  BY <1>4, AnswerInv, CreateInv, GetInv, UpdateInv, RemovesInv, SearchInv, RegisterInv, ChangeInv, ExecuteInv, CancelInv
     DEF Handle
<1>5. ASSUME NEW r \in Reqs, NEW i \in Asks, Collapse(r, i) PROVE ApiInv'
  BY <1>5, StillInv DEF Collapse
<1>6. CASE UNCHANGED apiVars
  BY <1>6, StillInv DEF apiVars
<1> QED BY <1>1, <1>2, <1>3, <1>4, <1>5, <1>6 DEF ApiNext, Serve

LEMMA ApiInvariant == ApiSpec => []ApiInv
BY ApiStart, ApiStep, PTL DEF ApiSpec

-----------------------------------------------------------------------------
(* What follows *)

\* What requests put into the server is what is there (handlers/*.ts, http/context.ts): rows are
\* written with a token or by a handler open to all, whatever permissions a route lists; they
\* stay until they are deleted by a path that spells their id, and users log in.
THEOREM WhatIsKept == ApiSpec => []RowsKept
<1>1. ApiInv /\ up \in BOOLEAN => RowsKept
  <2> SUFFICES ASSUME ApiInv, up \in BOOLEAN PROVE RowsKept
    OBVIOUS
  <2>1. ApiTypeOK
    <3>1. /\ stage \in [Reqs -> {"none", "reading", "settled", "answered"}]
          /\ status \in [Reqs -> {0, 200, 201, 204, 400, 401, 404, 405, 500, 501}]
      <4> DEFINE codes == {0, 200, 201, 204, 400, 401, 404, 405, 500, 501}
      <4>1. Codes \subseteq codes
        BY DEF Codes
      <4> HIDE DEF codes
      <4>2. status \in [Reqs -> codes]
        BY <4>1 DEF ApiInv, RequestInv
      <4>3. status \in [Reqs -> {0, 200, 201, 204, 400, 401, 404, 405, 500, 501}]
        BY <4>2 DEF codes
      <4> QED BY <4>3 DEF ApiInv, RequestInv, Stages
    <3>2. microtask \in Seq(Reqs) /\ ran \in Seq(Reqs)
      BY DEF ApiInv, TurnInv
    <3>3. AuditTypeOK
      BY DEF ApiInv, LogInv, RingInv
    <3>4. \A row \in rows : row.id \in RowIds /\ row.by \in Reqs /\ row.sound \in BOOLEAN
      BY DEF ApiInv, RowInv
    <3>5. \A run \in runs : run.id \in Reqs /\ run.by \in Reqs /\ run.status \in {"completed", "cancelled"}
      BY DEF ApiInv, RowInv, Runs
    <3>6. \A k \in DOMAIN users : users[k].id \in Reqs /\ users[k].by \in Reqs
      <4>1. \A k \in DOMAIN users : users[k] \in Users
        BY DEF ApiInv, RowInv
      <4> QED BY <4>1 DEF Users
    <3> QED BY <3>1, <3>2, <3>3, <3>4, <3>5, <3>6 DEF ApiTypeOK, RowIds
  <2>2. OnlyGrantedWrites
    <3>1. \A s \in Writers : Written(s)
      BY DEF Writers, ApiInv, RowInv
    <3> QED BY <3>1, OpenToAll DEF Written, OnlyGrantedWrites
  <2>3. RegisteredCanLogin
    <3>1. users \in Seq(Users)
      BY DEF ApiInv, RowInv
    <3>2. \A r : Owns(r) => CanLogIn(r)
      BY <3>1, OwnerLogsIn
    <3> QED BY <3>2 DEF ApiInv, UserInv, NoneChanged, RegisteredCanLogin
  <2> QED BY <2>1, <2>2, <2>3 DEF RowsKept, ApiInv
<1>2. ApiInit => up \in BOOLEAN
  BY DEF ApiInit
<1>3. up \in BOOLEAN /\ [ApiNext]_apiVars => (up \in BOOLEAN)'
  <2> SUFFICES ASSUME up \in BOOLEAN, [ApiNext]_apiVars PROVE up' \in BOOLEAN
    OBVIOUS
  <2>1. ASSUME NEW r \in Reqs, NEW i \in Asks, Arrive(r, i) \/ Collapse(r, i) PROVE up' \in BOOLEAN
    BY <2>1 DEF Arrive, Collapse
  <2>2. ASSUME NEW r \in Reqs, Serve(r) PROVE up' \in BOOLEAN
    BY <2>2 DEF Serve
  <2>3. CASE UNCHANGED apiVars
    BY <2>3 DEF apiVars
  <2> QED BY <2>1, <2>2, <2>3 DEF ApiNext
<1> QED BY <1>1, <1>2, <1>3, ApiInvariant, PTL DEF ApiSpec

\* Whatever is asked for, at most one route of the table fits, and its handler is in the
\* registry: no request is ever answered with 501 (router.ts:20, server.ts).
THEOREM NothingUnrouted == ApiSpec => []RoutedToOneHandler
<1>1. ApiInv => RoutedToOneHandler
  <2> SUFFICES ASSUME ApiInv, NEW r \in Reqs, ask[r] # NoAsk
               PROVE  Cardinality(Candidates(ask[r].method, ask[r].path)) <= 1 /\ status[r] # 501
    BY DEF RoutedToOneHandler
  <2>1. status[r] # 501
    BY DEF ApiInv, RequestInv, Codes
  <2>2. PICK path, method : path = ask[r].path /\ method = ask[r].method
    OBVIOUS
  <2>3. path \in Seq(STRING)
    <3>1. ask[r] \in Asks
      BY DEF ApiInv, RequestInv
    <3> QED BY <2>2, <3>1, AsksAssumption
  <2>4. \A a, b \in Candidates(method, path) : a = b
    BY <2>3, RoutesUnambiguous, Zenon DEF Candidates, Both
  <2>5. PICK fits : fits = Candidates(method, path)
    OBVIOUS
  <2>6. fits = {} \/ \E a : fits = {a}
    BY <2>4, <2>5
  <2>7. Cardinality(fits) <= 1
    BY <2>6, FS_EmptySet, FS_Singleton, SMTT(30)
  <2> QED BY <2>1, <2>2, <2>5, <2>7
<1> QED BY <1>1, ApiInvariant, PTL

\* The audit log can be relied on (server.ts, audit-log.ts): one entry for each request that may
\* change something, in the order in which their handlers ran, the newest of them in the ring, and
\* every query answered with the newest that match it.
THEOREM AuditReliable == ApiSpec => []AuditTrustworthy
<1>1. ApiInv => AuditTrustworthy
  <2> SUFFICES ASSUME ApiInv PROVE AuditTrustworthy
    OBVIOUS
  <2>1. RequestInv /\ TurnInv /\ LogInv /\ RingInv
    BY DEF ApiInv, LogInv
  <2> QED BY <2>1, LogFollows, RingNewest, QuerySound DEF AuditTrustworthy
<1> QED BY <1>1, ApiInvariant, PTL
=============================================================================
