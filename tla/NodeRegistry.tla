---------------------------- MODULE NodeRegistry ---------------------------
(***************************************************************************)
(* packages/core/engine/src/node-registry.ts: the node types of workflows. *)
(*                                                                         *)
(* A handler is known by the fields of its output: Pass stands for the     *)
(* fields of its input.  What a node computes is a constant in the code,   *)
(* so what one node can tell the next is which fields it hands on.         *)
(***************************************************************************)
EXTENDS Integers, Sequences, FiniteSets

CONSTANTS
  Pass,          \* in an output: all fields of the input
  CustomTypes    \* what callers register beside the default types

ASSUME PassAssumption == Pass # "trackId"

Node(type, out) == [type |-> type, out |-> out]

CoreExecution == {
  Node("start", {Pass}), Node("end", {Pass}), Node("branch", {"branch", "value"}), Node("merge", {Pass, "merged"}),
  Node("delay", {"delayed", "delayMs"}), Node("loop", {"items", "count"}), Node("foreach", {"processed"}),
  Node("noop", {Pass})}

Data == {
  Node("storage_read", {"data", "table", "query"}), Node("storage_write", {"written", "table", "rowCount"}),
  Node("storage_update", {"updated", "table"}), Node("storage_delete", {"deleted", "table"}),
  Node("batch_read", {"data", "batchSize"}), Node("sql_query", {"rows", "query"}),
  Node("vector_search", {"results", "query", "topK"}), Node("cache_read", {"value", "key", "hit"}),
  Node("cache_write", {"written", "key"})}

Transform == {
  Node("json_transform", {"transformed"}), Node("map_fields", {"mapped", "data"}),
  Node("filter_items", {"items", "filtered"}), Node("aggregate", {"result", "operation"}),
  Node("sort", {"sorted"}), Node("deduplicate", {"deduplicated", "data"}), Node("enrich", {"enriched", "data"})}

AI == {
  Node("llm_generate", {"text", "model", "prompt", "tokensUsed"}), Node("llm_summarize", {"summary", "inputLength"}),
  Node("llm_score", {"score", "criteria"}), Node("llm_classify", {"classification", "confidence", "labels"}),
  Node("llm_extract", {"extracted", "schema"}), Node("embedding_generate", {"embedding", "dimensions", "model"}),
  Node("embedding_compare", {"similarity", "method"})}

Music == {
  Node("music_generate", {"trackId", "duration", "genre", "mood", "status"}),
  Node("music_to_embedding", {"embedding", "trackId"}), Node("bpm_estimator", {"bpm", "confidence", "trackId"}),
  Node("mood_classifier", {"mood", "moods", "trackId"}), Node("key_detector", {"key", "mode", "confidence", "trackId"}),
  Node("genre_classifier", {"genres", "trackId"}), Node("stem_separator", {"stems", "trackId"}),
  Node("music_master", {"mastered", "trackId", "loudnessLufs"})}

Rights == {
  Node("royalties_calculate", {"totalAmount", "splits", "currency"}), Node("rights_resolver", {"resolved", "trackId", "owners"}),
  Node("territory_checker", {"available", "territory", "restrictions"}), Node("license_validator", {"valid", "licenseType"})}

Analytics == {
  Node("compute_kpi", {"value", "kpi", "period"}), Node("forecast_metric", {"forecast", "metric", "horizon"}),
  Node("experiment_assign", {"variant", "experimentId"}), Node("cohort_segment", {"segments", "criteria"}),
  Node("revenue_model", {"projections", "scenario"})}

SRE == {
  Node("health_probe", {"healthy", "service", "latencyMs"}), Node("anomaly_detection", {"anomalies", "metric"}),
  Node("cost_estimator", {"estimatedCost", "currency", "period"}), Node("log_aggregator", {"entries", "level"}),
  Node("incident_create", {"incidentId", "severity"})}

Notification == {
  Node("email_notify", {"sent", "to", "subject"}), Node("slack_notify", {"sent", "channel"}),
  Node("webhook_notify", {"sent", "url", "statusCode"}), Node("sms_notify", {"sent", "to"})}

System == {
  Node("audit_log", {"logged", "action", "tenantId"}), Node("save_snapshot", {"snapshotId", "type"}),
  Node("governance_record", {"recorded", "policy"}), Node("http_call", {"statusCode", "body", "url", "method"}),
  Node("model_selector", {"selectedModel", "task", "criteria"}), Node("narrative_generate", {"narrative", "dataPoints"}),
  Node("deck_generate", {"deckUrl", "format", "slides"}), Node("risk_assess", {"riskScore", "level", "factors", "subject"}),
  Node("compliance_check", {"compliant", "violations", "regulation"}),
  Node("cost_forecast", {"forecast", "totalEstimated", "period"})}

Categories == <<CoreExecution, Data, Transform, AI, Music, Rights, Analytics, SRE, Notification, System>>

VARIABLES
  nodeTypes,   \* the registry: the registered nodes with their category, 0 for custom ones
  building,    \* the category createDefaultRegistry() registers next; 0 once it has thrown
  fields,      \* the fields of what the last node of a chain handed on
  about        \* history: has the chain made a track, and only gone through music nodes since?

nodeVars == <<nodeTypes, building, fields, about>>

NodeInit == nodeTypes = {} /\ building = 1 /\ fields = {} /\ about = FALSE

Has(type) == \E entry \in nodeTypes : entry.node.type = type

\* createDefaultRegistry(), category by category: register() throws for a type that is there.
RegisterCategory ==
  /\ building \in DOMAIN Categories
  /\ IF \E node \in Categories[building] : Has(node.type) THEN building' = 0 /\ UNCHANGED nodeTypes
     ELSE /\ nodeTypes' = nodeTypes \cup {[node |-> node, category |-> building] : node \in Categories[building]}
          /\ building' = building + 1
  /\ UNCHANGED <<fields, about>>

Built == building = Len(Categories) + 1

RegisterCustom(node) ==
  /\ Built /\ ~Has(node.type)
  /\ nodeTypes' = nodeTypes \cup {[node |-> node, category |-> 0]}
  /\ UNCHANGED <<building, fields, about>>

\* A node of a chain is run on what the node before it handed on.
RunNode(entry) ==
  /\ Built /\ entry \in nodeTypes
  /\ fields' = (entry.node.out \ {Pass}) \cup (IF Pass \in entry.node.out THEN fields ELSE {})
  /\ about' = (entry.node.type = "music_generate" \/ (about /\ (entry.category = 5 \/ Pass \in entry.node.out)))
  /\ UNCHANGED <<nodeTypes, building>>

NodeNext ==
  \/ RegisterCategory
  \/ \E node \in CustomTypes : RegisterCustom(node)
  \/ \E entry \in nodeTypes : RunNode(entry)

NodeSpec == NodeInit /\ [][NodeNext]_nodeVars

-----------------------------------------------------------------------------
(* Properties *)

\* The engine can be started: no default type is registered twice over the ten categories.
DefaultRegistryBuilds == building # 0

\* A registered type keeps its handler.
HandlersStay == [][nodeTypes \subseteq nodeTypes']_nodeVars

\* From the node that generates a track on, every chain of music nodes knows the track it is about.
TrackIsKept == about => "trackId" \in fields
=============================================================================
