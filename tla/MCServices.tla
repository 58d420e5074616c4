----------------------------- MODULE MCServices -----------------------------
(***************************************************************************)
(* The stateful services that stand beside the engine, the queue and the   *)
(* API.  No two of them share any state, so each behaviour exercises the   *)
(* one that focus names, and the others stay as they began.                *)
(***************************************************************************)
EXTENDS GenerationJobs, Experiments, Campaigns, Tracer, Metrics, Security, NodeRegistry, Contexts, Governance,
        Storage, Prompts, WorkflowBuilder

VARIABLE focus

MCExpWeights == <<0, 2, 0, 1>>

\* A variant of the first definition is gone in the second; the weights of the third are uneven.
MCDefinitions ==
  {[segment |-> "s1", variants |-> <<1, 2>>, weights |-> <<1, 1>>],
   [segment |-> "s1", variants |-> <<2, 3>>, weights |-> <<1, 2>>],
   [segment |-> "s2", variants |-> <<1, 2, 3>>, weights |-> <<3, 1, 2>>],
   [segment |-> "s1", variants |-> <<1>>, weights |-> <<0>>]}
MCPoint == [k \in Subjects \X CampaignIds |-> IF k[1] = "u1" THEN 1 ELSE 8]

MCBounds == <<1, 3>>
MCCustomTypes == {Node("start", {"custom"}), Node("own", {Pass, "custom"})}

Rule(id, priority, effect, matches) == [id |-> id, priority |-> priority, effect |-> effect, matches |-> matches]
MCRules == {Rule(1, 0, "allow", {"a", "b"}), Rule(2, 0, "deny", {"b"}), Rule(3, 1, "allow", {"b", "c"}),
            Rule(4, 1, "deny", {"c"}), Rule(5, -1, "deny", {"a", "b", "c", "d"}), Rule(1, 1, "deny", {"a"})}

Vector(id, embedding, tag) == [id |-> id, embedding |-> embedding, tag |-> tag]
MCBatches == {<<Vector("x", <<1, 2>>, "t")>>, <<Vector("x", <<-2, 0>>, "u")>>, <<Vector("y", <<3, 0>>, "t")>>,
              <<Vector("z", <<0, 0>>, "t"), Vector("y", <<1>>, "t"), Vector("x", <<1, 2>>, "t")>>,
              <<Vector("w", <<2, 1>>, "t"), Vector("z", <<0, -1>>, "u")>>}
MCQueries == {<<1, 0>>, <<1, 1>>, <<-1, 2>>, <<0, 0>>}

MCTexts == {<<>>, <<"mood">>, <<"genre", Word, "genre">>, <<"genre", "mood", "theme", "mood">>}
MCPromptValues == {<<Word, Word>>, <<Matched>>, <<"mood">>}
MCChains == {<<"n1", "n2">>, <<"n2", "n1", "n2">>, <<"n2">>}

allVars == <<gen, expVars, campaignVars, tracerVars, metricVars, rateVars, nodeVars, contextVars, consentVars, rules,
             txVars, vectors, tokens, promptVars, builderVars, focus>>

ServicesInit ==
  /\ focus \in {"gen", "exp", "campaigns", "tracer", "metrics", "rate", "nodes", "contexts", "consents", "policies",
                "transactions", "vectors", "sessions", "prompts", "builder"}
  /\ GenInit /\ ExpInit /\ CampaignInit /\ TracerInit /\ MetricInit /\ RateInit /\ NodeInit /\ ContextInit
  /\ ConsentInit /\ PolicyInit /\ TxInit /\ VectorInit /\ SessionInit /\ PromptInit /\ BuilderInit

Only(name, A) ==
  /\ focus = name /\ A
  /\ UNCHANGED focus
  /\ name # "gen" => UNCHANGED gen
  /\ name # "exp" => UNCHANGED expVars
  /\ name # "campaigns" => UNCHANGED campaignVars
  /\ name # "tracer" => UNCHANGED tracerVars
  /\ name # "metrics" => UNCHANGED metricVars
  /\ name # "rate" => UNCHANGED rateVars
  /\ name # "nodes" => UNCHANGED nodeVars
  /\ name # "contexts" => UNCHANGED contextVars
  /\ name # "consents" => UNCHANGED consentVars
  /\ name # "policies" => UNCHANGED rules
  /\ name # "transactions" => UNCHANGED txVars
  /\ name # "vectors" => UNCHANGED vectors
  /\ name # "sessions" => UNCHANGED tokens
  /\ name # "prompts" => UNCHANGED promptVars
  /\ name # "builder" => UNCHANGED builderVars

ServicesNext ==
  \/ Only("gen", GenNext)
  \/ Only("exp", ExpNext)
  \/ Only("campaigns", CampaignNext)
  \/ Only("tracer", TracerNext)
  \/ Only("metrics", MetricNext)
  \/ Only("rate", RateNext)
  \/ Only("nodes", NodeNext)
  \/ Only("contexts", ContextNext)
  \/ Only("consents", ConsentNext)
  \/ Only("policies", PolicyNext)
  \/ Only("transactions", TxNext)
  \/ Only("vectors", VectorNext)
  \/ Only("sessions", SessionNext)
  \/ Only("prompts", PromptNext)
  \/ Only("builder", BuilderNext)

\* The timers of the generator go off, time passes for the rate limiter, whose refused
\* clients ask again and again, and the event loop settles transactions.
ServicesSpec ==
  /\ ServicesInit /\ [][ServicesNext]_allVars
  /\ \A j \in GenIds : WF_allVars(Only("gen", Progress(j)))
  /\ WF_allVars(Only("rate", RateTick))
  /\ \A c \in Clients : SF_allVars(Only("rate", left[c] < 0 /\ refused[c] /\ Request(c)))
  /\ \A t \in Txs : WF_allVars(Only("transactions", Settle(t)))

\* What waits for a timer, for time to pass or for the event loop gets there: generation jobs,
\* clients that were refused, and transactions.
EverythingSettles == EveryJobCompletes /\ RefusedGetsThrough /\ EveryTransactionEnds

\* What has been finished or handed out stays as it is, while its callers go on: generated
\* tracks, transactions, built workflows and registered node types.
FinishedStays ==
  []ResultIffCompleted /\ CompletedIsFinal /\ LateQueriesRefused /\ BuiltStands /\ HandlersStay

\* What is put together from parts that others define is complete: prompts from templates and
\* variables, chains from nodes and their fields, workflows from edges, the registry from sections.
PartsFit ==
  DeclaredCoverPlaceholders /\ ValidatedRendersComplete /\ TrackIsKept /\ EdgeIdsDistinct /\ DefaultRegistryBuilds
=============================================================================
