------------------------------- MODULE MCData -------------------------------
(***************************************************************************)
(* The document store of the API, the graph functions of the engine, and   *)
(* the calculations of the platform that keep no state.  They share        *)
(* nothing, so each behaviour exercises the one that focus names.          *)
(***************************************************************************)
EXTENDS DocumentStore, DAGBuilder, TLC, Commerce, Rights, ExperimentResults, ContentSafety, KpiEngine,
        Forecasting, Catalog

VARIABLE focus

allVars == <<vars, dagVars, kpiVars, call, focus>>

PureFunctions == {"pricing", "partners", "rights", "results", "safety", "forecasting", "catalog"}

-----------------------------------------------------------------------------
(* Inputs *)

Tier(upTo, price) == [upTo |-> upTo, price |-> price]
Component(metric, included, tiers) == [metric |-> metric, included |-> included, tiers |-> tiers]
\* One plan has tiers in the wrong order, one does not cover much usage.
MCPlans ==
  {[id |-> "flat", base |-> 999, metered |-> <<>>],
   [id |-> "two", base |-> 250, metered |-> <<Component("calls", 2, <<Tier(4, 105), Tier(Inf, 33)>>),
                                              Component("users", 0, <<Tier(1, 0), Tier(3, 1000), Tier(Inf, 5)>>)>>],
   [id |-> "mixed", base |-> 0, metered |-> <<Component("calls", 3, <<Tier(5, 20), Tier(4, 70), Tier(9, 10)>>)>>]}
Use(metric, units) == [metric |-> metric, units |-> units]
MCUsages == {<<>>, <<Use("calls", 9)>>, <<Use("calls", 3), Use("users", 2), Use("calls", 2)>>, <<Use("calls", 4), Use("users", 7)>>,
             <<Use("users", 1), Use("calls", 1), Use("users", 2)>>, <<Use("calls", 12)>>,
             <<Use("calls", 8), Use("users", -1), Use("calls", -3)>>, <<Use("calls", 8), Use("users", 1), Use("calls", -3)>>}
Coupon(percentage, value, baseOnly, plans) ==
  [percentage |-> percentage, value |-> value, baseOnly |-> baseOnly, plans |-> plans]
MCCoupons == {Coupon(TRUE, 5000, FALSE, {"flat", "two", "mixed"}), Coupon(TRUE, 12000, FALSE, {"two"}),
              Coupon(TRUE, 3333, TRUE, {"flat", "two"}), Coupon(FALSE, 300, FALSE, {"two", "mixed"})}
MCProrations == {<<1, 1>>, <<1, 3>>, <<2, 3>>, <<1, 2>>, <<0, 1>>, <<5, 4>>}

PartnerTier(min, rate) == [min |-> min, rate |-> rate]
MCTierLists == {<<PartnerTier(0, 1000), PartnerTier(50, 1500)>>, <<PartnerTier(100, 2000), PartnerTier(20, 1250), PartnerTier(50, 0)>>,
                <<PartnerTier(10, 333), PartnerTier(10, 777)>>}
MCCandidates == {<<2>>, <<3, 1>>, <<1, 3, 2>>, <<2, 2, 1>>}
MCPartnerTiers == <<1, 2, 1>>
MCReferrals == UNION {[1..n -> [partner : {1, 3, 9}, revenue : {-7, 0, 15, 333}]] : n \in 0..3}

MCCounters == {[seen |-> s, converted |-> c] : s \in {0, 1, 2, 4, 15}, c \in {0, 1, 4, 8, 15}}

Limits(warning, critical) == [warning |-> warning, critical |-> critical]
\* Thresholds for what gets worse upwards, for what gets worse downwards, and none.
MCLimits == {Limits(10, 50), Limits(50, 10), NoValue}

MCSeries == UNION {[1..n -> 0..3] : n \in 1..4} \cup {[i \in 1..n |-> IF i \in S THEN 2 ELSE 0] : n \in 5..8, S \in SUBSET (1..8)}

MCStrings == UNION {[1..n -> {"a", "b"}] : n \in 0..3} \cup {<<"a", "b", "c">>, <<"c", "a", "b">>, <<"b", "c", "b", "c">>}
Titles == {<<"a">>, <<"A">>, <<"a", "b", "b", "a", "b">>, <<"a", "b", "b", "a", "c">>}
MCWanted == [title : Titles, artist : {<<"x">>, <<"x", "y">>}]
MCEntries == UNION {[1..n -> MCWanted] : n \in 0..3}
\* Titles in two cases, with blanks around or nothing else, and with a bar; ISRCs that are empty,
\* have no letter, or are written in two ways.
MCCharacters == {"a", "b", "c", "x", "y", "A", "1", " ", "-", "|", "?"}
MCLower == [c \in MCCharacters |-> IF c = "A" THEN "a" ELSE c]
MCUpper == [c \in MCCharacters |-> IF c = "a" THEN "A" ELSE c]
MCCodes == {"a", "b", "c", "x", "y", "A", "1"}
Song(title, artist, isrc) == [title |-> title, artist |-> artist, isrc |-> isrc]
MCRecords ==
  {Song(t, <<"x">>, i) : t \in {<<"a">>, <<" ", "A">>, <<"b">>}, i \in {None, <<>>, <<"-">>, <<"a", "-", "1">>, <<"A", "1">>}}
  \cup {Song(None, <<"x">>, <<"b">>), Song(<<" ">>, None, None), Song(<<"?">>, <<"x">>, None), Song(<<"a">>, None, None),
        Song(<<"a", "|", "x">>, <<"x">>, None), Song(<<"a">>, <<"x", "|", "x">>, None)}
MCUntitled == <<"?">>
MCUnknown == <<"y">>

-----------------------------------------------------------------------------
\* Nothing orders the edges, so of those that differ in their order only one list
\* is kept, the one with ascending ends; nor do the names of the nodes matter, so
\* that the first edge from a node leaves node 1, for itself or for node 2.
Ends == (Nodes \cup Unknown) \X (Nodes \cup Unknown)
Before(p, q) == p[1] < q[1] \/ (p[1] = q[1] /\ p[2] <= q[2])

DataInit ==
  /\ focus \in {"store", "dag", "kpi"} \cup PureFunctions
  /\ edges \in {1..n : n \in IF focus = "dag" THEN 0..Cardinality(Edges) ELSE {0}}
  /\ \E ends \in {f \in [edges -> Ends] : \A i \in edges \ {1} : Before(f[i - 1], f[i])} :
       /\ 1 \in edges => ends[1][1] \in {1} \cup Unknown /\ ends[1][2] \in {1, 2} \cup Unknown
       /\ source = [i \in edges |-> ends[i][1]] /\ target = [i \in edges |-> ends[i][2]]
  /\ focus # "dag" => op = "detect"
  /\ Init /\ DagInit /\ KpiInit /\ CallInit

Of(name, A) == focus = name /\ A /\ UNCHANGED <<vars, dagVars, kpiVars, focus>>

DataNext ==
  \/ focus = "store" /\ Next /\ UNCHANGED <<dagVars, kpiVars, call, focus>>
  \/ focus = "dag" /\ DagNext /\ UNCHANGED <<vars, kpiVars, call, focus>>
  \/ focus = "kpi" /\ KpiNext /\ UNCHANGED <<vars, dagVars, call, focus>>
  \/ Of("pricing", Quote)
  \/ Of("partners", PartnerCall)
  \/ Of("rights", RightsCall)
  \/ Of("results", GetResults)
  \/ Of("safety", CheckCall)
  \/ Of("forecasting", ForecastCall)
  \/ Of("catalog", CatalogCall)

DataSpec == DataInit /\ [][DataNext]_allVars

\* Processes, rows and requests of the store are interchangeable among themselves.
StoreSymmetry ==
  Permutations(Replicas) \cup Permutations(Ids) \cup Permutations(Requests)

-----------------------------------------------------------------------------
(* Properties *)

\* What customers pay and partners earn is exact to the rounding of single lines, however usage,
\* periods, referrals and tiers are split up or ordered.
AmountsExact ==
  /\ UnitsPricedByTier /\ UsageNeverCheaper /\ CouponsOnlyLower /\ PartsMakeTheWhole
  /\ HighestTierMet /\ AttributionIgnoresOrder /\ ReferralsCountOnce /\ CommissionIsExact

\* Rights and tracks are told from those that are almost the same: wider and narrower territories,
\* similar titles, ISRCs written in several ways, records that are delivered again.  No record of
\* a batch is lost, and no track left out but for one of its like, as LeftOutForItsLike has it.
RightsAndTracksKept ==
  /\ WiderGroupsCover /\ MoreRightsNeverLess /\ DistanceIsMetric /\ ExactTrackFound
  /\ NoRecordLost /\ LeftOutForItsLike /\ IngestingTwiceAddsNothing

\* The verdict on an experiment is confirmed by more traffic.  A text does not turn safe with more
\* keywords, lyrics only with a first copyright keyword beside a music keyword; and the verdict
\* on a text agrees with what is recommended for it.
VerdictsStable ==
  /\ MoreTrafficConfirms /\ WinnersHaveTraffic /\ WinnerIgnoresOrder
  /\ MoreKeywordsNeverSafer /\ LyricsNeverSafer /\ VerdictsAgree

\* Figures and forecasts follow the values they are computed from: alerts stay while a figure gets
\* worse in the direction the engine assumes for its id, lines, trends and seasons are those of the series, and its noise is not an outlier.
FiguresFaithful ==
  /\ AlertsStay /\ TrendsFollowValues
  /\ []LineIsBestFit /\ []TrendReverses /\ []RepetitionIsSeasonal /\ []OutliersAreFew
=============================================================================
