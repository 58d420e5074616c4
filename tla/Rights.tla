------------------------------- MODULE Rights -------------------------------
(***************************************************************************)
(* packages/music/rights/src: the table of territories and their groups,   *)
(* and the rights bundles that hold in a territory.                        *)
(*                                                                         *)
(* WORLDWIDE is the group of all territories.  An exclusion names codes.   *)
(***************************************************************************)
EXTENDS PureCalls, FiniteSets

CONSTANTS
  Places,     \* codes and groups a bundle may name
  Excluded,   \* codes it may exclude
  Asked       \* codes that are asked for, one in no table among them

Nordics     == {"SE", "NO", "DK", "FI"}
Eu          == {"DE", "FR", "IT", "ES", "NL", "BE", "SE", "DK", "FI", "AT", "PT", "PL", "IE", "GR", "CZ", "RO", "HU"}
EastAsia    == {"JP", "KR", "CN", "TW", "HK"}
Asean       == {"ID", "TH", "VN", "PH", "MY", "SG"}
SouthAm     == {"BR", "AR", "CO", "CL", "PE"}
WestAfrica  == {"NG", "GH"}
NorthAfrica == {"EG", "MA"}
Gulf        == {"AE", "SA"}

\* TERRITORIES, by group.
Members == [
  NORTH_AMERICA   |-> {"US", "CA", "MX"},
  LATAM           |-> {"MX"} \cup SouthAm,
  SOUTH_AMERICA   |-> SouthAm,
  AMERICAS        |-> {"US", "CA", "MX"} \cup SouthAm,
  EUROPE          |-> Eu \cup {"GB", "NO", "CH", "TR", "RU", "UA"},
  EU              |-> Eu,
  EU_PLUS         |-> {"GB"},
  EEA             |-> Eu \cup {"NO"},
  NORDICS         |-> Nordics,
  CIS             |-> {"RU"},
  APAC            |-> EastAsia \cup Asean \cup {"IN", "AU", "NZ"},
  EAST_ASIA       |-> EastAsia,
  SOUTH_ASIA      |-> {"IN"},
  ASEAN           |-> Asean,
  OCEANIA         |-> {"AU", "NZ"},
  AFRICA          |-> WestAfrica \cup NorthAfrica \cup {"ZA", "KE"},
  WEST_AFRICA     |-> WestAfrica,
  SOUTHERN_AFRICA |-> {"ZA"},
  EAST_AFRICA     |-> {"KE"},
  NORTH_AFRICA    |-> NorthAfrica,
  MENA            |-> NorthAfrica \cup Gulf \cup {"TR", "IL"},
  GULF            |-> Gulf,
  NATO            |-> {"US", "CA", "GB", "TR"} \cup (Eu \ {"AT", "IE"}) \cup {"NO"},
  G7              |-> {"US", "CA", "GB", "DE", "FR", "IT", "JP"},
  G20             |-> {"US", "CA", "MX", "GB", "DE", "FR", "IT", "JP", "KR", "CN", "IN", "ID", "AU", "BR", "AR",
                       "ZA", "SA", "TR"},
  OECD            |-> {"US", "CA", "GB", "NO", "CH", "JP", "KR", "AU", "NZ", "CO", "CL", "TR", "IL"} \cup (Eu \ {"RO"})]

Territories == UNION {Members[g] : g \in DOMAIN Members}

\* Only territories are asked for, no groups of them.
ASSUME AskedAssumption == Asked \cap (DOMAIN Members \cup {"WORLDWIDE"}) = {}

\* getGroupsForTerritory(): none for a code that is not in the table.
GroupsOf(code) ==
  {g \in DOMAIN Members : code \in Members[g]} \cup (IF code \in Territories THEN {"WORLDWIDE"} ELSE {})

Grants(bundle, code) ==
  /\ code \notin bundle.excluded
  /\ "WORLDWIDE" \in bundle.places \/ code \in bundle.places \/ bundle.places \cap GroupsOf(code) # {}

\* resolveRights()
Resolve(bundles, code) == {b \in bundles : Grants(b, code)}

\* checkTerritoryRestrictions()
Available(bundles, code) == Resolve(bundles, code) # {}

Bundles == [places : {S \in SUBSET Places : Cardinality(S) \in 1..2}, excluded : {{}} \cup {{c} : c \in Excluded}]

RightsCall ==
  /\ call = NoCall
  /\ \E one, other \in Bundles, code \in Asked :
       call' = [fn |-> "resolve", bundles |-> {one, other}, code |-> code,
                granted |-> Resolve({one, other}, code), available |-> Available({one, other}, code)]

-----------------------------------------------------------------------------
(* Properties *)

\* Groups that are part of another one.
Parts == {<<"NORDICS", "EEA">>, <<"EU", "EEA">>, <<"EEA", "EUROPE">>, <<"G7", "G20">>, <<"G7", "OECD">>,
          <<"EAST_ASIA", "APAC">>, <<"ASEAN", "APAC">>, <<"OCEANIA", "APAC">>, <<"SOUTH_AMERICA", "LATAM">>,
          <<"LATAM", "AMERICAS">>, <<"NORTH_AMERICA", "AMERICAS">>, <<"WEST_AFRICA", "AFRICA">>, <<"GULF", "MENA">>,
          <<"EUROPE", "WORLDWIDE">>}

\* Rights in a group are rights in each of its parts: replacing a group by one it
\* is part of never takes a territory away, which one wrong row of the table would.
WiderGroupsCover ==
  call.fn = "resolve" => \A b \in call.granted : \A pair \in Parts :
    pair[1] \in b.places =>
      Grants([places |-> (b.places \ {pair[1]}) \cup {pair[2]}, excluded |-> b.excluded], call.code)

\* Licensing one more bundle never makes a track unavailable.
MoreRightsNeverLess ==
  call.fn = "resolve" =>
    \A b \in call.bundles : Available({b}, call.code) => call.available
=============================================================================
