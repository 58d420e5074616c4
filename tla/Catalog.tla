------------------------------ MODULE Catalog ------------------------------
(***************************************************************************)
(* packages/music/catalog/src/matcher.ts and ingestion.ts: titles compared *)
(* by edit distance, and batches of raw records normalised and freed of    *)
(* duplicates.                                                             *)
(***************************************************************************)
EXTENDS PureCalls, FiniteSets, Functions

CONSTANTS
  Characters, \* strings are sequences of them
  Lower,      \* Lower[c]: the character in lower case
  Upper,      \* Upper[c]: the character in upper case
  Blanks,     \* the characters that are trimmed
  Codes,      \* letters and digits, which an ISRC is made of
  Bar,        \* what separates title and artist in a key
  Untitled,   \* the title of what has none
  UnknownArtist, \* the artist of what has none
  Strings,    \* strings that are compared
  Entries,    \* catalogs: sequences of [title, artist]
  Wanted,     \* [title, artist]
  Records,    \* raw records: [title, artist, isrc]
  MaxBatch,
  None        \* a field that is missing

\* Every character has one of each case; the bar is no letter and no digit.
ASSUME CharacterAssumption ==
  /\ Lower \in [Characters -> Characters] /\ Upper \in [Characters -> Characters]
  /\ Bar \in Characters /\ \A c \in Characters \cap Codes : Upper[c] # Bar

\* Strings are compared character by character, catalogs and batches entry by entry.
ASSUME CatalogAssumption ==
  /\ Strings \subseteq Seq(Characters) /\ {Untitled, UnknownArtist} \subseteq Seq(Characters)
  /\ Wanted \subseteq [title : Seq(Characters), artist : Seq(Characters)]
  /\ Entries \subseteq Seq(Wanted) /\ MaxBatch \in Nat /\ None \notin Seq(Characters)
  /\ \A r \in Records, field \in {"title", "artist", "isrc"} : r[field] = None \/ r[field] \in Seq(Characters)

Least(S) == CHOOSE m \in S : \A n \in S : m <= n
Greatest(S) == CHOOSE m \in S : \A n \in S : n <= m

\* toLowerCase()
LowerCase(s) == [i \in 1..Len(s) |-> Lower[s[i]]]

\* A row of the matrix, from the row before it.
NextRow(a, b, i, before) ==
  LET row[j \in 0..Len(a)] ==
        IF j = 0 THEN i ELSE IF b[i] = a[j] THEN before[j - 1]
        ELSE 1 + Least({before[j - 1], row[j - 1], before[j]})
  IN  row

\* editDistance()
Distance(a, b) ==
  LET matrix[i \in 0..Len(b)] == IF i = 0 THEN [j \in 0..Len(a) |-> j] ELSE NextRow(a, b, i, matrix[i - 1])
  IN  matrix[Len(b)][Len(a)]

\* similarity(), as a fraction of 60 for strings of up to six characters.
Similarity(a, b) ==
  LET longer == IF Len(a) > Len(b) THEN Len(a) ELSE Len(b)
  IN  IF a = b THEN 60 ELSE IF a = <<>> \/ b = <<>> THEN 0
      ELSE (60 * (longer - Distance(a, b))) \div longer

\* Tenths of a sixtieth; the threshold is 0.8 of what is the same.
Combined(title, artist, entry) ==
  6 * Similarity(LowerCase(title), LowerCase(entry.title)) + 4 * Similarity(LowerCase(artist), LowerCase(entry.artist))
Threshold == 480

\* fuzzyMatch(): the first of the best entries above the threshold, 0 for none.
FuzzyMatch(title, artist, catalog) ==
  LET score(k) == Combined(title, artist, catalog[k])
      best == {k \in DOMAIN catalog : score(k) >= Threshold /\ \A l \in DOMAIN catalog : score(l) <= score(k)}
  IN  IF best = {} THEN 0 ELSE Least(best)

\* trim()
Trim(s) ==
  LET seen == {i \in 1..Len(s) : s[i] \notin Blanks}
  IN  IF seen = {} THEN <<>> ELSE SubSeq(s, Least(seen), Greatest(seen))

\* The letters and digits of an ISRC, in upper case: the empty string if it has none.
Code(s) ==
  LET upTo[k \in 0..Len(s)] ==
        IF k = 0 THEN <<>> ELSE IF s[k] \in Codes THEN Append(upTo[k - 1], Upper[s[k]]) ELSE upTo[k - 1]
  IN  upTo[Len(s)]

\* normalizeMetadata(): an ISRC that is missing or empty is none.
Normalize(record) ==
  [title  |-> Trim(IF record.title = None THEN Untitled ELSE record.title),
   artist |-> Trim(IF record.artist = None THEN UnknownArtist ELSE record.artist),
   isrc   |-> IF record.isrc \in {None, <<>>} THEN None ELSE Code(record.isrc)]

Failed(record) == Normalize(record).title \in {<<>>, Untitled}

\* ingestBatch()
Ingest(records) ==
  LET after[k \in 0..Len(records)] ==
        IF k = 0 THEN [processed |-> <<>>, failed |-> <<>>]
        ELSE LET before == after[k - 1]
             IN  IF Failed(records[k])
                 THEN [processed |-> before.processed, failed |-> Append(before.failed, records[k])]
                 ELSE [processed |-> Append(before.processed, Normalize(records[k])), failed |-> before.failed]
  IN  after[Len(records)]

\* Mutant: the same title is the same track.
Key_TitleOnly(track) == IF track.isrc # None THEN track.isrc ELSE LowerCase(track.title)

\* The key of a track; an ISRC that is the empty string is one.
Key(track) ==
  IF track.isrc # None THEN track.isrc ELSE LowerCase(track.title) \o <<Bar>> \o LowerCase(track.artist)

\* deduplicateTracks(): the first track of each key.
Enter(seen, track) == IF \E k \in DOMAIN seen : Key(seen[k]) = Key(track) THEN seen ELSE Append(seen, track)

Deduplicate(tracks) ==
  LET seen[k \in 0..Len(tracks)] == IF k = 0 THEN <<>> ELSE Enter(seen[k - 1], tracks[k])
  IN  seen[Len(tracks)]

\* matchByIsrc(): the first track with this ISRC, 0 for none.
MatchByIsrc(isrc, tracks) ==
  LET found == {k \in DOMAIN tracks : tracks[k].isrc = Code(isrc)}
  IN  IF found = {} THEN 0 ELSE Least(found)

CatalogCall ==
  /\ call = NoCall
  /\ \/ \E a, b \in Strings : call' = [fn |-> "editDistance", a |-> a, b |-> b, distance |-> Distance(a, b)]
     \/ \E catalog \in Entries, q \in Wanted :
          call' = [fn |-> "fuzzyMatch", title |-> q.title, artist |-> q.artist, catalog |-> catalog,
                   match |-> FuzzyMatch(q.title, q.artist, catalog)]
     \/ \E n \in 0..MaxBatch : \E records \in [1..n -> Records] :
          call' = [fn |-> "ingest", records |-> records, result |-> Ingest(records),
                   tracks |-> Deduplicate(Ingest(records).processed)]

-----------------------------------------------------------------------------
(* Properties *)

\* The distance is one: nothing is nearer to a string than itself, the way back is
\* as long, and no detour is shorter; and it is no longer than the longer string.
DistanceIsMetric ==
  call.fn = "editDistance" =>
    /\ call.distance = 0 <=> call.a = call.b
    /\ call.distance = Distance(call.b, call.a)
    /\ call.distance <= IF Len(call.a) > Len(call.b) THEN Len(call.a) ELSE Len(call.b)
    /\ \A c \in Strings : call.distance <= Distance(call.a, c) + Distance(c, call.b)

\* The same title and artist, but for the case of letters.
SameWords(t, u) == LowerCase(t.title) = LowerCase(u.title) /\ LowerCase(t.artist) = LowerCase(u.artist)

\* A track that the catalog has under this title and artist, in whatever case, is found,
\* also behind others that are similar.
ExactTrackFound ==
  call.fn = "fuzzyMatch" =>
    \A k \in DOMAIN call.catalog : SameWords(call.catalog[k], [title |-> call.title, artist |-> call.artist]) =>
      /\ call.match # 0
      /\ SameWords(call.catalog[call.match], call.catalog[k])

\* Every record of a batch is either a track, as normalised, or reported as failed.
NoRecordLost ==
  call.fn = "ingest" =>
    /\ Len(call.result.processed) + Len(call.result.failed) = Len(call.records)
    /\ \A k \in DOMAIN call.records :
         Failed(call.records[k]) \/ Normalize(call.records[k]) \in Range(call.result.processed)

\* No bar in its title and none in its artist.
WithoutBar(track) ==
  Bar \notin Range(LowerCase(track.title)) /\ Bar \notin Range(LowerCase(track.artist))

\* A track is left out for one of its like only: if its record states an ISRC, for one whose
\* ISRC has the same letters and digits, which finds it; if not, for one without an ISRC that
\* has, but for blanks and case, the same title and artist.  Tracks whose ISRCs have no letter
\* and no digit at all, such as "-", are taken for one, whatever they are; and so may be tracks
\* with a bar in title or artist, since these are compared joined by one.
LeftOutForItsLike ==
  call.fn = "ingest" => \A k \in DOMAIN call.records : ~Failed(call.records[k]) =>
    LET record == call.records[k]
        track  == Normalize(record)
    IN  IF record.isrc \notin {None, <<>>}
        THEN LET match == MatchByIsrc(record.isrc, call.tracks)
             IN  match # 0 /\ call.tracks[match].isrc = Code(record.isrc)
        ELSE \E kept \in Range(call.tracks) :
               kept.isrc = None /\ (WithoutBar(kept) /\ WithoutBar(track) => SameWords(kept, track))

\* Ingesting a batch once more adds nothing, and what was there first is what stays.
IngestingTwiceAddsNothing ==
  call.fn = "ingest" =>
    /\ Deduplicate(call.tracks \o call.result.processed) = call.tracks
    /\ Deduplicate(call.tracks) = call.tracks
    /\ \A k \in DOMAIN call.result.processed :
         (\A l \in 1..(k - 1) : Key(call.result.processed[l]) # Key(call.result.processed[k]))
           => call.result.processed[k] \in Range(call.tracks)
=============================================================================
