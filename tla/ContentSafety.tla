--------------------------- MODULE ContentSafety ---------------------------
(***************************************************************************)
(* packages/ai/guardrails/src/content-safety.ts: texts and lyrics are      *)
(* searched for keywords of eight categories.                              *)
(*                                                                         *)
(* A text is how many keywords of each category it contains, whether it    *)
(* contains one of the music keywords, all of which stand for copyright,   *)
(* and whether a line is repeated too often.  Confidences are fractions    *)
(* of the number of keywords; thresholds are in tenths.                    *)
(***************************************************************************)
EXTENDS PureCalls

\* CATEGORY_KEYWORDS: how many there are.
Keywords == [explicit |-> 6, hate_speech |-> 7, violence |-> 9, self_harm |-> 6,
             sexual |-> 6, harassment |-> 6, dangerous |-> 6, copyright |-> 6]

Categories == DOMAIN Keywords

\* DEFAULT_THRESHOLDS
DefaultThresholds == [explicit |-> 5, hate_speech |-> 3, violence |-> 4, self_harm |-> 2,
                      sexual |-> 4, harassment |-> 3, dangerous |-> 3, copyright |-> 4]

\* Custom thresholds replace those of their categories.
Thresholds == {DefaultThresholds, [DefaultThresholds EXCEPT !.copyright = 8], [DefaultThresholds EXCEPT !.violence = 10]}

\* confidence >= tenths / 10
AtLeast(confidence, tenths) == 10 * confidence[1] >= tenths * confidence[2]

Severity(confidence) ==
  CASE AtLeast(confidence, 8) -> "critical"
    [] AtLeast(confidence, 5) /\ ~AtLeast(confidence, 8) -> "high"
    [] AtLeast(confidence, 3) /\ ~AtLeast(confidence, 5) -> "medium"
    [] OTHER -> "low"

\* detectCategory()
Detect(matches, category) ==
  LET confidence == <<matches[category], Keywords[category]>>
  IN  [detected |-> matches[category] > 0, confidence |-> confidence,
       severity |-> IF matches[category] > 0 THEN Severity(confidence) ELSE "low"]

Detected(found) == {c \in Categories : found[c].detected}

Safe(found, thresholds) ==
  \A c \in Detected(found) : ~AtLeast(found[c].confidence, thresholds[c])

Recommendations(found) ==
  {s \in {"low", "medium", "high", "critical"} : \E c \in Detected(found) : found[c].severity = s}
  \cup (IF Detected(found) = {} THEN {"appears safe"} ELSE {})

\* checkText(); checkMetadata() checks the joined fields.
CheckText(text, thresholds) ==
  LET found == [c \in Categories |-> Detect(text.matches, c)]
  IN  [found |-> found, safe |-> Safe(found, thresholds), recommendations |-> Recommendations(found), 
       flags |-> Detected(found)]

\* A music keyword counts as 0.7 if no other keyword of its category was found.
WithMusic(found) ==
  IF found.copyright.detected THEN found
  ELSE [found EXCEPT !.copyright = [detected |-> TRUE, confidence |-> <<7, 10>>, severity |-> "medium"]]

\* checkLyrics(): the recommendations stay those of the text.
CheckLyrics(text, thresholds) ==
  LET base  == CheckText(text, thresholds)
      found == IF text.music THEN WithMusic(base.found) ELSE base.found
  IN  [found |-> found, safe |-> Safe(found, thresholds), recommendations |-> base.recommendations,
       flags |-> base.flags \cup (IF text.music /\ ~base.found.copyright.detected THEN {"music_specific"} ELSE {})
                            \cup (IF text.repeats THEN {"excessive_repetition"} ELSE {})]

Harmless == [c \in Categories |-> 0]

\* Texts that touch few categories.
TextMatches ==
  {[Harmless EXCEPT ![c] = m, ![d] = n] : c \in {"violence", "copyright"}, d \in Categories, m \in 0..6, n \in 0..6}

CheckCall ==
  /\ call = NoCall
  /\ \E matches \in TextMatches, music, repeats \in BOOLEAN, thresholds \in Thresholds :
       LET text == [matches |-> matches, music |-> music, repeats |-> repeats]
       IN call' = [fn |-> "check", text |-> text, thresholds |-> thresholds,
                   asText |-> CheckText(text, thresholds), asLyrics |-> CheckLyrics(text, thresholds)]

-----------------------------------------------------------------------------
(* Properties *)

\* One more keyword of a category.
With(text, c) == [text EXCEPT !.matches[c] = @ + 1]

\* Lyrics that have a music keyword and, so far, no other one of its category.
OnlyMusic(text) == text.music /\ text.matches["copyright"] = 0

\* Adding a keyword never makes a text safe.  It makes lyrics safe in one case only: the
\* first copyright keyword beside a music keyword is judged by its share of the keywords,
\* which is less than the 0.7 that the music keyword alone counts as.  Adding a music keyword
\* never makes lyrics safe.
MoreKeywordsNeverSafer ==
  call.fn = "check" =>
    /\ ~call.asLyrics.safe => ~CheckLyrics([call.text EXCEPT !.music = TRUE], call.thresholds).safe
    /\ \A c \in {d \in Categories : call.text.matches[d] < Keywords[d]} :
         /\ ~call.asText.safe => ~CheckText(With(call.text, c), call.thresholds).safe
         /\ ~call.asLyrics.safe /\ ~(OnlyMusic(call.text) /\ c = "copyright") =>
              ~CheckLyrics(With(call.text, c), call.thresholds).safe

\* Lyrics are checked for more than a text: they are never safer.
LyricsNeverSafer ==
  call.fn = "check" /\ call.asLyrics.safe => call.asText.safe

\* What must be blocked is not safe: with a threshold up to 0.8 the verdict on a text and the
\* recommendations for it agree, and a text that is not safe is never said to appear safe.
\* Lyrics are said to, although they are not safe, only for a music keyword, the one thing
\* found in them.
VerdictsAgree ==
  call.fn = "check" =>
    /\ "critical" \in call.asText.recommendations
         <=> \E c \in Categories : 5 * call.text.matches[c] >= 4 * Keywords[c]
    /\ "critical" \in call.asText.recommendations /\ (\A c \in Categories : call.thresholds[c] <= 8) => ~call.asText.safe
    /\ ~call.asText.safe => "appears safe" \notin call.asText.recommendations
    /\ ~call.asLyrics.safe /\ "appears safe" \in call.asLyrics.recommendations =>
         call.text.music /\ call.text.matches = Harmless
=============================================================================
