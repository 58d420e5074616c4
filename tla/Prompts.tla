------------------------------ MODULE Prompts ------------------------------
(***************************************************************************)
(* packages/ai/prompts/src/prompt-manager.ts: prompt templates that are    *)
(* registered, updated and deleted, and their rendering.                   *)
(*                                                                         *)
(* A template is the sequence of its placeholders, the text between them   *)
(* left out.  A value is a sequence too: of words, of placeholders it      *)
(* happens to contain, and of Matched, the `$&` of String.replace().       *)
(***************************************************************************)
EXTENDS Integers, Sequences, FiniteSets, SequencesExt

CONSTANTS
  Matched,
  Word,           \* text without placeholders
  PromptIds,      \* the ids callers work with, those of built-in templates among them
  Texts,          \* the templates callers register
  PromptValues,   \* the values of variables
  NoPrompt

VARIABLES
  prompts,    \* prompts[id]: [text, declared], or NoPrompt
  honest      \* history: the ids whose variables are as extracted from the text, or were
              \* declared, by the last caller who did so, to be just its placeholders

promptVars == <<prompts, honest>>

\* registerBuiltInTemplates()
BuiltIn ==
  LET Template(slots) == [text |-> slots, declared |-> ToSet(slots)] IN
  [music_analysis       |-> Template(<<"track_name", "artist_name", "genre">>),
   genre_classification |-> Template(<<"description", "audio_features">>),
   mood_detection       |-> Template(<<"track_name", "lyrics", "audio_characteristics">>),
   lyric_generation     |-> Template(<<"theme", "genre", "mood", "structure">>),
   artist_bio           |-> Template(<<"artist_name", "genre", "career_highlights", "style_description">>),
   playlist_description |-> Template(<<"playlist_name", "theme", "track_count", "target_audience">>)]

ASSUME TextsAssumption ==
  /\ Word # Matched /\ \A id \in DOMAIN BuiltIn : {Word, Matched} \cap BuiltIn[id].declared = {}
  /\ \A text \in Texts : text \in Seq(ToSet(text)) /\ Matched \notin ToSet(text)
  /\ \A value \in PromptValues : value \in Seq(ToSet(value))

PromptInit ==
  /\ prompts = [id \in PromptIds \cup DOMAIN BuiltIn |-> IF id \in DOMAIN BuiltIn THEN BuiltIn[id] ELSE NoPrompt]
  /\ honest = DOMAIN BuiltIn

\* extractVariables()
Slots(text) == ToSet(text) \ {Word, Matched}

\* registerTemplate() takes the declared variables as they come, and replaces a template that has the id.
RegisterTemplate(id, text, declared) ==
  /\ prompts' = [prompts EXCEPT ![id] = [text |-> text, declared |-> declared]]
  /\ honest' = IF declared = Slots(text) THEN honest \cup {id} ELSE honest \ {id}

\* Mutant: the variables stay those of the former template.
UpdateText_KeepsVariables(id, text, declared) ==
  /\ prompts[id] # NoPrompt
  /\ prompts' = [prompts EXCEPT ![id].text = text]
  /\ honest' = honest \cup {id}

\* updateTemplate() with a new text: the variables are extracted from it, whatever the
\* update declares; those it declares, or the old ones, count for an empty text only.
UpdateText(id, text, declared) ==
  /\ prompts[id] # NoPrompt
  /\ prompts' = [prompts EXCEPT ![id] = [text |-> text, declared |-> IF text = <<>> THEN declared ELSE Slots(text)]]
  /\ honest' = honest \cup {id}

\* updateTemplate() with variables and no text: they are merged in as they come.
UpdateVariables(id, declared) ==
  /\ prompts[id] # NoPrompt
  /\ prompts' = [prompts EXCEPT ![id].declared = declared]
  /\ honest' = IF declared = Slots(prompts[id].text) THEN honest \cup {id} ELSE honest \ {id}

DeleteTemplate(id) ==
  /\ prompts[id] # NoPrompt
  /\ prompts' = [prompts EXCEPT ![id] = NoPrompt]
  /\ honest' = honest \ {id}

\* What callers declare for a text, rightly or not.
Declarations(text) == {Slots(text), {"genre"}}
AnyDeclaration == UNION {Declarations(text) : text \in Texts}

PromptNext ==
  \/ \E id \in PromptIds, text \in Texts : \E declared \in Declarations(text) : RegisterTemplate(id, text, declared)
  \/ \E id \in PromptIds, text \in Texts :
       \E declared \in AnyDeclaration \cup {p.declared : p \in {prompts[id]} \ {NoPrompt}} : UpdateText(id, text, declared)
  \/ \E id \in PromptIds, declared \in AnyDeclaration : UpdateVariables(id, declared)
  \/ \E id \in PromptIds : DeleteTemplate(id)

PromptSpec == PromptInit /\ [][PromptNext]_promptVars

-----------------------------------------------------------------------------
\* replace() with a global pattern: each placeholder of the variable becomes its value, where
\* Matched stands for the placeholder itself.
Replaced(text, variable, value) ==
  LET inserted == [i \in DOMAIN value |-> IF value[i] = Matched THEN variable ELSE value[i]]
  IN FlattenSeq([i \in DOMAIN text |-> IF text[i] = variable THEN inserted ELSE <<text[i]>>])

\* renderPrompt(): the variables one after the other, each in what the former ones left.
Rendered(text, variables) ==
  LET left[i \in 0..Len(variables)] == IF i = 0 THEN text ELSE Replaced(left[i - 1], variables[i].name, variables[i].value)
  IN left[Len(variables)]

\* validateVariables()
Missing(declared, names) == declared \ names

\* All ways to give variables plain values, which contain neither a placeholder of these variables
\* nor `$&`, in any order.
PlainArguments(names) ==
  LET Plain == {value \in PromptValues : ToSet(value) \cap (names \cup {Matched}) = {}} IN
  {[i \in DOMAIN order |-> [name |-> order[i], value |-> values[order[i]]]] :
     order \in Bijection(1..Cardinality(names), names), values \in [names -> Plain]}

\* A text with each placeholder given its value.
Filled(text, variables) ==
  FlattenSeq([i \in DOMAIN text |-> IF text[i] = Word THEN <<Word>>
                                   ELSE variables[CHOOSE k \in DOMAIN variables : variables[k].name = text[i]].value])

Templates ==
  [text : Texts \cup {BuiltIn[id].text : id \in DOMAIN BuiltIn},
   declared : AnyDeclaration \cup {BuiltIn[id].declared : id \in DOMAIN BuiltIn}]

\* The templates that render the same whatever the order of the variables, and leave no placeholder.
RenderComplete ==
  {p \in Templates :
     \A names \in {p.declared, Slots(p.text)} :
       Missing(p.declared, names) = {} /\ Slots(p.text) \subseteq p.declared =>
         \A variables \in PlainArguments(names) : Rendered(p.text, variables) = Filled(p.text, variables)}

-----------------------------------------------------------------------------
(* Properties *)

\* Variables that validate cover all placeholders of the template, through every sequence of
\* updates, as long as the caller who declared its variables last declared them rightly, or an
\* update has extracted them since.  An update of the variables alone is taken as it comes.
DeclaredCoverPlaceholders == \A id \in honest : Slots(prompts[id].text) \subseteq prompts[id].declared

\* Of such a template, with variables that validate and whose values contain neither their
\* placeholders nor `$&`, a rendered prompt has no placeholder left, and the order of the variables
\* makes no difference.  Of others the placeholders that are not declared may be left.
ValidatedRendersComplete == \A id \in honest \cap PromptIds : prompts[id] \in RenderComplete
=============================================================================
