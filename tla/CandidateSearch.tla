--------------------------- MODULE CandidateSearch ---------------------------
(***************************************************************************)
(* GET /candidates with typed filters and a natural language query: the    *)
(* listCandidates handler and mergeCandidateSearchOptions                  *)
(* (server/router.go), the options ParseNaturalCandidateQuery gives        *)
(* (resume/candidate_search.go), and what SearchCandidates of the service  *)
(* and of the repository (resume/service.go, repository.go) make of them.  *)
(*                                                                         *)
(* A text is a sequence of words, trimmed and in lower case, as all of     *)
(* them are when they are compared; << >> is the condition nobody gave.    *)
(* What the regular expressions find in a query is left open: any          *)
(* condition may be found, and any words may be outside of all conditions. *)
(* The order of the answer is left out.                                    *)
(***************************************************************************)
EXTENDS Naturals, SequencesExt

CONSTANTS
  Profiles,        \* the candidates stored
  TextFields,      \* of company, school and location, which are alike
  TypedQueries,    \* typed parameters of a request
  NaturalQueries,  \* what a natural query asks for
  PhraseText       \* the words of phrases on experience, which are all alike

Layers == {"new", "screening", "interview", "offer", "hired", "archived"}
Text == Seq(STRING)
Profile == [name : Text, texts : [TextFields -> Text], skills : Seq(Text),
            layer : Layers, months : Nat]

(* skills is the list of the skills asked for, before it becomes options.  *)
Query == [keyword : Text, texts : [TextFields -> Text], skills : Seq(Text \ {<< >>}),
          layers : SUBSET Layers, min : Nat, max : Nat]

(* The natural query holds phrases on experience instead of two limits,    *)
(* "min low", "max high" or "low - high" years, and words that belong to   *)
(* no condition, its rest (none if a single letter is all there is).       *)
Phrase == [asks : {"min", "max", "range"}, low : Nat, high : Nat]

ASSUME SearchAssumption ==
  /\ Profiles \subseteq Profile
  /\ TypedQueries \subseteq Query
  /\ PhraseText \in Text \ {<< >>}
  /\ \A q \in NaturalQueries :
       /\ q.rest \in Text
       /\ q.experience \in Seq({p \in Phrase : p.asks = "range" => p.low <= p.high})
       /\ [keyword |-> q.keyword, texts |-> q.texts, skills |-> q.skills,
           layers |-> q.layers, min |-> 0, max |-> 0] \in Query

VARIABLES
  typed, natural,  \* the request
  stage,           \* how far it is
  plan,            \* the options of the natural query, once it is parsed
  hits             \* the candidates answered

searchVars == <<typed, natural, stage, plan, hits>>
-----------------------------------------------------------------------------
(* The options of the two sides *)

(* The skill parameter is passed on in two forms: split at its commas, and *)
(* as the text it is, in which the commas stay.                            *)
RawList(list) ==
  IF list = << >> THEN << >>
  ELSE FoldLeft(LAMBDA text, skill : text \o <<",">> \o skill, Head(list), Tail(list))

TypedOptions(q) ==
  [keyword |-> q.keyword, texts |-> q.texts,
   skill |-> RawList(q.skills), skills |-> Range(q.skills),
   layers |-> q.layers, min |-> q.min, max |-> q.max]

Phrases(experience, kind) == {k \in DOMAIN experience : experience[k].asks = kind}
FirstPhrase(experience, kind) ==
  experience[CHOOSE k \in Phrases(experience, kind) :
               \A j \in Phrases(experience, kind) : k <= j]

(* A range is all that counts.  Otherwise the first upper limit does, and  *)
(* the pattern for a minimum takes the first number of years in the query, *)
(* that of an upper limit too.                                             *)
parseNaturalExperience(experience) ==
  LET range == FirstPhrase(experience, "range")
      first == Head(experience)
  IN IF Phrases(experience, "range") # {} THEN [min |-> range.low, max |-> range.high]
     ELSE [min |-> IF experience = << >> THEN 0
                   ELSE IF first.asks = "max" THEN first.high ELSE first.low,
           max |-> IF Phrases(experience, "max") = {} THEN 0
                   ELSE FirstPhrase(experience, "max").high]

(* One phrase is taken out of the query, wherever it is repeated, if a     *)
(* limit comes of it at all; the others stay where they are.               *)
Matched(experience) ==
  IF Phrases(experience, "range") # {} THEN FirstPhrase(experience, "range")
  ELSE IF Phrases(experience, "max") # {} THEN FirstPhrase(experience, "max")
  ELSE Head(experience)

(* Mutant: the phrase that was understood is not taken out of the query. *)
LeftAll(experience) == Range(experience)

Left(experience) ==
  LET made == parseNaturalExperience(experience)
  IN IF made.min > 0 \/ made.max > 0 THEN Range(experience) \ {Matched(experience)}
     ELSE Range(experience)

(* What is left of the query in the end. *)
Remainder(q) == q.rest \o (IF Left(q.experience) = {} THEN << >> ELSE PhraseText)

(* It is looked for as a keyword if the query names none. *)
NaturalOptions(q) ==
  [keyword |-> IF q.keyword # << >> THEN q.keyword ELSE Remainder(q), texts |-> q.texts,
   skill |-> IF q.skills = << >> THEN << >> ELSE Head(q.skills),
   skills |-> Range(q.skills), layers |-> q.layers,
   min |-> 12 * parseNaturalExperience(q.experience).min,
   max |-> 12 * parseNaturalExperience(q.experience).max]
-----------------------------------------------------------------------------
(* mergeCandidateSearchOptions *)

(* Mutant: the natural condition goes before the typed one. *)
PreferParsed(base, parsed) == IF parsed = << >> THEN base ELSE parsed

mergeTextCondition(base, parsed) ==
  IF parsed = << >> THEN base
  ELSE IF base = << >> \/ base = parsed THEN parsed
  ELSE base \o parsed

LowerMax(base, parsed) ==
  IF base = 0 \/ (parsed > 0 /\ parsed < base) THEN parsed ELSE base

Raised(max, min) == IF max > 0 /\ min > max THEN min ELSE max

mergeCandidateSearchOptions(base, parsed) ==
  LET skill == mergeTextCondition(base.skill, parsed.skill)
      min == IF parsed.min > base.min THEN parsed.min ELSE base.min
  IN [keyword |-> mergeTextCondition(base.keyword, parsed.keyword),
      texts |-> [f \in TextFields |-> mergeTextCondition(base.texts[f], parsed.texts[f])],
      skill |-> skill,
      skills |-> base.skills \cup parsed.skills \cup ({skill, parsed.skill} \ {<< >>}),
      layers |-> base.layers \cup parsed.layers,
      min |-> min,
      max |-> Raised(LowerMax(base.max, parsed.max), min)]
-----------------------------------------------------------------------------
(* SearchCandidates *)

(* The service puts two limits in order.  It also gives the options skills *)
(* if they have none but a skill, which the repository does too: Required. *)
SearchOptions(options) ==
  IF options.max > 0 /\ options.min > options.max
  THEN [options EXCEPT !.min = options.max, !.max = options.min]
  ELSE options

HasText(text, part) == part \in SubSeqs(text)
containsSkill(skills, part) == \E skill \in Range(skills) : HasText(skill, part)

matchesAnyCandidateField(candidate, keyword) ==
  \/ containsSkill(candidate.skills, keyword)
  \/ HasText(candidate.name, keyword)
  \/ \E f \in TextFields : HasText(candidate.texts[f], keyword)

Required(options) ==
  IF options.skills = {} /\ options.skill # << >> THEN {options.skill} ELSE options.skills

Matches(candidate, options) ==
  /\ options.layers # {} => candidate.layer \in options.layers
  /\ options.keyword # << >> => matchesAnyCandidateField(candidate, options.keyword)
  /\ \A skill \in Required(options) : containsSkill(candidate.skills, skill)
  /\ \A f \in TextFields : HasText(candidate.texts[f], options.texts[f])
  /\ candidate.months >= options.min
  /\ options.max > 0 => candidate.months <= options.max

SearchCandidates(options) ==
  {candidate \in Profiles : Matches(candidate, SearchOptions(options))}
-----------------------------------------------------------------------------
Unlimited == [keyword |-> << >>, texts |-> [f \in TextFields |-> << >>], skill |-> << >>,
              skills |-> {}, layers |-> {}, min |-> 0, max |-> 0]

(* A natural query without conditions is refused (NATURAL_QUERY_UNPARSEABLE); *)
(* here it stands for a request that has none.                                *)
GivesNothing(q) == NaturalOptions(q) = Unlimited

SearchInit ==
  /\ typed \in TypedQueries
  /\ natural \in NaturalQueries
  /\ stage = "received"
  /\ plan = Unlimited
  /\ hits = {}

ParseNaturalCandidateQuery ==
  /\ stage = "received"
  /\ plan' = NaturalOptions(natural)
  /\ stage' = "parsed"
  /\ UNCHANGED <<typed, natural, hits>>

listCandidates ==
  /\ stage = "parsed"
  /\ hits' = SearchCandidates(
               IF GivesNothing(natural) THEN TypedOptions(typed)
               ELSE mergeCandidateSearchOptions(TypedOptions(typed), plan))
  /\ stage' = "answered"
  /\ UNCHANGED <<typed, natural, plan>>

SearchNext == ParseNaturalCandidateQuery \/ listCandidates

SearchSpec == SearchInit /\ [][SearchNext]_searchVars
-----------------------------------------------------------------------------
(* What the two sides of a request ask for, put down without the options.  *)

(* Words without a label are asked for like a keyword, if there is none.   *)
Keyword(q) == IF q.keyword # << >> THEN q.keyword ELSE q.rest

AsksFor(q, keyword, c) ==
  /\ q.layers = {} \/ c.layer \in q.layers
  /\ keyword = << >> \/ matchesAnyCandidateField(c, keyword)
  /\ \A skill \in Range(q.skills) : containsSkill(c.skills, skill)
  /\ \A f \in TextFields : HasText(c.texts[f], q.texts[f])

Reversed(q) == q.max > 0 /\ q.min > q.max

(* Two typed limits are the ends of what is asked for, in either order.    *)
AskedTyped(c) ==
  /\ AsksFor(typed, typed.keyword, c)
  /\ IF Reversed(typed) THEN typed.max <= c.months /\ c.months <= typed.min
     ELSE typed.min <= c.months /\ (typed.max = 0 \/ c.months <= typed.max)

AskedNatural(c) ==
  /\ AsksFor(natural, Keyword(natural), c)
  /\ \A k \in DOMAIN natural.experience :
       LET phrase == natural.experience[k]
       IN /\ phrase.asks # "max" => c.months >= 12 * phrase.low
          /\ phrase.asks # "min" => c.months <= 12 * phrase.high

(* The two sides agree on a condition if one of them leaves it to the      *)
(* other or both say the same.                                             *)
Agree(a, b, none) == a = none \/ b = none \/ a = b

(* At most one lower and one upper limit in a natural query.  The upper    *)
(* one is not 0, which is how the code says that there is none.            *)
LimitedOnce(experience) ==
  /\ \A j, k \in DOMAIN experience :
       j # k => {experience[j].asks, experience[k].asks} = {"min", "max"}
  /\ \A k \in DOMAIN experience : experience[k].asks # "min" => experience[k].high > 0

(* The limits of both sides leave something in between, what is asked for  *)
(* and what is made of it.                                                 *)
LimitsMeet ==
  LET made == NaturalOptions(natural)
      asked(kinds) == {natural.experience[k] : k \in {j \in DOMAIN natural.experience :
                                                       natural.experience[j].asks \in kinds}}
      lows == {typed.min, made.min} \cup {12 * p.low : p \in asked({"min", "range"})}
      highs == {typed.max, made.max} \ {0}
  IN \A low \in lows, high \in highs : low <= high

(* Every candidate answered is one that both sides ask for.  With a        *)
(* natural query this takes that the sides agree on the status layers,     *)
(* whose lists are put together, that the natural query limits experience  *)
(* once, since of several phrases only one counts as a limit, and that the *)
(* limits of both leave something in between, since otherwise the upper    *)
(* one is raised.  Without one nothing more is needed: the typed limits    *)
(* may come in either order.                                               *)
HitsAskedByBoth ==
  \/ GivesNothing(natural)
  \/ /\ Agree(typed.layers, natural.layers, {})
     /\ LimitedOnce(natural.experience)
     /\ LimitsMeet
  => \A c \in hits : AskedTyped(c) /\ AskedNatural(c)

(* All phrases say the same limit, and it is not 0. *)
SayOneLimit(experience) ==
  \A k \in DOMAIN experience :
    /\ experience[k] = Head(experience)
    /\ experience[k].asks = "min" => experience[k].low > 0
    /\ experience[k].asks # "min" => experience[k].high > 0

(* The phrases of a natural query are understood: the first is not an      *)
(* upper limit, which would be taken for a lower one as well, unless there *)
(* is a range; and unless the query names its keyword, they say no more    *)
(* than one limit, since every other phrase would be looked for as words.  *)
Understood(q) ==
  \/ q.experience = << >>
  \/ /\ Head(q.experience).asks # "max" \/ Phrases(q.experience, "range") # {}
     /\ q.keyword # << >> \/ SayOneLimit(q.experience)

(* Nobody both sides ask for is missing, provided that they agree on every *)
(* text, that only one of them asks for skills, the typed one for a single *)
(* skill if there is a natural query too, that the phrases on experience   *)
(* are understood, and that the typed limits are in order if there is a    *)
(* natural query, since then the upper one is raised, not exchanged.       *)
NobodyMissedIfApart ==
  /\ stage = "answered"
  /\ Agree(typed.keyword, Keyword(natural), << >>)
  /\ \A f \in TextFields : Agree(typed.texts[f], natural.texts[f], << >>)
  /\ \/ typed.skills = << >>
     \/ natural.skills = << >> /\ (Len(typed.skills) = 1 \/ GivesNothing(natural))
  /\ Understood(natural)
  /\ GivesNothing(natural) \/ ~ Reversed(typed)
  => \A c \in Profiles : AskedTyped(c) /\ AskedNatural(c) => c \in hits
=============================================================================
