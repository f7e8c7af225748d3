---------------------------- MODULE MCCandidates ----------------------------
(***************************************************************************)
(* Small instances of Recommendation and of CandidateSearch, which share   *)
(* no state, side by side: every step is one of either, and only one of    *)
(* the two moves in a behaviour.                                           *)
(***************************************************************************)
EXTENDS Recommendation, CandidateSearch, FiniteSets

(* Resumes that say something of the company only, or of the skills only,  *)
(* one that mixes two labels in a line and one without any label.          *)
Blank == [labels |-> {}, value |-> {}, plain |-> {}, email |-> {}, phone |-> {},
          years |-> {}, months |-> {}]
MCName(n) == [Blank EXCEPT !.plain = {n}]
MCLabeled(ls, v) == [Blank EXCEPT !.labels = ls, !.value = v]
MCLines ==
  {MCName("Ada"), MCLabeled({"company"}, {"acme"}), MCLabeled({"company"}, {"-"}),
   MCLabeled({"skills"}, {"go", "sql"}), MCLabeled({"name"}, {"Bob"}),
   MCLabeled({"name", "company"}, {"initech"}),
   [Blank EXCEPT !.email = {"eve", "@"}, !.years = {2}, !.months = {5}]}
MCResumes ==
  {<<MCName("Ada"), MCLabeled({"company"}, {"acme"})>>,
   <<MCLabeled({"name"}, {"Bob"}), MCLabeled({"skills"}, {"go", "sql"})>>,
   <<MCLabeled({"name", "company"}, {"initech"}), MCLabeled({"company"}, {"-"})>>,
   <<[Blank EXCEPT !.email = {"eve", "@"}, !.years = {2}, !.months = {5}]>>}
MCEntered == {[name |-> {}, email |-> {}, phone |-> {}]}
MCJobDescriptions == {{}, {"go"}}
MCSymmetry == Permutations(Workers)
-----------------------------------------------------------------------------
(* Each side of a search gives at most two conditions: what goes wrong in  *)
(* the merge comes from one pair of conditions, or of conditions on the    *)
(* same field.                                                             *)
MCProfiles ==
  [name : {<<"li">>}, texts : [TextFields -> {<<"acme">>, <<"globex", "acme">>, <<"years">>}],
   skills : {<<<<"go">>>>, <<<<"go">>, <<"sql">>>>}, layer : {"new", "offer"},
   months : {24, 36, 60}]

MCTexts == {<< >>, <<"acme">>, <<"globex">>, <<"go">>}
MCPhraseText == <<"years">>
MCSkills == {<< >>, <<<<"go">>>>, <<<<"sql">>>>, <<<<"go">>, <<"sql">>>>}

Given(q, last) ==
  {f \in {"keyword", "skills", "rest"} \cap DOMAIN q : q[f] # << >>}
    \cup {f \in TextFields : q.texts[f] # << >>}
    \cup {f \in {"layers"} : q.layers # {}}
    \cup last

MCTypedQueries ==
  {q \in [keyword : MCTexts, texts : [TextFields -> MCTexts], skills : MCSkills,
          layers : {{}, {"new"}, {"new", "offer"}}, min : {0, 36}, max : {0, 24, 60}] :
     Cardinality(Given(q, {f \in {"min", "max"} : q[f] # 0})) <= 2}

AtLeast(n) == [asks |-> "min", low |-> n, high |-> 0]
AtMost(n) == [asks |-> "max", low |-> 0, high |-> n]
FromTo(m, n) == [asks |-> "range", low |-> m, high |-> n]

MCExperience ==
  {<< >>, <<AtLeast(2)>>, <<AtLeast(3)>>, <<AtMost(0)>>, <<AtMost(2)>>, <<AtMost(3)>>,
   <<FromTo(2, 3)>>, <<AtLeast(2), AtMost(3)>>, <<AtMost(3), AtLeast(2)>>,
   <<AtMost(2), AtLeast(3)>>, <<AtLeast(2), AtLeast(3)>>, <<AtMost(2), FromTo(2, 3)>>,
   <<AtLeast(2), AtLeast(2)>>, <<AtMost(0), AtLeast(2)>>, <<AtLeast(0)>>}

MCNaturalQueries ==
  {q \in [keyword : MCTexts, texts : [TextFields -> MCTexts], skills : MCSkills,
          layers : {{}, {"offer"}}, rest : {<< >>, <<"go">>, <<"acme">>},
          experience : MCExperience] :
     Cardinality(Given(q, IF q.experience = << >> THEN {} ELSE {"experience"})) <= 2}
-----------------------------------------------------------------------------
NobodySearches ==
  /\ stage = "received"
  /\ Given(typed, {}) = {} /\ typed.min = 0 /\ typed.max = 0
  /\ Given(natural, {}) = {} /\ natural.experience = << >>
NobodyStored == DOMAIN profiles = {}

DeskInit == Init /\ SearchInit
DeskNext ==
  \/ NobodySearches /\ Next /\ UNCHANGED searchVars
  \/ NobodyStored /\ SearchNext /\ UNCHANGED vars
DeskSpec == DeskInit /\ [][DeskNext]_<<vars, searchVars>>
=============================================================================
