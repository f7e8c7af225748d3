--------------------------- MODULE Recommendation ---------------------------
(***************************************************************************)
(* Question banks: POST and GET /interviews/:id/question-recommendations   *)
(* (server/router.go) and Service.GenerateQuestionRecommendation           *)
(* (interview/recommendation.go), with the profiles of CandidateProfiles.  *)
(*                                                                         *)
(* A request reads the interview, the profile of its candidate from the    *)
(* other store, and the interview again, builds the questions and saves    *)
(* them; anything can change between these steps:                          *)
(*                                                                         *)
(*   looked -> read -> generated -> saved                                  *)
(*       \-> refused                                                       *)
(*                                                                         *)
(* A question is its category, its focus and the words put into it.        *)
(***************************************************************************)
EXTENDS CandidateProfiles

CONSTANTS
  Workers,          \* request goroutines
  Interviews,       \* interview ids
  Rounds,           \* names of rounds
  JobDescriptions,  \* sets of the words that matter in a job description
  MaxGenerations,   \* bound on the number of requests
  MaxChanges        \* bound on the number of changes of interviews

ASSUME RecommendationAssumption ==
  /\ MaxGenerations \in Nat
  /\ MaxChanges \in Nat

VARIABLES
  interviews,   \* id -> candidate and round; its domain are those stored
  versions,     \* history: id -> what the interview has been
  bank,         \* questionBank: id -> recommendation
  pc,           \* how far the request of each worker is
  work,         \* what it has read
  generations,  \* number of requests taken
  changes       \* number of changes of interviews

interviewVars == <<interviews, versions, changes>>
requestVars == <<pc, work, generations>>
vars == <<profiles, read, past, interviews, versions, bank, pc, work, generations, changes>>

Assignment == [candidate : Candidates, round : Rounds]

Init ==
  /\ ProfileInit
  /\ interviews = [i \in {} |-> 0]
  /\ versions = [i \in Interviews |-> {}]
  /\ bank = [i \in {} |-> 0]
  /\ pc = [w \in Workers |-> "idle"]
  /\ work = [w \in Workers |-> << >>]
  /\ generations = 0
  /\ changes = 0
-----------------------------------------------------------------------------
(* Interviews are created and changed for stored candidates. *)
SetInterview(i, assignment) ==
  /\ changes < MaxChanges
  /\ assignment.candidate \in DOMAIN profiles
  /\ interviews' = [j \in DOMAIN interviews \cup {i} |->
                      IF j = i THEN assignment ELSE interviews[j]]
  /\ versions' = [versions EXCEPT ![i] = @ \cup {assignment}]
  /\ changes' = changes + 1
  /\ UNCHANGED <<profileVars, bank, requestVars>>
-----------------------------------------------------------------------------
(* The questions *)

Experience(focus, words) ==
  [category |-> "experience_follow_up", focus |-> focus, words |-> words]
Capability(focus, words) ==
  [category |-> "capability_assessment", focus |-> focus, words |-> words]
When(condition, question) == IF condition THEN <<question>> ELSE << >>

formatExperience(months) ==
  LET years == months \div 12
      rest == months % 12
  IN CASE years = 0 -> {ToString(months), "months"}
       [] years > 0 /\ rest = 0 -> {ToString(years), "years"}
       [] OTHER -> {ToString(years), "years", ToString(rest), "months"}

matchSkills(skills, jd) == skills \cap jd

Has(questions, category) == \E k \in DOMAIN questions : questions[k].category = category

(* Mutant: what is asked for goes without saying. *)
NoCoverage(questions, profile) == questions

(* What is missing is put at the end. *)
ensureQuestionCoverage(questions, profile) ==
  questions
  \o When(~Has(questions, "experience_follow_up"), Experience("experience-depth", {}))
  \o When(~Has(questions, "capability_assessment"), Capability("capability-fit", {}))
  \o When(profile["skills"] = {}, Capability("learning-agility", {}))

(* DefaultQuestionGenerator, for a job description that is not blank. *)
Generate(profile, jd) ==
  LET matched == matchSkills(profile["skills"], jd)
  IN ensureQuestionCoverage(
       <<Experience("experience-depth", profile["company"]),
         Experience("decision-making", profile["title"])>>
       \o When(profile["months"] # {},
               Experience("growth-trajectory",
                          UNION {formatExperience(m) : m \in profile["months"]}))
       \o When(matched # {}, Capability("job-skill-fit", matched))
       \o When("architecture" \in jd, Capability("architecture", {}))
       \o When("collaboration" \in jd, Capability("collaboration", {}))
       \o When("quality" \in jd, Capability("quality-reliability", {})),
       profile)

buildFallbackQuestions(profile) ==
  <<Experience("experience-impact", profile["name"]),
    Experience("ownership-learning", {}),
    Capability("capability-prioritization", profile["skills"]),
    Capability("quality-collaboration", {})>>

trimQuestions(questions) == SubSeq(questions, 1, IF Len(questions) <= 8 THEN Len(questions) ELSE 8)

(* The generator fails without a job description. *)
QuestionsFor(profile, jd) ==
  trimQuestions(IF jd = {} THEN buildFallbackQuestions(profile) ELSE Generate(profile, jd))
-----------------------------------------------------------------------------
(* The steps of a request *)

Step(w, from, to) == pc[w] = from /\ pc' = [pc EXCEPT ![w] = to]

Look(w) ==
  /\ pc[w] \in {"idle", "refused", "saved"}
  /\ generations < MaxGenerations
  /\ generations' = generations + 1
  /\ pc' = [pc EXCEPT ![w] = "looked"]
  /\ \E i \in DOMAIN interviews, jd \in JobDescriptions :
       work' = [work EXCEPT ![w] = [interview |-> i, item |-> interviews[i], jd |-> jd,
                                    profile |-> Nothing]]
  /\ UNCHANGED <<profileVars, interviewVars, bank>>

GetCandidate(w) ==
  /\ Step(w, "looked", "read")
  /\ work' = [work EXCEPT ![w].profile = profiles[work[w].item.candidate]]
  /\ UNCHANGED <<profileVars, interviewVars, bank, generations>>

(* Mutant: the candidate of the snapshot is not compared. *)
GenerateForAnybody(w) ==
  /\ Step(w, "read", "generated")
  /\ work' = [work EXCEPT ![w].item = interviews[work[w].interview]]
  /\ UNCHANGED <<profileVars, interviewVars, bank, generations>>

(* The interview is read again: if it is another candidate's by now, the   *)
(* request is refused.                                                     *)
GenerateQuestionRecommendation(w) ==
  /\ pc[w] = "read"
  /\ LET item == interviews[work[w].interview] IN
     IF item.candidate = work[w].item.candidate
     THEN /\ pc' = [pc EXCEPT ![w] = "generated"]
          /\ work' = [work EXCEPT ![w].item = item]
     ELSE /\ pc' = [pc EXCEPT ![w] = "refused"]
          /\ work' = [work EXCEPT ![w] = << >>]
  /\ UNCHANGED <<profileVars, interviewVars, bank, generations>>

Recommended(done) ==
  [candidate |-> done.item.candidate, round |-> done.item.round, jd |-> done.jd,
   questions |-> QuestionsFor(done.profile, done.jd)]

SaveQuestionRecommendation(w) ==
  /\ Step(w, "generated", "saved")
  /\ bank' = [i \in DOMAIN bank \cup {work[w].interview} |->
                IF i = work[w].interview THEN Recommended(work[w]) ELSE bank[i]]
  /\ work' = [work EXCEPT ![w] = << >>]
  /\ UNCHANGED <<profileVars, interviewVars, generations>>

Next == \/ \E c \in Candidates :
             (CreateCandidate(c) \/ \E text \in Texts : UpsertCandidate(c, text))
             /\ UNCHANGED <<interviewVars, bank, requestVars>>
        \/ \E i \in Interviews, assignment \in Assignment : SetInterview(i, assignment)
        \/ \E w \in Workers : \/ Look(w)
                              \/ GetCandidate(w)
                              \/ GenerateQuestionRecommendation(w)
                              \/ SaveQuestionRecommendation(w)

Spec == Init /\ [][Next]_vars
-----------------------------------------------------------------------------
(* A saved bank is for one candidate throughout: its candidate and round   *)
(* were those of the interview at one time, and its questions are built    *)
(* from one profile that this candidate had, although the interview and    *)
(* the profile are in two stores, read one after the other, and other      *)
(* requests save banks for the same interview.                             *)
BankOfOneMoment ==
  \A i \in DOMAIN bank :
    /\ [candidate |-> bank[i].candidate, round |-> bank[i].round] \in versions[i]
    /\ \E profile \in past[bank[i].candidate] :
         bank[i].questions = QuestionsFor(profile, bank[i].jd)

(* A saved bank asks about experience and about capability, whatever the   *)
(* profile and the job description leave out: each generator sees to it in *)
(* its own way.  (At most seven questions are made, so that the cut at     *)
(* eight, behind which a missing one would fall, takes none of them.)      *)
BankCovers ==
  \A i \in DOMAIN bank :
    /\ Has(bank[i].questions, "experience_follow_up")
    /\ Has(bank[i].questions, "capability_assessment")
=============================================================================
