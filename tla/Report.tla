-------------------------------- MODULE Report --------------------------------
(***************************************************************************)
(* Interview reports of one candidate: the generateInterviewReport handler *)
(* (server/router.go), the view of the latest evaluations it starts from   *)
(* (interview/evaluation.go) and report.Service (report/service.go).       *)
(*                                                                         *)
(* The handler reads the candidate, then the view, and then generates the  *)
(* report; the candidate changes and evaluations are submitted in between. *)
(* A round is a name given by the users: its place among all names in the  *)
(* order of strings, and the number parseRoundNumber finds in it, 0 if     *)
(* there is none ("Round-2" comes before "final" and that before           *)
(* "round-1").  A profile stands for all that a report says of a           *)
(* candidate, the status layer included; scores and comments are left out  *)
(* of evaluations; the report id, a hash of the request, is the request    *)
(* itself.                                                                 *)
(***************************************************************************)
EXTENDS Naturals, SequencesExt, FiniteSets

CONSTANTS
  Interviews,      \* interview ids, in the order of strings
  Interviewers,    \* interviewer ids, in the order of strings
  Rounds,          \* the names of rounds
  Profiles,        \* what the candidate may be: name, contact, work, layer
  Users,           \* who generates reports, one request at a time each
  NoProfile,       \* the profile of a user who has read none
  MaxChanges,      \* bound on the number of changes of the profile
  MaxSubmissions,  \* bound on the number of evaluations submitted
  MaxReports       \* bound on the number of reports generated

Round == [place : Nat, number : Nat]
Evaluation == [interview : Interviews, interviewer : Interviewers,
               round : Rounds, submitted : Nat]

(* A GenerateRequest after normalizeRequest; also the report's id. *)
Request == [candidate : Profiles, evaluations : Seq(Evaluation), by : Users]
Stored == [candidate : Profiles, scores : Seq(Evaluation), by : Users, generated : Nat]

ASSUME ReportAssumption ==
  /\ Interviews \subseteq Nat
  /\ Interviewers \subseteq Nat
  /\ Rounds \subseteq Round
  /\ \A a, b \in Rounds : a.place = b.place => a = b
  /\ NoProfile \notin Profiles
  /\ MaxChanges \in Nat /\ MaxSubmissions \in Nat /\ MaxReports \in Nat

VARIABLES
  profile,    \* the candidate as stored
  changes,    \* number of changes of it
  latest,     \* the candidate's latest evaluations
  submitted,  \* number of evaluations submitted
  phase,      \* how far the request of each user is
  candidate,  \* the profile it read
  view,       \* the latest evaluations it read
  rounds,     \* the rounds of that view, in its order
  reports,    \* the stored reports, by id
  made        \* history: what each generation had before it, and its id

storeVars == <<profile, changes, latest, submitted>>
vars == <<storeVars, phase, candidate, view, rounds, reports, made>>

TypeOK ==
  /\ profile \in Profiles
  /\ changes \in Nat
  /\ latest \subseteq Evaluation
  /\ \A a, b \in latest :
       a.interview = b.interview /\ a.interviewer = b.interviewer => a = b
  /\ submitted \in Nat
  /\ phase \in [Users -> {"idle", "candidate", "view"}]
  /\ candidate \in [Users -> Profiles \cup {NoProfile}]
  /\ view \in [Users -> Seq(Evaluation)]
  /\ rounds \in [Users -> Seq(Rounds)]
  /\ \A id \in DOMAIN reports : id \in Request /\ reports[id] \in Stored
  /\ \A m \in made : m.evidence \subseteq Evaluation

Init ==
  /\ profile \in Profiles
  /\ changes = 0
  /\ latest = {}
  /\ submitted = 0
  /\ phase = [u \in Users |-> "idle"]
  /\ candidate = [u \in Users |-> NoProfile]
  /\ view = [u \in Users |-> << >>]
  /\ rounds = [u \in Users |-> << >>]
  /\ reports = [id \in {} |-> << >>]
  /\ made = {}
-----------------------------------------------------------------------------
(* Orders *)

(* Mutant: rounds are compared as strings. *)
Alphabetic(a, b) == a.place < b.place

(* compareRounds(a, b) < 0 *)
Before(a, b) ==
  IF a.number > 0 /\ b.number > 0 /\ a.number # b.number
  THEN a.number < b.number
  ELSE a.place < b.place

(* The comparison of normalizeRequest. *)
Less(a, b) ==
  IF a.round # b.round THEN Before(a.round, b.round)
  ELSE IF a.interview # b.interview THEN a.interview < b.interview
  ELSE IF a.interviewer # b.interviewer THEN a.interviewer < b.interviewer
  ELSE a.submitted < b.submitted

(* sort.Slice of up to 12 items, for a comparison given as a set of pairs: *)
(* each item moves to the left as long as it is less than its neighbour.   *)
Inserted(less, s, x) ==
  LET stops == {k \in DOMAIN s : <<x, s[k]>> \notin less}
      place == CHOOSE k \in stops \cup {0} : \A j \in stops : j <= k
  IN InsertAt(s, place + 1, x)

Sorted(less, s) ==
  LET sorted[n \in 0..Len(s)] ==
        IF n = 0 THEN << >> ELSE Inserted(less, sorted[n - 1], s[n])
  IN sorted[Len(s)]

(* The evaluations by the time of their submission. *)
NewestFirst(S) ==
  LET newer(e) == Cardinality({f \in S : f.submitted > e.submitted})
  IN [n \in 1..Cardinality(S) |-> CHOOSE e \in S : newer(e) = n - 1]
-----------------------------------------------------------------------------
(* The stores *)

(* A resume that is parsed, a layer set by hand, or an interview scheduled. *)
ChangeCandidate(p) ==
  /\ changes < MaxChanges
  /\ p # profile
  /\ profile' = p
  /\ changes' = changes + 1
  /\ UNCHANGED <<latest, submitted, phase, candidate, view, rounds, reports, made>>

(* Mutant: the interviewer's latest evaluation is looked up per round. *)
SubmitPerRound(i, p, round) ==
  /\ submitted < MaxSubmissions
  /\ latest' = {e \in latest : e.interview # i \/ e.interviewer # p \/ e.round # round}
                 \cup {[interview |-> i, interviewer |-> p, round |-> round,
                        submitted |-> submitted + 1]}
  /\ submitted' = submitted + 1
  /\ UNCHANGED <<profile, changes, phase, candidate, view, rounds, reports, made>>

(* The evaluation replaces the interviewer's latest of that interview. *)
Submit(i, p, round) ==
  /\ submitted < MaxSubmissions
  /\ latest' = {e \in latest : e.interview # i \/ e.interviewer # p}
                 \cup {[interview |-> i, interviewer |-> p, round |-> round,
                        submitted |-> submitted + 1]}
  /\ submitted' = submitted + 1
  /\ UNCHANGED <<profile, changes, phase, candidate, view, rounds, reports, made>>
-----------------------------------------------------------------------------
(* The request *)

GetCandidate(u) ==
  /\ phase[u] = "idle"
  /\ Cardinality(made) < MaxReports
  /\ candidate' = [candidate EXCEPT ![u] = profile]
  /\ phase' = [phase EXCEPT ![u] = "candidate"]
  /\ UNCHANGED <<storeVars, view, rounds, reports, made>>

(* Mutant: the evaluations are not sorted after the walk over the map. *)
ViewUnsorted(u) ==
  /\ phase[u] = "candidate" /\ latest # {}
  /\ \E order \in SetToSeqs(latest) : view' = [view EXCEPT ![u] = order]
  /\ rounds' = [rounds EXCEPT ![u] = << >>]
  /\ phase' = [phase EXCEPT ![u] = "view"]
  /\ UNCHANGED <<storeVars, candidate, reports, made>>

(* The evaluations newest first, and their rounds, which come out of a map *)
(* in any order and are sorted then.                                       *)
BuildCandidateLatestEvaluationsView(u) ==
  /\ phase[u] = "candidate" /\ latest # {}
  /\ view' = [view EXCEPT ![u] = NewestFirst(latest)]
  /\ \E order \in SetToSeqs({e.round : e \in latest}) :
       rounds' = [rounds EXCEPT ![u] = Sorted({pair \in Rounds \X Rounds : Before(pair[1], pair[2])}, order)]
  /\ phase' = [phase EXCEPT ![u] = "view"]
  /\ UNCHANGED <<storeVars, candidate, reports, made>>

(* The answer is 400. *)
NothingToReport(u) ==
  /\ phase[u] = "candidate" /\ latest = {}
  /\ phase' = [phase EXCEPT ![u] = "idle"]
  /\ candidate' = [candidate EXCEPT ![u] = NoProfile]
  /\ UNCHANGED <<storeVars, view, rounds, reports, made>>

normalizeRequest(u) ==
  LET seen == Range(view[u])
  IN [candidate |-> candidate[u],
      evaluations |-> Sorted({pair \in seen \X seen : Less(pair[1], pair[2])}, view[u]),
      by |-> u]

(* Mutant: who generates a report does not count for its id. *)
IdOfAnybody(request) == [request EXCEPT !.by = CHOOSE u \in Users : TRUE]

deterministicReportID(request) == request

Latest(times) == CHOOSE t \in times : \A s \in times : s <= t

Generate(u) ==
  LET request == normalizeRequest(u)
      id == deterministicReportID(request)
      report == [candidate |-> candidate[u], scores |-> request.evaluations, by |-> u,
                 generated |-> Latest({e.submitted : e \in Range(view[u])})]
  IN /\ phase[u] = "view"
     /\ reports' = [k \in DOMAIN reports \cup {id} |-> IF k = id THEN report ELSE reports[k]]
     /\ made' = made \cup {[evidence |-> Range(view[u]), candidate |-> candidate[u],
                           by |-> u, id |-> id]}
     /\ phase' = [phase EXCEPT ![u] = "idle"]
     /\ candidate' = [candidate EXCEPT ![u] = NoProfile]
     /\ view' = [view EXCEPT ![u] = << >>]
     /\ rounds' = [rounds EXCEPT ![u] = << >>]
     /\ UNCHANGED storeVars

Next == \/ \E p \in Profiles : ChangeCandidate(p)
        \/ \E i \in Interviews, p \in Interviewers, r \in Rounds : Submit(i, p, r)
        \/ \E u \in Users : \/ GetCandidate(u)
                            \/ BuildCandidateLatestEvaluationsView(u)
                            \/ NothingToReport(u)
                            \/ Generate(u)

Spec == Init /\ [][Next]_vars
-----------------------------------------------------------------------------
(* A report that was handed out under an id is never another one later     *)
(* under the same id, whoever generates and exports reports meanwhile.     *)
ReportsNeverChange ==
  [][\A id \in DOMAIN reports : id \in DOMAIN reports' /\ reports'[id] = reports[id]]_vars

(* Generating again from the same evaluations, for the same user and with  *)
(* the same profile, gives the same report id and the same order of        *)
(* scores, even if the names of the rounds cannot be ordered (README,      *)
(* reports: "Deterministic report ID and stable score ordering on repeated *)
(* generation"); whatever the profile was in between.  With another        *)
(* profile, a change of the status layer included, the id is another one.  *)
RepeatedGenerationIsStable ==
  \A m, n \in made :
    m.evidence = n.evidence /\ m.by = n.by =>
      (m.id = n.id <=> m.candidate = n.candidate)

(* Round a belongs before round b: by their numbers, and by name if one of *)
(* them has none or they are the same.                                     *)
Precedes(a, b) ==
  \/ a.number > 0 /\ b.number > 0 /\ a.number < b.number
  \/ (a.number = 0 \/ b.number = 0 \/ a.number = b.number) /\ a.place < b.place

(* Names among which this is an order: "Round-2" comes before "final" and  *)
(* that before "round-1", but round 1 before round 2.                      *)
Orderable(names) ==
  \A a, b, c \in names : Precedes(a, b) /\ Precedes(b, c) => Precedes(a, c)

InOrder(s) == \A j, k \in DOMAIN s : j < k => ~Precedes(s[k], s[j])

RoundsOf(report) == [k \in DOMAIN report.scores |-> report.scores[k].round]

(* The scores of a report and the rounds of the view stand in the order of *)
(* rounds, second before tenth, as long as the names of the rounds can be  *)
(* ordered at all.                                                         *)
RoundsInOrder ==
  /\ \A id \in DOMAIN reports :
       Orderable(Range(RoundsOf(reports[id]))) => InOrder(RoundsOf(reports[id]))
  /\ \A u \in Users : Orderable(Range(rounds[u])) => InOrder(rounds[u])
=============================================================================
