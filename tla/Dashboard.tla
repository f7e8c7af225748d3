------------------------------ MODULE Dashboard ------------------------------
(***************************************************************************)
(* The interviewers' workload of the recruiting dashboard:                 *)
(* buildRecruitingDashboard (server/router.go) and BuildDashboard          *)
(* (analytics/service.go), composed with Evaluation.                       *)
(*                                                                         *)
(* The handler lists the candidates, then the interviews, then the latest  *)
(* evaluations of one candidate after the other, each read a critical      *)
(* section of its own, while interviews are created and changed and        *)
(* evaluations submitted.  The counts follow from what it has read.        *)
(*                                                                         *)
(* The funnel counts one list of candidates by their layer and the         *)
(* durations are arithmetic on times: both are left out.  All candidates   *)
(* are there from the start.                                               *)
(***************************************************************************)
EXTENDS Evaluation

CONSTANT MaxDashboards    \* bound on the number of dashboards

ASSUME DashboardAssumption == MaxDashboards \in Nat

VARIABLES
  created,     \* the interviews created so far
  step,        \* how far the dashboard is
  listed,      \* the interviews it has listed
  unread,      \* the candidates whose evaluations it has to read yet
  collected,   \* the evaluations it has read
  workload,    \* FeedbackCount per interviewer, of the one built
  dashboards,  \* number of dashboards asked for
  touched      \* history: (interview, interviewer) pairs evaluated since
               \* it began

readVars == <<step, listed, unread, collected, workload, dashboards>>
dashboardVars == <<vars, created, readVars, touched>>

DashboardInit ==
  /\ Init
  /\ created = {}
  /\ step = "idle"
  /\ listed = {}
  /\ unread = {}
  /\ collected = {}
  /\ workload = [p \in Interviewers |-> 0]
  /\ dashboards = 0
  /\ touched = {}
-----------------------------------------------------------------------------
(* The dashboard *)

ListCandidates ==
  /\ step = "idle"
  /\ dashboards < MaxDashboards
  /\ step' = "candidates"
  /\ unread' = Candidates
  /\ dashboards' = dashboards + 1
  /\ UNCHANGED <<vars, created, listed, collected, workload, touched>>

ListInterviews ==
  /\ step = "candidates"
  /\ listed' = created
  /\ step' = "reading"
  /\ UNCHANGED <<vars, created, unread, collected, workload, dashboards, touched>>

(* Mutant: evaluations are looked up by the interview's candidate. *)
LatestOfInterviewsOf(c) ==
  {e \in UNION {{archive[i][k] : k \in DOMAIN archive[i]} : i \in Interviews} :
     interviews[e.interview].candidate = c /\ e.isLatest}

LatestOf(c) ==
  {e \in UNION {{archive[i][k] : k \in DOMAIN archive[i]} : i \in Interviews} :
     e.candidate = c /\ e.isLatest}

(* The candidates are read in the order of their creation, which may be    *)
(* any.                                                                    *)
ReadEvaluations(c) ==
  /\ step = "reading"
  /\ c \in unread
  /\ collected' = collected \cup LatestOf(c)
  /\ unread' = unread \ {c}
  /\ UNCHANGED <<vars, created, step, listed, workload, dashboards, touched>>

(* Evaluations of interviews that are not in the list are left out. *)
Counted(p) == {e \in collected : e.interviewer = p /\ e.interview \in listed}

BuildDashboard ==
  /\ step = "reading"
  /\ unread = {}
  /\ workload' = [p \in Interviewers |-> Cardinality(Counted(p))]
  /\ step' = "built"
  /\ UNCHANGED <<vars, created, listed, unread, collected, dashboards, touched>>

Answer ==
  /\ step = "built"
  /\ step' = "idle"
  /\ listed' = {} /\ collected' = {} /\ touched' = {}
  /\ workload' = [p \in Interviewers |-> 0]
  /\ UNCHANGED <<vars, created, unread, dashboards>>
-----------------------------------------------------------------------------
(* What goes on meanwhile *)

CreateInterview(i) ==
  /\ i \notin created
  /\ created' = created \cup {i}
  /\ UNCHANGED <<vars, readVars, touched>>

Evaluate(w) ==
  /\ AddEvaluation(w)
  /\ touched' = IF step = "idle" THEN {}
                ELSE touched \cup {<<draft[w].interview, draft[w].interviewer>>}
  /\ UNCHANGED <<created, readVars>>

Meanwhile ==
  /\ \/ \E i \in created, a \in Assignment : UpdateInterview(i, a)
     \/ \E w \in Workers, i \in created, p \in Interviewers : BeginSubmit(w, i, p)
     \/ \E w \in Workers : RecordEvaluation(w)
  /\ UNCHANGED <<created, readVars, touched>>

DashboardNext ==
        \/ ListCandidates
        \/ ListInterviews
        \/ \E c \in Candidates : ReadEvaluations(c)
        \/ BuildDashboard
        \/ Answer
        \/ \E i \in Interviews : CreateInterview(i)
        \/ \E w \in Workers : Evaluate(w)
        \/ Meanwhile

DashboardSpec == DashboardInit /\ [][DashboardNext]_dashboardVars /\ Fairness
-----------------------------------------------------------------------------
Pair(i, p) == {e \in Counted(p) : e.interview = i}

(* Whatever is submitted and reassigned while the dashboard is built, an   *)
(* interviewer's latest evaluation of an interview counts, and once, if it *)
(* was there from the start and is not touched, and twice only if it was   *)
(* submitted again meanwhile for another candidate.  That earlier versions *)
(* do not count is what the code does; the formula the dashboard gives for *)
(* its metric is WorkloadIsCountOfEvaluations.                             *)
FeedbackCountedOnce ==
  step = "built" =>
    \A p \in Interviewers :
      /\ \A i \in Interviews :
           /\ <<i, p>> \notin touched =>
                Cardinality(Pair(i, p)) = IF EntriesOf(i, p) = {} THEN 0 ELSE 1
           /\ \A d, e \in Pair(i, p) : d # e => d.candidate # e.candidate
      /\ (\A i \in Interviews : <<i, p>> \notin touched) =>
           workload[p] = Cardinality({i \in Interviews : EntriesOf(i, p) # {}})

(* The formula of the metric interviewer_workload (README, and the         *)
(* MetricDefinitions of BuildDashboard): "count(evaluations where          *)
(* interviewer_id = x)", for a dashboard during which nothing is           *)
(* submitted.  It does not hold: only latest evaluations are collected, so *)
(* one that its interviewer modified counts once.                          *)
WorkloadIsCountOfEvaluations ==
  step = "built" /\ touched = {} =>
    \A p \in Interviewers :
      workload[p] = Cardinality(UNION {{i} \X EntriesOf(i, p) : i \in Interviews})
=============================================================================
