------------------------- MODULE EvaluationHistory -------------------------
(***************************************************************************)
(* What the archive of evaluations promises, without requests, drafts and  *)
(* interleavings: an evaluation is made for an assignment the interview    *)
(* had, versions follow from the order of the archive, and every           *)
(* evaluation enters the audit log, once.                                  *)
(***************************************************************************)
EXTENDS Naturals, Sequences, FiniteSets

CONSTANTS
  Interviews,     \* the interviews, each with an archive
  Assignments,    \* candidate, round and interviewers an interview may have
  MaxEvaluations  \* bound on the number of evaluations

VARIABLES
  had,      \* had[i]: the assignments interview i ever had
  archive,  \* archive[i]: the evaluations of interview i
  lastId,   \* the number of evaluations archived
  audited   \* the audit log

historyVars == <<had, archive, lastId, audited>>

Init == /\ had \in [Interviews -> {{a} : a \in Assignments}]
        /\ archive = [i \in Interviews |-> << >>]
        /\ lastId = 0
        /\ audited = << >>

Reassign(i, a) ==
  /\ had' = [had EXCEPT ![i] = @ \cup {a}]
  /\ UNCHANGED <<archive, lastId, audited>>

(* The versions of an interviewer are numbered in the order of the list,   *)
(* and the last of them is the latest.                                     *)
Told(list) ==
  [k \in DOMAIN list |->
     LET versions == {j \in DOMAIN list : list[j].interviewer = list[k].interviewer}
     IN [list[k] EXCEPT !.version = Cardinality({j \in versions : j <= k}),
                        !.isLatest = \A j \in versions : j <= k]]

(* One of the interviewers of an assignment evaluates its candidate. *)
Submit(i, a, p) ==
  /\ a \in had[i]
  /\ p \in a.interviewers
  /\ archive' = [archive EXCEPT ![i] = Told(Append(@,
                   [id |-> lastId + 1, interview |-> i, interviewer |-> p,
                    candidate |-> a.candidate, round |-> a.round,
                    version |-> 0, isLatest |-> FALSE]))]
  /\ lastId' = lastId + 1
  /\ UNCHANGED <<had, audited>>

Event(e) ==
  [action |-> IF e.version = 1 THEN "interview.evaluation.submit"
              ELSE "interview.evaluation.modify",
   object |-> e.id, interview |-> e.interview,
   operator |-> e.interviewer, version |-> e.version]

(* An evaluation that the log does not tell of enters it. *)
Audit(id) ==
  /\ \A n \in DOMAIN audited : audited[n].object # id
  /\ \E i \in Interviews : \E k \in DOMAIN archive[i] :
       /\ archive[i][k].id = id
       /\ audited' = Append(audited, Event(archive[i][k]))
  /\ UNCHANGED <<had, archive, lastId>>

Next == \/ \E i \in Interviews, a \in Assignments :
             Reassign(i, a) \/ \E p \in a.interviewers : Submit(i, a, p)
        \/ \E id \in 1..lastId : Audit(id)

Safety == Init /\ [][Next]_historyVars

Spec == /\ Safety
        /\ \A id \in 1..MaxEvaluations : WF_audited(Audit(id))
=============================================================================
