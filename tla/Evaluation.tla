----------------------------- MODULE Evaluation -----------------------------
(***************************************************************************)
(* Structured evaluations: POST /interviews/:id/evaluations                *)
(* (server/router.go), Service.SubmitEvaluation (interview/evaluation.go), *)
(* the versioned archive of interview.MemoryRepository and the audit log   *)
(* (audit/repository.go).                                                  *)
(*                                                                         *)
(* A submission reads the interview, checks the interviewer against that   *)
(* copy, stores the evaluation in a second critical section and records it *)
(* in the audit log in a third.  Meanwhile interviews are given to other   *)
(* candidates and interviewers by PATCH /interviews/:id, whose effect here *)
(* is one write of the interview record.                                   *)
(*                                                                         *)
(* Submissions with a bad template, score, comment or conclusion, or by    *)
(* somebody not assigned, are answered 4xx and change nothing.             *)
(***************************************************************************)
EXTENDS Naturals, Sequences, FiniteSets

CONSTANTS
  Interviews,      \* ids of the interviews stored
  Candidates,
  Interviewers,
  Rounds,
  Workers,         \* request goroutines
  MaxSubmissions,  \* bound on the number of submissions
  MaxUpdates,      \* bound on the number of interview updates
  Nothing          \* the record of a worker that has none

Assignment == [candidate : Candidates, round : Rounds, interviewers : SUBSET Interviewers]

ArchiveEntry == [id : Nat, interview : Interviews, interviewer : Interviewers,
                 candidate : Candidates, round : Rounds,
                 version : Nat, isLatest : BOOLEAN]

Actions == {"interview.evaluation.submit", "interview.evaluation.modify"}
AuditEvent == [action : Actions, object : Nat, interview : Interviews,
               operator : Interviewers, version : Nat]

ASSUME EvaluationAssumption ==
  /\ MaxSubmissions \in Nat
  /\ MaxUpdates \in Nat
  /\ Nothing \notin ArchiveEntry

VARIABLES
  interviews,      \* the interview records, as far as evaluations need them
  archive,         \* evaluationArchive, per interview
  nextEvaluation,
  events,          \* the events of audit.MemoryRepository
  phase,           \* how far the submission of each worker is
  draft,           \* the evaluation it works on
  submissions, updates,
  versions,        \* history: the records an interview ever had
  overlapped       \* history: (interview, interviewer) pairs for which two
                   \* submissions overlapped

vars == <<interviews, archive, nextEvaluation, events, phase, draft,
          submissions, updates, versions, overlapped>>

Phases == {"idle", "checked", "archived"}

TypeOK ==
  /\ interviews \in [Interviews -> Assignment]
  /\ archive \in [Interviews -> Seq(ArchiveEntry)]
  /\ nextEvaluation \in Nat
  /\ events \in Seq(AuditEvent)
  /\ phase \in [Workers -> Phases]
  /\ draft \in [Workers -> ArchiveEntry \cup {Nothing}]
  /\ submissions \in Nat
  /\ updates \in Nat
  /\ versions \in [Interviews -> SUBSET Assignment]
  /\ overlapped \subseteq Interviews \X Interviewers

Init ==
  /\ interviews \in [Interviews -> {a \in Assignment : a.interviewers # {}}]
  /\ archive = [i \in Interviews |-> << >>]
  /\ nextEvaluation = 0
  /\ events = << >>
  /\ phase = [w \in Workers |-> "idle"]
  /\ draft = [w \in Workers |-> Nothing]
  /\ submissions = 0
  /\ updates = 0
  /\ versions = [i \in Interviews |-> {interviews[i]}]
  /\ overlapped = {}
-----------------------------------------------------------------------------
(* The interview's candidate, round or interviewers are changed; a PATCH   *)
(* that leaves them as they are changes nothing here.                      *)
UpdateInterview(i, assignment) ==
  /\ updates < MaxUpdates
  /\ assignment # interviews[i]
  /\ assignment.interviewers # {}
  /\ interviews' = [interviews EXCEPT ![i] = assignment]
  /\ versions' = [versions EXCEPT ![i] = @ \cup {assignment}]
  /\ updates' = updates + 1
  /\ UNCHANGED <<archive, nextEvaluation, events, phase, draft, submissions, overlapped>>

InFlight(i, p) ==
  \E v \in Workers : phase[v] # "idle" /\ draft[v].interview = i /\ draft[v].interviewer = p

(* GetInterview and the check of the interviewer on the copy it returned.  *)
BeginSubmit(w, i, p) ==
  /\ phase[w] = "idle"
  /\ submissions < MaxSubmissions
  /\ p \in interviews[i].interviewers
  /\ phase' = [phase EXCEPT ![w] = "checked"]
  /\ draft' = [draft EXCEPT ![w] =
                 [id |-> 0, interview |-> i, interviewer |-> p,
                  candidate |-> interviews[i].candidate, round |-> interviews[i].round,
                  version |-> 0, isLatest |-> FALSE]]
  /\ submissions' = submissions + 1
  /\ overlapped' = overlapped \cup (IF InFlight(i, p) THEN {<<i, p>>} ELSE {})
  /\ UNCHANGED <<interviews, archive, nextEvaluation, events, updates, versions>>

EntriesOf(i, p) == {k \in DOMAIN archive[i] : archive[i][k].interviewer = p}

(* Mutant: the previous evaluations stay the latest. *)
NotSuperseded(i, p) == archive[i]

(* The previous evaluations of the interviewer are archived and counted,   *)
(* and the new one becomes the latest, in one critical section.            *)
Superseded(i, p) ==
  [k \in DOMAIN archive[i] |->
     IF k \in EntriesOf(i, p) THEN [archive[i][k] EXCEPT !.isLatest = FALSE]
     ELSE archive[i][k]]

(* Mutants: the candidate is read again from the interview; only latest    *)
(* evaluations are counted for the version.                                *)
StoredForCandidateOfNow(evaluation) ==
  [evaluation EXCEPT
     !.id = nextEvaluation + 1,
     !.candidate = interviews[evaluation.interview].candidate,
     !.version = Cardinality(EntriesOf(evaluation.interview, evaluation.interviewer)) + 1,
     !.isLatest = TRUE]
StoredCountingLatest(evaluation) ==
  [evaluation EXCEPT
     !.id = nextEvaluation + 1,
     !.version = Cardinality({k \in EntriesOf(evaluation.interview, evaluation.interviewer) :
                                archive[evaluation.interview][k].isLatest}) + 1,
     !.isLatest = TRUE]

Stored(evaluation) ==
  [evaluation EXCEPT
     !.id = nextEvaluation + 1,
     !.version = Cardinality(EntriesOf(evaluation.interview, evaluation.interviewer)) + 1,
     !.isLatest = TRUE]

AddEvaluation(w) ==
  LET i == draft[w].interview
      stored == Stored(draft[w])
  IN /\ phase[w] = "checked"
     /\ archive' = [archive EXCEPT ![i] =
                      Append(Superseded(i, draft[w].interviewer), stored)]
     /\ nextEvaluation' = nextEvaluation + 1
     /\ draft' = [draft EXCEPT ![w] = stored]
     /\ phase' = [phase EXCEPT ![w] = "archived"]
     /\ UNCHANGED <<interviews, events, submissions, updates, versions, overlapped>>

(* Mutant: a first evaluation is a modification too. *)
AlwaysModify(version) == "interview.evaluation.modify"

ActionOf(version) ==
  IF version > 1 THEN "interview.evaluation.modify" ELSE "interview.evaluation.submit"

(* Mutant: only the first evaluation is recorded. *)
RecordFirst(w) ==
  /\ phase[w] = "archived"
  /\ events' = IF draft[w].version > 1 THEN events
               ELSE Append(events,
                      [action |-> ActionOf(draft[w].version), object |-> draft[w].id,
                       interview |-> draft[w].interview,
                       operator |-> draft[w].interviewer, version |-> draft[w].version])
  /\ phase' = [phase EXCEPT ![w] = "idle"]
  /\ draft' = [draft EXCEPT ![w] = Nothing]
  /\ UNCHANGED <<interviews, archive, nextEvaluation, submissions, updates, versions, overlapped>>

(* The handler records the evaluation it was returned. *)
RecordEvaluation(w) ==
  /\ phase[w] = "archived"
  /\ events' = Append(events,
       [action |-> ActionOf(draft[w].version), object |-> draft[w].id,
        interview |-> draft[w].interview,
        operator |-> draft[w].interviewer, version |-> draft[w].version])
  /\ phase' = [phase EXCEPT ![w] = "idle"]
  /\ draft' = [draft EXCEPT ![w] = Nothing]
  /\ UNCHANGED <<interviews, archive, nextEvaluation, submissions, updates, versions, overlapped>>

Next == \/ \E i \in Interviews, a \in Assignment : UpdateInterview(i, a)
        \/ \E w \in Workers, i \in Interviews, p \in Interviewers : BeginSubmit(w, i, p)
        \/ \E w \in Workers : AddEvaluation(w) \/ RecordEvaluation(w)

Fairness == \A w \in Workers : WF_vars(AddEvaluation(w) \/ RecordEvaluation(w))

Spec == Init /\ [][Next]_vars /\ Fairness
-----------------------------------------------------------------------------
(* The evaluations of an interviewer on an interview are versions 1, 2, 3  *)
(* ... in the order they were stored, the last of them and no other is     *)
(* the latest, however submissions interleave (README, Structured          *)
(* interview evaluation: "Stores versioned evaluation archives per         *)
(* interviewer/interview and marks latest records").                       *)
VersionsInOrder ==
  \A i \in Interviews : \A k \in DOMAIN archive[i] :
    LET p == archive[i][k].interviewer
        earlier == {j \in EntriesOf(i, p) : j < k}
    IN /\ archive[i][k].version = Cardinality(earlier) + 1
       /\ archive[i][k].isLatest <=> \A j \in EntriesOf(i, p) : j <= k

(* Candidate, round and interviewer of an archived evaluation stood        *)
(* together in one version of the interview: never the candidate of one    *)
(* version and the assignment of another, although the interview may have  *)
(* changed between the check and the archive.                              *)
OneVersionOfInterview ==
  \A i \in Interviews : \A k \in DOMAIN archive[i] :
    \E a \in versions[i] :
      /\ archive[i][k].candidate = a.candidate
      /\ archive[i][k].round = a.round
      /\ archive[i][k].interviewer \in a.interviewers

(* Every archived evaluation has one audit event, with the action its      *)
(* version calls for, or the request that archived it is about to record   *)
(* it; no event tells of an evaluation that was not archived.              *)
EventsOf(id) == {n \in DOMAIN events : events[n].object = id}

AuditMatchesArchive ==
  /\ \A i \in Interviews : \A k \in DOMAIN archive[i] :
       LET e == archive[i][k] IN
       \/ \E n \in DOMAIN events :
            /\ EventsOf(e.id) = {n}
            /\ events[n].version = e.version
            /\ events[n].operator = e.interviewer
            /\ events[n].action = "interview.evaluation.submit" <=> e.version = 1
       \/ /\ EventsOf(e.id) = {}
          /\ \E w \in Workers : phase[w] = "archived" /\ draft[w].id = e.id
  /\ \A n \in DOMAIN events :
       \E k \in DOMAIN archive[events[n].interview] :
         archive[events[n].interview][k].id = events[n].object

(* The audit log tells the versions of an interviewer in order, unless two *)
(* of the submissions overlapped: the archive and the log are two critical *)
(* sections.                                                               *)
AuditInVersionOrder ==
  \A m, n \in DOMAIN events :
    /\ m < n
    /\ events[m].interview = events[n].interview
    /\ events[m].operator = events[n].operator
    /\ <<events[m].interview, events[m].operator>> \notin overlapped
    => events[m].version < events[n].version

History == INSTANCE EvaluationHistory
             WITH Assignments <- Assignment, MaxEvaluations <- MaxSubmissions,
                  had <- versions, lastId <- nextEvaluation, audited <- events

(* Seen from outside, evaluations are EvaluationHistory: each is archived  *)
(* in one step that tells all versions anew from their order, for one      *)
(* assignment the interview had, and enters the audit log once, whatever   *)
(* submissions and reassignments interleave with the steps of a request.   *)
HistorySpec == History!Spec
=============================================================================
