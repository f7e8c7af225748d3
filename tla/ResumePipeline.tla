--------------------------- MODULE ResumePipeline ---------------------------
(***************************************************************************)
(* Uploading, parsing, retrying and deleting resumes: resume.Service       *)
(* (service.go), resume.MemoryRepository, LocalStorage and the handlers of *)
(* server/router.go for /resumes, with the audit of deletions.             *)
(*                                                                         *)
(* The records are in memory and the files on disk; a request touches them *)
(* one call at a time, so requests on one resume interleave.  A record is  *)
(* always stored as a whole from the copy the request carries.             *)
(*                                                                         *)
(* A batch upload is one Upload after the other, each independent of the   *)
(* outcome of the previous one: the same worker simply begins again.       *)
(***************************************************************************)
EXTENDS Naturals, Sequences, FiniteSets

CONSTANTS
  Workers,              \* request goroutines
  MaxUploads,           \* bound on the number of uploads
  MaxCalls,             \* bound on the number of retries and deletions
  MaxManualCandidates,  \* bound on the number of candidates entered by hand
  NoRecord              \* the record of a worker that has none

\* Core fields are found in a "good" file and not in a "bad" one.
Contents == {"good", "bad"}

ParseStatus == {"pending", "processing", "success", "failed"}

\* supported: the file name has a supported extension; candidate: its number,
\* 0 for none
Record == [id : Nat, path : Nat, supported : BOOLEAN,
           status : ParseStatus, candidate : Nat]

ASSUME ResumeAssumption ==
  /\ MaxUploads \in Nat
  /\ MaxCalls \in Nat
  /\ MaxManualCandidates \in Nat
  /\ NoRecord \notin Record

VARIABLES
  resumes,        \* id -> Record, the records stored
  nextResumeSeq,
  candidates,     \* candidates[c]: SourceResumeID of the c-th candidate made
  origin,         \* history: the resume the c-th candidate was created for,
                  \* 0 if entered by hand
  files,          \* path -> content, the files on disk
  nextPath,       \* number of files ever created
  leftovers,      \* history: the files of uploads that broke off
  events,         \* the object ids of the resume.delete audit events
  phase,          \* how far the request of each worker is
  record,         \* the copy it carries
  calls,          \* number of retries and deletions begun
  deleted,        \* history: the resumes the repository deleted
  overlapped      \* history: the resumes two requests worked on at a time

repoVars == <<resumes, nextResumeSeq, candidates, origin>>
diskVars == <<files, nextPath, leftovers>>
vars == <<resumes, nextResumeSeq, candidates, origin, files, nextPath, leftovers,
          events, phase, record, calls, deleted, overlapped>>

Parsing == {"unsupported", "ready", "parsing", "readable", "unreadable", "upserted"}
Phases == {"idle", "saving", "found", "removed", "deleted"} \cup Parsing

TypeOK ==
  /\ DOMAIN resumes \subseteq 1..nextResumeSeq
  /\ \A id \in DOMAIN resumes : resumes[id] \in Record /\ resumes[id].id = id
  /\ nextResumeSeq \in Nat
  /\ candidates \in Seq(Nat)
  /\ origin \in Seq(Nat)
  /\ DOMAIN files \subseteq 1..nextPath
  /\ \A path \in DOMAIN files : files[path] \in Contents
  /\ nextPath \in Nat
  /\ leftovers \subseteq 1..nextPath
  /\ events \in Seq(Nat)
  /\ phase \in [Workers -> Phases]
  /\ record \in [Workers -> Record \cup {NoRecord}]
  /\ calls \in Nat
  /\ deleted \subseteq Nat
  /\ overlapped \subseteq Nat

Init ==
  /\ resumes = << >>
  /\ nextResumeSeq = 0
  /\ candidates = << >>
  /\ origin = << >>
  /\ files = << >>
  /\ nextPath = 0
  /\ leftovers = {}
  /\ events = << >>
  /\ phase = [w \in Workers |-> "idle"]
  /\ record = [w \in Workers |-> NoRecord]
  /\ calls = 0
  /\ deleted = {}
  /\ overlapped = {}
-----------------------------------------------------------------------------
(* A function with one entry put in, and with one taken out. *)
With(f, x, y) == [k \in DOMAIN f \cup {x} |-> IF k = x THEN y ELSE f[k]]
Without(f, x) == [k \in DOMAIN f \ {x} |-> f[k]]

InFlight(id) == \E v \in Workers : phase[v] # "idle" /\ record[v].id = id

Carry(w, step, copy) ==
  /\ phase' = [phase EXCEPT ![w] = step]
  /\ record' = [record EXCEPT ![w] = copy]

Done(w) == Carry(w, "idle", NoRecord)

(* The repository stores the copy, whether or not it has a record with     *)
(* that id.                                                                *)
UpdateResume(copy) == resumes' = With(resumes, copy.id, copy)
-----------------------------------------------------------------------------
(* Upload *)

(* LocalStorage.Save creates a file under a fresh name.  The form may name *)
(* a candidate, stored or not.                                             *)
BeginUpload(w) ==
  /\ phase[w] = "idle"
  /\ nextPath < MaxUploads
  /\ nextPath' = nextPath + 1
  /\ files' = With(files, nextPath + 1, "bad")
  /\ \E supported \in BOOLEAN, c \in 0..(Len(candidates) + 1) :
       Carry(w, "saving", [id |-> 0, path |-> nextPath + 1, supported |-> supported,
                           status |-> "pending", candidate |-> c])
  /\ UNCHANGED <<repoVars, leftovers, events, calls, deleted, overlapped>>

(* The copy into the file breaks off: an error is answered, the file stays *)
(* behind.                                                                 *)
SaveFails(w) ==
  /\ phase[w] = "saving"
  /\ leftovers' = leftovers \cup {record[w].path}
  /\ Done(w)
  /\ UNCHANGED <<repoVars, files, nextPath, events, calls, deleted, overlapped>>

(* The file is complete and the record is made. *)
CreateResume(w) ==
  LET created == [record[w] EXCEPT !.id = nextResumeSeq + 1] IN
  /\ phase[w] = "saving"
  /\ \E content \in Contents : files' = With(files, record[w].path, content)
  /\ nextResumeSeq' = nextResumeSeq + 1
  /\ resumes' = With(resumes, created.id, created)
  /\ Carry(w, IF created.supported THEN "ready" ELSE "unsupported", created)
  /\ UNCHANGED <<candidates, origin, nextPath, leftovers, events, calls, deleted, overlapped>>

RejectUnsupported(w) ==
  /\ phase[w] = "unsupported"
  /\ UpdateResume([record[w] EXCEPT !.status = "failed"])
  /\ Done(w)
  /\ UNCHANGED <<nextResumeSeq, candidates, origin, diskVars, events, calls, deleted, overlapped>>
-----------------------------------------------------------------------------
(* Retry, and parseAndPersist for uploads and retries *)

BeginCall(w, id, step) ==
  /\ phase[w] = "idle"
  /\ calls < MaxCalls
  /\ calls' = calls + 1
  /\ Carry(w, step, resumes[id])
  /\ overlapped' = overlapped \cup (IF InFlight(id) THEN {id} ELSE {})
  /\ UNCHANGED <<repoVars, diskVars, events, deleted>>

(* Only a failed resume is retried. *)
BeginRetry(w, id) == resumes[id].status = "failed" /\ BeginCall(w, id, "ready")

StartParsing(w) ==
  LET processing == [record[w] EXCEPT !.status = "processing"] IN
  /\ phase[w] = "ready"
  /\ UpdateResume(processing)
  /\ Carry(w, "parsing", processing)
  /\ UNCHANGED <<nextResumeSeq, candidates, origin, diskVars, events, calls, deleted, overlapped>>

(* HeuristicParser.Parse reads the file, if it is still there. *)
Readable(rec) ==
  rec.supported /\ rec.path \in DOMAIN files /\ files[rec.path] = "good"

Parse(w) ==
  /\ phase[w] = "parsing"
  /\ Carry(w, IF Readable(record[w]) THEN "readable" ELSE "unreadable", record[w])
  /\ UNCHANGED <<repoVars, diskVars, events, calls, deleted, overlapped>>

(* Mutant: the failure is not stored. *)
ParseFailedUnnoticed(w) ==
  /\ phase[w] = "unreadable"
  /\ Done(w)
  /\ UNCHANGED <<repoVars, diskVars, events, calls, deleted, overlapped>>

(* Mutant: what cannot be read is read again, until somebody repairs it. *)
ParseAgain(w) ==
  /\ phase[w] = "unreadable"
  /\ Carry(w, "parsing", record[w])
  /\ UNCHANGED <<repoVars, diskVars, events, calls, deleted, overlapped>>

ParseFailed(w) ==
  /\ phase[w] = "unreadable"
  /\ UpdateResume([record[w] EXCEPT !.status = "failed"])
  /\ Done(w)
  /\ UNCHANGED <<nextResumeSeq, candidates, origin, diskVars, events, calls, deleted, overlapped>>

(* Mutant: the resume keeps the unknown candidate its upload named. *)
UpsertKeepingName(w) ==
  LET rec == record[w]
      known == rec.candidate \in DOMAIN candidates
  IN /\ phase[w] = "readable"
     /\ candidates' = IF known THEN [candidates EXCEPT ![rec.candidate] = rec.id]
                      ELSE candidates
     /\ Carry(w, "upserted", rec)
     /\ UNCHANGED <<resumes, nextResumeSeq, origin, diskVars, events, calls, deleted, overlapped>>

(* The candidate the record names is updated; if there is none of that     *)
(* name, a new one is made.                                                *)
UpsertCandidate(w) ==
  LET rec == record[w]
      known == rec.candidate \in DOMAIN candidates
  IN /\ phase[w] = "readable"
     /\ candidates' = IF known THEN [candidates EXCEPT ![rec.candidate] = rec.id]
                      ELSE Append(candidates, rec.id)
     /\ origin' = IF known THEN origin ELSE Append(origin, rec.id)
     /\ Carry(w, "upserted",
              [rec EXCEPT !.candidate = IF known THEN @ ELSE Len(candidates) + 1])
     /\ UNCHANGED <<resumes, nextResumeSeq, diskVars, events, calls, deleted, overlapped>>

ParseSucceeded(w) ==
  /\ phase[w] = "upserted"
  /\ UpdateResume([record[w] EXCEPT !.status = "success"])
  /\ Done(w)
  /\ UNCHANGED <<nextResumeSeq, candidates, origin, diskVars, events, calls, deleted, overlapped>>

CreateCandidate ==
  /\ Cardinality({c \in DOMAIN origin : origin[c] = 0}) < MaxManualCandidates
  /\ candidates' = Append(candidates, 0)
  /\ origin' = Append(origin, 0)
  /\ UNCHANGED <<resumes, nextResumeSeq, diskVars, events, phase, record, calls, deleted, overlapped>>
-----------------------------------------------------------------------------
(* Delete: first the file, then the record, then the audit event *)

BeginDelete(w, id) == BeginCall(w, id, "found")

RemoveFile(w) ==
  /\ phase[w] = "found"
  /\ files' = Without(files, record[w].path)
  /\ Carry(w, "removed", record[w])
  /\ UNCHANGED <<repoVars, nextPath, leftovers, events, calls, deleted, overlapped>>

(* Mutant: the error of the removal is ignored. *)
RemoveFailsUnnoticed(w) ==
  /\ phase[w] = "found"
  /\ Carry(w, "removed", record[w])
  /\ UNCHANGED <<repoVars, diskVars, events, calls, deleted, overlapped>>

(* os.Remove fails for another reason than a missing file: answered 500. *)
RemoveFails(w) ==
  /\ phase[w] = "found"
  /\ Done(w)
  /\ UNCHANGED <<repoVars, diskVars, events, calls, deleted, overlapped>>

(* Mutant: the record stays. *)
DeleteNothing(w) ==
  /\ phase[w] = "removed"
  /\ deleted' = deleted \cup {record[w].id}
  /\ Carry(w, "deleted", record[w])
  /\ UNCHANGED <<repoVars, diskVars, events, calls, overlapped>>

DeleteResume(w) ==
  /\ phase[w] = "removed"
  /\ \/ /\ record[w].id \in DOMAIN resumes
        /\ resumes' = Without(resumes, record[w].id)
        /\ deleted' = deleted \cup {record[w].id}
        /\ Carry(w, "deleted", record[w])
     \/ /\ record[w].id \notin DOMAIN resumes
        /\ Done(w)
        /\ UNCHANGED <<resumes, deleted>>
  /\ UNCHANGED <<nextResumeSeq, candidates, origin, diskVars, events, calls, overlapped>>

RecordDelete(w) ==
  /\ phase[w] = "deleted"
  /\ events' = Append(events, record[w].id)
  /\ Done(w)
  /\ UNCHANGED <<repoVars, diskVars, calls, deleted, overlapped>>
-----------------------------------------------------------------------------
(* Somebody repairs a stored file in place, which is what makes a retry    *)
(* succeed (TestRetryFailedResume does it).                                *)
RepairFile(path) ==
  /\ files[path] = "bad"
  /\ path \notin {record[w].path : w \in {v \in Workers : phase[v] = "saving"}} \cup leftovers
  /\ files' = [files EXCEPT ![path] = "good"]
  /\ UNCHANGED <<repoVars, nextPath, leftovers, events, phase, record, calls, deleted, overlapped>>

Proceed(w) == \/ CreateResume(w) \/ RejectUnsupported(w)
              \/ StartParsing(w) \/ Parse(w) \/ ParseFailed(w)
              \/ UpsertCandidate(w) \/ ParseSucceeded(w)
              \/ RemoveFile(w) \/ DeleteResume(w) \/ RecordDelete(w)

Next == \/ \E w \in Workers : \/ BeginUpload(w) \/ SaveFails(w) \/ RemoveFails(w)
                              \/ Proceed(w)
                              \/ \E id \in DOMAIN resumes : BeginRetry(w, id) \/ BeginDelete(w, id)
        \/ CreateCandidate
        \/ \E path \in DOMAIN files : RepairFile(path)

(* A request that was taken runs on. *)
Fairness == \A w \in Workers : WF_vars(Proceed(w))

Spec == Init /\ [][Next]_vars /\ Fairness
-----------------------------------------------------------------------------
(* A resume with status success names a stored candidate, whatever         *)
(* candidate the upload named and however requests interleave.             *)
SuccessHasCandidate ==
  \A id \in DOMAIN resumes :
    resumes[id].status = "success" => resumes[id].candidate \in DOMAIN candidates

(* No resume is left "pending" or "processing" by requests that are gone:  *)
(* one that shows such a status is in the hands of a request.              *)
UnfinishedIsInHand ==
  \A id \in DOMAIN resumes :
    resumes[id].status \in {"pending", "processing"}
      => \E w \in Workers : phase[w] \in Parsing /\ record[w].id = id

(* Every file on disk belongs to a stored resume, to an upload still being *)
(* saved, or to an upload that broke off: deleting the file before the     *)
(* record leaves no file behind, even when the removal fails or requests   *)
(* overlap.                                                                *)
NoStrayFiles ==
  \A path \in DOMAIN files :
    \/ path \in leftovers
    \/ \E id \in DOMAIN resumes : resumes[id].path = path
    \/ \E w \in Workers : phase[w] = "saving" /\ record[w].path = path

(* As long as no two requests worked on a resume at a time: it has its     *)
(* file until a deletion removes both, it made one candidate at most, a    *)
(* deletion is final and is audited once.                                  *)
CleanLife(id) ==
  /\ id \in DOMAIN resumes => \/ resumes[id].path \in DOMAIN files
                              \/ \E w \in Workers : phase[w] = "removed" /\ record[w].id = id
  /\ Cardinality({c \in DOMAIN origin : origin[c] = id}) <= 1
  /\ id \in deleted =>
       /\ id \notin DOMAIN resumes
       /\ Cardinality({n \in DOMAIN events : events[n] = id})
            = IF InFlight(id) THEN 0 ELSE 1

CleanLifeWithoutOverlap ==
  \A id \in (1..nextResumeSeq) \ overlapped : CleanLife(id)

(* What is uploaded gets a final status in the end, or is deleted, also    *)
(* while it is retried and deleted by others and a stale copy of it may be *)
(* stored again.                                                           *)
Unfinished(id) == id \in DOMAIN resumes /\ resumes[id].status \in {"pending", "processing"}
ResumesSettle == \A id \in 1..MaxUploads : Unfinished(id) ~> ~Unfinished(id)

(* A resume is deleted, and its deletion audited, once                     *)
(* (TestLoginAndResumeDeleteAreAudited in internal/server/router_test.go   *)
(* expects exactly one resume.delete event for a deleted resume).          *)
DeletedOnce ==
  \A m, n \in DOMAIN events : events[m] = events[n] => m = n
=============================================================================
