----------------------------- MODULE Scheduling -----------------------------
(***************************************************************************)
(* Interview scheduling: the POST /interviews and PATCH /interviews/:id    *)
(* handlers (server/router.go), interview.Service.Create and Update        *)
(* (interview/service.go) and the two stores they touch, the interviews of *)
(* interview.MemoryRepository and the candidates of                        *)
(* resume.MemoryRepository, composed with Notifications.                   *)
(*                                                                         *)
(* Each repository call holds its mutex for that call only, so a request   *)
(* is a sequence of steps and requests interleave between them:            *)
(*                                                                         *)
(*   begin -> detectConflicts -> write -> enqueue -> dispatch -> link      *)
(*                          \-> refused (409)                              *)
(*                                                                         *)
(* Requests answered 400 or 404 change nothing and are not modelled.       *)
(***************************************************************************)
EXTENDS Naturals, Sequences, Functions

CONSTANTS
  Workers,          \* request goroutines
  Candidates,       \* candidate ids
  Interviewers,     \* interviewer ids
  InterviewerLists, \* interviewer lists of requests, after dedupNonEmpty
  Times,            \* instants
  Edits,            \* bodies of PATCH requests: the fields that are present
  Layers,           \* CandidateStatusLayer values a PATCH may set
  Channels,         \* notification channels, in the code's order
  MaxRetries,       \* defaultNotificationMaxRetries
  MaxRequests,      \* bound on the number of requests
  MaxLayerChanges,  \* bound on the number of PATCH .../status requests
  NoItem            \* the interview of a worker that has none

Statuses == {"scheduled", "rescheduled", "cancelled", "completed"}

Interview == [candidate : Candidates, interviewers : InterviewerLists,
              starts : Times, ends : Times, status : Statuses]

NoEdit == << >>

EditFields == {"candidate", "interviewers", "starts", "ends", "status"}

ASSUME SchedulingAssumption ==
  /\ Times \subseteq Nat
  /\ InterviewerLists \subseteq Seq(Interviewers) \ {<< >>}
  /\ Channels \in Seq(Range(Channels))
  /\ \A edit \in Edits :
       /\ DOMAIN edit \subseteq EditFields
       /\ "candidate" \in DOMAIN edit => edit["candidate"] \in Candidates
       /\ "interviewers" \in DOMAIN edit => edit["interviewers"] \in InterviewerLists
       /\ "starts" \in DOMAIN edit => edit["starts"] \in Times
       /\ "ends" \in DOMAIN edit => edit["ends"] \in Times
       /\ "status" \in DOMAIN edit => edit["status"] \in Statuses
  /\ "interview" \in Layers
  /\ "new" \in Layers
  /\ MaxRequests \in Nat
  /\ MaxLayerChanges \in Nat
  /\ NoItem \notin Interview

VARIABLES
  layer,        \* candidate -> status layer; its domain are the candidates stored
  interviews,   \* the interviews stored; the n-th created has id n
  pc,           \* how far the request of each worker is
  item,         \* the Interview value the request works on
  target,       \* its id, 0 as long as it has none
  asked,        \* history: the body of a PATCH request until its write
  requests,     \* number of scheduling requests taken
  layerChanges, \* number of PATCH .../status requests taken
  raced,        \* history: a request passed detectConflicts while another
                \* that had passed it had not written yet
  overlapped,   \* history: the interviews two requests changed at a time
  notificationLog, nextEvent, batch, accepted

requestVars == <<pc, item, target, asked, requests, overlapped>>
storeVars == <<layer, layerChanges, interviews>>
messageVars == <<notificationLog, nextEvent, batch, accepted>>
vars == <<layer, interviews, pc, item, target, asked, requests, overlapped, layerChanges, raced,
          notificationLog, nextEvent, batch, accepted>>

Notice == [interview : Nat, recipient : Candidates \cup Interviewers,
           channel : Range(Channels), about : Interview]

N == INSTANCE Notifications
       WITH Notices <- Notice, Batches <- {}, MaxEvents <- 0

Free == {"idle", "answered", "refused", "link_failed"}
Steps == {"begun", "clear", "written", "dispatching"} \cup Free

\* of the scheduling itself; the notifications have NotificationTypeOK
TypeOK ==
  /\ DOMAIN layer \subseteq Candidates
  /\ layer \in [DOMAIN layer -> Layers]
  /\ interviews \in Seq(Interview)
  /\ pc \in [Workers -> Steps]
  /\ item \in [Workers -> Interview \cup {NoItem}]
  /\ target \in [Workers -> Nat]
  /\ asked \in [Workers -> Edits \cup {NoEdit}]
  /\ requests \in Nat
  /\ layerChanges \in Nat
  /\ raced \in BOOLEAN
  /\ overlapped \subseteq Nat

Init ==
  /\ layer = [c \in {} |-> "new"]
  /\ interviews = << >>
  /\ pc = [w \in Workers |-> "idle"]
  /\ item = [w \in Workers |-> NoItem]
  /\ target = [w \in Workers |-> 0]
  /\ asked = [w \in Workers |-> NoEdit]
  /\ requests = 0
  /\ layerChanges = 0
  /\ raced = FALSE
  /\ overlapped = {}
  /\ N!NotificationInit
-----------------------------------------------------------------------------
(* The candidate store.  No code path removes a candidate. *)

CandidateExists(c) == c \in DOMAIN layer

CreateCandidate(c) ==
  /\ ~CandidateExists(c)
  /\ layer' = [d \in DOMAIN layer \cup {c} |-> IF d = c THEN "new" ELSE layer[d]]
  /\ UNCHANGED <<interviews, layerChanges, requestVars, raced, messageVars>>

(* PATCH /candidates/:id/status sets any layer, at any time. *)
UpdateCandidateStatusLayer(c, l) ==
  /\ layerChanges < MaxLayerChanges
  /\ CandidateExists(c)
  /\ layer' = [layer EXCEPT ![c] = l]
  /\ layerChanges' = layerChanges + 1
  /\ UNCHANGED <<interviews, requestVars, raced, messageVars>>
-----------------------------------------------------------------------------
(* Conflicts *)

IsActiveStatus(status) == status \in {"scheduled", "rescheduled"}

overlaps(a, b) == a.starts < b.ends /\ b.starts < a.ends

SharesPeople(a, b) ==
  \/ a.candidate = b.candidate
  \/ Range(a.interviewers) \cap Range(b.interviewers) # {}

(* The conflicts of an interview, itself among them, as they would be if   *)
(* excludeID were ignored; and as if only new interviews had conflicts.    *)
ConflictsWithItself(x, excludeID) ==
  {k \in DOMAIN interviews :
     /\ IsActiveStatus(interviews[k].status)
     /\ overlaps(x, interviews[k])
     /\ SharesPeople(x, interviews[k])}

ConflictsOfNew(x, excludeID) ==
  IF excludeID = 0 THEN ConflictsWithItself(x, 0) ELSE {}

(* The ids of the active interviews, excludeID apart, that overlap x and   *)
(* share the candidate or an interviewer with it.                          *)
Conflicts(x, excludeID) ==
  {k \in DOMAIN interviews :
     /\ k # excludeID
     /\ IsActiveStatus(interviews[k].status)
     /\ overlaps(x, interviews[k])
     /\ SharesPeople(x, interviews[k])}
-----------------------------------------------------------------------------
(* The steps of a request *)

Begin(w, id, x, edit) ==
  /\ pc[w] \in Free
  /\ requests < MaxRequests
  /\ x.starts < x.ends
  /\ pc' = [pc EXCEPT ![w] = "begun"]
  /\ item' = [item EXCEPT ![w] = x]
  /\ target' = [target EXCEPT ![w] = id]
  /\ asked' = [asked EXCEPT ![w] = edit]
  /\ requests' = requests + 1
  /\ overlapped' = overlapped \cup (({id} \ {0}) \cap {target[v] : v \in Workers})
  /\ UNCHANGED <<storeVars, raced, messageVars>>

BeginCreate(w) ==
  \E c \in Candidates, list \in InterviewerLists, s, e \in Times :
    /\ CandidateExists(c)
    /\ Begin(w, 0, [candidate |-> c, interviewers |-> list,
                    starts |-> s, ends |-> e, status |-> "scheduled"], NoEdit)

(* The copy of the stored interview with the fields of the body put in. *)
Edited(old, edit) ==
  LET given(field) == field \in DOMAIN edit
      pick(field, kept) == IF given(field) THEN edit[field] ELSE kept
      timeChanged == given("starts") \/ given("ends")
  IN [candidate |-> pick("candidate", old.candidate),
      interviewers |-> pick("interviewers", old.interviewers),
      starts |-> pick("starts", old.starts),
      ends |-> pick("ends", old.ends),
      status |-> IF given("status") THEN edit["status"]
                 ELSE IF timeChanged /\ old.status = "scheduled" THEN "rescheduled"
                 ELSE old.status]

(* Mutant: the new candidate is not looked up. *)
BeginUpdateUnchecked(w) ==
  \E id \in DOMAIN interviews, edit \in Edits :
    Begin(w, id, Edited(interviews[id], edit), edit)

(* The handler's CandidateExists and the service's GetInterview are one    *)
(* step: what the first found cannot change before the second.             *)
BeginUpdate(w) ==
  \E id \in DOMAIN interviews, edit \in Edits :
    /\ "candidate" \in DOMAIN edit => CandidateExists(edit["candidate"])
    /\ Begin(w, id, Edited(interviews[id], edit), edit)

detectConflicts(w) ==
  /\ pc[w] = "begun"
  /\ IF Conflicts(item[w], target[w]) = {}
     THEN /\ pc' = [pc EXCEPT ![w] = "clear"]
          /\ raced' = (raced \/ \E v \in Workers : pc[v] = "clear")
          /\ UNCHANGED <<item, target, asked>>
     ELSE /\ pc' = [pc EXCEPT ![w] = "refused"]
          /\ item' = [item EXCEPT ![w] = NoItem]
          /\ target' = [target EXCEPT ![w] = 0]
          /\ asked' = [asked EXCEPT ![w] = NoEdit]
          /\ UNCHANGED raced
  /\ UNCHANGED <<storeVars, requests, overlapped, messageVars>>

CreateInterview(w) ==
  /\ pc[w] = "clear" /\ target[w] = 0
  /\ interviews' = Append(interviews, item[w])
  /\ target' = [target EXCEPT ![w] = Len(interviews) + 1]
  /\ pc' = [pc EXCEPT ![w] = "written"]
  /\ UNCHANGED <<layer, layerChanges, item, asked, requests, overlapped, raced, messageVars>>

(* Mutant: what was read is saved, and not the edited copy. *)
UpdateUnedited(w) ==
  /\ pc[w] = "clear" /\ target[w] # 0
  /\ interviews' = [interviews EXCEPT ![target[w]] = @]
  /\ pc' = [pc EXCEPT ![w] = "written"]
  /\ asked' = [asked EXCEPT ![w] = NoEdit]
  /\ UNCHANGED <<layer, layerChanges, item, target, requests, overlapped, raced, messageVars>>

(* The stored record is replaced as a whole by the edited copy. *)
UpdateInterview(w) ==
  /\ pc[w] = "clear" /\ target[w] # 0
  /\ interviews' = [interviews EXCEPT ![target[w]] = item[w]]
  /\ pc' = [pc EXCEPT ![w] = "written"]
  /\ asked' = [asked EXCEPT ![w] = NoEdit]
  /\ UNCHANGED <<layer, layerChanges, item, target, requests, overlapped, raced, messageVars>>

(* Mutants: only the candidate is told; nobody is told of a cancellation. *)
CandidateOnly(x) == <<x.candidate>>
NobodyIfCancelled(x) ==
  IF x.status = "cancelled" THEN << >> ELSE <<x.candidate>> \o x.interviewers

Recipients(x) == <<x.candidate>> \o x.interviewers

(* One event per recipient and channel, recipient by recipient. *)
buildNotificationEvents(id, x) ==
  LET recipients == Recipients(x)
      width == Len(Channels)
  IN [k \in 1..(Len(recipients) * width) |->
        [interview |-> id,
         recipient |-> recipients[((k - 1) \div width) + 1],
         channel |-> Channels[((k - 1) % width) + 1],
         about |-> x]]

Announce(w) ==
  /\ pc[w] = "written"
  /\ N!EnqueueNotifications(w, buildNotificationEvents(target[w], item[w]))
  /\ pc' = [pc EXCEPT ![w] = "dispatching"]
  /\ UNCHANGED <<storeVars, item, target, asked, requests, overlapped, raced>>

Dispatch(w) ==
  /\ pc[w] = "dispatching"
  /\ N!Dispatch(w)
  /\ UNCHANGED <<storeVars, requestVars, raced>>

(* Mutant: the link fails for a candidate that has the layer already. *)
LinkOnce(w) ==
  /\ pc[w] = "dispatching" /\ batch[w] = << >>
  /\ IF layer[item[w].candidate] # "interview"
     THEN /\ layer' = [layer EXCEPT ![item[w].candidate] = "interview"]
          /\ pc' = [pc EXCEPT ![w] = "answered"]
     ELSE /\ pc' = [pc EXCEPT ![w] = "link_failed"]
          /\ UNCHANGED layer
  /\ item' = [item EXCEPT ![w] = NoItem]
  /\ target' = [target EXCEPT ![w] = 0]
  /\ UNCHANGED <<interviews, layerChanges, asked, requests, overlapped, raced, messageVars>>

(* Mutant: only interviews that will take place are linked. *)
LinkActiveOnly(w) ==
  /\ pc[w] = "dispatching" /\ batch[w] = << >>
  /\ pc' = [pc EXCEPT ![w] = "answered"]
  /\ layer' = IF IsActiveStatus(item[w].status)
              THEN [layer EXCEPT ![item[w].candidate] = "interview"] ELSE layer
  /\ item' = [item EXCEPT ![w] = NoItem]
  /\ target' = [target EXCEPT ![w] = 0]
  /\ UNCHANGED <<interviews, layerChanges, asked, requests, overlapped, raced, messageVars>>

(* The handler's last step, after any successful Create or Update. *)
LinkStatus(w) ==
  /\ pc[w] = "dispatching" /\ batch[w] = << >>
  /\ IF CandidateExists(item[w].candidate)
     THEN /\ layer' = [layer EXCEPT ![item[w].candidate] = "interview"]
          /\ pc' = [pc EXCEPT ![w] = "answered"]
     ELSE /\ pc' = [pc EXCEPT ![w] = "link_failed"]
          /\ UNCHANGED layer
  /\ item' = [item EXCEPT ![w] = NoItem]
  /\ target' = [target EXCEPT ![w] = 0]
  /\ UNCHANGED <<interviews, layerChanges, asked, requests, overlapped, raced, messageVars>>

Proceed(w) == \/ detectConflicts(w)
              \/ CreateInterview(w)
              \/ UpdateInterview(w)
              \/ Announce(w)
              \/ Dispatch(w)
              \/ LinkStatus(w)

Next == \/ \E c \in Candidates : CreateCandidate(c)
        \/ \E c \in Candidates, l \in Layers : UpdateCandidateStatusLayer(c, l)
        \/ \E w \in Workers : BeginCreate(w) \/ BeginUpdate(w) \/ Proceed(w)

(* A request that was taken runs on: net/http gives it a goroutine and no  *)
(* step of it waits for another request.                                   *)
Fairness == \A w \in Workers : WF_vars(Proceed(w))

Spec == Init /\ [][Next]_vars /\ Fairness
-----------------------------------------------------------------------------
People(x) == {x.candidate} \cup Range(x.interviewers)
Busy(x, t) == x.status \in {"scheduled", "rescheduled"} /\ x.starts <= t /\ t < x.ends

(* No candidate and no interviewer is in two interviews at one time, which *)
(* is what detectConflicts is for (README, Schedule: "Detects              *)
(* candidate/interviewer time conflicts when creating/updating schedules").*)
NoDoubleBooking ==
  \A j, k \in DOMAIN interviews, t \in Times :
    /\ Busy(interviews[j], t)
    /\ Busy(interviews[k], t)
    /\ \/ interviews[j].candidate = interviews[k].candidate
       \/ Range(interviews[j].interviewers) \cap Range(interviews[k].interviewers) # {}
    => j = k

(* The check in Create and Update is good as long as no request passes it  *)
(* between the check and the write of another one, whatever stale copy it  *)
(* works on and whatever edits came before.                                *)
RaceFreeNeverDoubleBooks == ~raced => NoDoubleBooking

(* Every interview, stored or about to be, belongs to a stored candidate:  *)
(* the link of the candidate's status after a write (STATUS_LINK_FAILED    *)
(* in the handlers) can therefore not fail, although interviews and        *)
(* candidates are in two stores without a common transaction.              *)
CandidatesKnown ==
  /\ \A k \in DOMAIN interviews : CandidateExists(interviews[k].candidate)
  /\ \A w \in Workers : item[w] # NoItem => CandidateExists(item[w].candidate)

(* What is stored has been announced to everybody it concerns on every     *)
(* channel, unless the request that wrote it is just about to.             *)
CurrentVersionAnnounced ==
  \A id \in DOMAIN interviews :
    \/ \E w \in Workers : pc[w] = "written" /\ target[w] = id /\ item[w] = interviews[id]
    \/ \A person \in People(interviews[id]), channel \in Range(Channels) :
         \E k \in DOMAIN notificationLog :
           notificationLog[k].notice = [interview |-> id, recipient |-> person,
                                        channel |-> channel, about |-> interviews[id]]

(* While nobody is changing an interview, the last notification about it   *)
(* tells its present state.  Update writes first and enqueues later: two   *)
(* requests that once overlapped on the interview may have announced their *)
(* versions in the other order.                                            *)
LastNoticeIsCurrent ==
  \A k \in DOMAIN notificationLog :
    LET id == notificationLog[k].notice.interview IN
    \/ \E later \in DOMAIN notificationLog :
         later > k /\ notificationLog[later].notice.interview = id
    \/ \E w \in Workers : target[w] = id
    \/ id \in overlapped
    \/ notificationLog[k].notice.about = interviews[id]

(* An update changes what the body of this very request asks for, and      *)
(* nothing else of what is stored by then, unless two requests overlapped  *)
(* on the interview: it stores the whole of a copy that was read before    *)
(* the conflict check, and would take back what somebody else changed in   *)
(* between.                                                                *)
UpdateWritesWhatWasAsked ==
  [][\A w \in Workers :
       pc[w] = "clear" /\ pc'[w] = "written" /\ target[w] \notin overlapped \cup {0} =>
         interviews' = [interviews EXCEPT ![target[w]] = Edited(@, asked[w])]]_vars

(* The candidate of every interview is in the layer "interview" (README,   *)
(* Interview scheduling: "Links candidate flow status to interview when    *)
(* schedule is created or changed"), unless the request that gave the      *)
(* interview to the candidate is about to put the candidate there, or      *)
(* layers were set by hand; whatever candidates the interview went through *)
(* and in whatever order overlapping requests wrote and linked.            *)
LinkedUnlessSetByHand ==
  \A k \in DOMAIN interviews :
    LET c == interviews[k].candidate IN
    \/ layer[c] = "interview"
    \/ layerChanges > 0
    \/ \E w \in Workers : pc[w] \in {"written", "dispatching"} /\ item[w].candidate = c

(* Whatever was written is answered in the end, with all its notifications *)
(* dispatched and the candidate's status linked.                           *)
WrittenIsAnswered == \A w \in Workers : pc[w] = "written" ~> pc[w] = "answered"
=============================================================================
