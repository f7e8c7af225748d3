--------------------------- MODULE Notifications ---------------------------
(***************************************************************************)
(* The notification pipeline of internal/interview: the log kept by        *)
(* MemoryRepository (repository.go), the batches that request goroutines   *)
(* take out of it and the retry loop of NotificationDispatcher.Dispatch    *)
(* (notification.go).                                                      *)
(*                                                                         *)
(* A worker is the goroutine of one HTTP request.  The repository's mutex  *)
(* makes EnqueueNotifications and UpdateNotification one step each; every  *)
(* call of the sender is a step of its own, because it is an external      *)
(* interface and other requests run meanwhile.                             *)
(***************************************************************************)
EXTENDS Naturals, Sequences

CONSTANTS
  Workers,      \* request goroutines
  Notices,      \* what an event says: recipient, channel and contents
  Batches,      \* the batches buildNotificationEvents may return
  MaxRetries,   \* defaultNotificationMaxRetries (2 in the code)
  MaxEvents     \* bound on the number of events, for model checking

ASSUME NotificationAssumption ==
  /\ MaxRetries \in Nat
  /\ MaxEvents \in Nat
  /\ Batches \subseteq Seq(Notices)

VARIABLES
  notificationLog,  \* MemoryRepository.notificationLog
  nextEvent,        \* MemoryRepository.nextEvent
  batch,            \* batch[w]: the events w has still to dispatch; the head
                    \* is the one in Dispatch, changed there but not stored
  accepted          \* accepted[k]: how often the sender accepted event k

notificationVars == <<notificationLog, nextEvent, batch, accepted>>

LogStatus == {"pending", "failed", "sent", "alerted"}
Outcome == {"sent", "failed"}
Event == [id : Nat, notice : Notices, status : LogStatus,
          retryCount : Nat, attempts : Seq(Outcome)]

NotificationTypeOK ==
  /\ notificationLog \in Seq(Event)
  /\ nextEvent \in Nat
  /\ batch \in [Workers -> Seq(Event)]
  /\ accepted \in [1..nextEvent -> Nat]

NotificationInit ==
  /\ notificationLog = << >>
  /\ nextEvent = 0
  /\ batch = [w \in Workers |-> << >>]
  /\ accepted = << >>

(* The events of a batch of notices, numbered from the counter on. *)
NewEvents(notices) ==
  [k \in 1..Len(notices) |->
     [id |-> nextEvent + k, notice |-> notices[k], status |-> "pending",
      retryCount |-> 0, attempts |-> << >>]]

(* Mutant: the events are logged and not handed to the caller. *)
EnqueueOnly(w, notices) ==
  /\ batch[w] = << >>
  /\ nextEvent' = nextEvent + Len(notices)
  /\ notificationLog' = notificationLog \o NewEvents(notices)
  /\ accepted' = [k \in 1..(nextEvent + Len(notices)) |->
                    IF k <= nextEvent THEN accepted[k] ELSE 0]
  /\ UNCHANGED batch

(* The whole batch is numbered and logged in one critical section, and the *)
(* caller gets copies.                                                     *)
EnqueueNotifications(w, notices) ==
  /\ batch[w] = << >>
  /\ nextEvent' = nextEvent + Len(notices)
  /\ notificationLog' = notificationLog \o NewEvents(notices)
  /\ batch' = [batch EXCEPT ![w] = NewEvents(notices)]
  /\ accepted' = [k \in 1..(nextEvent + Len(notices)) |->
                    IF k <= nextEvent THEN accepted[k] ELSE 0]

(* Mutant: one attempt too many before the alert. *)
AttemptedOnceMore(event, outcome) ==
  [event EXCEPT
     !.retryCount = Len(event.attempts),
     !.attempts = Append(event.attempts, outcome),
     !.status = IF outcome = "sent" THEN "sent"
                ELSE IF Len(event.attempts) <= MaxRetries THEN "failed"
                ELSE "alerted"]

(* One turn of the loop of Dispatch; the number of the attempt is the      *)
(* number of attempts recorded so far.                                     *)
Attempted(event, outcome) ==
  [event EXCEPT
     !.retryCount = Len(event.attempts),
     !.attempts = Append(event.attempts, outcome),
     !.status = IF outcome = "sent" THEN "sent"
                ELSE IF Len(event.attempts) < MaxRetries THEN "failed"
                ELSE "alerted"]

(* Mutant: the loop does not return on the first success. *)
InLoopAfterSuccess(event) == event.status # "alerted"

InLoop(event) == event.status \in {"pending", "failed"}

Send(w) ==
  /\ batch[w] # << >>
  /\ InLoop(Head(batch[w]))
  /\ \E outcome \in Outcome :
       /\ batch' = [batch EXCEPT ![w][1] = Attempted(batch[w][1], outcome)]
       /\ accepted' = IF outcome = "sent"
                      THEN [accepted EXCEPT ![batch[w][1].id] = @ + 1]
                      ELSE accepted
  /\ UNCHANGED <<notificationLog, nextEvent>>

(* Replaces the entry with the event's id; an unknown id is appended. *)
UpdatedLog(event) ==
  IF \E k \in DOMAIN notificationLog : notificationLog[k].id = event.id
  THEN [k \in DOMAIN notificationLog |->
          IF notificationLog[k].id = event.id THEN event ELSE notificationLog[k]]
  ELSE Append(notificationLog, event)

(* Mutant: the event is dropped without being stored. *)
UpdateForgotten(w) ==
  /\ batch[w] # << >>
  /\ ~InLoop(Head(batch[w]))
  /\ batch' = [batch EXCEPT ![w] = Tail(@)]
  /\ UNCHANGED <<notificationLog, nextEvent, accepted>>

UpdateNotification(w) ==
  /\ batch[w] # << >>
  /\ ~InLoop(Head(batch[w]))
  /\ notificationLog' = UpdatedLog(Head(batch[w]))
  /\ batch' = [batch EXCEPT ![w] = Tail(@)]
  /\ UNCHANGED <<nextEvent, accepted>>

(* dispatchNotifications: one event after the other. *)
Dispatch(w) == Send(w) \/ UpdateNotification(w)

NotificationNext ==
  \E w \in Workers :
    \/ \E notices \in Batches :
         /\ nextEvent + Len(notices) <= MaxEvents
         /\ EnqueueNotifications(w, notices)
    \/ Dispatch(w)

(* A request's goroutine is not stopped before it has answered. *)
NotificationFairness == \A w \in Workers : WF_notificationVars(Dispatch(w))

NotificationSpec == /\ NotificationInit
                    /\ [][NotificationNext]_notificationVars
                    /\ NotificationFairness
-----------------------------------------------------------------------------
Carried(w) == {batch[w][k].id : k \in DOMAIN batch[w]}

(* Every log entry tells the delivery's true story: it is pending and      *)
(* untried, or sent by its last attempt after at most MaxRetries failures, *)
(* or alerted after exactly MaxRetries + 1 failures.  No reader of the log *)
(* ever sees a delivery half way through the retry loop of Dispatch.       *)
AllFailed(attempts, n) == \A k \in 1..n : attempts[k] = "failed"

TrueStory(event) ==
  LET n == Len(event.attempts) IN
  \/ event.status = "pending" /\ n = 0 /\ event.retryCount = 0
  \/ /\ event.status = "sent"
     /\ n \in 1..(MaxRetries + 1)
     /\ event.retryCount = n - 1
     /\ event.attempts[n] = "sent"
     /\ AllFailed(event.attempts, n - 1)
  \/ /\ event.status = "alerted"
     /\ n = MaxRetries + 1
     /\ event.retryCount = MaxRetries
     /\ AllFailed(event.attempts, n)

LogTellsTrueStory == \A k \in DOMAIN notificationLog : TrueStory(notificationLog[k])

(* The sender accepts an event at most once, and once the log has a        *)
(* verdict it agrees with what the sender saw: "sent" was accepted,        *)
(* "alerted" never was (Dispatch returns on the first success).            *)
VerdictMatchesSender ==
  \A k \in DOMAIN notificationLog :
    LET event == notificationLog[k] IN
    /\ accepted[event.id] <= 1
    /\ event.status = "sent" => accepted[event.id] = 1
    /\ event.status = "alerted" => accepted[event.id] = 0

(* An entry is pending exactly while one request, and no other, still has  *)
(* the event in its batch: nothing is forgotten and nothing is dispatched  *)
(* by two requests (EnqueueNotifications numbers events under the lock).   *)
PendingHasOneCarrier ==
  \A k \in DOMAIN notificationLog :
    /\ notificationLog[k].id = k
    /\ notificationLog[k].status = "pending"
         <=> \E w \in Workers : k \in Carried(w)
    /\ \A v, w \in Workers : k \in Carried(v) \cap Carried(w) => v = w

(* UpdateNotification never rewrites a verdict and the log never shrinks:  *)
(* an alert, once raised, is there to stay.                                *)
VerdictsAreFinal ==
  [][\A k \in DOMAIN notificationLog :
       /\ k \in DOMAIN notificationLog'
       /\ notificationLog[k].status # "pending"
            => notificationLog'[k] = notificationLog[k]]_notificationVars

(* The states of the events in the log, one after the other. *)
ledgerView == [k \in DOMAIN notificationLog |-> notificationLog[k].status]

Ledger == INSTANCE NotificationLedger WITH ledger <- ledgerView

(* Seen from outside, the pipeline is NotificationLedger: each event       *)
(* posted is settled once, in one step, and every event is settled in the  *)
(* end, however often the sender fails and whatever other requests do.     *)
LedgerSpec == Ledger!Spec
=============================================================================
