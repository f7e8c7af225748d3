------------------------ MODULE NotificationsProofs ------------------------
(***************************************************************************)
(* Proofs about Notifications, for any number of workers, batches and      *)
(* retries.  The invariants that TLC checks are not inductive: they speak  *)
(* of the log, and a verdict is first reached in the copy of the event     *)
(* that Dispatch works on.  IInv therefore adds what is true of those      *)
(* copies: which events they are, that no event has two of them, and how   *)
(* the attempts recorded in them agree with what the sender accepted.      *)
(***************************************************************************)
EXTENDS Notifications, SequenceTheorems, TLAPS

(* An event whose retry loop is not finished. *)
LoopStory(event) ==
  LET n == Len(event.attempts) IN
  /\ event.status = IF n = 0 THEN "pending" ELSE "failed"
  /\ n <= MaxRetries
  /\ event.retryCount = IF n = 0 THEN 0 ELSE n - 1
  /\ AllFailed(event.attempts, n)

Settled(event) == event.status \in {"sent", "alerted"}

(* The sender accepted exactly the events that are "sent". *)
Agrees(event) == accepted[event.id] = IF event.status = "sent" THEN 1 ELSE 0

LogNumbered ==
  /\ Len(notificationLog) = nextEvent
  /\ \A k \in 1..nextEvent : notificationLog[k].id = k

CopiesKnown ==
  /\ \A w \in Workers : \A j \in DOMAIN batch[w] : batch[w][j].id \in 1..nextEvent
  /\ \A v, w \in Workers : \A i \in DOMAIN batch[v], j \in DOMAIN batch[w] :
       batch[v][i].id = batch[w][j].id => v = w /\ i = j

CopiesTellTrueStory ==
  \A w \in Workers : \A j \in DOMAIN batch[w] :
    /\ LoopStory(batch[w][j]) \/ (Settled(batch[w][j]) /\ TrueStory(batch[w][j]))
    /\ Agrees(batch[w][j])

IInv == /\ NotificationTypeOK
        /\ LogNumbered
        /\ CopiesKnown
        /\ CopiesTellTrueStory
        /\ LogTellsTrueStory
        /\ VerdictMatchesSender
        /\ PendingHasOneCarrier
-----------------------------------------------------------------------------
(* What a turn of the loop of Dispatch does to an event: it keeps the id   *)
(* and leaves the event in the loop or settled, with a true story.         *)
LEMMA AttemptedStory ==
  ASSUME NEW event \in Event, NEW outcome \in Outcome, LoopStory(event)
  PROVE  /\ Attempted(event, outcome) \in Event
         /\ Attempted(event, outcome).id = event.id
         /\ \/ LoopStory(Attempted(event, outcome))
            \/ /\ Settled(Attempted(event, outcome))
               /\ TrueStory(Attempted(event, outcome))
         /\ Attempted(event, outcome).status = "sent" <=> outcome = "sent"
<1> DEFINE n == Len(event.attempts)
           new == Attempted(event, outcome)
<1>1. /\ event.attempts \in Seq(Outcome)
      /\ n \in Nat
      /\ MaxRetries \in Nat
  BY LenProperties, NotificationAssumption DEF Event
<1>2. /\ Append(event.attempts, outcome) \in Seq(Outcome)
      /\ Len(Append(event.attempts, outcome)) = n + 1
      /\ \A k \in 1..n : Append(event.attempts, outcome)[k] = event.attempts[k]
      /\ Append(event.attempts, outcome)[n + 1] = outcome
  BY <1>1, AppendProperties
<1>3. /\ new.id = event.id
      /\ new.notice = event.notice
      /\ new.retryCount = n
      /\ new.attempts = Append(event.attempts, outcome)
      /\ new.status = IF outcome = "sent" THEN "sent"
                      ELSE IF n < MaxRetries THEN "failed" ELSE "alerted"
  BY DEF Attempted, Event
<1>4. new \in Event
  BY <1>1, <1>2 DEF Attempted, Event, LogStatus
<1>5. \A k \in 1..n : new.attempts[k] = "failed"
  BY <1>2, <1>3 DEF LoopStory, AllFailed
<1>6. CASE outcome = "sent"
  <2>1. Settled(new)
    BY <1>3, <1>6 DEF Settled
  <2>2. TrueStory(new)
    BY <1>1, <1>2, <1>3, <1>5, <1>6 DEF TrueStory, AllFailed, LoopStory
  <2> QED
    BY <1>3, <1>4, <1>6, <2>1, <2>2
<1>7. CASE outcome = "failed"
  <2>1. \A k \in 1..(n + 1) : new.attempts[k] = "failed"
    BY <1>1, <1>2, <1>3, <1>5, <1>7
  <2>2. CASE n < MaxRetries
    BY <1>1, <1>2, <1>3, <1>4, <1>7, <2>1, <2>2 DEF LoopStory, AllFailed
  <2>3. CASE ~(n < MaxRetries)
    BY <1>1, <1>2, <1>3, <1>4, <1>7, <2>1, <2>3
       DEF TrueStory, AllFailed, LoopStory, Settled
  <2> QED
    BY <2>2, <2>3
<1> QED
  BY <1>6, <1>7 DEF Outcome

LEMMA InitIInv == NotificationInit => IInv
<1> SUFFICES ASSUME NotificationInit PROVE IInv
  OBVIOUS
<1>1. notificationLog = << >> /\ \A w \in Workers : batch[w] = << >>
  BY DEF NotificationInit
<1>2. /\ NotificationTypeOK
      /\ LogNumbered
  BY DEF NotificationInit, NotificationTypeOK, LogNumbered
<1> QED
  BY <1>1, <1>2 DEF IInv, CopiesKnown, CopiesTellTrueStory, LogTellsTrueStory,
     VerdictMatchesSender, PendingHasOneCarrier

(* The events of a new batch are numbered from the counter on, pending and *)
(* untried.                                                                *)
LEMMA NewEventsFacts ==
  ASSUME NotificationTypeOK, NEW notices \in Seq(Notices)
  PROVE  /\ Len(notices) \in Nat
         /\ NewEvents(notices) \in Seq(Event)
         /\ Len(NewEvents(notices)) = Len(notices)
         /\ DOMAIN NewEvents(notices) = 1..Len(notices)
         /\ \A k \in 1..Len(notices) :
              /\ NewEvents(notices)[k].id = nextEvent + k
              /\ NewEvents(notices)[k].status = "pending"
              /\ LoopStory(NewEvents(notices)[k])
              /\ TrueStory(NewEvents(notices)[k])
<1> DEFINE new(k) == [id |-> nextEvent + k, notice |-> notices[k], status |-> "pending",
                      retryCount |-> 0, attempts |-> << >>]
<1>1. /\ Len(notices) \in Nat
      /\ nextEvent \in Nat
      /\ MaxRetries \in Nat
  BY LenProperties, NotificationAssumption DEF NotificationTypeOK
<1>2. << >> \in Seq(Outcome) /\ Len(<< >>) = 0
  BY EmptySeq
<1>3. \A k \in 1..Len(notices) : new(k) \in Event
  BY <1>1, <1>2, ElementOfSeq DEF Event, LogStatus
<1>4. NewEvents(notices) = [k \in 1..Len(notices) |-> new(k)]
  BY DEF NewEvents
<1>5. NewEvents(notices) \in Seq(Event) /\ Len(NewEvents(notices)) = Len(notices)
  BY <1>1, <1>3, <1>4
<1>6. \A k \in 1..Len(notices) : LoopStory(new(k)) /\ TrueStory(new(k))
  BY <1>1, <1>2 DEF LoopStory, TrueStory, AllFailed
<1> QED
  BY <1>1, <1>4, <1>5, <1>6

(* The log grows by the new events and keeps what it had. *)
LEMMA EnqueuedLog ==
  ASSUME IInv, NEW w \in Workers, NEW notices \in Seq(Notices),
         EnqueueNotifications(w, notices)
  PROVE  /\ notificationLog' \in Seq(Event)
         /\ Len(notificationLog') = nextEvent + Len(notices)
         /\ DOMAIN notificationLog' = 1..(nextEvent + Len(notices))
         /\ \A k \in 1..nextEvent : notificationLog'[k] = notificationLog[k]
         /\ \A k \in (nextEvent + 1)..(nextEvent + Len(notices)) :
              /\ k - nextEvent \in 1..Len(notices)
              /\ notificationLog'[k] = NewEvents(notices)[k - nextEvent]
              /\ notificationLog'[k].status = "pending"
<1> DEFINE new == NewEvents(notices)
           n == Len(notices)
           log == notificationLog \o new
<1>1. /\ n \in Nat
      /\ new \in Seq(Event)
      /\ Len(new) = n
      /\ \A k \in 1..n : new[k].status = "pending"
  BY NewEventsFacts DEF IInv
<1>2. /\ nextEvent \in Nat
      /\ Len(notificationLog) = nextEvent
      /\ notificationLog \in Seq(Event)
  BY DEF IInv, NotificationTypeOK, LogNumbered
<1>3. notificationLog' = log
  BY DEF EnqueueNotifications
<1>4. /\ log \in Seq(Event)
      /\ Len(log) = Len(notificationLog) + Len(new)
      /\ \A k \in 1..(Len(notificationLog) + Len(new)) :
           log[k] = IF k <= Len(notificationLog) THEN notificationLog[k]
                    ELSE new[k - Len(notificationLog)]
  <2> HIDE DEF new
  <2>1. new \in Seq(Event) /\ notificationLog \in Seq(Event)
    BY <1>1, <1>2
  <2> QED
    BY <2>1, ConcatProperties, Zenon
<1>5. /\ log \in Seq(Event)
      /\ Len(log) = nextEvent + n
      /\ \A k \in 1..(nextEvent + n) :
           log[k] = IF k <= nextEvent THEN notificationLog[k] ELSE new[k - nextEvent]
  BY <1>1, <1>2, <1>4
<1> HIDE DEF log, new
<1>6. DOMAIN log = 1..(nextEvent + n)
  BY <1>5, LenProperties
<1>7. \A k \in (nextEvent + 1)..(nextEvent + n) :
        /\ k - nextEvent \in 1..n
        /\ log[k] = new[k - nextEvent]
        /\ log[k].status = "pending"
  BY <1>1, <1>2, <1>5
<1> QED
  BY <1>1, <1>2, <1>3, <1>5, <1>6, <1>7 DEF new

LEMMA EnqueueIInv ==
  ASSUME IInv, NEW w \in Workers, NEW notices \in Seq(Notices),
         EnqueueNotifications(w, notices)
  PROVE  IInv'
<1> DEFINE new == NewEvents(notices)
           n == Len(notices)
<1> USE DEF IInv
<1>1. /\ n \in Nat
      /\ new \in Seq(Event)
      /\ Len(new) = n
      /\ DOMAIN new = 1..n
      /\ \A k \in 1..n : /\ new[k].id = nextEvent + k
                         /\ new[k].status = "pending"
                         /\ LoopStory(new[k])
                         /\ TrueStory(new[k])
  BY NewEventsFacts
<1>2. /\ nextEvent \in Nat
      /\ Len(notificationLog) = nextEvent
      /\ DOMAIN notificationLog = 1..nextEvent
      /\ notificationLog \in Seq(Event)
  BY LenProperties DEF NotificationTypeOK, LogNumbered
<1>3. /\ notificationLog' \in Seq(Event)
      /\ Len(notificationLog') = nextEvent + n
      /\ DOMAIN notificationLog' = 1..(nextEvent + n)
      /\ \A k \in 1..nextEvent : notificationLog'[k] = notificationLog[k]
      /\ \A k \in (nextEvent + 1)..(nextEvent + n) :
           /\ k - nextEvent \in 1..n
           /\ notificationLog'[k] = new[k - nextEvent]
  BY EnqueuedLog
<1>4. nextEvent' = nextEvent + n
  BY DEF EnqueueNotifications
<1>5. /\ batch' \in [Workers -> Seq(Event)]
      /\ batch'[w] = new
      /\ \A v \in Workers \ {w} : batch'[v] = batch[v]
      /\ batch[w] = << >>
  BY <1>1 DEF EnqueueNotifications, NotificationTypeOK
<1>6. /\ accepted' \in [1..nextEvent' -> Nat]
      /\ \A k \in 1..nextEvent : accepted'[k] = accepted[k]
      /\ \A k \in (nextEvent + 1)..(nextEvent + n) : accepted'[k] = 0
  BY <1>1, <1>2, <1>4 DEF EnqueueNotifications, NotificationTypeOK
<1>7. NotificationTypeOK'
  BY <1>1, <1>2, <1>3, <1>4, <1>5, <1>6 DEF NotificationTypeOK
<1>8. LogNumbered'
  <2>1. \A k \in 1..nextEvent : notificationLog'[k].id = k
    BY <1>3 DEF LogNumbered
  <2>2. \A k \in (nextEvent + 1)..(nextEvent + n) : notificationLog'[k].id = k
    BY <1>1, <1>2, <1>3
  <2>3. \A k \in 1..(nextEvent + n) : notificationLog'[k].id = k
    BY <1>1, <1>2, <2>1, <2>2
  <2> QED
    BY <1>3, <1>4, <2>3 DEF LogNumbered
<1>9. \A v \in Workers : \A j \in DOMAIN batch'[v] :
        \/ v = w /\ j \in 1..n /\ batch'[v][j] = new[j]
        \/ v # w /\ j \in DOMAIN batch[v] /\ batch'[v][j] = batch[v][j]
  BY <1>1, <1>5
<1>10. CopiesKnown'
  <2>1. \A v \in Workers : \A j \in DOMAIN batch'[v] :
          batch'[v][j].id = IF v = w THEN nextEvent + j ELSE batch[v][j].id
    BY <1>1, <1>9
  <2>2. \A v \in Workers : \A j \in DOMAIN batch'[v] : batch'[v][j].id \in 1..nextEvent'
    BY <1>1, <1>2, <1>4, <1>9, <2>1 DEF CopiesKnown
  <2>3. \A v \in Workers : \A j \in DOMAIN batch'[v] :
          v # w => batch'[v][j].id \in 1..nextEvent
    BY <1>9, <2>1 DEF CopiesKnown
  <2>4. \A u, v \in Workers : \A i \in DOMAIN batch'[u], j \in DOMAIN batch'[v] :
          batch'[u][i].id = batch'[v][j].id => u = v /\ i = j
    <3> SUFFICES ASSUME NEW u \in Workers, NEW v \in Workers,
                        NEW i \in DOMAIN batch'[u], NEW j \in DOMAIN batch'[v],
                        batch'[u][i].id = batch'[v][j].id
        PROVE u = v /\ i = j
      OBVIOUS
    <3>1. CASE u = w /\ v = w
      BY <1>2, <1>9, <2>1, <3>1
    <3>2. CASE u # w /\ v # w
      BY <1>9, <2>1, <3>2 DEF CopiesKnown
    <3>3. CASE u = w /\ v # w
      BY <1>1, <1>2, <1>9, <2>1, <2>3, <3>3
    <3>4. CASE u # w /\ v = w
      BY <1>1, <1>2, <1>9, <2>1, <2>3, <3>4
    <3> QED
      BY <3>1, <3>2, <3>3, <3>4
  <2> QED
    BY <2>2, <2>4 DEF CopiesKnown
<1>11. CopiesTellTrueStory'
  <2> SUFFICES ASSUME NEW v \in Workers, NEW j \in DOMAIN batch'[v]
      PROVE /\ \/ LoopStory(batch'[v][j])
               \/ Settled(batch'[v][j]) /\ TrueStory(batch'[v][j])
            /\ accepted'[batch'[v][j].id] = IF batch'[v][j].status = "sent" THEN 1 ELSE 0
    BY DEF CopiesTellTrueStory, Agrees
  <2>1. CASE v = w
    <3>1. j \in 1..n /\ batch'[v][j] = new[j]
      BY <1>9, <2>1
    <3>2. accepted'[new[j].id] = 0
      BY <1>1, <1>2, <1>6, <3>1
    <3> QED
      BY <1>1, <3>1, <3>2
  <2>2. CASE v # w
    <3>1. j \in DOMAIN batch[v] /\ batch'[v][j] = batch[v][j]
      BY <1>9, <2>2
    <3>2. batch[v][j].id \in 1..nextEvent
      BY <3>1 DEF CopiesKnown
    <3> QED
      BY <1>6, <3>1, <3>2 DEF CopiesTellTrueStory, Agrees
  <2> QED
    BY <2>1, <2>2
<1>12. LogTellsTrueStory'
  <2>1. \A k \in DOMAIN notificationLog' :
          k \in 1..nextEvent \/ k \in (nextEvent + 1)..(nextEvent + n)
    BY <1>1, <1>2, <1>3
  <2>2. \A k \in 1..nextEvent : TrueStory(notificationLog'[k])
    BY <1>2, <1>3 DEF LogTellsTrueStory
  <2>3. \A k \in (nextEvent + 1)..(nextEvent + n) : TrueStory(notificationLog'[k])
    BY <1>1, <1>3
  <2> QED
    BY <2>1, <2>2, <2>3 DEF LogTellsTrueStory
<1>13. VerdictMatchesSender'
  <2> SUFFICES ASSUME NEW k \in DOMAIN notificationLog'
      PROVE LET event == notificationLog'[k] IN
            /\ accepted'[event.id] <= 1
            /\ event.status = "sent" => accepted'[event.id] = 1
            /\ event.status = "alerted" => accepted'[event.id] = 0
    BY DEF VerdictMatchesSender
  <2>1. notificationLog'[k].id = k
    BY <1>3, <1>4, <1>8 DEF LogNumbered
  <2>2. CASE k \in 1..nextEvent
    BY <1>2, <1>3, <1>6, <2>1, <2>2 DEF VerdictMatchesSender, LogNumbered
  <2>3. CASE k \in (nextEvent + 1)..(nextEvent + n)
    BY <1>1, <1>3, <1>6, <2>1, <2>3
  <2> QED
    BY <1>1, <1>2, <1>3, <2>2, <2>3
<1>14. PendingHasOneCarrier'
  <2> SUFFICES ASSUME NEW k \in DOMAIN notificationLog'
      PROVE /\ notificationLog'[k].id = k
            /\ notificationLog'[k].status = "pending" <=> \E v \in Workers : k \in Carried(v)'
            /\ \A u, v \in Workers : k \in Carried(u)' \cap Carried(v)' => u = v
    BY DEF PendingHasOneCarrier
  <2>1. notificationLog'[k].id = k
    BY <1>3, <1>4, <1>8 DEF LogNumbered
  <2>2. Carried(w)' = (nextEvent + 1)..(nextEvent + n)
    <3>1. Carried(w)' = {new[j].id : j \in 1..n}
      BY <1>1, <1>5 DEF Carried
    <3>2. \A x \in (nextEvent + 1)..(nextEvent + n) :
            x - nextEvent \in 1..n /\ new[x - nextEvent].id = x
      BY <1>1, <1>2
    <3>3. \A j \in 1..n : new[j].id \in (nextEvent + 1)..(nextEvent + n)
      BY <1>1, <1>2
    <3> QED
      BY <3>1, <3>2, <3>3
  <2>3. Carried(w) = {}
    BY <1>5 DEF Carried
  <2>4. \A v \in Workers \ {w} : Carried(v)' = Carried(v)
    BY <1>5 DEF Carried
  <2>5. \A v \in Workers : Carried(v) \subseteq 1..nextEvent
    BY DEF Carried, CopiesKnown
  <2>6. CASE k \in 1..nextEvent
    <3>1. \A v \in Workers : k \in Carried(v)' <=> k \in Carried(v)
      BY <1>2, <2>2, <2>3, <2>4, <2>6
    <3>2. notificationLog'[k] = notificationLog[k] /\ k \in DOMAIN notificationLog
      BY <1>2, <1>3, <2>6
    <3>3. /\ notificationLog[k].status = "pending" <=> \E v \in Workers : k \in Carried(v)
          /\ \A u, v \in Workers : k \in Carried(u) /\ k \in Carried(v) => u = v
      BY <3>2 DEF PendingHasOneCarrier
    <3> QED
      BY <2>1, <3>1, <3>2, <3>3
  <2>7. CASE k \in (nextEvent + 1)..(nextEvent + n)
    <3>1. notificationLog'[k].status = "pending"
      BY <1>1, <1>3, <2>7
    <3>2. \A v \in Workers \ {w} : k \notin Carried(v)'
      BY <1>2, <2>4, <2>5, <2>7
    <3> QED
      BY <2>1, <2>2, <2>7, <3>1, <3>2
  <2> QED
    BY <1>1, <1>2, <1>3, <2>6, <2>7
<1> QED
  BY <1>7, <1>8, <1>10, <1>11, <1>12, <1>13, <1>14

(* A copy that is still in the loop tells the story of the loop. *)
LEMMA CopyInLoop ==
  ASSUME IInv, NEW w \in Workers, batch[w] # << >>
  PROVE  /\ batch[w] \in Seq(Event)
         /\ Head(batch[w]) = batch[w][1]
         /\ 1 \in DOMAIN batch[w]
         /\ batch[w][1] \in Event
         /\ batch[w][1].id \in 1..nextEvent
         /\ batch[w][1].id \in Carried(w)
         /\ InLoop(batch[w][1]) => LoopStory(batch[w][1])
         /\ ~InLoop(batch[w][1]) => /\ Settled(batch[w][1])
                                    /\ TrueStory(batch[w][1])
         /\ Agrees(batch[w][1])
<1>1. batch[w] \in Seq(Event)
  BY DEF IInv, NotificationTypeOK
<1>2. 1 \in DOMAIN batch[w] /\ Head(batch[w]) = batch[w][1] /\ batch[w][1] \in Event
  BY <1>1, EmptySeq, LenProperties
<1>3. batch[w][1].id \in 1..nextEvent /\ batch[w][1].id \in Carried(w)
  BY <1>2 DEF IInv, CopiesKnown, Carried
<1>4. /\ LoopStory(batch[w][1]) \/ (Settled(batch[w][1]) /\ TrueStory(batch[w][1]))
      /\ Agrees(batch[w][1])
  BY <1>2 DEF IInv, CopiesTellTrueStory
<1>5. /\ LoopStory(batch[w][1]) => InLoop(batch[w][1])
      /\ Settled(batch[w][1]) => ~InLoop(batch[w][1])
  BY DEF LoopStory, InLoop, Settled
<1> QED
  BY <1>1, <1>2, <1>3, <1>4, <1>5

LEMMA SendIInv ==
  ASSUME IInv, NEW w \in Workers, Send(w)
  PROVE  IInv'
<1> DEFINE event == batch[w][1]
<1>1. batch[w] # << >> /\ UNCHANGED <<notificationLog, nextEvent>>
  BY DEF Send
<1>2. /\ batch[w] \in Seq(Event)
      /\ 1 \in DOMAIN batch[w]
      /\ event \in Event
      /\ event.id \in 1..nextEvent
      /\ event.id \in Carried(w)
      /\ InLoop(event)
      /\ LoopStory(event)
      /\ Agrees(event)
  BY <1>1, CopyInLoop DEF Send
<1>3. PICK outcome \in Outcome :
        /\ batch' = [batch EXCEPT ![w][1] = Attempted(event, outcome)]
        /\ accepted' = IF outcome = "sent"
                       THEN [accepted EXCEPT ![event.id] = @ + 1]
                       ELSE accepted
  BY DEF Send
<1> DEFINE tried == Attempted(event, outcome)
<1>4. /\ tried \in Event
      /\ tried.id = event.id
      /\ LoopStory(tried) \/ (Settled(tried) /\ TrueStory(tried))
      /\ tried.status = "sent" <=> outcome = "sent"
  BY <1>2, AttemptedStory
<1> HIDE DEF tried
<1>5. batch' = [batch EXCEPT ![w] = [batch[w] EXCEPT ![1] = tried]]
  BY <1>3 DEF tried
<1>6. /\ batch \in [Workers -> Seq(Event)]
      /\ nextEvent \in Nat
      /\ accepted \in [1..nextEvent -> Nat]
      /\ notificationLog \in Seq(Event)
      /\ DOMAIN notificationLog = 1..nextEvent
  BY LenProperties DEF IInv, NotificationTypeOK, LogNumbered
<1>7. [batch[w] EXCEPT ![1] = tried] \in Seq(Event)
  BY <1>2, <1>4, ExceptSeq, LenProperties
<1>8. /\ batch' \in [Workers -> Seq(Event)]
      /\ \A v \in Workers : DOMAIN batch'[v] = DOMAIN batch[v]
      /\ \A v \in Workers : \A j \in DOMAIN batch[v] :
           batch'[v][j] = IF v = w /\ j = 1 THEN tried ELSE batch[v][j]
  BY <1>2, <1>5, <1>6, <1>7
<1>9. \A v \in Workers : \A j \in DOMAIN batch[v] : batch'[v][j].id = batch[v][j].id
  BY <1>4, <1>8
<1>10. ASSUME NEW v \in Workers PROVE Carried(v)' = Carried(v)
  <2>1. DOMAIN batch'[v] = DOMAIN batch[v]
    BY <1>8
  <2>2. \A j \in DOMAIN batch[v] : batch'[v][j].id = batch[v][j].id
    BY <1>9
  <2>3. Carried(v)' = {batch'[v][j].id : j \in DOMAIN batch[v]}
    BY <2>1, Zenon DEF Carried
  <2> QED
    BY <2>2, <2>3 DEF Carried
<1>11. /\ accepted' \in [1..nextEvent -> Nat]
       /\ accepted'[event.id] = IF outcome = "sent" THEN 1 ELSE 0
       /\ \A k \in 1..nextEvent : k # event.id => accepted'[k] = accepted[k]
  <2>1. accepted[event.id] = 0
    BY <1>2 DEF Agrees, InLoop
  <2> QED
    BY <1>2, <1>3, <1>6, <2>1
<1>12. NotificationTypeOK'
  BY <1>1, <1>6, <1>8, <1>11 DEF NotificationTypeOK
<1>13. LogNumbered' /\ LogTellsTrueStory'
  BY <1>1 DEF IInv, LogNumbered, LogTellsTrueStory
<1>14. CopiesKnown'
  <2>1. \A v \in Workers : \A j \in DOMAIN batch'[v] : batch'[v][j].id \in 1..nextEvent'
    BY <1>1, <1>8, <1>9 DEF IInv, CopiesKnown
  <2>2. ASSUME NEW u \in Workers, NEW v \in Workers,
               NEW i \in DOMAIN batch'[u], NEW j \in DOMAIN batch'[v],
               batch'[u][i].id = batch'[v][j].id
        PROVE  u = v /\ i = j
    <3>1. i \in DOMAIN batch[u] /\ j \in DOMAIN batch[v]
      BY <1>8
    <3>2. batch[u][i].id = batch[v][j].id
      BY <1>9, <2>2, <3>1
    <3> QED
      BY <3>1, <3>2 DEF IInv, CopiesKnown
  <2> QED
    BY <2>1, <2>2 DEF CopiesKnown
<1>15. CopiesTellTrueStory'
  <2> SUFFICES ASSUME NEW v \in Workers, NEW j \in DOMAIN batch[v]
      PROVE /\ \/ LoopStory(batch'[v][j])
               \/ Settled(batch'[v][j]) /\ TrueStory(batch'[v][j])
            /\ accepted'[batch'[v][j].id] = IF batch'[v][j].status = "sent" THEN 1 ELSE 0
    BY <1>8 DEF CopiesTellTrueStory, Agrees
  <2>1. CASE v = w /\ j = 1
    BY <1>4, <1>8, <1>11, <2>1
  <2>2. CASE ~(v = w /\ j = 1)
    <3>1. batch'[v][j] = batch[v][j]
      BY <1>8, <2>2
    <3>2. batch[v][j].id \in 1..nextEvent /\ batch[v][j].id # event.id
      BY <1>2, <2>2 DEF IInv, CopiesKnown
    <3> QED
      BY <1>11, <3>1, <3>2 DEF IInv, CopiesTellTrueStory, Agrees
  <2> QED
    BY <2>1, <2>2
<1>16. VerdictMatchesSender'
  <2> SUFFICES ASSUME NEW k \in 1..nextEvent
      PROVE /\ accepted'[notificationLog[k].id] <= 1
            /\ notificationLog[k].status = "sent" => accepted'[notificationLog[k].id] = 1
            /\ notificationLog[k].status = "alerted" => accepted'[notificationLog[k].id] = 0
    BY <1>1, <1>6 DEF VerdictMatchesSender
  <2>1. notificationLog[k].id = k
    BY DEF IInv, LogNumbered
  <2>2. CASE k = event.id
    <3>1. notificationLog[k].status = "pending"
      BY <1>2, <1>6, <2>2 DEF IInv, PendingHasOneCarrier
    <3> QED
      BY <1>11, <2>1, <2>2, <3>1
  <2>3. CASE k # event.id
    BY <1>6, <1>11, <2>1, <2>3 DEF IInv, VerdictMatchesSender
  <2> QED
    BY <2>2, <2>3
<1>17. PendingHasOneCarrier'
  BY <1>1, <1>10 DEF IInv, PendingHasOneCarrier
<1> QED
  BY <1>12, <1>13, <1>14, <1>15, <1>16, <1>17 DEF IInv

(* Storing a settled event replaces its own entry and no other. *)
LEMMA UpdateFacts ==
  ASSUME IInv, NEW w \in Workers, UpdateNotification(w)
  PROVE  /\ batch[w] # << >>
         /\ notificationLog[batch[w][1].id].status = "pending"
         /\ Settled(batch[w][1])
         /\ notificationLog' = [notificationLog EXCEPT ![batch[w][1].id] = batch[w][1]]
<1> DEFINE event == batch[w][1]
<1>1. /\ batch[w] # << >>
      /\ ~InLoop(Head(batch[w]))
      /\ notificationLog' = UpdatedLog(Head(batch[w]))
  BY DEF UpdateNotification
<1>2. /\ Head(batch[w]) = event
      /\ event.id \in 1..nextEvent
      /\ event.id \in Carried(w)
      /\ Settled(event)
  BY <1>1, CopyInLoop
<1>3. /\ notificationLog \in Seq(Event)
      /\ DOMAIN notificationLog = 1..nextEvent
      /\ \A k \in 1..nextEvent : notificationLog[k].id = k
  BY LenProperties DEF IInv, NotificationTypeOK, LogNumbered
<1>4. notificationLog[event.id].status = "pending"
  BY <1>2, <1>3 DEF IInv, PendingHasOneCarrier
<1>5. UpdatedLog(event) = [k \in 1..nextEvent |->
                             IF k = event.id THEN event ELSE notificationLog[k]]
  BY <1>2, <1>3 DEF UpdatedLog
<1>6. [notificationLog EXCEPT ![event.id] = event]
        = [k \in 1..nextEvent |-> IF k = event.id THEN event ELSE notificationLog[k]]
  BY <1>2, <1>3
<1> QED
  BY <1>1, <1>2, <1>4, <1>5, <1>6

LEMMA UpdateNotificationIInv ==
  ASSUME IInv, NEW w \in Workers, UpdateNotification(w)
  PROVE  IInv'
<1> DEFINE event == batch[w][1]
<1>1. /\ batch[w] # << >>
      /\ batch' = [batch EXCEPT ![w] = Tail(@)]
      /\ UNCHANGED <<nextEvent, accepted>>
      /\ ~InLoop(Head(batch[w]))
  BY DEF UpdateNotification
<1>2. /\ notificationLog' = [notificationLog EXCEPT ![event.id] = event]
      /\ Settled(event)
  BY UpdateFacts
<1>3. /\ batch[w] \in Seq(Event)
      /\ 1 \in DOMAIN batch[w]
      /\ event \in Event
      /\ event.id \in 1..nextEvent
      /\ event.id \in Carried(w)
      /\ TrueStory(event)
      /\ Agrees(event)
  BY <1>1, CopyInLoop
<1>4. /\ batch \in [Workers -> Seq(Event)]
      /\ nextEvent \in Nat
      /\ accepted \in [1..nextEvent -> Nat]
      /\ notificationLog \in Seq(Event)
      /\ Len(notificationLog) = nextEvent
      /\ DOMAIN notificationLog = 1..nextEvent
      /\ \A k \in 1..nextEvent : notificationLog[k].id = k
  BY LenProperties DEF IInv, NotificationTypeOK, LogNumbered
<1>5. /\ notificationLog' \in Seq(Event)
      /\ Len(notificationLog') = nextEvent
      /\ DOMAIN notificationLog' = 1..nextEvent
      /\ \A k \in 1..nextEvent :
           notificationLog'[k] = IF k = event.id THEN event ELSE notificationLog[k]
  BY <1>2, <1>3, <1>4, ExceptSeq, LenProperties
<1>6. /\ Tail(batch[w]) \in Seq(Event)
      /\ DOMAIN batch[w] = 1..Len(batch[w])
      /\ Len(batch[w]) \in Nat
      /\ DOMAIN Tail(batch[w]) = 1..(Len(batch[w]) - 1)
      /\ \A j \in 1..(Len(batch[w]) - 1) : Tail(batch[w])[j] = batch[w][j + 1]
  BY <1>1, <1>3, HeadTailProperties, LenProperties
<1>7. /\ batch' \in [Workers -> Seq(Event)]
      /\ batch'[w] = Tail(batch[w])
      /\ \A v \in Workers \ {w} : batch'[v] = batch[v]
  BY <1>1, <1>4, <1>6
<1>8. \A v \in Workers : \A j \in DOMAIN batch'[v] :
        \/ v = w /\ j + 1 \in DOMAIN batch[v] /\ batch'[v][j] = batch[v][j + 1]
                 /\ j \in Nat \ {0}
        \/ v # w /\ j \in DOMAIN batch[v] /\ batch'[v][j] = batch[v][j]
  BY <1>6, <1>7
<1>9. NotificationTypeOK'
  BY <1>1, <1>4, <1>5, <1>7 DEF NotificationTypeOK
<1>10. LogNumbered'
  BY <1>1, <1>4, <1>5 DEF LogNumbered
<1>11. CopiesKnown'
  <2>1. \A v \in Workers : \A j \in DOMAIN batch'[v] : batch'[v][j].id \in 1..nextEvent
    BY <1>8 DEF IInv, CopiesKnown
  <2>2. ASSUME NEW u \in Workers, NEW v \in Workers,
               NEW i \in DOMAIN batch'[u], NEW j \in DOMAIN batch'[v],
               batch'[u][i].id = batch'[v][j].id
        PROVE  u = v /\ i = j
    <3>1. u = v
      BY <1>8, <2>2 DEF IInv, CopiesKnown
    <3>2. CASE u = w
      <4>1. /\ i + 1 \in DOMAIN batch[w] /\ batch'[u][i] = batch[w][i + 1] /\ i \in Nat
            /\ j + 1 \in DOMAIN batch[w] /\ batch'[v][j] = batch[w][j + 1] /\ j \in Nat
        BY <1>8, <3>1, <3>2
      <4>2. i + 1 = j + 1
        BY <2>2, <4>1 DEF IInv, CopiesKnown
      <4> QED
        BY <3>1, <4>1, <4>2
    <3>3. CASE u # w
      BY <1>8, <2>2, <3>1, <3>3 DEF IInv, CopiesKnown
    <3> QED
      BY <3>2, <3>3
  <2> QED
    BY <1>1, <2>1, <2>2 DEF CopiesKnown
<1>12. CopiesTellTrueStory'
  BY <1>1, <1>8 DEF IInv, CopiesTellTrueStory, Agrees
<1>13. LogTellsTrueStory'
  BY <1>3, <1>4, <1>5 DEF IInv, LogTellsTrueStory
<1>14. VerdictMatchesSender'
  <2> SUFFICES ASSUME NEW k \in 1..nextEvent
      PROVE LET entry == notificationLog'[k] IN
            /\ accepted[entry.id] <= 1
            /\ entry.status = "sent" => accepted[entry.id] = 1
            /\ entry.status = "alerted" => accepted[entry.id] = 0
    BY <1>1, <1>5 DEF VerdictMatchesSender
  <2>1. CASE k = event.id
    BY <1>3, <1>5, <2>1 DEF Agrees
  <2>2. CASE k # event.id
    BY <1>4, <1>5, <2>2 DEF IInv, VerdictMatchesSender
  <2> QED
    BY <2>1, <2>2
<1>15. PendingHasOneCarrier'
  <2>1. Carried(w)' = Carried(w) \ {event.id}
    <3>1. Carried(w)' = {batch[w][j + 1].id : j \in 1..(Len(batch[w]) - 1)}
      <4>1. Carried(w)' = {Tail(batch[w])[j].id : j \in DOMAIN Tail(batch[w])}
        BY <1>7, Zenon DEF Carried
      <4>2. Carried(w)' = {Tail(batch[w])[j].id : j \in 1..(Len(batch[w]) - 1)}
        BY <1>6, <4>1, Zenon
      <4> QED
        BY <1>6, <4>2
    <3>2. \A j \in DOMAIN batch[w] : j # 1 => batch[w][j].id # event.id
      BY <1>3 DEF IInv, CopiesKnown
    <3>3. \A j \in DOMAIN batch[w] : j # 1 => /\ j - 1 \in 1..(Len(batch[w]) - 1)
                                              /\ (j - 1) + 1 = j
      BY <1>6
    <3>4. \A j \in 1..(Len(batch[w]) - 1) : j + 1 \in DOMAIN batch[w] /\ j + 1 # 1
      BY <1>6
    <3>5. \A j \in DOMAIN batch[w] : j # 1 => batch[w][j].id \in Carried(w)'
      BY <3>1, <3>3
    <3> QED
      BY <3>1, <3>2, <3>4, <3>5 DEF Carried
  <2>2. \A v \in Workers \ {w} : Carried(v)' = Carried(v)
    BY <1>7 DEF Carried
  <2>3. \A k \in 1..nextEvent :
          /\ notificationLog[k].status = "pending" <=> \E v \in Workers : k \in Carried(v)
          /\ \A u, v \in Workers : k \in Carried(u) /\ k \in Carried(v) => u = v
    BY <1>4 DEF IInv, PendingHasOneCarrier
  <2> SUFFICES ASSUME NEW k \in 1..nextEvent
      PROVE /\ notificationLog'[k].id = k
            /\ notificationLog'[k].status = "pending" <=> \E v \in Workers : k \in Carried(v)'
            /\ \A u, v \in Workers : k \in Carried(u)' /\ k \in Carried(v)' => u = v
    BY <1>5 DEF PendingHasOneCarrier
  <2>4. notificationLog'[k].id = k
    BY <1>4, <1>5
  <2>5. \A v \in Workers : k \in Carried(v)' => k \in Carried(v)
    BY <2>1, <2>2
  <2>6. CASE k = event.id
    <3>1. \A v \in Workers : k \notin Carried(v)'
      BY <1>3, <2>1, <2>2, <2>3, <2>6
    <3>2. notificationLog'[k].status # "pending"
      BY <1>2, <1>5, <2>6 DEF Settled
    <3> QED
      BY <2>4, <3>1, <3>2
  <2>7. CASE k # event.id
    <3>1. \A v \in Workers : k \in Carried(v)' <=> k \in Carried(v)
      BY <2>1, <2>2, <2>7
    <3>2. notificationLog'[k] = notificationLog[k]
      BY <1>5, <2>7
    <3> QED
      BY <2>3, <2>4, <3>1, <3>2
  <2> QED
    BY <2>6, <2>7
<1> QED
  BY <1>9, <1>10, <1>11, <1>12, <1>13, <1>14, <1>15 DEF IInv
-----------------------------------------------------------------------------
LEMMA StepIInv == IInv /\ [NotificationNext]_notificationVars => IInv'
<1> SUFFICES ASSUME IInv, [NotificationNext]_notificationVars PROVE IInv'
  OBVIOUS
<1>1. CASE NotificationNext
  <2> SUFFICES ASSUME NEW w \in Workers,
                      \/ \E notices \in Batches : EnqueueNotifications(w, notices)
                      \/ Dispatch(w)
               PROVE  IInv'
    BY <1>1 DEF NotificationNext
  <2>1. CASE \E notices \in Batches : EnqueueNotifications(w, notices)
    BY <2>1, EnqueueIInv, NotificationAssumption
  <2>2. CASE Send(w)
    BY <2>2, SendIInv
  <2>3. CASE UpdateNotification(w)
    BY <2>3, UpdateNotificationIInv
  <2> QED
    BY <2>1, <2>2, <2>3 DEF Dispatch
<1>2. CASE UNCHANGED notificationVars
  BY <1>2 DEF notificationVars, IInv, NotificationTypeOK, LogNumbered, CopiesKnown,
     CopiesTellTrueStory, Agrees, LogTellsTrueStory, VerdictMatchesSender,
     PendingHasOneCarrier, Carried
<1> QED
  BY <1>1, <1>2

(* The strengthening holds in every reachable state. *)
THEOREM NotificationInvariant == NotificationSpec => []IInv
<1> QED
  BY InitIInv, StepIInv, PTL DEF NotificationSpec

(* Whatever the workers, the log, the counter, the batches and the count   *)
(* of accepted events have their types.                                    *)
THEOREM NotificationTypeCorrect == NotificationSpec => []NotificationTypeOK
<1>1. IInv => NotificationTypeOK
  BY DEF IInv
<1> QED
  BY <1>1, NotificationInvariant, PTL

(* For every number of retries, the log tells the true story of each       *)
(* delivery and never one of a half finished retry loop.                   *)
THEOREM LogIsTrue == NotificationSpec => []LogTellsTrueStory
<1>1. IInv => LogTellsTrueStory
  BY DEF IInv
<1> QED
  BY <1>1, NotificationInvariant, PTL

(* The sender accepts no event twice, and the log says of every event      *)
(* exactly whether it was accepted.                                        *)
THEOREM VerdictIsTrue == NotificationSpec => []VerdictMatchesSender
<1>1. IInv => VerdictMatchesSender
  BY DEF IInv
<1> QED
  BY <1>1, NotificationInvariant, PTL

(* A pending event is in the batch of exactly one request. *)
THEOREM PendingIsCarriedOnce == NotificationSpec => []PendingHasOneCarrier
<1>1. IInv => PendingHasOneCarrier
  BY DEF IInv
<1> QED
  BY <1>1, NotificationInvariant, PTL
-----------------------------------------------------------------------------
(* What a step does to the log: nothing, a batch of pending events at its  *)
(* end, or the verdict of one pending event.                               *)
LogGrows(n) ==
  /\ Len(notificationLog') = nextEvent + n
  /\ DOMAIN notificationLog' = 1..(nextEvent + n)
  /\ \A k \in 1..nextEvent : notificationLog'[k] = notificationLog[k]
  /\ \A k \in (nextEvent + 1)..(nextEvent + n) : notificationLog'[k].status = "pending"

LogSettles(event) ==
  /\ event.id \in 1..nextEvent
  /\ notificationLog[event.id].status = "pending"
  /\ Settled(event)
  /\ notificationLog' = [notificationLog EXCEPT ![event.id] = event]

LEMMA StepOfLog ==
  ASSUME IInv, [NotificationNext]_notificationVars
  PROVE  \/ UNCHANGED notificationLog
         \/ \E n \in Nat : /\ LogGrows(n)
                           /\ nextEvent' = nextEvent + n
                           /\ nextEvent + n <= MaxEvents
         \/ \E event \in Event : LogSettles(event)
<1>1. CASE UNCHANGED notificationVars
  BY <1>1 DEF notificationVars
<1>2. ASSUME NEW w \in Workers, NEW notices \in Batches,
             nextEvent + Len(notices) <= MaxEvents, EnqueueNotifications(w, notices)
      PROVE  \E n \in Nat : /\ LogGrows(n)
                            /\ nextEvent' = nextEvent + n
                            /\ nextEvent + n <= MaxEvents
  <2> DEFINE n == Len(notices)
  <2>1. notices \in Seq(Notices)
    BY NotificationAssumption
  <2>2. n \in Nat
    BY <2>1, LenProperties
  <2>3. LogGrows(n)
    BY <1>2, <2>1, EnqueuedLog DEF LogGrows
  <2>4. nextEvent' = nextEvent + n
    BY <1>2 DEF EnqueueNotifications
  <2> QED
    BY <1>2, <2>2, <2>3, <2>4
<1>3. ASSUME NEW w \in Workers, Dispatch(w)
      PROVE  UNCHANGED notificationLog \/ \E event \in Event : LogSettles(event)
  <2>1. CASE Send(w)
    BY <2>1 DEF Send
  <2>2. CASE UpdateNotification(w)
    <3>1. batch[w] # << >>
      BY <2>2 DEF UpdateNotification
    <3>2. LogSettles(batch[w][1]) /\ batch[w][1] \in Event
      BY <2>2, <3>1, CopyInLoop, UpdateFacts DEF LogSettles
    <3> QED
      BY <3>2
  <2> QED
    BY <1>3, <2>1, <2>2 DEF Dispatch
<1> QED
  BY <1>1, <1>2, <1>3 DEF NotificationNext

(* A verdict in the log is never rewritten and no entry is ever lost.      *)
THEOREM VerdictsStay == NotificationSpec => VerdictsAreFinal
<1> DEFINE Stays == \A k \in DOMAIN notificationLog :
                      /\ k \in DOMAIN notificationLog'
                      /\ notificationLog[k].status # "pending"
                           => notificationLog'[k] = notificationLog[k]
<1>1. ASSUME IInv, [NotificationNext]_notificationVars PROVE Stays
  <2>1. DOMAIN notificationLog = 1..nextEvent /\ nextEvent \in Nat
    BY <1>1, LenProperties DEF IInv, NotificationTypeOK, LogNumbered
  <2>2. CASE UNCHANGED notificationLog
    BY <2>2
  <2>3. CASE \E n \in Nat : LogGrows(n)
    BY <2>1, <2>3 DEF LogGrows
  <2>4. CASE \E event \in Event : LogSettles(event)
    BY <2>1, <2>4 DEF LogSettles
  <2> QED
    BY <1>1, <2>2, <2>3, <2>4, StepOfLog
<1>2. IInv /\ [NotificationNext]_notificationVars => [Stays]_notificationVars
  BY <1>1
<1> QED
  BY <1>2, NotificationInvariant, PTL DEF NotificationSpec, VerdictsAreFinal
-----------------------------------------------------------------------------
Bounded == nextEvent <= MaxEvents

LEMMA LedgerInit == NotificationInit => Ledger!Init
  BY DEF NotificationInit, Ledger!Init, ledgerView

LEMMA LedgerStep ==
  ASSUME IInv, Bounded, [NotificationNext]_notificationVars
  PROVE  Bounded' /\ [Ledger!Next]_ledgerView
<1>1. /\ DOMAIN notificationLog = 1..nextEvent
      /\ nextEvent \in Nat
      /\ MaxEvents \in Nat
      /\ Len(notificationLog) = nextEvent
      /\ notificationLog \in Seq(Event)
  BY LenProperties, NotificationAssumption DEF IInv, NotificationTypeOK, LogNumbered
<1>2. /\ ledgerView \in Seq(LogStatus)
      /\ Len(ledgerView) = nextEvent
      /\ DOMAIN ledgerView = 1..nextEvent
      /\ \A k \in 1..nextEvent : ledgerView[k] = notificationLog[k].status
  <2>1. \A k \in 1..nextEvent : notificationLog[k].status \in LogStatus
    <3>1. \A k \in 1..nextEvent : notificationLog[k] \in Event
      BY <1>1, LenProperties
    <3> QED
      BY <3>1 DEF Event
  <2> QED
    BY <1>1, <2>1 DEF ledgerView
<1>3. Bounded'
  <2>1. CASE UNCHANGED nextEvent
    BY <2>1 DEF Bounded
  <2>2. ASSUME NEW w \in Workers, NEW notices \in Batches,
               nextEvent + Len(notices) <= MaxEvents, EnqueueNotifications(w, notices)
        PROVE  Bounded'
    BY <2>2 DEF Bounded, EnqueueNotifications
  <2> QED
    BY <2>1, <2>2 DEF NotificationNext, notificationVars, Dispatch, Send, UpdateNotification
<1>4. ASSUME UNCHANGED notificationLog
      PROVE  [Ledger!Next]_ledgerView
  BY <1>4 DEF ledgerView
<1>5. ASSUME NEW n \in Nat, LogGrows(n), nextEvent + n <= MaxEvents
      PROVE  [Ledger!Next]_ledgerView
  <2> DEFINE posted == [k \in 1..n |-> "pending"]
  <2>1. /\ posted \in Seq(LogStatus)
        /\ Len(posted) = n
    BY DEF LogStatus
  <2>2. /\ DOMAIN ledgerView' = 1..(nextEvent + n)
        /\ \A k \in 1..(nextEvent + n) :
             ledgerView'[k] = IF k <= nextEvent THEN ledgerView[k] ELSE posted[k - nextEvent]
        /\ ledgerView' = [k \in DOMAIN ledgerView' |-> ledgerView'[k]]
    BY <1>1, <1>2, <1>5 DEF ledgerView, LogGrows
  <2>3. ledgerView' = ledgerView \o posted
    <3> HIDE DEF posted
    <3>1. /\ ledgerView \o posted \in Seq(LogStatus)
          /\ Len(ledgerView \o posted) = Len(ledgerView) + Len(posted)
          /\ \A k \in 1..(Len(ledgerView) + Len(posted)) :
               (ledgerView \o posted)[k] = IF k <= Len(ledgerView) THEN ledgerView[k]
                                           ELSE posted[k - Len(ledgerView)]
      BY <1>2, <2>1, ConcatProperties, Zenon
    <3>2. ledgerView \o posted = [k \in 1..(nextEvent + n) |-> (ledgerView \o posted)[k]]
      BY <1>2, <2>1, <3>1, LenProperties
    <3> QED
      BY <1>2, <2>1, <2>2, <3>1, <3>2
  <2>4. CASE n = 0
    <3>1. ledgerView' = ledgerView
      BY <1>1, <1>2, <2>2, <2>4 DEF ledgerView
    <3> QED
      BY <3>1
  <2>5. CASE n # 0
    <3>1. n \in 1..MaxEvents
      BY <1>1, <1>5, <2>5
    <3>2. Ledger!Post(n)
      BY <1>2, <1>5, <2>3 DEF Ledger!Post, Ledger!Pending
    <3> QED
      BY <3>1, <3>2 DEF Ledger!Next
  <2> QED
    BY <2>4, <2>5
<1>6. ASSUME NEW event \in Event, LogSettles(event)
      PROVE  [Ledger!Next]_ledgerView
  <2>1. event.id \in 1..nextEvent /\ event.id \in 1..MaxEvents
    BY <1>1, <1>6 DEF LogSettles, Bounded
  <2>2. ledgerView' = [ledgerView EXCEPT ![event.id] = event.status]
    BY <1>1, <1>2, <1>6, <2>1 DEF ledgerView, LogSettles
  <2>3. ledgerView[event.id] = "pending" /\ event.status \in {"sent", "alerted"}
    BY <1>2, <1>6, <2>1 DEF LogSettles, Settled
  <2>4. Ledger!Settle(event.id)
    BY <1>2, <2>1, <2>2, <2>3 DEF Ledger!Settle, Ledger!Pending, Ledger!Settled
  <2> QED
    BY <2>1, <2>4 DEF Ledger!Next
<1> QED
  BY <1>3, <1>4, <1>5, <1>6, StepOfLog

(* Seen through the states of its entries, the pipeline implements the     *)
(* safety part of NotificationLedger: events are posted in batches and     *)
(* each is settled once, in one step.                                      *)
THEOREM ImplementsLedger == NotificationSpec => Ledger!Safety
<1>1. NotificationInit => Bounded
  BY NotificationAssumption DEF NotificationInit, Bounded
<1>2. IInv /\ Bounded /\ [NotificationNext]_notificationVars
        => Bounded' /\ [Ledger!Next]_ledgerView
  BY LedgerStep
<1> QED
  BY <1>1, <1>2, LedgerInit, NotificationInvariant, PTL
     DEF NotificationSpec, Ledger!Safety
=============================================================================
