-------------------------- MODULE SchedulingProofs --------------------------
(***************************************************************************)
(* Proofs about Scheduling, for any candidates, interviewers, edits,       *)
(* channels and workers and any bounds.                                    *)
(*                                                                         *)
(* A request works on a copy through several steps.  IInv says what is     *)
(* true of the copy in each: its target exists, its candidate exists, it   *)
(* is the edit asked for of what is stored unless another works on the same*)
(* interview, and after the check it is in conflict with nothing unless    *)
(* another request has passed the check as well.  NoticesInv adds what was *)
(* announced of each interview, and that it is never taken back.  The last *)
(* part is about Calendar, for days of any length and any months.          *)
(***************************************************************************)
EXTENDS Calendar, SequenceTheorems, FiniteSetTheorems, TLAPS

Typed ==
  /\ DOMAIN layer \subseteq Candidates
  /\ layer \in [DOMAIN layer -> Layers]
  /\ interviews \in Seq(Interview)
  /\ pc \in [Workers -> Steps]
  /\ item \in [Workers -> Interview \cup {NoItem}]
  /\ target \in [Workers -> Nat]
  /\ asked \in [Workers -> Edits \cup {NoEdit}]
  /\ layerChanges \in Nat
  /\ raced \in BOOLEAN

(* A request in progress has a copy, and a target as soon as it has one to *)
(* have.                                                                   *)
CopiesInHand ==
  \A w \in Workers :
    /\ pc[w] \in Free => item[w] = NoItem /\ target[w] = 0
    /\ pc[w] \notin Free => item[w] \in Interview
    /\ target[w] <= Len(interviews)
    /\ pc[w] \in {"written", "dispatching"} => target[w] # 0

(* Two requests on one interview are known to overlap. *)
OverlapsKnown ==
  \A v, w \in Workers :
    v # w /\ target[v] = target[w] /\ target[w] # 0 => target[w] \in overlapped

CopiesAreEdits ==
  \A w \in Workers :
    pc[w] \in {"begun", "clear"} /\ target[w] \notin overlapped \cup {0} =>
      item[w] = Edited(interviews[target[w]], asked[w])

(* Without a race only one request is between its check and its write, and *)
(* what it found is still so.                                              *)
OneClear ==
  ~raced =>
    /\ \A v, w \in Workers : pc[v] = "clear" /\ pc[w] = "clear" => v = w
    /\ \A w \in Workers : pc[w] = "clear" => Conflicts(item[w], target[w]) = {}

IInv == /\ Typed
        /\ CopiesInHand
        /\ CandidatesKnown
        /\ OverlapsKnown
        /\ CopiesAreEdits
        /\ OneClear
        /\ RaceFreeNeverDoubleBooks
        /\ LinkedUnlessSetByHand
-----------------------------------------------------------------------------
LEMMA InitIInv == Init => IInv
<1> SUFFICES ASSUME Init
             PROVE  IInv
  OBVIOUS
<1>1. /\ DOMAIN layer = {}
      /\ interviews = << >>
      /\ pc = [w \in Workers |-> "idle"]
      /\ item = [w \in Workers |-> NoItem]
      /\ target = [w \in Workers |-> 0]
      /\ asked = [w \in Workers |-> NoEdit]
      /\ layerChanges = 0 /\ raced = FALSE /\ overlapped = {}
  BY DEF Init
<1>2. layer \in [DOMAIN layer -> Layers]
  <2>1. layer = [c \in {} |-> "new"]
    BY DEF Init
  <2>2. [c \in {} |-> "new"] \in [{} -> Layers]
    OBVIOUS
  <2> QED
    BY <2>1, <2>2, <1>1
<1>3. interviews \in Seq(Interview) /\ Len(interviews) = 0 /\ DOMAIN interviews = {}
  BY <1>1
<1>4. Typed
  <2>1. DOMAIN layer \subseteq Candidates
    BY <1>1
  <2>2. /\ pc \in [Workers -> Steps] /\ item \in [Workers -> Interview \cup {NoItem}]
        /\ target \in [Workers -> Nat] /\ asked \in [Workers -> Edits \cup {NoEdit}]
        /\ layerChanges \in Nat /\ raced \in BOOLEAN
    BY <1>1 DEF Steps, Free
  <2> QED
    BY <2>1, <2>2, <1>2, <1>3 DEF Typed
<1>5. CopiesInHand
  BY <1>1, <1>3 DEF CopiesInHand, Free
<1>6. CandidatesKnown /\ OverlapsKnown /\ CopiesAreEdits /\ OneClear
  BY <1>1, <1>3 DEF CandidatesKnown, OverlapsKnown, CopiesAreEdits, OneClear
<1>7. RaceFreeNeverDoubleBooks /\ LinkedUnlessSetByHand
  BY <1>3 DEF RaceFreeNeverDoubleBooks, NoDoubleBooking, LinkedUnlessSetByHand
<1> QED
  BY <1>4, <1>5, <1>6, <1>7 DEF IInv

LEMMA AppendedInterview ==
  ASSUME NEW s \in Seq(Interview), NEW x \in Interview
  PROVE  /\ Append(s, x) \in Seq(Interview)
         /\ Len(s) \in Nat
         /\ DOMAIN s = 1..Len(s)
         /\ Len(Append(s, x)) = Len(s) + 1
         /\ DOMAIN Append(s, x) = 1..(Len(s) + 1)
         /\ Append(s, x)[Len(s) + 1] = x
         /\ \A k \in 1..Len(s) : Append(s, x)[k] = s[k]
BY AppendProperties, LenProperties

(* If x meets nobody it should not, it may be put beside or in place of an *)
(* interview.                                                              *)
LEMMA NoDoubleWith ==
  ASSUME NEW x \in Interview, NEW y \in Interview, NEW t \in Times,
         Busy(x, t), Busy(y, t),
         \/ x.candidate = y.candidate
         \/ Range(x.interviewers) \cap Range(y.interviewers) # {}
  PROVE  IsActiveStatus(y.status) /\ overlaps(x, y) /\ SharesPeople(x, y)
<1>1. /\ x.starts \in Nat /\ x.ends \in Nat /\ y.starts \in Nat /\ y.ends \in Nat /\ t \in Nat
  BY SchedulingAssumption DEF Interview
<1>2. x.starts <= t /\ t < x.ends /\ y.starts <= t /\ t < y.ends
  BY DEF Busy
<1>3. overlaps(x, y)
  BY <1>1, <1>2 DEF overlaps
<1>4. IsActiveStatus(y.status)
  BY DEF Busy, IsActiveStatus
<1> QED
  BY <1>3, <1>4 DEF SharesPeople

(* The candidate's layer and the link, seen by all requests. *)
LEMMA CreateCandidateStep ==
  ASSUME IInv, NEW c \in Candidates, CreateCandidate(c)
  PROVE  IInv'
<1>1. /\ DOMAIN layer' = DOMAIN layer \cup {c}
      /\ c \notin DOMAIN layer
      /\ \A d \in DOMAIN layer : layer'[d] = layer[d]
      /\ layer'[c] = "new"
      /\ layer' \in [DOMAIN layer' -> Layers]
      /\ UNCHANGED <<interviews, layerChanges, pc, item, target, asked, requests, overlapped, raced>>
  BY SchedulingAssumption
     DEF CreateCandidate, CandidateExists, requestVars, IInv, Typed
<1>2. Typed' /\ CopiesInHand' /\ OverlapsKnown' /\ CopiesAreEdits'
  BY <1>1 DEF IInv, Typed, CopiesInHand, OverlapsKnown, CopiesAreEdits
<1>3. CandidatesKnown'
  BY <1>1 DEF IInv, CandidatesKnown, CandidateExists
<1>4. OneClear' /\ RaceFreeNeverDoubleBooks'
  BY <1>1 DEF IInv, OneClear, Conflicts, RaceFreeNeverDoubleBooks, NoDoubleBooking
<1>5. LinkedUnlessSetByHand'
  BY <1>1 DEF IInv, CandidatesKnown, CandidateExists, LinkedUnlessSetByHand
<1> QED
  BY <1>2, <1>3, <1>4, <1>5 DEF IInv

LEMMA UpdateLayerStep ==
  ASSUME IInv, NEW c \in Candidates, NEW l \in Layers, UpdateCandidateStatusLayer(c, l)
  PROVE  IInv'
<1>1. /\ DOMAIN layer' = DOMAIN layer
      /\ layer' \in [DOMAIN layer' -> Layers]
      /\ layerChanges' \in Nat /\ layerChanges' > 0
      /\ UNCHANGED <<interviews, pc, item, target, asked, requests, overlapped, raced>>
  BY DEF UpdateCandidateStatusLayer, CandidateExists, requestVars, IInv, Typed
<1>2. Typed' /\ CopiesInHand' /\ OverlapsKnown' /\ CopiesAreEdits'
  BY <1>1 DEF IInv, Typed, CopiesInHand, OverlapsKnown, CopiesAreEdits
<1>3. CandidatesKnown' /\ LinkedUnlessSetByHand'
  BY <1>1 DEF IInv, CandidatesKnown, CandidateExists, LinkedUnlessSetByHand
<1>4. OneClear' /\ RaceFreeNeverDoubleBooks'
  BY <1>1 DEF IInv, OneClear, Conflicts, RaceFreeNeverDoubleBooks, NoDoubleBooking
<1> QED
  BY <1>2, <1>3, <1>4 DEF IInv

(* A request begins with a copy of an interview or a new one. *)
LEMMA BeginStep ==
  ASSUME IInv, NEW w \in Workers, NEW id \in 0..Len(interviews), NEW x \in Interview,
         NEW edit \in Edits \cup {NoEdit}, Begin(w, id, x, edit), CandidateExists(x.candidate),
         id # 0 => x = Edited(interviews[id], edit)
  PROVE  IInv'
<1>1. /\ pc[w] \in Free
      /\ pc' = [pc EXCEPT ![w] = "begun"]
      /\ item' = [item EXCEPT ![w] = x]
      /\ target' = [target EXCEPT ![w] = id]
      /\ asked' = [asked EXCEPT ![w] = edit]
      /\ overlapped' = overlapped \cup (({id} \ {0}) \cap {target[v] : v \in Workers})
      /\ UNCHANGED <<layer, layerChanges, interviews, raced>>
  BY DEF Begin, storeVars
<1>2. id \in Nat /\ id <= Len(interviews)
  <2>1. Len(interviews) \in Nat
    BY LenProperties DEF IInv, Typed
  <2> QED
    BY <2>1
<1>3. Typed' /\ CopiesInHand'
  BY <1>1, <1>2 DEF IInv, Typed, CopiesInHand, Steps, Free
<1>4. CandidatesKnown'
  BY <1>1 DEF IInv, CandidatesKnown, CandidateExists, Typed
<1>5. OverlapsKnown'
  BY <1>1 DEF IInv, OverlapsKnown, Typed
<1>6. CopiesAreEdits'
  BY <1>1 DEF IInv, CopiesAreEdits, Typed
<1>7. OneClear'
  <2>1. \A v \in Workers : pc'[v] = "clear" =>
          v # w /\ pc[v] = "clear" /\ item'[v] = item[v] /\ target'[v] = target[v]
    BY <1>1 DEF IInv, Typed
  <2> QED
    BY <2>1, <1>1 DEF IInv, OneClear, Conflicts
<1>8. RaceFreeNeverDoubleBooks'
  BY <1>1 DEF IInv, RaceFreeNeverDoubleBooks, NoDoubleBooking
<1>9. LinkedUnlessSetByHand'
  BY <1>1 DEF IInv, LinkedUnlessSetByHand, Typed, Free
<1> QED
  BY <1>3, <1>4, <1>5, <1>6, <1>7, <1>8, <1>9 DEF IInv

LEMMA BeginCreateStep ==
  ASSUME IInv, NEW w \in Workers, BeginCreate(w)
  PROVE  IInv'
<1>1. PICK c \in Candidates, list \in InterviewerLists, s \in Times, e \in Times :
        /\ CandidateExists(c)
        /\ Begin(w, 0, [candidate |-> c, interviewers |-> list,
                        starts |-> s, ends |-> e, status |-> "scheduled"], NoEdit)
  BY DEF BeginCreate
<1> DEFINE x == [candidate |-> c, interviewers |-> list,
                 starts |-> s, ends |-> e, status |-> "scheduled"]
<1>2. x \in Interview /\ x.candidate = c
  BY DEF Interview, Statuses
<1>3. 0 \in 0..Len(interviews)
  BY LenProperties DEF IInv, Typed
<1> HIDE DEF x
<1> QED
  BY <1>1, <1>2, <1>3, BeginStep DEF x

LEMMA EditedInterview ==
  ASSUME NEW old \in Interview, NEW edit \in Edits
  PROVE  /\ Edited(old, edit) \in Interview
         /\ Edited(old, edit).candidate =
              IF "candidate" \in DOMAIN edit THEN edit["candidate"] ELSE old.candidate
<1>1. /\ "candidate" \in DOMAIN edit => edit["candidate"] \in Candidates
      /\ "interviewers" \in DOMAIN edit => edit["interviewers"] \in InterviewerLists
      /\ "starts" \in DOMAIN edit => edit["starts"] \in Times
      /\ "ends" \in DOMAIN edit => edit["ends"] \in Times
      /\ "status" \in DOMAIN edit => edit["status"] \in Statuses
  BY SchedulingAssumption
<1>2. /\ old.candidate \in Candidates /\ old.interviewers \in InterviewerLists
      /\ old.starts \in Times /\ old.ends \in Times /\ old.status \in Statuses
  BY DEF Interview
<1>3. "rescheduled" \in Statuses
  BY DEF Statuses
<1> QED
  BY <1>1, <1>2, <1>3 DEF Edited, Interview

LEMMA BeginUpdateStep ==
  ASSUME IInv, NEW w \in Workers, BeginUpdate(w)
  PROVE  IInv'
<1>1. PICK id \in DOMAIN interviews, edit \in Edits :
        /\ "candidate" \in DOMAIN edit => CandidateExists(edit["candidate"])
        /\ Begin(w, id, Edited(interviews[id], edit), edit)
  BY DEF BeginUpdate
<1>2. DOMAIN interviews = 1..Len(interviews) /\ Len(interviews) \in Nat
      /\ interviews[id] \in Interview
  BY LenProperties, ElementOfSeq DEF IInv, Typed
<1>3. id \in 0..Len(interviews)
  BY <1>2
<1>4. CandidateExists(interviews[id].candidate)
  BY DEF IInv, CandidatesKnown
<1>5. /\ Edited(interviews[id], edit) \in Interview
      /\ CandidateExists(Edited(interviews[id], edit).candidate)
  BY <1>1, <1>2, <1>4, EditedInterview
<1> QED
  BY <1>1, <1>3, <1>5, BeginStep

LEMMA DetectConflictsStep ==
  ASSUME IInv, NEW w \in Workers, detectConflicts(w)
  PROVE  IInv'
<1>1. /\ pc[w] = "begun"
      /\ UNCHANGED <<layer, layerChanges, interviews, requests, overlapped>>
  BY DEF detectConflicts, storeVars
<1>2. CASE Conflicts(item[w], target[w]) = {}
  <2>1. /\ pc' = [pc EXCEPT ![w] = "clear"]
        /\ raced' = (raced \/ \E v \in Workers : pc[v] = "clear")
        /\ UNCHANGED <<item, target, asked>>
    BY <1>2 DEF detectConflicts
  <2>2. Typed' /\ CopiesInHand' /\ OverlapsKnown'
    BY <1>1, <2>1 DEF IInv, Typed, CopiesInHand, OverlapsKnown, Steps, Free
  <2>3. CandidatesKnown'
    BY <1>1, <2>1 DEF IInv, CandidatesKnown, CandidateExists
  <2>4. CopiesAreEdits'
    BY <1>1, <2>1 DEF IInv, CopiesAreEdits, Typed
  <2>5. OneClear'
    <3>1. SUFFICES ASSUME ~raced'
                   PROVE  /\ \A u, v \in Workers : pc'[u] = "clear" /\ pc'[v] = "clear" => u = v
                          /\ \A v \in Workers : pc'[v] = "clear" =>
                               Conflicts(item[v], target[v]) = {}
      BY <1>1, <2>1 DEF OneClear, Conflicts
    <3>2. \A v \in Workers : pc'[v] = "clear" => v = w
      BY <3>1, <2>1 DEF IInv, Typed
    <3> QED
      BY <3>2, <1>2
  <2>6. RaceFreeNeverDoubleBooks'
    BY <1>1, <2>1 DEF IInv, RaceFreeNeverDoubleBooks, NoDoubleBooking
  <2>7. LinkedUnlessSetByHand'
    BY <1>1, <2>1 DEF IInv, LinkedUnlessSetByHand, Typed
  <2> QED
    BY <2>2, <2>3, <2>4, <2>5, <2>6, <2>7 DEF IInv
<1>3. CASE Conflicts(item[w], target[w]) # {}
  <2>1. /\ pc' = [pc EXCEPT ![w] = "refused"]
        /\ item' = [item EXCEPT ![w] = NoItem]
        /\ target' = [target EXCEPT ![w] = 0]
        /\ asked' = [asked EXCEPT ![w] = NoEdit]
        /\ UNCHANGED raced
    BY <1>3 DEF detectConflicts
  <2>2. Typed' /\ CopiesInHand' /\ OverlapsKnown'
    BY <1>1, <2>1, LenProperties DEF IInv, Typed, CopiesInHand, OverlapsKnown, Steps, Free
  <2>3. CandidatesKnown'
    BY <1>1, <2>1 DEF IInv, CandidatesKnown, CandidateExists, Typed
  <2>4. CopiesAreEdits'
    BY <1>1, <2>1 DEF IInv, CopiesAreEdits, Typed
  <2>5. OneClear' /\ RaceFreeNeverDoubleBooks'
    BY <1>1, <2>1 DEF IInv, OneClear, Conflicts, Typed, RaceFreeNeverDoubleBooks, NoDoubleBooking
  <2>6. LinkedUnlessSetByHand'
    BY <1>1, <2>1 DEF IInv, LinkedUnlessSetByHand, Typed
  <2> QED
    BY <2>2, <2>3, <2>4, <2>5, <2>6 DEF IInv
<1> QED
  BY <1>2, <1>3

LEMMA CreateInterviewStep ==
  ASSUME IInv, NEW w \in Workers, CreateInterview(w)
  PROVE  IInv'
<1> DEFINE n == Len(interviews) + 1
           x == item[w]
<1>1. /\ pc[w] = "clear" /\ target[w] = 0
      /\ interviews' = Append(interviews, x)
      /\ target' = [target EXCEPT ![w] = n]
      /\ pc' = [pc EXCEPT ![w] = "written"]
      /\ UNCHANGED <<layer, layerChanges, item, asked, requests, overlapped, raced>>
  BY DEF CreateInterview
<1>2. x \in Interview /\ interviews \in Seq(Interview)
  BY <1>1 DEF IInv, Typed, CopiesInHand, Free
<1>3. /\ interviews' \in Seq(Interview)
      /\ Len(interviews) \in Nat
      /\ DOMAIN interviews = 1..Len(interviews)
      /\ Len(interviews') = n
      /\ DOMAIN interviews' = 1..n
      /\ interviews'[n] = x
      /\ \A k \in DOMAIN interviews : interviews'[k] = interviews[k] /\ interviews[k] \in Interview
  <2> HIDE DEF x
  <2> QED
    BY <1>1, <1>2, AppendedInterview, ElementOfSeq
<1>4. n \in Nat /\ n # 0 /\ DOMAIN interviews' = DOMAIN interviews \cup {n}
  BY <1>3
<1>5. \A v \in Workers : target[v] < n
  BY <1>3 DEF IInv, CopiesInHand, Typed
<1>6. CandidateExists(x.candidate)
  BY <1>1, <1>2, SchedulingAssumption DEF IInv, CandidatesKnown
<1> HIDE DEF n, x
<1>7. Typed'
  BY <1>1, <1>3, <1>4 DEF IInv, Typed, Steps
<1>8. CopiesInHand'
  BY <1>1, <1>2, <1>3, <1>4, <1>5 DEF IInv, Typed, CopiesInHand, Free, x, n
<1>9. CandidatesKnown'
  BY <1>1, <1>3, <1>4, <1>6 DEF IInv, CandidatesKnown, CandidateExists
<1>10. OverlapsKnown'
  BY <1>1, <1>4, <1>5 DEF IInv, OverlapsKnown, Typed
<1>11. CopiesAreEdits'
  <2> SUFFICES ASSUME NEW v \in Workers, pc'[v] \in {"begun", "clear"},
                      target'[v] \notin overlapped \cup {0}
               PROVE  item[v] = Edited(interviews'[target'[v]], asked[v])
    BY <1>1 DEF CopiesAreEdits
  <2>1. v # w /\ pc'[v] = pc[v] /\ target'[v] = target[v]
    BY <1>1 DEF IInv, Typed
  <2>2. target[v] \in DOMAIN interviews
    BY <1>3, <2>1 DEF IInv, CopiesInHand, Typed
  <2> QED
    BY <1>3, <2>1, <2>2 DEF IInv, CopiesAreEdits
<1>12. OneClear'
  <2>1. ~raced => \A v \in Workers : pc'[v] # "clear"
    BY <1>1 DEF IInv, OneClear, Typed
  <2> QED
    BY <1>1, <2>1 DEF OneClear
<1>13. RaceFreeNeverDoubleBooks'
  <2> SUFFICES ASSUME ~raced, NEW j \in DOMAIN interviews', NEW k \in DOMAIN interviews',
                      NEW t \in Times, Busy(interviews'[j], t), Busy(interviews'[k], t),
                      \/ interviews'[j].candidate = interviews'[k].candidate
                      \/ Range(interviews'[j].interviewers)
                           \cap Range(interviews'[k].interviewers) # {},
                      j # k
               PROVE  FALSE
    BY <1>1 DEF RaceFreeNeverDoubleBooks, NoDoubleBooking
  <2>1. Conflicts(x, 0) = {}
    BY <1>1 DEF IInv, OneClear, x
  <2>2. \A i \in DOMAIN interviews : ~ /\ IsActiveStatus(interviews[i].status)
                                       /\ overlaps(x, interviews[i])
                                       /\ SharesPeople(x, interviews[i])
    BY <2>1, <1>3 DEF Conflicts
  <2>3. CASE j \in DOMAIN interviews /\ k \in DOMAIN interviews
    BY <2>3, <1>1, <1>3 DEF IInv, RaceFreeNeverDoubleBooks, NoDoubleBooking
  <2>4. CASE j = n /\ k \in DOMAIN interviews
    BY <2>2, <2>4, <1>2, <1>3, NoDoubleWith
  <2>5. CASE k = n /\ j \in DOMAIN interviews
    BY <2>2, <2>5, <1>2, <1>3, NoDoubleWith
  <2> QED
    BY <2>3, <2>4, <2>5, <1>4
<1>14. LinkedUnlessSetByHand'
  <2> SUFFICES ASSUME NEW k \in DOMAIN interviews', ~(layerChanges > 0)
               PROVE  \/ layer[interviews'[k].candidate] = "interview"
                      \/ \E v \in Workers : /\ pc'[v] \in {"written", "dispatching"}
                                            /\ item[v].candidate = interviews'[k].candidate
    BY <1>1 DEF LinkedUnlessSetByHand
  <2>1. CASE k = n
    BY <2>1, <1>1, <1>3 DEF IInv, Typed, x
  <2>2. CASE k \in DOMAIN interviews
    BY <2>2, <1>1, <1>3 DEF IInv, LinkedUnlessSetByHand, Typed
  <2> QED
    BY <2>1, <2>2, <1>4
<1> QED
  BY <1>7, <1>8, <1>9, <1>10, <1>11, <1>12, <1>13, <1>14 DEF IInv

LEMMA UpdateInterviewStep ==
  ASSUME IInv, NEW w \in Workers, UpdateInterview(w)
  PROVE  IInv'
<1> DEFINE n == target[w]
           x == item[w]
<1>1. /\ pc[w] = "clear" /\ n # 0
      /\ interviews' = [interviews EXCEPT ![n] = x]
      /\ pc' = [pc EXCEPT ![w] = "written"]
      /\ asked' = [asked EXCEPT ![w] = NoEdit]
      /\ UNCHANGED <<layer, layerChanges, item, target, requests, overlapped, raced>>
  BY DEF UpdateInterview
<1>2. x \in Interview /\ interviews \in Seq(Interview)
  BY <1>1 DEF IInv, Typed, CopiesInHand, Free
<1>3. /\ DOMAIN interviews = 1..Len(interviews)
      /\ n \in DOMAIN interviews
      /\ \A k \in DOMAIN interviews : interviews[k] \in Interview
  BY <1>1, <1>2, LenProperties, ElementOfSeq DEF IInv, Typed, CopiesInHand
<1>4. /\ interviews' \in Seq(Interview)
      /\ Len(interviews') = Len(interviews)
      /\ DOMAIN interviews' = DOMAIN interviews
      /\ interviews'[n] = x
      /\ \A k \in DOMAIN interviews \ {n} : interviews'[k] = interviews[k]
  <2> HIDE DEF x, n
  <2> QED
    BY <1>1, <1>2, <1>3, ExceptSeq
<1>5. CandidateExists(x.candidate)
  BY <1>1, <1>2, SchedulingAssumption DEF IInv, CandidatesKnown
<1>6. Typed' /\ CopiesInHand'
  <2> HIDE DEF x
  <2> QED
    BY <1>1, <1>4 DEF IInv, Typed, CopiesInHand, Steps, Free
<1>7. CandidatesKnown'
  <2> HIDE DEF x, n
  <2> QED
    BY <1>1, <1>4, <1>5 DEF IInv, CandidatesKnown, CandidateExists
<1>8. OverlapsKnown'
  BY <1>1 DEF IInv, OverlapsKnown
<1>9. CopiesAreEdits'
  <2> SUFFICES ASSUME NEW v \in Workers, pc'[v] \in {"begun", "clear"},
                      target[v] \notin overlapped \cup {0}
               PROVE  item[v] = Edited(interviews'[target[v]], asked'[v])
    BY <1>1 DEF CopiesAreEdits
  <2>1. v # w /\ pc'[v] = pc[v] /\ asked'[v] = asked[v]
    BY <1>1 DEF IInv, Typed
  <2>2. target[v] # n
    BY <2>1 DEF IInv, OverlapsKnown
  <2>3. target[v] \in DOMAIN interviews
    BY <1>3 DEF IInv, CopiesInHand, Typed
  <2> QED
    BY <1>4, <2>1, <2>2, <2>3 DEF IInv, CopiesAreEdits
<1>10. OneClear'
  <2>1. ~raced => \A v \in Workers : pc'[v] # "clear"
    BY <1>1 DEF IInv, OneClear, Typed
  <2> QED
    BY <1>1, <2>1 DEF OneClear
<1>11. RaceFreeNeverDoubleBooks'
  <2> SUFFICES ASSUME ~raced, NEW j \in DOMAIN interviews', NEW k \in DOMAIN interviews',
                      NEW t \in Times, Busy(interviews'[j], t), Busy(interviews'[k], t),
                      \/ interviews'[j].candidate = interviews'[k].candidate
                      \/ Range(interviews'[j].interviewers)
                           \cap Range(interviews'[k].interviewers) # {},
                      j # k
               PROVE  FALSE
    <3>1. raced' = raced
      BY <1>1
    <3> QED
      BY <3>1 DEF RaceFreeNeverDoubleBooks, NoDoubleBooking
  <2>0. j \in DOMAIN interviews /\ k \in DOMAIN interviews
    BY <1>4
  <2>1. Conflicts(x, n) = {}
    BY <1>1 DEF IInv, OneClear
  <2>2. \A i \in DOMAIN interviews \ {n} : ~ /\ IsActiveStatus(interviews[i].status)
                                             /\ overlaps(x, interviews[i])
                                             /\ SharesPeople(x, interviews[i])
    BY <2>1 DEF Conflicts
  <2> HIDE DEF x, n
  <2>3. CASE j # n /\ k # n
    BY <2>0, <2>3, <1>1, <1>4 DEF IInv, RaceFreeNeverDoubleBooks, NoDoubleBooking
  <2>4. CASE j = n
    BY <2>0, <2>2, <2>4, <1>2, <1>3, <1>4, NoDoubleWith
  <2>5. CASE k = n
    BY <2>0, <2>2, <2>5, <1>2, <1>3, <1>4, NoDoubleWith
  <2> QED
    BY <2>3, <2>4, <2>5
<1>12. LinkedUnlessSetByHand'
  <2> SUFFICES ASSUME NEW k \in DOMAIN interviews, layerChanges = 0
               PROVE  \/ layer[interviews'[k].candidate] = "interview"
                      \/ \E v \in Workers : /\ pc'[v] \in {"written", "dispatching"}
                                            /\ item[v].candidate = interviews'[k].candidate
    BY <1>1, <1>4 DEF LinkedUnlessSetByHand, IInv, Typed
  <2>1. CASE k = n
    BY <2>1, <1>1, <1>4 DEF IInv, Typed
  <2>2. CASE k # n
    <3> HIDE DEF n, x
    <3> QED
      BY SMTT(30), <2>2, <1>1, <1>4 DEF IInv, LinkedUnlessSetByHand, Typed
  <2> QED
    BY <2>1, <2>2
<1> QED
  BY <1>6, <1>7, <1>8, <1>9, <1>10, <1>11, <1>12 DEF IInv

(* The notifications of a request change nothing of the request but pc. *)
LEMMA NoticeStep ==
  ASSUME IInv, NEW w \in Workers, NEW step \in {"written", "dispatching"},
         pc[w] \in {"written", "dispatching"}, pc' = [pc EXCEPT ![w] = step],
         UNCHANGED <<layer, layerChanges, interviews, item, target, asked, overlapped, raced>>
  PROVE  IInv'
<1>1. Typed' /\ CopiesInHand'
  BY DEF IInv, Typed, CopiesInHand, Steps, Free
<1>2. CandidatesKnown' /\ OverlapsKnown'
  BY DEF IInv, CandidatesKnown, CandidateExists, OverlapsKnown
<1>3. CopiesAreEdits'
  BY DEF IInv, CopiesAreEdits, Typed
<1>4. OneClear' /\ RaceFreeNeverDoubleBooks'
  BY DEF IInv, OneClear, Conflicts, Typed, RaceFreeNeverDoubleBooks, NoDoubleBooking
<1>5. LinkedUnlessSetByHand'
  BY DEF IInv, LinkedUnlessSetByHand, Typed
<1> QED
  BY <1>1, <1>2, <1>3, <1>4, <1>5 DEF IInv

LEMMA LinkStatusStep ==
  ASSUME IInv, NEW w \in Workers, LinkStatus(w)
  PROVE  IInv'
<1> DEFINE c == item[w].candidate
<1>1. /\ pc[w] = "dispatching"
      /\ item' = [item EXCEPT ![w] = NoItem]
      /\ target' = [target EXCEPT ![w] = 0]
      /\ UNCHANGED <<interviews, layerChanges, asked, overlapped, raced>>
  BY DEF LinkStatus
<1>2. item[w] \in Interview
  BY <1>1 DEF IInv, CopiesInHand, Free
<1>3. CandidateExists(c)
  BY <1>2, SchedulingAssumption DEF IInv, CandidatesKnown
<1>4. /\ layer' = [layer EXCEPT ![c] = "interview"]
      /\ pc' = [pc EXCEPT ![w] = "answered"]
  BY <1>3 DEF LinkStatus
<1> HIDE DEF c
<1>5. /\ DOMAIN layer' = DOMAIN layer
      /\ c \in DOMAIN layer
      /\ layer'[c] = "interview"
      /\ \A d \in DOMAIN layer \ {c} : layer'[d] = layer[d]
      /\ layer' \in [DOMAIN layer' -> Layers]
  BY <1>3, <1>4, SchedulingAssumption DEF CandidateExists, IInv, Typed
<1>6. Typed' /\ CopiesInHand'
  BY <1>1, <1>4, <1>5, LenProperties DEF IInv, Typed, CopiesInHand, Steps, Free
<1>7. CandidatesKnown'
  BY <1>1, <1>5 DEF IInv, CandidatesKnown, CandidateExists, Typed
<1>8. OverlapsKnown' /\ CopiesAreEdits'
  BY <1>1, <1>4 DEF IInv, OverlapsKnown, CopiesAreEdits, Typed
<1>9. OneClear' /\ RaceFreeNeverDoubleBooks'
  BY <1>1, <1>4 DEF IInv, OneClear, Conflicts, Typed, RaceFreeNeverDoubleBooks, NoDoubleBooking
<1>10. LinkedUnlessSetByHand'
  <2> SUFFICES ASSUME NEW k \in DOMAIN interviews, layerChanges = 0,
                      layer'[interviews[k].candidate] # "interview"
               PROVE  \E v \in Workers : /\ pc'[v] \in {"written", "dispatching"}
                                         /\ item'[v].candidate = interviews[k].candidate
    BY <1>1 DEF LinkedUnlessSetByHand, IInv, Typed
  <2>1. interviews[k].candidate \in DOMAIN layer \ {c}
    BY <1>5 DEF IInv, CandidatesKnown, CandidateExists
  <2>2. PICK v \in Workers : /\ pc[v] \in {"written", "dispatching"}
                             /\ item[v].candidate = interviews[k].candidate
    BY <1>5, <2>1 DEF IInv, LinkedUnlessSetByHand
  <2>3. v # w
    BY <2>1, <2>2 DEF c
  <2> QED
    BY <2>2, <2>3, <1>1, <1>4 DEF IInv, Typed
<1> QED
  BY <1>6, <1>7, <1>8, <1>9, <1>10 DEF IInv

LEMMA ProceedStep ==
  ASSUME IInv, NEW w \in Workers, Proceed(w)
  PROVE  IInv'
<1>1. CASE Announce(w)
  BY <1>1, NoticeStep DEF Announce, storeVars
<1>2. CASE Dispatch(w)
  <2>1. /\ pc[w] = "dispatching"
        /\ UNCHANGED <<layer, layerChanges, interviews, pc, item, target, asked, overlapped, raced>>
    BY <1>2 DEF Dispatch, storeVars, requestVars
  <2>2. pc' = [pc EXCEPT ![w] = "dispatching"]
    BY <2>1 DEF IInv, Typed
  <2> QED
    BY <2>1, <2>2, NoticeStep
<1> QED
  BY <1>1, <1>2, DetectConflictsStep, CreateInterviewStep, UpdateInterviewStep, LinkStatusStep
     DEF Proceed

LEMMA StutterStep ==
  ASSUME IInv, UNCHANGED vars
  PROVE  IInv'
BY DEF vars, IInv, Typed, CopiesInHand, CandidatesKnown, CandidateExists, OverlapsKnown,
       CopiesAreEdits, OneClear, Conflicts, RaceFreeNeverDoubleBooks, NoDoubleBooking,
       LinkedUnlessSetByHand

LEMMA StepIInv == IInv /\ [Next]_vars => IInv'
BY CreateCandidateStep, UpdateLayerStep, BeginCreateStep, BeginUpdateStep, ProceedStep,
   StutterStep DEF Next

LEMMA Inductive == Spec => []IInv
BY InitIInv, StepIInv, PTL DEF Spec
-----------------------------------------------------------------------------
(* Type correctness of the scheduling, for any sets and bounds. *)
THEOREM SchedulingTypeCorrect == Spec => []TypeOK
<1> DEFINE Counted == requests \in Nat /\ overlapped \subseteq Nat
<1>1. Init => Counted
  BY DEF Init
<1>2. ASSUME IInv, Counted, Next
      PROVE  Counted'
  <2>1. ASSUME NEW c \in Candidates, CreateCandidate(c) PROVE Counted'
    BY <1>2, <2>1 DEF CreateCandidate, requestVars
  <2>2. ASSUME NEW c \in Candidates, NEW l \in Layers, UpdateCandidateStatusLayer(c, l)
        PROVE  Counted'
    BY <1>2, <2>2 DEF UpdateCandidateStatusLayer, requestVars
  <2>3. ASSUME NEW w \in Workers, NEW id, NEW x, NEW edit, Begin(w, id, x, edit)
        PROVE  Counted'
    BY <1>2, <2>3 DEF Begin, IInv, Typed
  <2>4. ASSUME NEW w \in Workers, BeginCreate(w) \/ BeginUpdate(w) PROVE Counted'
    BY <2>3, <2>4 DEF BeginCreate, BeginUpdate
  <2>5. ASSUME NEW w \in Workers, Proceed(w) PROVE Counted'
    BY <1>2, <2>5 DEF Proceed, detectConflicts, CreateInterview, UpdateInterview, Announce,
                      Dispatch, LinkStatus, requestVars
  <2> QED
    BY <1>2, <2>1, <2>2, <2>4, <2>5 DEF Next
<1>3. IInv /\ Counted /\ [Next]_vars => Counted'
  BY <1>2 DEF vars
<1>4. IInv /\ Counted => TypeOK
  BY DEF IInv, Typed, TypeOK
<1> HIDE DEF Counted
<1> QED
  BY <1>1, <1>3, <1>4, Inductive, PTL DEF Spec

(* As long as no request passes the conflict check between the check and   *)
(* the write of another one, nobody is ever booked twice, for any number   *)
(* of requests, people and interviews.                                     *)
THEOREM NoRaceNoDoubleBooking == Spec => []RaceFreeNeverDoubleBooks
<1>1. IInv => RaceFreeNeverDoubleBooks
  BY DEF IInv
<1> QED
  BY <1>1, Inductive, PTL

(* Interviews and requests in progress name stored candidates only: the    *)
(* link of the candidate's status cannot fail.                             *)
THEOREM CandidatesAreKnown == Spec => []CandidatesKnown
<1>1. IInv => CandidatesKnown
  BY DEF IInv
<1> QED
  BY <1>1, Inductive, PTL

(* The candidate of every interview is in the layer "interview" as soon as *)
(* the request that wrote it is through, unless layers were set by hand.   *)
THEOREM CandidatesAreLinked == Spec => []LinkedUnlessSetByHand
<1>1. IInv => LinkedUnlessSetByHand
  BY DEF IInv
<1> QED
  BY <1>1, Inductive, PTL

(* An update that overlapped with no other on its interview changes what   *)
(* the body of that request asks for and nothing else of what is stored    *)
(* when it writes.                                                         *)
THEOREM UpdatesWriteWhatWasAsked == Spec => UpdateWritesWhatWasAsked
<1> DEFINE A == \A w \in Workers :
                  pc[w] = "clear" /\ pc'[w] = "written" /\ target[w] \notin overlapped \cup {0} =>
                    interviews' = [interviews EXCEPT ![target[w]] = Edited(@, asked[w])]
<1>1. IInv /\ [Next]_vars => [A]_vars
  <2> SUFFICES ASSUME IInv, Next, NEW w \in Workers, pc[w] = "clear", pc'[w] = "written",
                      target[w] \notin overlapped \cup {0}
               PROVE  interviews' = [interviews EXCEPT ![target[w]] = Edited(@, asked[w])]
    OBVIOUS
  <2>1. item[w] = Edited(interviews[target[w]], asked[w])
    BY DEF IInv, CopiesAreEdits
  <2>2. UpdateInterview(w)
    <3>1. ASSUME NEW c \in Candidates, CreateCandidate(c) PROVE FALSE
      BY <3>1 DEF CreateCandidate, requestVars
    <3>2. ASSUME NEW c \in Candidates, NEW l \in Layers, UpdateCandidateStatusLayer(c, l)
          PROVE FALSE
      BY <3>2 DEF UpdateCandidateStatusLayer, requestVars
    <3>3. ASSUME NEW v \in Workers, NEW id, NEW x, NEW edit, Begin(v, id, x, edit)
          PROVE FALSE
      BY <3>3 DEF Begin, IInv, Typed, Free
    <3>4. ASSUME NEW v \in Workers, BeginCreate(v) \/ BeginUpdate(v) PROVE FALSE
      BY <3>3, <3>4 DEF BeginCreate, BeginUpdate
    <3>5. ASSUME NEW v \in Workers, detectConflicts(v) PROVE FALSE
      BY <3>5 DEF detectConflicts, IInv, Typed
    <3>6. ASSUME NEW v \in Workers, CreateInterview(v) PROVE FALSE
      BY <3>6 DEF CreateInterview, IInv, Typed
    <3>7. ASSUME NEW v \in Workers, UpdateInterview(v) PROVE v = w
      BY <3>7 DEF UpdateInterview, IInv, Typed
    <3>8. ASSUME NEW v \in Workers, Announce(v) PROVE FALSE
      BY <3>8 DEF Announce, IInv, Typed
    <3>9. ASSUME NEW v \in Workers, Dispatch(v) PROVE FALSE
      BY <3>9 DEF Dispatch, requestVars
    <3>10. ASSUME NEW v \in Workers, LinkStatus(v) PROVE FALSE
      BY <3>10 DEF LinkStatus, IInv, Typed
    <3> QED
      BY <3>1, <3>2, <3>4, <3>5, <3>6, <3>7, <3>8, <3>9, <3>10 DEF Next, Proceed
  <2>3. interviews' = [interviews EXCEPT ![target[w]] = Edited(interviews[target[w]], asked[w])]
    BY <2>1, <2>2 DEF UpdateInterview
  <2> QED
    BY <2>3
<1> QED
  BY <1>1, Inductive, PTL DEF Spec, UpdateWritesWhatWasAsked
-----------------------------------------------------------------------------
(* The notifications.  A request writes first and enqueues later, so that  *)
(* what was announced of an interview is old as long as a request is       *)
(* between the two; and nothing is taken back from the log.                *)

NoticeOf(k) == notificationLog[k].notice

(* Events are numbered by their place in the log, and a copy in a batch    *)
(* says what the event in the log says.                                    *)
LogNumbered ==
  /\ notificationLog \in Seq(N!Event)
  /\ Len(notificationLog) = nextEvent
  /\ \A k \in 1..nextEvent : notificationLog[k].id = k
  /\ batch \in [Workers -> Seq(N!Event)]
  /\ \A w \in Workers : \A j \in DOMAIN batch[w] :
       /\ batch[w][j].id \in 1..nextEvent
       /\ NoticeOf(batch[w][j].id) = batch[w][j].notice

(* What was written is stored until it is announced, unless requests       *)
(* overlap.                                                                *)
WrittenIsStored ==
  \A w \in Workers :
    pc[w] = "written" /\ target[w] \notin overlapped => item[w] = interviews[target[w]]

Unannounced(id) == \E w \in Workers : pc[w] = "written" /\ target[w] = id

LastNoticeTellsStored ==
  \A k \in 1..nextEvent :
    LET id == NoticeOf(k).interview IN
    /\ id \in DOMAIN interviews
    /\ \/ \E later \in 1..nextEvent : later > k /\ NoticeOf(later).interview = id
       \/ Unannounced(id)
       \/ id \in overlapped
       \/ NoticeOf(k).about = interviews[id]

NoticesInv == /\ LogNumbered
              /\ WrittenIsStored
              /\ CurrentVersionAnnounced
              /\ LastNoticeTellsStored

LEMMA InitNotices == Init => NoticesInv
<1> SUFFICES ASSUME Init
             PROVE  NoticesInv
  OBVIOUS
<1>1. /\ interviews = << >>
      /\ pc = [w \in Workers |-> "idle"]
      /\ notificationLog = << >> /\ nextEvent = 0
      /\ batch = [w \in Workers |-> << >>]
  BY DEF Init, N!NotificationInit
<1>2. LogNumbered
  BY <1>1 DEF LogNumbered
<1>3. WrittenIsStored /\ CurrentVersionAnnounced /\ LastNoticeTellsStored
  BY <1>1 DEF WrittenIsStored, CurrentVersionAnnounced, LastNoticeTellsStored
<1> QED
  BY <1>2, <1>3 DEF NoticesInv

(* Division by a width: k counts the places of n rows, row by row.         *)
LEMMA RowOf ==
  ASSUME NEW n \in Nat, NEW width \in Nat, NEW k \in 1..(n * width)
  PROVE  /\ ((k - 1) \div width) + 1 \in 1..n
         /\ ((k - 1) % width) + 1 \in 1..width
<1>1. width > 0 /\ n * width \in Nat
  OBVIOUS
<1> DEFINE q == (k - 1) \div width
           r == (k - 1) % width
<1>2. q \in Int /\ r \in 0..(width - 1) /\ k - 1 = width * q + r
  BY <1>1
<1> HIDE DEF q, r
<1>3. q >= 0
  <2>1. CASE q <= -1
    <3>1. width * q <= width * (-1)
      BY <1>1, <1>2, <2>1
    <3> QED
      BY <1>1, <1>2, <3>1
  <2> QED
    BY <1>2, <2>1
<1>4. q < n
  <2>1. CASE q >= n
    <3>1. width * q >= width * n
      BY <1>1, <1>2, <2>1
    <3> QED
      BY <1>1, <1>2, <3>1
  <2> QED
    BY <1>2, <2>1
<1> QED
  BY <1>2, <1>3, <1>4 DEF q, r

LEMMA PlaceOf ==
  ASSUME NEW n \in Nat, NEW width \in Nat, NEW i \in 1..n, NEW j \in 1..width
  PROVE  LET k == (i - 1) * width + j IN
         /\ k \in 1..(n * width)
         /\ ((k - 1) \div width) + 1 = i
         /\ ((k - 1) % width) + 1 = j
<1> DEFINE k == (i - 1) * width + j
           q == (k - 1) \div width
           r == (k - 1) % width
<1>1. width > 0 /\ (i - 1) * width \in Nat /\ k \in Nat /\ k >= 1
  OBVIOUS
<1>2. (i - 1) * width <= (n - 1) * width
  OBVIOUS
<1>3. k <= n * width
  BY <1>1, <1>2
<1>4. q \in Int /\ r \in 0..(width - 1) /\ k - 1 = width * q + r
  BY <1>1
<1> HIDE DEF q, r
<1>5. width * (q - (i - 1)) = (j - 1) - r
  BY <1>1, <1>4
<1>6. q = i - 1
  <2>1. CASE q - (i - 1) >= 1
    <3>1. width * (q - (i - 1)) >= width
      BY <1>1, <1>4, <2>1
    <3> QED
      BY <1>1, <1>4, <1>5, <3>1
  <2>2. CASE q - (i - 1) <= -1
    <3>1. width * (q - (i - 1)) <= width * (-1)
      BY <1>1, <1>4, <2>2
    <3> QED
      BY <1>1, <1>4, <1>5, <3>1
  <2> QED
    BY <1>4, <2>1, <2>2
<1>7. r = j - 1
  BY <1>4, <1>5, <1>6
<1>8. k \in 1..(n * width)
  BY <1>1, <1>3
<1>9. ((k - 1) \div width) + 1 = i /\ ((k - 1) % width) + 1 = j
  BY <1>6, <1>7 DEF q, r
<1> QED
  BY <1>8, <1>9

LEMMA RecipientsFacts ==
  ASSUME NEW x \in Interview
  PROVE  /\ Recipients(x) \in Seq(Candidates \cup Interviewers)
         /\ \A person \in People(x) : \E i \in 1..Len(Recipients(x)) : Recipients(x)[i] = person
<1> DEFINE first == <<x.candidate>>
           rest == x.interviewers
           all == first \o rest
<1>1. /\ first \in Seq(Candidates \cup Interviewers)
      /\ Len(first) = 1
      /\ first[1] = x.candidate
  BY DEF Interview
<1>2. rest \in Seq(Candidates \cup Interviewers)
  <2>1. rest \in Seq(Interviewers)
    BY SchedulingAssumption DEF Interview
  <2> QED
    BY <2>1
<1> HIDE DEF first, rest
<1>3. /\ all \in Seq(Candidates \cup Interviewers)
      /\ Len(all) = Len(first) + Len(rest)
      /\ \A k \in 1..(Len(first) + Len(rest)) :
           all[k] = IF k <= Len(first) THEN first[k] ELSE rest[k - Len(first)]
  BY <1>1, <1>2, ConcatProperties, Zenon
<1>4. Len(rest) \in Nat /\ DOMAIN rest = 1..Len(rest)
  BY <1>2, LenProperties
<1> HIDE DEF all
<1>5. all[1] = x.candidate /\ 1 \in 1..Len(all)
  BY <1>1, <1>3, <1>4
<1>6. \A j \in DOMAIN rest : all[j + 1] = rest[j] /\ j + 1 \in 1..Len(all)
  BY <1>1, <1>3, <1>4
<1>7. ASSUME NEW person \in People(x)
      PROVE  \E i \in 1..Len(all) : all[i] = person
  <2>1. CASE person = x.candidate
    BY <2>1, <1>5
  <2>2. CASE person \in Range(x.interviewers)
    <3>1. PICK j \in DOMAIN rest : rest[j] = person
      BY <2>2 DEF Range, rest
    <3> QED
      BY <3>1, <1>6
  <2> QED
    BY <2>1, <2>2 DEF People
<1> QED
  BY <1>3, <1>7 DEF Recipients, all, first, rest

(* The notices of a version reach everybody it concerns, on every channel. *)
LEMMA Announcements ==
  ASSUME NEW id \in Nat, NEW x \in Interview
  PROVE  LET notices == buildNotificationEvents(id, x) IN
         /\ notices \in Seq(Notice)
         /\ DOMAIN notices = 1..Len(notices)
         /\ \A k \in DOMAIN notices : notices[k].interview = id /\ notices[k].about = x
         /\ \A person \in People(x), channel \in Range(Channels) :
              \E k \in DOMAIN notices :
                notices[k] = [interview |-> id, recipient |-> person,
                              channel |-> channel, about |-> x]
<1> DEFINE all == Recipients(x)
           rows == Len(all)
           columns == Len(Channels)
           row(k) == ((k - 1) \div columns) + 1
           column(k) == ((k - 1) % columns) + 1
           notice(k) == [interview |-> id, recipient |-> all[row(k)],
                         channel |-> Channels[column(k)], about |-> x]
           notices == [k \in 1..(rows * columns) |-> notice(k)]
<1>1. notices = buildNotificationEvents(id, x)
  BY DEF buildNotificationEvents
<1>2. /\ all \in Seq(Candidates \cup Interviewers)
      /\ Channels \in Seq(Range(Channels))
      /\ rows \in Nat /\ columns \in Nat /\ rows * columns \in Nat
      /\ DOMAIN Channels = 1..columns
  BY RecipientsFacts, SchedulingAssumption, LenProperties
<1>3. \A i \in 1..rows : all[i] \in Candidates \cup Interviewers
  BY <1>2, ElementOfSeq
<1>4. \A j \in 1..columns : Channels[j] \in Range(Channels)
  BY <1>2, ElementOfSeq
<1>5. \A k \in 1..(rows * columns) : row(k) \in 1..rows /\ column(k) \in 1..columns
  BY <1>2, RowOf
<1>6. ASSUME NEW i \in 1..rows, NEW j \in 1..columns
      PROVE  \E k \in 1..(rows * columns) : row(k) = i /\ column(k) = j
  <2>1. rows \in Nat /\ columns \in Nat
    BY <1>2
  <2> HIDE DEF rows, columns
  <2> DEFINE k == (i - 1) * columns + j
  <2>2. /\ k \in 1..(rows * columns)
        /\ ((k - 1) \div columns) + 1 = i
        /\ ((k - 1) % columns) + 1 = j
    BY <2>1, <1>6, PlaceOf
  <2> QED
    BY <2>2
<1> HIDE DEF row, column
<1>7. \A k \in 1..(rows * columns) : notice(k) \in Notice
  BY <1>3, <1>4, <1>5 DEF Notice
<1>8. \A k \in 1..(rows * columns) : notice(k).interview = id /\ notice(k).about = x
  OBVIOUS
<1>9. ASSUME NEW person \in People(x), NEW channel \in Range(Channels)
      PROVE  \E k \in 1..(rows * columns) :
               notice(k) = [interview |-> id, recipient |-> person,
                            channel |-> channel, about |-> x]
  <2>1. PICK i \in 1..rows : all[i] = person
    BY RecipientsFacts
  <2>2. PICK j \in 1..columns : Channels[j] = channel
    BY <1>2 DEF Range
  <2>3. PICK k \in 1..(rows * columns) : row(k) = i /\ column(k) = j
    BY <1>6, Zenon
  <2> QED
    BY <2>1, <2>2, <2>3
<1> HIDE DEF all, rows, columns, notice
<1>10. notices \in Seq(Notice) /\ Len(notices) = rows * columns /\ DOMAIN notices = 1..(rows * columns)
  BY <1>2, <1>7
<1>11. \A k \in 1..(rows * columns) : notices[k] = notice(k)
  OBVIOUS
<1> HIDE DEF notices
<1>12. \A k \in DOMAIN notices : notices[k].interview = id /\ notices[k].about = x
  BY <1>8, <1>10, <1>11
<1>13. \A person \in People(x), channel \in Range(Channels) :
         \E k \in DOMAIN notices :
           notices[k] = [interview |-> id, recipient |-> person,
                         channel |-> channel, about |-> x]
  BY <1>9, <1>10, <1>11
<1> QED
  BY <1>1, <1>10, <1>12, <1>13

(* A step that leaves the log, the versions written and not announced and  *)
(* the interviews of other requests alone.                                 *)
LEMMA SameLog ==
  ASSUME NoticesInv, UNCHANGED <<interviews, messageVars>>,
         overlapped \subseteq overlapped',
         \A w \in Workers :
           (pc[w] = "written") <=> (pc'[w] = "written"),
         \A w \in Workers :
           pc[w] = "written" => item'[w] = item[w] /\ target'[w] = target[w]
  PROVE  NoticesInv'
<1>1. LogNumbered'
  BY DEF NoticesInv, LogNumbered, NoticeOf, messageVars
<1>2. WrittenIsStored'
  BY DEF NoticesInv, WrittenIsStored
<1>3. CurrentVersionAnnounced'
  BY DEF NoticesInv, CurrentVersionAnnounced, messageVars
<1>4. LastNoticeTellsStored'
  BY DEF NoticesInv, LastNoticeTellsStored, NoticeOf, Unannounced, messageVars
<1> QED
  BY <1>1, <1>2, <1>3, <1>4 DEF NoticesInv

LEMMA RequestNotices ==
  ASSUME IInv, NoticesInv, NEW w \in Workers,
         \/ \E id, x, edit : Begin(w, id, x, edit)
         \/ detectConflicts(w)
         \/ LinkStatus(w)
  PROVE  NoticesInv'
<1>1. /\ UNCHANGED <<interviews, messageVars>>
      /\ overlapped \subseteq overlapped'
      /\ \A v \in Workers : pc[v] = "written" <=> pc'[v] = "written"
      /\ \A v \in Workers :
           pc[v] = "written" => item'[v] = item[v] /\ target'[v] = target[v]
  <2>1. CASE \E id, x, edit : Begin(w, id, x, edit)
    BY <2>1 DEF Begin, IInv, Typed, storeVars, Free
  <2>2. CASE detectConflicts(w)
    BY <2>2 DEF detectConflicts, IInv, Typed, storeVars
  <2>3. CASE LinkStatus(w)
    BY <2>3 DEF LinkStatus, IInv, Typed
  <2> QED
    BY <2>1, <2>2, <2>3
<1> QED
  BY <1>1, SameLog

(* An interview is written: what is on record of it is old from now on,    *)
(* until the request announces it.                                         *)
LEMMA WriteNotices ==
  ASSUME IInv, NoticesInv, NEW w \in Workers,
         CreateInterview(w) \/ UpdateInterview(w)
  PROVE  NoticesInv'
<1> DEFINE id == target'[w]
<1>1. /\ pc[w] = "clear" /\ item[w] \in Interview
      /\ interviews \in Seq(Interview) /\ Len(interviews) \in Nat
      /\ DOMAIN interviews = 1..Len(interviews)
      /\ target[w] \in 0..Len(interviews)
  <2>1. pc[w] = "clear"
    BY DEF CreateInterview, UpdateInterview
  <2> QED
    BY <2>1, LenProperties DEF IInv, Typed, CopiesInHand, Free
<1>2. /\ UNCHANGED <<messageVars, item, overlapped>>
      /\ pc' = [pc EXCEPT ![w] = "written"]
      /\ pc'[w] = "written"
      /\ \A v \in Workers \ {w} : pc'[v] = pc[v] /\ target'[v] = target[v]
      /\ id \in DOMAIN interviews' /\ interviews'[id] = item[w]
      /\ DOMAIN interviews \subseteq DOMAIN interviews'
      /\ DOMAIN interviews' \subseteq DOMAIN interviews \cup {id}
      /\ \A k \in DOMAIN interviews \ {id} : interviews'[k] = interviews[k]
      /\ id = target[w] \/ id \notin DOMAIN interviews
  <2>1. CASE CreateInterview(w)
    <3>1. /\ interviews' = Append(interviews, item[w])
          /\ target' = [target EXCEPT ![w] = Len(interviews) + 1]
      BY <2>1 DEF CreateInterview
    <3>2. /\ DOMAIN interviews' = 1..(Len(interviews) + 1)
          /\ interviews'[Len(interviews) + 1] = item[w]
          /\ \A k \in 1..Len(interviews) : interviews'[k] = interviews[k]
      BY <1>1, <3>1, AppendedInterview
    <3>3. id = Len(interviews) + 1 /\ \A v \in Workers \ {w} : target'[v] = target[v]
      BY <3>1 DEF IInv, Typed
    <3>4. /\ UNCHANGED <<messageVars, item, overlapped>>
          /\ pc' = [pc EXCEPT ![w] = "written"]
      BY <2>1 DEF CreateInterview
    <3> HIDE DEF id
    <3> QED
      BY <1>1, <3>2, <3>3, <3>4 DEF IInv, Typed
  <2>2. CASE UpdateInterview(w)
    BY <1>1, <2>2 DEF UpdateInterview, IInv, Typed
  <2> QED
    BY <2>1, <2>2
<1> HIDE DEF id
<1>3. LogNumbered'
  BY <1>2 DEF NoticesInv, LogNumbered, NoticeOf, messageVars
<1>4. WrittenIsStored'
  <2> SUFFICES ASSUME NEW v \in Workers, pc'[v] = "written", target'[v] \notin overlapped
               PROVE  item[v] = interviews'[target'[v]]
    BY <1>2 DEF WrittenIsStored
  <2>1. CASE v = w
    BY <2>1, <1>2 DEF id
  <2>2. CASE v # w
    <3>1. pc[v] = "written" /\ target'[v] = target[v] /\ item[v] = interviews[target[v]]
      BY <1>2, <2>2 DEF NoticesInv, WrittenIsStored
    <3>2. target[v] \in DOMAIN interviews
      BY <3>1, <1>1 DEF IInv, CopiesInHand, Typed
    <3>3. target[v] # id
      BY <3>1, <3>2, <2>2, <1>2 DEF IInv, OverlapsKnown, CopiesInHand
    <3> QED
      BY <3>1, <3>2, <3>3, <1>2
  <2> QED
    BY <2>1, <2>2
<1>5. CurrentVersionAnnounced'
  <2> SUFFICES ASSUME NEW k \in DOMAIN interviews',
                      \A v \in Workers : ~(pc'[v] = "written" /\ target'[v] = k
                                            /\ item[v] = interviews'[k]),
                      NEW person \in People(interviews'[k]), NEW channel \in Range(Channels)
               PROVE  \E n \in DOMAIN notificationLog :
                        notificationLog[n].notice =
                          [interview |-> k, recipient |-> person,
                           channel |-> channel, about |-> interviews'[k]]
    BY <1>2 DEF CurrentVersionAnnounced, messageVars
  <2>1. k # id
    BY <1>2 DEF id
  <2>2. k \in DOMAIN interviews /\ interviews'[k] = interviews[k]
    BY <2>1, <1>2
  <2>3. ~\E v \in Workers : pc[v] = "written" /\ target[v] = k /\ item[v] = interviews[k]
    BY <2>2, <1>1, <1>2
  <2> QED
    BY <2>2, <2>3 DEF NoticesInv, CurrentVersionAnnounced
<1>6. LastNoticeTellsStored'
  <2>1. nextEvent' = nextEvent /\ \A k : NoticeOf(k)' = NoticeOf(k)
    BY <1>2 DEF messageVars, NoticeOf
  <2> SUFFICES ASSUME NEW k \in 1..nextEvent, NEW j, j = NoticeOf(k).interview
               PROVE  /\ j \in DOMAIN interviews'
                      /\ \/ \E later \in 1..nextEvent : later > k /\ NoticeOf(later).interview = j
                         \/ Unannounced(j)'
                         \/ j \in overlapped
                         \/ NoticeOf(k).about = interviews'[j]
    BY <2>1, <1>2 DEF LastNoticeTellsStored, Unannounced
  <2>2. j \in DOMAIN interviews
    BY DEF NoticesInv, LastNoticeTellsStored
  <2>3. CASE j = id
    BY <2>2, <2>3, <1>2 DEF Unannounced, id
  <2>4. CASE j # id
    <3>1. interviews'[j] = interviews[j] /\ j \in DOMAIN interviews'
      BY <2>2, <2>4, <1>2
    <3>2. Unannounced(j) => Unannounced(j)'
      BY <1>1, <1>2 DEF Unannounced
    <3>3. \/ \E later \in 1..nextEvent : later > k /\ NoticeOf(later).interview = j
          \/ Unannounced(j)
          \/ j \in overlapped
          \/ NoticeOf(k).about = interviews[j]
      BY DEF NoticesInv, LastNoticeTellsStored
    <3> QED
      BY <3>1, <3>2, <3>3
  <2> QED
    BY <2>3, <2>4
<1> QED
  BY <1>3, <1>4, <1>5, <1>6 DEF NoticesInv

LEMMA NewEventsFacts ==
  ASSUME NEW notices \in Seq(Notice), nextEvent \in Nat
  PROVE  /\ Len(notices) \in Nat
         /\ N!NewEvents(notices) \in Seq(N!Event)
         /\ Len(N!NewEvents(notices)) = Len(notices)
         /\ DOMAIN N!NewEvents(notices) = 1..Len(notices)
         /\ \A k \in 1..Len(notices) : /\ N!NewEvents(notices)[k].id = nextEvent + k
                                       /\ N!NewEvents(notices)[k].notice = notices[k]
<1> DEFINE new(k) == [id |-> nextEvent + k, notice |-> notices[k], status |-> "pending",
                      retryCount |-> 0, attempts |-> << >>]
<1>1. Len(notices) \in Nat
  BY LenProperties
<1>2. << >> \in Seq(N!Outcome)
  BY EmptySeq
<1>3. \A k \in 1..Len(notices) : new(k) \in N!Event
  BY <1>1, <1>2, ElementOfSeq DEF N!Event, N!LogStatus
<1>4. N!NewEvents(notices) = [k \in 1..Len(notices) |-> new(k)]
  BY DEF N!NewEvents
<1>5. \A k \in 1..Len(notices) : new(k).id = nextEvent + k /\ new(k).notice = notices[k]
  OBVIOUS
<1> HIDE DEF new
<1> QED
  BY <1>1, <1>3, <1>4, <1>5

(* What is logged stays, and a copy in a batch is as in the log.           *)
LEMMA EnqueuedLog ==
  ASSUME LogNumbered, NEW w \in Workers, NEW notices \in Seq(Notice),
         N!EnqueueNotifications(w, notices)
  PROVE  /\ LogNumbered'
         /\ nextEvent \in Nat /\ Len(notices) \in Nat
         /\ nextEvent' = nextEvent + Len(notices)
         /\ \A k \in 1..nextEvent : NoticeOf(k)' = NoticeOf(k)
         /\ \A k \in (nextEvent + 1)..(nextEvent + Len(notices)) :
              k - nextEvent \in 1..Len(notices) /\ NoticeOf(k)' = notices[k - nextEvent]
<1> DEFINE new == N!NewEvents(notices)
           n == Len(notices)
<1>1. /\ notificationLog \in Seq(N!Event)
      /\ Len(notificationLog) = nextEvent
      /\ nextEvent \in Nat
      /\ batch \in [Workers -> Seq(N!Event)]
  BY LenProperties DEF LogNumbered
<1>2. /\ n \in Nat
      /\ new \in Seq(N!Event)
      /\ Len(new) = n
      /\ DOMAIN new = 1..n
      /\ \A k \in 1..n : new[k].id = nextEvent + k /\ new[k].notice = notices[k]
  BY <1>1, NewEventsFacts
<1>3. /\ notificationLog' = notificationLog \o new
      /\ nextEvent' = nextEvent + n
      /\ batch' = [batch EXCEPT ![w] = new]
  BY DEF N!EnqueueNotifications
<1> HIDE DEF new, n
<1>4. /\ notificationLog' \in Seq(N!Event)
      /\ Len(notificationLog') = Len(notificationLog) + Len(new)
      /\ \A k \in 1..(Len(notificationLog) + Len(new)) :
           notificationLog'[k] = IF k <= Len(notificationLog) THEN notificationLog[k]
                                 ELSE new[k - Len(notificationLog)]
  BY <1>1, <1>2, <1>3, ConcatProperties, Zenon
<1>5. /\ Len(notificationLog') = nextEvent + n
      /\ \A k \in 1..nextEvent : notificationLog'[k] = notificationLog[k]
      /\ \A k \in (nextEvent + 1)..(nextEvent + n) :
           k - nextEvent \in 1..n /\ notificationLog'[k] = new[k - nextEvent]
  <2>1. Len(notificationLog) = nextEvent /\ Len(new) = n /\ nextEvent \in Nat /\ n \in Nat
    BY <1>1, <1>2
  <2>2. /\ Len(notificationLog') = nextEvent + n
        /\ \A k \in 1..(nextEvent + n) :
             notificationLog'[k] = IF k <= nextEvent THEN notificationLog[k]
                                   ELSE new[k - nextEvent]
    BY <1>4, <2>1
  <2> QED
    BY <2>1, <2>2
<1>6. \A k \in 1..nextEvent' : notificationLog'[k].id = k
  <2> SUFFICES ASSUME NEW k \in 1..nextEvent'
               PROVE  notificationLog'[k].id = k
    OBVIOUS
  <2>1. CASE k <= nextEvent
    <3>1. k \in 1..nextEvent
      BY <2>1, <1>1
    <3>2. notificationLog'[k] = notificationLog[k]
      BY <3>1, <1>5
    <3> QED
      BY <3>1, <3>2 DEF LogNumbered
  <2>2. CASE k > nextEvent
    <3>1. k - nextEvent \in 1..n /\ notificationLog'[k] = new[k - nextEvent]
      <4>1. k \in (nextEvent + 1)..(nextEvent + n)
        BY <2>2, <1>1, <1>2, <1>3
      <4> QED
        BY <4>1, <1>5
    <3> QED
      BY <3>1, <1>1, <1>2
  <2> QED
    BY <2>1, <2>2, <1>1, <1>2, <1>3
<1>7. batch' \in [Workers -> Seq(N!Event)]
  BY <1>1, <1>2, <1>3
<1>8. ASSUME NEW v \in Workers, NEW j \in DOMAIN batch'[v]
      PROVE  /\ batch'[v][j].id \in 1..nextEvent'
             /\ notificationLog'[batch'[v][j].id].notice = batch'[v][j].notice
  <2>1. CASE v = w
    <3>1. batch'[v] = new /\ j \in 1..n
      BY <2>1, <1>1, <1>2, <1>3
    <3>2. /\ nextEvent + j \in (nextEvent + 1)..(nextEvent + n)
          /\ nextEvent + j \in 1..nextEvent'
          /\ (nextEvent + j) - nextEvent = j
      BY <3>1, <1>1, <1>2, <1>3
    <3>3. notificationLog'[nextEvent + j] = new[j]
      BY <3>2, <1>5
    <3> QED
      BY <3>1, <3>2, <3>3, <1>2
  <2>2. CASE v # w
    <3>1. batch'[v] = batch[v]
      BY <2>2, <1>1, <1>3
    <3>2. batch[v][j].id \in 1..nextEvent /\ NoticeOf(batch[v][j].id) = batch[v][j].notice
      BY <3>1 DEF LogNumbered
    <3> QED
      BY <3>1, <3>2, <1>1, <1>2, <1>3, <1>5 DEF NoticeOf
  <2> QED
    BY <2>1, <2>2
<1>9. LogNumbered'
  BY <1>3, <1>4, <1>5, <1>6, <1>7, <1>8 DEF LogNumbered, NoticeOf
<1>10. \A k \in 1..nextEvent : NoticeOf(k)' = NoticeOf(k)
  BY <1>5 DEF NoticeOf
<1>11. \A k \in (nextEvent + 1)..(nextEvent + n) :
         k - nextEvent \in 1..n /\ NoticeOf(k)' = notices[k - nextEvent]
  BY <1>2, <1>5 DEF NoticeOf
<1> QED
  BY <1>1, <1>2, <1>3, <1>9, <1>10, <1>11 DEF n

LEMMA AnnounceNotices ==
  ASSUME IInv, NoticesInv, NEW w \in Workers, Announce(w)
  PROVE  NoticesInv'
<1> DEFINE id == target[w]
           x == item[w]
           notices == buildNotificationEvents(id, x)
           n == Len(notices)
<1>1. /\ pc[w] = "written"
      /\ pc' = [pc EXCEPT ![w] = "dispatching"]
      /\ UNCHANGED <<interviews, item, target, overlapped>>
      /\ N!EnqueueNotifications(w, notices)
  BY DEF Announce, storeVars
<1>2. /\ x \in Interview
      /\ interviews \in Seq(Interview)
      /\ DOMAIN interviews = 1..Len(interviews)
      /\ id \in Nat /\ id \in DOMAIN interviews
  BY <1>1, LenProperties DEF IInv, Typed, CopiesInHand, Free
<1>3. /\ notices \in Seq(Notice)
      /\ DOMAIN notices = 1..n
      /\ \A k \in 1..n : notices[k].interview = id /\ notices[k].about = x
      /\ \A person \in People(x), channel \in Range(Channels) :
           \E k \in 1..n : notices[k] = [interview |-> id, recipient |-> person,
                                         channel |-> channel, about |-> x]
  <2>1. /\ notices \in Seq(Notice)
        /\ DOMAIN notices = 1..n
        /\ \A k \in DOMAIN notices : notices[k].interview = id /\ notices[k].about = x
        /\ \A person \in People(x), channel \in Range(Channels) :
             \E k \in DOMAIN notices :
               notices[k] = [interview |-> id, recipient |-> person,
                             channel |-> channel, about |-> x]
    <3> HIDE DEF id, x
    <3> QED
      BY <1>2, Announcements
  <2> HIDE DEF notices, n, id, x
  <2> QED
    BY <2>1
<1>4. /\ pc'[w] # "written"
      /\ \A v \in Workers \ {w} : pc'[v] = pc[v]
  BY <1>1 DEF IInv, Typed
<1> HIDE DEF notices, id, x
<1>5. /\ LogNumbered'
      /\ nextEvent \in Nat /\ n \in Nat
      /\ nextEvent' = nextEvent + n
      /\ \A k \in 1..nextEvent : NoticeOf(k)' = NoticeOf(k)
      /\ \A k \in (nextEvent + 1)..(nextEvent + n) :
           k - nextEvent \in 1..n /\ NoticeOf(k)' = notices[k - nextEvent]
  BY <1>1, <1>3, EnqueuedLog DEF NoticesInv
<1> HIDE DEF n
<1>6. /\ DOMAIN notificationLog = 1..nextEvent
      /\ DOMAIN notificationLog' = 1..nextEvent'
  BY <1>5, LenProperties DEF NoticesInv, LogNumbered
<1>7. WrittenIsStored'
  BY <1>1, <1>4 DEF NoticesInv, WrittenIsStored
<1>8. CurrentVersionAnnounced'
  <2> SUFFICES ASSUME NEW j \in DOMAIN interviews,
                      ~\E v \in Workers : /\ pc'[v] = "written"
                                          /\ target[v] = j /\ item[v] = interviews[j],
                      NEW person \in People(interviews[j]), NEW channel \in Range(Channels)
               PROVE  \E k \in 1..nextEvent' :
                        NoticeOf(k)' = [interview |-> j, recipient |-> person,
                                        channel |-> channel, about |-> interviews[j]]
    BY <1>1, <1>6 DEF CurrentVersionAnnounced, NoticeOf
  <2>1. CASE j = id /\ x = interviews[j]
    <3>1. PICK k \in 1..n : notices[k] = [interview |-> j, recipient |-> person,
                                          channel |-> channel, about |-> interviews[j]]
      BY <2>1, <1>3
    <3>2. /\ nextEvent + k \in 1..nextEvent'
          /\ nextEvent + k \in (nextEvent + 1)..(nextEvent + n)
          /\ (nextEvent + k) - nextEvent = k
      BY <1>5
    <3>3. PICK m \in 1..nextEvent' : NoticeOf(m)' = notices[k]
      BY <3>2, <1>5
    <3> QED
      BY <3>1, <3>3
  <2>2. CASE ~(j = id /\ x = interviews[j])
    <3>1. ~\E v \in Workers : pc[v] = "written" /\ target[v] = j /\ item[v] = interviews[j]
      BY <2>2, <1>4 DEF id, x
    <3>2. PICK k \in 1..nextEvent :
            NoticeOf(k) = [interview |-> j, recipient |-> person,
                           channel |-> channel, about |-> interviews[j]]
      BY <3>1, <1>6 DEF NoticesInv, CurrentVersionAnnounced, NoticeOf
    <3>3. k \in 1..nextEvent'
      BY <1>5
    <3> QED
      BY <3>2, <3>3, <1>5
  <2> QED
    BY <2>1, <2>2
<1>9. LastNoticeTellsStored'
  <2> SUFFICES ASSUME NEW k \in 1..nextEvent', NEW j, j = NoticeOf(k)'.interview
               PROVE  /\ j \in DOMAIN interviews
                      /\ \/ \E later \in 1..nextEvent' :
                              later > k /\ NoticeOf(later)'.interview = j
                         \/ Unannounced(j)'
                         \/ j \in overlapped
                         \/ NoticeOf(k)'.about = interviews[j]
    BY <1>1 DEF LastNoticeTellsStored, Unannounced
  <2>1. CASE k > nextEvent
    <3>1. k - nextEvent \in 1..n /\ NoticeOf(k)' = notices[k - nextEvent]
      BY <2>1, <1>5
    <3>2. j = id /\ NoticeOf(k)'.about = x
      BY <3>1, <1>3
    <3>3. id \notin overlapped => x = interviews[id]
      BY <1>1 DEF NoticesInv, WrittenIsStored, id, x
    <3> QED
      BY <3>2, <3>3, <1>2 DEF id
  <2>2. CASE k <= nextEvent
    <3>1. k \in 1..nextEvent /\ NoticeOf(k)' = NoticeOf(k)
      BY <2>2, <1>5
    <3>2. /\ j \in DOMAIN interviews
          /\ \/ \E later \in 1..nextEvent : later > k /\ NoticeOf(later).interview = j
             \/ Unannounced(j)
             \/ j \in overlapped
             \/ NoticeOf(k).about = interviews[j]
      BY <3>1 DEF NoticesInv, LastNoticeTellsStored
    <3>3. CASE \E later \in 1..nextEvent : later > k /\ NoticeOf(later).interview = j
      BY <3>2, <3>3, <1>5
    <3>4. CASE Unannounced(j) /\ j = id
      <4>1. PICK person \in People(x), channel \in Range(Channels) : TRUE
        <5>1. x.candidate \in People(x)
          BY DEF People
        <5>2. NoticeOf(k) \in Notice
          <6>1. notificationLog[k] \in N!Event
            BY <3>1, <1>6, ElementOfSeq DEF NoticesInv, LogNumbered
          <6> QED
            BY <6>1 DEF NoticeOf, N!Event
        <5>3. NoticeOf(k).channel \in Range(Channels)
          BY <5>2 DEF Notice
        <5> QED
          BY <5>1, <5>3
      <4>2. PICK m \in 1..n : notices[m].interview = j
        BY <3>4, <4>1, <1>3
      <4>3. /\ nextEvent + m \in 1..nextEvent' /\ nextEvent + m > k
            /\ nextEvent + m \in (nextEvent + 1)..(nextEvent + n)
            /\ (nextEvent + m) - nextEvent = m
        BY <3>1, <1>5
      <4>4. PICK later \in 1..nextEvent' : later > k /\ NoticeOf(later)' = notices[m]
        BY <4>3, <1>5
      <4> QED
        BY <3>2, <4>2, <4>4
    <3>5. CASE Unannounced(j) /\ j # id
      BY <3>2, <3>5, <1>1, <1>4 DEF Unannounced, id
    <3> QED
      BY <3>1, <3>2, <3>3, <3>4, <3>5
  <2> QED
    BY <2>1, <2>2, <1>5
<1> QED
  BY <1>5, <1>7, <1>8, <1>9 DEF NoticesInv

(* Dispatching changes how far a notice got, and never what it says.       *)
LEMMA DispatchedLog ==
  ASSUME LogNumbered, NEW w \in Workers, N!Dispatch(w)
  PROVE  /\ LogNumbered'
         /\ nextEvent' = nextEvent
         /\ \A k \in 1..nextEvent : NoticeOf(k)' = NoticeOf(k)
<1>1. /\ notificationLog \in Seq(N!Event)
      /\ Len(notificationLog) = nextEvent
      /\ nextEvent \in Nat
      /\ DOMAIN notificationLog = 1..nextEvent
      /\ batch \in [Workers -> Seq(N!Event)]
  BY LenProperties DEF LogNumbered
<1>2. batch[w] \in Seq(N!Event) /\ batch[w] # << >>
  BY <1>1 DEF N!Dispatch, N!Send, N!UpdateNotification
<1>3. /\ 1 \in DOMAIN batch[w]
      /\ Head(batch[w]) = batch[w][1]
      /\ batch[w][1] \in N!Event
      /\ DOMAIN batch[w] = 1..Len(batch[w])
      /\ Len(batch[w]) \in Nat
  BY <1>2
<1>4. /\ batch[w][1].id \in 1..nextEvent
      /\ NoticeOf(batch[w][1].id) = batch[w][1].notice
  BY <1>3 DEF LogNumbered
<1>5. CASE N!Send(w)
  <2>1. PICK outcome \in N!Outcome :
          batch' = [batch EXCEPT ![w][1] = N!Attempted(batch[w][1], outcome)]
    BY <1>5 DEF N!Send
  <2>2. UNCHANGED <<notificationLog, nextEvent>>
    BY <1>5 DEF N!Send
  <2> DEFINE new == N!Attempted(batch[w][1], outcome)
  <2>3. /\ new \in N!Event
        /\ new.id = batch[w][1].id
        /\ new.notice = batch[w][1].notice
    <3>1. batch[w][1].attempts \in Seq(N!Outcome)
      BY <1>3 DEF N!Event
    <3>2. /\ Append(batch[w][1].attempts, outcome) \in Seq(N!Outcome)
          /\ Len(batch[w][1].attempts) \in Nat
      BY <3>1, AppendProperties, LenProperties
    <3> QED
      BY <1>3, <3>2 DEF N!Attempted, N!Event, N!LogStatus
  <2> HIDE DEF new
  <2>4. /\ batch'[w] = [batch[w] EXCEPT ![1] = new]
        /\ \A v \in Workers \ {w} : batch'[v] = batch[v]
        /\ DOMAIN batch' = Workers
    BY <1>1, <2>1 DEF new
  <2>5. batch'[w] \in Seq(N!Event) /\ DOMAIN batch'[w] = DOMAIN batch[w]
    BY <1>2, <1>3, <2>3, <2>4
  <2>6. batch' \in [Workers -> Seq(N!Event)]
    <3>1. \A v \in Workers : batch'[v] \in Seq(N!Event)
      BY <1>1, <2>4, <2>5
    <3>2. batch' = [v \in Workers |-> batch'[v]]
      BY <1>1, <2>1
    <3> QED
      BY <3>1, <3>2
  <2>7. ASSUME NEW v \in Workers, NEW j \in DOMAIN batch'[v]
        PROVE  /\ batch'[v][j].id \in 1..nextEvent
               /\ NoticeOf(batch'[v][j].id) = batch'[v][j].notice
    <3>1. CASE v = w /\ j = 1
      BY <3>1, <1>3, <1>4, <2>3, <2>4
    <3>2. CASE ~(v = w /\ j = 1)
      <4>1. j \in DOMAIN batch[v] /\ batch'[v][j] = batch[v][j]
        BY <3>2, <1>3, <2>4, <2>5
      <4> QED
        BY <4>1 DEF LogNumbered
    <3> QED
      BY <3>1, <3>2
  <2> QED
    BY <2>2, <2>6, <2>7 DEF LogNumbered, NoticeOf
<1>6. CASE N!UpdateNotification(w)
  <2> DEFINE event == batch[w][1]
  <2>1. /\ notificationLog' = N!UpdatedLog(event)
        /\ batch' = [batch EXCEPT ![w] = Tail(batch[w])]
        /\ UNCHANGED nextEvent
    BY <1>3, <1>6 DEF N!UpdateNotification
  <2>2. \A k \in 1..nextEvent : notificationLog[k].id = k
    BY DEF LogNumbered
  <2>3. notificationLog' = [k \in 1..nextEvent |->
                              IF k = event.id THEN event ELSE notificationLog[k]]
    <3>1. \E k \in DOMAIN notificationLog : notificationLog[k].id = event.id
      BY <1>1, <1>4, <2>2
    <3>2. notificationLog' = [k \in DOMAIN notificationLog |->
                                IF notificationLog[k].id = event.id THEN event
                                ELSE notificationLog[k]]
      BY <2>1, <3>1 DEF N!UpdatedLog
    <3> QED
      BY <1>1, <2>2, <3>2
  <2>4. \A k \in 1..nextEvent : /\ notificationLog'[k] \in N!Event
                                /\ notificationLog'[k].id = k
                                /\ NoticeOf(k)' = NoticeOf(k)
    BY <1>1, <1>3, <1>4, <2>2, <2>3, ElementOfSeq DEF NoticeOf
  <2>5. notificationLog' \in Seq(N!Event) /\ Len(notificationLog') = nextEvent
    BY <1>1, <2>3, <2>4
  <2>6. /\ Tail(batch[w]) \in Seq(N!Event)
        /\ \A j \in DOMAIN Tail(batch[w]) :
             j + 1 \in DOMAIN batch[w] /\ Tail(batch[w])[j] = batch[w][j + 1]
    BY <1>2, <1>3
  <2>7. ASSUME NEW v \in Workers, NEW j \in DOMAIN batch'[v]
        PROVE  /\ batch'[v][j].id \in 1..nextEvent
               /\ NoticeOf(batch'[v][j].id) = batch'[v][j].notice
    <3>1. CASE v = w
      <4>1. j + 1 \in DOMAIN batch[v] /\ batch'[v][j] = batch[v][j + 1]
        BY <3>1, <1>1, <2>1, <2>6
      <4> QED
        BY <4>1 DEF LogNumbered
    <3>2. CASE v # w
      BY <3>2, <1>1, <2>1 DEF LogNumbered
    <3> QED
      BY <3>1, <3>2
  <2>8. batch' \in [Workers -> Seq(N!Event)]
    BY <1>1, <2>1, <2>6
  <2>9. \A v \in Workers : \A j \in DOMAIN batch'[v] :
          notificationLog'[batch'[v][j].id].notice = batch'[v][j].notice
    BY <2>4, <2>7 DEF NoticeOf
  <2>10. LogNumbered'
    <3>1. nextEvent' = nextEvent /\ \A k \in 1..nextEvent : notificationLog'[k].id = k
      BY <2>1, <2>4
    <3>2. \A v \in Workers : \A j \in DOMAIN batch'[v] : batch'[v][j].id \in 1..nextEvent
      BY <2>7
    <3> HIDE DEF event
    <3> QED
      BY <3>1, <3>2, <2>5, <2>8, <2>9 DEF LogNumbered, NoticeOf
  <2> QED
    BY <2>1, <2>4, <2>10
<1> QED
  BY <1>5, <1>6 DEF N!Dispatch

LEMMA DispatchNotices ==
  ASSUME NoticesInv, NEW w \in Workers, Dispatch(w)
  PROVE  NoticesInv'
<1>1. /\ N!Dispatch(w)
      /\ UNCHANGED <<interviews, pc, item, target, overlapped>>
  BY DEF Dispatch, storeVars, requestVars
<1>2. /\ LogNumbered'
      /\ nextEvent' = nextEvent
      /\ \A k \in 1..nextEvent : NoticeOf(k)' = NoticeOf(k)
  BY <1>1, DispatchedLog DEF NoticesInv
<1>3. /\ DOMAIN notificationLog = 1..nextEvent
      /\ DOMAIN notificationLog' = 1..nextEvent
  BY <1>2, LenProperties DEF NoticesInv, LogNumbered
<1>4. WrittenIsStored'
  BY <1>1 DEF NoticesInv, WrittenIsStored
<1>5. CurrentVersionAnnounced'
  BY <1>1, <1>2, <1>3 DEF NoticesInv, CurrentVersionAnnounced, NoticeOf
<1>6. LastNoticeTellsStored'
  <2> SUFFICES ASSUME NEW k \in 1..nextEvent, NEW j, j = NoticeOf(k).interview
               PROVE  /\ j \in DOMAIN interviews
                      /\ \/ \E later \in 1..nextEvent :
                              later > k /\ NoticeOf(later).interview = j
                         \/ Unannounced(j)
                         \/ j \in overlapped
                         \/ NoticeOf(k).about = interviews[j]
    BY <1>1, <1>2 DEF LastNoticeTellsStored, Unannounced
  <2> QED
    BY DEF NoticesInv, LastNoticeTellsStored
<1> QED
  BY <1>2, <1>4, <1>5, <1>6 DEF NoticesInv

LEMMA StepNotices == IInv /\ NoticesInv /\ [Next]_vars => NoticesInv'
<1> SUFFICES ASSUME IInv, NoticesInv, [Next]_vars
             PROVE  NoticesInv'
  OBVIOUS
<1>1. ASSUME NEW c \in Candidates, CreateCandidate(c)
      PROVE  NoticesInv'
  BY <1>1, SameLog DEF CreateCandidate, requestVars
<1>2. ASSUME NEW c \in Candidates, NEW l \in Layers, UpdateCandidateStatusLayer(c, l)
      PROVE  NoticesInv'
  BY <1>2, SameLog DEF UpdateCandidateStatusLayer, requestVars
<1>3. ASSUME NEW w \in Workers, BeginCreate(w) \/ BeginUpdate(w)
      PROVE  NoticesInv'
  BY <1>3, RequestNotices DEF BeginCreate, BeginUpdate
<1>4. ASSUME NEW w \in Workers, Proceed(w)
      PROVE  NoticesInv'
  BY <1>4, RequestNotices, WriteNotices, AnnounceNotices, DispatchNotices DEF Proceed
<1>5. CASE UNCHANGED vars
  BY <1>5, SameLog DEF vars, messageVars
<1> QED
  BY <1>1, <1>2, <1>3, <1>4, <1>5 DEF Next

(* Whatever is stored of an interview has been announced to everybody it   *)
(* concerns on every channel, or the request that wrote it is about to,    *)
(* however requests overlap and deliveries fail.                           *)
THEOREM VersionsAreAnnounced == Spec => []CurrentVersionAnnounced
<1>1. NoticesInv => CurrentVersionAnnounced
  BY DEF NoticesInv
<1> QED
  BY <1>1, InitIInv, InitNotices, StepIInv, StepNotices, PTL DEF Spec

(* What was announced last of an interview nobody is changing is what is   *)
(* stored, unless two requests once overlapped on it.                      *)
THEOREM LastNoticesAreCurrent == Spec => []LastNoticeIsCurrent
<1>1. NoticesInv => LastNoticeIsCurrent
  <2> SUFFICES ASSUME NoticesInv, NEW k \in DOMAIN notificationLog,
                      NEW id, id = NoticeOf(k).interview
               PROVE  \/ \E later \in DOMAIN notificationLog :
                           later > k /\ NoticeOf(later).interview = id
                      \/ \E w \in Workers : target[w] = id
                      \/ id \in overlapped
                      \/ NoticeOf(k).about = interviews[id]
    BY DEF LastNoticeIsCurrent, NoticeOf
  <2>1. DOMAIN notificationLog = 1..nextEvent
    BY LenProperties DEF NoticesInv, LogNumbered
  <2> QED
    BY <2>1 DEF NoticesInv, LastNoticeTellsStored, Unannounced
<1> QED
  BY <1>1, InitIInv, InitNotices, StepIInv, StepNotices, PTL DEF Spec
-----------------------------------------------------------------------------
(* The calendar.  Every interview, stored or asked for, takes some time.   *)
ProperTimes ==
  /\ \A k \in DOMAIN interviews : interviews[k].starts < interviews[k].ends
  /\ \A w \in Workers : pc[w] \notin Free => item[w].starts < item[w].ends

LEMMA StepProperTimes == IInv /\ ProperTimes /\ [Next]_vars => ProperTimes'
<1> SUFFICES ASSUME IInv, ProperTimes, [Next]_vars
             PROVE  ProperTimes'
  OBVIOUS
<1>1. /\ interviews \in Seq(Interview) /\ pc \in [Workers -> Steps]
      /\ item \in [Workers -> Interview \cup {NoItem}] /\ target \in [Workers -> Nat]
      /\ \A w \in Workers : pc[w] \notin Free => item[w] \in Interview
      /\ \A w \in Workers : target[w] <= Len(interviews)
  BY DEF IInv, Typed, CopiesInHand
<1>2. ASSUME UNCHANGED <<interviews, pc, item>>
      PROVE  ProperTimes'
  BY <1>2 DEF ProperTimes
<1>3. ASSUME NEW w \in Workers, NEW id \in Nat, NEW x, NEW edit, Begin(w, id, x, edit)
      PROVE  ProperTimes'
  BY <1>1, <1>3 DEF Begin, ProperTimes, storeVars, Free
<1>4. ASSUME NEW w \in Workers, detectConflicts(w)
      PROVE  ProperTimes'
  BY <1>1, <1>4 DEF detectConflicts, ProperTimes, storeVars, Free
<1>5. ASSUME NEW w \in Workers, CreateInterview(w)
      PROVE  ProperTimes'
  <2>1. /\ pc[w] = "clear" /\ interviews' = Append(interviews, item[w])
        /\ UNCHANGED item /\ pc' = [pc EXCEPT ![w] = "written"]
    BY <1>5 DEF CreateInterview
  <2>2. item[w] \in Interview /\ item[w].starts < item[w].ends
    BY <1>1, <2>1 DEF ProperTimes, Free
  <2>3. \A k \in DOMAIN interviews' : interviews'[k].starts < interviews'[k].ends
    BY <1>1, <2>1, <2>2, AppendedInterview DEF ProperTimes
  <2> QED
    BY <1>1, <2>1, <2>3 DEF ProperTimes, Free
<1>6. ASSUME NEW w \in Workers, UpdateInterview(w)
      PROVE  ProperTimes'
  BY <1>1, <1>6 DEF UpdateInterview, ProperTimes, Free
<1>7. ASSUME NEW w \in Workers, Announce(w)
      PROVE  ProperTimes'
  BY <1>1, <1>7 DEF Announce, storeVars, ProperTimes, Free
<1>8. ASSUME NEW w \in Workers, Dispatch(w)
      PROVE  ProperTimes'
  BY <1>2, <1>8 DEF Dispatch, storeVars, requestVars
<1>9. ASSUME NEW w \in Workers, LinkStatus(w)
      PROVE  ProperTimes'
  BY <1>1, <1>9 DEF LinkStatus, ProperTimes, Free
<1>10. ASSUME NEW w \in Workers, BeginCreate(w) \/ BeginUpdate(w)
       PROVE  ProperTimes'
  <2>1. 0 \in Nat /\ DOMAIN interviews \subseteq Nat
    BY <1>1
  <2> QED
    BY <1>3, <1>10, <2>1 DEF BeginCreate, BeginUpdate
<1>11. ASSUME NEW c \in Candidates, NEW l \in Layers,
              CreateCandidate(c) \/ UpdateCandidateStatusLayer(c, l)
       PROVE  ProperTimes'
  BY <1>2, <1>11 DEF CreateCandidate, UpdateCandidateStatusLayer, requestVars
<1>12. CASE UNCHANGED vars
  BY <1>2, <1>12 DEF vars
<1>13. ASSUME NEW c \in Candidates, CreateCandidate(c)
       PROVE  ProperTimes'
  BY <1>2, <1>13 DEF CreateCandidate, requestVars
<1> QED
  BY <1>4, <1>5, <1>6, <1>7, <1>8, <1>9, <1>10, <1>11, <1>12, <1>13 DEF Next, Proceed

(* What is in order has a place each: Rank counts what is earlier. *)
Rank(S, k) == Cardinality({j \in S : earlier(j, k)}) + 1

LEMMA EarlierOrders ==
  ASSUME IInv, NEW S \in SUBSET DOMAIN interviews
  PROVE  /\ IsFiniteSet(S)
         /\ \A j, k \in S : j # k => earlier(j, k) \/ earlier(k, j)
         /\ \A k \in S : ~earlier(k, k)
         /\ \A i, j, k \in S : earlier(i, j) /\ earlier(j, k) => earlier(i, k)
<1>1. /\ interviews \in Seq(Interview) /\ DOMAIN interviews = 1..Len(interviews)
      /\ Len(interviews) \in Nat
  BY DEF IInv, Typed
<1>2. IsFiniteSet(S)
  <2>1. 0 \in Int /\ IsFiniteSet(1..Len(interviews))
    BY <1>1, FS_Interval
  <2> QED
    BY <1>1, <2>1, FS_Subset
<1>3. S \subseteq Nat /\ \A k \in S : interviews[k].starts \in Nat
  <2>1. \A x \in Interview : x.starts \in Nat
    BY SchedulingAssumption DEF Interview
  <2> QED
    BY <1>1, <2>1
<1> QED
  BY <1>2, <1>3 DEF earlier

LEMMA RankGrows ==
  ASSUME IInv, NEW S \in SUBSET DOMAIN interviews
  PROVE  /\ \A k \in S : Rank(S, k) \in 1..Cardinality(S)
         /\ \A j, k \in S : earlier(j, k) => Rank(S, j) < Rank(S, k)
<1> DEFINE Before(k) == {j \in S : earlier(j, k)}
<1>1. \A k \in S : Before(k) \in SUBSET S /\ k \notin Before(k)
  BY EarlierOrders
<1>2. \A j, k \in S : earlier(j, k) => Before(j) \cup {j} \in SUBSET Before(k)
  BY EarlierOrders
<1>3. \A k \in S : Rank(S, k) = Cardinality(Before(k)) + 1
  BY DEF Rank
<1>4. IsFiniteSet(S) /\ Cardinality(S) \in Nat
  BY EarlierOrders, FS_CardinalityType
<1> HIDE DEF Before
<1>5. \A k \in S : /\ IsFiniteSet(Before(k))
                   /\ Cardinality(Before(k)) \in Nat
                   /\ Cardinality(Before(k) \cup {k}) = Cardinality(Before(k)) + 1
  BY <1>1, <1>4, FS_Subset, FS_CardinalityType, FS_AddElement
<1>6. ASSUME NEW k \in S
      PROVE  Rank(S, k) \in 1..Cardinality(S)
  <2>1. Before(k) \cup {k} \in SUBSET S
    BY <1>1
  <2>2. Cardinality(Before(k) \cup {k}) <= Cardinality(S)
    BY <1>4, <2>1, FS_Subset
  <2> QED
    BY <1>3, <1>4, <1>5, <2>2
<1>7. ASSUME NEW j \in S, NEW k \in S, earlier(j, k)
      PROVE  Rank(S, j) < Rank(S, k)
  <2>1. Before(j) \cup {j} \in SUBSET Before(k)
    BY <1>2, <1>7
  <2>2. Cardinality(Before(j) \cup {j}) <= Cardinality(Before(k))
    BY <1>5, <2>1, FS_Subset
  <2>3. /\ Cardinality(Before(j)) \in Nat /\ Cardinality(Before(k)) \in Nat
        /\ Cardinality(Before(j)) + 1 <= Cardinality(Before(k))
    BY <1>5, <2>2
  <2>4. /\ Rank(S, j) = Cardinality(Before(j)) + 1
        /\ Rank(S, k) = Cardinality(Before(k)) + 1
    BY <1>3
  <2> QED
    BY ONLY <2>3, <2>4
<1> QED
  BY <1>6, <1>7

LEMMA RankIsPlace ==
  ASSUME IInv, NEW S \in SUBSET DOMAIN interviews
  PROVE  /\ Cardinality(S) \in Nat
         /\ \A j, k \in S : Rank(S, j) = Rank(S, k) => j = k
         /\ \A n \in 1..Cardinality(S) : \E k \in S : Rank(S, k) = n
<1>1. IsFiniteSet(S) /\ Cardinality(S) \in Nat
  BY EarlierOrders, FS_CardinalityType
<1>2. ASSUME NEW j \in S, NEW k \in S, Rank(S, j) = Rank(S, k)
      PROVE  j = k
  <2>1. Rank(S, j) \in Int /\ Rank(S, k) \in Int
    BY RankGrows
  <2> QED
    BY <1>2, <2>1, EarlierOrders, RankGrows
<1>3. ASSUME NEW n \in 1..Cardinality(S)
      PROVE  \E k \in S : Rank(S, k) = n
  <2> DEFINE Ranks == 1..Cardinality(S)
             f == [k \in S |-> Rank(S, k)]
  <2>1. f \in Injection(S, Ranks)
    BY <1>2, RankGrows DEF Injection, IsInjective
  <2>2. IsFiniteSet(Ranks) /\ Cardinality(Ranks) = Cardinality(S)
    BY <1>1, FS_Interval
  <2>3. f \in Surjection(S, Ranks)
    <3> HIDE DEF f, Ranks
    <3> QED
      BY <2>1, <2>2, FS_Injection
  <2> QED
    BY <2>3 DEF Surjection
<1> QED
  BY <1>1, <1>2, <1>3

(* The interviews of a slice, and that the calendar shows each once.       *)
InSlice(view, d) == {k \in DOMAIN interviews : overlaps(interviews[k], Slice(view, d))}

LEMMA ItemsOfSlice ==
  ASSUME IInv, NEW view, NEW d
  PROVE  /\ Range(CalendarItems(view, d)) = InSlice(view, d)
         /\ \A m, n \in DOMAIN CalendarItems(view, d) :
              m < n => earlier(CalendarItems(view, d)[m], CalendarItems(view, d)[n])
<1> DEFINE S == InSlice(view, d)
           items == [n \in 1..Cardinality(S) |-> CHOOSE k \in S : Rank(S, k) = n]
<1>1. CalendarItems(view, d) = items
  BY DEF CalendarItems, InSlice, Rank
<1>2. S \in SUBSET DOMAIN interviews
  BY DEF InSlice
<1> HIDE DEF S
<1>3. /\ IsFiniteSet(S) /\ Cardinality(S) \in Nat
      /\ \A k \in S : Rank(S, k) \in 1..Cardinality(S)
      /\ \A j, k \in S : Rank(S, j) = Rank(S, k) => j = k
      /\ \A n \in 1..Cardinality(S) : \E k \in S : Rank(S, k) = n
  BY <1>2, EarlierOrders, RankGrows, RankIsPlace
<1>4. \A n \in 1..Cardinality(S) : items[n] \in S /\ Rank(S, items[n]) = n
  BY <1>3
<1>5. DOMAIN items = 1..Cardinality(S)
  OBVIOUS
<1> HIDE DEF items
<1>6. Range(items) \subseteq S
  BY <1>4, <1>5 DEF Range
<1>7. ASSUME NEW k \in S
      PROVE  k \in Range(items)
  <2>1. items[Rank(S, k)] = k
    BY <1>3, <1>4
  <2> QED
    BY <1>3, <1>5, <2>1 DEF Range
<1>8. ASSUME NEW m \in 1..Cardinality(S), NEW n \in 1..Cardinality(S), m < n
      PROVE  earlier(items[m], items[n])
  <2> DEFINE j == items[m]
             k == items[n]
  <2>1. j \in S /\ k \in S /\ Rank(S, j) = m /\ Rank(S, k) = n
    BY <1>4
  <2> HIDE DEF j, k
  <2>2. CASE earlier(k, j)
    <3>1. Rank(S, k) < Rank(S, j)
      BY <1>2, <2>1, <2>2, RankGrows
    <3> QED
      BY <1>3, <1>8, <2>1, <3>1
  <2>3. j # k
    BY <1>8, <2>1
  <2> QED
    BY <1>2, <2>1, <2>2, <2>3, EarlierOrders DEF j, k
<1> QED
  BY <1>1, <1>5, <1>6, <1>7, <1>8 DEF S

(* Instants and days. *)
LEMMA DayOf ==
  ASSUME NEW t \in Nat
  PROVE  LET d == t \div DayLength IN
         d \in Nat /\ d * DayLength <= t /\ t < (d + 1) * DayLength
<1>1. DayLength \in Nat /\ DayLength > 0
  BY CalendarAssumption
<1> DEFINE q == t \div DayLength
           r == t % DayLength
<1>2. q \in Int /\ r \in 0..(DayLength - 1) /\ t = DayLength * q + r
  BY <1>1
<1> HIDE DEF q, r
<1>3. q >= 0
  <2>1. CASE q <= -1
    <3>1. DayLength * q <= DayLength * (-1)
      BY <1>1, <1>2, <2>1
    <3> QED
      BY <1>1, <1>2, <3>1
  <2> QED
    BY <1>2, <2>1
<1>4. (q + 1) * DayLength = DayLength * q + DayLength /\ q * DayLength = DayLength * q
  BY <1>1, <1>2
<1>5. q * DayLength \in Int /\ (q + 1) * DayLength \in Int
  BY <1>1, <1>2
<1>6. q * DayLength <= t /\ t < (q + 1) * DayLength
  BY <1>1, <1>2, <1>4, <1>5
<1> QED
  BY <1>2, <1>3, <1>6 DEF q

LEMMA DaysInOrder ==
  ASSUME NEW a \in Int, NEW b \in Int
  PROVE  /\ a <= b => a * DayLength <= b * DayLength
         /\ a * DayLength < b * DayLength => a < b
         /\ a * DayLength \in Int /\ b * DayLength \in Int
<1>1. DayLength \in Nat /\ DayLength > 0
  BY CalendarAssumption
<1>2. a * DayLength \in Int /\ b * DayLength \in Int
  BY <1>1
<1>3. ASSUME NEW x \in Int, NEW y \in Int, x <= y
      PROVE  x * DayLength <= y * DayLength
  BY <1>1, <1>3
<1>4. a < b \/ b <= a
  OBVIOUS
<1> QED
  BY <1>2, <1>3, <1>4

(* What takes some time and meets the days from a on and before b meets    *)
(* one of them, and the other way around.                                  *)
DaySlice(a, b) == [starts |-> a * DayLength, ends |-> b * DayLength]

LEMMA OverlapsADay ==
  ASSUME NEW x \in Interview, x.starts < x.ends,
         NEW a \in Int, NEW b \in Int, a < b
  PROVE  overlaps(x, DaySlice(a, b)) <=>
           \E d \in a..(b - 1) : overlaps(x, DaySlice(d, d + 1))
<1>1. x.starts \in Nat /\ x.ends \in Nat
  BY SchedulingAssumption DEF Interview
<1>2. a * DayLength \in Int /\ b * DayLength \in Int /\ a * DayLength <= b * DayLength
  BY DaysInOrder
<1>3. ASSUME overlaps(x, DaySlice(a, b))
      PROVE  \E d \in a..(b - 1) : overlaps(x, DaySlice(d, d + 1))
  <2>1. x.starts < b * DayLength /\ a * DayLength < x.ends
    BY <1>3 DEF overlaps, DaySlice
  <2>2. a * DayLength < b * DayLength
    <3>1. DayLength \in Nat /\ DayLength > 0
      BY CalendarAssumption
    <3> QED
      BY <3>1
  <2>3. PICK t \in Nat : /\ x.starts <= t /\ t < x.ends
                         /\ a * DayLength <= t /\ t < b * DayLength
    <3>1. CASE x.starts >= a * DayLength
      BY <1>1, <1>2, <2>1, <3>1
    <3>2. CASE x.starts < a * DayLength
      <4>1. a * DayLength \in Nat
        BY <1>1, <1>2, <3>2
      <4> QED
        BY ONLY <1>1, <1>2, <2>1, <2>2, <3>2, <4>1
    <3> QED
      BY <1>1, <1>2, <3>1, <3>2
  <2> DEFINE d == t \div DayLength
  <2>4. d \in Nat /\ d * DayLength <= t /\ t < (d + 1) * DayLength
    BY DayOf
  <2> HIDE DEF d
  <2>5. d * DayLength \in Int /\ (d + 1) * DayLength \in Int
    BY <2>4, DaysInOrder
  <2>6. d < b
    <3>1. d * DayLength < b * DayLength
      BY ONLY <1>2, <2>3, <2>4, <2>5
    <3> QED
      BY <2>4, <3>1, DaysInOrder
  <2>7. a < d + 1
    <3>1. a * DayLength < (d + 1) * DayLength
      BY ONLY <1>2, <2>3, <2>4, <2>5
    <3>2. d + 1 \in Int
      BY <2>4
    <3> QED
      BY <3>1, <3>2, DaysInOrder
  <2>8. d \in a..(b - 1)
    BY <2>4, <2>6, <2>7
  <2>9. x.starts < (d + 1) * DayLength /\ d * DayLength < x.ends
    BY ONLY <1>1, <2>3, <2>4, <2>5
  <2> QED
    BY <2>8, <2>9 DEF overlaps, DaySlice
<1>4. ASSUME NEW d \in a..(b - 1), overlaps(x, DaySlice(d, d + 1))
      PROVE  overlaps(x, DaySlice(a, b))
  <2>1. x.starts < (d + 1) * DayLength /\ d * DayLength < x.ends
    BY <1>4 DEF overlaps, DaySlice
  <2>2. d \in Int /\ d + 1 \in Int /\ a <= d /\ d + 1 <= b
    BY <1>4
  <2>3. /\ a * DayLength <= d * DayLength /\ (d + 1) * DayLength <= b * DayLength
        /\ d * DayLength \in Int /\ (d + 1) * DayLength \in Int
    BY <2>2, DaysInOrder
  <2>4. x.starts < b * DayLength /\ a * DayLength < x.ends
    BY ONLY <1>1, <1>2, <2>1, <2>3
  <2> QED
    BY <2>4 DEF overlaps, DaySlice
<1> QED
  BY <1>3, <1>4

(* Two interviews that overlap do so on a day of the first.                *)
LEMMA OverlapOnADay ==
  ASSUME NEW x \in Interview, x.starts < x.ends,
         NEW y \in Interview, y.starts < y.ends, overlaps(x, y)
  PROVE  \E d \in (x.starts \div DayLength)..(x.ends \div DayLength) :
           overlaps(y, DaySlice(d, d + 1))
<1>1. x.starts \in Nat /\ x.ends \in Nat /\ y.starts \in Nat /\ y.ends \in Nat
  BY SchedulingAssumption DEF Interview
<1>2. x.starts < y.ends /\ y.starts < x.ends
  BY DEF overlaps
<1>3. PICK t \in Nat : x.starts <= t /\ t < x.ends /\ y.starts <= t /\ t < y.ends
  <2>1. CASE x.starts <= y.starts
    BY <1>1, <1>2, <2>1
  <2>2. CASE y.starts < x.starts
    BY <1>1, <1>2, <2>2
  <2> QED
    BY <1>1, <2>1, <2>2
<1> DEFINE d == t \div DayLength
           p == x.starts \div DayLength
           q == x.ends \div DayLength
<1>4. /\ d \in Nat /\ d * DayLength <= t /\ t < (d + 1) * DayLength
      /\ p \in Nat /\ p * DayLength <= x.starts /\ x.starts < (p + 1) * DayLength
      /\ q \in Nat /\ q * DayLength <= x.ends /\ x.ends < (q + 1) * DayLength
  BY <1>1, DayOf
<1> HIDE DEF d, p, q
<1>5. /\ d * DayLength \in Int /\ (d + 1) * DayLength \in Int
      /\ p * DayLength \in Int /\ (q + 1) * DayLength \in Int
  BY <1>4, DaysInOrder
<1>6. p * DayLength < (d + 1) * DayLength /\ d * DayLength < (q + 1) * DayLength
  BY ONLY <1>1, <1>3, <1>4, <1>5
<1>7. p < d + 1 /\ d < q + 1
  <2>1. d \in Int /\ d + 1 \in Int /\ p \in Int /\ q + 1 \in Int
    BY <1>4
  <2> QED
    BY <1>6, <2>1, DaysInOrder
<1>8. d \in p..q
  BY <1>4, <1>7
<1>9. y.starts < (d + 1) * DayLength /\ d * DayLength < y.ends
  BY ONLY <1>1, <1>3, <1>4, <1>5
<1> QED
  BY <1>8, <1>9 DEF overlaps, DaySlice, p, q

(* The week and the month of a day. *)
LEMMA WeekRange ==
  ASSUME NEW d \in Int
  PROVE  LET range == calendarRange("week", d) IN
         /\ range.from \in Int /\ range.to \in Int /\ range.from < range.to
         /\ SameWeek(d) = range.from..(range.to - 1)
<1> DEFINE weekday == IF Weekday(d) = 0 THEN 7 ELSE Weekday(d)
           start == d - (weekday - 1)
<1>1. Sunday \in Int
  BY CalendarAssumption
<1>2. calendarRange("week", d) = [from |-> start, to |-> start + 7]
  BY DEF calendarRange
<1>3. start \in Int
  BY <1>1 DEF Weekday
<1>4. \A e \in Int : e \in SameWeek(d) <=> start <= e /\ e <= start + 6
  BY <1>1 DEF Weekday, SameWeek
<1> HIDE DEF start
<1>5. SameWeek(d) \subseteq Int
  BY DEF SameWeek
<1>6. SameWeek(d) = start..(start + 6)
  <2> DEFINE week == SameWeek(d)
  <2>1. start \in Int /\ week \subseteq Int
    BY <1>3, <1>5
  <2>2. \A e \in Int : e \in week <=> start <= e /\ e <= start + 6
    BY <1>4
  <2> HIDE DEF week
  <2>3. \A e : e \in start..(start + 6) <=> e \in Int /\ start <= e /\ e <= start + 6
    BY ONLY <2>1
  <2>4. week = start..(start + 6)
    BY Zenon, <2>1, <2>2, <2>3
  <2> QED
    BY <2>4 DEF week
<1>7. (start + 7) - 1 = start + 6
  BY <1>3
<1> QED
  BY <1>2, <1>3, <1>6, <1>7

LEMMA LeastNatural ==
  ASSUME NEW S, S \subseteq Nat, S # {}
  PROVE  \E k \in S : \A l \in S : k <= l
<1> DEFINE UpTo(k) == 0..k
           T == {UpTo(k) : k \in S}
           R == StrictSubsetOrdering(Nat)
<1>1. \A k \in Nat : IsFiniteSet(UpTo(k)) /\ UpTo(k) \subseteq Nat
  BY FS_Interval
<1>2. IsWellFoundedOn(R, FiniteSubsetsOf(Nat))
  BY FS_StrictSubsetOrderingWellFounded
<1>3. T \subseteq FiniteSubsetsOf(Nat) /\ T # {}
  <2> HIDE DEF UpTo
  <2> QED
    BY <1>1 DEF FiniteSubsetsOf
<1>4. PICK x \in T : \A y \in T : <<y, x>> \notin R
  <2> HIDE DEF T, R
  <2> QED
    BY <1>2, <1>3, WFMin
<1>5. PICK k \in S : x = UpTo(k)
  BY <1>4
<1>6. ASSUME NEW l \in S, ~ (k <= l)
      PROVE  FALSE
  <2>1. UpTo(l) \subseteq UpTo(k) /\ UpTo(l) # UpTo(k)
    BY <1>6
  <2>2. <<UpTo(l), UpTo(k)>> \in R
    <3> HIDE DEF UpTo
    <3> QED
      BY <1>1, <2>1 DEF StrictSubsetOrdering
  <2> QED
    BY <1>4, <1>5, <2>2
<1> QED
  BY <1>6

LEMMA MonthRange ==
  ASSUME NEW d \in Days
  PROVE  LET range == calendarRange("month", d) IN
         /\ range.from \in Int /\ range.to \in Int /\ range.from < range.to
         /\ SameMonth(d) = range.from..(range.to - 1)
<1>1. /\ d \in Int /\ MonthStarts \subseteq Int
      /\ \E m \in MonthStarts : m <= d
      /\ \E m \in MonthStarts : d < m
  BY CalendarAssumption
<1> DEFINE m == StartOfMonth(d)
           n == NextMonth(m)
<1>2. m \in MonthStarts /\ m <= d
  <2> DEFINE Ages == {a \in Nat : d - a \in MonthStarts}
  <2>1. PICK k \in MonthStarts : k <= d
    BY <1>1
  <2>2. d - k \in Ages
    BY <1>1, <2>1
  <2>3. PICK a \in Ages : \A b \in Ages : a <= b
    <3> HIDE DEF Ages
    <3>1. Ages # {} /\ Ages \subseteq Nat
      BY <2>2 DEF Ages
    <3> QED
      BY <3>1, LeastNatural
  <2>4. d - a \in MonthStarts /\ d - a <= d
    BY <1>1, <2>3
  <2>5. ASSUME NEW l \in MonthStarts, l <= d
        PROVE  l <= d - a
    <3>1. d - l \in Ages
      BY <1>1, <2>5
    <3>2. a \in Nat /\ a <= d - l /\ l \in Int /\ d \in Int
      BY <1>1, <2>3, <3>1
    <3> QED
      BY ONLY <3>2
  <2>6. \E h \in MonthStarts : h <= d /\ \A l \in MonthStarts : l <= d => l <= h
    BY <2>4, <2>5
  <2> QED
    BY <2>6 DEF StartOfMonth
<1> HIDE DEF m
<1>3. n \in MonthStarts /\ m < n
  <2> DEFINE Ahead == {a \in Nat : m < m + a /\ m + a \in MonthStarts}
  <2>1. PICK k \in MonthStarts : d < k
    BY <1>1
  <2>2. k - m \in Ahead
    BY <1>1, <1>2, <2>1
  <2>3. PICK a \in Ahead : \A b \in Ahead : a <= b
    <3> HIDE DEF Ahead
    <3>1. Ahead # {} /\ Ahead \subseteq Nat
      BY <2>2 DEF Ahead
    <3> QED
      BY <3>1, LeastNatural
  <2>4. m + a \in MonthStarts /\ m < m + a
    BY <2>3
  <2>5. ASSUME NEW l \in MonthStarts, m < l
        PROVE  m + a <= l
    <3>1. l - m \in Ahead
      BY <1>1, <1>2, <2>5
    <3> QED
      BY <1>1, <1>2, <2>3, <2>5, <3>1
  <2>6. \E h \in MonthStarts : m < h /\ \A l \in MonthStarts : m < l => h <= l
    BY <2>4, <2>5
  <2> QED
    BY <2>6 DEF NextMonth
<1> HIDE DEF n
<1>4. calendarRange("month", d) = [from |-> m, to |-> n] /\ SameMonth(d) = m..(n - 1)
  BY DEF calendarRange, SameMonth, m, n
<1> QED
  BY <1>1, <1>2, <1>3, <1>4

LEMMA SliceOfDays ==
  ASSUME IInv, ProperTimes, NEW view, NEW d, NEW days,
         calendarRange(view, d).from \in Int, calendarRange(view, d).to \in Int,
         calendarRange(view, d).from < calendarRange(view, d).to,
         days = calendarRange(view, d).from..(calendarRange(view, d).to - 1)
  PROVE  Range(CalendarItems(view, d)) = ShownOn(days)
<1> DEFINE a == calendarRange(view, d).from
           b == calendarRange(view, d).to
<1>1. Slice(view, d) = DaySlice(a, b)
  BY DEF Slice, DaySlice
<1>2. \A e : Slice("day", e) = DaySlice(e, e + 1)
  BY DEF Slice, DaySlice, calendarRange
<1>3. \A k \in DOMAIN interviews :
        interviews[k] \in Interview /\ interviews[k].starts < interviews[k].ends
  BY DEF IInv, Typed, ProperTimes
<1>4. \A e : Range(CalendarItems("day", e)) = InSlice("day", e)
  BY ItemsOfSlice
<1>5. Range(CalendarItems(view, d)) = InSlice(view, d)
  BY ItemsOfSlice
<1>6. \A k : k \in ShownOn(days) <=> \E e \in days : k \in InSlice("day", e)
  BY <1>4 DEF ShownOn
<1>7. \A k : k \in InSlice(view, d) <=>
               k \in DOMAIN interviews /\ overlaps(interviews[k], DaySlice(a, b))
  BY <1>1 DEF InSlice
<1>8. \A k, e : k \in InSlice("day", e) <=>
               k \in DOMAIN interviews /\ overlaps(interviews[k], DaySlice(e, e + 1))
  BY <1>2 DEF InSlice
<1> HIDE DEF a, b
<1>9. a \in Int /\ b \in Int /\ a < b /\ days = a..(b - 1)
  BY DEF a, b
<1>10. \A k \in DOMAIN interviews :
         overlaps(interviews[k], DaySlice(a, b)) <=>
           \E e \in days : overlaps(interviews[k], DaySlice(e, e + 1))
  BY <1>3, <1>9, OverlapsADay
<1>11. \A k : k \in InSlice(view, d) <=> k \in ShownOn(days)
  BY Zenon, <1>6, <1>7, <1>8, <1>10
<1> QED
  BY <1>5, <1>11

LEMMA CalendarIsExact == IInv /\ ProperTimes => CalendarShowsItsDays
<1> SUFFICES ASSUME IInv, ProperTimes
             PROVE  CalendarShowsItsDays
  OBVIOUS
<1>1. ASSUME NEW d \in Days
      PROVE  /\ Range(CalendarItems("week", d)) = ShownOn(SameWeek(d))
             /\ Range(CalendarItems("month", d)) = ShownOn(SameMonth(d))
  <2>1. d \in Int
    BY CalendarAssumption
  <2>2. Range(CalendarItems("week", d)) = ShownOn(SameWeek(d))
    BY <2>1, WeekRange, SliceOfDays
  <2>3. Range(CalendarItems("month", d)) = ShownOn(SameMonth(d))
    BY MonthRange, SliceOfDays
  <2> QED
    BY <2>2, <2>3
<1>2. ASSUME NEW w \in Workers, pc[w] = "begun",
             NEW k \in Conflicts(item[w], target[w])
      PROVE  k \in ShownOn((item[w].starts \div DayLength)..(item[w].ends \div DayLength))
  <2> DEFINE days == (item[w].starts \div DayLength)..(item[w].ends \div DayLength)
  <2>1. item[w] \in Interview /\ item[w].starts < item[w].ends
    BY <1>2 DEF IInv, CopiesInHand, ProperTimes, Free
  <2>2. k \in DOMAIN interviews /\ overlaps(item[w], interviews[k])
    BY <1>2 DEF Conflicts
  <2>3. interviews[k] \in Interview /\ interviews[k].starts < interviews[k].ends
    BY <2>2 DEF IInv, Typed, ProperTimes
  <2>4. PICK d \in days : overlaps(interviews[k], DaySlice(d, d + 1))
    BY <2>1, <2>2, <2>3, OverlapOnADay
  <2>5. k \in InSlice("day", d)
    BY <2>2, <2>4 DEF InSlice, Slice, DaySlice, calendarRange
  <2>6. k \in Range(CalendarItems("day", d))
    BY <2>5, ItemsOfSlice
  <2> HIDE DEF days
  <2>7. k \in ShownOn(days)
    BY <2>6 DEF ShownOn
  <2> QED
    BY <2>7 DEF days
<1> QED
  BY <1>1, <1>2 DEF CalendarShowsItsDays

(* The calendar of a week or a month is that of its days, at their ends    *)
(* and on Sundays too, for days of any length, months of any lengths and   *)
(* any interviews; and it has, on the days that a request is for, whatever *)
(* the request is refused for.                                             *)
THEOREM CalendarSlicesAgree == Spec => []CalendarShowsItsDays
<1>1. Init => ProperTimes
  BY DEF Init, ProperTimes, Free
<1> QED
  BY <1>1, InitIInv, StepIInv, StepProperTimes, CalendarIsExact, PTL DEF Spec
=============================================================================
