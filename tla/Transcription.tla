--------------------------- MODULE Transcription ---------------------------
(***************************************************************************)
(* Real-time transcription: the five transcription endpoints of            *)
(* server/router.go, interview/transcription.go and the sessions and       *)
(* segments of interview.MemoryRepository.                                 *)
(*                                                                         *)
(* Writers are the requests of speech recognition clients and operators:   *)
(* append, mark interrupted, reconnect.  Each one reads the session, works *)
(* on its copy and stores the copy as a whole, so two of them interleave   *)
(* between these calls.  Readers poll GET /transcriptions with the cursor  *)
(* of the last answer; an answer may get lost and is then asked for again. *)
(*                                                                         *)
(* Interviews are never deleted, so ensureInterviewExists, once passed,    *)
(* stays true; requests answered 400, 404 or 409 before their first write  *)
(* change nothing.                                                         *)
(***************************************************************************)
EXTENDS Naturals, Sequences, FiniteSets

CONSTANTS
  Interviews,    \* the interviews stored
  Writers,       \* requests that change sessions
  Readers,       \* polling clients
  Follows,       \* Follows[r]: the interview reader r polls
  Limits,        \* values of the limit parameter; 0 stands for none
  DefaultLimit,  \* defaultTranscriptStreamLimit (50)
  MaxLimit,      \* maxTranscriptStreamLimit (200)
  MaxSessions,   \* bound on the number of sessions
  MaxSegments,   \* bound on the number of segments of an interview
  MaxMarks,      \* bound on the number of interrupt and reconnect requests
  NoSession      \* the session copy of a request that has none

Status == {"active", "interrupted"}   \* the code never stores "ended"

Session == [interview : Interviews, status : Status, lastSequence : Nat]
Segment == [sequence : Nat, session : Nat]

ASSUME TranscriptionAssumption ==
  /\ Follows \in [Readers -> Interviews]
  /\ Limits \subseteq Nat
  /\ DefaultLimit \in Nat \ {0}
  /\ MaxLimit \in Nat \ {0}
  /\ MaxSessions \in Nat /\ MaxSegments \in Nat /\ MaxMarks \in Nat
  /\ NoSession \notin Session

VARIABLES
  sessions,   \* transcriptSessions; the n-th started has id n
  segments,   \* transcriptSegments, per interview
  seqOf,      \* transcriptSeqByInterview
  op,         \* what the request of each writer is doing
  sid,        \* the session it names
  copy,       \* its copy of that session
  marks,      \* number of interrupt and reconnect requests taken
  interrupted,\* history: an interruption was stored and no reconnect since
  overlapped, \* history: two requests on the session overlapped
  polling,    \* polling[r]: the session copy of the poll going on
  cursor,     \* cursor[r]: next_sequence of the last answer r got
  received,   \* received[r]: the segments r got, in the order it got them
  hasMore     \* hasMore[r]: has_more of the last answer r got

sessionVars == <<sessions, interrupted, overlapped>>
segmentVars == <<segments, seqOf>>
writerVars == <<op, sid, copy, marks>>
readerVars == <<polling, cursor, received, hasMore>>
vars == <<sessions, interrupted, overlapped, segments, seqOf,
          op, sid, copy, marks, polling, cursor, received, hasMore>>

Ops == {"idle", "append", "appended", "interrupt", "reconnect"}

TypeOK ==
  /\ sessions \in Seq(Session)
  /\ segments \in [Interviews -> Seq(Segment)]
  /\ seqOf \in [Interviews -> Nat]
  /\ op \in [Writers -> Ops]
  /\ sid \in [Writers -> Nat]
  /\ copy \in [Writers -> Session \cup {NoSession}]
  /\ marks \in Nat
  /\ interrupted \in [DOMAIN sessions -> BOOLEAN]
  /\ overlapped \in [DOMAIN sessions -> BOOLEAN]
  /\ polling \in [Readers -> Session \cup {NoSession}]
  /\ cursor \in [Readers -> Nat]
  /\ received \in [Readers -> Seq(Segment)]
  /\ hasMore \in [Readers -> BOOLEAN]

Init ==
  /\ sessions = << >>
  /\ segments = [i \in Interviews |-> << >>]
  /\ seqOf = [i \in Interviews |-> 0]
  /\ op = [w \in Writers |-> "idle"]
  /\ sid = [w \in Writers |-> 0]
  /\ copy = [w \in Writers |-> NoSession]
  /\ marks = 0
  /\ interrupted = << >>
  /\ overlapped = << >>
  /\ polling = [r \in Readers |-> NoSession]
  /\ cursor = [r \in Readers |-> 0]
  /\ received = [r \in Readers |-> << >>]
  /\ hasMore = [r \in Readers |-> FALSE]
-----------------------------------------------------------------------------
(* Writers *)

StartTranscriptSession(i) ==
  /\ Len(sessions) < MaxSessions
  /\ sessions' = Append(sessions, [interview |-> i, status |-> "active",
                                   lastSequence |-> 0])
  /\ interrupted' = Append(interrupted, FALSE)
  /\ overlapped' = Append(overlapped, FALSE)
  /\ UNCHANGED <<segmentVars, writerVars, readerVars>>

(* getTranscriptSessionForInterview: the session must belong to the        *)
(* interview of the path.                                                  *)
SessionsOf(i) == {s \in DOMAIN sessions : sessions[s].interview = i}

InFlight(s) == \E v \in Writers : op[v] # "idle" /\ sid[v] = s

BeginCall(w, s, what, edited) ==
  /\ op[w] = "idle"
  /\ op' = [op EXCEPT ![w] = what]
  /\ sid' = [sid EXCEPT ![w] = s]
  /\ copy' = [copy EXCEPT ![w] = edited]
  /\ overlapped' = [overlapped EXCEPT ![s] = @ \/ InFlight(s)]
  /\ UNCHANGED <<sessions, interrupted, segmentVars, readerVars>>

Appending(i) == {v \in Writers : op[v] = "append" /\ copy[v].interview = i}

(* Only an active session takes segments (ErrTranscriptionSessionInactive). *)
BeginAppend(w, i, s) ==
  /\ s \in SessionsOf(i)
  /\ seqOf[i] + Cardinality(Appending(i)) < MaxSegments
  /\ sessions[s].status = "active"
  /\ BeginCall(w, s, "append", sessions[s])
  /\ UNCHANGED marks

(* Mutant: a reconnect only clears the interruption's reason. *)
MarkedUnlessReconnect(session, what) ==
  [session EXCEPT !.status = IF what = "interrupt" THEN "interrupted" ELSE @]

Marked(session, what) ==
  [session EXCEPT !.status = IF what = "interrupt" THEN "interrupted" ELSE "active"]

BeginMark(w, i, s) ==
  /\ s \in SessionsOf(i)
  /\ marks < MaxMarks
  /\ \E what \in {"interrupt", "reconnect"} :
       BeginCall(w, s, what, Marked(sessions[s], what))
  /\ marks' = marks + 1

(* Mutant: segments are numbered from the request's copy of the session. *)
NextOfCopy(w) == copy[w].lastSequence + 1

NextNumber(w) == seqOf[copy[w].interview] + 1

(* The repository numbers and stores the segment in one critical section.  *)
AppendTranscriptSegment(w) ==
  LET i == copy[w].interview IN
  /\ op[w] = "append"
  /\ seqOf' = [seqOf EXCEPT ![i] = @ + 1]
  /\ segments' = [segments EXCEPT ![i] =
                    Append(@, [sequence |-> NextNumber(w), session |-> sid[w]])]
  /\ copy' = [copy EXCEPT ![w].lastSequence = NextNumber(w)]
  /\ op' = [op EXCEPT ![w] = "appended"]
  /\ UNCHANGED <<sessionVars, sid, marks, readerVars>>

(* The copy replaces the stored session as a whole. *)
UpdateTranscriptSession(w) ==
  /\ op[w] \in {"appended", "interrupt", "reconnect"}
  /\ sessions' = [sessions EXCEPT ![sid[w]] = copy[w]]
  /\ interrupted' = [interrupted EXCEPT ![sid[w]] =
                       CASE op[w] = "interrupt" -> TRUE
                         [] op[w] = "reconnect" -> FALSE
                         [] OTHER -> @]
  /\ op' = [op EXCEPT ![w] = "idle"]
  /\ sid' = [sid EXCEPT ![w] = 0]
  /\ copy' = [copy EXCEPT ![w] = NoSession]
  /\ UNCHANGED <<overlapped, segmentVars, marks, readerVars>>
-----------------------------------------------------------------------------
(* Readers *)

(* Mutant: a missing limit is not replaced by the default. *)
LimitAsAsked(limit) == IF limit > MaxLimit THEN MaxLimit ELSE limit

EffectiveLimit(limit) ==
  IF limit = 0 THEN DefaultLimit
  ELSE IF limit > MaxLimit THEN MaxLimit ELSE limit

(* StreamTranscripts reads the session first ... *)
BeginStream(r) ==
  /\ polling[r] = NoSession
  /\ \E s \in SessionsOf(Follows[r]) :
       polling' = [polling EXCEPT ![r] = sessions[s]]
  /\ UNCHANGED <<sessionVars, segmentVars, writerVars, cursor, received, hasMore>>

(* ... and then takes the segments after since, in the order they are      *)
(* stored and limit of them at most.                                       *)
Newer(i, since) == {k \in DOMAIN segments[i] : segments[i][k].sequence > since}

Nth(indices, n) == CHOOSE k \in indices : Cardinality({j \in indices : j <= k}) = n

After(i, since) ==
  [n \in 1..Cardinality(Newer(i, since)) |-> segments[i][Nth(Newer(i, since), n)]]

Shortest(m, n) == IF m < n THEN m ELSE n

Page(i, since, limit) ==
  SubSeq(After(i, since), 1, Shortest(Len(After(i, since)), limit))

(* Mutant: the session's last sequence goes before the page's. *)
NextOfSession(page, since, session) ==
  IF session.lastSequence > since THEN session.lastSequence
  ELSE IF page # << >> THEN page[Len(page)].sequence
  ELSE since

(* Mutant: a full page always promises more. *)
FullPage(i, since, limit) == Len(After(i, since)) >= limit

MoreThan(i, since, limit) == Len(After(i, since)) > limit

NextSequence(page, since, session) ==
  IF page # << >> THEN page[Len(page)].sequence
  ELSE IF session.lastSequence > since THEN session.lastSequence
  ELSE since

ListTranscriptSegmentsSince(r) ==
  /\ polling[r] # NoSession
  /\ \E limit \in Limits :
       LET i == Follows[r]
           page == Page(i, cursor[r], EffectiveLimit(limit))
       IN /\ received' = [received EXCEPT ![r] = @ \o page]
          /\ cursor' = [cursor EXCEPT ![r] = NextSequence(page, @, polling[r])]
          /\ hasMore' = [hasMore EXCEPT ![r] =
                           MoreThan(i, cursor[r], EffectiveLimit(limit))]
  /\ polling' = [polling EXCEPT ![r] = NoSession]
  /\ UNCHANGED <<sessionVars, segmentVars, writerVars>>

(* The answer is lost: the server keeps no state about the reader. *)
LoseAnswer(r) ==
  /\ polling[r] # NoSession
  /\ polling' = [polling EXCEPT ![r] = NoSession]
  /\ UNCHANGED <<sessionVars, segmentVars, writerVars, cursor, received, hasMore>>

Next == \/ \E i \in Interviews : StartTranscriptSession(i)
        \/ \E w \in Writers, i \in Interviews, s \in DOMAIN sessions :
             BeginAppend(w, i, s) \/ BeginMark(w, i, s)
        \/ \E w \in Writers : AppendTranscriptSegment(w) \/ UpdateTranscriptSession(w)
        \/ \E r \in Readers : \/ BeginStream(r)
                              \/ ListTranscriptSegmentsSince(r)
                              \/ LoseAnswer(r)

(* A request that was taken runs on; a reader keeps polling and not all of *)
(* its answers are lost.                                                   *)
Fairness ==
  /\ \A w \in Writers : WF_vars(AppendTranscriptSegment(w) \/ UpdateTranscriptSession(w))
  /\ \A r \in Readers : WF_vars(BeginStream(r)) /\ SF_vars(ListTranscriptSegmentsSince(r))

Spec == Init /\ [][Next]_vars /\ Fairness
-----------------------------------------------------------------------------
(* The segments of an interview are numbered 1, 2, 3, ... in the order     *)
(* they are stored, whichever of its sessions they came through (README,   *)
(* Transcriptions: "ordered sequence cursor").                             *)
NumberedInOrder ==
  \A i \in Interviews :
    /\ seqOf[i] = Len(segments[i])
    /\ \A k \in DOMAIN segments[i] :
         /\ segments[i][k].sequence = k
         /\ segments[i][k].session \in SessionsOf(i)

(* A reader that passes next_sequence back as since_seq has got every      *)
(* segment up to its cursor exactly once and in order, although the next   *)
(* sequence of an empty page is taken from a session copy read earlier.    *)
ReadersMissNothing ==
  \A r \in Readers :
    received[r] = SubSeq(segments[Follows[r]], 1, cursor[r])
    /\ cursor[r] <= Len(segments[Follows[r]])

(* has_more is exact at the moment the page is taken: it is set when, and  *)
(* only when, segments beyond the page are stored, also when the page is   *)
(* full and ends with the last segment.                                    *)
HasMoreIsExact ==
  [][\A r \in Readers :
       received'[r] # received[r]
         => (hasMore'[r] <=> cursor'[r] < Len(segments[Follows[r]]))]_vars

(* As long as requests on a session do not overlap, its status says        *)
(* whether it was interrupted since the last reconnect, and its            *)
(* last_sequence is the number of the last segment appended through it.    *)
LastOf(i, s) ==
  LET mine == {k \in DOMAIN segments[i] : segments[i][k].session = s}
  IN IF mine = {} THEN 0 ELSE CHOOSE k \in mine : \A j \in mine : j <= k

SessionExactWithoutOverlap ==
  \A s \in DOMAIN sessions :
    ~overlapped[s] =>
      /\ sessions[s].status = "interrupted" <=> interrupted[s]
      /\ InFlight(s) \/ sessions[s].lastSequence = LastOf(sessions[s].interview, s)

Feed == INSTANCE TranscriptFeed
          WITH feed <- segments, got <- received, Sources <- 1..MaxSessions

(* Seen from outside, transcription is TranscriptFeed: one growing list of *)
(* an interview's segments, whichever sessions take them, of which each    *)
(* reader that keeps polling gets every entry in the end, in order and     *)
(* once, however pages are limited and however many answers are lost.      *)
FeedSpec == Feed!Spec
=============================================================================
