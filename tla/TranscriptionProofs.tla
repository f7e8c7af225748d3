------------------------ MODULE TranscriptionProofs ------------------------
(***************************************************************************)
(* Proofs about Transcription, for any number of interviews, sessions,     *)
(* writers and readers and any limits.  That segments are numbered in      *)
(* order and that readers miss nothing is not inductive: a segment is      *)
(* stored for the session its writer names, and the next sequence of an    *)
(* empty page is taken from a copy of a session.  IInv adds that writers   *)
(* hold copies of stored sessions, and that no session and no copy is      *)
(* ahead of the interview's segments.                                      *)
(***************************************************************************)
EXTENDS Transcription, SequenceTheorems, FiniteSetTheorems, TLAPS

NotAhead(session) == session.lastSequence <= Len(segments[session.interview])

SessionsNotAhead == \A s \in DOMAIN sessions : NotAhead(sessions[s])

CopiesKnown ==
  \A w \in Writers : op[w] # "idle" =>
    /\ sid[w] \in DOMAIN sessions
    /\ copy[w] \in Session
    /\ copy[w].interview = sessions[sid[w]].interview
    /\ NotAhead(copy[w])

PollsKnown ==
  \A r \in Readers : polling[r] # NoSession =>
    /\ polling[r] \in Session
    /\ polling[r].interview = Follows[r]
    /\ NotAhead(polling[r])

IInv == /\ TypeOK
        /\ NumberedInOrder
        /\ SessionsNotAhead
        /\ CopiesKnown
        /\ PollsKnown
        /\ ReadersMissNothing
-----------------------------------------------------------------------------
(* The first n elements of a sequence, told element by element. *)
LEMMA PrefixByElements ==
  ASSUME NEW S, NEW s \in Seq(S), NEW t \in Seq(S), NEW n \in Nat, n <= Len(t)
  PROVE  s = SubSeq(t, 1, n) <=> Len(s) = n /\ \A k \in 1..n : s[k] = t[k]
<1>1. \A k \in 1..n : t[k] \in S
  BY LenProperties, ElementOfSeq
<1>2. /\ SubSeq(t, 1, n) \in Seq(S)
      /\ Len(SubSeq(t, 1, n)) = n
      /\ \A k \in 1..n : SubSeq(t, 1, n)[k] = t[k]
  <2>1. /\ SubSeq(t, 1, n) \in Seq(S)
        /\ Len(SubSeq(t, 1, n)) = IF 1 <= n THEN n - 1 + 1 ELSE 0
        /\ \A k \in 1..(n - 1 + 1) : SubSeq(t, 1, n)[k] = t[1 + k - 1]
    BY <1>1, SubSeqProperties
  <2> QED
    BY <2>1
<1>3. ASSUME Len(s) = n, \A k \in 1..n : s[k] = t[k]
      PROVE  s = SubSeq(t, 1, n)
  BY <1>2, <1>3, SeqEqual
<1> QED
  BY <1>2, <1>3

(* A prefix stays one when the sequence grows. *)
LEMMA PrefixStays ==
  ASSUME NEW S, NEW t \in Seq(S), NEW e \in S, NEW n \in Nat, n <= Len(t)
  PROVE  SubSeq(Append(t, e), 1, n) = SubSeq(t, 1, n)
<1> DEFINE p == SubSeq(t, 1, n)
           u == Append(t, e)
<1>1. /\ u \in Seq(S)
      /\ Len(u) = Len(t) + 1
      /\ \A k \in 1..Len(t) : u[k] = t[k]
  BY AppendProperties
<1>2. Len(t) \in Nat
  BY LenProperties
<1>3. p \in Seq(S)
  <2>1. \A k \in 1..n : t[k] \in S
    BY <1>2, ElementOfSeq
  <2> QED
    BY <2>1, SubSeqProperties
<1>4. Len(p) = n /\ \A k \in 1..n : p[k] = t[k]
  BY <1>3, PrefixByElements
<1> HIDE DEF p, u
<1>5. \A k \in 1..n : p[k] = u[k]
  BY <1>1, <1>2, <1>4
<1>6. p = SubSeq(u, 1, n)
  BY <1>1, <1>2, <1>3, <1>4, <1>5, PrefixByElements
<1> QED
  BY <1>6 DEF p, u
-----------------------------------------------------------------------------
LEMMA IntervalSize ==
  ASSUME NEW a \in Nat, NEW b \in Nat, a <= b
  PROVE  Cardinality((a + 1)..b) = b - a
<1> DEFINE c == a + 1
<1>1. c \in Int /\ b \in Int
  OBVIOUS
<1> HIDE DEF c
<1>2. Cardinality(c..b) = IF c > b THEN 0 ELSE b - c + 1
  BY <1>1, FS_Interval, Zenon
<1> QED
  BY <1>2 DEF c

(* The segments after since are the rest of the list. *)
LEMMA AfterIsRest ==
  ASSUME TypeOK, NumberedInOrder, NEW i \in Interviews, NEW since \in Nat,
         since <= Len(segments[i])
  PROVE  LET rest == Len(segments[i]) - since IN
         /\ rest \in Nat
         /\ After(i, since) = [n \in 1..rest |-> segments[i][since + n]]
<1> DEFINE last == Len(segments[i])
           newer == Newer(i, since)
<1>1. /\ segments[i] \in Seq(Segment)
      /\ last \in Nat
      /\ DOMAIN segments[i] = 1..last
      /\ \A k \in 1..last : segments[i][k].sequence = k
  BY LenProperties DEF TypeOK, NumberedInOrder
<1>2. newer = (since + 1)..last
  BY <1>1 DEF Newer
<1>3. Cardinality((since + 1)..last) = last - since
  BY <1>1, IntervalSize
<1>4. \A k \in newer : Cardinality({j \in newer : j <= k}) = k - since
  <2> SUFFICES ASSUME NEW k \in newer
      PROVE Cardinality({j \in newer : j <= k}) = k - since
    OBVIOUS
  <2>1. k \in Int /\ since + 1 <= k /\ k <= last
    BY <1>1, <1>2
  <2>2. {j \in newer : j <= k} = (since + 1)..k
    BY <1>1, <1>2, <2>1
  <2>3. k \in Nat /\ since <= k
    BY <2>1
  <2>4. Cardinality((since + 1)..k) = k - since
    BY <2>3, IntervalSize
  <2> HIDE DEF newer
  <2> QED
    BY <2>2, <2>4, Zenon
<1>5. \A n \in 1..(last - since) : Nth(newer, n) = since + n
  <2> SUFFICES ASSUME NEW n \in 1..(last - since) PROVE Nth(newer, n) = since + n
    OBVIOUS
  <2>1. since + n \in newer
    BY <1>1, <1>2
  <2>2. \A k \in newer : Cardinality({j \in newer : j <= k}) = n <=> k = since + n
    BY <1>1, <1>2, <1>4
  <2> HIDE DEF newer
  <2>3. (CHOOSE k \in newer : Cardinality({j \in newer : j <= k}) = n) = since + n
    BY <2>1, <2>2
  <2> QED
    BY <2>3 DEF Nth
<1> QED
  BY <1>1, <1>2, <1>3, <1>5 DEF After

(* A page continues where the reader is, and its next sequence is the      *)
(* number of its last segment.                                             *)
LEMMA PageIsNext ==
  ASSUME TypeOK, NumberedInOrder, NEW i \in Interviews, NEW since \in Nat,
         since <= Len(segments[i]), NEW limit \in Nat \ {0},
         NEW session \in Session, session.lastSequence <= Len(segments[i])
  PROVE  LET page == Page(i, since, limit)
             next == NextSequence(page, since, session)
         IN /\ page \in Seq(Segment)
            /\ next = since + Len(page)
            /\ next <= Len(segments[i])
            /\ \A n \in 1..Len(page) : page[n] = segments[i][since + n]
            /\ MoreThan(i, since, limit) <=> next < Len(segments[i])
<1> DEFINE last == Len(segments[i])
           rest == last - since
           after == [n \in 1..rest |-> segments[i][since + n]]
           size == Shortest(rest, limit)
           page == Page(i, since, limit)
<1>1. /\ segments[i] \in Seq(Segment)
      /\ last \in Nat
      /\ \A k \in 1..last : segments[i][k].sequence = k /\ segments[i][k] \in Segment
  BY LenProperties, ElementOfSeq DEF TypeOK, NumberedInOrder
<1>2. rest \in Nat /\ After(i, since) = after
  BY AfterIsRest
<1>3. Len(after) = rest /\ \A n \in 1..rest : after[n] = segments[i][since + n]
  BY <1>2
<1>4. size \in Nat /\ size <= rest /\ size <= limit /\ (size = rest \/ size = limit)
  BY <1>2 DEF Shortest
<1>5. page = SubSeq(after, 1, size)
  BY <1>2, <1>3 DEF Page
<1>6. \A n \in 1..size : after[n] \in Segment
  BY <1>1, <1>2, <1>3, <1>4
<1>7. /\ page \in Seq(Segment)
      /\ Len(page) = size
      /\ \A n \in 1..size : page[n] = segments[i][since + n]
  <2> HIDE DEF after, size
  <2>1. /\ SubSeq(after, 1, size) \in Seq(Segment)
        /\ Len(SubSeq(after, 1, size)) = IF 1 <= size THEN size - 1 + 1 ELSE 0
        /\ \A n \in 1..(size - 1 + 1) : SubSeq(after, 1, size)[n] = after[1 + n - 1]
    BY <1>4, <1>6, SubSeqProperties
  <2>2. \A n \in 1..size : n \in 1..rest
    BY <1>2, <1>4
  <2> QED
    BY <1>3, <1>4, <1>5, <2>1, <2>2
<1> HIDE DEF after, size, page
<1>8. session.lastSequence \in Nat
  BY DEF Session
<1>9. NextSequence(page, since, session) = since + size
  <2>1. CASE size = 0
    <3>1. page = << >> /\ rest = 0
      BY <1>4, <1>7, <2>1, EmptySeq
    <3>2. ~(session.lastSequence > since)
      BY <1>1, <1>8, <3>1
    <3> QED
      BY <2>1, <3>1, <3>2 DEF NextSequence
  <2>2. CASE size # 0
    <3>1. page # << >>
      BY <1>4, <1>7, <2>2, EmptySeq
    <3>2. page[size].sequence = since + size
      BY SMTT(30), <1>1, <1>2, <1>4, <1>7, <2>2
    <3> QED
      BY <1>7, <3>1, <3>2 DEF NextSequence
  <2> QED
    BY <2>1, <2>2
<1>10. MoreThan(i, since, limit) <=> rest > limit
  BY <1>2, <1>3 DEF MoreThan
<1> QED
  BY SMTT(30), <1>1, <1>2, <1>4, <1>7, <1>9, <1>10 DEF page
-----------------------------------------------------------------------------
LEMMA InitIInv == Init => IInv
<1> SUFFICES ASSUME Init PROVE IInv
  OBVIOUS
<1>1. TypeOK
  BY TranscriptionAssumption DEF Init, TypeOK, Ops
<1>2. NumberedInOrder
  BY DEF Init, NumberedInOrder
<1>3. SessionsNotAhead /\ CopiesKnown /\ PollsKnown
  BY DEF Init, SessionsNotAhead, CopiesKnown, PollsKnown
<1>4. ReadersMissNothing
  <2> SUFFICES ASSUME NEW r \in Readers
      PROVE /\ received[r] = SubSeq(segments[Follows[r]], 1, cursor[r])
            /\ cursor[r] <= Len(segments[Follows[r]])
    BY DEF ReadersMissNothing
  <2>1. received[r] = << >> /\ cursor[r] = 0 /\ segments[Follows[r]] = << >>
    BY TranscriptionAssumption DEF Init
  <2>2. SubSeq(<< >>, 1, 0) = << >>
    BY SubSeqEmpty
  <2> QED
    BY <2>1, <2>2
<1> QED
  BY <1>1, <1>2, <1>3, <1>4 DEF IInv

(* Readers are where they were, as long as nothing was stored or received. *)
LEMMA ReadersStay ==
  ASSUME ReadersMissNothing, UNCHANGED <<segments, cursor, received>>
  PROVE  ReadersMissNothing'
BY DEF ReadersMissNothing

LEMMA StartIInv ==
  ASSUME IInv, NEW i \in Interviews, StartTranscriptSession(i)
  PROVE  IInv'
<1> DEFINE new == [interview |-> i, status |-> "active", lastSequence |-> 0]
           n == Len(sessions)
<1> USE DEF IInv
<1>1. new \in Session
  BY DEF Session, Status
<1>2. /\ sessions \in Seq(Session)
      /\ n \in Nat
      /\ DOMAIN sessions = 1..n
  BY LenProperties DEF TypeOK
<1>3. sessions' = Append(sessions, new)
  BY DEF StartTranscriptSession
<1>4. /\ sessions' \in Seq(Session)
      /\ Len(sessions') = n + 1
      /\ DOMAIN sessions' = 1..(n + 1)
      /\ \A s \in 1..n : sessions'[s] = sessions[s]
      /\ sessions'[n + 1] = new
  <2> HIDE DEF new
  <2>1. /\ sessions' \in Seq(Session)
        /\ Len(sessions') = n + 1
        /\ \A s \in 1..n : sessions'[s] = sessions[s]
        /\ sessions'[n + 1] = new
    BY <1>1, <1>2, <1>3, AppendProperties
  <2> QED
    BY <2>1, LenProperties
<1>5. /\ interrupted' \in [DOMAIN sessions' -> BOOLEAN]
      /\ overlapped' \in [DOMAIN sessions' -> BOOLEAN]
  <2>1. ASSUME NEW f \in [1..n -> BOOLEAN]
        PROVE  Append(f, FALSE) \in [1..(n + 1) -> BOOLEAN]
    <3>1. f \in Seq(BOOLEAN) /\ Len(f) = n
      BY <1>2
    <3>2. Append(f, FALSE) \in Seq(BOOLEAN) /\ Len(Append(f, FALSE)) = n + 1
      BY <3>1, AppendProperties
    <3> QED
      BY <3>2, LenProperties
  <2> QED
    BY <1>2, <1>4, <2>1 DEF TypeOK, StartTranscriptSession
<1>6. UNCHANGED <<segmentVars, writerVars, readerVars>>
  BY DEF StartTranscriptSession
<1>7. TypeOK'
  BY <1>4, <1>5, <1>6 DEF TypeOK, segmentVars, writerVars, readerVars
<1>8. NumberedInOrder'
  <2>1. \A j \in Interviews : SessionsOf(j) \subseteq SessionsOf(j)'
    BY <1>2, <1>4 DEF SessionsOf
  <2> QED
    BY <1>6, <2>1 DEF NumberedInOrder, segmentVars
<1>9. SessionsNotAhead'
  <2> SUFFICES ASSUME NEW s \in DOMAIN sessions' PROVE NotAhead(sessions[s])'
    BY DEF SessionsNotAhead
  <2>1. Len(segments[i]) \in Nat
    BY LenProperties DEF TypeOK
  <2>2. CASE s \in 1..n
    BY <1>2, <1>4, <1>6, <2>2 DEF SessionsNotAhead, NotAhead, segmentVars
  <2>3. CASE s = n + 1
    BY <1>4, <1>6, <2>1, <2>3 DEF NotAhead, segmentVars
  <2> QED
    BY <1>2, <1>4, <2>2, <2>3
<1>10. CopiesKnown'
  BY <1>2, <1>4, <1>6 DEF CopiesKnown, NotAhead, segmentVars, writerVars
<1>11. PollsKnown'
  BY <1>6 DEF PollsKnown, NotAhead, segmentVars, readerVars
<1>12. ReadersMissNothing'
  BY <1>6, ReadersStay DEF segmentVars, readerVars
<1> QED
  BY <1>7, <1>8, <1>9, <1>10, <1>11, <1>12

LEMMA BeginIInv ==
  ASSUME IInv, NEW w \in Writers, NEW s \in DOMAIN sessions, NEW what \in Ops,
         NEW edited \in Session,
         edited.interview = sessions[s].interview,
         edited.lastSequence = sessions[s].lastSequence,
         BeginCall(w, s, what, edited), marks' \in Nat
  PROVE  IInv'
<1> USE DEF IInv
<1>1. UNCHANGED <<sessions, interrupted, segmentVars, readerVars>>
  BY DEF BeginCall
<1>2. /\ op' = [op EXCEPT ![w] = what]
      /\ sid' = [sid EXCEPT ![w] = s]
      /\ copy' = [copy EXCEPT ![w] = edited]
  BY DEF BeginCall
<1>3. s \in Nat
  BY LenProperties DEF TypeOK
<1>4. overlapped' \in [DOMAIN sessions' -> BOOLEAN]
  <2>1. InFlight(s) \in BOOLEAN
    BY DEF InFlight
  <2>2. overlapped' = [overlapped EXCEPT ![s] = overlapped[s] \/ InFlight(s)]
    BY DEF BeginCall
  <2> QED
    BY <1>1, <2>1, <2>2 DEF TypeOK
<1>5. TypeOK'
  BY <1>1, <1>2, <1>3, <1>4 DEF TypeOK, segmentVars, readerVars
<1>6. NumberedInOrder' /\ SessionsNotAhead' /\ PollsKnown' /\ ReadersMissNothing'
  BY <1>1, ReadersStay DEF NumberedInOrder, SessionsNotAhead, PollsKnown, NotAhead,
     SessionsOf, segmentVars, readerVars
<1>7. CopiesKnown'
  <2> SUFFICES ASSUME NEW v \in Writers, op'[v] # "idle"
      PROVE /\ sid'[v] \in DOMAIN sessions'
            /\ copy'[v] \in Session
            /\ copy'[v].interview = sessions'[sid'[v]].interview
            /\ NotAhead(copy[v])'
    BY DEF CopiesKnown
  <2>1. CASE v = w
    <3>1. sid'[v] = s /\ copy'[v] = edited
      BY <1>2, <2>1 DEF TypeOK
    <3> QED
      BY <1>1, <3>1 DEF SessionsNotAhead, NotAhead, segmentVars
  <2>2. CASE v # w
    <3>1. op[v] # "idle" /\ sid'[v] = sid[v] /\ copy'[v] = copy[v]
      BY <1>2, <2>2 DEF TypeOK
    <3> QED
      BY <1>1, <3>1 DEF CopiesKnown, NotAhead, segmentVars
  <2> QED
    BY <2>1, <2>2
<1> QED
  BY <1>5, <1>6, <1>7

LEMMA AppendIInv ==
  ASSUME IInv, NEW w \in Writers, AppendTranscriptSegment(w)
  PROVE  IInv'
<1> DEFINE i == copy[w].interview
           n == Len(segments[i])
           new == [sequence |-> NextNumber(w), session |-> sid[w]]
<1> USE DEF IInv
<1>1. /\ sid[w] \in DOMAIN sessions
      /\ copy[w] \in Session
      /\ i \in Interviews
      /\ i = sessions[sid[w]].interview
  BY DEF AppendTranscriptSegment, CopiesKnown, Session
<1>2. /\ segments[i] \in Seq(Segment)
      /\ n \in Nat
      /\ NextNumber(w) = n + 1
      /\ sid[w] \in Nat
  BY <1>1, LenProperties DEF TypeOK, NumberedInOrder, NextNumber
<1>3. new \in Segment
  BY <1>2 DEF Segment
<1>4. /\ segments' = [segments EXCEPT ![i] = Append(segments[i], new)]
      /\ seqOf' = [seqOf EXCEPT ![i] = seqOf[i] + 1]
      /\ copy' = [copy EXCEPT ![w].lastSequence = NextNumber(w)]
      /\ op' = [op EXCEPT ![w] = "appended"]
      /\ UNCHANGED <<sessionVars, sid, marks, readerVars>>
  BY DEF AppendTranscriptSegment
<1>5. /\ segments'[i] \in Seq(Segment)
      /\ Len(segments'[i]) = n + 1
      /\ \A k \in 1..n : segments'[i][k] = segments[i][k]
      /\ segments'[i][n + 1] = new
      /\ segments'[i] = Append(segments[i], new)
      /\ \A j \in Interviews \ {i} : segments'[j] = segments[j]
  <2>1. /\ segments'[i] = Append(segments[i], new)
        /\ \A j \in Interviews \ {i} : segments'[j] = segments[j]
    BY <1>1, <1>4 DEF TypeOK
  <2> HIDE DEF new
  <2> QED
    BY <1>2, <1>3, <2>1, AppendProperties
<1>6. \A j \in Interviews : /\ Len(segments[j]) \in Nat
                            /\ Len(segments'[j]) \in Nat
                            /\ Len(segments[j]) <= Len(segments'[j])
  <2> SUFFICES ASSUME NEW j \in Interviews
      PROVE /\ Len(segments[j]) \in Nat
            /\ Len(segments'[j]) \in Nat
            /\ Len(segments[j]) <= Len(segments'[j])
    OBVIOUS
  <2>1. Len(segments[j]) \in Nat
    BY LenProperties DEF TypeOK
  <2> QED
    BY <1>2, <1>5, <2>1
<1>7. /\ copy'[w] \in Session
      /\ copy'[w].interview = i
      /\ copy'[w].lastSequence = n + 1
      /\ \A v \in Writers \ {w} : copy'[v] = copy[v]
  <2>1. /\ copy'[w] = [copy[w] EXCEPT !.lastSequence = n + 1]
        /\ \A v \in Writers \ {w} : copy'[v] = copy[v]
    BY <1>2, <1>4 DEF TypeOK
  <2>2. n + 1 \in Nat
    BY <1>2
  <2> QED
    BY <1>1, <2>1, <2>2 DEF Session
<1>8. \A session \in Session : NotAhead(session) => NotAhead(session)'
  BY <1>6 DEF NotAhead, Session
<1>9. TypeOK'
  <2>1. segments' \in [Interviews -> Seq(Segment)]
    BY <1>1, <1>4, <1>5 DEF TypeOK
  <2>2. seqOf' \in [Interviews -> Nat]
    BY <1>1, <1>4 DEF TypeOK
  <2>3. copy' \in [Writers -> Session \cup {NoSession}]
    BY <1>4, <1>7 DEF TypeOK
  <2> QED
    BY <1>4, <2>1, <2>2, <2>3 DEF TypeOK, Ops, sessionVars, readerVars
<1>10. NumberedInOrder'
  <2> SUFFICES ASSUME NEW j \in Interviews
      PROVE /\ seqOf'[j] = Len(segments'[j])
            /\ \A k \in DOMAIN segments'[j] :
                 /\ segments'[j][k].sequence = k
                 /\ segments'[j][k].session \in SessionsOf(j)'
    BY DEF NumberedInOrder
  <2>1. SessionsOf(j)' = SessionsOf(j)
    BY <1>4 DEF SessionsOf, sessionVars
  <2>2. CASE j = i
    <3>1. seqOf'[j] = Len(segments'[j])
      BY <1>1, <1>2, <1>4, <1>5, <2>2 DEF TypeOK, NumberedInOrder
    <3>2. DOMAIN segments'[i] = 1..(n + 1) /\ DOMAIN segments[i] = 1..n
      BY <1>2, <1>5, LenProperties
    <3>3. ASSUME NEW k \in 1..n
          PROVE  segments'[i][k].sequence = k /\ segments'[i][k].session \in SessionsOf(i)
      <4>1. k \in DOMAIN segments[i]
        BY <3>2
      <4>2. segments[i][k].sequence = k /\ segments[i][k].session \in SessionsOf(i)
        BY <1>1, <4>1 DEF NumberedInOrder
      <4> QED
        BY <1>5, <4>2
    <3>4. /\ segments'[i][n + 1].sequence = n + 1
          /\ segments'[i][n + 1].session \in SessionsOf(i)
      <4>1. segments'[i][n + 1] = new
        BY <1>5
      <4>2. sid[w] \in SessionsOf(i)
        BY <1>1 DEF SessionsOf
      <4> QED
        BY <1>2, <4>1, <4>2
    <3>5. \A k \in 1..(n + 1) : k \in 1..n \/ k = n + 1
      BY <1>2
    <3> QED
      BY <2>1, <2>2, <3>1, <3>2, <3>3, <3>4, <3>5
  <2>3. CASE j # i
    <3>1. segments'[j] = segments[j] /\ seqOf'[j] = seqOf[j]
      BY <1>1, <1>4, <1>5, <2>3 DEF TypeOK
    <3>2. /\ seqOf[j] = Len(segments[j])
          /\ \A k \in DOMAIN segments[j] : /\ segments[j][k].sequence = k
                                          /\ segments[j][k].session \in SessionsOf(j)
      BY DEF NumberedInOrder
    <3> QED
      BY <2>1, <3>1, <3>2
  <2> QED
    BY <2>2, <2>3
<1>11. SessionsNotAhead'
  <2> SUFFICES ASSUME NEW s \in DOMAIN sessions PROVE NotAhead(sessions[s])'
    BY <1>4 DEF SessionsNotAhead, sessionVars
  <2>1. sessions[s] \in Session
    BY ElementOfSeq, LenProperties DEF TypeOK
  <2>2. sessions'[s] = sessions[s]
    BY <1>4 DEF sessionVars
  <2> QED
    BY <1>8, <2>1, <2>2 DEF SessionsNotAhead, NotAhead
<1>12. CopiesKnown'
  <2> SUFFICES ASSUME NEW v \in Writers, op'[v] # "idle"
      PROVE /\ sid'[v] \in DOMAIN sessions'
            /\ copy'[v] \in Session
            /\ copy'[v].interview = sessions'[sid'[v]].interview
            /\ NotAhead(copy[v])'
    BY DEF CopiesKnown
  <2>1. sessions' = sessions /\ sid' = sid
    BY <1>4 DEF sessionVars
  <2>2. CASE v = w
    BY SMTT(30), <1>1, <1>5, <1>7, <2>1, <2>2 DEF NotAhead
  <2>3. CASE v # w
    <3>1. op[v] # "idle" /\ copy'[v] = copy[v]
      BY <1>4, <1>7, <2>3 DEF TypeOK
    <3>2. copy[v] \in Session /\ NotAhead(copy[v])
      BY <3>1 DEF CopiesKnown
    <3> QED
      BY <1>8, <2>1, <3>1, <3>2 DEF CopiesKnown, NotAhead
  <2> QED
    BY <2>2, <2>3
<1>13. PollsKnown'
  BY <1>4, <1>8 DEF PollsKnown, NotAhead, readerVars
<1>14. ReadersMissNothing'
  <2> SUFFICES ASSUME NEW r \in Readers
      PROVE /\ received[r] = SubSeq(segments'[Follows[r]], 1, cursor[r])
            /\ cursor[r] <= Len(segments'[Follows[r]])
    BY <1>4 DEF ReadersMissNothing, readerVars
  <2>1. Follows[r] \in Interviews /\ cursor[r] \in Nat
    BY TranscriptionAssumption DEF TypeOK
  <2>2. /\ received[r] = SubSeq(segments[Follows[r]], 1, cursor[r])
        /\ cursor[r] <= Len(segments[Follows[r]])
    BY DEF ReadersMissNothing
  <2>3. cursor[r] <= Len(segments'[Follows[r]])
    BY <1>6, <2>1, <2>2
  <2>4. CASE Follows[r] = i
    <3> HIDE DEF new
    <3>1. SubSeq(Append(segments[i], new), 1, cursor[r]) = SubSeq(segments[i], 1, cursor[r])
      BY <1>2, <1>3, <2>1, <2>2, <2>4, PrefixStays
    <3> QED
      BY <1>5, <2>2, <2>3, <2>4, <3>1
  <2>5. CASE Follows[r] # i
    BY <1>5, <2>1, <2>2, <2>5
  <2> QED
    BY <2>4, <2>5
<1> QED
  BY <1>9, <1>10, <1>11, <1>12, <1>13, <1>14

LEMMA UpdateIInv ==
  ASSUME IInv, NEW w \in Writers, UpdateTranscriptSession(w)
  PROVE  IInv'
<1> USE DEF IInv
<1>1. /\ sid[w] \in DOMAIN sessions
      /\ copy[w] \in Session
      /\ copy[w].interview = sessions[sid[w]].interview
      /\ NotAhead(copy[w])
  BY DEF UpdateTranscriptSession, CopiesKnown
<1>2. /\ sessions' = [sessions EXCEPT ![sid[w]] = copy[w]]
      /\ op' = [op EXCEPT ![w] = "idle"]
      /\ sid' = [sid EXCEPT ![w] = 0]
      /\ copy' = [copy EXCEPT ![w] = NoSession]
      /\ UNCHANGED <<overlapped, segmentVars, marks, readerVars>>
  BY DEF UpdateTranscriptSession
<1>3. sessions \in Seq(Session) /\ DOMAIN sessions = 1..Len(sessions)
  BY LenProperties DEF TypeOK
<1>4. /\ sessions' \in Seq(Session)
      /\ DOMAIN sessions' = DOMAIN sessions
      /\ \A s \in DOMAIN sessions :
           sessions'[s] = IF s = sid[w] THEN copy[w] ELSE sessions[s]
      /\ \A s \in DOMAIN sessions : sessions'[s].interview = sessions[s].interview
  <2>1. sessions' \in Seq(Session) /\ Len(sessions') = Len(sessions)
    BY <1>1, <1>2, <1>3, ExceptSeq
  <2> QED
    BY <1>1, <1>2, <1>3, <2>1, LenProperties
<1>5. interrupted' \in [DOMAIN sessions' -> BOOLEAN]
  <2> DEFINE is == CASE op[w] = "interrupt" -> TRUE
                     [] op[w] = "reconnect" -> FALSE
                     [] OTHER -> interrupted[sid[w]]
  <2>1. is \in BOOLEAN
    <3>1. interrupted[sid[w]] \in BOOLEAN
      BY <1>1 DEF TypeOK
    <3> QED
      BY <3>1
  <2>2. interrupted' = [interrupted EXCEPT ![sid[w]] = is]
    BY DEF UpdateTranscriptSession
  <2> HIDE DEF is
  <2> QED
    BY <1>4, <2>1, <2>2 DEF TypeOK
<1>6. TypeOK'
  BY <1>2, <1>4, <1>5 DEF TypeOK, Ops, segmentVars, readerVars
<1>7. NumberedInOrder'
  <2>1. \A i \in Interviews : SessionsOf(i)' = SessionsOf(i)
    BY <1>4 DEF SessionsOf
  <2> QED
    BY <1>2, <2>1 DEF NumberedInOrder, segmentVars
<1>8. SessionsNotAhead'
  BY <1>1, <1>2, <1>4 DEF SessionsNotAhead, NotAhead, segmentVars
<1>9. CopiesKnown'
  <2> SUFFICES ASSUME NEW v \in Writers, op'[v] # "idle"
      PROVE /\ sid'[v] \in DOMAIN sessions'
            /\ copy'[v] \in Session
            /\ copy'[v].interview = sessions'[sid'[v]].interview
            /\ NotAhead(copy[v])'
    BY DEF CopiesKnown
  <2>1. /\ v # w
        /\ op[v] # "idle"
        /\ sid'[v] = sid[v]
        /\ copy'[v] = copy[v]
    BY <1>2 DEF TypeOK
  <2> QED
    BY <1>2, <1>4, <2>1 DEF CopiesKnown, NotAhead, segmentVars
<1>10. PollsKnown' /\ ReadersMissNothing'
  BY <1>2, ReadersStay DEF PollsKnown, NotAhead, segmentVars, readerVars
<1> QED
  BY <1>6, <1>7, <1>8, <1>9, <1>10

LEMMA BeginStreamIInv ==
  ASSUME IInv, NEW r \in Readers, BeginStream(r)
  PROVE  IInv'
<1> USE DEF IInv
<1>1. PICK s \in SessionsOf(Follows[r]) :
        polling' = [polling EXCEPT ![r] = sessions[s]]
  BY DEF BeginStream
<1>2. UNCHANGED <<sessionVars, segmentVars, writerVars, cursor, received, hasMore>>
  BY DEF BeginStream
<1>3. /\ s \in DOMAIN sessions
      /\ sessions[s] \in Session
      /\ sessions[s].interview = Follows[r]
      /\ NotAhead(sessions[s])
  BY LenProperties, ElementOfSeq DEF SessionsOf, SessionsNotAhead, TypeOK
<1>4. TypeOK'
  BY <1>1, <1>2, <1>3 DEF TypeOK, sessionVars, segmentVars, writerVars
<1>5. NumberedInOrder' /\ SessionsNotAhead' /\ CopiesKnown' /\ ReadersMissNothing'
  BY <1>2, ReadersStay DEF NumberedInOrder, SessionsNotAhead, CopiesKnown, NotAhead,
     SessionsOf, sessionVars, segmentVars, writerVars
<1>6. PollsKnown'
  <2> SUFFICES ASSUME NEW q \in Readers, polling'[q] # NoSession
      PROVE /\ polling'[q] \in Session
            /\ polling'[q].interview = Follows[q]
            /\ NotAhead(polling[q])'
    BY DEF PollsKnown
  <2>1. CASE q = r
    BY <1>1, <1>2, <1>3, <2>1 DEF TypeOK, NotAhead, segmentVars
  <2>2. CASE q # r
    BY <1>1, <1>2, <2>2 DEF TypeOK, PollsKnown, NotAhead, segmentVars
  <2> QED
    BY <2>1, <2>2
<1> QED
  BY <1>4, <1>5, <1>6

(* What reader r gets with a page: the next segments, and a cursor behind  *)
(* the last of them.                                                       *)
LEMMA PageReceived ==
  ASSUME IInv, NEW r \in Readers, ListTranscriptSegmentsSince(r)
  PROVE  LET stored == segments[Follows[r]] IN
         /\ received' \in [Readers -> Seq(Segment)]
         /\ cursor' \in [Readers -> Nat]
         /\ hasMore' \in [Readers -> BOOLEAN]
         /\ received'[r] = SubSeq(stored, 1, cursor'[r])
         /\ cursor[r] <= cursor'[r] /\ cursor'[r] <= Len(stored)
         /\ hasMore'[r] <=> cursor'[r] < Len(stored)
         /\ \A q \in Readers \ {r} : /\ received'[q] = received[q]
                                     /\ cursor'[q] = cursor[q]
                                     /\ hasMore'[q] = hasMore[q]
<1> DEFINE i == Follows[r]
           stored == segments[i]
           since == cursor[r]
<1> USE DEF IInv
<1>1. /\ i \in Interviews
      /\ stored \in Seq(Segment)
      /\ Len(stored) \in Nat
      /\ since \in Nat
      /\ since <= Len(stored)
      /\ received[r] \in Seq(Segment)
      /\ received[r] = SubSeq(stored, 1, since)
  BY TranscriptionAssumption, LenProperties DEF TypeOK, ReadersMissNothing
<1>2. /\ polling[r] \in Session
      /\ polling[r].lastSequence <= Len(stored)
  BY DEF ListTranscriptSegmentsSince, PollsKnown, NotAhead
<1>3. PICK limit \in Limits :
        /\ received' = [received EXCEPT ![r] = @ \o Page(i, since, EffectiveLimit(limit))]
        /\ cursor' = [cursor EXCEPT ![r] =
                        NextSequence(Page(i, since, EffectiveLimit(limit)), @, polling[r])]
        /\ hasMore' = [hasMore EXCEPT ![r] = MoreThan(i, since, EffectiveLimit(limit))]
  BY DEF ListTranscriptSegmentsSince
<1> DEFINE most == EffectiveLimit(limit)
           page == Page(i, since, most)
           next == NextSequence(page, since, polling[r])
<1>4. most \in Nat \ {0}
  BY TranscriptionAssumption DEF EffectiveLimit
<1>5. /\ page \in Seq(Segment)
      /\ next = since + Len(page)
      /\ next <= Len(stored)
      /\ \A n \in 1..Len(page) : page[n] = stored[since + n]
      /\ MoreThan(i, since, most) <=> next < Len(stored)
  BY <1>1, <1>2, <1>4, PageIsNext
<1>6. /\ received' = [received EXCEPT ![r] = received[r] \o page]
      /\ cursor' = [cursor EXCEPT ![r] = next]
      /\ hasMore' = [hasMore EXCEPT ![r] = MoreThan(i, since, most)]
  BY <1>3
<1>7. MoreThan(i, since, most) \in BOOLEAN
  BY DEF MoreThan
<1> HIDE DEF page, next, most
<1>8. Len(page) \in Nat /\ next \in Nat
  BY <1>1, <1>5, LenProperties
<1>9. /\ received[r] \o page \in Seq(Segment)
      /\ Len(received[r] \o page) = Len(received[r]) + Len(page)
      /\ \A k \in 1..(Len(received[r]) + Len(page)) :
           (received[r] \o page)[k] = IF k <= Len(received[r]) THEN received[r][k]
                                      ELSE page[k - Len(received[r])]
  BY ZenonT(60), <1>1, <1>5, ConcatProperties
<1>10. Len(received[r]) = since /\ \A k \in 1..since : received[r][k] = stored[k]
  BY <1>1, PrefixByElements
<1>11. received[r] \o page = SubSeq(stored, 1, next)
  <2> DEFINE all == received[r] \o page
  <2>1. all \in Seq(Segment) /\ Len(all) = next
    BY <1>5, <1>9, <1>10
  <2>2. ASSUME NEW k \in 1..next
        PROVE  all[k] = stored[k]
    <3>1. CASE k <= since
      BY <1>1, <1>5, <1>8, <1>9, <1>10, <3>1
    <3>2. CASE k > since
      <4>1. k - since \in 1..Len(page) /\ since + (k - since) = k
        BY <1>1, <1>5, <1>8, <3>2
      <4>2. all[k] = page[k - since]
        BY <1>1, <1>5, <1>8, <1>9, <1>10, <3>2
      <4> QED
        BY <1>5, <4>1, <4>2
    <3>3. k \in Nat /\ since \in Nat
      BY <1>1, <1>8
    <3>4. k <= since \/ k > since
      BY <3>3
    <3> QED
      BY <3>1, <3>2, <3>4
  <2> HIDE DEF all
  <2>3. all = SubSeq(stored, 1, next)
    BY <1>1, <1>5, <1>8, <2>1, <2>2, PrefixByElements
  <2> QED
    BY <2>3 DEF all
<1>12. /\ received' \in [Readers -> Seq(Segment)]
       /\ cursor' \in [Readers -> Nat]
       /\ hasMore' \in [Readers -> BOOLEAN]
  BY <1>6, <1>7, <1>8, <1>9 DEF TypeOK
<1>13. /\ received'[r] = received[r] \o page
       /\ cursor'[r] = next
       /\ hasMore'[r] = MoreThan(i, since, most)
       /\ \A q \in Readers \ {r} : /\ received'[q] = received[q]
                                   /\ cursor'[q] = cursor[q]
                                   /\ hasMore'[q] = hasMore[q]
  BY <1>6 DEF TypeOK
<1>14. since <= next
  BY <1>1, <1>5, <1>8
<1> QED
  BY <1>5, <1>11, <1>12, <1>13, <1>14

LEMMA ListIInv ==
  ASSUME IInv, NEW r \in Readers, ListTranscriptSegmentsSince(r)
  PROVE  IInv'
<1> USE DEF IInv
<1>1. /\ polling' = [polling EXCEPT ![r] = NoSession]
      /\ UNCHANGED <<sessionVars, segmentVars, writerVars>>
  BY DEF ListTranscriptSegmentsSince
<1>2. TypeOK'
  BY <1>1, PageReceived DEF TypeOK, sessionVars, segmentVars, writerVars
<1>3. NumberedInOrder' /\ SessionsNotAhead' /\ CopiesKnown'
  BY <1>1 DEF NumberedInOrder, SessionsNotAhead, CopiesKnown, NotAhead,
     SessionsOf, sessionVars, segmentVars, writerVars
<1>4. PollsKnown'
  BY <1>1 DEF TypeOK, PollsKnown, NotAhead, segmentVars
<1>5. ReadersMissNothing'
  <2> SUFFICES ASSUME NEW q \in Readers
      PROVE /\ received'[q] = SubSeq(segments[Follows[q]], 1, cursor'[q])
            /\ cursor'[q] <= Len(segments[Follows[q]])
    BY <1>1 DEF ReadersMissNothing, segmentVars
  <2>1. CASE q = r
    BY <2>1, PageReceived
  <2>2. CASE q # r
    BY <2>2, PageReceived DEF ReadersMissNothing
  <2> QED
    BY <2>1, <2>2
<1> QED
  BY <1>2, <1>3, <1>4, <1>5

LEMMA LoseIInv ==
  ASSUME IInv, NEW r \in Readers, LoseAnswer(r)
  PROVE  IInv'
<1> USE DEF IInv
<1>1. /\ polling' = [polling EXCEPT ![r] = NoSession]
      /\ UNCHANGED <<sessionVars, segmentVars, writerVars, cursor, received, hasMore>>
  BY DEF LoseAnswer
<1>2. TypeOK'
  BY <1>1 DEF TypeOK, sessionVars, segmentVars, writerVars
<1>3. NumberedInOrder' /\ SessionsNotAhead' /\ CopiesKnown' /\ ReadersMissNothing'
  BY <1>1, ReadersStay DEF NumberedInOrder, SessionsNotAhead, CopiesKnown, NotAhead,
     SessionsOf, sessionVars, segmentVars, writerVars
<1>4. PollsKnown'
  BY <1>1 DEF TypeOK, PollsKnown, NotAhead, segmentVars
<1> QED
  BY <1>2, <1>3, <1>4
-----------------------------------------------------------------------------
LEMMA StepIInv == IInv /\ [Next]_vars => IInv'
<1> SUFFICES ASSUME IInv, [Next]_vars PROVE IInv'
  OBVIOUS
<1>1. CASE \E i \in Interviews : StartTranscriptSession(i)
  BY <1>1, StartIInv
<1>2. ASSUME NEW w \in Writers, NEW i \in Interviews, NEW s \in DOMAIN sessions,
             BeginAppend(w, i, s)
      PROVE  IInv'
  <2>1. sessions[s] \in Session /\ marks' \in Nat
    BY <1>2, LenProperties, ElementOfSeq DEF IInv, TypeOK, BeginAppend
  <2> QED
    BY <1>2, <2>1, BeginIInv DEF BeginAppend, Ops
<1>3. ASSUME NEW w \in Writers, NEW i \in Interviews, NEW s \in DOMAIN sessions,
             BeginMark(w, i, s)
      PROVE  IInv'
  <2>1. sessions[s] \in Session /\ marks' \in Nat
    BY <1>3, LenProperties, ElementOfSeq DEF IInv, TypeOK, BeginMark
  <2>2. PICK what \in {"interrupt", "reconnect"} :
          BeginCall(w, s, what, Marked(sessions[s], what))
    BY <1>3 DEF BeginMark
  <2>3. /\ Marked(sessions[s], what) \in Session
        /\ Marked(sessions[s], what).interview = sessions[s].interview
        /\ Marked(sessions[s], what).lastSequence = sessions[s].lastSequence
    BY <2>1 DEF Marked, Session, Status
  <2>4. what \in Ops
    BY DEF Ops
  <2> HIDE DEF Marked
  <2> QED
    BY <2>1, <2>2, <2>3, <2>4, BeginIInv
<1>4. CASE \E w \in Writers : AppendTranscriptSegment(w) \/ UpdateTranscriptSession(w)
  BY <1>4, AppendIInv, UpdateIInv
<1>5. CASE \E r \in Readers : \/ BeginStream(r)
                              \/ ListTranscriptSegmentsSince(r)
                              \/ LoseAnswer(r)
  BY <1>5, BeginStreamIInv, ListIInv, LoseIInv
<1>6. CASE UNCHANGED vars
  BY <1>6 DEF IInv, TypeOK, NumberedInOrder, SessionsNotAhead, CopiesKnown, PollsKnown,
     ReadersMissNothing, NotAhead, SessionsOf, vars
<1> QED
  BY <1>1, <1>2, <1>3, <1>4, <1>5, <1>6 DEF Next

(* All the parts of IInv hold in every state of every behaviour. *)
THEOREM TranscriptionInvariant == Spec => []IInv
BY InitIInv, StepIInv, PTL DEF Spec

(* Type correctness of sessions, segments, requests and readers. *)
THEOREM TranscriptionTypeCorrect == Spec => []TypeOK
<1>1. IInv => TypeOK
  BY DEF IInv
<1> QED
  BY <1>1, TranscriptionInvariant, PTL

(* The segments of every interview are numbered without gaps, whichever    *)
(* sessions they came through (AppendTranscriptSegment numbers and stores  *)
(* in one critical section).                                               *)
THEOREM SegmentsNumbered == Spec => []NumberedInOrder
<1>1. IInv => NumberedInOrder
  BY DEF IInv
<1> QED
  BY <1>1, TranscriptionInvariant, PTL

(* However pages are limited, answers lost and requests interleaved, a     *)
(* reader has got exactly the segments up to its cursor, in order          *)
(* (StreamTranscripts takes the next sequence of an empty page from a      *)
(* session read earlier).                                                  *)
THEOREM NothingMissed == Spec => []ReadersMissNothing
<1>1. IInv => ReadersMissNothing
  BY DEF IInv
<1> QED
  BY <1>1, TranscriptionInvariant, PTL

(* has_more tells exactly whether segments beyond the page are stored.     *)
THEOREM HasMoreCorrect == Spec => HasMoreIsExact
<1> DEFINE Exact == \A r \in Readers :
                      received'[r] # received[r]
                        => (hasMore'[r] <=> cursor'[r] < Len(segments[Follows[r]]))
<1>1. IInv /\ [Next]_vars => [Exact]_vars
  <2> SUFFICES ASSUME IInv, Next, NEW r \in Readers, received'[r] # received[r]
      PROVE hasMore'[r] <=> cursor'[r] < Len(segments[Follows[r]])
    OBVIOUS
  <2>1. PICK q \in Readers : ListTranscriptSegmentsSince(q)
    <3>1. \A i \in Interviews : ~StartTranscriptSession(i)
      BY DEF StartTranscriptSession, readerVars
    <3>2. \A w \in Writers, i \in Interviews, s \in DOMAIN sessions :
            ~BeginAppend(w, i, s) /\ ~BeginMark(w, i, s)
      BY DEF BeginAppend, BeginMark, BeginCall, readerVars
    <3>3. \A w \in Writers : ~AppendTranscriptSegment(w) /\ ~UpdateTranscriptSession(w)
      BY DEF AppendTranscriptSegment, UpdateTranscriptSession, readerVars
    <3>4. \A q \in Readers : ~BeginStream(q) /\ ~LoseAnswer(q)
      BY DEF BeginStream, LoseAnswer
    <3> QED
      BY <3>1, <3>2, <3>3, <3>4 DEF Next
  <2>2. q = r
    BY <2>1, PageReceived
  <2> QED
    BY <2>1, <2>2, PageReceived
<1> QED
  BY <1>1, TranscriptionInvariant, PTL DEF Spec, HasMoreIsExact
-----------------------------------------------------------------------------
(* The sessions between requests that do not overlap.  Of a session that   *)
(* never had two at once, the one request in hand has the last sequence    *)
(* and the status that are to be stored.                                   *)
Largest(indices) ==
  IF indices = {} THEN 0 ELSE CHOOSE k \in indices : \A j \in indices : j <= k

LastIn(list, s) == Largest({k \in DOMAIN list : list[k].session = s})

OneWriter ==
  \A v, w \in Writers :
    v # w /\ op[v] # "idle" /\ op[w] # "idle" /\ sid[v] = sid[w] => overlapped[sid[w]]

StatusExact ==
  \A s \in DOMAIN sessions :
    ~overlapped[s] => (sessions[s].status = "interrupted" <=> interrupted[s])

LastExact ==
  \A s \in DOMAIN sessions :
    ~overlapped[s] /\ (\A v \in Writers : op[v] # "idle" => sid[v] # s)
    => sessions[s].lastSequence = LastIn(segments[sessions[s].interview], s)

CopiesExact ==
  \A w \in Writers :
    op[w] # "idle" /\ ~overlapped[sid[w]]
    => /\ op[w] = "append" \/ copy[w].lastSequence = LastIn(segments[copy[w].interview], sid[w])
       /\ op[w] = "interrupt" => copy[w].status = "interrupted"
       /\ op[w] = "reconnect" => copy[w].status = "active"
       /\ op[w] \in {"append", "appended"}
            => (copy[w].status = "interrupted" <=> interrupted[sid[w]])

ExactInv == OneWriter /\ StatusExact /\ LastExact /\ CopiesExact

(* A segment at the end is the last of its session and of no other. *)
LEMMA LastAppended ==
  ASSUME NEW q \in Seq(Segment), NEW e \in Segment, NEW n, n = Len(q)
  PROVE  /\ LastIn(Append(q, e), e.session) = n + 1
         /\ \A s : s # e.session => LastIn(Append(q, e), s) = LastIn(q, s)
<1> DEFINE r == Append(q, e)
           Mine(list, s) == {k \in DOMAIN list : list[k].session = s}
<1>1. /\ n \in Nat
      /\ r \in Seq(Segment)
      /\ Len(r) = n + 1
      /\ \A k \in 1..n : r[k] = q[k]
      /\ r[n + 1] = e
  BY AppendProperties
<1> HIDE DEF r
<1>2. DOMAIN q = 1..n /\ DOMAIN r = 1..(n + 1)
  BY <1>1, LenProperties
<1>3. 1..(n + 1) = 1..n \cup {n + 1}
  BY <1>1
<1>4. n + 1 \in Mine(r, e.session) /\ \A k \in Mine(r, e.session) : k <= n + 1 /\ k \in Nat
  BY <1>1, <1>2
<1>5. \A s : s # e.session => Mine(r, s) = Mine(q, s)
  BY <1>1, <1>2, <1>3
<1>6. \A list, s : LastIn(list, s) = Largest(Mine(list, s))
  BY DEF LastIn
<1> HIDE DEF Mine
<1>7. LastIn(r, e.session) = n + 1
  <2>1. \A k \in Mine(r, e.session) :
          (\A j \in Mine(r, e.session) : j <= k) <=> k = n + 1
    BY <1>1, <1>4
  <2>2. (CHOOSE k \in Mine(r, e.session) : \A j \in Mine(r, e.session) : j <= k) = n + 1
    BY <1>4, <2>1
  <2>3. Largest(Mine(r, e.session)) = n + 1
    BY <1>4, <2>2 DEF Largest
  <2> QED
    BY <1>6, <2>3
<1>8. \A s : s # e.session => LastIn(r, s) = LastIn(q, s)
  BY <1>5, <1>6
<1> QED
  BY <1>7, <1>8 DEF r

LEMMA InitExact == Init => ExactInv
<1> SUFFICES ASSUME Init PROVE ExactInv
  OBVIOUS
<1>1. DOMAIN sessions = {}
  BY DEF Init
<1> QED
  BY <1>1 DEF Init, ExactInv, OneWriter, StatusExact, LastExact, CopiesExact

LEMMA StartExact ==
  ASSUME IInv, ExactInv, NEW i \in Interviews, StartTranscriptSession(i)
  PROVE  ExactInv'
<1> DEFINE new == [interview |-> i, status |-> "active", lastSequence |-> 0]
<1> SUFFICES ASSUME NEW n, n = Len(sessions), NEW no, no = FALSE PROVE ExactInv'
  OBVIOUS
<1>1. TypeOK /\ CopiesKnown /\ NumberedInOrder
  BY DEF IInv
<1>2. /\ sessions' = Append(sessions, new)
      /\ interrupted' = Append(interrupted, no)
      /\ overlapped' = Append(overlapped, no)
      /\ UNCHANGED <<segments, op, sid, copy>>
  BY DEF StartTranscriptSession, segmentVars, writerVars
<1>3. new \in Session /\ new.interview = i /\ new.status = "active" /\ new.lastSequence = 0
  BY DEF Session, Status
<1>4. sessions \in Seq(Session) /\ n \in Nat /\ DOMAIN sessions = 1..n
  BY <1>1, LenProperties DEF TypeOK
<1> HIDE DEF new
<1>5. /\ DOMAIN sessions' = 1..(n + 1)
      /\ \A s \in 1..n : sessions'[s] = sessions[s]
      /\ sessions'[n + 1] = new
  <2>1. /\ sessions' \in Seq(Session)
        /\ Len(sessions') = n + 1
        /\ \A s \in 1..n : sessions'[s] = sessions[s]
        /\ sessions'[n + 1] = new
    BY <1>2, <1>3, <1>4, AppendProperties
  <2> QED
    BY <2>1, LenProperties
<1>6. ASSUME NEW f \in [1..n -> BOOLEAN]
      PROVE  /\ \A s \in 1..n : Append(f, no)[s] = f[s]
             /\ Append(f, no)[n + 1] = no
  <2>1. f \in Seq(BOOLEAN) /\ Len(f) = n
    BY <1>4
  <2>2. no \in BOOLEAN
    OBVIOUS
  <2> QED
    BY <2>1, <2>2, AppendProperties
<1>7. /\ \A s \in 1..n : interrupted'[s] = interrupted[s] /\ overlapped'[s] = overlapped[s]
      /\ interrupted'[n + 1] = no
  BY <1>1, <1>2, <1>4, <1>6 DEF TypeOK
<1>8. 1..(n + 1) = 1..n \cup {n + 1}
  BY <1>4
<1>9. \A w \in Writers : op[w] # "idle" => sid[w] \in 1..n
  BY <1>1, <1>4 DEF CopiesKnown
(* No segment speaks of the new session yet. *)
<1>10. LastIn(segments[i], n + 1) = 0
  <2>1. \A k \in DOMAIN segments[i] : segments[i][k].session \in 1..n
    BY <1>1, <1>4 DEF NumberedInOrder, SessionsOf
  <2>2. {k \in DOMAIN segments[i] : segments[i][k].session = n + 1} = {}
    BY <1>4, <2>1
  <2> QED
    BY <2>2 DEF LastIn, Largest
<1>11. OneWriter'
  BY <1>2, <1>7, <1>9 DEF ExactInv, OneWriter
<1>12. StatusExact'
  BY <1>3, <1>4, <1>5, <1>7, <1>8 DEF ExactInv, StatusExact
<1>13. LastExact'
  <2> SUFFICES ASSUME NEW s \in 1..(n + 1), ~overlapped'[s],
                      \A v \in Writers : op[v] # "idle" => sid[v] # s
               PROVE  sessions'[s].lastSequence = LastIn(segments[sessions'[s].interview], s)
    BY <1>2, <1>5 DEF LastExact
  <2>1. CASE s \in 1..n
    BY <1>4, <1>5, <1>7, <2>1 DEF ExactInv, LastExact
  <2>2. CASE s = n + 1
    BY <1>3, <1>5, <1>10, <2>2
  <2> QED
    BY <1>8, <2>1, <2>2
<1>14. CopiesExact'
  BY <1>2, <1>7, <1>9 DEF ExactInv, CopiesExact
<1> QED
  BY <1>11, <1>12, <1>13, <1>14 DEF ExactInv

(* What a request starts with is exact if the session was at rest. *)
LEMMA BeginExact ==
  ASSUME IInv, ExactInv, NEW w \in Writers, NEW s \in DOMAIN sessions, NEW what \in Ops,
         NEW edited, BeginCall(w, s, what, edited),
         edited.interview = sessions[s].interview,
         edited.lastSequence = sessions[s].lastSequence,
         what = "interrupt" => edited.status = "interrupted",
         what = "reconnect" => edited.status = "active",
         what \in {"append", "appended"} => edited.status = sessions[s].status
  PROVE  ExactInv'
<1>1. TypeOK /\ OneWriter /\ StatusExact /\ LastExact /\ CopiesExact
  BY DEF IInv, ExactInv
<1>2. /\ op[w] = "idle"
      /\ op' = [op EXCEPT ![w] = what]
      /\ sid' = [sid EXCEPT ![w] = s]
      /\ copy' = [copy EXCEPT ![w] = edited]
      /\ overlapped' = [overlapped EXCEPT ![s] = overlapped[s] \/ InFlight(s)]
      /\ UNCHANGED <<sessions, interrupted, segments>>
  BY DEF BeginCall, segmentVars
<1>3. /\ op'[w] = what /\ sid'[w] = s /\ copy'[w] = edited
      /\ \A v \in Writers : v # w => op'[v] = op[v] /\ sid'[v] = sid[v] /\ copy'[v] = copy[v]
  BY <1>1, <1>2 DEF TypeOK
<1>4. /\ \A t \in DOMAIN sessions : overlapped[t] => overlapped'[t]
      /\ \A t \in DOMAIN sessions : t # s => overlapped'[t] = overlapped[t]
      /\ ~overlapped'[s] => ~overlapped[s] /\ \A v \in Writers : op[v] # "idle" => sid[v] # s
  BY <1>1, <1>2 DEF TypeOK, InFlight
<1>5. \A v \in Writers : op[v] # "idle" => sid[v] \in DOMAIN sessions
  BY DEF IInv, CopiesKnown
<1>6. OneWriter'
  <2> SUFFICES ASSUME NEW v \in Writers, NEW u \in Writers, v # u,
                      op'[v] # "idle", op'[u] # "idle", sid'[v] = sid'[u]
               PROVE  overlapped'[sid'[u]]
    BY DEF OneWriter
  <2>1. CASE v = w
    BY <1>3, <1>4, <2>1
  <2>2. CASE u = w
    BY <1>3, <1>4, <2>2
  <2>3. CASE v # w /\ u # w
    BY <1>1, <1>3, <1>4, <1>5, <2>3 DEF OneWriter
  <2> QED
    BY <2>1, <2>2, <2>3
<1>7. StatusExact'
  BY <1>1, <1>2, <1>4 DEF StatusExact
<1>8. LastExact'
  <2> SUFFICES ASSUME NEW t \in DOMAIN sessions, ~overlapped'[t],
                      \A v \in Writers : op'[v] # "idle" => sid'[v] # t
               PROVE  sessions[t].lastSequence = LastIn(segments[sessions[t].interview], t)
    BY <1>2 DEF LastExact
  <2>1. \A v \in Writers : op[v] # "idle" => sid[v] # t
    BY <1>2, <1>3
  <2> QED
    BY <1>1, <1>4, <2>1 DEF LastExact
<1>9. CopiesExact'
  <2> SUFFICES ASSUME NEW v \in Writers, op'[v] # "idle", ~overlapped'[sid'[v]]
               PROVE  /\ \/ op'[v] = "append"
                         \/ copy'[v].lastSequence
                              = LastIn(segments[copy'[v].interview], sid'[v])
                      /\ op'[v] = "interrupt" => copy'[v].status = "interrupted"
                      /\ op'[v] = "reconnect" => copy'[v].status = "active"
                      /\ op'[v] \in {"append", "appended"}
                           => (copy'[v].status = "interrupted" <=> interrupted[sid'[v]])
    BY <1>2 DEF CopiesExact
  <2>1. CASE v = w
    <3>1. ~overlapped[s] /\ \A u \in Writers : op[u] # "idle" => sid[u] # s
      BY <1>3, <1>4, <2>1
    <3>2. sessions[s].lastSequence = LastIn(segments[sessions[s].interview], s)
      BY <1>1, <3>1 DEF LastExact
    <3>3. sessions[s].status = "interrupted" <=> interrupted[s]
      BY <1>1, <3>1 DEF StatusExact
    <3> QED
      BY <1>3, <2>1, <3>2, <3>3
  <2>2. CASE v # w
    <3>1. /\ op'[v] = op[v] /\ sid'[v] = sid[v] /\ copy'[v] = copy[v]
          /\ ~overlapped[sid[v]]
      BY <1>3, <1>4, <1>5, <2>2
    <3> QED
      BY <1>1, <3>1 DEF CopiesExact
  <2> QED
    BY <2>1, <2>2
<1> QED
  BY <1>6, <1>7, <1>8, <1>9 DEF ExactInv

LEMMA AppendExact ==
  ASSUME IInv, ExactInv, NEW w \in Writers, AppendTranscriptSegment(w)
  PROVE  ExactInv'
<1> SUFFICES ASSUME NEW i, i = copy[w].interview, NEW n, n = Len(segments[i])
             PROVE  ExactInv'
  OBVIOUS
<1> DEFINE new == [sequence |-> NextNumber(w), session |-> sid[w]]
<1>1. TypeOK /\ NumberedInOrder /\ OneWriter /\ StatusExact /\ LastExact /\ CopiesExact
  BY DEF IInv, ExactInv
<1>2. /\ op[w] = "append"
      /\ segments' = [segments EXCEPT ![i] = Append(segments[i], new)]
      /\ copy' = [copy EXCEPT ![w].lastSequence = NextNumber(w)]
      /\ op' = [op EXCEPT ![w] = "appended"]
      /\ UNCHANGED <<sessions, interrupted, overlapped, sid>>
  BY DEF AppendTranscriptSegment, sessionVars
<1>3. sid[w] \in DOMAIN sessions /\ copy[w] \in Session /\ i \in Interviews
  BY <1>2 DEF IInv, CopiesKnown, Session
<1>4. /\ segments[i] \in Seq(Segment) /\ n \in Nat
      /\ NextNumber(w) = n + 1 /\ sid[w] \in Nat
  BY <1>1, <1>3, LenProperties DEF TypeOK, NumberedInOrder, NextNumber
<1>5. new \in Segment /\ new.session = sid[w]
  BY <1>4 DEF Segment
<1> HIDE DEF new
<1>6. /\ segments'[i] = Append(segments[i], new)
      /\ \A j : j # i => segments'[j] = segments[j]
  BY <1>1, <1>2, <1>3 DEF TypeOK
<1>7. /\ LastIn(segments'[i], sid[w]) = n + 1
      /\ \A t : t # sid[w] => LastIn(segments'[i], t) = LastIn(segments[i], t)
  BY <1>4, <1>5, <1>6, LastAppended
<1>8. \A j, t : t # sid[w] => LastIn(segments'[j], t) = LastIn(segments[j], t)
  BY <1>6, <1>7
<1>9. /\ copy'[w] = [copy[w] EXCEPT !.lastSequence = n + 1] /\ op'[w] = "appended"
      /\ \A v \in Writers : v # w => op'[v] = op[v] /\ copy'[v] = copy[v]
  BY <1>1, <1>2, <1>4 DEF TypeOK
<1>10. /\ copy'[w].interview = i /\ copy'[w].lastSequence = n + 1
       /\ copy'[w].status = copy[w].status
  BY <1>3, <1>9 DEF Session
<1>11. \A v \in Writers : op'[v] # "idle" <=> op[v] # "idle"
  BY <1>2, <1>9
<1>12. OneWriter' /\ StatusExact'
  BY <1>1, <1>2, <1>11 DEF OneWriter, StatusExact
<1>13. LastExact'
  <2> SUFFICES ASSUME NEW t \in DOMAIN sessions, ~overlapped[t],
                      \A v \in Writers : op'[v] # "idle" => sid[v] # t
               PROVE  sessions[t].lastSequence = LastIn(segments'[sessions[t].interview], t)
    BY <1>2 DEF LastExact
  <2>1. t # sid[w]
    BY <1>9
  <2> QED
    BY <1>1, <1>8, <1>11, <2>1 DEF LastExact
<1>14. CopiesExact'
  <2> SUFFICES ASSUME NEW v \in Writers, op'[v] # "idle", ~overlapped[sid[v]]
               PROVE  /\ \/ op'[v] = "append"
                         \/ copy'[v].lastSequence
                              = LastIn(segments'[copy'[v].interview], sid[v])
                      /\ op'[v] = "interrupt" => copy'[v].status = "interrupted"
                      /\ op'[v] = "reconnect" => copy'[v].status = "active"
                      /\ op'[v] \in {"append", "appended"}
                           => (copy'[v].status = "interrupted" <=> interrupted[sid[v]])
    BY <1>2 DEF CopiesExact
  <2>1. CASE v = w
    BY <1>1, <1>2, <1>7, <1>9, <1>10, <2>1 DEF CopiesExact
  <2>2. CASE v # w
    <3>1. op'[v] = op[v] /\ copy'[v] = copy[v] /\ op[v] # "idle"
      BY <1>9, <2>2
    <3>2. sid[v] # sid[w]
      BY <1>1, <1>2, <2>2, <3>1 DEF OneWriter
    <3>3. LastIn(segments'[copy[v].interview], sid[v]) = LastIn(segments[copy[v].interview], sid[v])
      BY <1>8, <3>2
    <3> QED
      BY <1>1, <3>1, <3>3 DEF CopiesExact
  <2> QED
    BY <2>1, <2>2
<1> QED
  BY <1>12, <1>13, <1>14 DEF ExactInv

LEMMA UpdateExact ==
  ASSUME IInv, ExactInv, NEW w \in Writers, UpdateTranscriptSession(w)
  PROVE  ExactInv'
<1> SUFFICES ASSUME NEW s, s = sid[w] PROVE ExactInv'
  OBVIOUS
<1>1. TypeOK /\ OneWriter /\ StatusExact /\ LastExact /\ CopiesExact
  BY DEF IInv, ExactInv
<1>2. /\ op[w] \in {"appended", "interrupt", "reconnect"}
      /\ sessions' = [sessions EXCEPT ![s] = copy[w]]
      /\ op' = [op EXCEPT ![w] = "idle"]
      /\ sid' = [sid EXCEPT ![w] = 0]
      /\ copy' = [copy EXCEPT ![w] = NoSession]
      /\ UNCHANGED <<overlapped, segments>>
  BY DEF UpdateTranscriptSession, segmentVars
<1>3. /\ s \in DOMAIN sessions /\ copy[w] \in Session
      /\ \A v \in Writers : op[v] # "idle" => sid[v] \in DOMAIN sessions
  BY <1>2 DEF IInv, CopiesKnown
<1>4. /\ DOMAIN sessions' = DOMAIN sessions
      /\ sessions'[s] = copy[w]
      /\ \A t \in DOMAIN sessions : t # s => sessions'[t] = sessions[t]
  BY <1>2, <1>3
<1>5. /\ op[w] = "interrupt" => interrupted'[s] = TRUE
      /\ op[w] = "reconnect" => interrupted'[s] = FALSE
      /\ op[w] = "appended" => interrupted'[s] = interrupted[s]
      /\ \A t \in DOMAIN sessions : t # s => interrupted'[t] = interrupted[t]
  <2> DEFINE is == CASE op[w] = "interrupt" -> TRUE
                     [] op[w] = "reconnect" -> FALSE
                     [] OTHER -> interrupted[s]
  <2>1. interrupted' = [interrupted EXCEPT ![s] = is]
    BY DEF UpdateTranscriptSession
  <2>2. /\ op[w] = "interrupt" => is = TRUE
        /\ op[w] = "reconnect" => is = FALSE
        /\ op[w] = "appended" => is = interrupted[s]
    OBVIOUS
  <2> HIDE DEF is
  <2>3. /\ interrupted'[s] = is
        /\ \A t \in DOMAIN sessions : t # s => interrupted'[t] = interrupted[t]
    BY <1>1, <1>3, <2>1 DEF TypeOK
  <2> QED
    BY <2>2, <2>3
<1>6. /\ op'[w] = "idle"
      /\ \A v \in Writers : v # w => op'[v] = op[v] /\ sid'[v] = sid[v] /\ copy'[v] = copy[v]
  BY <1>1, <1>2 DEF TypeOK
<1>7. ~overlapped[s] => /\ copy[w].lastSequence = LastIn(segments[copy[w].interview], s)
                        /\ copy[w].status = "interrupted" <=> interrupted'[s]
  BY <1>1, <1>2, <1>5 DEF CopiesExact
<1>8. OneWriter'
  BY <1>1, <1>2, <1>6 DEF OneWriter
<1>9. StatusExact'
  BY <1>1, <1>2, <1>4, <1>5, <1>7 DEF StatusExact
<1>10. LastExact'
  <2> SUFFICES ASSUME NEW t \in DOMAIN sessions, ~overlapped[t],
                      \A v \in Writers : op'[v] # "idle" => sid'[v] # t
               PROVE  sessions'[t].lastSequence = LastIn(segments[sessions'[t].interview], t)
    BY <1>2, <1>4 DEF LastExact
  <2>1. CASE t = s
    BY <1>4, <1>7, <2>1
  <2>2. CASE t # s
    <3>1. \A v \in Writers : op[v] # "idle" => sid[v] # t
      BY <1>6, <2>2
    <3> QED
      BY <1>1, <1>4, <2>2, <3>1 DEF LastExact
  <2> QED
    BY <2>1, <2>2
<1>11. CopiesExact'
  <2> SUFFICES ASSUME NEW v \in Writers, op'[v] # "idle", ~overlapped[sid'[v]]
               PROVE  /\ \/ op'[v] = "append"
                         \/ copy'[v].lastSequence
                              = LastIn(segments[copy'[v].interview], sid'[v])
                      /\ op'[v] = "interrupt" => copy'[v].status = "interrupted"
                      /\ op'[v] = "reconnect" => copy'[v].status = "active"
                      /\ op'[v] \in {"append", "appended"}
                           => (copy'[v].status = "interrupted" <=> interrupted'[sid'[v]])
    BY <1>2 DEF CopiesExact
  <2>1. /\ v # w
        /\ op'[v] = op[v] /\ sid'[v] = sid[v] /\ copy'[v] = copy[v]
    BY <1>6
  <2>2. sid[v] # s
    BY <1>1, <1>2, <2>1 DEF OneWriter
  <2>3. interrupted'[sid[v]] = interrupted[sid[v]]
    BY <1>3, <1>5, <2>1, <2>2
  <2> QED
    BY <1>1, <2>1, <2>3 DEF CopiesExact
<1> QED
  BY <1>8, <1>9, <1>10, <1>11 DEF ExactInv

LEMMA StepExact == IInv /\ ExactInv /\ [Next]_vars => ExactInv'
<1> SUFFICES ASSUME IInv, ExactInv, [Next]_vars PROVE ExactInv'
  OBVIOUS
<1>1. ASSUME UNCHANGED <<sessionVars, segmentVars, writerVars>>
      PROVE  ExactInv'
  BY <1>1 DEF ExactInv, OneWriter, StatusExact, LastExact, CopiesExact, sessionVars,
     segmentVars, writerVars
<1>2. CASE \E i \in Interviews : StartTranscriptSession(i)
  BY <1>2, StartExact
<1>3. ASSUME NEW w \in Writers, NEW i \in Interviews, NEW s \in DOMAIN sessions,
             BeginAppend(w, i, s)
      PROVE  ExactInv'
  <2>1. BeginCall(w, s, "append", sessions[s]) /\ "append" \in Ops
    BY <1>3 DEF BeginAppend, Ops
  <2> QED
    BY <2>1, BeginExact
<1>4. ASSUME NEW w \in Writers, NEW i \in Interviews, NEW s \in DOMAIN sessions,
             BeginMark(w, i, s)
      PROVE  ExactInv'
  <2>1. sessions[s] \in Session
    BY LenProperties, ElementOfSeq DEF IInv, TypeOK
  <2>2. PICK what \in {"interrupt", "reconnect"} :
          BeginCall(w, s, what, Marked(sessions[s], what))
    BY <1>4 DEF BeginMark
  <2>3. /\ Marked(sessions[s], what).interview = sessions[s].interview
        /\ Marked(sessions[s], what).lastSequence = sessions[s].lastSequence
        /\ what = "interrupt" => Marked(sessions[s], what).status = "interrupted"
        /\ what = "reconnect" => Marked(sessions[s], what).status = "active"
    BY <2>1 DEF Marked, Session, Status
  <2>4. what \in Ops /\ what \notin {"append", "appended"}
    BY DEF Ops
  <2> QED
    BY <2>2, <2>3, <2>4, BeginExact
<1>5. CASE \E w \in Writers : AppendTranscriptSegment(w) \/ UpdateTranscriptSession(w)
  BY <1>5, AppendExact, UpdateExact
<1>6. ASSUME NEW r \in Readers,
             BeginStream(r) \/ ListTranscriptSegmentsSince(r) \/ LoseAnswer(r)
      PROVE  ExactInv'
  <2>1. UNCHANGED <<sessionVars, segmentVars, writerVars>>
    BY <1>6 DEF BeginStream, ListTranscriptSegmentsSince, LoseAnswer
  <2> QED
    BY <1>1, <2>1
<1>7. CASE UNCHANGED vars
  <2>1. UNCHANGED <<sessionVars, segmentVars, writerVars>>
    BY <1>7 DEF vars, sessionVars, segmentVars, writerVars
  <2> QED
    BY <1>1, <2>1
<1> QED
  BY <1>2, <1>3, <1>4, <1>5, <1>6, <1>7 DEF Next

(* As long as no two requests on a session overlap, its status and its     *)
(* last sequence are exact between requests, although each request stores  *)
(* back a whole copy of the session and other sessions of the interview    *)
(* take segments meanwhile.                                                *)
THEOREM SessionsExact == Spec => []SessionExactWithoutOverlap
<1>1. IInv /\ ExactInv => SessionExactWithoutOverlap
  <2> SUFFICES ASSUME IInv, ExactInv, NEW s \in DOMAIN sessions, ~overlapped[s]
               PROVE  /\ sessions[s].status = "interrupted" <=> interrupted[s]
                      /\ \/ InFlight(s)
                         \/ sessions[s].lastSequence = LastOf(sessions[s].interview, s)
    BY DEF SessionExactWithoutOverlap
  <2>1. sessions[s].status = "interrupted" <=> interrupted[s]
    BY DEF ExactInv, StatusExact
  <2>2. LastOf(sessions[s].interview, s) = LastIn(segments[sessions[s].interview], s)
    BY DEF LastOf, LastIn, Largest
  <2>3. InFlight(s) \/ \A v \in Writers : op[v] # "idle" => sid[v] # s
    BY DEF InFlight
  <2> QED
    BY <2>1, <2>2, <2>3 DEF ExactInv, LastExact
<1> QED
  BY <1>1, InitExact, StepExact, TranscriptionInvariant, PTL DEF Spec
-----------------------------------------------------------------------------
Bounded == Len(sessions) <= MaxSessions

(* Each step of the system is one step of the feed or leaves it alone. *)
LEMMA FeedStep ==
  ASSUME IInv, Bounded, [Next]_vars
  PROVE  Bounded' /\ [Feed!Next]_(Feed!feedVars)
<1> USE DEF IInv
<1>1. ASSUME UNCHANGED <<segments, received>>
      PROVE  [Feed!Next]_(Feed!feedVars)
  BY <1>1 DEF Feed!feedVars
<1>2. /\ sessions \in Seq(Session) /\ Len(sessions) \in Nat
      /\ DOMAIN sessions = 1..Len(sessions) /\ MaxSessions \in Nat
  BY LenProperties, TranscriptionAssumption DEF TypeOK
<1>3. ASSUME UNCHANGED sessions
      PROVE  Bounded'
  BY <1>3 DEF Bounded
<1>4. ASSUME NEW i \in Interviews, StartTranscriptSession(i)
      PROVE  Bounded' /\ UNCHANGED <<segments, received>>
  <2>1. Len(sessions) < MaxSessions
    BY <1>4 DEF StartTranscriptSession
  <2>2. sessions' = Append(sessions, [interview |-> i, status |-> "active", lastSequence |-> 0])
    BY <1>4 DEF StartTranscriptSession
  <2>3. [interview |-> i, status |-> "active", lastSequence |-> 0] \in Session
    BY DEF Session, Status
  <2>4. Len(sessions') = Len(sessions) + 1
    BY <1>2, <2>2, <2>3, AppendProperties
  <2>5. UNCHANGED <<segments, received>>
    BY <1>4 DEF StartTranscriptSession, segmentVars, readerVars
  <2> QED
    BY <1>2, <2>1, <2>4, <2>5 DEF Bounded
<1>5. ASSUME NEW w \in Writers, NEW i \in Interviews, NEW s \in DOMAIN sessions,
             BeginAppend(w, i, s) \/ BeginMark(w, i, s)
      PROVE  UNCHANGED <<sessions, segments, received>>
  BY <1>5 DEF BeginAppend, BeginMark, BeginCall, segmentVars, readerVars
<1>6. ASSUME NEW w \in Writers, AppendTranscriptSegment(w)
      PROVE  UNCHANGED sessions /\ Feed!Next
  <2> DEFINE i == copy[w].interview
  <2>1. UNCHANGED <<sessions, received>>
    BY <1>6 DEF AppendTranscriptSegment, sessionVars, readerVars
  <2>2. /\ sid[w] \in DOMAIN sessions /\ i \in Interviews
    BY <1>6 DEF AppendTranscriptSegment, CopiesKnown, Session
  <2>3. sid[w] \in 1..MaxSessions
    BY <1>2, <2>2 DEF Bounded
  <2>4. NextNumber(w) = Len(segments[i]) + 1
    BY <2>2 DEF NextNumber, NumberedInOrder
  <2>5. segments' = [segments EXCEPT ![i] =
                       Append(@, [sequence |-> Len(@) + 1, session |-> sid[w]])]
    <3>1. segments' = [segments EXCEPT ![i] =
                         Append(segments[i], [sequence |-> NextNumber(w), session |-> sid[w]])]
      BY <1>6 DEF AppendTranscriptSegment
    <3> QED
      BY <2>4, <3>1
  <2>6. Feed!Post(i)
    BY <2>1, <2>3, <2>5 DEF Feed!Post
  <2> QED
    BY <2>1, <2>2, <2>6 DEF Feed!Next
<1>7. ASSUME NEW w \in Writers, UpdateTranscriptSession(w)
      PROVE  Bounded' /\ UNCHANGED <<segments, received>>
  <2>1. UNCHANGED <<segments, received>>
    BY <1>7 DEF UpdateTranscriptSession, segmentVars, readerVars
  <2>2. sessions' = [sessions EXCEPT ![sid[w]] = copy[w]]
    BY <1>7 DEF UpdateTranscriptSession
  <2>3. DOMAIN sessions' = 1..Len(sessions)
    BY <1>2, <2>2
  <2>4. sessions' \in Seq(Session)
    BY StepIInv DEF TypeOK
  <2>5. Len(sessions') = Len(sessions)
    BY <1>2, <2>3, <2>4, LenProperties
  <2> QED
    BY <2>1, <2>5 DEF Bounded
<1>8. ASSUME NEW r \in Readers, BeginStream(r) \/ LoseAnswer(r)
      PROVE  UNCHANGED <<sessions, segments, received>>
  BY <1>8 DEF BeginStream, LoseAnswer, sessionVars, segmentVars
<1>9. ASSUME NEW r \in Readers, ListTranscriptSegmentsSince(r)
      PROVE  UNCHANGED sessions /\ [Feed!Next]_(Feed!feedVars)
  <2> DEFINE stored == segments[Follows[r]]
             n == cursor'[r]
  <2>1. UNCHANGED <<sessions, segments>>
    BY <1>9 DEF ListTranscriptSegmentsSince, sessionVars, segmentVars
  <2>2. /\ received' \in [Readers -> Seq(Segment)]
        /\ cursor' \in [Readers -> Nat]
        /\ received'[r] = SubSeq(stored, 1, n)
        /\ cursor[r] <= n /\ n <= Len(stored)
        /\ \A q \in Readers \ {r} : received'[q] = received[q]
    BY <1>9, PageReceived
  <2>3. received' = [received EXCEPT ![r] = SubSeq(stored, 1, n)]
    BY <2>2 DEF TypeOK
  <2>4. /\ stored \in Seq(Segment) /\ Len(stored) \in Nat
        /\ received[r] \in Seq(Segment) /\ cursor[r] \in Nat /\ n \in Nat
        /\ received[r] = SubSeq(stored, 1, cursor[r]) /\ cursor[r] <= Len(stored)
    BY <2>2, LenProperties, TranscriptionAssumption DEF TypeOK, ReadersMissNothing
  <2> HIDE DEF n
  <2>5. Len(received[r]) = cursor[r]
    BY <2>4, PrefixByElements
  <2>6. CASE n = cursor[r]
    <3>1. received'[r] = received[r]
      BY <2>2, <2>4, <2>6
    <3>2. received' = received
      BY <2>2, <3>1 DEF TypeOK
    <3> QED
      BY <1>1, <2>1, <3>2
  <2>7. CASE n # cursor[r]
    <3>1. n \in (Len(received[r]) + 1)..Len(stored)
      BY <2>2, <2>4, <2>5, <2>7
    <3>2. Feed!Get(r)
      BY <2>1, <2>3, <3>1 DEF Feed!Get
    <3> QED
      BY <2>1, <3>2 DEF Feed!Next
  <2> QED
    BY <2>1, <2>6, <2>7
<1>10. CASE UNCHANGED vars
  BY <1>1, <1>3, <1>10 DEF vars
<1> QED
  BY <1>1, <1>3, <1>4, <1>5, <1>6, <1>7, <1>8, <1>9, <1>10 DEF Next

(* Seen through its segments and what readers received, transcription      *)
(* implements the safety part of TranscriptFeed: a feed only grows, by one *)
(* entry at a time that carries its place, and a reader's prefix only      *)
(* grows (StreamTranscripts, AppendTranscriptSegment).                     *)
THEOREM ImplementsFeed == Spec => Feed!Safety
<1>1. Init => Bounded /\ Feed!Init
  BY TranscriptionAssumption DEF Init, Bounded, Feed!Init
<1>2. IInv /\ Bounded /\ [Next]_vars => Bounded' /\ [Feed!Next]_(Feed!feedVars)
  BY FeedStep
<1> QED
  BY <1>1, <1>2, TranscriptionInvariant, PTL DEF Spec, Feed!Safety
=============================================================================
