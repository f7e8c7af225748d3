-------------------------- MODULE EvaluationProofs --------------------------
(***************************************************************************)
(* Proofs about Evaluation, Dashboard and, at the end, EvaluationHistory,  *)
(* for any interviews, people and bounds.  The archive and the audit       *)
(* log are written in two critical sections, from a draft made before      *)
(* either: IInv adds what is true of drafts and of ids in between.         *)
(***************************************************************************)
EXTENDS Dashboard, SequenceTheorems, FiniteSetTheorems, TLAPS

DraftsMade ==
  \A w \in Workers : phase[w] # "idle" =>
    /\ draft[w] \in ArchiveEntry
    /\ \E a \in versions[draft[w].interview] :
         /\ draft[w].candidate = a.candidate
         /\ draft[w].round = a.round
         /\ draft[w].interviewer \in a.interviewers

VersionsKnown == \A i \in Interviews : interviews[i] \in versions[i]

(* Ids are given once, over all interviews. *)
IdsUsed ==
  \A i \in Interviews : \A k \in DOMAIN archive[i] :
    archive[i][k].id \in 1..nextEvaluation

IdsDiffer ==
  \A i, j \in Interviews : \A k \in DOMAIN archive[i], l \in DOMAIN archive[j] :
    archive[i][k].id = archive[j][l].id => i = j /\ k = l

(* A draft that was archived and not yet audited. *)
DraftsArchived ==
  \A w \in Workers : phase[w] = "archived" =>
    /\ EventsOf(draft[w].id) = {}
    /\ \E k \in DOMAIN archive[draft[w].interview] :
         LET e == archive[draft[w].interview][k] IN
         /\ e.id = draft[w].id
         /\ e.version = draft[w].version
         /\ e.interviewer = draft[w].interviewer

DraftsDiffer ==
  \A v, w \in Workers :
    phase[v] = "archived" /\ phase[w] = "archived" /\ draft[v].id = draft[w].id => v = w

IInv == /\ TypeOK
        /\ DraftsMade
        /\ VersionsKnown
        /\ IdsUsed
        /\ IdsDiffer
        /\ DraftsArchived
        /\ DraftsDiffer
        /\ VersionsInOrder
        /\ OneVersionOfInterview
        /\ AuditMatchesArchive
-----------------------------------------------------------------------------

LEMMA EntriesFinite ==
  ASSUME TypeOK, NEW i \in Interviews, NEW p, NEW k
  PROVE  /\ IsFiniteSet(EntriesOf(i, p))
         /\ Cardinality(EntriesOf(i, p)) \in Nat
         /\ Cardinality({j \in EntriesOf(i, p) : j < k}) \in Nat
<1>1. archive[i] \in Seq(ArchiveEntry)
  BY DEF TypeOK
<1> DEFINE n == Len(archive[i])
<1>2. n \in Nat /\ DOMAIN archive[i] = 1..n
  BY <1>1, LenProperties
<1>3. IsFiniteSet(1..n)
  <2> HIDE DEF n
  <2> QED
    BY <1>2, FS_Interval
<1>4. EntriesOf(i, p) \subseteq 1..n
  BY <1>2 DEF EntriesOf
<1>5. IsFiniteSet(EntriesOf(i, p))
  BY <1>3, <1>4, FS_Subset
<1>6. IsFiniteSet({j \in EntriesOf(i, p) : j < k})
  BY <1>5, FS_Subset
<1> QED
  BY <1>5, <1>6, FS_CardinalityType

(* VersionsInOrder is about the archive of each interview by itself. *)
Entries(s, p) == {k \in DOMAIN s : s[k].interviewer = p}

InOrder(s) ==
  \A k \in DOMAIN s :
    /\ s[k].version = Cardinality({j \in Entries(s, s[k].interviewer) : j < k}) + 1
    /\ s[k].isLatest <=> \A j \in Entries(s, s[k].interviewer) : j <= k

LEMMA OrderOfEach ==
  /\ VersionsInOrder <=> \A i \in Interviews : InOrder(archive[i])
  /\ VersionsInOrder' <=> \A i \in Interviews : InOrder(archive'[i])
BY Zenon DEF VersionsInOrder, InOrder, Entries, EntriesOf

(* What AddEvaluation does to the archive s of one interview for p; it     *)
(* keeps its order.                                                        *)
Superseding(s, t, p, n) ==
  /\ DOMAIN s = 1..n /\ DOMAIN t = 1..(n + 1)
  /\ \A k \in 1..n :
       /\ t[k].interviewer = s[k].interviewer
       /\ t[k].version = s[k].version
       /\ t[k].isLatest <=> s[k].isLatest /\ s[k].interviewer # p
  /\ t[n + 1].interviewer = p
  /\ t[n + 1].version = Cardinality(Entries(s, p)) + 1
  /\ t[n + 1].isLatest

LEMMA SupersedingKeepsOrder ==
  ASSUME NEW s, NEW t, NEW p, NEW n \in Nat, Superseding(s, t, p, n), InOrder(s)
  PROVE  InOrder(t)
<1> USE DEF Superseding
<1>1. \A q : Entries(s, q) \subseteq 1..n
  BY DEF Entries
<1>2. 1..(n + 1) = 1..n \cup {n + 1}
  OBVIOUS
<1>3. \A q : q # p => Entries(t, q) = Entries(s, q)
  BY <1>2 DEF Entries
<1>4. Entries(t, p) = Entries(s, p) \cup {n + 1}
  BY <1>2 DEF Entries
<1> SUFFICES ASSUME NEW k \in 1..(n + 1), NEW q, q = t[k].interviewer
             PROVE  /\ t[k].version = Cardinality({j \in Entries(t, q) : j < k}) + 1
                    /\ t[k].isLatest <=> \A j \in Entries(t, q) : j <= k
  BY DEF InOrder
<1>5. ASSUME k \in 1..n
      PROVE  /\ t[k].version = Cardinality({j \in Entries(t, q) : j < k}) + 1
             /\ t[k].isLatest <=> \A j \in Entries(t, q) : j <= k
  <2>1. q = s[k].interviewer
    BY <1>5
  <2>2. /\ s[k].version = Cardinality({j \in Entries(s, q) : j < k}) + 1
        /\ s[k].isLatest <=> \A j \in Entries(s, q) : j <= k
    BY <1>5, <2>1 DEF InOrder
  <2>3. {j \in Entries(t, q) : j < k} = {j \in Entries(s, q) : j < k}
    <3>1. CASE q = p
      BY <1>1, <1>4, <1>5, <3>1
    <3>2. CASE q # p
      BY <1>3, <3>2
    <3> QED
      BY <3>1, <3>2
  <2>4. t[k].version = Cardinality({j \in Entries(t, q) : j < k}) + 1
    BY <1>5, <2>2, <2>3, Zenon
  <2>5. CASE q = p
    <3>1. n + 1 \in Entries(t, q) /\ ~ (n + 1 <= k)
      BY <1>4, <1>5, <2>5
    <3>2. ~ t[k].isLatest
      BY <1>5, <2>1, <2>5
    <3> QED
      BY <2>4, <3>1, <3>2
  <2>6. CASE q # p
    BY <1>3, <1>5, <2>1, <2>2, <2>4, <2>6
  <2> QED
    BY <2>5, <2>6
<1>6. ASSUME k = n + 1
      PROVE  /\ t[k].version = Cardinality({j \in Entries(t, q) : j < k}) + 1
             /\ t[k].isLatest <=> \A j \in Entries(t, q) : j <= k
  <2>1. q = p
    BY <1>6
  <2>2. {j \in Entries(t, q) : j < k} = Entries(s, p)
    BY <1>1, <1>4, <1>6, <2>1
  <2>3. \A j \in Entries(t, q) : j <= k
    BY <1>1, <1>4, <1>6, <2>1
  <2> QED
    BY <1>6, <2>2, <2>3, Zenon
<1> QED
  BY <1>2, <1>5, <1>6

(* What is stored for a draft d. *)
LEMMA StoredFields ==
  ASSUME NEW d \in ArchiveEntry
  PROVE  /\ Stored(d).id = nextEvaluation + 1
         /\ Stored(d).version = Cardinality(EntriesOf(d.interview, d.interviewer)) + 1
         /\ Stored(d).isLatest
         /\ Stored(d).interview = d.interview
         /\ Stored(d).interviewer = d.interviewer
         /\ Stored(d).candidate = d.candidate
         /\ Stored(d).round = d.round
<1>1. ASSUME NEW id, NEW v
      PROVE  LET e == [d EXCEPT !.id = id, !.version = v, !.isLatest = TRUE]
             IN /\ e.id = id /\ e.version = v /\ e.isLatest
                /\ e.interview = d.interview /\ e.interviewer = d.interviewer
                /\ e.candidate = d.candidate /\ e.round = d.round
  BY DEF ArchiveEntry
<1> QED
  BY <1>1 DEF Stored

(* What AddEvaluation leaves in the archive: one entry more, which is the  *)
(* draft with id and version, and the other entries but for isLatest.      *)
LEMMA AddedArchive ==
  ASSUME TypeOK, DraftsMade, NEW w \in Workers, AddEvaluation(w),
         NEW i, i = draft[w].interview, NEW p, p = draft[w].interviewer,
         NEW n, n = Len(archive[i])
  PROVE  /\ i \in Interviews /\ p \in Interviewers /\ n \in Nat
         /\ DOMAIN archive[i] = 1..n
         /\ DOMAIN archive'[i] = 1..(n + 1)
         /\ archive' \in [Interviews -> Seq(ArchiveEntry)]
         /\ \A j \in Interviews : j # i => archive'[j] = archive[j]
         /\ \A k \in 1..n :
              /\ archive[i][k] \in ArchiveEntry
              /\ archive'[i][k] = IF archive[i][k].interviewer = p
                                  THEN [archive[i][k] EXCEPT !.isLatest = FALSE]
                                  ELSE archive[i][k]
         /\ archive'[i][n + 1] = draft'[w]
         /\ draft' = [draft EXCEPT ![w] = Stored(draft[w])]
         /\ Stored(draft[w]) \in ArchiveEntry
<1>1. draft[w] \in ArchiveEntry /\ i \in Interviews /\ p \in Interviewers
  BY DEF AddEvaluation, DraftsMade, ArchiveEntry
<1>2. archive[i] \in Seq(ArchiveEntry)
  BY <1>1 DEF TypeOK
<1>3. n \in Nat /\ DOMAIN archive[i] = 1..n
  BY <1>2, LenProperties
<1>4. \A k \in 1..n : archive[i][k] \in ArchiveEntry
  BY <1>2, <1>3, ElementOfSeq
<1>5. Cardinality(EntriesOf(i, p)) \in Nat
  BY <1>1, EntriesFinite
<1>6. Stored(draft[w]) \in ArchiveEntry
  <2>1. ASSUME NEW id \in Nat, NEW v \in Nat
        PROVE  [draft[w] EXCEPT !.id = id, !.version = v, !.isLatest = TRUE] \in ArchiveEntry
    BY <1>1 DEF ArchiveEntry
  <2>2. /\ nextEvaluation + 1 \in Nat
        /\ Cardinality(EntriesOf(draft[w].interview, draft[w].interviewer)) + 1 \in Nat
    BY <1>5 DEF TypeOK
  <2> QED
    BY <2>1, <2>2 DEF Stored
<1> DEFINE old == Superseded(i, p)
<1>7. \A k \in 1..n : [archive[i][k] EXCEPT !.isLatest = FALSE] \in ArchiveEntry
  <2>1. ASSUME NEW e \in ArchiveEntry
        PROVE  [e EXCEPT !.isLatest = FALSE] \in ArchiveEntry
    BY DEF ArchiveEntry
  <2> QED
    BY <1>4, <2>1
<1>8. /\ DOMAIN old = 1..n
      /\ \A k \in 1..n : old[k] = IF archive[i][k].interviewer = p
                                  THEN [archive[i][k] EXCEPT !.isLatest = FALSE]
                                  ELSE archive[i][k]
  BY <1>3 DEF Superseded, EntriesOf
<1>9. \A k \in 1..n : old[k] \in ArchiveEntry
  BY <1>4, <1>7, <1>8
<1>10. old = [k \in 1..n |-> old[k]]
  BY <1>3 DEF Superseded
<1>11. old \in Seq(ArchiveEntry)
  BY <1>3, <1>9, <1>10, IsASeq
<1>12. Len(old) = n
  <2> HIDE DEF old
  <2> QED
    BY <1>3, <1>8, <1>11, LenProperties
<1> DEFINE new == Append(old, Stored(draft[w]))
<1>13. /\ new \in Seq(ArchiveEntry)
       /\ Len(new) = n + 1
       /\ \A k \in 1..n : new[k] = old[k]
       /\ new[n + 1] = Stored(draft[w])
  <2> DEFINE stored == Stored(draft[w])
  <2>1. stored \in ArchiveEntry
    BY <1>6
  <2> HIDE DEF old, stored
  <2>2. /\ Append(old, stored) \in Seq(ArchiveEntry)
        /\ Len(Append(old, stored)) = Len(old) + 1
        /\ \A k \in 1..Len(old) : Append(old, stored)[k] = old[k]
        /\ Append(old, stored)[Len(old) + 1] = stored
    BY <1>11, <2>1, AppendProperties
  <2> QED
    BY <1>12, <2>2 DEF stored
<1>14. DOMAIN new = 1..(n + 1)
  <2> HIDE DEF new
  <2> QED
    BY <1>13, LenProperties
<1>15. /\ archive' = [archive EXCEPT ![i] = new]
       /\ draft' = [draft EXCEPT ![w] = Stored(draft[w])]
  BY DEF AddEvaluation
<1>16. draft'[w] = Stored(draft[w])
  BY <1>15 DEF TypeOK
<1> HIDE DEF old, new
<1>17. /\ archive' \in [Interviews -> Seq(ArchiveEntry)]
       /\ archive'[i] = new
       /\ \A j \in Interviews : j # i => archive'[j] = archive[j]
  BY <1>1, <1>13, <1>15 DEF TypeOK
<1>18. /\ DOMAIN archive'[i] = 1..(n + 1)
       /\ archive'[i][n + 1] = draft'[w]
  BY <1>13, <1>14, <1>16, <1>17
<1>19. \A k \in 1..n :
         /\ archive[i][k] \in ArchiveEntry
         /\ archive'[i][k] = IF archive[i][k].interviewer = p
                             THEN [archive[i][k] EXCEPT !.isLatest = FALSE]
                             ELSE archive[i][k]
  <2> SUFFICES ASSUME NEW k \in 1..n
               PROVE  /\ archive[i][k] \in ArchiveEntry
                      /\ archive'[i][k] = IF archive[i][k].interviewer = p
                                          THEN [archive[i][k] EXCEPT !.isLatest = FALSE]
                                          ELSE archive[i][k]
    OBVIOUS
  <2>1. archive'[i][k] = old[k]
    BY <1>13, <1>17
  <2> QED
    BY <1>4, <1>8, <2>1
<1> QED
  BY <1>1, <1>3, <1>6, <1>15, <1>17, <1>18, <1>19

(* The entries there were keep all but isLatest. *)
LEMMA AddedFields ==
  ASSUME TypeOK, DraftsMade, NEW w \in Workers, AddEvaluation(w),
         NEW i, i = draft[w].interview, NEW p, p = draft[w].interviewer,
         NEW n, n = Len(archive[i])
  PROVE  \A k \in 1..n :
           /\ archive'[i][k].id = archive[i][k].id
           /\ archive'[i][k].interviewer = archive[i][k].interviewer
           /\ archive'[i][k].candidate = archive[i][k].candidate
           /\ archive'[i][k].round = archive[i][k].round
           /\ archive'[i][k].version = archive[i][k].version
<1>1. /\ i \in Interviews /\ p \in Interviewers /\ n \in Nat
      /\ DOMAIN archive[i] = 1..n
      /\ DOMAIN archive'[i] = 1..(n + 1)
      /\ archive' \in [Interviews -> Seq(ArchiveEntry)]
      /\ \A j \in Interviews : j # i => archive'[j] = archive[j]
      /\ \A k \in 1..n :
           /\ archive[i][k] \in ArchiveEntry
           /\ archive'[i][k] = IF archive[i][k].interviewer = p
                               THEN [archive[i][k] EXCEPT !.isLatest = FALSE]
                               ELSE archive[i][k]
      /\ archive'[i][n + 1] = draft'[w]
      /\ draft' = [draft EXCEPT ![w] = Stored(draft[w])]
      /\ Stored(draft[w]) \in ArchiveEntry
  BY AddedArchive
<1>2. ASSUME NEW e \in ArchiveEntry, NEW s, s = [e EXCEPT !.isLatest = FALSE] \/ s = e
      PROVE  /\ s.id = e.id
             /\ s.interviewer = e.interviewer
             /\ s.candidate = e.candidate
             /\ s.round = e.round
             /\ s.version = e.version
  BY <1>2 DEF ArchiveEntry
<1> QED
  <2> SUFFICES ASSUME NEW k \in 1..n
               PROVE  /\ archive'[i][k].id = archive[i][k].id
                      /\ archive'[i][k].interviewer = archive[i][k].interviewer
                      /\ archive'[i][k].candidate = archive[i][k].candidate
                      /\ archive'[i][k].round = archive[i][k].round
                      /\ archive'[i][k].version = archive[i][k].version
    OBVIOUS
  <2> DEFINE e == archive[i][k]
             s == archive'[i][k]
  <2>1. e \in ArchiveEntry /\ (s = [e EXCEPT !.isLatest = FALSE] \/ s = e)
    BY <1>1
  <2> HIDE DEF e, s
  <2>2. /\ s.id = e.id
        /\ s.interviewer = e.interviewer
        /\ s.candidate = e.candidate
        /\ s.round = e.round
        /\ s.version = e.version
    BY ONLY <2>1, <1>2
  <2> QED
    BY <2>2 DEF e, s

(* What holds of the archive does as long as the archive is unchanged. *)
LEMMA ArchiveStays ==
  ASSUME IdsUsed, IdsDiffer, VersionsInOrder, UNCHANGED <<archive, nextEvaluation>>
  PROVE  IdsUsed' /\ IdsDiffer' /\ VersionsInOrder'
<1>1. VersionsInOrder'
  BY OrderOfEach
<1> QED
  BY <1>1 DEF IdsUsed, IdsDiffer

LEMMA InitIInv == Init => IInv
<1> SUFFICES ASSUME Init
             PROVE  IInv
  OBVIOUS
<1>1. << >> \in Seq(ArchiveEntry) /\ << >> \in Seq(AuditEvent)
  BY EmptySeq
<1>2. DOMAIN << >> = {}
  OBVIOUS
<1>3. \A i \in Interviews : DOMAIN archive[i] = {}
  BY <1>2 DEF Init
<1>4. DOMAIN events = {}
  BY <1>2 DEF Init
<1>5. TypeOK
  BY <1>1 DEF Init, TypeOK, Phases
<1>6. DraftsMade /\ DraftsArchived /\ DraftsDiffer
  BY DEF Init, DraftsMade, DraftsArchived, DraftsDiffer
<1>7. VersionsKnown
  BY DEF Init, VersionsKnown
<1>8. IdsUsed /\ IdsDiffer
  BY <1>3 DEF IdsUsed, IdsDiffer
<1>9. VersionsInOrder /\ OneVersionOfInterview
  BY <1>3 DEF VersionsInOrder, OneVersionOfInterview
<1>10. AuditMatchesArchive
  BY <1>3, <1>4 DEF AuditMatchesArchive
<1> QED
  BY <1>5, <1>6, <1>7, <1>8, <1>9, <1>10 DEF IInv

LEMMA UpdateIInv ==
  ASSUME IInv, NEW i \in Interviews, NEW a \in Assignment, UpdateInterview(i, a)
  PROVE  IInv'
<1> USE DEF IInv
<1>1. /\ versions' = [versions EXCEPT ![i] = @ \cup {a}]
      /\ interviews' = [interviews EXCEPT ![i] = a]
      /\ UNCHANGED <<archive, nextEvaluation, events, phase, draft, submissions, overlapped>>
  BY DEF UpdateInterview
<1>2. TypeOK'
  BY DEF TypeOK, UpdateInterview
<1>3. \A j \in Interviews : versions[j] \subseteq versions'[j]
  BY <1>1 DEF TypeOK
<1>4. DraftsMade'
  BY <1>1, <1>3 DEF DraftsMade, ArchiveEntry
<1>5. VersionsKnown'
  BY <1>1 DEF VersionsKnown, TypeOK
<1>6. OneVersionOfInterview'
  BY <1>1, <1>3 DEF OneVersionOfInterview
<1>7. (IdsUsed /\ IdsDiffer /\ VersionsInOrder)'
  BY <1>1, ArchiveStays
<1>8. (DraftsArchived /\ DraftsDiffer /\ AuditMatchesArchive)'
  BY <1>1 DEF DraftsArchived, DraftsDiffer, AuditMatchesArchive, EventsOf
<1> QED
  BY <1>2, <1>4, <1>5, <1>6, <1>7, <1>8

LEMMA BeginIInv ==
  ASSUME IInv, NEW w \in Workers, NEW i \in Interviews, NEW p \in Interviewers,
         BeginSubmit(w, i, p)
  PROVE  IInv'
<1> USE DEF IInv
<1> DEFINE made == [id |-> 0, interview |-> i, interviewer |-> p,
                    candidate |-> interviews[i].candidate, round |-> interviews[i].round,
                    version |-> 0, isLatest |-> FALSE]
<1>1. /\ phase' = [phase EXCEPT ![w] = "checked"]
      /\ draft' = [draft EXCEPT ![w] = made]
      /\ p \in interviews[i].interviewers
      /\ UNCHANGED <<interviews, archive, nextEvaluation, events, updates, versions>>
  BY DEF BeginSubmit
<1>2. interviews[i] \in Assignment
  BY DEF TypeOK
<1>3. made \in ArchiveEntry
  BY <1>2 DEF Assignment, ArchiveEntry
<1>4. /\ made.interview = i /\ made.interviewer = p
      /\ made.candidate = interviews[i].candidate /\ made.round = interviews[i].round
  OBVIOUS
<1> HIDE DEF made
<1>5. TypeOK'
  <2>1. phase' \in [Workers -> Phases] /\ draft' \in [Workers -> ArchiveEntry \cup {Nothing}]
    BY <1>1, <1>3 DEF TypeOK, Phases
  <2>2. submissions' \in Nat /\ overlapped' \subseteq Interviews \X Interviewers
    BY DEF TypeOK, BeginSubmit
  <2> QED
    BY <1>1, <2>1, <2>2 DEF TypeOK
<1>6. /\ draft'[w] = made /\ phase'[w] = "checked"
      /\ \A v \in Workers : v # w => draft'[v] = draft[v] /\ phase'[v] = phase[v]
  BY <1>1 DEF TypeOK
<1>7. DraftsMade'
  <2> SUFFICES ASSUME NEW v \in Workers, phase'[v] # "idle"
               PROVE  /\ draft'[v] \in ArchiveEntry
                      /\ \E a \in versions[draft'[v].interview] :
                           /\ draft'[v].candidate = a.candidate
                           /\ draft'[v].round = a.round
                           /\ draft'[v].interviewer \in a.interviewers
    BY <1>1 DEF DraftsMade
  <2>1. CASE v = w
    BY <1>1, <1>3, <1>4, <1>6, <2>1 DEF VersionsKnown
  <2>2. CASE v # w
    BY <1>6, <2>2 DEF DraftsMade
  <2> QED
    BY <2>1, <2>2
<1>8. VersionsKnown' /\ OneVersionOfInterview'
  BY <1>1 DEF VersionsKnown, OneVersionOfInterview
<1>9. (IdsUsed /\ IdsDiffer /\ VersionsInOrder)'
  BY <1>1, ArchiveStays
<1>10. \A v \in Workers : phase'[v] = "archived" <=> phase[v] = "archived"
  BY <1>6 DEF BeginSubmit
<1>11. \A v \in Workers : phase[v] = "archived" => draft'[v] = draft[v]
  BY <1>6 DEF BeginSubmit
<1>12. DraftsArchived' /\ DraftsDiffer'
  BY <1>1, <1>10, <1>11 DEF DraftsArchived, DraftsDiffer, EventsOf
<1>13. AuditMatchesArchive'
  BY <1>1, <1>10, <1>11 DEF AuditMatchesArchive, EventsOf
<1> QED
  BY <1>5, <1>7, <1>8, <1>9, <1>12, <1>13

LEMMA AddIInv ==
  ASSUME IInv, NEW w \in Workers, AddEvaluation(w)
  PROVE  IInv'
<1> USE DEF IInv
<1> SUFFICES ASSUME NEW i, i = draft[w].interview, NEW p, p = draft[w].interviewer,
                    NEW n, n = Len(archive[i])
             PROVE  IInv'
  OBVIOUS
<1>1. draft[w] \in ArchiveEntry
  BY DEF AddEvaluation, DraftsMade
<1>2. /\ i \in Interviews /\ p \in Interviewers /\ n \in Nat
      /\ DOMAIN archive[i] = 1..n
      /\ DOMAIN archive'[i] = 1..(n + 1)
      /\ archive' \in [Interviews -> Seq(ArchiveEntry)]
      /\ \A j \in Interviews : j # i => archive'[j] = archive[j]
      /\ \A k \in 1..n :
           /\ archive[i][k] \in ArchiveEntry
           /\ archive'[i][k] = IF archive[i][k].interviewer = p
                               THEN [archive[i][k] EXCEPT !.isLatest = FALSE]
                               ELSE archive[i][k]
      /\ archive'[i][n + 1] = draft'[w]
      /\ draft' = [draft EXCEPT ![w] = Stored(draft[w])]
      /\ Stored(draft[w]) \in ArchiveEntry
  BY SMTT(60), AddedArchive
<1>3. \A k \in 1..n :
        /\ archive[i][k] \in ArchiveEntry
        /\ archive'[i][k] = IF archive[i][k].interviewer = p
                            THEN [archive[i][k] EXCEPT !.isLatest = FALSE]
                            ELSE archive[i][k]
  BY <1>2
<1>4. \A k \in 1..n :
        /\ archive'[i][k].id = archive[i][k].id
        /\ archive'[i][k].interviewer = archive[i][k].interviewer
        /\ archive'[i][k].candidate = archive[i][k].candidate
        /\ archive'[i][k].round = archive[i][k].round
        /\ archive'[i][k].version = archive[i][k].version
  BY AddedFields
<1>4a. \A k \in 1..n :
         archive'[i][k].isLatest <=> archive[i][k].isLatest /\ archive[i][k].interviewer # p
  BY <1>3 DEF ArchiveEntry
<1>5. /\ draft'[w] \in ArchiveEntry
      /\ draft'[w].id = nextEvaluation + 1
      /\ draft'[w].interview = i
      /\ draft'[w].interviewer = p
      /\ draft'[w].candidate = draft[w].candidate
      /\ draft'[w].round = draft[w].round
  <2>1. draft'[w] = Stored(draft[w]) /\ draft'[w] \in ArchiveEntry
    BY <1>2 DEF TypeOK
  <2> QED
    BY <1>1, <2>1, StoredFields
<1>5a. draft'[w].version = Cardinality(EntriesOf(i, p)) + 1 /\ draft'[w].isLatest
  <2>1. draft'[w] = Stored(draft[w])
    BY <1>2 DEF TypeOK
  <2> QED
    BY <1>1, <2>1, StoredFields
<1>6. /\ nextEvaluation' = nextEvaluation + 1
      /\ phase[w] = "checked"
      /\ phase' = [phase EXCEPT ![w] = "archived"]
      /\ UNCHANGED <<interviews, events, submissions, updates, versions, overlapped>>
  BY DEF AddEvaluation
<1>7. /\ phase'[w] = "archived"
      /\ \A v \in Workers : v # w => draft'[v] = draft[v] /\ phase'[v] = phase[v]
  BY <1>2, <1>6 DEF TypeOK
<1>8. TypeOK'
  <2>1. nextEvaluation' \in Nat /\ phase' \in [Workers -> Phases]
    BY <1>6 DEF TypeOK, Phases
  <2>2. draft' \in [Workers -> ArchiveEntry \cup {Nothing}]
    BY <1>2 DEF TypeOK
  <2> QED
    BY <1>2, <1>6, <2>1, <2>2 DEF TypeOK
<1>9. DraftsMade'
  <2> SUFFICES ASSUME NEW v \in Workers, phase'[v] # "idle"
               PROVE  /\ draft'[v] \in ArchiveEntry
                      /\ \E a \in versions[draft'[v].interview] :
                           /\ draft'[v].candidate = a.candidate
                           /\ draft'[v].round = a.round
                           /\ draft'[v].interviewer \in a.interviewers
    BY <1>6 DEF DraftsMade
  <2>1. CASE v = w
    BY <1>5, <1>6, <2>1 DEF DraftsMade
  <2>2. CASE v # w
    BY <1>7, <2>2 DEF DraftsMade
  <2> QED
    BY <2>1, <2>2
<1>10. VersionsKnown'
  BY <1>6 DEF VersionsKnown
<1>11. nextEvaluation \in Nat
  BY DEF TypeOK
<1>12. 1..(n + 1) = 1..n \cup {n + 1}
  <2>1. n \in Nat
    BY <1>2
  <2> QED
    BY ONLY <2>1
<1>13. IdsUsed'
  <2> SUFFICES ASSUME NEW j \in Interviews, NEW k \in DOMAIN archive'[j]
               PROVE  archive'[j][k].id \in 1..(nextEvaluation + 1)
    BY <1>6 DEF IdsUsed
  <2>1. CASE j # i
    BY <1>2, <1>11, <2>1 DEF IdsUsed
  <2>2. CASE j = i /\ k \in 1..n
    <3>1. archive[i][k].id \in 1..nextEvaluation
      BY <1>2, <2>2 DEF IdsUsed
    <3>2. archive'[i][k].id = archive[i][k].id
      BY <1>4, <2>2
    <3> QED
      BY <1>11, <2>2, <3>1, <3>2
  <2>3. CASE j = i /\ k = n + 1
    <3>1. archive'[j][k].id = nextEvaluation + 1
      BY <1>2, <1>5, <2>3, Zenon
    <3> QED
      BY <1>11, <3>1
  <2> QED
    BY <1>2, <1>12, <2>1, <2>2, <2>3
(* An entry is a former one, with its id, or the new one. *)
<1>14. \A j \in Interviews : \A k \in DOMAIN archive'[j] :
         \/ /\ k \in DOMAIN archive[j]
            /\ archive'[j][k].id = archive[j][k].id
            /\ archive'[j][k].id \in 1..nextEvaluation
         \/ j = i /\ k = n + 1 /\ archive'[j][k].id = nextEvaluation + 1
  <2> SUFFICES ASSUME NEW j \in Interviews, NEW k \in DOMAIN archive'[j]
               PROVE  \/ /\ k \in DOMAIN archive[j]
                         /\ archive'[j][k].id = archive[j][k].id
                         /\ archive'[j][k].id \in 1..nextEvaluation
                      \/ j = i /\ k = n + 1 /\ archive'[j][k].id = nextEvaluation + 1
    OBVIOUS
  <2>1. CASE j # i
    BY <1>2, <2>1 DEF IdsUsed
  <2>2. CASE j = i /\ k \in 1..n
    <3>1. k \in DOMAIN archive[i] /\ archive[i][k].id \in 1..nextEvaluation
      BY <1>2, <2>2 DEF IdsUsed
    <3>2. archive'[i][k].id = archive[i][k].id
      BY <1>4, <2>2
    <3> QED
      BY <2>2, <3>1, <3>2
  <2>3. CASE j = i /\ k = n + 1
    BY <1>2, <1>5, <2>3, Zenon
  <2> QED
    BY <1>2, <1>12, <2>1, <2>2, <2>3
<1>15. IdsDiffer'
  <2> SUFFICES ASSUME NEW j \in Interviews, NEW l \in Interviews,
                      NEW k \in DOMAIN archive'[j], NEW m \in DOMAIN archive'[l],
                      archive'[j][k].id = archive'[l][m].id
               PROVE  j = l /\ k = m
    BY DEF IdsDiffer
  <2>1. CASE archive'[j][k].id = nextEvaluation + 1
    <3>1. ~ (archive'[j][k].id \in 1..nextEvaluation)
      BY <1>11, <2>1
    <3>2. j = i /\ k = n + 1
      BY <1>14, <3>1
    <3>3. l = i /\ m = n + 1
      BY <1>14, <3>1
    <3> QED
      BY <3>2, <3>3
  <2>2. CASE archive'[j][k].id # nextEvaluation + 1
    BY <1>14, <2>2 DEF IdsDiffer
  <2> QED
    BY <2>1, <2>2
<1>16. \A m \in DOMAIN events : /\ events[m] \in AuditEvent
                                /\ events[m].object \in 1..nextEvaluation
  <2> SUFFICES ASSUME NEW m \in DOMAIN events
               PROVE  events[m] \in AuditEvent /\ events[m].object \in 1..nextEvaluation
    OBVIOUS
  <2>1. events[m] \in AuditEvent
    BY LenProperties, ElementOfSeq DEF TypeOK
  <2>2. events[m].interview \in Interviews
    BY <2>1 DEF AuditEvent
  <2> QED
    BY <2>1, <2>2 DEF AuditMatchesArchive, IdsUsed
<1>17. \A v \in Workers : phase[v] = "archived" => draft[v].id \in 1..nextEvaluation
  BY DEF DraftsArchived, DraftsMade, ArchiveEntry, IdsUsed
(* The other archived drafts still have their entries. *)
<1>18. DraftsArchived'
  <2> SUFFICES ASSUME NEW v \in Workers, phase'[v] = "archived"
               PROVE  /\ \A m \in DOMAIN events : events[m].object # draft'[v].id
                      /\ \E k \in DOMAIN archive'[draft'[v].interview] :
                           /\ archive'[draft'[v].interview][k].id = draft'[v].id
                           /\ archive'[draft'[v].interview][k].version = draft'[v].version
                           /\ archive'[draft'[v].interview][k].interviewer = draft'[v].interviewer
    BY <1>6 DEF DraftsArchived, EventsOf
  <2>1. CASE v = w
    <3>1. \A m \in DOMAIN events : events[m].object # draft'[w].id
      BY <1>5, <1>11, <1>16
    <3>2. n + 1 \in DOMAIN archive'[draft'[w].interview]
      <4>1. DOMAIN archive'[i] = 1..(n + 1) /\ n \in Nat
        BY <1>2
      <4>2. draft'[w].interview = i
        BY <1>5
      <4> QED
        BY ONLY <4>1, <4>2
    <3>3. archive'[draft'[w].interview][n + 1] = draft'[w]
      BY <1>2, <1>5
    <3> QED
      BY <2>1, <3>1, <3>2, <3>3
  <2>2. CASE v # w
    <3>1. draft'[v] = draft[v] /\ phase[v] = "archived"
      BY <1>7, <2>2
    <3>2. draft[v].interview \in Interviews
      BY <3>1 DEF DraftsMade, ArchiveEntry
    <3>3. PICK k \in DOMAIN archive[draft[v].interview] :
            /\ archive[draft[v].interview][k].id = draft[v].id
            /\ archive[draft[v].interview][k].version = draft[v].version
            /\ archive[draft[v].interview][k].interviewer = draft[v].interviewer
      BY <3>1 DEF DraftsArchived
    <3>4. /\ k \in DOMAIN archive'[draft[v].interview]
          /\ archive'[draft[v].interview][k].id = draft[v].id
          /\ archive'[draft[v].interview][k].version = draft[v].version
          /\ archive'[draft[v].interview][k].interviewer = draft[v].interviewer
      <4>1. CASE draft[v].interview = i
        <5>1. k \in 1..n /\ k \in DOMAIN archive'[i]
          BY <1>2, <1>12, <3>3, <4>1
        <5>2. /\ archive'[i][k].id = archive[i][k].id
              /\ archive'[i][k].version = archive[i][k].version
              /\ archive'[i][k].interviewer = archive[i][k].interviewer
          BY <1>4, <5>1
        <5> QED
          BY <3>3, <4>1, <5>1, <5>2
      <4>2. CASE draft[v].interview # i
        BY <1>2, <3>2, <3>3, <4>2
      <4> QED
        BY <4>1, <4>2
    <3>5. \A m \in DOMAIN events : events[m].object # draft[v].id
      BY <3>1 DEF DraftsArchived, EventsOf
    <3> QED
      BY <3>1, <3>4, <3>5
  <2> QED
    BY <2>1, <2>2
<1>19. DraftsDiffer'
  <2> SUFFICES ASSUME NEW v \in Workers, NEW u \in Workers,
                      phase'[v] = "archived", phase'[u] = "archived",
                      draft'[v].id = draft'[u].id
               PROVE  v = u
    BY DEF DraftsDiffer
  <2>1. \A x \in Workers : x # w /\ phase'[x] = "archived"
                             => draft'[x].id \in 1..nextEvaluation
    BY <1>7, <1>17
  <2>2. CASE v = w \/ u = w
    BY <1>5, <1>11, <2>1, <2>2
  <2>3. CASE v # w /\ u # w
    BY <1>7, <2>3 DEF DraftsDiffer
  <2> QED
    BY <2>2, <2>3
<1>20. VersionsInOrder'
  <2>1. \A j \in Interviews : InOrder(archive[j])
    BY OrderOfEach
  <2>2. EntriesOf(i, p) = Entries(archive[i], p)
    BY DEF EntriesOf, Entries
  <2>3. InOrder(archive'[i])
    <3> SUFFICES ASSUME NEW s, s = archive[i], NEW t, t = archive'[i]
                 PROVE  InOrder(t)
      OBVIOUS
    <3>1. DOMAIN s = 1..n /\ DOMAIN t = 1..(n + 1)
      BY <1>2
    <3>2. \A k \in 1..n :
            /\ t[k].interviewer = s[k].interviewer
            /\ t[k].version = s[k].version
            /\ t[k].isLatest <=> s[k].isLatest /\ s[k].interviewer # p
      BY <1>4, <1>4a, Zenon
    <3>3. t[n + 1].interviewer = p /\ t[n + 1].version = Cardinality(Entries(s, p)) + 1
      BY <1>2, <1>5, <1>5a, <2>2
    <3>4. t[n + 1].isLatest
      BY <1>2, <1>5a, Zenon
    <3>5. InOrder(s) /\ n \in Nat
      BY <1>2, <2>1
    <3>6. Superseding(s, t, p, n)
      BY <3>1, <3>2, <3>3, <3>4, Zenon DEF Superseding
    <3> QED
      BY <3>5, <3>6, SupersedingKeepsOrder
  <2>4. \A j \in Interviews : InOrder(archive'[j])
    BY <1>2, <2>1, <2>3
  <2> QED
    BY <2>4, OrderOfEach
<1>21. OneVersionOfInterview'
  <2> SUFFICES ASSUME NEW j \in Interviews, NEW k \in DOMAIN archive'[j]
               PROVE  \E a \in versions[j] :
                        /\ archive'[j][k].candidate = a.candidate
                        /\ archive'[j][k].round = a.round
                        /\ archive'[j][k].interviewer \in a.interviewers
    BY <1>6 DEF OneVersionOfInterview
  <2>1. CASE j # i
    <3>1. archive'[j] = archive[j]
      BY <1>2, <2>1
    <3> QED
      BY <3>1 DEF OneVersionOfInterview
  <2>2. CASE j = i /\ k \in 1..n
    <3>1. \E a \in versions[i] :
            /\ archive[i][k].candidate = a.candidate
            /\ archive[i][k].round = a.round
            /\ archive[i][k].interviewer \in a.interviewers
      BY <1>2, <2>2 DEF OneVersionOfInterview
    <3>2. /\ archive'[i][k].candidate = archive[i][k].candidate
          /\ archive'[i][k].round = archive[i][k].round
          /\ archive'[i][k].interviewer = archive[i][k].interviewer
      BY <1>4, <2>2
    <3> QED
      BY <2>2, <3>1, <3>2
  <2>3. CASE j = i /\ k = n + 1
    <3>1. \E a \in versions[draft[w].interview] :
            /\ draft[w].candidate = a.candidate
            /\ draft[w].round = a.round
            /\ draft[w].interviewer \in a.interviewers
      BY <1>6 DEF DraftsMade
    <3>2. archive'[j][k] = draft'[w]
      BY <1>2, <2>3
    <3>3. /\ archive'[j][k].candidate = draft[w].candidate
          /\ archive'[j][k].round = draft[w].round
          /\ archive'[j][k].interviewer = draft[w].interviewer
      BY <1>5, <3>2
    <3> QED
      BY <2>3, <3>1, <3>3
  <2> QED
    BY <1>2, <1>12, <2>1, <2>2, <2>3
<1>22. AuditMatchesArchive'
  <2>1. \A j \in Interviews : \A k \in DOMAIN archive'[j] :
          LET e == archive'[j][k] IN
          \/ \E m \in DOMAIN events :
               /\ EventsOf(e.id) = {m}
               /\ events[m].version = e.version
               /\ events[m].operator = e.interviewer
               /\ events[m].action = "interview.evaluation.submit" <=> e.version = 1
          \/ /\ EventsOf(e.id) = {}
             /\ \E v \in Workers : phase'[v] = "archived" /\ draft'[v].id = e.id
    <3> SUFFICES ASSUME NEW j \in Interviews, NEW k \in DOMAIN archive'[j],
                        NEW e, e = archive'[j][k]
                 PROVE  \/ \E m \in DOMAIN events :
                             /\ EventsOf(e.id) = {m}
                             /\ events[m].version = e.version
                             /\ events[m].operator = e.interviewer
                             /\ events[m].action = "interview.evaluation.submit" <=> e.version = 1
                        \/ /\ EventsOf(e.id) = {}
                           /\ \E v \in Workers : phase'[v] = "archived" /\ draft'[v].id = e.id
      BY ZenonT(60)
    <3>1. CASE j = i /\ k = n + 1
      <4>1. e = draft'[w]
        BY <1>2, <3>1
      <4>2. EventsOf(e.id) = {}
        BY <1>5, <1>11, <1>16, <4>1 DEF EventsOf
      <4> QED
        BY <1>7, <4>1, <4>2
    <3>2. CASE ~ (j = i /\ k = n + 1)
      <4>1. /\ k \in DOMAIN archive[j]
            /\ e.id = archive[j][k].id
            /\ e.version = archive[j][k].version
            /\ e.interviewer = archive[j][k].interviewer
        <5>1. CASE j # i
          BY <1>2, <5>1
        <5>2. CASE j = i
          <6>1. k \in 1..n
            BY <1>2, <1>12, <3>2, <5>2
          <6>2. /\ archive'[i][k].id = archive[i][k].id
                /\ archive'[i][k].version = archive[i][k].version
                /\ archive'[i][k].interviewer = archive[i][k].interviewer
            BY <1>4, <6>1
          <6> QED
            BY <1>2, <5>2, <6>1, <6>2
        <5> QED
          BY <5>1, <5>2
      <4>2. \/ \E m \in DOMAIN events :
                 /\ EventsOf(e.id) = {m}
                 /\ events[m].version = e.version
                 /\ events[m].operator = e.interviewer
                 /\ events[m].action = "interview.evaluation.submit" <=> e.version = 1
            \/ /\ EventsOf(e.id) = {}
               /\ \E v \in Workers : phase[v] = "archived" /\ draft[v].id = e.id
        BY ZenonT(60), <4>1 DEF AuditMatchesArchive
      <4>3. \A v \in Workers : phase[v] = "archived"
                                 => phase'[v] = "archived" /\ draft'[v] = draft[v]
        BY <1>6, <1>7
      <4> QED
        BY <4>2, <4>3
    <3> QED
      BY <3>1, <3>2
  <2>2. \A m \in DOMAIN events :
          \E k \in DOMAIN archive'[events[m].interview] :
            archive'[events[m].interview][k].id = events[m].object
    <3> SUFFICES ASSUME NEW m \in DOMAIN events
                 PROVE  \E k \in DOMAIN archive'[events[m].interview] :
                          archive'[events[m].interview][k].id = events[m].object
      OBVIOUS
    <3>1. events[m].interview \in Interviews
      BY <1>16 DEF AuditEvent
    <3>2. PICK k \in DOMAIN archive[events[m].interview] :
            archive[events[m].interview][k].id = events[m].object
      BY DEF AuditMatchesArchive
    <3>3. CASE events[m].interview = i
      <4>1. k \in 1..n /\ archive[i][k].id = events[m].object
        BY <1>2, <3>2, <3>3
      <4>2. k \in DOMAIN archive'[i] /\ archive'[i][k].id = events[m].object
        BY <1>2, <1>4, <1>12, <4>1
      <4> QED
        BY <3>3, <4>2
    <3>4. CASE events[m].interview # i
      BY <1>2, <3>1, <3>2, <3>4
    <3> QED
      BY <3>3, <3>4
  <2> QED
    BY <1>6, <2>1, <2>2 DEF AuditMatchesArchive, EventsOf
<1> QED
  BY <1>8, <1>9, <1>10, <1>13, <1>15, <1>18, <1>19, <1>20, <1>21, <1>22

LEMMA RecordIInv ==
  ASSUME IInv, NEW w \in Workers, RecordEvaluation(w)
  PROVE  IInv'
<1> USE DEF IInv
<1> DEFINE event == [action |-> ActionOf(draft[w].version), object |-> draft[w].id,
                     interview |-> draft[w].interview,
                     operator |-> draft[w].interviewer, version |-> draft[w].version]
<1>1. /\ phase[w] = "archived"
      /\ events' = Append(events, event)
      /\ phase' = [phase EXCEPT ![w] = "idle"]
      /\ draft' = [draft EXCEPT ![w] = Nothing]
      /\ UNCHANGED <<interviews, archive, nextEvaluation, submissions, updates, versions,
                     overlapped>>
  BY DEF RecordEvaluation
<1>2. draft[w] \in ArchiveEntry
  BY <1>1 DEF DraftsMade
<1>3. event \in AuditEvent
  BY <1>2 DEF AuditEvent, ArchiveEntry, Actions, ActionOf
<1>4. /\ event.action = ActionOf(draft[w].version) /\ event.object = draft[w].id
      /\ event.interview = draft[w].interview /\ event.operator = draft[w].interviewer
      /\ event.version = draft[w].version
  OBVIOUS
<1> SUFFICES ASSUME NEW n, n = Len(events)
             PROVE  IInv'
  OBVIOUS
<1> HIDE DEF event
<1>5. /\ n \in Nat /\ DOMAIN events = 1..n
      /\ events' \in Seq(AuditEvent) /\ DOMAIN events' = 1..(n + 1)
      /\ \A m \in 1..n : events'[m] = events[m]
      /\ events'[n + 1] = event
  <2>1. events \in Seq(AuditEvent)
    BY DEF TypeOK
  <2>2. /\ events' \in Seq(AuditEvent)
        /\ Len(events') = n + 1
        /\ \A m \in 1..n : events'[m] = events[m]
        /\ events'[n + 1] = event
    BY <1>1, <1>3, <2>1, AppendProperties
  <2> QED
    BY <2>1, <2>2, LenProperties
<1>6. 1..(n + 1) = 1..n \cup {n + 1}
  BY <1>5
<1>7. \A v \in Workers : phase'[v] # "idle" => v # w /\ phase'[v] = phase[v] /\ draft'[v] = draft[v]
  BY <1>1 DEF TypeOK
<1>8. TypeOK'
  <2>1. phase' \in [Workers -> Phases] /\ draft' \in [Workers -> ArchiveEntry \cup {Nothing}]
    BY <1>1 DEF TypeOK, Phases
  <2> QED
    BY <1>1, <1>5, <2>1 DEF TypeOK
<1>9. DraftsMade'
  BY <1>1, <1>7 DEF DraftsMade
<1>10. (VersionsKnown /\ OneVersionOfInterview)'
  BY <1>1 DEF VersionsKnown, OneVersionOfInterview
<1>11. (IdsUsed /\ IdsDiffer /\ VersionsInOrder)'
  BY <1>1, ArchiveStays
<1>12. DraftsDiffer'
  BY <1>7 DEF DraftsDiffer
(* The new event tells of one id, that of the draft. *)
<1>13. /\ \A id : id # draft[w].id
            => {m \in DOMAIN events' : events'[m].object = id} = EventsOf(id)
       /\ {m \in DOMAIN events' : events'[m].object = draft[w].id} = {n + 1}
  <2>1. EventsOf(draft[w].id) = {}
    BY <1>1 DEF DraftsArchived
  <2> QED
    BY <1>4, <1>5, <1>6, <2>1 DEF EventsOf
<1>14. DraftsArchived'
  <2> SUFFICES ASSUME NEW v \in Workers, phase'[v] = "archived"
               PROVE  /\ {m \in DOMAIN events' : events'[m].object = draft'[v].id} = {}
                      /\ \E k \in DOMAIN archive[draft'[v].interview] :
                           /\ archive[draft'[v].interview][k].id = draft'[v].id
                           /\ archive[draft'[v].interview][k].version = draft'[v].version
                           /\ archive[draft'[v].interview][k].interviewer = draft'[v].interviewer
    BY <1>1 DEF DraftsArchived, EventsOf
  <2>1. v # w /\ phase[v] = "archived" /\ draft'[v] = draft[v]
    BY <1>7
  <2>2. draft[v].id # draft[w].id
    BY <1>1, <2>1 DEF DraftsDiffer
  <2>3. EventsOf(draft[v].id) = {}
    BY <2>1 DEF DraftsArchived
  <2>4. {m \in DOMAIN events' : events'[m].object = draft'[v].id} = {}
    BY <1>13, <2>1, <2>2, <2>3
  <2> QED
    BY <2>1, <2>4 DEF DraftsArchived
<1>15. AuditMatchesArchive'
  <2>1. \A j \in Interviews : \A k \in DOMAIN archive'[j] :
          LET e == archive'[j][k] IN
          \/ \E m \in DOMAIN events' :
               /\ {l \in DOMAIN events' : events'[l].object = e.id} = {m}
               /\ events'[m].version = e.version
               /\ events'[m].operator = e.interviewer
               /\ events'[m].action = "interview.evaluation.submit" <=> e.version = 1
          \/ /\ {l \in DOMAIN events' : events'[l].object = e.id} = {}
             /\ \E v \in Workers : phase'[v] = "archived" /\ draft'[v].id = e.id
    <3> SUFFICES
          ASSUME NEW j \in Interviews, NEW k \in DOMAIN archive[j], NEW e, e = archive[j][k]
          PROVE  \/ \E m \in DOMAIN events' :
                      /\ {l \in DOMAIN events' : events'[l].object = e.id} = {m}
                      /\ events'[m].version = e.version
                      /\ events'[m].operator = e.interviewer
                      /\ events'[m].action = "interview.evaluation.submit" <=> e.version = 1
                 \/ /\ {l \in DOMAIN events' : events'[l].object = e.id} = {}
                    /\ \E v \in Workers : phase'[v] = "archived" /\ draft'[v].id = e.id
      BY <1>1
    <3>1. CASE e.id = draft[w].id
      <4>1. PICK x \in DOMAIN archive[draft[w].interview] :
              /\ archive[draft[w].interview][x].id = draft[w].id
              /\ archive[draft[w].interview][x].version = draft[w].version
              /\ archive[draft[w].interview][x].interviewer = draft[w].interviewer
        BY <1>1 DEF DraftsArchived
      <4>2. draft[w].interview \in Interviews
        BY <1>2 DEF ArchiveEntry
      <4>3. e.version = draft[w].version /\ e.interviewer = draft[w].interviewer
        BY <3>1, <4>1, <4>2 DEF IdsDiffer
      <4>4. draft[w].version \in Nat \ {0}
        <5>1. draft[w].version \in Nat
          BY <1>2 DEF ArchiveEntry
        <5>2. draft[w].version = Cardinality({m \in EntriesOf(j, e.interviewer) : m < k}) + 1
          BY <4>3 DEF VersionsInOrder
        <5>3. Cardinality({m \in EntriesOf(j, e.interviewer) : m < k}) \in Nat
          BY EntriesFinite
        <5> QED
          BY <5>1, <5>2, <5>3
      <4>5. event.action = "interview.evaluation.submit" <=> draft[w].version = 1
        BY <1>4, <4>4 DEF ActionOf
      <4>6. /\ n + 1 \in DOMAIN events'
            /\ {l \in DOMAIN events' : events'[l].object = e.id} = {n + 1}
        BY <1>5, <1>13, <3>1
      <4> QED
        BY <1>4, <1>5, <4>3, <4>5, <4>6
    <3>2. CASE e.id # draft[w].id
      <4>1. {l \in DOMAIN events' : events'[l].object = e.id} = EventsOf(e.id)
        BY <1>13, <3>2
      <4>2. \/ \E m \in DOMAIN events :
                 /\ EventsOf(e.id) = {m}
                 /\ events[m].version = e.version
                 /\ events[m].operator = e.interviewer
                 /\ events[m].action = "interview.evaluation.submit" <=> e.version = 1
            \/ /\ EventsOf(e.id) = {}
               /\ \E v \in Workers : phase[v] = "archived" /\ draft[v].id = e.id
        BY DEF AuditMatchesArchive
      <4>3. \A m \in DOMAIN events : m \in DOMAIN events' /\ events'[m] = events[m]
        BY <1>5, <1>6
      <4>4. \A v \in Workers : phase[v] = "archived" /\ draft[v].id = e.id
                                 => phase'[v] = "archived" /\ draft'[v].id = e.id
        BY <1>1, <3>2 DEF TypeOK
      <4> QED
        BY <4>1, <4>2, <4>3, <4>4
    <3> QED
      BY <3>1, <3>2
  <2>2. \A m \in DOMAIN events' :
          \E k \in DOMAIN archive'[events'[m].interview] :
            archive'[events'[m].interview][k].id = events'[m].object
    <3> SUFFICES ASSUME NEW m \in DOMAIN events'
                 PROVE  \E k \in DOMAIN archive[events'[m].interview] :
                          archive[events'[m].interview][k].id = events'[m].object
      BY <1>1
    <3>1. CASE m = n + 1
      <4>1. events'[m].object = draft[w].id /\ events'[m].interview = draft[w].interview
        BY <1>4, <1>5, <3>1
      <4>2. \E k \in DOMAIN archive[draft[w].interview] :
              archive[draft[w].interview][k].id = draft[w].id
        BY <1>1 DEF DraftsArchived
      <4> QED
        BY <4>1, <4>2
    <3>2. CASE m \in 1..n
      BY <1>5, <3>2 DEF AuditMatchesArchive
    <3> QED
      BY <1>5, <1>6, <3>1, <3>2
  <2> QED
    BY <2>1, <2>2 DEF AuditMatchesArchive, EventsOf
<1> QED
  BY <1>8, <1>9, <1>10, <1>11, <1>12, <1>14, <1>15

LEMMA StepIInv == IInv /\ [Next]_vars => IInv'
<1> SUFFICES ASSUME IInv, [Next]_vars
             PROVE  IInv'
  OBVIOUS
<1>1. ASSUME NEW i \in Interviews, NEW a \in Assignment, UpdateInterview(i, a)
      PROVE  IInv'
  BY <1>1, UpdateIInv
<1>2. ASSUME NEW w \in Workers, NEW i \in Interviews, NEW p \in Interviewers,
             BeginSubmit(w, i, p)
      PROVE  IInv'
  BY <1>2, BeginIInv
<1>3. ASSUME NEW w \in Workers, AddEvaluation(w)
      PROVE  IInv'
  BY <1>3, AddIInv
<1>4. ASSUME NEW w \in Workers, RecordEvaluation(w)
      PROVE  IInv'
  BY <1>4, RecordIInv
<1>5. ASSUME UNCHANGED vars
      PROVE  IInv'
  <2>1. IdsUsed' /\ IdsDiffer' /\ VersionsInOrder'
    BY <1>5, ArchiveStays DEF IInv, vars
  <2>2. TypeOK' /\ DraftsMade' /\ VersionsKnown' /\ OneVersionOfInterview'
    BY <1>5 DEF IInv, vars, TypeOK, DraftsMade, VersionsKnown, OneVersionOfInterview
  <2>3. DraftsArchived' /\ DraftsDiffer' /\ AuditMatchesArchive'
    BY <1>5 DEF IInv, vars, DraftsArchived, DraftsDiffer, AuditMatchesArchive, EventsOf
  <2> QED
    BY <2>1, <2>2, <2>3 DEF IInv
<1> QED
  BY <1>1, <1>2, <1>3, <1>4, <1>5 DEF Next

(* All the parts of IInv hold in every state of every behaviour. *)
THEOREM EvaluationInvariant == Spec => []IInv
BY InitIInv, StepIInv, PTL DEF Spec

(* Type correctness of the archive, the audit log and the requests. *)
THEOREM EvaluationTypeCorrect == Spec => []TypeOK
<1>1. IInv => TypeOK
  BY DEF IInv
<1> QED
  BY <1>1, EvaluationInvariant, PTL

(* However submissions interleave, the versions of an interviewer on an    *)
(* interview are 1, 2, 3 ... and the last one only is the latest           *)
(* (AddEvaluation supersedes, counts and stores in one critical section).  *)
THEOREM VersionsOrdered == Spec => []VersionsInOrder
<1>1. IInv => VersionsInOrder
  BY DEF IInv
<1> QED
  BY <1>1, EvaluationInvariant, PTL

(* An evaluation never mixes two versions of an interview, although the    *)
(* interview may change between SubmitEvaluation's check and its store.    *)
THEOREM NeverMixed == Spec => []OneVersionOfInterview
<1>1. IInv => OneVersionOfInterview
  BY DEF IInv
<1> QED
  BY <1>1, EvaluationInvariant, PTL

(* Archive and audit log, written one after the other by the handler, tell *)
(* of the same evaluations: each has one event with the right action, or   *)
(* its request has still to record it.                                     *)
THEOREM AuditComplete == Spec => []AuditMatchesArchive
<1>1. IInv => AuditMatchesArchive
  BY DEF IInv
<1> QED
  BY <1>1, EvaluationInvariant, PTL
-----------------------------------------------------------------------------
(* The audit log in the order of versions.  Of one interview and           *)
(* interviewer whose submissions never overlapped there is at most one     *)
(* draft; once archived it has the highest version, and those of the log   *)
(* are lower.                                                              *)
CountIn(a, i, p) == Cardinality({k \in DOMAIN a[i] : a[i][k].interviewer = p})

OneDraft ==
  \A v, w \in Workers :
    /\ v # w
    /\ phase[v] # "idle" /\ phase[w] # "idle"
    /\ draft[v].interview = draft[w].interview
    /\ draft[v].interviewer = draft[w].interviewer
    => <<draft[w].interview, draft[w].interviewer>> \in overlapped

DraftIsNewest ==
  \A w \in Workers :
    phase[w] = "archived" /\ <<draft[w].interview, draft[w].interviewer>> \notin overlapped
    => /\ draft[w].version = CountIn(archive, draft[w].interview, draft[w].interviewer)
       /\ \A n \in DOMAIN events :
            /\ events[n].interview = draft[w].interview
            /\ events[n].operator = draft[w].interviewer
            => events[n].version < draft[w].version

EventsCounted ==
  \A n \in DOMAIN events :
    <<events[n].interview, events[n].operator>> \notin overlapped
    => events[n].version <= CountIn(archive, events[n].interview, events[n].operator)

OrderInv == /\ OneDraft
            /\ DraftIsNewest
            /\ EventsCounted
            /\ AuditInVersionOrder

(* AddEvaluation counts one entry more for the draft's pair and no other. *)
LEMMA CountAdded ==
  ASSUME TypeOK, DraftsMade, NEW w \in Workers, AddEvaluation(w),
         NEW i, i = draft[w].interview, NEW p, p = draft[w].interviewer
  PROVE  /\ CountIn(archive, i, p) \in Nat
         /\ CountIn(archive', i, p) = CountIn(archive, i, p) + 1
         /\ \A j \in Interviews : \A q : ~ (j = i /\ q = p) => CountIn(archive', j, q) = CountIn(archive, j, q)
<1> SUFFICES ASSUME NEW n, n = Len(archive[i])
             PROVE  /\ CountIn(archive, i, p) \in Nat
                    /\ CountIn(archive', i, p) = CountIn(archive, i, p) + 1
                    /\ \A j \in Interviews : \A q :
                         ~ (j = i /\ q = p) => CountIn(archive', j, q) = CountIn(archive, j, q)
  OBVIOUS
<1>1. /\ i \in Interviews /\ p \in Interviewers /\ n \in Nat
      /\ DOMAIN archive[i] = 1..n
      /\ DOMAIN archive'[i] = 1..(n + 1)
      /\ archive' \in [Interviews -> Seq(ArchiveEntry)]
      /\ \A j \in Interviews : j # i => archive'[j] = archive[j]
      /\ archive'[i][n + 1] = draft'[w]
      /\ draft' = [draft EXCEPT ![w] = Stored(draft[w])]
  BY AddedArchive
<1>2. \A k \in 1..n : archive'[i][k].interviewer = archive[i][k].interviewer
  BY AddedFields
<1>3. archive'[i][n + 1].interviewer = p
  <2>1. draft[w] \in ArchiveEntry
    BY DEF AddEvaluation, DraftsMade
  <2>2. Stored(draft[w]).interviewer = p
    BY <2>1, StoredFields
  <2>3. draft'[w] = Stored(draft[w])
    BY <1>1 DEF TypeOK
  <2> QED
    BY <1>1, <2>2, <2>3
<1> DEFINE Before(j, q) == {k \in DOMAIN archive[j] : archive[j][k].interviewer = q}
           After(j, q) == {k \in DOMAIN archive'[j] : archive'[j][k].interviewer = q}
<1>4. /\ After(i, p) = Before(i, p) \cup {n + 1}
      /\ n + 1 \notin Before(i, p)
      /\ \A q : q # p => After(i, q) = Before(i, q)
  <2> DEFINE f == archive[i]
             g == archive'[i]
  <2>1. /\ DOMAIN f = 1..n /\ DOMAIN g = 1..(n + 1)
        /\ \A k \in 1..n : g[k].interviewer = f[k].interviewer
        /\ g[n + 1].interviewer = p
    BY <1>1, <1>2, <1>3
  <2>2. n \in Nat
    BY <1>1
  <2> HIDE DEF f, g
  <2>3. /\ DOMAIN g = DOMAIN f \cup {n + 1} /\ n + 1 \notin DOMAIN f
        /\ \A k \in DOMAIN f : g[k].interviewer = f[k].interviewer
        /\ g[n + 1].interviewer = p
    BY ONLY <2>1, <2>2
  <2>4. /\ {k \in DOMAIN g : g[k].interviewer = p}
             = {k \in DOMAIN f : f[k].interviewer = p} \cup {n + 1}
        /\ n + 1 \notin {k \in DOMAIN f : f[k].interviewer = p}
        /\ \A q : q # p => {k \in DOMAIN g : g[k].interviewer = q}
                             = {k \in DOMAIN f : f[k].interviewer = q}
    BY ONLY <2>3
  <2> QED
    BY <2>4 DEF f, g
<1>5. After(i, p) = Before(i, p) \cup {n + 1} /\ n + 1 \notin Before(i, p)
  BY <1>4
<1>6. \A q : q # p => After(i, q) = Before(i, q)
  BY <1>4
<1>7. \A j \in Interviews : \A q : j # i => After(j, q) = Before(j, q)
  <2> SUFFICES ASSUME NEW j \in Interviews, NEW q, j # i PROVE After(j, q) = Before(j, q)
    OBVIOUS
  <2>1. archive'[j] = archive[j]
    BY <1>1
  <2> QED
    BY <2>1
<1>8. IsFiniteSet(Before(i, p)) /\ Cardinality(Before(i, p)) \in Nat
  <2>1. Before(i, p) = EntriesOf(i, p)
    BY DEF EntriesOf
  <2>2. IsFiniteSet(EntriesOf(i, p)) /\ Cardinality(EntriesOf(i, p)) \in Nat
    BY ZenonT(60), <1>1, EntriesFinite
  <2> HIDE DEF Before
  <2> QED
    BY ONLY <2>1, <2>2
<1>9. Cardinality(Before(i, p) \cup {n + 1}) = Cardinality(Before(i, p)) + 1
  BY <1>5, <1>8, FS_AddElement
<1>10. /\ \A j, q : CountIn(archive, j, q) = Cardinality(Before(j, q))
       /\ \A j, q : CountIn(archive', j, q) = Cardinality(After(j, q))
  BY DEF CountIn
<1> HIDE DEF Before, After
<1>11. CountIn(archive', i, p) = CountIn(archive, i, p) + 1 /\ CountIn(archive, i, p) \in Nat
  BY <1>5, <1>8, <1>9, <1>10
<1>12. ASSUME NEW j \in Interviews, NEW q, ~ (j = i /\ q = p)
       PROVE  CountIn(archive', j, q) = CountIn(archive, j, q)
  <2>1. After(j, q) = Before(j, q)
    BY <1>6, <1>7, <1>12
  <2> QED
    BY <1>10, <2>1
<1> QED
  BY <1>11, <1>12

LEMMA InitOrder == Init => OrderInv
<1> SUFFICES ASSUME Init
             PROVE  OrderInv
  OBVIOUS
<1>1. DOMAIN events = {}
  BY DEF Init
<1> QED
  BY <1>1 DEF Init, OrderInv, OneDraft, DraftIsNewest, EventsCounted, AuditInVersionOrder

(* What an event or a draft speaks of. *)
LEMMA EventFields ==
  ASSUME TypeOK
  PROVE  \A n \in DOMAIN events : /\ events[n].interview \in Interviews
                                  /\ events[n].version \in Nat
<1> SUFFICES ASSUME NEW n \in DOMAIN events
             PROVE  events[n].interview \in Interviews /\ events[n].version \in Nat
  OBVIOUS
<1>1. events[n] \in AuditEvent
  BY LenProperties, ElementOfSeq DEF TypeOK
<1> QED
  BY <1>1 DEF AuditEvent

LEMMA BeginOrder ==
  ASSUME IInv, OrderInv, NEW w \in Workers, NEW i \in Interviews, NEW p \in Interviewers,
         BeginSubmit(w, i, p)
  PROVE  OrderInv'
<1> DEFINE made == [id |-> 0, interview |-> i, interviewer |-> p,
                    candidate |-> interviews[i].candidate, round |-> interviews[i].round,
                    version |-> 0, isLatest |-> FALSE]
<1>1. /\ phase' = [phase EXCEPT ![w] = "checked"]
      /\ draft' = [draft EXCEPT ![w] = made]
      /\ phase[w] = "idle"
      /\ overlapped' = overlapped \cup (IF InFlight(i, p) THEN {<<i, p>>} ELSE {})
      /\ UNCHANGED <<archive, events>>
  BY DEF BeginSubmit
<1>2. made.interview = i /\ made.interviewer = p
  OBVIOUS
<1> HIDE DEF made
<1>3. /\ draft'[w] = made /\ phase'[w] = "checked"
      /\ \A v \in Workers : v # w => draft'[v] = draft[v] /\ phase'[v] = phase[v]
  BY <1>1 DEF IInv, TypeOK
<1>4. overlapped \subseteq overlapped'
  BY <1>1
(* Another draft of the pair is in flight: the pair has overlapped. *)
<1>5. ASSUME NEW v \in Workers, v # w, phase'[v] # "idle",
             draft'[v].interview = i, draft'[v].interviewer = p
      PROVE  <<i, p>> \in overlapped'
  <2>1. InFlight(i, p)
    BY <1>3, <1>5 DEF InFlight
  <2> QED
    BY <1>1, <2>1
<1>6. OneDraft'
  <2> SUFFICES ASSUME NEW v \in Workers, NEW u \in Workers, v # u,
                      phase'[v] # "idle", phase'[u] # "idle",
                      draft'[v].interview = draft'[u].interview,
                      draft'[v].interviewer = draft'[u].interviewer
               PROVE  <<draft'[u].interview, draft'[u].interviewer>> \in overlapped'
    BY DEF OneDraft
  <2>1. CASE v = w
    BY <1>2, <1>3, <1>5, <2>1
  <2>2. CASE u = w
    BY <1>2, <1>3, <1>5, <2>2
  <2>3. CASE v # w /\ u # w
    BY <1>3, <1>4, <2>3 DEF OrderInv, OneDraft
  <2> QED
    BY <2>1, <2>2, <2>3
<1>7. DraftIsNewest'
  <2> SUFFICES ASSUME NEW v \in Workers, phase'[v] = "archived",
                      <<draft'[v].interview, draft'[v].interviewer>> \notin overlapped'
               PROVE  /\ draft'[v].version = CountIn(archive, draft'[v].interview, draft'[v].interviewer)
                      /\ \A n \in DOMAIN events :
                           /\ events[n].interview = draft'[v].interview
                           /\ events[n].operator = draft'[v].interviewer
                           => events[n].version < draft'[v].version
    BY <1>1 DEF DraftIsNewest
  <2>1. v # w /\ draft'[v] = draft[v] /\ phase[v] = "archived"
    BY <1>3
  <2> QED
    BY <1>4, <2>1 DEF OrderInv, DraftIsNewest
<1>8. EventsCounted' /\ AuditInVersionOrder'
  BY <1>1, <1>4 DEF OrderInv, EventsCounted, AuditInVersionOrder
<1> QED
  BY <1>6, <1>7, <1>8 DEF OrderInv

LEMMA AddOrder ==
  ASSUME IInv, OrderInv, NEW w \in Workers, AddEvaluation(w)
  PROVE  OrderInv'
<1> SUFFICES ASSUME NEW i, i = draft[w].interview, NEW p, p = draft[w].interviewer
             PROVE  OrderInv'
  OBVIOUS
<1>1. /\ TypeOK /\ DraftsMade /\ OneDraft /\ DraftIsNewest /\ EventsCounted
      /\ AuditInVersionOrder
  BY DEF IInv, OrderInv
<1>2. /\ CountIn(archive, i, p) \in Nat
      /\ CountIn(archive', i, p) = CountIn(archive, i, p) + 1
      /\ \A j \in Interviews : \A q : ~ (j = i /\ q = p) => CountIn(archive', j, q) = CountIn(archive, j, q)
  BY <1>1, CountAdded
<1>3. /\ phase[w] = "checked"
      /\ phase' = [phase EXCEPT ![w] = "archived"]
      /\ draft' = [draft EXCEPT ![w] = Stored(draft[w])]
      /\ UNCHANGED <<events, overlapped>>
  BY DEF AddEvaluation
<1>4. draft[w] \in ArchiveEntry
  BY <1>1, <1>3 DEF DraftsMade
<1>5. /\ draft'[w] = Stored(draft[w]) /\ phase'[w] = "archived"
      /\ \A v \in Workers : v # w => draft'[v] = draft[v] /\ phase'[v] = phase[v]
  BY <1>1, <1>3 DEF TypeOK
<1>6. /\ draft'[w].interview = i /\ draft'[w].interviewer = p
      /\ draft'[w].version = CountIn(archive, i, p) + 1
  BY <1>4, <1>5, StoredFields DEF CountIn, EntriesOf
<1>7. OneDraft'
  <2>1. \A v \in Workers : /\ draft'[v].interview = draft[v].interview
                           /\ draft'[v].interviewer = draft[v].interviewer
                           /\ phase'[v] # "idle" <=> phase[v] # "idle"
    BY <1>3, <1>5, <1>6
  <2> QED
    BY <1>1, <1>3, <2>1 DEF OneDraft
<1>8. DraftIsNewest'
  <2> SUFFICES ASSUME NEW v \in Workers, phase'[v] = "archived",
                      <<draft'[v].interview, draft'[v].interviewer>> \notin overlapped
               PROVE  /\ draft'[v].version = CountIn(archive', draft'[v].interview, draft'[v].interviewer)
                      /\ \A n \in DOMAIN events :
                           /\ events[n].interview = draft'[v].interview
                           /\ events[n].operator = draft'[v].interviewer
                           => events[n].version < draft'[v].version
    BY <1>3 DEF DraftIsNewest
  <2>1. CASE v = w
    <3>1. \A n \in DOMAIN events :
            events[n].interview = i /\ events[n].operator = p
            => events[n].version <= CountIn(archive, i, p) /\ events[n].version \in Nat
      BY <1>1, <1>6, <2>1, EventFields DEF EventsCounted
    <3>2. \A n \in DOMAIN events :
            events[n].interview = i /\ events[n].operator = p
            => events[n].version < CountIn(archive, i, p) + 1
      BY <1>2, <3>1
    <3> QED
      BY <1>2, <1>6, <2>1, <3>2
  <2>2. CASE v # w
    <3>1. draft'[v] = draft[v] /\ phase[v] = "archived"
      BY <1>5, <2>2
    <3>2. ~ (draft[v].interview = i /\ draft[v].interviewer = p)
      BY <1>1, <1>3, <2>2, <3>1 DEF OneDraft
    <3>3. draft[v].interview \in Interviews
      BY <1>1, <3>1 DEF DraftsMade, ArchiveEntry
    <3> QED
      BY <1>1, <1>2, <3>1, <3>2, <3>3 DEF DraftIsNewest
  <2> QED
    BY <2>1, <2>2
<1>9. EventsCounted'
  BY <1>1, <1>2, <1>3, EventFields DEF EventsCounted
<1>10. AuditInVersionOrder'
  BY <1>1, <1>3 DEF AuditInVersionOrder
<1> QED
  BY <1>7, <1>8, <1>9, <1>10 DEF OrderInv

LEMMA RecordOrder ==
  ASSUME IInv, OrderInv, NEW w \in Workers, RecordEvaluation(w)
  PROVE  OrderInv'
<1> SUFFICES ASSUME NEW n, n = Len(events),
                    NEW i, i = draft[w].interview, NEW p, p = draft[w].interviewer
             PROVE  OrderInv'
  OBVIOUS
<1>1. /\ TypeOK /\ DraftsMade /\ OneDraft /\ DraftIsNewest /\ EventsCounted
      /\ AuditInVersionOrder
  BY DEF IInv, OrderInv
<1> DEFINE event == [action |-> ActionOf(draft[w].version), object |-> draft[w].id,
                     interview |-> draft[w].interview,
                     operator |-> draft[w].interviewer, version |-> draft[w].version]
<1>2. /\ phase[w] = "archived"
      /\ events' = Append(events, event)
      /\ phase' = [phase EXCEPT ![w] = "idle"]
      /\ draft' = [draft EXCEPT ![w] = Nothing]
      /\ UNCHANGED <<archive, overlapped>>
  BY DEF RecordEvaluation
<1>3. draft[w] \in ArchiveEntry
  BY <1>1, <1>2 DEF DraftsMade
<1>4. event \in AuditEvent
  BY <1>3 DEF AuditEvent, ArchiveEntry, Actions, ActionOf
<1>5. /\ event.interview = i /\ event.operator = p
      /\ event.version = draft[w].version /\ event.version \in Nat
  BY <1>3 DEF ArchiveEntry
<1> HIDE DEF event
<1>6. /\ n \in Nat /\ DOMAIN events = 1..n /\ DOMAIN events' = 1..(n + 1)
      /\ \A m \in 1..n : events'[m] = events[m]
      /\ events'[n + 1] = event
  <2>1. events \in Seq(AuditEvent)
    BY <1>1 DEF TypeOK
  <2>2. /\ events' \in Seq(AuditEvent)
        /\ Len(events') = n + 1
        /\ \A m \in 1..n : events'[m] = events[m]
        /\ events'[n + 1] = event
    BY <1>2, <1>4, <2>1, AppendProperties
  <2> QED
    BY <2>1, <2>2, LenProperties
<1>7. 1..(n + 1) = 1..n \cup {n + 1}
  BY <1>6
<1>8. \A v \in Workers : phase'[v] # "idle" => v # w /\ phase'[v] = phase[v] /\ draft'[v] = draft[v]
  BY <1>1, <1>2 DEF TypeOK
<1>9. OneDraft'
  BY <1>1, <1>2, <1>8 DEF OneDraft
<1>10. DraftIsNewest'
  <2> SUFFICES ASSUME NEW v \in Workers, phase'[v] = "archived",
                      <<draft'[v].interview, draft'[v].interviewer>> \notin overlapped
               PROVE  /\ draft'[v].version
                           = CountIn(archive, draft'[v].interview, draft'[v].interviewer)
                      /\ \A m \in DOMAIN events' :
                           /\ events'[m].interview = draft'[v].interview
                           /\ events'[m].operator = draft'[v].interviewer
                           => events'[m].version < draft'[v].version
    BY <1>2 DEF DraftIsNewest
  <2>1. v # w /\ phase[v] = "archived" /\ draft'[v] = draft[v]
    BY <1>8
  <2>2. ~ (draft[v].interview = i /\ draft[v].interviewer = p)
    BY <1>1, <1>2, <2>1 DEF OneDraft
  <2>3. \A m \in 1..n :
          /\ events'[m].interview = draft'[v].interview
          /\ events'[m].operator = draft'[v].interviewer
          => events'[m].version < draft'[v].version
    BY <1>1, <1>6, <2>1 DEF DraftIsNewest
  <2> QED
    BY <1>1, <1>5, <1>6, <1>7, <2>1, <2>2, <2>3 DEF DraftIsNewest
(* The draft was the newest and is now the last in the log. *)
<1>11. <<i, p>> \notin overlapped
         => /\ event.version = CountIn(archive, i, p)
            /\ \A m \in 1..n : events[m].interview = i /\ events[m].operator = p
                                 => events[m].version < event.version
  BY <1>1, <1>2, <1>5, <1>6 DEF DraftIsNewest
<1>12. EventsCounted'
  <2> SUFFICES ASSUME NEW m \in 1..(n + 1),
                      <<events'[m].interview, events'[m].operator>> \notin overlapped
               PROVE  events'[m].version
                        <= CountIn(archive, events'[m].interview, events'[m].operator)
    BY <1>2, <1>6 DEF EventsCounted
  <2>1. CASE m \in 1..n
    BY <1>1, <1>6, <2>1 DEF EventsCounted
  <2>2. CASE m = n + 1
    <3>1. events'[m] = event /\ event.version = CountIn(archive, i, p)
      BY <1>5, <1>6, <1>11, <2>2
    <3>2. event.version <= event.version
      BY <1>5
    <3> QED
      BY <1>5, <3>1, <3>2
  <2> QED
    BY <1>7, <2>1, <2>2
<1>13. AuditInVersionOrder'
  <2> SUFFICES ASSUME NEW m \in 1..(n + 1), NEW l \in 1..(n + 1), m < l,
                      events'[m].interview = events'[l].interview,
                      events'[m].operator = events'[l].operator,
                      <<events'[m].interview, events'[m].operator>> \notin overlapped
               PROVE  events'[m].version < events'[l].version
    BY <1>2, <1>6 DEF AuditInVersionOrder
  <2>1. m \in 1..n
    BY <1>6
  <2>2. CASE l \in 1..n
    BY <1>1, <1>6, <2>1, <2>2 DEF AuditInVersionOrder
  <2>3. CASE l = n + 1
    BY <1>5, <1>6, <1>11, <2>1, <2>3
  <2> QED
    BY <1>7, <2>2, <2>3
<1> QED
  BY <1>9, <1>10, <1>12, <1>13 DEF OrderInv

LEMMA StepOrder == IInv /\ OrderInv /\ [Next]_vars => OrderInv'
<1> SUFFICES ASSUME IInv, OrderInv, [Next]_vars
             PROVE  OrderInv'
  OBVIOUS
<1>1. ASSUME UNCHANGED <<archive, events, phase, draft, overlapped>>
      PROVE  OrderInv'
  BY <1>1 DEF OrderInv, OneDraft, DraftIsNewest, EventsCounted, AuditInVersionOrder
<1>2. ASSUME NEW i \in Interviews, NEW a \in Assignment, UpdateInterview(i, a)
      PROVE  OrderInv'
  BY <1>1, <1>2 DEF UpdateInterview
<1>3. ASSUME NEW w \in Workers, NEW i \in Interviews, NEW p \in Interviewers,
             BeginSubmit(w, i, p)
      PROVE  OrderInv'
  BY <1>3, BeginOrder
<1>4. ASSUME NEW w \in Workers, AddEvaluation(w)
      PROVE  OrderInv'
  BY <1>4, AddOrder
<1>5. ASSUME NEW w \in Workers, RecordEvaluation(w)
      PROVE  OrderInv'
  BY <1>5, RecordOrder
<1>6. ASSUME UNCHANGED vars
      PROVE  OrderInv'
  BY <1>1, <1>6 DEF vars
<1> QED
  BY <1>2, <1>3, <1>4, <1>5, <1>6 DEF Next

(* The audit log tells the versions of an interviewer in order as long as  *)
(* the submissions of that interviewer on that interview do not overlap:   *)
(* archive and log are written in two critical sections, and what happens  *)
(* in between to other interviews and interviewers does not matter.        *)
THEOREM AuditOrdered == Spec => []AuditInVersionOrder
<1>1. IInv /\ OrderInv => AuditInVersionOrder
  BY DEF OrderInv
<1>2. Init => OrderInv
  BY InitOrder
<1> QED
  BY <1>1, <1>2, StepOrder, EvaluationInvariant, PTL DEF Spec
-----------------------------------------------------------------------------
(* The dashboard, composed with the evaluations.  It reads the archive     *)
(* piece by piece while it changes.  Each evaluation is in the archive of  *)
(* its interview, and only interviews that were created are evaluated.     *)
ArchivedAtHome ==
  \A i \in Interviews : \A k \in DOMAIN archive[i] : archive[i][k].interview = i

OnlyOfCreated ==
  /\ created \subseteq Interviews
  /\ listed \subseteq created
  /\ \A i \in Interviews : DOMAIN archive[i] # {} => i \in created
  /\ \A w \in Workers : phase[w] # "idle" => draft[w].interview \in created

(* Between two dashboards nothing is kept; and what was read of a          *)
(* candidate was read in one step, after which it is not unread.           *)
NothingKept == step = "idle" => collected = {} /\ touched = {}

ReadOnce ==
  /\ \A e \in collected : e.candidate \notin unread
  /\ \A d, e \in collected :
       /\ d.interview = e.interview
       /\ d.interviewer = e.interviewer
       /\ d.candidate = e.candidate
       => d = e

(* What was read of an untouched pair is what the archive has, as far as   *)
(* the candidates have been read.                                          *)
UntouchedAsArchived ==
  \A i \in Interviews, p \in Interviewers : <<i, p>> \notin touched =>
    /\ \A e \in collected : e.interview = i /\ e.interviewer = p =>
         \E k \in EntriesOf(i, p) : archive[i][k] = e /\ archive[i][k].isLatest
    /\ step # "idle" =>
         \A k \in EntriesOf(i, p) :
           archive[i][k].isLatest /\ archive[i][k].candidate \notin unread =>
             archive[i][k] \in collected

ListedOrTouched ==
  step \in {"reading", "built"} =>
    \A i \in Interviews, p \in Interviewers :
      EntriesOf(i, p) # {} => i \in listed \/ <<i, p>> \in touched

WorkloadCounts ==
  step = "built" =>
    /\ unread = {}
    /\ \A p \in Interviewers : workload[p] = Cardinality(Counted(p))

DashboardInv == /\ ArchivedAtHome
                /\ OnlyOfCreated
                /\ NothingKept
                /\ ReadOnce
                /\ UntouchedAsArchived
                /\ ListedOrTouched
                /\ WorkloadCounts

LEMMA ArchiveEntries ==
  ASSUME TypeOK
  PROVE  \A i \in Interviews : \A k \in DOMAIN archive[i] :
           archive[i][k] \in ArchiveEntry /\ k \in Nat
BY LenProperties, ElementOfSeq DEF TypeOK

(* The dashboard changes nothing the evaluations are made of. *)
LEMMA DashboardStep == OnlyOfCreated /\ [DashboardNext]_dashboardVars => [Next]_vars
<1> SUFFICES ASSUME OnlyOfCreated, DashboardNext
             PROVE  [Next]_vars
  BY DEF dashboardVars
<1>1. CASE ListCandidates \/ ListInterviews \/ BuildDashboard \/ Answer
  BY <1>1 DEF ListCandidates, ListInterviews, BuildDashboard, Answer
<1>2. CASE \E c \in Candidates : ReadEvaluations(c)
  BY <1>2 DEF ReadEvaluations
<1>3. CASE \E i \in Interviews : CreateInterview(i)
  BY <1>3 DEF CreateInterview
<1>4. CASE \E w \in Workers : Evaluate(w)
  BY <1>4 DEF Evaluate, Next
<1>5. CASE Meanwhile
  BY <1>5 DEF Meanwhile, Next, OnlyOfCreated
<1> QED
  BY <1>1, <1>2, <1>3, <1>4, <1>5 DEF DashboardNext

LEMMA InitDashboard == DashboardInit => DashboardInv
<1> SUFFICES ASSUME DashboardInit
             PROVE  DashboardInv
  OBVIOUS
<1>1. \A i \in Interviews : DOMAIN archive[i] = {}
  BY DEF DashboardInit, Init
<1>2. /\ created = {} /\ listed = {} /\ step = "idle" /\ collected = {} /\ touched = {}
      /\ \A w \in Workers : phase[w] = "idle"
  BY DEF DashboardInit, Init
<1>3. ArchivedAtHome /\ OnlyOfCreated /\ NothingKept /\ ReadOnce
  BY <1>1, <1>2 DEF ArchivedAtHome, OnlyOfCreated, NothingKept, ReadOnce
<1>4. UntouchedAsArchived /\ ListedOrTouched /\ WorkloadCounts
  BY <1>2 DEF UntouchedAsArchived, ListedOrTouched, WorkloadCounts
<1> QED
  BY <1>3, <1>4 DEF DashboardInv

LEMMA ListCandidatesInv ==
  ASSUME TypeOK, DashboardInv, ListCandidates
  PROVE  DashboardInv'
<1>1. /\ step = "idle" /\ step' = "candidates" /\ unread' = Candidates
      /\ UNCHANGED <<archive, phase, draft, created, listed, collected, workload, touched>>
  BY DEF ListCandidates, vars
<1>2. collected = {}
  BY <1>1 DEF DashboardInv, NothingKept
<1>3. (ArchivedAtHome /\ OnlyOfCreated)'
  BY <1>1 DEF DashboardInv, ArchivedAtHome, OnlyOfCreated
<1>4. (NothingKept /\ ReadOnce /\ ListedOrTouched /\ WorkloadCounts)'
  BY <1>1, <1>2 DEF NothingKept, ReadOnce, ListedOrTouched, WorkloadCounts
<1>5. \A i \in Interviews : \A k \in DOMAIN archive[i] : archive[i][k].candidate \in Candidates
  BY ArchiveEntries DEF ArchiveEntry
<1>6. UntouchedAsArchived'
  BY <1>1, <1>2, <1>5 DEF UntouchedAsArchived, EntriesOf
<1> QED
  BY <1>3, <1>4, <1>6 DEF DashboardInv

LEMMA ListInterviewsInv ==
  ASSUME TypeOK, DashboardInv, ListInterviews
  PROVE  DashboardInv'
<1>1. /\ step = "candidates" /\ step' = "reading" /\ listed' = created
      /\ UNCHANGED <<archive, phase, draft, created, unread, collected, workload, touched>>
  BY DEF ListInterviews, vars
<1>2. (ArchivedAtHome /\ OnlyOfCreated)'
  BY <1>1 DEF DashboardInv, ArchivedAtHome, OnlyOfCreated
<1>3. (NothingKept /\ ReadOnce /\ WorkloadCounts)'
  BY <1>1 DEF DashboardInv, NothingKept, ReadOnce, WorkloadCounts
<1>4. ListedOrTouched'
  BY <1>1 DEF DashboardInv, OnlyOfCreated, ListedOrTouched, EntriesOf
<1>5. UntouchedAsArchived'
  BY <1>1 DEF DashboardInv, UntouchedAsArchived, EntriesOf
<1> QED
  BY <1>2, <1>3, <1>4, <1>5 DEF DashboardInv

LEMMA BuildInv ==
  ASSUME TypeOK, DashboardInv, BuildDashboard
  PROVE  DashboardInv'
<1>1. /\ step = "reading" /\ step' = "built" /\ unread = {}
      /\ workload' = [p \in Interviewers |-> Cardinality(Counted(p))]
      /\ UNCHANGED <<archive, phase, draft, created, listed, unread, collected, touched>>
  BY DEF BuildDashboard, vars
<1>2. (ArchivedAtHome /\ OnlyOfCreated)'
  BY <1>1 DEF DashboardInv, ArchivedAtHome, OnlyOfCreated
<1>3. (NothingKept /\ ReadOnce)'
  BY <1>1 DEF DashboardInv, NothingKept, ReadOnce
<1>4. WorkloadCounts'
  BY <1>1 DEF WorkloadCounts, Counted
<1>5. (UntouchedAsArchived /\ ListedOrTouched)'
  BY <1>1 DEF DashboardInv, UntouchedAsArchived, ListedOrTouched, EntriesOf
<1> QED
  BY <1>2, <1>3, <1>4, <1>5 DEF DashboardInv

LEMMA AnswerInv ==
  ASSUME TypeOK, DashboardInv, Answer
  PROVE  DashboardInv'
<1>1. /\ step' = "idle" /\ listed' = {} /\ collected' = {} /\ touched' = {}
      /\ UNCHANGED <<archive, phase, draft, created, unread>>
  BY DEF Answer, vars
<1>2. (ArchivedAtHome /\ OnlyOfCreated)'
  BY <1>1 DEF DashboardInv, ArchivedAtHome, OnlyOfCreated
<1>3. (NothingKept /\ ReadOnce /\ UntouchedAsArchived /\ ListedOrTouched /\ WorkloadCounts)'
  BY <1>1 DEF NothingKept, ReadOnce, UntouchedAsArchived, ListedOrTouched, WorkloadCounts
<1> QED
  BY <1>2, <1>3 DEF DashboardInv

LEMMA CreateInv ==
  ASSUME TypeOK, DashboardInv, NEW i \in Interviews, CreateInterview(i)
  PROVE  DashboardInv'
<1>1. /\ created' = created \cup {i}
      /\ UNCHANGED <<archive, phase, draft, step, listed, unread, collected, workload, touched>>
  BY DEF CreateInterview, vars, readVars
<1>2. (ArchivedAtHome /\ OnlyOfCreated)'
  BY <1>1 DEF DashboardInv, ArchivedAtHome, OnlyOfCreated
<1>3. (NothingKept /\ ReadOnce)'
  BY <1>1 DEF DashboardInv, NothingKept, ReadOnce
<1>4. (UntouchedAsArchived /\ ListedOrTouched)'
  BY <1>1 DEF DashboardInv, UntouchedAsArchived, ListedOrTouched, EntriesOf
<1>5. WorkloadCounts'
  BY <1>1 DEF DashboardInv, WorkloadCounts, Counted
<1> QED
  BY <1>2, <1>3, <1>4, <1>5 DEF DashboardInv

LEMMA MeanwhileInv ==
  ASSUME TypeOK, DashboardInv, Meanwhile
  PROVE  DashboardInv'
<1>1. UNCHANGED <<archive, created, step, listed, unread, collected, workload, touched>>
  BY DEF Meanwhile, UpdateInterview, BeginSubmit, RecordEvaluation, readVars
<1>2. (ArchivedAtHome /\ NothingKept /\ ReadOnce)'
  BY <1>1 DEF DashboardInv, ArchivedAtHome, NothingKept, ReadOnce
<1>3. (UntouchedAsArchived /\ ListedOrTouched)'
  BY <1>1 DEF DashboardInv, UntouchedAsArchived, ListedOrTouched, EntriesOf
<1>4. WorkloadCounts'
  BY <1>1 DEF DashboardInv, WorkloadCounts, Counted
<1>5. \A w \in Workers : phase'[w] # "idle" => draft'[w].interview \in created
  <2>1. CASE \E i \in created, a \in Assignment : UpdateInterview(i, a)
    BY <2>1 DEF UpdateInterview, DashboardInv, OnlyOfCreated
  <2>2. ASSUME NEW w \in Workers, NEW i \in created, NEW p \in Interviewers,
               BeginSubmit(w, i, p)
        PROVE  \A v \in Workers : phase'[v] # "idle" => draft'[v].interview \in created
    <3>1. \A v \in Workers : /\ v # w => phase'[v] = phase[v] /\ draft'[v] = draft[v]
                             /\ v = w => draft'[v].interview = i
      BY <2>2 DEF BeginSubmit, TypeOK
    <3> QED
      BY <3>1 DEF DashboardInv, OnlyOfCreated
  <2>3. ASSUME NEW w \in Workers, RecordEvaluation(w)
        PROVE  \A v \in Workers : phase'[v] # "idle" => draft'[v].interview \in created
    <3>1. \A v \in Workers : /\ v # w => phase'[v] = phase[v] /\ draft'[v] = draft[v]
                             /\ v = w => phase'[v] = "idle"
      BY <2>3 DEF RecordEvaluation, TypeOK
    <3> QED
      BY <3>1 DEF DashboardInv, OnlyOfCreated
  <2> QED
    BY <2>1, <2>2, <2>3 DEF Meanwhile
<1>6. OnlyOfCreated'
  BY <1>1, <1>5 DEF DashboardInv, OnlyOfCreated
<1> QED
  BY <1>2, <1>3, <1>4, <1>6 DEF DashboardInv
(* The latest evaluations of a candidate, as entries of the archive; the   *)
(* archive has at most one latest of each interviewer on an interview.     *)
LEMMA LatestMember ==
  ASSUME NEW c, NEW e
  PROVE  e \in LatestOf(c)
           <=> \E i \in Interviews : \E k \in DOMAIN archive[i] :
                 e = archive[i][k] /\ e.candidate = c /\ e.isLatest
BY DEF LatestOf

LEMMA OneLatest ==
  ASSUME TypeOK, VersionsInOrder, NEW i \in Interviews,
         NEW k \in DOMAIN archive[i], NEW l \in DOMAIN archive[i],
         archive[i][k].isLatest, archive[i][l].isLatest,
         archive[i][k].interviewer = archive[i][l].interviewer
  PROVE  k = l
<1>1. k \in EntriesOf(i, archive[i][l].interviewer)
  BY DEF EntriesOf
<1>2. l \in EntriesOf(i, archive[i][k].interviewer)
  BY DEF EntriesOf
<1>3. k <= l /\ l <= k
  BY <1>1, <1>2 DEF VersionsInOrder
<1>4. k \in Nat /\ l \in Nat
  BY ArchiveEntries
<1> QED
  BY <1>3, <1>4

LEMMA ReadInv ==
  ASSUME TypeOK, VersionsInOrder, DashboardInv, NEW c \in Candidates, ReadEvaluations(c)
  PROVE  DashboardInv'
<1>1. /\ step = "reading" /\ c \in unread
      /\ collected' = collected \cup LatestOf(c)
      /\ unread' = unread \ {c}
      /\ UNCHANGED <<archive, phase, draft, created, step, listed, workload, touched>>
  BY DEF ReadEvaluations, vars
<1>2. (ArchivedAtHome /\ OnlyOfCreated)'
  BY <1>1 DEF DashboardInv, ArchivedAtHome, OnlyOfCreated
<1>3. (NothingKept /\ ListedOrTouched /\ WorkloadCounts)'
  BY <1>1 DEF DashboardInv, NothingKept, ListedOrTouched, WorkloadCounts, EntriesOf
<1>4. \A e \in LatestOf(c) : e.candidate = c
  BY LatestMember
<1>5. ReadOnce'
  <2>1. \A e \in collected' : e.candidate \notin unread'
    BY <1>1, <1>4 DEF DashboardInv, ReadOnce
  <2>2. ASSUME NEW d \in collected', NEW e \in collected', d.interview = e.interview,
               d.interviewer = e.interviewer, d.candidate = e.candidate
        PROVE  d = e
    <3>1. CASE d \in collected /\ e \in collected
      BY <2>2, <3>1 DEF DashboardInv, ReadOnce
    <3>2. CASE d \in LatestOf(c) /\ e \in LatestOf(c)
      <4>1. PICK i \in Interviews : \E k \in DOMAIN archive[i] : d = archive[i][k] /\ d.isLatest
        BY <3>2, LatestMember
      <4>2. PICK j \in Interviews : \E k \in DOMAIN archive[j] : e = archive[j][k] /\ e.isLatest
        BY <3>2, LatestMember
      <4>3. i = j
        BY <2>2, <4>1, <4>2 DEF DashboardInv, ArchivedAtHome
      <4> QED
        BY <2>2, <4>1, <4>2, <4>3, OneLatest
    <3>3. CASE d \in collected /\ e \in LatestOf(c)
      BY <1>1, <1>4, <2>2, <3>3 DEF DashboardInv, ReadOnce
    <3>4. CASE d \in LatestOf(c) /\ e \in collected
      BY <1>1, <1>4, <2>2, <3>4 DEF DashboardInv, ReadOnce
    <3> QED
      BY <1>1, <3>1, <3>2, <3>3, <3>4
  <2> QED
    BY <2>1, <2>2 DEF ReadOnce
<1>6. UntouchedAsArchived'
  <2> SUFFICES ASSUME NEW i \in Interviews, NEW p \in Interviewers, <<i, p>> \notin touched
               PROVE  /\ \A e \in collected' : e.interview = i /\ e.interviewer = p =>
                           \E k \in EntriesOf(i, p) : archive[i][k] = e /\ archive[i][k].isLatest
                      /\ \A k \in EntriesOf(i, p) :
                           archive[i][k].isLatest /\ archive[i][k].candidate \notin unread' =>
                             archive[i][k] \in collected'
    BY <1>1 DEF UntouchedAsArchived, EntriesOf
  <2>1. ASSUME NEW e \in collected', e.interview = i, e.interviewer = p
        PROVE  \E k \in EntriesOf(i, p) : archive[i][k] = e /\ archive[i][k].isLatest
    <3>1. CASE e \in collected
      BY <2>1, <3>1 DEF DashboardInv, UntouchedAsArchived
    <3>2. CASE e \in LatestOf(c)
      <4>1. PICK j \in Interviews :
              \E k \in DOMAIN archive[j] : e = archive[j][k] /\ e.isLatest
        BY <3>2, LatestMember
      <4>2. j = i
        BY <2>1, <4>1 DEF DashboardInv, ArchivedAtHome
      <4> QED
        BY <2>1, <4>1, <4>2 DEF EntriesOf
    <3> QED
      BY <1>1, <3>1, <3>2
  <2>2. ASSUME NEW k \in EntriesOf(i, p), archive[i][k].isLatest,
               archive[i][k].candidate \notin unread'
        PROVE  archive[i][k] \in collected'
    <3>1. CASE archive[i][k].candidate = c
      <4>1. k \in DOMAIN archive[i]
        BY DEF EntriesOf
      <4>2. archive[i][k] \in LatestOf(c)
        BY <2>2, <3>1, <4>1, LatestMember
      <4> QED
        BY <1>1, <4>2
    <3>2. CASE archive[i][k].candidate # c
      BY <1>1, <2>2, <3>2 DEF DashboardInv, UntouchedAsArchived
    <3> QED
      BY <3>1, <3>2
  <2> QED
    BY <2>1, <2>2
<1> QED
  BY <1>2, <1>3, <1>5, <1>6 DEF DashboardInv

LEMMA EvaluateInv ==
  ASSUME TypeOK, DraftsMade, DashboardInv, NEW w \in Workers, Evaluate(w)
  PROVE  DashboardInv'
<1> SUFFICES ASSUME NEW i, i = draft[w].interview, NEW p, p = draft[w].interviewer,
                    NEW n, n = Len(archive[i])
             PROVE  DashboardInv'
  OBVIOUS
<1>1. /\ AddEvaluation(w)
      /\ touched' = IF step = "idle" THEN {} ELSE touched \cup {<<i, p>>}
      /\ UNCHANGED <<created, step, listed, unread, collected, workload>>
  BY DEF Evaluate, readVars
<1>2. /\ i \in Interviews /\ p \in Interviewers /\ n \in Nat
      /\ DOMAIN archive[i] = 1..n
      /\ DOMAIN archive'[i] = 1..(n + 1)
      /\ \A j \in Interviews : j # i => archive'[j] = archive[j]
      /\ \A k \in 1..n :
           /\ archive[i][k] \in ArchiveEntry
           /\ archive'[i][k] = IF archive[i][k].interviewer = p
                               THEN [archive[i][k] EXCEPT !.isLatest = FALSE]
                               ELSE archive[i][k]
      /\ archive'[i][n + 1] = draft'[w]
      /\ draft' = [draft EXCEPT ![w] = Stored(draft[w])]
  BY <1>1, AddedArchive
<1>3. draft[w] \in ArchiveEntry /\ phase[w] = "checked"
  BY <1>1 DEF AddEvaluation, DraftsMade
<1>4. /\ draft'[w].interview = i /\ draft'[w].interviewer = p
      /\ \A v \in Workers : v # w => draft'[v] = draft[v]
  BY <1>2, <1>3, StoredFields DEF TypeOK
<1>5. ASSUME NEW e \in ArchiveEntry
      PROVE  LET s == [e EXCEPT !.isLatest = FALSE]
             IN s.interview = e.interview /\ s.interviewer = e.interviewer
  BY DEF ArchiveEntry
<1>6. \A k \in 1..n : /\ archive'[i][k].interview = archive[i][k].interview
                      /\ archive'[i][k].interviewer = archive[i][k].interviewer
  <2> SUFFICES ASSUME NEW k \in 1..n
               PROVE  /\ archive'[i][k].interview = archive[i][k].interview
                      /\ archive'[i][k].interviewer = archive[i][k].interviewer
    OBVIOUS
  <2> DEFINE e == archive[i][k]
             s == archive'[i][k]
  <2>1. e \in ArchiveEntry /\ (s = [e EXCEPT !.isLatest = FALSE] \/ s = e)
    BY <1>2
  <2> HIDE DEF e, s
  <2>2. s.interview = e.interview /\ s.interviewer = e.interviewer
    BY <1>5, <2>1
  <2> QED
    BY <2>2 DEF e, s
<1>7. 1..(n + 1) = 1..n \cup {n + 1} /\ n + 1 \notin 1..n
  <2>1. n \in Nat
    BY <1>2
  <2> QED
    BY ONLY <2>1
<1>8. ArchivedAtHome'
  <2> SUFFICES ASSUME NEW j \in Interviews, NEW k \in DOMAIN archive'[j]
               PROVE  archive'[j][k].interview = j
    BY DEF ArchivedAtHome
  <2>1. CASE j # i
    BY <1>2, <2>1 DEF DashboardInv, ArchivedAtHome
  <2>2. CASE j = i /\ k \in 1..n
    <3>1. k \in DOMAIN archive[i] /\ i \in Interviews
      BY <1>2, <2>2
    <3>2. archive[i][k].interview = i
      BY <3>1 DEF DashboardInv, ArchivedAtHome
    <3> QED
      BY <1>6, <2>2, <3>2
  <2>3. CASE j = i /\ k = n + 1
    BY <1>2, <1>4, <2>3
  <2> QED
    BY <1>2, <1>7, <2>1, <2>2, <2>3
<1>9. OnlyOfCreated'
  <2>1. i \in created
    BY <1>3 DEF DashboardInv, OnlyOfCreated
  <2>2. \A v \in Workers : phase'[v] # "idle" => draft'[v].interview \in created
    <3>1. \A v \in Workers : v # w => phase'[v] = phase[v]
      BY <1>1 DEF AddEvaluation, TypeOK
    <3> QED
      BY <1>4, <2>1, <3>1 DEF DashboardInv, OnlyOfCreated
  <2>3. \A j \in Interviews : DOMAIN archive'[j] # {} => j \in created
    BY <1>2, <2>1 DEF DashboardInv, OnlyOfCreated
  <2> QED
    BY <1>1, <2>2, <2>3 DEF DashboardInv, OnlyOfCreated
<1>10. (NothingKept /\ ReadOnce /\ WorkloadCounts)'
  BY <1>1 DEF DashboardInv, NothingKept, ReadOnce, WorkloadCounts, Counted
(* The entries of every other pair stay as they are. *)
<1>11. ASSUME NEW j \in Interviews, NEW q \in Interviewers, <<j, q>> # <<i, p>>
       PROVE  /\ EntriesOf(j, q)' = EntriesOf(j, q)
              /\ \A k \in EntriesOf(j, q) : archive'[j][k] = archive[j][k]
  <2>1. CASE j # i
    BY <1>2, <2>1 DEF EntriesOf
  <2>2. CASE j = i /\ q # p
    <3>1. \A k \in 1..(n + 1) : archive'[i][k].interviewer = q
                                  <=> k \in 1..n /\ archive[i][k].interviewer = q
      BY <1>2, <1>4, <1>6, <1>7, <2>2
    <3>2. EntriesOf(i, q)' = EntriesOf(i, q)
      <4>1. /\ DOMAIN archive[i] = 1..n /\ DOMAIN archive'[i] = 1..(n + 1)
            /\ 1..n \subseteq 1..(n + 1)
        BY <1>2, <1>7
      <4> QED
        BY <3>1, <4>1, Zenon DEF EntriesOf
    <3>3. \A k \in EntriesOf(i, q) : archive'[i][k] = archive[i][k]
      BY <1>2, <2>2 DEF EntriesOf
    <3> QED
      BY <2>2, <3>2, <3>3
  <2> QED
    BY <1>11, <2>1, <2>2
<1>12. CASE step = "idle"
  <2>1. touched' = {} /\ collected' = {} /\ step' = "idle"
    BY <1>1, <1>12 DEF DashboardInv, NothingKept
  <2>2. (UntouchedAsArchived /\ ListedOrTouched)'
    BY <2>1 DEF UntouchedAsArchived, ListedOrTouched
  <2> QED
    BY <1>8, <1>9, <1>10, <2>2 DEF DashboardInv
<1>13. CASE step # "idle"
  <2>1. touched' = touched \cup {<<i, p>>}
    BY <1>1, <1>13
  <2>2. UntouchedAsArchived'
    <3> SUFFICES ASSUME NEW j \in Interviews, NEW q \in Interviewers, <<j, q>> \notin touched'
                 PROVE  /\ \A e \in collected : e.interview = j /\ e.interviewer = q =>
                             \E k \in EntriesOf(j, q)' :
                               archive'[j][k] = e /\ archive'[j][k].isLatest
                        /\ \A k \in EntriesOf(j, q)' :
                             archive'[j][k].isLatest /\ archive'[j][k].candidate \notin unread =>
                               archive'[j][k] \in collected
      BY <1>1 DEF UntouchedAsArchived
    <3>1. <<j, q>> \notin touched /\ <<j, q>> # <<i, p>>
      BY <2>1
    <3>2. /\ EntriesOf(j, q)' = EntriesOf(j, q)
          /\ \A k \in EntriesOf(j, q) : archive'[j][k] = archive[j][k]
      BY <1>11, <3>1
    <3>3. /\ \A e \in collected : e.interview = j /\ e.interviewer = q =>
               \E k \in EntriesOf(j, q) : archive[j][k] = e /\ archive[j][k].isLatest
          /\ \A k \in EntriesOf(j, q) :
               archive[j][k].isLatest /\ archive[j][k].candidate \notin unread =>
                 archive[j][k] \in collected
      BY <1>13, <3>1 DEF DashboardInv, UntouchedAsArchived
    <3> QED
      BY <3>2, <3>3
  <2>3. ListedOrTouched'
    <3> SUFFICES ASSUME step \in {"reading", "built"},
                        NEW j \in Interviews, NEW q \in Interviewers,
                        EntriesOf(j, q)' # {}, <<j, q>> \notin touched'
                 PROVE  j \in listed
      BY <1>1 DEF ListedOrTouched
    <3>1. <<j, q>> \notin touched /\ <<j, q>> # <<i, p>>
      BY <2>1
    <3> QED
      BY <1>11, <3>1 DEF DashboardInv, ListedOrTouched
  <2> QED
    BY <1>8, <1>9, <1>10, <2>2, <2>3 DEF DashboardInv
<1> QED
  BY <1>12, <1>13

LEMMA StepDashboardInv ==
  ASSUME IInv, DashboardInv, [DashboardNext]_dashboardVars
  PROVE  DashboardInv'
<1>1. TypeOK /\ VersionsInOrder /\ DraftsMade
  BY DEF IInv
<1>2. CASE ListCandidates
  BY <1>1, <1>2, ListCandidatesInv
<1>3. CASE ListInterviews
  BY <1>1, <1>3, ListInterviewsInv
<1>4. ASSUME NEW c \in Candidates, ReadEvaluations(c)
      PROVE  DashboardInv'
  BY <1>1, <1>4, ReadInv
<1>5. CASE BuildDashboard
  BY <1>1, <1>5, BuildInv
<1>6. CASE Answer
  BY <1>1, <1>6, AnswerInv
<1>7. ASSUME NEW i \in Interviews, CreateInterview(i)
      PROVE  DashboardInv'
  BY <1>1, <1>7, CreateInv
<1>8. ASSUME NEW w \in Workers, Evaluate(w)
      PROVE  DashboardInv'
  BY <1>1, <1>8, EvaluateInv
<1>9. CASE Meanwhile
  BY <1>1, <1>9, MeanwhileInv
<1>10. CASE UNCHANGED dashboardVars
  BY <1>10 DEF dashboardVars, vars, readVars, DashboardInv, ArchivedAtHome, OnlyOfCreated,
     NothingKept, ReadOnce, UntouchedAsArchived, ListedOrTouched, WorkloadCounts,
     EntriesOf, Counted
<1> QED
  BY <1>2, <1>3, <1>4, <1>5, <1>6, <1>7, <1>8, <1>9, <1>10 DEF DashboardNext
(* A set of positions that is not empty has a last one.                    *)
LEMMA Greatest ==
  ASSUME NEW n \in Nat, NEW S, S \subseteq 1..n, S # {}
  PROVE  \E k \in S : \A l \in S : l <= k
<1> DEFINE From(k) == {m \in 1..n : k <= m}
           T == {From(k) : k \in S}
           R == StrictSubsetOrdering(1..n)
<1>1. IsFiniteSet(1..n)
  BY FS_Interval
<1>2. IsWellFoundedOn(R, FiniteSubsetsOf(1..n))
  BY FS_StrictSubsetOrderingWellFounded
<1>3. T \subseteq FiniteSubsetsOf(1..n) /\ T # {}
  <2>1. \A k \in S : From(k) \subseteq 1..n
    OBVIOUS
  <2>2. \A k \in S : IsFiniteSet(From(k))
    <3> HIDE DEF From
    <3> QED
      BY <1>1, <2>1, FS_Subset
  <2> QED
    BY <2>1, <2>2 DEF FiniteSubsetsOf
<1>4. PICK x \in T : \A y \in T : <<y, x>> \notin R
  <2> HIDE DEF T, R
  <2> QED
    BY <1>2, <1>3, WFMin
<1>5. PICK k \in S : x = From(k)
  BY <1>4
<1>6. ASSUME NEW l \in S, ~ (l <= k)
      PROVE  FALSE
  <2>1. From(l) \subseteq From(k) /\ From(l) # From(k)
    BY <1>6
  <2>2. <<From(l), From(k)>> \in R
    BY <2>1 DEF StrictSubsetOrdering
  <2> QED
    BY <1>4, <1>5, <2>2
<1> QED
  BY <1>6

LEMMA LatestExists ==
  ASSUME TypeOK, VersionsInOrder, NEW i \in Interviews, NEW p, EntriesOf(i, p) # {}
  PROVE  \E k \in EntriesOf(i, p) : archive[i][k].isLatest
<1>1. archive[i] \in Seq(ArchiveEntry)
  BY DEF TypeOK
<1> DEFINE n == Len(archive[i])
<1>2. n \in Nat /\ DOMAIN archive[i] = 1..n
  BY <1>1, LenProperties
<1>3. EntriesOf(i, p) \subseteq 1..n
  BY <1>2 DEF EntriesOf
<1> HIDE DEF n
<1>4. PICK k \in EntriesOf(i, p) : \A l \in EntriesOf(i, p) : l <= k
  BY <1>2, <1>3, Greatest
<1>5. k \in DOMAIN archive[i] /\ archive[i][k].interviewer = p
  BY DEF EntriesOf
<1>6. archive[i][k].isLatest
  BY <1>4, <1>5 DEF VersionsInOrder
<1> QED
  BY <1>6

(* Of an untouched pair the dashboard counts the latest evaluation, if any. *)
LEMMA UntouchedPair ==
  ASSUME TypeOK, VersionsInOrder, DashboardInv, step = "built",
         NEW i \in Interviews, NEW p \in Interviewers, <<i, p>> \notin touched
  PROVE  /\ \A e \in Pair(i, p) : \E k \in EntriesOf(i, p) : archive[i][k] = e
         /\ EntriesOf(i, p) # {} => \E e : Pair(i, p) = {e}
<1>1. \A e \in Pair(i, p) : \E k \in EntriesOf(i, p) : archive[i][k] = e /\ archive[i][k].isLatest
  BY DEF DashboardInv, UntouchedAsArchived, Pair, Counted
<1>2. ASSUME EntriesOf(i, p) # {}
      PROVE  \E e : Pair(i, p) = {e}
  <2>1. PICK k \in EntriesOf(i, p) : archive[i][k].isLatest
    BY <1>2, LatestExists
  <2>2. k \in DOMAIN archive[i] /\ archive[i][k].interviewer = p
    BY DEF EntriesOf
  <2>3. unread = {}
    BY DEF DashboardInv, WorkloadCounts
  <2>4. archive[i][k] \in collected
    BY <2>1, <2>3 DEF DashboardInv, UntouchedAsArchived
  <2>5. i \in listed
    BY <1>2 DEF DashboardInv, ListedOrTouched
  <2>6. archive[i][k].interview = i
    BY <2>2 DEF DashboardInv, ArchivedAtHome
  <2>7. archive[i][k] \in Pair(i, p)
    BY <2>2, <2>4, <2>5, <2>6 DEF Pair, Counted
  <2>8. ASSUME NEW e \in Pair(i, p)
        PROVE  e = archive[i][k]
    <3>1. PICK l \in EntriesOf(i, p) : archive[i][l] = e /\ archive[i][l].isLatest
      BY <1>1
    <3>2. l \in DOMAIN archive[i] /\ archive[i][l].interviewer = p
      BY DEF EntriesOf
    <3>3. l = k
      BY <2>1, <2>2, <3>1, <3>2, OneLatest
    <3> QED
      BY <3>1, <3>3
  <2>9. Pair(i, p) = {archive[i][k]}
    BY <2>7, <2>8
  <2> QED
    BY <2>9
<1> QED
  BY <1>1, <1>2

(* When no pair of an interviewer is touched, the evaluations counted are  *)
(* as many as the interviews the interviewer has evaluated.                *)
LEMMA CountedPerInterview ==
  ASSUME IInv, DashboardInv, step = "built", NEW p \in Interviewers,
         \A i \in Interviews : <<i, p>> \notin touched
  PROVE  Cardinality(Counted(p)) = Cardinality({i \in Interviews : EntriesOf(i, p) # {}})
<1>1. TypeOK /\ VersionsInOrder /\ IdsUsed /\ IdsDiffer
  BY DEF IInv
<1> DEFINE S == Counted(p)
           I == {i \in Interviews : EntriesOf(i, p) # {}}
<1>2. \A e \in S : e.interview \in Interviews /\ e \in Pair(e.interview, p)
  BY DEF Counted, Pair, DashboardInv, OnlyOfCreated
<1>3. \A e \in S : \E k \in EntriesOf(e.interview, p) : archive[e.interview][k] = e
  <2> SUFFICES ASSUME NEW e \in S, NEW i, i = e.interview
               PROVE  \E k \in EntriesOf(i, p) : archive[i][k] = e
    OBVIOUS
  <2>1. i \in Interviews /\ e \in Pair(i, p)
    BY <1>2
  <2>2. \A d \in Pair(i, p) : \E k \in EntriesOf(i, p) : archive[i][k] = d
    BY <1>1, <2>1, UntouchedPair
  <2> QED
    BY <2>1, <2>2
(* The ids make the evaluations counted finitely many. *)
<1>4. IsFiniteSet(S)
  <2> DEFINE g == [e \in S |-> e.id]
  <2>1. \A e \in S : e.id \in 1..nextEvaluation
    <3> SUFFICES ASSUME NEW e \in S PROVE e.id \in 1..nextEvaluation
      OBVIOUS
    <3>1. PICK k \in EntriesOf(e.interview, p) : archive[e.interview][k] = e
      BY <1>3
    <3>2. e.interview \in Interviews /\ k \in DOMAIN archive[e.interview]
      BY <1>2 DEF EntriesOf
    <3> QED
      BY <1>1, <3>1, <3>2 DEF IdsUsed
  <2>2. ASSUME NEW d \in S, NEW e \in S, d.id = e.id
        PROVE  d = e
    <3>1. PICK k \in EntriesOf(d.interview, p) : archive[d.interview][k] = d
      BY <1>3
    <3>2. PICK l \in EntriesOf(e.interview, p) : archive[e.interview][l] = e
      BY <1>3
    <3>3. /\ d.interview \in Interviews /\ k \in DOMAIN archive[d.interview]
          /\ e.interview \in Interviews /\ l \in DOMAIN archive[e.interview]
      BY <1>2 DEF EntriesOf
    <3>4. d.interview = e.interview /\ k = l
      BY <1>1, <2>2, <3>1, <3>2, <3>3 DEF IdsDiffer
    <3> QED
      BY <3>1, <3>2, <3>4
  <2>3. g \in Injection(S, 1..nextEvaluation)
    BY <2>1, <2>2 DEF Injection, IsInjective
  <2>4. IsFiniteSet(1..nextEvaluation)
    BY <1>1, FS_Interval DEF TypeOK
  <2> HIDE DEF S, g
  <2> QED
    BY <2>3, <2>4, FS_Injection
<1>5. ExistsBijection(S, I)
  <2> DEFINE f == [e \in S |-> e.interview]
  <2>1. f \in [S -> I]
    BY <1>2, <1>3
  <2>2. ASSUME NEW d \in S, NEW e \in S, d.interview = e.interview
        PROVE  d = e
    <3>1. /\ e.interview \in Interviews
          /\ d \in Pair(e.interview, p) /\ e \in Pair(e.interview, p)
      BY <1>2, <2>2
    <3>2. EntriesOf(e.interview, p) # {}
      BY <1>3
    <3>3. \E x : Pair(e.interview, p) = {x}
      BY <1>1, <3>1, <3>2, UntouchedPair
    <3> QED
      BY <3>1, <3>3
  <2>3. \A i \in I : \E e \in S : e.interview = i
    <3> SUFFICES ASSUME NEW i \in Interviews, EntriesOf(i, p) # {}
                 PROVE  \E e \in S : e.interview = i
      OBVIOUS
    <3>1. PICK x : Pair(i, p) = {x}
      BY <1>1, UntouchedPair
    <3> QED
      BY <3>1 DEF Pair
  <2>4. f \in Bijection(S, I)
    BY <2>1, <2>2, <2>3 DEF Bijection, Injection, Surjection, IsInjective
  <2> QED
    BY <2>4 DEF ExistsBijection
<1> HIDE DEF S, I
<1>6. Cardinality(I) = Cardinality(S)
  BY <1>4, <1>5, FS_Bijection
<1> QED
  BY <1>6 DEF S, I

LEMMA CountsFollow ==
  ASSUME IInv, DashboardInv
  PROVE  FeedbackCountedOnce
<1> SUFFICES ASSUME step = "built", NEW p \in Interviewers
             PROVE  /\ \A i \in Interviews :
                         /\ <<i, p>> \notin touched =>
                              Cardinality(Pair(i, p)) = IF EntriesOf(i, p) = {} THEN 0 ELSE 1
                         /\ \A d, e \in Pair(i, p) : d # e => d.candidate # e.candidate
                    /\ (\A i \in Interviews : <<i, p>> \notin touched) =>
                         workload[p] = Cardinality({i \in Interviews : EntriesOf(i, p) # {}})
  BY DEF FeedbackCountedOnce
<1>1. ASSUME NEW i \in Interviews, <<i, p>> \notin touched
      PROVE  Cardinality(Pair(i, p)) = IF EntriesOf(i, p) = {} THEN 0 ELSE 1
  <2>1. TypeOK /\ VersionsInOrder
    BY DEF IInv
  <2>2. CASE EntriesOf(i, p) = {}
    <3>1. Pair(i, p) = {}
      BY <1>1, <2>1, <2>2, UntouchedPair
    <3> QED
      BY <2>2, <3>1, FS_EmptySet
  <2>3. CASE EntriesOf(i, p) # {}
    <3>1. \E e : Pair(i, p) = {e}
      BY <1>1, <2>1, <2>3, UntouchedPair
    <3> QED
      BY <2>3, <3>1, FS_Singleton
  <2> QED
    BY <2>2, <2>3
<1>2. ASSUME NEW i \in Interviews, NEW d \in Pair(i, p), NEW e \in Pair(i, p), d # e
      PROVE  d.candidate # e.candidate
  BY <1>2 DEF Pair, Counted, DashboardInv, ReadOnce
<1>3. ASSUME \A i \in Interviews : <<i, p>> \notin touched
      PROVE  workload[p] = Cardinality({i \in Interviews : EntriesOf(i, p) # {}})
  <2>1. workload[p] = Cardinality(Counted(p))
    BY DEF DashboardInv, WorkloadCounts
  <2> QED
    BY <1>3, <2>1, CountedPerInterview
<1> QED
  BY <1>1, <1>2, <1>3

(* Building dashboards never disturbs the evaluations: a behaviour with    *)
(* dashboards, creations of interviews included, is one of Spec, so what   *)
(* is proved of the archive and of the audit log holds in it too.          *)
THEOREM DashboardOnlyReads == DashboardSpec => Spec
<1>1. DashboardInit => Init /\ IInv /\ DashboardInv
  BY InitIInv, InitDashboard DEF DashboardInit
<1>2. IInv /\ DashboardInv /\ [DashboardNext]_dashboardVars => [Next]_vars
  BY DashboardStep DEF DashboardInv
<1>3. IInv /\ DashboardInv /\ [DashboardNext]_dashboardVars => IInv' /\ DashboardInv'
  BY <1>2, StepIInv, StepDashboardInv
<1> QED
  BY <1>1, <1>2, <1>3, PTL DEF DashboardSpec, Spec

(* However evaluations are submitted and interviews reassigned while the   *)
(* dashboard lists candidates, interviews and evaluations in steps of its  *)
(* own, an interviewer's untouched feedback counts exactly once and the    *)
(* workload of an undisturbed interviewer is the number of interviews he   *)
(* or she has evaluated.                                                   *)
THEOREM FeedbackIsCountedOnce == DashboardSpec => []FeedbackCountedOnce
<1>1. DashboardInit => IInv /\ DashboardInv
  BY InitIInv, InitDashboard DEF DashboardInit
<1>2. IInv /\ DashboardInv /\ [DashboardNext]_dashboardVars => IInv' /\ DashboardInv'
  <2>1. IInv /\ DashboardInv /\ [DashboardNext]_dashboardVars => [Next]_vars
    BY DashboardStep DEF DashboardInv
  <2> QED
    BY <2>1, StepIInv, StepDashboardInv
<1>3. IInv /\ DashboardInv => FeedbackCountedOnce
  BY CountsFollow
<1> QED
  BY <1>1, <1>2, <1>3, PTL DEF DashboardSpec
-----------------------------------------------------------------------------
(* An entry is told by its fields. *)
LEMMA SameButVersion ==
  ASSUME NEW e \in ArchiveEntry, NEW f \in ArchiveEntry,
         e.id = f.id, e.interview = f.interview, e.interviewer = f.interviewer,
         e.candidate = f.candidate, e.round = f.round
  PROVE  e = [f EXCEPT !.version = e.version, !.isLatest = e.isLatest]
BY DEF ArchiveEntry

(* The instance's cardinality is the one of FiniteSets. *)
LEMMA SameCardinality ==
  ASSUME NEW S
  PROVE  History!Cardinality(S) = Cardinality(S)
BY Zenon DEF History!Cardinality, Cardinality

(* A list whose versions are in order tells what its order tells. *)
LEMMA InOrderIsTold ==
  ASSUME NEW s \in Seq(ArchiveEntry), NEW t \in Seq(ArchiveEntry),
         Len(s) = Len(t), InOrder(t),
         \A k \in 1..Len(s) :
           /\ t[k].id = s[k].id
           /\ t[k].interview = s[k].interview
           /\ t[k].interviewer = s[k].interviewer
           /\ t[k].candidate = s[k].candidate
           /\ t[k].round = s[k].round
  PROVE  t = History!Told(s)
<1> DEFINE n == Len(s)
           told == History!Told(s)
           mine(k) == {j \in DOMAIN s : s[j].interviewer = s[k].interviewer}
<1>1. /\ n \in Nat /\ DOMAIN s = 1..n /\ DOMAIN t = 1..n
      /\ \A k \in 1..n : s[k] \in ArchiveEntry /\ t[k] \in ArchiveEntry
  BY LenProperties, ElementOfSeq
<1>2. /\ DOMAIN told = 1..n
      /\ \A k \in 1..n :
           told[k] = [s[k] EXCEPT !.version = Cardinality({j \in mine(k) : j <= k}),
                                  !.isLatest = \A j \in mine(k) : j <= k]
      /\ told = [k \in 1..n |-> told[k]]
  <2> DEFINE entry(k) == [s[k] EXCEPT !.version = Cardinality({j \in mine(k) : j <= k}),
                                      !.isLatest = \A j \in mine(k) : j <= k]
  <2> DEFINE upto(k) == {j \in mine(k) : j <= k}
             asked(k) == [s[k] EXCEPT !.version = History!Cardinality(upto(k)),
                                      !.isLatest = \A j \in mine(k) : j <= k]
  <2>1. told = [k \in DOMAIN s |-> asked(k)]
    BY Zenon DEF History!Told
  <2>2. ASSUME NEW k PROVE asked(k) = entry(k)
    <3> HIDE DEF upto
    <3>1. History!Cardinality(upto(k)) = Cardinality(upto(k))
      BY SameCardinality, Zenon
    <3>2. asked(k) = [s[k] EXCEPT !.version = Cardinality(upto(k)),
                                  !.isLatest = \A j \in mine(k) : j <= k]
      BY <3>1, Zenon
    <3> QED
      BY <3>2, Zenon DEF upto
  <2> HIDE DEF entry, told, asked
  <2>3. /\ DOMAIN told = 1..n
        /\ \A k \in 1..n : told[k] = entry(k)
        /\ told = [k \in 1..n |-> told[k]]
    BY <1>1, <2>1, <2>2
  <2> QED
    BY <2>3, Zenon DEF entry
<1> HIDE DEF told
<1>3. ASSUME NEW k \in 1..n
      PROVE  t[k] = told[k]
  <2> DEFINE before == {j \in mine(k) : j < k}
             upto == {j \in mine(k) : j <= k}
  <2>1. mine(k) = Entries(t, t[k].interviewer)
    BY <1>1 DEF Entries
  <2>2. /\ t[k].version = Cardinality(before) + 1
        /\ t[k].isLatest <=> \A j \in mine(k) : j <= k
    BY <1>1, <2>1 DEF InOrder
  <2>3. mine(k) \subseteq 1..n /\ k \in mine(k)
    BY <1>1
  <2>4. IsFiniteSet(before) /\ k \notin before
    <3>1. IsFiniteSet(1..n)
      <4> HIDE DEF n
      <4> QED
        BY <1>1, FS_Interval
    <3>2. before \subseteq 1..n
      BY <2>3
    <3> HIDE DEF before
    <3>3. IsFiniteSet(before)
      BY <3>1, <3>2, FS_Subset
    <3> QED
      BY <3>3 DEF before
  <2>5. upto = before \cup {k}
    BY <1>1, <2>3
  <2>6. Cardinality(before \cup {k}) = Cardinality(before) + 1
    <3> HIDE DEF before
    <3> QED
      BY <2>4, FS_AddElement
  <2>7. t[k].version = Cardinality(upto)
    BY <2>2, <2>5, <2>6
  <2>8. t[k].isLatest \in BOOLEAN
    BY <1>1 DEF ArchiveEntry
  <2>9. t[k].isLatest = (\A j \in mine(k) : j <= k)
    BY <2>2, <2>8
  <2>10. t[k] = [s[k] EXCEPT !.version = t[k].version, !.isLatest = t[k].isLatest]
    <3>1. /\ s[k] \in ArchiveEntry /\ t[k] \in ArchiveEntry
          /\ t[k].id = s[k].id
          /\ t[k].interview = s[k].interview
          /\ t[k].interviewer = s[k].interviewer
          /\ t[k].candidate = s[k].candidate
          /\ t[k].round = s[k].round
      BY <1>1
    <3> QED
      BY ONLY <3>1, SameButVersion, Zenon
  <2>11. told[k] = [s[k] EXCEPT !.version = Cardinality(upto),
                                !.isLatest = \A j \in mine(k) : j <= k]
    BY <1>2, Zenon
  <2> HIDE DEF before, upto, mine
  <2> QED
    BY <2>7, <2>9, <2>10, <2>11, Zenon
<1>4. t = [k \in 1..n |-> t[k]]
  BY <1>1
<1> HIDE DEF n
<1>5. [k \in 1..n |-> t[k]] = [k \in 1..n |-> told[k]]
  BY <1>3, Zenon
<1> QED
  BY <1>2, <1>4, <1>5, Zenon DEF told

(* AddEvaluation is one Submit, for the assignment the draft was made for. *)
LEMMA AddedIsTold ==
  ASSUME IInv, ArchivedAtHome, NEW w \in Workers, AddEvaluation(w)
  PROVE  ArchivedAtHome' /\ History!Next
<1> SUFFICES ASSUME NEW i, i = draft[w].interview, NEW p, p = draft[w].interviewer,
                    NEW n, n = Len(archive[i])
             PROVE  ArchivedAtHome' /\ History!Next
  OBVIOUS
<1>1. TypeOK /\ DraftsMade /\ VersionsInOrder'
  BY StepIInv DEF IInv, Next
<1>2. /\ i \in Interviews /\ p \in Interviewers /\ n \in Nat
      /\ DOMAIN archive[i] = 1..n
      /\ DOMAIN archive'[i] = 1..(n + 1)
      /\ archive' \in [Interviews -> Seq(ArchiveEntry)]
      /\ \A j \in Interviews : j # i => archive'[j] = archive[j]
      /\ \A k \in 1..n :
           /\ archive[i][k] \in ArchiveEntry
           /\ archive'[i][k] = IF archive[i][k].interviewer = p
                               THEN [archive[i][k] EXCEPT !.isLatest = FALSE]
                               ELSE archive[i][k]
      /\ archive'[i][n + 1] = draft'[w]
      /\ draft' = [draft EXCEPT ![w] = Stored(draft[w])]
  BY <1>1, AddedArchive
<1>3. /\ draft[w] \in ArchiveEntry
      /\ nextEvaluation' = nextEvaluation + 1 /\ nextEvaluation \in Nat
      /\ UNCHANGED <<versions, events>>
  BY <1>1 DEF AddEvaluation, DraftsMade, TypeOK
<1>4. PICK a \in versions[i] :
        /\ draft[w].candidate = a.candidate
        /\ draft[w].round = a.round
        /\ draft[w].interviewer \in a.interviewers
  BY <1>1 DEF DraftsMade, AddEvaluation
<1>5. a \in Assignment
  BY <1>1, <1>2 DEF TypeOK
<1> DEFINE new == [id |-> nextEvaluation + 1, interview |-> i, interviewer |-> p,
                   candidate |-> a.candidate, round |-> a.round,
                   version |-> 0, isLatest |-> FALSE]
           s == Append(archive[i], new)
           t == archive'[i]
<1>6. /\ t[n + 1].id = nextEvaluation + 1
      /\ t[n + 1].interview = i
      /\ t[n + 1].interviewer = p
      /\ t[n + 1].candidate = a.candidate
      /\ t[n + 1].round = a.round
  BY <1>1, <1>2, <1>3, <1>4, StoredFields DEF TypeOK
<1>7. ASSUME NEW k \in 1..n
      PROVE  /\ t[k].id = archive[i][k].id
             /\ t[k].interview = archive[i][k].interview
             /\ t[k].interviewer = archive[i][k].interviewer
             /\ t[k].candidate = archive[i][k].candidate
             /\ t[k].round = archive[i][k].round
  <2>1. ASSUME NEW e \in ArchiveEntry, NEW f, f = [e EXCEPT !.isLatest = FALSE] \/ f = e
        PROVE  /\ f.id = e.id /\ f.interview = e.interview
               /\ f.interviewer = e.interviewer
               /\ f.candidate = e.candidate /\ f.round = e.round
    BY <2>1 DEF ArchiveEntry
  <2>2. /\ archive[i][k] \in ArchiveEntry
        /\ t[k] = [archive[i][k] EXCEPT !.isLatest = FALSE] \/ t[k] = archive[i][k]
    BY <1>2
  <2> HIDE DEF t
  <2> QED
    BY ONLY <2>1, <2>2, Zenon
<1>8. ArchivedAtHome'
  <2> SUFFICES ASSUME NEW j \in Interviews, NEW k \in DOMAIN archive'[j]
               PROVE  archive'[j][k].interview = j
    BY DEF ArchivedAtHome
  <2>1. CASE j # i
    BY <1>2, <2>1 DEF ArchivedAtHome
  <2>2. CASE j = i /\ k \in 1..n
    <3>1. k \in DOMAIN archive[i] /\ t[k].interview = archive[i][k].interview
      BY <1>2, <1>7, <2>2
    <3>2. archive[i][k].interview = i
      BY <1>2, <3>1, Zenon DEF ArchivedAtHome
    <3> QED
      BY ONLY <2>2, <3>1, <3>2
  <2>3. CASE j = i /\ k = n + 1
    BY <1>6, <2>3
  <2> QED
    BY <1>2, <2>1, <2>2, <2>3
<1>9. /\ archive[i] \in Seq(ArchiveEntry) /\ t \in Seq(ArchiveEntry)
      /\ Len(t) = n + 1
  <2>1. /\ archive[i] \in Seq(ArchiveEntry) /\ t \in Seq(ArchiveEntry)
        /\ DOMAIN t = 1..(n + 1)
    BY <1>1, <1>2 DEF TypeOK
  <2> HIDE DEF t
  <2> QED
    BY <1>2, <2>1, LenProperties
<1>10. /\ new \in ArchiveEntry
       /\ new.id = nextEvaluation + 1 /\ new.interview = i /\ new.interviewer = p
       /\ new.candidate = a.candidate /\ new.round = a.round
  <2>1. a.candidate \in Candidates /\ a.round \in Rounds /\ nextEvaluation + 1 \in Nat
    BY <1>3, <1>5 DEF Assignment
  <2> QED
    BY ONLY <1>2, <2>1 DEF ArchiveEntry, new
<1>11. /\ s \in Seq(ArchiveEntry) /\ Len(s) = n + 1
       /\ \A k \in 1..n : s[k] = archive[i][k]
       /\ s[n + 1] = new
  <2> HIDE DEF new
  <2> QED
    BY <1>9, <1>10, AppendProperties
<1>12. InOrder(t)
  BY <1>1, <1>2, OrderOfEach
<1> HIDE DEF new, s, t
<1>13. \A k \in 1..Len(s) :
         /\ t[k].id = s[k].id
         /\ t[k].interview = s[k].interview
         /\ t[k].interviewer = s[k].interviewer
         /\ t[k].candidate = s[k].candidate
         /\ t[k].round = s[k].round
  <2> SUFFICES ASSUME NEW k \in 1..Len(s)
               PROVE  /\ t[k].id = s[k].id
                      /\ t[k].interview = s[k].interview
                      /\ t[k].interviewer = s[k].interviewer
                      /\ t[k].candidate = s[k].candidate
                      /\ t[k].round = s[k].round
    OBVIOUS
  <2>1. k \in 1..n \/ k = n + 1
    BY <1>2, <1>11
  <2> QED
    BY <1>6, <1>7, <1>10, <1>11, <2>1
<1>14. t = History!Told(s)
  BY <1>9, <1>11, <1>12, <1>13, InOrderIsTold
<1>15. archive' = [archive EXCEPT ![i] = History!Told(Append(archive[i], new))]
  <2>1. archive'[i] = History!Told(s)
    BY <1>14 DEF t
  <2> DEFINE told == History!Told(s)
  <2> HIDE DEF told
  <2>2. archive' = [archive EXCEPT ![i] = told]
    BY <1>1, <1>2, <2>1 DEF TypeOK, told
  <2> QED
    BY <2>2 DEF told, s
<1>16. History!Submit(i, a, p)
  BY <1>3, <1>4, <1>15 DEF History!Submit, new
<1>17. History!Next
  BY <1>2, <1>4, <1>5, <1>16 DEF History!Next
<1> QED
  BY <1>8, <1>17

(* RecordEvaluation is one Audit. *)
LEMMA RecordIsAudit ==
  ASSUME IInv, ArchivedAtHome, NEW w \in Workers, RecordEvaluation(w)
  PROVE  History!Next
<1>1. /\ phase[w] = "archived"
      /\ UNCHANGED <<versions, archive, nextEvaluation>>
      /\ events' = Append(events,
           [action |-> ActionOf(draft[w].version), object |-> draft[w].id,
            interview |-> draft[w].interview,
            operator |-> draft[w].interviewer, version |-> draft[w].version])
  BY DEF RecordEvaluation
<1>2. /\ TypeOK /\ DraftsMade /\ IdsUsed /\ DraftsArchived /\ VersionsInOrder
  BY DEF IInv
<1>3. draft[w].interview \in Interviews
  BY <1>1, <1>2 DEF DraftsMade, ArchiveEntry
<1> SUFFICES ASSUME NEW i \in Interviews, i = draft[w].interview
             PROVE  History!Next
  BY <1>3
<1>4. /\ EventsOf(draft[w].id) = {}
      /\ \E k \in DOMAIN archive[i] :
           /\ archive[i][k].id = draft[w].id
           /\ archive[i][k].version = draft[w].version
           /\ archive[i][k].interviewer = draft[w].interviewer
  BY <1>1, <1>2 DEF DraftsArchived
<1>5. PICK k \in DOMAIN archive[i] :
        /\ archive[i][k].id = draft[w].id
        /\ archive[i][k].version = draft[w].version
        /\ archive[i][k].interviewer = draft[w].interviewer
  BY <1>4
<1>6. archive[i][k].interview = i /\ archive[i][k].id \in 1..nextEvaluation
  BY <1>2 DEF ArchivedAtHome, IdsUsed
<1>7. ActionOf(draft[w].version) = IF archive[i][k].version = 1
                                   THEN "interview.evaluation.submit"
                                   ELSE "interview.evaluation.modify"
  <2>1. archive[i][k].version
          = Cardinality({j \in EntriesOf(i, archive[i][k].interviewer) : j < k}) + 1
    BY <1>2 DEF VersionsInOrder
  <2>2. Cardinality({j \in EntriesOf(i, archive[i][k].interviewer) : j < k}) \in Nat
    BY <1>2, EntriesFinite
  <2>3. archive[i][k].version \in Nat \ {0}
    BY <2>1, <2>2
  <2> QED
    BY <1>5, <2>3 DEF ActionOf
<1>8. events' = Append(events, History!Event(archive[i][k]))
  BY <1>1, <1>5, <1>6, <1>7 DEF History!Event
<1>9. \A n \in DOMAIN events : events[n].object # draft[w].id
  BY <1>4 DEF EventsOf
<1>10. History!Audit(draft[w].id)
  BY <1>1, <1>5, <1>8, <1>9 DEF History!Audit
<1> QED
  BY <1>5, <1>6, <1>10 DEF History!Next

LEMMA HistoryStep ==
  ASSUME IInv, ArchivedAtHome, [Next]_vars
  PROVE  ArchivedAtHome' /\ [History!Next]_(History!historyVars)
<1>1. ASSUME UNCHANGED archive
      PROVE  ArchivedAtHome'
  BY <1>1 DEF ArchivedAtHome
<1>2. ASSUME UNCHANGED <<versions, archive, nextEvaluation, events>>
      PROVE  ArchivedAtHome' /\ [History!Next]_(History!historyVars)
  BY <1>1, <1>2 DEF History!historyVars
<1>3. ASSUME NEW i \in Interviews, NEW a \in Assignment, UpdateInterview(i, a)
      PROVE  ArchivedAtHome' /\ [History!Next]_(History!historyVars)
  <2>1. History!Reassign(i, a) /\ UNCHANGED archive
    BY <1>3 DEF UpdateInterview, History!Reassign
  <2> QED
    BY <1>1, <2>1 DEF History!Next
<1>4. ASSUME NEW w \in Workers, NEW i \in Interviews, NEW p \in Interviewers,
             BeginSubmit(w, i, p)
      PROVE  ArchivedAtHome' /\ [History!Next]_(History!historyVars)
  BY <1>2, <1>4 DEF BeginSubmit
<1>5. ASSUME NEW w \in Workers, AddEvaluation(w) \/ RecordEvaluation(w)
      PROVE  ArchivedAtHome' /\ [History!Next]_(History!historyVars)
  <2>1. CASE AddEvaluation(w)
    BY <2>1, AddedIsTold
  <2>2. CASE RecordEvaluation(w)
    <3>1. UNCHANGED archive
      BY <2>2 DEF RecordEvaluation
    <3> QED
      BY <1>1, <2>2, <3>1, RecordIsAudit
  <2> QED
    BY <1>5, <2>1, <2>2
<1>6. CASE UNCHANGED vars
  BY <1>2, <1>6 DEF vars
<1> QED
  BY <1>3, <1>4, <1>5, <1>6 DEF Next

(* With the interviews' versions, the archive and the audit log seen as    *)
(* they are, evaluations implement the safety part of EvaluationHistory:   *)
(* AddEvaluation, whose draft is checked against a copy of the interview   *)
(* in a step before, is one submission, and recording it is one audit of   *)
(* an evaluation not audited so far.                                       *)
THEOREM ImplementsHistory == Spec => History!Safety
<1>1. Init => ArchivedAtHome /\ History!Init
  <2> SUFFICES ASSUME Init PROVE ArchivedAtHome /\ History!Init
    OBVIOUS
  <2>1. \A i \in Interviews : interviews[i] \in Assignment /\ DOMAIN archive[i] = {}
    BY DEF Init
  <2> QED
    BY <2>1 DEF Init, ArchivedAtHome, History!Init
<1>2. IInv /\ ArchivedAtHome /\ [Next]_vars
        => ArchivedAtHome' /\ [History!Next]_(History!historyVars)
  BY HistoryStep
<1> QED
  BY <1>1, <1>2, EvaluationInvariant, PTL DEF Spec, History!Safety
=============================================================================
