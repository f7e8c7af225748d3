-------------------------- MODULE CandidateProofs --------------------------
(***************************************************************************)
(* Proofs about what is made of the candidates: Recommendation with        *)
(* CandidateProfiles, for any candidates, texts, interviews, rounds and    *)
(* requests, and CandidateSearch, which shares no state with them, for any *)
(* candidates and requests.                                                *)
(*                                                                         *)
(* A bank of questions is put together from two reads of the interview and *)
(* one of the profile: IInv says what is still true of them when the bank  *)
(* is saved.  The second part is about the profiles alone.  The third is   *)
(* about the search, whose options are made, merged and matched without    *)
(* the stores changing: its lemmas are about the operators.                *)
(***************************************************************************)
EXTENDS Recommendation, CandidateSearch, SequenceTheorems, FiniteSetTheorems, TLAPS

Busy == {"looked", "read", "generated"}

(* A stored profile is one of those its candidate has had. *)
ProfilesKept ==
  /\ DOMAIN profiles \subseteq Candidates
  /\ DOMAIN past = Candidates
  /\ \A c \in DOMAIN profiles : profiles[c] \in past[c]

(* A stored interview is one of its versions, for a stored candidate. *)
VersionsKept ==
  /\ DOMAIN interviews \subseteq Interviews
  /\ DOMAIN versions = Interviews
  /\ \A i \in DOMAIN interviews : interviews[i] \in versions[i]
  /\ \A i \in Interviews : versions[i] \subseteq Assignment
  /\ \A i \in Interviews : \A v \in versions[i] : v.candidate \in DOMAIN profiles

(* What a request has read was so once. *)
ReadsKept ==
  /\ DOMAIN pc = Workers
  /\ DOMAIN work = Workers
  /\ \A w \in Workers : pc[w] \in Busy =>
       /\ work[w] = [interview |-> work[w].interview, item |-> work[w].item,
                     jd |-> work[w].jd, profile |-> work[w].profile]
       /\ work[w].interview \in DOMAIN interviews
       /\ work[w].item \in versions[work[w].interview]
       /\ pc[w] # "looked" => work[w].profile \in past[work[w].item.candidate]

BanksKept == DOMAIN bank \subseteq Interviews /\ BankOfOneMoment

IInv == ProfilesKept /\ VersionsKept /\ ReadsKept /\ BanksKept
-----------------------------------------------------------------------------
LEMMA InitIInv == Init => IInv
BY DEF Init, ProfileInit, IInv, ProfilesKept, VersionsKept, ReadsKept, BanksKept,
       BankOfOneMoment, Busy

(* A profile is replaced and remembered. *)
LEMMA StoreStep ==
  ASSUME IInv, NEW c \in Candidates, NEW profile, Store(c, profile),
         UNCHANGED <<interviewVars, bank, requestVars>>
  PROVE  IInv'
<1>1. /\ DOMAIN profiles' = DOMAIN profiles \cup {c}
      /\ DOMAIN past' = DOMAIN past
      /\ \A d \in Candidates : past[d] \subseteq past'[d]
      /\ \A d \in DOMAIN profiles' : profiles'[d] \in past'[d]
      /\ UNCHANGED <<interviews, versions, changes, bank, pc, work, generations>>
  BY DEF Store, IInv, ProfilesKept, interviewVars, requestVars
<1>2. ProfilesKept' /\ VersionsKept'
  BY <1>1 DEF IInv, ProfilesKept, VersionsKept
<1>3. ReadsKept'
  <2> SUFFICES ASSUME NEW w \in Workers, pc[w] \in Busy, pc[w] # "looked"
               PROVE  work[w].profile \in past'[work[w].item.candidate]
    BY <1>1 DEF IInv, ReadsKept
  <2>1. work[w].item.candidate \in Candidates
    BY DEF IInv, ReadsKept, VersionsKept, ProfilesKept
  <2> QED
    BY <1>1, <2>1 DEF IInv, ReadsKept
<1>4. BanksKept'
  <2> SUFFICES ASSUME NEW i \in DOMAIN bank
               PROVE  \E p \in past'[bank[i].candidate] :
                        bank[i].questions = QuestionsFor(p, bank[i].jd)
    BY <1>1 DEF IInv, BanksKept, BankOfOneMoment
  <2>1. [candidate |-> bank[i].candidate, round |-> bank[i].round] \in Assignment
    BY DEF IInv, BanksKept, BankOfOneMoment, VersionsKept
  <2>2. bank[i].candidate \in Candidates
    BY <2>1 DEF Assignment
  <2> QED
    BY <1>1, <2>2 DEF IInv, BanksKept, BankOfOneMoment
<1> QED
  BY <1>2, <1>3, <1>4 DEF IInv

LEMMA SetInterviewStep ==
  ASSUME IInv, NEW i \in Interviews, NEW a \in Assignment, SetInterview(i, a)
  PROVE  IInv'
<1>1. /\ DOMAIN interviews' = DOMAIN interviews \cup {i}
      /\ DOMAIN versions' = DOMAIN versions
      /\ \A j \in Interviews : versions[j] \subseteq versions'[j]
      /\ \A j \in DOMAIN interviews' : interviews'[j] \in versions'[j]
      /\ \A j \in Interviews : versions'[j] \subseteq versions[j] \cup {a}
      /\ a.candidate \in DOMAIN profiles
      /\ UNCHANGED <<profiles, read, past, bank, pc, work, generations>>
  BY DEF SetInterview, IInv, VersionsKept, profileVars, requestVars
<1>2. ProfilesKept' /\ VersionsKept'
  BY <1>1 DEF IInv, ProfilesKept, VersionsKept
<1>3. ReadsKept'
  BY <1>1 DEF IInv, ReadsKept, VersionsKept
<1>4. BanksKept'
  BY <1>1 DEF IInv, BanksKept, BankOfOneMoment
<1> QED
  BY <1>2, <1>3, <1>4 DEF IInv

(* The steps that leave both stores alone. *)
LEMMA StoresKept ==
  ASSUME IInv, UNCHANGED <<profiles, past, interviews, versions>>
  PROVE  ProfilesKept' /\ VersionsKept'
BY DEF IInv, ProfilesKept, VersionsKept

LEMMA LookStep ==
  ASSUME IInv, NEW w \in Workers, Look(w)
  PROVE  IInv'
<1>1. UNCHANGED <<profiles, read, past, interviews, versions, changes, bank>>
  BY DEF Look, profileVars, interviewVars
<1>2. PICK i \in DOMAIN interviews, jd \in JobDescriptions :
        work' = [work EXCEPT ![w] = [interview |-> i, item |-> interviews[i], jd |-> jd,
                                     profile |-> Nothing]]
  BY DEF Look
<1>3. pc' = [pc EXCEPT ![w] = "looked"]
  BY DEF Look
<1>4. interviews[i] \in versions[i]
  BY DEF IInv, VersionsKept
<1>5. ReadsKept'
  BY <1>1, <1>2, <1>3, <1>4 DEF IInv, ReadsKept
<1>6. BanksKept'
  BY <1>1 DEF IInv, BanksKept, BankOfOneMoment
<1> QED
  BY <1>1, <1>5, <1>6, StoresKept DEF IInv

LEMMA GetCandidateStep ==
  ASSUME IInv, NEW w \in Workers, GetCandidate(w)
  PROVE  IInv'
<1>1. /\ UNCHANGED <<profiles, read, past, interviews, versions, changes, bank>>
      /\ pc[w] = "looked"
      /\ pc' = [pc EXCEPT ![w] = "read"]
      /\ work' = [work EXCEPT ![w].profile = profiles[work[w].item.candidate]]
  BY DEF GetCandidate, Step, profileVars, interviewVars
<1> DEFINE p == profiles[work[w].item.candidate]
<1>2. /\ work[w] = [interview |-> work[w].interview, item |-> work[w].item,
                    jd |-> work[w].jd, profile |-> work[w].profile]
      /\ work[w].interview \in Interviews
      /\ work[w].item \in versions[work[w].interview]
  BY <1>1 DEF IInv, ReadsKept, VersionsKept, Busy
<1>3. p \in past[work[w].item.candidate]
  BY <1>2 DEF IInv, VersionsKept, ProfilesKept
<1>4. /\ DOMAIN work' = Workers
      /\ work'[w] = [interview |-> work[w].interview, item |-> work[w].item,
                     jd |-> work[w].jd, profile |-> p]
      /\ \A v \in Workers \ {w} : work'[v] = work[v]
  BY <1>1, <1>2 DEF IInv, ReadsKept
<1>5. ReadsKept'
  <2> HIDE DEF p
  <2> QED
    BY <1>1, <1>2, <1>3, <1>4 DEF IInv, ReadsKept, Busy
<1>6. BanksKept'
  BY <1>1 DEF IInv, BanksKept, BankOfOneMoment
<1> QED
  BY <1>1, <1>5, <1>6, StoresKept DEF IInv

(* If the candidate is the same, the profile that was read is still one of *)
(* the candidate's.                                                        *)
LEMMA GenerateStep ==
  ASSUME IInv, NEW w \in Workers, GenerateQuestionRecommendation(w)
  PROVE  IInv'
<1> DEFINE item == interviews[work[w].interview]
<1>1. /\ UNCHANGED <<profiles, read, past, interviews, versions, changes, bank>>
      /\ pc[w] = "read"
  BY DEF GenerateQuestionRecommendation, profileVars, interviewVars
<1>2. /\ work[w] = [interview |-> work[w].interview, item |-> work[w].item,
                    jd |-> work[w].jd, profile |-> work[w].profile]
      /\ work[w].interview \in DOMAIN interviews
      /\ work[w].profile \in past[work[w].item.candidate]
  BY <1>1 DEF IInv, ReadsKept, Busy
<1>3. item \in versions[work[w].interview]
  BY <1>2 DEF IInv, VersionsKept
<1>4. ASSUME item.candidate = work[w].item.candidate
      PROVE  ReadsKept'
  <2>1. /\ pc' = [pc EXCEPT ![w] = "generated"]
        /\ work' = [work EXCEPT ![w].item = item]
    BY <1>4 DEF GenerateQuestionRecommendation
  <2>2. /\ DOMAIN work' = Workers
        /\ work'[w] = [interview |-> work[w].interview, item |-> item,
                       jd |-> work[w].jd, profile |-> work[w].profile]
        /\ \A v \in Workers \ {w} : work'[v] = work[v]
    BY <2>1, <1>2 DEF IInv, ReadsKept
  <2> QED
    <3> HIDE DEF item
    <3> QED
      BY <1>1, <1>2, <1>3, <1>4, <2>1, <2>2 DEF IInv, ReadsKept, Busy
<1>5. ASSUME item.candidate # work[w].item.candidate
      PROVE  ReadsKept'
  BY <1>1, <1>5 DEF GenerateQuestionRecommendation, IInv, ReadsKept, Busy
<1>6. ReadsKept'
  BY <1>4, <1>5
<1>7. BanksKept'
  BY <1>1 DEF IInv, BanksKept, BankOfOneMoment
<1> QED
  BY <1>1, <1>6, <1>7, StoresKept DEF IInv

LEMMA SaveStep ==
  ASSUME IInv, NEW w \in Workers, SaveQuestionRecommendation(w)
  PROVE  IInv'
<1> DEFINE i == work[w].interview
           saved == Recommended(work[w])
<1>1. /\ UNCHANGED <<profiles, read, past, interviews, versions, changes>>
      /\ pc[w] = "generated"
      /\ pc' = [pc EXCEPT ![w] = "saved"]
      /\ work' = [work EXCEPT ![w] = << >>]
      /\ bank' = [j \in DOMAIN bank \cup {i} |-> IF j = i THEN saved ELSE bank[j]]
  BY DEF SaveQuestionRecommendation, Step, profileVars, interviewVars
<1>2. /\ i \in Interviews
      /\ work[w].item \in versions[i]
      /\ work[w].item \in Assignment
      /\ work[w].profile \in past[work[w].item.candidate]
  BY <1>1 DEF IInv, ReadsKept, VersionsKept, Busy
<1>3. /\ saved.candidate = work[w].item.candidate
      /\ saved.round = work[w].item.round
      /\ saved.questions = QuestionsFor(work[w].profile, saved.jd)
  BY DEF Recommended
<1>4. [candidate |-> saved.candidate, round |-> saved.round] \in versions[i]
  BY <1>2, <1>3 DEF Assignment
<1>5. ReadsKept'
  BY <1>1 DEF IInv, ReadsKept, Busy
<1>6. BanksKept'
  <2> HIDE DEF i, saved
  <2>1. DOMAIN bank' \subseteq Interviews
    BY <1>1, <1>2 DEF IInv, BanksKept
  <2>2. ASSUME NEW j \in DOMAIN bank'
        PROVE  /\ [candidate |-> bank'[j].candidate, round |-> bank'[j].round] \in versions'[j]
               /\ \E p \in past'[bank'[j].candidate] :
                    bank'[j].questions = QuestionsFor(p, bank'[j].jd)
    <3>1. CASE j = i
      BY <3>1, <1>1, <1>2, <1>3, <1>4
    <3>2. CASE j # i
      BY <2>2, <3>2, <1>1 DEF IInv, BanksKept, BankOfOneMoment
    <3> QED
      BY <3>1, <3>2
  <2> QED
    BY <2>1, <2>2 DEF BanksKept, BankOfOneMoment
<1> QED
  BY <1>1, <1>5, <1>6, StoresKept DEF IInv

LEMMA StepIInv == IInv /\ [Next]_vars => IInv'
<1> SUFFICES ASSUME IInv, [Next]_vars
             PROVE  IInv'
  OBVIOUS
<1>1. ASSUME NEW c \in Candidates,
             CreateCandidate(c) \/ \E text \in Texts : UpsertCandidate(c, text),
             UNCHANGED <<interviewVars, bank, requestVars>>
      PROVE  IInv'
  <2>1. \E profile : Store(c, profile)
    BY <1>1 DEF CreateCandidate, UpsertCandidate
  <2> QED
    BY <1>1, <2>1, StoreStep
<1>2. ASSUME NEW i \in Interviews, NEW a \in Assignment, SetInterview(i, a)
      PROVE  IInv'
  BY <1>2, SetInterviewStep
<1>3. ASSUME NEW w \in Workers,
             \/ Look(w)
             \/ GetCandidate(w)
             \/ GenerateQuestionRecommendation(w)
             \/ SaveQuestionRecommendation(w)
      PROVE  IInv'
  BY <1>3, LookStep, GetCandidateStep, GenerateStep, SaveStep
<1>4. CASE UNCHANGED vars
  BY <1>4 DEF vars, IInv, ProfilesKept, VersionsKept, ReadsKept, BanksKept, BankOfOneMoment
<1> QED
  BY <1>1, <1>2, <1>3, <1>4 DEF Next

(* A saved bank is for one candidate throughout, whatever was changed      *)
(* while it was generated, for any number of interviews and requests.      *)
THEOREM BanksOfOneMoment == Spec => []BankOfOneMoment
<1>1. IInv => BankOfOneMoment
  BY DEF IInv, BanksKept
<1> QED
  BY <1>1, InitIInv, StepIInv, PTL DEF Spec
-----------------------------------------------------------------------------
(* Questions that begin with f, at most n of them. *)
Begun(s, S, f, n) == s \in Seq(S) /\ Len(s) \in 2..n /\ s[1] = f
AtMostOne(more, S) == more = << >> \/ \E q \in S : more = <<q>>

(* A question is put at the end, or not. *)
LEMMA Appended ==
  ASSUME NEW S, NEW s \in Seq(S), NEW q \in S
  PROVE  /\ s \o <<q>> \in Seq(S) /\ Len(s \o <<q>>) = Len(s) + 1
         /\ \A k \in 1..Len(s) : (s \o <<q>>)[k] = s[k]
         /\ (s \o <<q>>)[Len(s) + 1] = q
<1>1. /\ <<q>> \in Seq(S) /\ Len(<<q>>) = 1 /\ <<q>>[1] = q
  OBVIOUS
<1> DEFINE t == s \o <<q>>
<1>2. /\ t \in Seq(S)
      /\ Len(t) = Len(s) + Len(<<q>>)
      /\ \A k \in 1..(Len(s) + Len(<<q>>)) :
           t[k] = IF k <= Len(s) THEN s[k] ELSE <<q>>[k - Len(s)]
  BY <1>1, ConcatProperties
<1>3. Len(s) \in Nat
  OBVIOUS
<1> HIDE DEF t
<1>4. /\ t \in Seq(S) /\ Len(t) = Len(s) + 1
      /\ \A k \in 1..Len(s) : t[k] = s[k]
      /\ t[Len(s) + 1] = q
  BY <1>1, <1>2, <1>3
<1> QED
  BY <1>4 DEF t

LEMMA Extended ==
  ASSUME NEW S, NEW f, NEW n \in Nat, NEW s, NEW more,
         Begun(s, S, f, n), AtMostOne(more, S)
  PROVE  /\ Begun(s \o more, S, f, n + 1)
         /\ Len(s) <= Len(s \o more)
         /\ \A k \in 1..Len(s) : (s \o more)[k] = s[k]
<1>1. s \in Seq(S) /\ Len(s) \in 2..n /\ Len(s) \in Nat /\ s[1] = f
  BY DEF Begun
<1>2. CASE \E q \in S : more = <<q>>
  <2>1. PICK q \in S : more = <<q>>
    BY <1>2
  <2> DEFINE t == s \o <<q>>
  <2>2. /\ t \in Seq(S) /\ Len(t) = Len(s) + 1
        /\ \A k \in 1..Len(s) : t[k] = s[k]
    BY <1>1, Appended
  <2>3. s \o more = t
    BY <2>1
  <2> HIDE DEF t
  <2>4. Begun(t, S, f, n + 1) /\ Len(s) <= Len(t)
    BY <1>1, <2>2 DEF Begun
  <2> QED
    BY <2>2, <2>3, <2>4
<1>3. CASE more = << >>
  <2>1. s \o more = s
    BY <1>1, <1>3, ConcatEmptySeq
  <2>2. Begun(s, S, f, n + 1)
    BY <1>1 DEF Begun
  <2>3. Len(s) <= Len(s)
    BY <1>1
  <2> QED
    BY <2>1, <2>2, <2>3
<1> QED
  BY <1>2, <1>3 DEF AtMostOne

LEMMA WhenIsAtMostOne ==
  ASSUME NEW condition, NEW S, NEW q \in S
  PROVE  /\ AtMostOne(When(condition, q), S)
         /\ condition => When(condition, q) = <<q>>
  BY DEF When, AtMostOne

(* What is among the first eight questions is not cut. *)
LEMMA NotCut ==
  ASSUME NEW S, NEW s \in Seq(S), NEW k \in 1..8, k <= Len(s), NEW c, s[k].category = c
  PROVE  Has(trimQuestions(s), c)
<1> DEFINE n == IF Len(s) <= 8 THEN Len(s) ELSE 8
           t == SubSeq(s, 1, n)
<1>1. n \in Nat /\ n <= Len(s) /\ k \in 1..n /\ Len(s) \in Nat
  OBVIOUS
<1> HIDE DEF n
<1>2. \A i \in 1..n : s[i] \in S
  BY <1>1, ElementOfSeq
<1>3. /\ t \in Seq(S) /\ Len(t) = IF 1 <= n THEN n - 1 + 1 ELSE 0
      /\ \A i \in 1..(n - 1 + 1) : t[i] = s[1 + i - 1]
  BY <1>1, <1>2, SubSeqProperties
<1> HIDE DEF t
<1>4. Len(t) = n /\ t[k] = s[k] /\ DOMAIN t = 1..n
  BY <1>1, <1>3, LenProperties
<1>5. trimQuestions(s) = t
  BY DEF trimQuestions, t, n
<1> QED
  BY <1>1, <1>4, <1>5 DEF Has

Covered(s) ==
  /\ \E k \in 1..8 : k <= Len(s) /\ s[k].category = "experience_follow_up"
  /\ \E k \in 1..8 : k <= Len(s) /\ s[k].category = "capability_assessment"

(* An index of at most seven is an index of what at most two are added to. *)
LEMMA WithinEight ==
  ASSUME NEW m \in 2..7, NEW n \in 2..8, NEW r \in 2..9, m <= n, n <= r,
         NEW j \in 1..m
  PROVE  j \in 1..8 /\ j \in 1..n /\ j <= r
OBVIOUS

(* Seven questions with one about experience first leave room for what is  *)
(* missing.                                                                *)
LEMMA RoomForCoverage ==
  ASSUME NEW S, NEW f, NEW s, NEW profile, Begun(s, S, f, 7),
         f.category = "experience_follow_up",
         Experience("experience-depth", {}) \in S,
         Capability("capability-fit", {}) \in S, Capability("learning-agility", {}) \in S
  PROVE  ensureQuestionCoverage(s, profile) \in Seq(S)
         /\ Covered(ensureQuestionCoverage(s, profile))
<1> DEFINE e == Experience("experience-depth", {})
           c == Capability("capability-fit", {})
           l == Capability("learning-agility", {})
           x == When(~Has(s, "experience_follow_up"), e)
           y == When(~Has(s, "capability_assessment"), c)
           z == When(profile["skills"] = {}, l)
<1>1. e \in S /\ c \in S /\ l \in S /\ c.category = "capability_assessment"
  BY DEF Capability
<1>2. /\ AtMostOne(x, S) /\ AtMostOne(y, S) /\ AtMostOne(z, S)
      /\ ~Has(s, "capability_assessment") => y = <<c>>
  <2> HIDE DEF e, c, l
  <2> QED
    BY <1>1, WhenIsAtMostOne
<1>3. ensureQuestionCoverage(s, profile) = ((s \o x) \o y) \o z
  BY DEF ensureQuestionCoverage
<1> HIDE DEF e, c, l, x, y, z
<1> DEFINE t == s \o x
           u == t \o y
           v == u \o z
<1>4. x = << >>
  <2>1. s \in Seq(S) /\ Len(s) \in 2..7 /\ s[1] = f
    BY DEF Begun
  <2>2. 1 \in DOMAIN s
    BY <2>1
  <2>3. Has(s, "experience_follow_up")
    BY <2>1, <2>2 DEF Has
  <2> QED
    BY <2>3 DEF x, When
<1>5. t = s
  <2>1. s \in Seq(S)
    BY DEF Begun
  <2> QED
    BY <1>4, <2>1, ConcatEmptySeq
<1> HIDE DEF t
<1>6. /\ Begun(u, S, f, 7 + 1) /\ Len(s) <= Len(u)
      /\ \A k \in 1..Len(s) : u[k] = s[k]
  <2>1. Begun(t, S, f, 7) /\ AtMostOne(y, S)
    BY <1>2, <1>5
  <2>2. /\ Begun(u, S, f, 7 + 1) /\ Len(t) <= Len(u)
        /\ \A k \in 1..Len(t) : u[k] = t[k]
    BY <2>1, 7 \in Nat, Extended
  <2> HIDE DEF u
  <2> QED
    BY <1>5, <2>2
<1>7. y = <<c>> => Len(u) = Len(s) + 1 /\ u[Len(s) + 1] = c
  <2>1. s \in Seq(S)
    BY DEF Begun
  <2> QED
    BY <1>1, <1>5, <2>1, Appended
<1> HIDE DEF u
<1>8. /\ Begun(v, S, f, 7 + 1 + 1) /\ Len(u) <= Len(v)
      /\ \A k \in 1..Len(u) : v[k] = u[k]
  BY SMTT(30), <1>2, <1>6, 7 + 1 \in Nat, Extended
<1> HIDE DEF v
<1>9. /\ s \in Seq(S) /\ Len(s) \in 2..7 /\ DOMAIN s = 1..Len(s)
      /\ u \in Seq(S) /\ Len(u) \in 2..8
      /\ v \in Seq(S) /\ Len(v) \in 2..9 /\ v[1] = f
  BY <1>6, <1>8, LenProperties DEF Begun
<1>10. \E k \in 1..8 : k <= Len(v) /\ v[k].category = "capability_assessment"
  <2>1. CASE ~Has(s, "capability_assessment")
    <3>1. Len(u) = Len(s) + 1 /\ u[Len(s) + 1] = c
      BY <1>2, <1>7, <2>1
    <3>2. Len(s) + 1 \in 1..8 /\ Len(s) + 1 <= Len(v) /\ v[Len(s) + 1] = c
      BY <1>8, <1>9, <3>1
    <3> QED
      BY <1>1, <3>2
  <2>2. CASE Has(s, "capability_assessment")
    <3>1. PICK k \in 1..Len(s) : s[k].category = "capability_assessment"
      BY <1>9, <2>2 DEF Has
    <3>2. k \in 1..8 /\ k \in 1..Len(u) /\ k <= Len(v)
      <4>1. Len(s) <= Len(u) /\ Len(u) <= Len(v)
        BY <1>6, <1>8
      <4>2. Len(s) \in 2..7 /\ Len(u) \in 2..8 /\ Len(v) \in 2..9
        BY <1>9
      <4> QED
        BY ONLY k \in 1..Len(s), <4>1, <4>2, WithinEight
    <3>3. v[k] = s[k]
      BY <1>6, <1>8, <3>2
    <3> QED
      BY <3>1, <3>2, <3>3
  <2> QED
    BY <2>1, <2>2
<1>11. \E k \in 1..8 : k <= Len(v) /\ v[k].category = "experience_follow_up"
  <2>1. 1 \in 1..8 /\ 1 <= Len(v)
    BY <1>9
  <2> QED
    BY <1>9, <2>1
<1>12. ensureQuestionCoverage(s, profile) = v
  BY <1>3 DEF t, u, v
<1> QED
  BY <1>9, <1>10, <1>11, <1>12 DEF Covered

LEMMA GenerateCovers ==
  ASSUME NEW profile, NEW jd
  PROVE  \E S : Generate(profile, jd) \in Seq(S) /\ Covered(Generate(profile, jd))
<1> DEFINE matched == matchSkills(profile["skills"], jd)
           a == Experience("experience-depth", profile["company"])
           b == Experience("decision-making", profile["title"])
           q1 == Experience("growth-trajectory",
                            UNION {formatExperience(m) : m \in profile["months"]})
           q2 == Capability("job-skill-fit", matched)
           q3 == Capability("architecture", {})
           q4 == Capability("collaboration", {})
           q5 == Capability("quality-reliability", {})
           S == {a, b, q1, q2, q3, q4, q5, Experience("experience-depth", {}),
                 Capability("capability-fit", {}), Capability("learning-agility", {})}
           w1 == When(profile["months"] # {}, q1)
           w2 == When(matched # {}, q2)
           w3 == When("architecture" \in jd, q3)
           w4 == When("collaboration" \in jd, q4)
           w5 == When("quality" \in jd, q5)
           s5 == <<a, b>> \o w1 \o w2 \o w3 \o w4 \o w5
<1>1. Generate(profile, jd) = ensureQuestionCoverage(s5, profile)
  BY DEF Generate
<1>2. a.category = "experience_follow_up"
  BY DEF Experience
<1>3. /\ a \in S /\ b \in S /\ q1 \in S /\ q2 \in S /\ q3 \in S /\ q4 \in S /\ q5 \in S
      /\ Experience("experience-depth", {}) \in S
      /\ Capability("capability-fit", {}) \in S /\ Capability("learning-agility", {}) \in S
  OBVIOUS
<1> HIDE DEF a, b, q1, q2, q3, q4, q5, S, matched
<1>4. /\ AtMostOne(w1, S) /\ AtMostOne(w2, S) /\ AtMostOne(w3, S)
      /\ AtMostOne(w4, S) /\ AtMostOne(w5, S)
  BY <1>3, WhenIsAtMostOne
<1> HIDE DEF w1, w2, w3, w4, w5
<1>5. Begun(<<a, b>>, S, a, 2)
  BY <1>3 DEF Begun
<1>6. Begun(<<a, b>> \o w1, S, a, 2 + 1)
  BY <1>4, <1>5, 2 \in Nat, Extended
<1>7. Begun(<<a, b>> \o w1 \o w2, S, a, 2 + 1 + 1)
  BY <1>4, <1>6, 2 + 1 \in Nat, Extended
<1>8. Begun(<<a, b>> \o w1 \o w2 \o w3, S, a, 2 + 1 + 1 + 1)
  BY <1>4, <1>7, 2 + 1 + 1 \in Nat, Extended
<1>9. Begun(<<a, b>> \o w1 \o w2 \o w3 \o w4, S, a, 2 + 1 + 1 + 1 + 1)
  BY <1>4, <1>8, 2 + 1 + 1 + 1 \in Nat, Extended
<1>10. Begun(s5, S, a, 2 + 1 + 1 + 1 + 1 + 1)
  BY <1>4, <1>9, 2 + 1 + 1 + 1 + 1 \in Nat, Extended
<1> HIDE DEF s5
<1>11. /\ ensureQuestionCoverage(s5, profile) \in Seq(S)
       /\ Covered(ensureQuestionCoverage(s5, profile))
  <2>1. Begun(s5, S, a, 7)
    BY <1>10
  <2> QED
    BY <1>2, <1>3, <2>1, RoomForCoverage
<1> QED
  BY <1>1, <1>11

LEMMA FallbackCovers ==
  ASSUME NEW profile
  PROVE  \E S : buildFallbackQuestions(profile) \in Seq(S)
                /\ Covered(buildFallbackQuestions(profile))
<1> DEFINE a == Experience("experience-impact", profile["name"])
           b == Experience("ownership-learning", {})
           c == Capability("capability-prioritization", profile["skills"])
           d == Capability("quality-collaboration", {})
<1>1. a.category = "experience_follow_up" /\ c.category = "capability_assessment"
  BY DEF Experience, Capability
<1>2. buildFallbackQuestions(profile) = <<a, b, c, d>>
  BY DEF buildFallbackQuestions
<1> HIDE DEF a, b, c, d
<1>3. <<a, b, c, d>> \in Seq({a, b, c, d})
  OBVIOUS
<1>4. /\ Len(<<a, b, c, d>>) = 4
      /\ <<a, b, c, d>>[1] = a /\ <<a, b, c, d>>[3] = c
  OBVIOUS
<1>5. Covered(<<a, b, c, d>>)
  BY <1>1, <1>4 DEF Covered
<1> QED
  BY <1>2, <1>3, <1>5

(* Every saved bank asks about experience and about capability, for any    *)
(* profile and any job description: what ensureQuestionCoverage puts at    *)
(* the end is never what trimQuestions cuts.                               *)
THEOREM BanksCover == Spec => []BankCovers
<1>1. ASSUME NEW profile, NEW jd
      PROVE  /\ Has(QuestionsFor(profile, jd), "experience_follow_up")
             /\ Has(QuestionsFor(profile, jd), "capability_assessment")
  <2> DEFINE s == IF jd = {} THEN buildFallbackQuestions(profile) ELSE Generate(profile, jd)
  <2>1. \E S : s \in Seq(S) /\ Covered(s)
    BY GenerateCovers, FallbackCovers
  <2>2. QuestionsFor(profile, jd) = trimQuestions(s)
    BY DEF QuestionsFor
  <2> HIDE DEF s
  <2>3. Has(trimQuestions(s), "experience_follow_up")
    BY <2>1, NotCut DEF Covered
  <2>4. Has(trimQuestions(s), "capability_assessment")
    BY <2>1, NotCut DEF Covered
  <2> QED
    BY <2>2, <2>3, <2>4
<1>2. IInv => BankCovers
  <2> SUFFICES ASSUME IInv, NEW i \in DOMAIN bank
               PROVE  /\ Has(bank[i].questions, "experience_follow_up")
                      /\ Has(bank[i].questions, "capability_assessment")
    BY DEF BankCovers
  <2>1. \E profile : bank[i].questions = QuestionsFor(profile, bank[i].jd)
    BY DEF IInv, BanksKept, BankOfOneMoment
  <2> QED
    BY <1>1, <2>1
<1> QED
  BY <1>2, InitIInv, StepIInv, PTL DEF Spec
-----------------------------------------------------------------------------
(* The profiles.  A text is stored with what it says: nothing was read for *)
(* a candidate who is not stored.                                          *)
TextsKept ==
  /\ DOMAIN profiles \subseteq Candidates
  /\ read \in [Candidates -> Seq(Texts)]
  /\ \A c \in Candidates : read[c] # << >> => c \in DOMAIN profiles

ProfilesInv == TextsKept /\ ProfileTellsLastWord

(* The first value of a column in which nothing, or one line, says         *)
(* anything.                                                               *)
LEMMA FirstOfNothing ==
  ASSUME NEW column, \A k \in DOMAIN column : column[k] = {}
  PROVE  First(column) = {}
BY DEF First

LEMMA FirstOfOne ==
  ASSUME NEW column, DOMAIN column \subseteq Nat, NEW n \in DOMAIN column, column[n] # {},
         \A k \in DOMAIN column \ {n} : column[k] = {}
  PROVE  First(column) = column[n]
<1> DEFINE told == {k \in DOMAIN column : column[k] # {}}
<1>1. told = {n} /\ n \in Nat
  OBVIOUS
<1> HIDE DEF told
<1>2. (CHOOSE k \in told : \A j \in told : k <= j) = n
  BY <1>1
<1> QED
  BY <1>1, <1>2 DEF First, told

LEMMA LabeledIfClear ==
  ASSUME NEW text \in Texts, NEW field \in Labels, Clear(text, field)
  PROVE  /\ extractLabeledValue(text, field) = ClearValue(text, field)
         /\ ClearValue(text, field) # {}
<1> DEFINE column == [k \in DOMAIN text |-> IF field \in text[k].labels THEN text[k].value ELSE {}]
<1>1. DOMAIN text \subseteq Nat
  BY ProfileAssumption
<1>2. PICK n \in ClearLines(text, field) :
        \A j \in DOMAIN text \ {n} : field \notin text[j].labels
  BY DEF Clear
<1>3. /\ n \in DOMAIN text /\ text[n].labels = {field}
      /\ text[n].value \ {"-"} # {}
  BY <1>2 DEF ClearLines
<1>4. ClearLines(text, field) = {n}
  BY <1>2, <1>3 DEF ClearLines
<1>5. ClearValue(text, field) = text[n].value \ {"-"}
  BY <1>4 DEF ClearValue
<1>6. /\ DOMAIN column = DOMAIN text
      /\ column[n] = text[n].value /\ column[n] # {}
      /\ \A k \in DOMAIN text \ {n} : column[k] = {}
  BY <1>2, <1>3
<1>7. extractLabeledValue(text, field) = First(column) \ {"-"}
  BY DEF extractLabeledValue
<1> HIDE DEF column
<1>8. First(column) = column[n]
  BY <1>1, <1>3, <1>6, FirstOfOne
<1> QED
  BY <1>3, <1>5, <1>6, <1>7, <1>8

LEMMA NothingIfUnlabeled ==
  ASSUME NEW text, NEW field, \A k \in DOMAIN text : field \notin text[k].labels
  PROVE  extractLabeledValue(text, field) = {}
<1> DEFINE column == [k \in DOMAIN text |-> IF field \in text[k].labels THEN text[k].value ELSE {}]
<1>1. \A k \in DOMAIN column : column[k] = {}
  OBVIOUS
<1>2. extractLabeledValue(text, field) = First(column) \ {"-"}
  BY DEF extractLabeledValue
<1> HIDE DEF column
<1> QED
  BY <1>1, <1>2, FirstOfNothing

(* What the parser makes of a clear text and of a silent one. *)
LEMMA ParsedIfClear ==
  ASSUME NEW text \in Texts, NEW field \in Labels, Clear(text, field)
  PROVE  /\ mapCoreFields(text)[field] = ClearValue(text, field)
         /\ ClearValue(text, field) # {}
<1>1. /\ extractLabeledValue(text, field) = ClearValue(text, field)
      /\ ClearValue(text, field) # {}
  BY LabeledIfClear
<1>2. CASE field = "name"
  <2>1. \A email : NameIn(text, email) = extractLabeledValue(text, "name")
    BY <1>1, <1>2 DEF NameIn
  <2> QED
    BY <1>1, <1>2, <2>1 DEF mapCoreFields, Fields, Labels
<1>3. CASE field # "name"
  BY <1>1, <1>3 DEF mapCoreFields, Fields, Labels
<1> QED
  BY <1>2, <1>3

LEMMA NothingParsedIfSilent ==
  ASSUME NEW text, NEW field \in Labels, Silent(text, field)
  PROVE  mapCoreFields(text)[field] = {}
<1>1. extractLabeledValue(text, field) = {}
  BY NothingIfUnlabeled DEF Silent
<1>2. CASE field = "name"
  <2> DEFINE top == [k \in DOMAIN text |-> text[k].plain]
             emails == [k \in DOMAIN text |-> text[k].email]
  <2>1. /\ \A k \in DOMAIN top : top[k] = {}
        /\ \A k \in DOMAIN emails : emails[k] = {}
    BY <1>2 DEF Silent
  <2>2. mapCoreFields(text)["name"] = NameIn(text, First(emails))
    BY DEF mapCoreFields, Fields, Labels
  <2>3. NameIn(text, First(emails)) =
          LET labeled == extractLabeledValue(text, "name")
          IN CASE labeled # {} -> labeled
               [] labeled = {} /\ First(top) # {} -> First(top)
               [] OTHER -> deriveNameFromEmail(First(emails))
    BY DEF NameIn
  <2> HIDE DEF top, emails
  <2>4. First(top) = {} /\ First(emails) = {}
    BY <2>1, FirstOfNothing
  <2> QED
    BY <1>1, <1>2, <2>2, <2>3, <2>4 DEF deriveNameFromEmail
<1>3. CASE field # "name"
  BY <1>1, <1>3 DEF mapCoreFields, Fields, Labels
<1> QED
  BY <1>2, <1>3

LEMMA CreateProfileStep ==
  ASSUME ProfilesInv, NEW c \in Candidates, CreateCandidate(c)
  PROVE  ProfilesInv'
<1>1. /\ c \notin DOMAIN profiles /\ UNCHANGED read
      /\ DOMAIN profiles' = DOMAIN profiles \cup {c}
      /\ \A d \in DOMAIN profiles : profiles'[d] = profiles[d]
  BY DEF CreateCandidate, Store
<1>2. read[c] = << >>
  BY <1>1 DEF ProfilesInv, TextsKept
<1>3. TextsKept'
  BY <1>1 DEF ProfilesInv, TextsKept
<1>4. ASSUME NEW d \in DOMAIN profiles', NEW field \in Labels, NEW k \in DOMAIN read[d],
             Clear(read[d][k], field),
             \A j \in (k + 1)..Len(read[d]) : Silent(read[d][j], field)
      PROVE  profiles'[d][field] = ClearValue(read[d][k], field)
  <2>1. d # c
    BY <1>2, <1>4
  <2> QED
    BY <1>1, <1>4, <2>1 DEF ProfilesInv, ProfileTellsLastWord
<1> QED
  BY <1>1, <1>3, <1>4 DEF ProfilesInv, ProfileTellsLastWord

LEMMA UpsertProfileStep ==
  ASSUME ProfilesInv, NEW c \in Candidates, NEW text \in Texts, UpsertCandidate(c, text)
  PROVE  ProfilesInv'
<1> DEFINE old == IF c \in DOMAIN profiles THEN profiles[c] ELSE Nothing
           made == [field \in Fields |->
                      chooseValue(mapCoreFields(text)[field], old[field], Default(field))]
           n == Len(read[c])
<1>1. /\ DOMAIN profiles' = DOMAIN profiles \cup {c}
      /\ \A d \in DOMAIN profiles : d # c => profiles'[d] = profiles[d]
      /\ profiles'[c] = made
      /\ read' = [read EXCEPT ![c] = Append(@, text)]
  BY DEF UpsertCandidate, Store
<1>2. /\ read \in [Candidates -> Seq(Texts)] /\ read[c] \in Seq(Texts)
      /\ DOMAIN profiles \subseteq Candidates
  BY DEF ProfilesInv, TextsKept
<1>3. /\ read'[c] = Append(read[c], text)
      /\ \A d \in Candidates : d # c => read'[d] = read[d]
  BY <1>1, <1>2
<1>4. /\ n \in Nat /\ DOMAIN read[c] = 1..n
      /\ read'[c] \in Seq(Texts) /\ DOMAIN read'[c] = 1..(n + 1) /\ Len(read'[c]) = n + 1
      /\ read'[c][n + 1] = text
      /\ \A k \in 1..n : read'[c][k] = read[c][k]
  BY <1>2, <1>3, AppendProperties, LenProperties
<1>5. TextsKept'
  <2>1. read' \in [Candidates -> Seq(Texts)]
    BY <1>1, <1>2, <1>3, <1>4
  <2> QED
    BY <1>1, <1>2, <1>3, <2>1 DEF ProfilesInv, TextsKept
<1>6. \A field \in Labels :
        /\ field \in Fields
        /\ made[field] = chooseValue(mapCoreFields(text)[field], old[field], Default(field))
  BY DEF Fields
<1> HIDE DEF made
<1>7. ASSUME NEW field \in Labels, NEW k \in 1..(n + 1),
             Clear(read'[c][k], field),
             \A j \in (k + 1)..(n + 1) : Silent(read'[c][j], field)
      PROVE  made[field] = ClearValue(read'[c][k], field)
  <2>1. CASE k = n + 1
    <3>1. mapCoreFields(text)[field] = ClearValue(text, field) /\ ClearValue(text, field) # {}
      BY <1>4, <1>7, <2>1, ParsedIfClear
    <3>2. made[field] = mapCoreFields(text)[field]
      BY <1>6, <3>1 DEF chooseValue
    <3> QED
      BY <1>4, <2>1, <3>1, <3>2
  <2>2. CASE k # n + 1
    <3>1. k \in 1..n /\ n + 1 \in (k + 1)..(n + 1) /\ (k + 1)..n \subseteq (k + 1)..(n + 1)
      BY <1>4, <2>2
    <3>2. read'[c][k] = read[c][k] /\ read[c][k] \in Texts
      BY <1>2, <1>4, <3>1
    <3>3. Clear(read[c][k], field) /\ Silent(text, field)
      BY <1>4, <1>7, <3>1, <3>2
    <3>4. \A j \in (k + 1)..n : Silent(read[c][j], field)
      <4> TAKE j \in (k + 1)..n
      <4>1. j \in 1..n /\ j \in (k + 1)..(n + 1)
        BY <1>4, <3>1
      <4>2. Silent(read'[c][j], field) /\ read'[c][j] = read[c][j]
        BY <1>4, <1>7, <4>1
      <4> QED
        BY <4>2
    <3>5. c \in DOMAIN profiles
      <4>1. read[c] # << >>
        BY <1>4, <3>1
      <4> QED
        BY <4>1 DEF ProfilesInv, TextsKept
    <3>6. profiles[c][field] = ClearValue(read[c][k], field)
      BY <1>4, <3>1, <3>3, <3>4, <3>5 DEF ProfilesInv, ProfileTellsLastWord
    <3>7. ClearValue(read[c][k], field) # {}
      BY <3>2, <3>3, ParsedIfClear
    <3>8. mapCoreFields(text)[field] = {}
      BY <3>3, NothingParsedIfSilent
    <3>9. made[field] = old[field]
      BY <1>6, <3>5, <3>6, <3>7, <3>8 DEF chooseValue
    <3> QED
      BY <3>2, <3>5, <3>6, <3>9
  <2> QED
    BY <2>1, <2>2
<1>8. ASSUME NEW d \in DOMAIN profiles', NEW field \in Labels, NEW k \in DOMAIN read'[d],
             Clear(read'[d][k], field),
             \A j \in (k + 1)..Len(read'[d]) : Silent(read'[d][j], field)
      PROVE  profiles'[d][field] = ClearValue(read'[d][k], field)
  <2>1. CASE d = c
    BY <1>1, <1>4, <1>7, <1>8, <2>1
  <2>2. CASE d # c
    <3>1. d \in DOMAIN profiles /\ read'[d] = read[d] /\ profiles'[d] = profiles[d]
      BY <1>1, <1>2, <1>3, <2>2
    <3> QED
      BY <1>8, <3>1 DEF ProfilesInv, ProfileTellsLastWord
  <2> QED
    BY <2>1, <2>2
<1> QED
  BY <1>5, <1>8 DEF ProfilesInv, ProfileTellsLastWord

(* A profile says of a field what the last resume said that was clear      *)
(* about it, for any lines and texts: the first line that has a label is   *)
(* the only one, and what a later resume does not mention is not cleared.  *)
THEOREM ProfilesTellLastWord == Spec => []ProfileTellsLastWord
<1>1. Init => ProfilesInv
  BY DEF Init, ProfileInit, ProfilesInv, TextsKept, ProfileTellsLastWord
<1>2. ProfilesInv /\ [Next]_vars => ProfilesInv'
  <2> SUFFICES ASSUME ProfilesInv, [Next]_vars
               PROVE  ProfilesInv'
    OBVIOUS
  <2>1. CASE UNCHANGED profileVars
    BY <2>1 DEF profileVars, ProfilesInv, TextsKept, ProfileTellsLastWord
  <2>2. ASSUME NEW i \in Interviews, NEW assignment \in Assignment, SetInterview(i, assignment)
        PROVE  ProfilesInv'
    BY <2>1, <2>2 DEF SetInterview
  <2>3. ASSUME NEW w \in Workers,
               \/ Look(w) \/ GetCandidate(w) \/ GenerateQuestionRecommendation(w)
               \/ SaveQuestionRecommendation(w)
        PROVE  ProfilesInv'
    BY <2>1, <2>3 DEF Look, GetCandidate, GenerateQuestionRecommendation,
                      SaveQuestionRecommendation
  <2>4. CASE UNCHANGED vars
    BY <2>1, <2>4 DEF vars, profileVars
  <2> QED
    BY <2>2, <2>3, <2>4, CreateProfileStep, UpsertProfileStep DEF Next
<1> QED
  BY <1>1, <1>2, PTL DEF Spec, ProfilesInv
-----------------------------------------------------------------------------
(***************************************************************************)
(* The search.                                                             *)
(***************************************************************************)
LEMMA LeastNatural ==
  ASSUME NEW S, S \subseteq Nat, S # {}
  PROVE  \E k \in S : \A l \in S : k <= l
<1> DEFINE UpTo(k) == 0..k
           T == {UpTo(k) : k \in S}
           R == StrictSubsetOrdering(Nat)
<1>1. \A k \in Nat : IsFiniteSet(UpTo(k)) /\ UpTo(k) \subseteq Nat
  BY FS_Interval
<1>2. IsWellFoundedOn(R, FiniteSubsetsOf(Nat))
  BY FS_StrictSubsetOrderingWellFounded
<1>3. T \subseteq FiniteSubsetsOf(Nat) /\ T # {}
  <2> HIDE DEF UpTo
  <2> QED
    BY <1>1 DEF FiniteSubsetsOf
<1>4. PICK x \in T : \A y \in T : <<y, x>> \notin R
  <2> HIDE DEF T, R
  <2> QED
    BY <1>2, <1>3, WFMin
<1>5. PICK k \in S : x = UpTo(k)
  BY <1>4
<1>6. ASSUME NEW l \in S, ~ (k <= l)
      PROVE  FALSE
  <2>1. UpTo(l) \subseteq UpTo(k) /\ UpTo(l) # UpTo(k)
    BY <1>6
  <2>2. <<UpTo(l), UpTo(k)>> \in R
    <3> HIDE DEF UpTo
    <3> QED
      BY <1>1, <2>1 DEF StrictSubsetOrdering
  <2> QED
    BY <1>4, <1>5, <2>2
<1> QED
  BY <1>6

-----------------------------------------------------------------------------
(* Texts *)

LEMMA FoundAt ==
  ASSUME NEW t, NEW part
  PROVE  HasText(t, part) <=>
           \E i \in 0..Len(t), j \in 0..Len(t) : part = SubSeq(t, i + 1, j)
BY SMT DEF HasText, SubSeqs

LEMMA NoTextIsFound ==
  ASSUME NEW t \in Text
  PROVE  HasText(t, << >>)
<1>1. 0 \in 0..Len(t) /\ SubSeq(t, 0 + 1, 0) = << >>
  BY DEF Text
<1> QED
  BY <1>1, FoundAt

LEMMA PieceOf ==
  ASSUME NEW W, NEW t \in Seq(W), NEW i \in 0..Len(t), NEW j \in i..Len(t)
  PROVE  /\ SubSeq(t, i + 1, j) \in Seq(W)
         /\ Len(SubSeq(t, i + 1, j)) = j - i
         /\ \A k \in 1..(j - i) : SubSeq(t, i + 1, j)[k] = t[i + k]
<1>1. Len(t) \in Nat /\ i \in Nat /\ j \in Nat /\ i <= j /\ j <= Len(t)
  OBVIOUS
<1>2. \A k \in (i + 1)..j : t[k] \in W
  BY <1>1
<1>3. /\ SubSeq(t, i + 1, j) \in Seq(W)
      /\ Len(SubSeq(t, i + 1, j)) = IF i + 1 <= j THEN j - (i + 1) + 1 ELSE 0
      /\ \A k \in 1..(j - (i + 1) + 1) : SubSeq(t, i + 1, j)[k] = t[(i + 1) + k - 1]
  BY <1>1, <1>2, SubSeqProperties
<1>4. /\ j - (i + 1) + 1 = j - i
      /\ (IF i + 1 <= j THEN j - (i + 1) + 1 ELSE 0) = j - i
      /\ \A k \in 1..(j - i) : (i + 1) + k - 1 = i + k
  BY <1>1
<1>5. \A k \in 1..(j - i) : SubSeq(t, i + 1, j)[k] = t[i + k]
  BY <1>3, <1>4
<1> QED
  BY ONLY <1>3, <1>4, <1>5

(* Who has two texts put behind one another has both.                      *)
LEMMA PartsAreFound ==
  ASSUME NEW t \in Text, NEW a \in Text, NEW b \in Text,
         HasText(t, a \o b)
  PROVE  HasText(t, a) /\ HasText(t, b)
<1>1. t \in Seq(STRING) /\ a \in Seq(STRING) /\ b \in Seq(STRING)
  BY DEF Text
<1>2. PICK i \in 0..Len(t), j \in 0..Len(t) : a \o b = SubSeq(t, i + 1, j)
  BY FoundAt
<1> DEFINE A == Len(a)
           B == Len(b)
<1>3. /\ A \in Nat /\ B \in Nat /\ Len(t) \in Nat
      /\ Len(a \o b) = A + B
      /\ \A k \in 1..A : (a \o b)[k] = a[k]
      /\ \A k \in 1..B : (a \o b)[A + k] = b[k]
  BY <1>1, ConcatProperties
<1>4. CASE i <= j
  <2> DEFINE m == i + A
  <2>1. /\ Len(a \o b) = j - i
        /\ \A k \in 1..(j - i) : (a \o b)[k] = t[i + k]
    <3>1. j \in i..Len(t)
      BY <1>3, <1>4
    <3> QED
      BY <1>1, <1>2, <3>1, PieceOf
  <2>2. m \in 0..Len(t) /\ j \in m..Len(t) /\ m \in i..Len(t) /\ m - i = A /\ j - m = B
    BY <1>3, <1>4, <2>1
  <2>3. /\ \A k \in 1..A : a[k] = t[i + k]
        /\ \A k \in 1..B : b[k] = t[m + k]
    <3>1. \A k \in 1..A : k \in 1..(j - i)
      BY <1>3, <2>2
    <3>2. \A k \in 1..B : A + k \in 1..(j - i) /\ i + (A + k) = m + k
      BY <1>3, <2>2
    <3> QED
      BY <1>3, <2>1, <3>1, <3>2
  <2> HIDE DEF m
  <2>4. a = SubSeq(t, i + 1, m)
    <3>1. /\ SubSeq(t, i + 1, m) \in Seq(STRING) /\ Len(SubSeq(t, i + 1, m)) = A
          /\ \A k \in 1..A : SubSeq(t, i + 1, m)[k] = t[i + k]
      BY <1>1, <2>2, PieceOf
    <3> QED
      BY <1>1, <2>3, <3>1, SeqEqual
  <2>5. b = SubSeq(t, m + 1, j)
    <3>1. /\ SubSeq(t, m + 1, j) \in Seq(STRING) /\ Len(SubSeq(t, m + 1, j)) = B
          /\ \A k \in 1..B : SubSeq(t, m + 1, j)[k] = t[m + k]
      BY <1>1, <2>2, PieceOf
    <3> QED
      BY <1>1, <2>3, <3>1, SeqEqual
  <2> QED
    BY <2>2, <2>4, <2>5, FoundAt
<1>5. CASE ~ (i <= j)
  <2>1. SubSeq(t, i + 1, j) = << >>
    BY <1>3, <1>5, SubSeqEmpty
  <2>2. A = 0 /\ B = 0
    <3>1. Len(a \o b) = 0
      BY <1>2, <2>1
    <3> QED
      BY ONLY <1>3, <3>1
  <2>3. a = << >> /\ b = << >>
    BY <1>1, <2>2
  <2> QED
    BY <2>3, NoTextIsFound
<1> QED
  BY <1>3, <1>4, <1>5

(* A merged condition says what both sides say.                            *)
LEMMA MergedText ==
  ASSUME NEW t \in Text, NEW a \in Text, NEW b \in Text
  PROVE  HasText(t, mergeTextCondition(a, b))
           => HasText(t, a) /\ HasText(t, b)
BY NoTextIsFound, PartsAreFound DEF mergeTextCondition

LEMMA MergedIsNotLost ==
  ASSUME NEW a \in Text, NEW b \in Text, a # << >> \/ b # << >>
  PROVE  mergeTextCondition(a, b) # << >>
<1>1. a # << >> => a \o b # << >>
  BY DEF Text
<1> QED
  BY <1>1 DEF mergeTextCondition
-----------------------------------------------------------------------------
(* Limits on experience *)

LEMMA FirstPhraseIsOne ==
  ASSUME NEW e \in Seq(Phrase), NEW kind, Phrases(e, kind) # {}
  PROVE  \E k \in DOMAIN e : e[k].asks = kind /\ FirstPhrase(e, kind) = e[k]
<1> DEFINE S == Phrases(e, kind)
<1>1. S # {} /\ S \subseteq Nat /\ S \subseteq DOMAIN e /\ \A k \in S : e[k].asks = kind
  BY DEF Phrases
<1>2. \E k \in S : \A j \in S : k <= j
  <2> HIDE DEF S
  <2> QED
    BY <1>1, LeastNatural
<1>3. PICK k \in S : FirstPhrase(e, kind) = e[k]
  BY <1>2 DEF FirstPhrase
<1> QED
  BY <1>1, <1>3

LEMMA PhraseParts ==
  ASSUME NEW e \in Seq(Phrase), NEW k \in DOMAIN e
  PROVE  /\ e[k].asks \in {"min", "max", "range"}
         /\ e[k].low \in Nat /\ e[k].high \in Nat
<1>1. e[k] \in Phrase
  OBVIOUS
<1> QED
  BY <1>1 DEF Phrase

(* The limits made of the phrases, as numbers of years that were said.     *)
LEMMA LimitsAreSaid ==
  ASSUME NEW e \in Seq(Phrase)
  PROVE  LET made == parseNaturalExperience(e)
         IN /\ made.min = 0 \/ \E k \in DOMAIN e :
                 \/ e[k].asks # "max" /\ made.min = e[k].low
                 \/ e[k].asks = "max" /\ made.min = e[k].high
                    /\ e # << >> /\ Head(e).asks = "max" /\ Phrases(e, "range") = {}
            /\ made.max = 0 \/ \E k \in DOMAIN e : e[k].asks # "min" /\ made.max = e[k].high
            /\ made.min \in Nat
            /\ made.max \in Nat
<1> DEFINE made == parseNaturalExperience(e)
           range == FirstPhrase(e, "range")
           max == FirstPhrase(e, "max")
<1>1. \A k \in DOMAIN e : e[k].low \in Nat /\ e[k].high \in Nat
  BY PhraseParts
<1>2. CASE Phrases(e, "range") # {}
  <2>1. made.min = range.low /\ made.max = range.high
    BY <1>2 DEF parseNaturalExperience
  <2>2. PICK k \in DOMAIN e : e[k].asks = "range" /\ range = e[k]
    BY <1>2, FirstPhraseIsOne
  <2> QED
    BY <1>1, <2>1, <2>2
<1>3. CASE Phrases(e, "range") = {}
  <2>1. /\ made.min = IF e = << >> THEN 0
                       ELSE IF Head(e).asks = "max" THEN Head(e).high ELSE Head(e).low
        /\ made.max = IF Phrases(e, "max") = {} THEN 0 ELSE max.high
    BY <1>3 DEF parseNaturalExperience
  <2>2. Phrases(e, "max") # {} =>
          \E k \in DOMAIN e : e[k].asks = "max" /\ max = e[k]
    BY FirstPhraseIsOne
  <2>3. e # << >> => 1 \in DOMAIN e /\ Head(e) = e[1]
    OBVIOUS
  <2>4. /\ made.max = 0 \/ \E k \in DOMAIN e : e[k].asks # "min" /\ made.max = e[k].high
        /\ made.max \in Nat
    BY <1>1, <2>1, <2>2
  <2>5. /\ made.min = 0 \/ \E k \in DOMAIN e :
             \/ e[k].asks # "max" /\ made.min = e[k].low
             \/ e[k].asks = "max" /\ made.min = e[k].high
                /\ e # << >> /\ Head(e).asks = "max" /\ Phrases(e, "range") = {}
        /\ made.min \in Nat
    BY <1>1, <1>3, <2>1, <2>3
  <2> QED
    BY <2>4, <2>5
<1> QED
  BY <1>2, <1>3

(* A query that limits experience once is understood; a lower limit after  *)
(* the upper one is taken for it.                                          *)
LEMMA LimitsIfSaidOnce ==
  ASSUME NEW e \in Seq(Phrase), LimitedOnce(e), NEW k \in DOMAIN e
  PROVE  LET made == parseNaturalExperience(e)
         IN /\ e[k].asks # "min" => made.max = e[k].high /\ made.max > 0
            /\ e[k].asks # "max" => made.min = e[k].low \/ (made.min = made.max /\ made.max > 0)
<1> DEFINE made == parseNaturalExperience(e)
<1>1. /\ \A j \in DOMAIN e : e[j].asks \in {"min", "max", "range"} /\ e[j].high \in Nat
      /\ \A i, j \in DOMAIN e : i # j => {e[i].asks, e[j].asks} = {"min", "max"}
      /\ \A j \in DOMAIN e : e[j].asks # "min" => e[j].high > 0
  BY PhraseParts DEF LimitedOnce
<1>2. \A i, j \in DOMAIN e : i # j => e[i].asks # e[j].asks /\ e[i].asks # "range"
  <2> SUFFICES ASSUME NEW i \in DOMAIN e, NEW j \in DOMAIN e, i # j
               PROVE  e[i].asks # e[j].asks /\ e[i].asks # "range"
    OBVIOUS
  <2>1. {e[i].asks, e[j].asks} = {"min", "max"}
    BY <1>1
  <2>2. "min" \in {e[i].asks, e[j].asks} /\ "max" \in {e[i].asks, e[j].asks}
    BY <2>1
  <2> QED
    BY <2>2
<1>3. CASE e[k].asks = "range"
  <2>1. Phrases(e, "range") # {}
    BY <1>3 DEF Phrases
  <2>2. PICK j \in DOMAIN e : e[j].asks = "range" /\ FirstPhrase(e, "range") = e[j]
    BY <2>1, FirstPhraseIsOne
  <2>3. j = k
    BY <1>2, <1>3, <2>2
  <2> QED
    BY <1>1, <1>3, <2>1, <2>2, <2>3 DEF parseNaturalExperience
<1>4. CASE e[k].asks # "range"
  <2>1. Phrases(e, "range") = {}
    BY <1>2, <1>4 DEF Phrases
  <2>2. /\ made.min = IF e = << >> THEN 0
                       ELSE IF Head(e).asks = "max" THEN Head(e).high ELSE Head(e).low
        /\ made.max = IF Phrases(e, "max") = {} THEN 0
                       ELSE FirstPhrase(e, "max").high
    BY <2>1 DEF parseNaturalExperience
  <2>3. \A j \in DOMAIN e : e[j].asks = "max" => made.max = e[j].high /\ made.max > 0
    <3> SUFFICES ASSUME NEW j \in DOMAIN e, e[j].asks = "max"
                 PROVE  made.max = e[j].high /\ made.max > 0
      OBVIOUS
    <3>1. Phrases(e, "max") # {}
      BY DEF Phrases
    <3>2. PICK i \in DOMAIN e : e[i].asks = "max" /\ FirstPhrase(e, "max") = e[i]
      BY <3>1, FirstPhraseIsOne
    <3>3. i = j
      BY <1>2, <3>2
    <3> QED
      BY <1>1, <2>2, <3>1, <3>2, <3>3
  <2>4. e # << >> /\ 1 \in DOMAIN e /\ Head(e) = e[1]
    OBVIOUS
  <2>5. CASE e[k].asks = "max"
    BY <2>3, <2>5
  <2>6. CASE e[k].asks = "min"
    <3>1. CASE k = 1
      BY <2>2, <2>4, <2>6, <3>1
    <3>2. CASE k # 1
      <4>1. e[1].asks = "max"
        BY <1>1, <1>2, <2>4, <2>6, <3>2
      <4> QED
        BY <2>2, <2>3, <2>4, <2>6, <4>1
    <3> QED
      BY <3>1, <3>2
  <2> QED
    BY <1>1, <1>4, <2>5, <2>6
<1> QED
  BY <1>3, <1>4

(* What is asked for and who is there, part by part.                       *)
LEMMA RequestParts ==
  ASSUME typed \in TypedQueries, natural \in NaturalQueries
  PROVE  /\ typed.keyword \in Text /\ natural.keyword \in Text
         /\ typed.texts \in [TextFields -> Text]
         /\ natural.texts \in [TextFields -> Text]
         /\ typed.skills \in Seq(Text \ {<< >>})
         /\ natural.skills \in Seq(Text \ {<< >>})
         /\ typed.min \in Nat /\ typed.max \in Nat
         /\ natural.experience \in Seq(Phrase)
         /\ natural.rest \in Text
<1>1. typed \in Query
  BY SearchAssumption
<1>2. [keyword |-> natural.keyword, texts |-> natural.texts, skills |-> natural.skills,
       layers |-> natural.layers, min |-> 0, max |-> 0] \in Query
  BY SearchAssumption
<1>3. natural.experience \in Seq(Phrase)
  <2> DEFINE P == {p \in Phrase : p.asks = "range" => p.low <= p.high}
  <2>1. natural.experience \in Seq(P)
    BY SearchAssumption
  <2>2. P \subseteq Phrase
    OBVIOUS
  <2> HIDE DEF P
  <2> QED
    BY <2>1, <2>2
<1>4. natural.rest \in Text
  BY SearchAssumption
<1> QED
  BY <1>1, <1>2, <1>3, <1>4 DEF Query

LEMMA ProfileParts ==
  ASSUME NEW c \in Profiles
  PROVE  /\ c.name \in Text
         /\ c.texts \in [TextFields -> Text]
         /\ \A skill \in Range(c.skills) : skill \in Text
         /\ c.months \in Nat
<1>1. c \in Profile
  BY SearchAssumption
<1>2. c.skills \in Seq(Text)
  BY <1>1 DEF Profile
<1>3. \A k \in DOMAIN c.skills : c.skills[k] \in Text
  BY <1>2, ElementOfSeq
<1> QED
  BY <1>1, <1>3 DEF Profile, Range

LEMMA KeywordPart ==
  ASSUME NEW c \in Profiles, NEW a \in Text, NEW all,
         \A t \in Text : HasText(t, all) => HasText(t, a)
  PROVE  matchesAnyCandidateField(c, all) => matchesAnyCandidateField(c, a)
<1>1. /\ \A skill \in Range(c.skills) : skill \in Text
      /\ c.name \in Text
      /\ \A f \in TextFields : c.texts[f] \in Text
  BY ProfileParts
<1>2. /\ \A skill \in Range(c.skills) : HasText(skill, all) => HasText(skill, a)
      /\ HasText(c.name, all) => HasText(c.name, a)
      /\ \A f \in TextFields : HasText(c.texts[f], all) => HasText(c.texts[f], a)
  BY <1>1
<1> QED
  BY ONLY <1>2 DEF matchesAnyCandidateField, containsSkill

LEMMA MergedKeyword ==
  ASSUME NEW c \in Profiles,
         NEW a \in Text, NEW b \in Text
  PROVE  /\ matchesAnyCandidateField(c, mergeTextCondition(a, b))
              => /\ matchesAnyCandidateField(c, a)
                 /\ matchesAnyCandidateField(c, b)
         /\ (/\ Agree(a, b, << >>)
             /\ a = << >> \/ matchesAnyCandidateField(c, a)
             /\ b = << >> \/ matchesAnyCandidateField(c, b)
             /\ mergeTextCondition(a, b) # << >>)
              => matchesAnyCandidateField(c, mergeTextCondition(a, b))
<1> DEFINE all == mergeTextCondition(a, b)
<1>1. \A t \in Text :
        HasText(t, all) => HasText(t, a) /\ HasText(t, b)
  BY MergedText
<1>2. \A t \in Text : HasText(t, all) => HasText(t, a)
  BY <1>1
<1>3. \A t \in Text : HasText(t, all) => HasText(t, b)
  BY <1>1
<1>4. matchesAnyCandidateField(c, all)
        => matchesAnyCandidateField(c, a) /\ matchesAnyCandidateField(c, b)
  <2> HIDE DEF all
  <2> QED
    BY <1>2, <1>3, KeywordPart
<1>5. Agree(a, b, << >>) => all = a \/ all = b
  BY DEF Agree, mergeTextCondition
<1>6. ASSUME Agree(a, b, << >>), all # << >>
      PROVE  (a # << >> /\ all = a) \/ (b # << >> /\ all = b)
  BY <1>5, <1>6
<1> QED
  BY <1>4, <1>6

LEMMA MergedTexts ==
  ASSUME NEW c \in Profiles, NEW f \in TextFields,
         NEW a \in Text, NEW b \in Text
  PROVE  HasText(c.texts[f], mergeTextCondition(a, b))
           => HasText(c.texts[f], a) /\ HasText(c.texts[f], b)
<1>1. c.texts[f] \in Text
  BY ProfileParts
<1> QED
  BY <1>1, MergedText

(* The options of a request. *)
Given == TypedOptions(typed)
Made == NaturalOptions(natural)
Wanted == IF GivesNothing(natural) THEN Given
          ELSE mergeCandidateSearchOptions(Given, Made)

(* The words without a label stay in what is looked for as a keyword.      *)
LEMMA WordsStay ==
  ASSUME typed \in TypedQueries, natural \in NaturalQueries
  PROVE  /\ Made.keyword \in Text /\ Keyword(natural) \in Text
         /\ Keyword(natural) # << >> => Made.keyword # << >>
         /\ \A c \in Profiles :
              matchesAnyCandidateField(c, Made.keyword)
                => matchesAnyCandidateField(c, Keyword(natural))
<1>1. natural.keyword \in Text /\ natural.rest \in Text
  BY RequestParts
<1>2. Made.keyword = IF natural.keyword # << >> THEN natural.keyword ELSE Remainder(natural)
  BY DEF Made, NaturalOptions
<1>3. CASE natural.keyword # << >>
  BY <1>1, <1>2, <1>3 DEF Keyword
<1>4. CASE natural.keyword = << >>
  <2> DEFINE tail == IF Left(natural.experience) = {} THEN << >> ELSE PhraseText
             a == natural.rest
  <2>1. Made.keyword = a \o tail /\ Keyword(natural) = a
    BY <1>2, <1>4 DEF Remainder, Keyword
  <2>2. tail \in Text /\ a \in Text
    <3>1. << >> \in Text /\ PhraseText \in Text
      BY SearchAssumption DEF Text
    <3> QED
      BY <1>1, <3>1
  <2> HIDE DEF tail, a
  <2>3. \A t \in Text : HasText(t, a \o tail) => HasText(t, a)
    BY <2>2, PartsAreFound
  <2>4. \A c \in Profiles : matchesAnyCandidateField(c, a \o tail)
                             => matchesAnyCandidateField(c, a)
    BY <2>2, <2>3, KeywordPart
  <2>5. a \o tail \in Text /\ (a # << >> => a \o tail # << >>)
    BY <2>2 DEF Text
  <2> QED
    BY <2>1, <2>2, <2>4, <2>5
<1> QED
  BY <1>3, <1>4

(* Nothing else does if the phrases on experience are understood.          *)
LEMMA NoPhraseStays ==
  ASSUME typed \in TypedQueries, natural \in NaturalQueries, Understood(natural)
  PROVE  Made.keyword = Keyword(natural)
<1> DEFINE e == natural.experience
           made == parseNaturalExperience(e)
<1>1. natural.rest \in Text /\ e \in Seq(Phrase)
  BY RequestParts
<1>2. CASE natural.keyword # << >>
  BY <1>2 DEF Made, NaturalOptions, Keyword
<1>3. CASE natural.keyword = << >>
  <2>1. Left(e) = {}
    <3>1. CASE e = << >>
      BY <3>1 DEF Left, Range
    <3>2. CASE e # << >>
      <4>1. /\ SayOneLimit(e)
            /\ Head(e).asks # "max" \/ Phrases(e, "range") # {}
        BY <1>3, <3>2 DEF Understood
      <4>2. /\ 1 \in DOMAIN e /\ Head(e) = e[1]
            /\ \A k \in DOMAIN e : e[k] = Head(e)
        BY <1>1, <3>2, <4>1 DEF SayOneLimit
      <4>3. /\ Head(e).asks \in {"min", "max", "range"}
            /\ Head(e).low \in Nat /\ Head(e).high \in Nat
            /\ Head(e).asks = "min" => Head(e).low > 0
            /\ Head(e).asks # "min" => Head(e).high > 0
        BY <1>1, <4>1, <4>2, PhraseParts DEF SayOneLimit
      <4>4. \A kind : Phrases(e, kind) # {} => FirstPhrase(e, kind) = Head(e)
        BY <1>1, <4>2, FirstPhraseIsOne
      <4>5. Matched(e) = Head(e)
        BY <4>4 DEF Matched
      <4>6. \A kind : Phrases(e, kind) # {} <=> Head(e).asks = kind
        BY <4>2 DEF Phrases
      <4>7. made.min > 0 \/ made.max > 0
        <5>1. CASE Head(e).asks = "min"
          <6>1. made.min = Head(e).low
            BY <3>2, <4>6, <5>1 DEF parseNaturalExperience
          <6> QED
            BY <4>3, <5>1, <6>1
        <5>2. CASE Head(e).asks = "range"
          <6>1. made.max = Head(e).high
            BY <4>4, <4>6, <5>2 DEF parseNaturalExperience
          <6> QED
            BY <4>3, <5>2, <6>1
        <5> QED
          BY <4>1, <4>3, <4>6, <5>1, <5>2
      <4>8. Left(e) = Range(e) \ {Head(e)}
        BY <4>5, <4>7 DEF Left
      <4> QED
        BY <4>2, <4>8 DEF Range
    <3> QED
      BY <3>1, <3>2
  <2>2. Made.keyword = natural.rest \o << >>
    BY <1>3, <2>1 DEF Made, NaturalOptions, Remainder
  <2> QED
    BY <1>1, <1>3, <2>2 DEF Keyword, Text
<1> QED
  BY <1>2, <1>3

LEMMA NothingGiven ==
  ASSUME typed \in TypedQueries, natural \in NaturalQueries,
         GivesNothing(natural)
  PROVE  /\ Keyword(natural) = << >> /\ natural.layers = {}
         /\ \A f \in TextFields : natural.texts[f] = << >>
         /\ Range(natural.skills) = {}
         /\ DOMAIN natural.experience = {}
<1> DEFINE e == natural.experience
           made == parseNaturalExperience(e)
<1>1. natural.rest \in Text /\ e \in Seq(Phrase) /\ made.min \in Nat /\ made.max \in Nat
  BY RequestParts, LimitsAreSaid
<1>2. /\ Made.keyword = << >> /\ natural.layers = {}
      /\ \A f \in TextFields : natural.texts[f] = << >>
      /\ Range(natural.skills) = {}
      /\ 12 * made.min = 0 /\ 12 * made.max = 0
  BY DEF Made, GivesNothing, NaturalOptions, Unlimited
<1>3. Keyword(natural) = << >>
  BY <1>2, WordsStay
<1>4. natural.keyword = << >> /\ natural.rest = << >>
  BY <1>3 DEF Keyword
<1>5. Left(e) = {}
  <2>1. Made.keyword = << >> \o (IF Left(e) = {} THEN << >> ELSE PhraseText)
    BY <1>4 DEF Made, NaturalOptions, Remainder
  <2>2. PhraseText \in Seq(STRING) /\ PhraseText # << >>
    BY SearchAssumption DEF Text
  <2>3. << >> \o PhraseText = PhraseText
    BY <2>2
  <2> QED
    BY <1>2, <2>1, <2>2, <2>3
<1>6. Left(e) = Range(e)
  <2>1. ~ (made.min > 0 \/ made.max > 0)
    BY <1>1, <1>2
  <2> QED
    BY <2>1 DEF Left
<1> QED
  BY <1>2, <1>3, <1>5, <1>6 DEF Range

(* The limits of the natural query are met by who is within those made of  *)
(* it, if it says them once.                                               *)
LEMMA WithinWhatIsSaid ==
  ASSUME typed \in TypedQueries, natural \in NaturalQueries,
         LimitedOnce(natural.experience), LimitsMeet,
         NEW m \in Nat, m >= Made.min, Made.max = 0 \/ m <= Made.max
  PROVE  \A k \in DOMAIN natural.experience :
           LET phrase == natural.experience[k]
           IN /\ phrase.asks # "max" => m >= 12 * phrase.low
              /\ phrase.asks # "min" => m <= 12 * phrase.high
<1> DEFINE e == natural.experience
           made == parseNaturalExperience(e)
<1>1. e \in Seq(Phrase)
  BY RequestParts
<1>2. /\ made.min \in Nat /\ made.max \in Nat
      /\ Made.min = 12 * made.min /\ Made.max = 12 * made.max
  BY <1>1, LimitsAreSaid DEF Made, NaturalOptions
<1> SUFFICES ASSUME NEW k \in DOMAIN e
             PROVE  /\ e[k].asks # "max" => m >= 12 * e[k].low
                    /\ e[k].asks # "min" => m <= 12 * e[k].high
  OBVIOUS
<1>3. e[k].asks \in {"min", "max", "range"} /\ e[k].low \in Nat /\ e[k].high \in Nat
  BY <1>1, PhraseParts
<1>4. /\ e[k].asks # "min" => made.max = e[k].high /\ made.max > 0
      /\ e[k].asks # "max" => made.min = e[k].low \/ (made.min = made.max /\ made.max > 0)
  BY <1>1, LimitsIfSaidOnce
<1>5. ASSUME e[k].asks # "max", made.min = made.max, made.max > 0
      PROVE  m >= 12 * e[k].low
  <2>1. Made.max > 0 /\ Made.min = Made.max
    BY <1>2, <1>5
  <2>2. 12 * e[k].low <= Made.max
    BY <1>3, <1>5, <2>1 DEF LimitsMeet, Made
  <2> QED
    BY <1>2, <1>3, <2>1, <2>2
<1> QED
  BY <1>2, <1>3, <1>4, <1>5

(* Whoever meets what is made of a request without a natural query is      *)
(* asked for by both sides.                                                *)
LEMMA MatchesAreAskedAlone ==
  ASSUME typed \in TypedQueries, natural \in NaturalQueries,
         GivesNothing(natural),
         NEW c \in Profiles, Matches(c, SearchOptions(Wanted))
  PROVE  AskedTyped(c) /\ AskedNatural(c)
<1>1. /\ typed.min \in Nat /\ typed.max \in Nat /\ c.months \in Nat
      /\ \A f \in TextFields : c.texts[f] \in Text
  BY RequestParts, ProfileParts
<1>2. /\ Given.keyword = typed.keyword /\ Given.texts = typed.texts
      /\ Given.skills = Range(typed.skills) /\ Given.layers = typed.layers
      /\ Given.min = typed.min /\ Given.max = typed.max
  BY DEF Given, TypedOptions
<1> DEFINE options == SearchOptions(Given)
<1>3. /\ options.keyword = typed.keyword /\ options.texts = typed.texts
      /\ options.skills = Range(typed.skills) /\ options.layers = typed.layers
      /\ options.min = IF Reversed(typed) THEN typed.max ELSE typed.min
      /\ options.max = IF Reversed(typed) THEN typed.min ELSE typed.max
  BY <1>2 DEF SearchOptions, Reversed, Given, TypedOptions
<1>4. Matches(c, options)
  BY DEF Wanted
<1> HIDE DEF options
<1>5. AsksFor(typed, typed.keyword, c)
  BY <1>3, <1>4 DEF AsksFor, Matches, Required
<1>6. AskedTyped(c)
  <2>1. c.months >= options.min /\ (options.max > 0 => c.months <= options.max)
    BY <1>4 DEF Matches
  <2> QED
    BY <1>1, <1>3, <1>5, <2>1 DEF AskedTyped, Reversed
<1>7. AskedNatural(c)
  BY <1>1, NothingGiven, NoTextIsFound DEF AskedNatural, AsksFor
<1> QED
  BY <1>6, <1>7

(* The merge leaves the limits in order.                                   *)
LEMMA MergedInOrder ==
  ASSUME typed \in TypedQueries, natural \in NaturalQueries
  PROVE  LET all == mergeCandidateSearchOptions(Given, Made)
         IN SearchOptions(all) = all
<1> DEFINE all == mergeCandidateSearchOptions(Given, Made)
<1>1. /\ Given.min \in Nat /\ Given.max \in Nat
      /\ Made.min \in Nat /\ Made.max \in Nat
  BY RequestParts, LimitsAreSaid DEF Given, TypedOptions, Made, NaturalOptions
<1>2. /\ all.min = IF Made.min > Given.min THEN Made.min ELSE Given.min
      /\ all.max = Raised(LowerMax(Given.max, Made.max), all.min)
  BY DEF mergeCandidateSearchOptions
<1> HIDE DEF all
<1>3. ~ (all.max > 0 /\ all.min > all.max)
  BY ONLY <1>1, <1>2 DEF Raised, LowerMax
<1>4. SearchOptions(all) = all
  BY <1>3 DEF SearchOptions
<1> QED
  BY <1>4 DEF all

(* So it is with a natural query, as far as the sides agree and meet.      *)
LEMMA MatchesAreAsked ==
  ASSUME typed \in TypedQueries, natural \in NaturalQueries,
         ~ GivesNothing(natural),
         Agree(typed.layers, natural.layers, {}),
         LimitedOnce(natural.experience), LimitsMeet,
         NEW c \in Profiles, Matches(c, SearchOptions(Wanted))
  PROVE  AskedTyped(c) /\ AskedNatural(c)
<1>1. /\ typed.keyword \in Text
      /\ \A f \in TextFields : typed.texts[f] \in Text /\ natural.texts[f] \in Text
      /\ typed.min \in Nat /\ typed.max \in Nat
      /\ natural.experience \in Seq(Phrase)
  BY RequestParts
<1>2. c.months \in Nat /\ \A f \in TextFields : c.texts[f] \in Text
  BY ProfileParts
<1>3. Made.min \in Nat /\ Made.max \in Nat
  <2>1. /\ parseNaturalExperience(natural.experience).min \in Nat
        /\ parseNaturalExperience(natural.experience).max \in Nat
    BY <1>1, LimitsAreSaid
  <2> QED
    BY <2>1 DEF Made, NaturalOptions
<1>4. /\ Given.keyword = typed.keyword /\ Given.texts = typed.texts
      /\ Given.skills = Range(typed.skills) /\ Given.layers = typed.layers
      /\ Given.min = typed.min /\ Given.max = typed.max
  BY DEF Given, TypedOptions
<1>5. /\ Made.texts = natural.texts
      /\ Made.skills = Range(natural.skills) /\ Made.layers = natural.layers
  BY DEF Made, NaturalOptions
<1>6. SUFFICES
        /\ AsksFor(typed, typed.keyword, c) /\ AsksFor(natural, Keyword(natural), c)
        /\ c.months >= typed.min /\ (typed.max = 0 \/ c.months <= typed.max)
        /\ c.months >= Made.min /\ (Made.max = 0 \/ c.months <= Made.max)
  <2>1. ~ Reversed(typed)
    <3>1. \A low \in {typed.min, Made.min}, high \in {typed.max, Made.max} \ {0} : low <= high
      BY DEF LimitsMeet, Made
    <3>2. typed.max # 0 => typed.min <= typed.max
      BY <3>1
    <3> QED
      BY <1>1, <3>2 DEF Reversed
  <2> QED
    BY <1>1, <1>2, <2>1, WithinWhatIsSaid DEF AskedTyped, AskedNatural
<1> DEFINE all == mergeCandidateSearchOptions(Given, Made)
<1>7. Matches(c, all)
  BY MergedInOrder DEF Wanted
<1>8. /\ all.keyword = mergeTextCondition(typed.keyword, Made.keyword)
      /\ \A f \in TextFields :
           all.texts[f] = mergeTextCondition(typed.texts[f], natural.texts[f])
      /\ Given.skills \subseteq all.skills /\ Made.skills \subseteq all.skills
      /\ all.layers = typed.layers \cup natural.layers
      /\ all.min = IF Made.min > typed.min THEN Made.min ELSE typed.min
      /\ all.max = Raised(LowerMax(typed.max, Made.max), all.min)
  BY <1>4, <1>5 DEF mergeCandidateSearchOptions
<1> HIDE DEF all
<1>9. /\ typed.keyword = << >> \/ matchesAnyCandidateField(c, typed.keyword)
      /\ Keyword(natural) = << >> \/ matchesAnyCandidateField(c, Keyword(natural))
  <2>1. /\ Made.keyword \in Text
        /\ Keyword(natural) # << >> => Made.keyword # << >>
        /\ matchesAnyCandidateField(c, Made.keyword)
             => matchesAnyCandidateField(c, Keyword(natural))
    BY WordsStay
  <2>2. typed.keyword # << >> \/ Made.keyword # << >> => all.keyword # << >>
    BY <1>1, <1>8, <2>1, MergedIsNotLost
  <2>3. all.keyword # << >> => matchesAnyCandidateField(c, all.keyword)
    BY <1>7 DEF Matches
  <2>4. matchesAnyCandidateField(
            c, mergeTextCondition(typed.keyword, Made.keyword))
          => /\ matchesAnyCandidateField(c, typed.keyword)
             /\ matchesAnyCandidateField(c, Made.keyword)
    BY <1>1, <2>1, MergedKeyword, Zenon
  <2> QED
    BY <1>8, <2>1, <2>2, <2>3, <2>4
<1>10. \A skill \in Given.skills \cup Made.skills : containsSkill(c.skills, skill)
  <2>1. \A skill \in Required(all) : containsSkill(c.skills, skill)
    BY <1>7 DEF Matches
  <2> QED
    BY <1>8, <2>1 DEF Required
<1>11. /\ typed.layers = {} \/ c.layer \in typed.layers
       /\ natural.layers = {} \/ c.layer \in natural.layers
  BY <1>7, <1>8 DEF Agree, Matches
<1>12. \A f \in TextFields :
         /\ HasText(c.texts[f], typed.texts[f])
         /\ HasText(c.texts[f], natural.texts[f])
  <2> SUFFICES ASSUME NEW f \in TextFields
               PROVE  /\ HasText(c.texts[f], typed.texts[f])
                      /\ HasText(c.texts[f], natural.texts[f])
    OBVIOUS
  <2> DEFINE a == typed.texts[f]
             b == natural.texts[f]
  <2>1. HasText(c.texts[f], mergeTextCondition(a, b))
    BY <1>7, <1>8 DEF Matches
  <2>2. a \in Text /\ b \in Text
    BY <1>1
  <2> HIDE DEF a, b
  <2>3. HasText(c.texts[f], a) /\ HasText(c.texts[f], b)
    BY <2>1, <2>2, MergedTexts
  <2> QED
    BY <2>3 DEF a, b
<1>13. c.months >= all.min /\ (all.max > 0 => c.months <= all.max)
  BY <1>7 DEF Matches
<1>14. \A low \in {typed.min, Made.min}, high \in {typed.max, Made.max} \ {0} : low <= high
  BY DEF LimitsMeet, Made
<1>15. /\ c.months >= typed.min /\ c.months >= Made.min
       /\ typed.max = 0 \/ c.months <= typed.max
       /\ Made.max = 0 \/ c.months <= Made.max
  <2>1. /\ c.months \in Nat /\ typed.min \in Nat /\ typed.max \in Nat
        /\ Made.min \in Nat /\ Made.max \in Nat
    BY <1>1, <1>2, <1>3
  <2>2. /\ all.min = IF Made.min > typed.min THEN Made.min ELSE typed.min
        /\ all.max = Raised(LowerMax(typed.max, Made.max), all.min)
    BY <1>8
  <2> QED
    BY ONLY <1>13, <1>14, <2>1, <2>2 DEF Raised, LowerMax
<1> QED
  BY <1>4, <1>5, <1>9, <1>10, <1>11, <1>12, <1>15 DEF AsksFor

(* The invariant: what was made of the request, and who was answered.      *)
SearchInv ==
  /\ typed \in TypedQueries
  /\ natural \in NaturalQueries
  /\ stage \in {"received", "parsed", "answered"}
  /\ stage = "parsed" => plan = Made
  /\ hits = IF stage = "answered" THEN SearchCandidates(Wanted) ELSE {}

LEMMA SearchInvariant == SearchSpec => []SearchInv
<1>1. SearchInit => SearchInv
  BY DEF SearchInit, SearchInv
<1>2. SearchInv /\ [SearchNext]_searchVars => SearchInv'
  <2> SUFFICES ASSUME SearchInv, [SearchNext]_searchVars
               PROVE  SearchInv'
    OBVIOUS
  <2>1. CASE ParseNaturalCandidateQuery
    BY <2>1 DEF SearchInv, Made, Wanted, Given, ParseNaturalCandidateQuery
  <2>2. CASE listCandidates
    BY <2>2 DEF SearchInv, Made, Wanted, Given, listCandidates
  <2>3. CASE UNCHANGED searchVars
    BY <2>3 DEF SearchInv, Made, Wanted, Given, searchVars
  <2> QED
    BY <2>1, <2>2, <2>3 DEF SearchNext
<1> QED
  BY <1>1, <1>2, PTL DEF SearchSpec

(* Whoever is answered is asked for by both sides of the request, though   *)
(* the options put the texts of both behind one another and of several     *)
(* limits keep one: what was merged says no less than what was asked, as   *)
(* far as the two sides agree on layers and limits, and what is left of a  *)
(* query only adds to it.                                                  *)
THEOREM HitsAreAskedByBoth == SearchSpec => []HitsAskedByBoth
<1>1. SearchInv => HitsAskedByBoth
  <2> SUFFICES ASSUME SearchInv, NEW c \in hits,
                      \/ GivesNothing(natural)
                      \/ /\ Agree(typed.layers, natural.layers, {})
                         /\ LimitedOnce(natural.experience)
                         /\ LimitsMeet
               PROVE  AskedTyped(c) /\ AskedNatural(c)
    BY DEF HitsAskedByBoth
  <2>1. c \in SearchCandidates(Wanted)
    BY DEF SearchInv
  <2>2. c \in Profiles /\ Matches(c, SearchOptions(Wanted))
    BY <2>1 DEF SearchCandidates
  <2>3. typed \in TypedQueries /\ natural \in NaturalQueries
    BY DEF SearchInv
  <2> QED
    BY <2>2, <2>3, MatchesAreAsked, MatchesAreAskedAlone
<1> QED
  BY <1>1, SearchInvariant, PTL

(* One skill in the parameter is the same as a list and as a text; none is *)
(* no condition.                                                           *)
LEMMA RawListOfNone == RawList(<< >>) = << >>
BY Zenon DEF RawList

LEMMA RawListOfOne ==
  ASSUME NEW A, NEW list \in Seq(A), Len(list) = 1
  PROVE  RawList(list) = Head(list)
<1> DEFINE seq == Tail(list)
           Unfold(f) == [s \in SUBSET DOMAIN seq |->
                           IF s = {} THEN Head(list)
                           ELSE LET x == Max(s) IN f[s \ {x}] \o <<",">> \o seq[x]]
           kept == [s \in SUBSET DOMAIN seq |-> Head(list)]
           fold == CHOOSE f : f = Unfold(f)
<1>1. list # << >> /\ DOMAIN seq = {}
  <2>1. list # << >>
    BY EmptySeq
  <2>2. seq \in Seq(A) /\ Len(seq) = Len(list) - 1
    BY <2>1, HeadTailProperties
  <2> HIDE DEF seq
  <2>3. DOMAIN seq = 1..0
    BY <2>2
  <2> QED
    BY <2>1, <2>3
<1> HIDE DEF seq
<1>2. kept = Unfold(kept)
  BY <1>1
<1>3. fold = Unfold(fold)
  <2> HIDE DEF Unfold
  <2> QED
    BY <1>2, Zenon
<1>4. fold[DOMAIN seq] = Head(list)
  BY <1>1, <1>3
<1>5. FoldLeft(LAMBDA text, skill : text \o <<",">> \o skill, Head(list), seq)
        = fold[DOMAIN seq]
  BY Zenon DEF FoldLeft, MapThenFoldSet
<1> QED
  BY <1>1, <1>4, <1>5, Zenon DEF RawList, seq

(* Whoever both sides ask for is within the limits made of the phrases.    *)
LEMMA WithinWhatIsMade ==
  ASSUME typed \in TypedQueries, natural \in NaturalQueries,
         Understood(natural),
         NEW c \in Profiles, AskedNatural(c)
  PROVE  c.months >= Made.min /\ (Made.max = 0 \/ c.months <= Made.max)
<1> DEFINE e == natural.experience
           made == parseNaturalExperience(e)
<1>1. e \in Seq(Phrase) /\ c.months \in Nat
  BY RequestParts, ProfileParts
<1>2. Made.min = 12 * made.min /\ Made.max = 12 * made.max
  BY DEF Made, NaturalOptions
<1>3. \A k \in DOMAIN e : /\ e[k].asks # "max" => c.months >= 12 * e[k].low
                          /\ e[k].asks # "min" => c.months <= 12 * e[k].high
  BY DEF AskedNatural
<1>4. /\ made.min = 0 \/ \E k \in DOMAIN e : e[k].asks # "max" /\ made.min = e[k].low
      /\ made.max = 0 \/ \E k \in DOMAIN e : e[k].asks # "min" /\ made.max = e[k].high
  BY <1>1, LimitsAreSaid DEF Understood
<1> HIDE DEF e, made
<1> QED
  BY <1>1, <1>2, <1>3, <1>4

LEMMA AskedAreMatched ==
  ASSUME typed \in TypedQueries, natural \in NaturalQueries,
         Agree(typed.keyword, Keyword(natural), << >>),
         \A f \in TextFields : Agree(typed.texts[f], natural.texts[f], << >>),
         \/ typed.skills = << >>
         \/ natural.skills = << >> /\ (Len(typed.skills) = 1 \/ GivesNothing(natural)),
         Understood(natural),
         GivesNothing(natural) \/ ~ Reversed(typed),
         NEW c \in Profiles, AskedTyped(c), AskedNatural(c)
  PROVE  Matches(c, SearchOptions(Wanted))
<1>1. /\ typed.keyword \in Text /\ Keyword(natural) \in Text
      /\ \A f \in TextFields : typed.texts[f] \in Text /\ natural.texts[f] \in Text
      /\ typed.min \in Nat /\ typed.max \in Nat
      /\ typed.skills \in Seq(Text \ {<< >>})
      /\ natural.skills \in Seq(Text \ {<< >>})
  BY RequestParts, WordsStay
<1>2. /\ Given.keyword = typed.keyword /\ Given.texts = typed.texts
      /\ Given.skill = RawList(typed.skills)
      /\ Given.skills = Range(typed.skills) /\ Given.layers = typed.layers
      /\ Given.min = typed.min /\ Given.max = typed.max
  BY DEF Given, TypedOptions
<1>3. /\ Made.keyword = Keyword(natural) /\ Made.texts = natural.texts
      /\ Made.skill = IF natural.skills = << >> THEN << >> ELSE Head(natural.skills)
      /\ Made.skills = Range(natural.skills) /\ Made.layers = natural.layers
  BY NoPhraseStays DEF Made, NaturalOptions
<1>4. /\ ~ Reversed(typed)
           => c.months >= typed.min /\ (typed.max = 0 \/ c.months <= typed.max)
      /\ c.months >= Made.min /\ (Made.max = 0 \/ c.months <= Made.max)
      /\ c.months \in Nat /\ Made.min \in Nat /\ Made.max \in Nat
  <2>1. /\ parseNaturalExperience(natural.experience).min \in Nat
        /\ parseNaturalExperience(natural.experience).max \in Nat
    BY RequestParts, LimitsAreSaid
  <2>2. Made.min \in Nat /\ Made.max \in Nat
    BY <2>1 DEF Made, NaturalOptions
  <2>3. c.months \in Nat
    BY ProfileParts
  <2> QED
    BY <1>1, <2>2, <2>3, WithinWhatIsMade DEF AskedTyped
<1>5. /\ typed.layers = {} \/ c.layer \in typed.layers
      /\ natural.layers = {} \/ c.layer \in natural.layers
      /\ typed.keyword = << >> \/ matchesAnyCandidateField(c, typed.keyword)
      /\ Keyword(natural) = << >> \/ matchesAnyCandidateField(c, Keyword(natural))
      /\ \A skill \in Given.skills \cup Made.skills : containsSkill(c.skills, skill)
      /\ \A f \in TextFields : /\ HasText(c.texts[f], typed.texts[f])
                               /\ HasText(c.texts[f], natural.texts[f])
  BY <1>2, <1>3 DEF AskedTyped, AskedNatural, AsksFor
<1>6. typed.skills = << >> => Given.skill = << >> /\ Given.skills = {}
  <2>1. Range(<< >>) = {}
    BY DEF Range
  <2> QED
    BY <1>2, <2>1, RawListOfNone
<1>7. natural.skills = << >> => Made.skill = << >> /\ Made.skills = {}
  BY <1>3 DEF Range
<1>8. /\ typed.skills # << >> => Given.skills # {} /\ Head(typed.skills) \in Given.skills
      /\ natural.skills # << >> => Made.skill \in Made.skills
  <2>1. \A list \in Seq(Text \ {<< >>}) : list # << >> => Head(list) \in Range(list)
    BY DEF Range
  <2> QED
    BY <1>1, <1>2, <1>3, <2>1
<1>9. CASE GivesNothing(natural)
  <2>1. \A skill \in Required(Given) : skill \in Given.skills
    BY <1>6, <1>8 DEF Required
  <2> DEFINE options == SearchOptions(Given)
  <2>2. /\ options.keyword = typed.keyword /\ options.texts = typed.texts
        /\ options.skill = Given.skill /\ options.skills = Given.skills
        /\ options.layers = typed.layers
        /\ options.min = IF Reversed(typed) THEN typed.max ELSE typed.min
        /\ options.max = IF Reversed(typed) THEN typed.min ELSE typed.max
    BY <1>2 DEF SearchOptions, Reversed, Given, TypedOptions
  <2> HIDE DEF options
  <2>3. c.months >= options.min /\ (options.max > 0 => c.months <= options.max)
    BY <1>1, <1>4, <2>2 DEF AskedTyped, Reversed
  <2>4. Required(options) = Required(Given)
    BY <2>2 DEF Required
  <2>5. Matches(c, options)
    BY <1>5, <2>1, <2>2, <2>3, <2>4 DEF Matches
  <2> QED
    BY <1>9, <2>5 DEF Wanted, options
<1>10. CASE ~ GivesNothing(natural)
  <2> DEFINE all == mergeCandidateSearchOptions(Given, Made)
  <2>1. /\ all.keyword = mergeTextCondition(typed.keyword, Keyword(natural))
        /\ \A f \in TextFields :
             all.texts[f] = mergeTextCondition(typed.texts[f], natural.texts[f])
        /\ all.skill = mergeTextCondition(Given.skill, Made.skill)
        /\ all.skills = Given.skills \cup Made.skills \cup ({all.skill, Made.skill} \ {<< >>})
        /\ all.layers = typed.layers \cup natural.layers
        /\ all.min = IF Made.min > typed.min THEN Made.min ELSE typed.min
        /\ all.max = Raised(LowerMax(typed.max, Made.max), all.min)
    BY <1>2, <1>3 DEF mergeCandidateSearchOptions
  <2> HIDE DEF all
  <2>2. all.keyword # << >> => matchesAnyCandidateField(c, all.keyword)
    <3>1. mergeTextCondition(typed.keyword, Keyword(natural)) # << >>
            => matchesAnyCandidateField(
                 c, mergeTextCondition(typed.keyword, Keyword(natural)))
      BY <1>1, <1>5, MergedKeyword, Zenon
    <3> QED
      BY <2>1, <3>1
  <2>3. all.skill = << >> \/ all.skill \in Given.skills \cup Made.skills
    <3>1. CASE typed.skills = << >>
      BY <1>6, <1>7, <1>8, <2>1, <3>1 DEF mergeTextCondition
    <3>2. CASE natural.skills = << >> /\ Len(typed.skills) = 1
      <4>1. Given.skill = Head(typed.skills) /\ typed.skills # << >>
        BY <1>1, <1>2, <3>2, RawListOfOne
      <4> QED
        BY <1>7, <1>8, <2>1, <3>2, <4>1 DEF mergeTextCondition
    <3> QED
      BY <1>10, <3>1, <3>2
  <2>4. \A skill \in Required(all) : skill \in Given.skills \cup Made.skills
    BY <1>7, <1>8, <2>1, <2>3 DEF Required
  <2>5. \A f \in TextFields : HasText(c.texts[f], all.texts[f])
    <3> SUFFICES ASSUME NEW f \in TextFields
                 PROVE  HasText(c.texts[f], all.texts[f])
      OBVIOUS
    <3>1. /\ typed.texts[f] \in Text /\ natural.texts[f] \in Text
          /\ Agree(typed.texts[f], natural.texts[f], << >>)
          /\ HasText(c.texts[f], typed.texts[f])
          /\ HasText(c.texts[f], natural.texts[f])
      BY <1>1, <1>5
    <3>2. HasText(
            c.texts[f], mergeTextCondition(typed.texts[f], natural.texts[f]))
      BY <3>1 DEF Agree, mergeTextCondition
    <3> QED
      BY <2>1, <3>2
  <2>6. c.months >= all.min /\ (all.max > 0 => c.months <= all.max)
    <3>1. c.months >= typed.min /\ (typed.max = 0 \/ c.months <= typed.max)
      BY <1>4, <1>10
    <3> QED
      BY ONLY <1>1, <1>4, <2>1, <3>1 DEF Raised, LowerMax
  <2>7. all.layers # {} => c.layer \in all.layers
    BY <1>5, <2>1
  <2> QED
    <3>1. Matches(c, all)
      BY <1>5, <2>2, <2>4, <2>5, <2>6, <2>7 DEF Matches
    <3> QED
      BY <1>10, <3>1, MergedInOrder DEF Wanted, all
<1> QED
  BY <1>9, <1>10

(* Nobody is missed as long as the sides speak of different things, or say *)
(* the same: then what was merged says no more than what was asked.        *)
THEOREM NobodyIsMissedIfApart == SearchSpec => []NobodyMissedIfApart
<1>1. SearchInv => NobodyMissedIfApart
  BY AskedAreMatched DEF SearchInv, NobodyMissedIfApart, SearchCandidates
<1> QED
  BY <1>1, SearchInvariant, PTL
=============================================================================
