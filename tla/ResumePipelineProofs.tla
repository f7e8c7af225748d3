------------------------ MODULE ResumePipelineProofs ------------------------
(***************************************************************************)
(* Proofs about ResumePipeline, for any number of requests, uploads and    *)
(* calls.                                                                  *)
(*                                                                         *)
(* Requests carry copies of records and store them as a whole.  IInv says  *)
(* what is true of the copies: they are of resumes that were given a       *)
(* number and a path once, a copy has the path of its resume, a file that  *)
(* is being saved belongs to its upload alone, and what was removed stays  *)
(* removed.                                                                *)
(*                                                                         *)
(* The second half is about the life of a resume no two requests worked on *)
(* at a time: it has its file until a deletion removes both, it made one   *)
(* candidate at most, and its deletion is final and audited once.  LifeOf  *)
(* says this of one resume in the middle of a request.  A request changes  *)
(* the life of its own resume only, which is what PathsApart and           *)
(* HistoriesNumbered are for: no two resumes have a path in common, and    *)
(* candidates, events and deletions name resumes that were created.        *)
(***************************************************************************)
EXTENDS ResumePipeline, SequenceTheorems, FiniteSetTheorems, TLAPS

(* A request that is through an upload's saving, or began as a call. *)
Numbered(w) == phase[w] \notin {"idle", "saving"}

CopiesTyped ==
  \A w \in Workers :
    /\ phase[w] # "idle" => record[w] \in Record /\ record[w].path \in 1..nextPath
    /\ phase[w] = "saving" => record[w].status = "pending"
    /\ Numbered(w) => record[w].id \in 1..nextResumeSeq

(* An upload has the file it saves to itself. *)
SavingAlone ==
  \A w \in Workers : phase[w] = "saving" =>
    /\ record[w].path \in DOMAIN files
    /\ \A v \in Workers \ {w} : phase[v] # "idle" => record[v].path # record[w].path
    /\ \A id \in DOMAIN resumes : resumes[id].path # record[w].path

(* The path of a resume is the same in all copies. *)
OnePath ==
  \A w \in Workers : Numbered(w) =>
    /\ record[w].id \in DOMAIN resumes => resumes[record[w].id].path = record[w].path
    /\ \A v \in Workers : Numbered(v) /\ record[v].id = record[w].id =>
         record[v].path = record[w].path

PathsMade == \A id \in DOMAIN resumes : resumes[id].path \in 1..nextPath

RemovedIsGone ==
  \A w \in Workers : phase[w] = "removed" => record[w].path \notin DOMAIN files

UpsertedHasCandidate ==
  \A w \in Workers : phase[w] = "upserted" => record[w].candidate \in DOMAIN candidates

IInv == /\ TypeOK
        /\ CopiesTyped
        /\ SavingAlone
        /\ OnePath
        /\ PathsMade
        /\ RemovedIsGone
        /\ UpsertedHasCandidate
        /\ SuccessHasCandidate
        /\ UnfinishedIsInHand
        /\ NoStrayFiles
-----------------------------------------------------------------------------
LEMMA WithFacts ==
  ASSUME NEW f, NEW x, NEW y
  PROVE  /\ DOMAIN With(f, x, y) = DOMAIN f \cup {x}
         /\ With(f, x, y)[x] = y
         /\ \A k \in DOMAIN f : k # x => With(f, x, y)[k] = f[k]
BY DEF With

LEMMA WithoutFacts ==
  ASSUME NEW f, NEW x
  PROVE  /\ DOMAIN Without(f, x) = DOMAIN f \ {x}
         /\ \A k \in DOMAIN f \ {x} : Without(f, x)[k] = f[k]
BY DEF Without

LEMMA InitIInv == Init => IInv
<1> SUFFICES ASSUME Init
             PROVE  IInv
  OBVIOUS
<1>1. /\ DOMAIN resumes = {} /\ DOMAIN files = {} /\ DOMAIN candidates = {}
      /\ candidates \in Seq(Nat) /\ origin \in Seq(Nat) /\ events \in Seq(Nat)
      /\ nextResumeSeq = 0 /\ nextPath = 0 /\ calls = 0
      /\ leftovers = {} /\ deleted = {} /\ overlapped = {}
  BY DEF Init
<1>2. /\ phase = [w \in Workers |-> "idle"]
      /\ record = [w \in Workers |-> NoRecord]
  BY DEF Init
<1>3. /\ phase \in [Workers -> Phases]
      /\ record \in [Workers -> Record \cup {NoRecord}]
  BY <1>2 DEF Phases
<1>4. TypeOK
  BY <1>1, <1>3 DEF TypeOK
<1>5. \A w \in Workers : phase[w] = "idle"
  BY <1>2
<1>6. CopiesTyped /\ SavingAlone /\ OnePath /\ RemovedIsGone /\ UpsertedHasCandidate
  BY <1>5 DEF CopiesTyped, SavingAlone, OnePath, RemovedIsGone, UpsertedHasCandidate, Numbered
<1>7. PathsMade /\ SuccessHasCandidate /\ UnfinishedIsInHand /\ NoStrayFiles
  BY <1>1 DEF PathsMade, SuccessHasCandidate, UnfinishedIsInHand, NoStrayFiles
<1> QED
  BY <1>4, <1>6, <1>7 DEF IInv
-----------------------------------------------------------------------------
(* A request in parsing stores its copy with another status: it goes on if *)
(* that is "processing", and else is done.                                 *)
LEMMA StoreStep ==
  ASSUME IInv, NEW w \in Workers, NEW s \in ParseStatus,
         phase[w] \in Parsing,
         UpdateResume([record[w] EXCEPT !.status = s]),
         \/ s = "processing" /\ Carry(w, "parsing", [record[w] EXCEPT !.status = s])
         \/ s \in {"success", "failed"} /\ Done(w),
         s = "success" => record[w].candidate \in DOMAIN candidates,
         UNCHANGED <<nextResumeSeq, candidates, origin, diskVars, events, calls,
                     deleted, overlapped>>
  PROVE  IInv'
<1> DEFINE copy == [record[w] EXCEPT !.status = s]
           id == record[w].id
<1>1. /\ UNCHANGED <<nextResumeSeq, candidates, origin, files, nextPath, leftovers, events,
                     calls, deleted, overlapped>>
      /\ phase \in [Workers -> Phases] /\ record \in [Workers -> Record \cup {NoRecord}]
      /\ Numbered(w)
  BY DEF diskVars, IInv, TypeOK, Numbered, Parsing
<1>2. /\ record[w] \in Record
      /\ id \in 1..nextResumeSeq
      /\ record[w].path \in 1..nextPath
  BY <1>1 DEF IInv, CopiesTyped, Numbered
<1>3. /\ copy \in Record
      /\ copy.id = id /\ copy.path = record[w].path
      /\ copy.status = s /\ copy.candidate = record[w].candidate
  BY <1>2 DEF Record
<1> HIDE DEF copy
<1>4. /\ DOMAIN resumes' = DOMAIN resumes \cup {id}
      /\ resumes'[id] = copy
      /\ \A k \in DOMAIN resumes : k # id => resumes'[k] = resumes[k]
  <2>1. resumes' = With(resumes, copy.id, copy)
    BY DEF UpdateResume, copy
  <2>2. resumes' = With(resumes, id, copy)
    BY <2>1, <1>3
  <2> HIDE DEF id
  <2> DEFINE stored == With(resumes, id, copy)
  <2>3. /\ DOMAIN stored = DOMAIN resumes \cup {id}
        /\ stored[id] = copy
        /\ \A k \in DOMAIN resumes : k # id => stored[k] = resumes[k]
    BY DEF With
  <2> HIDE DEF stored
  <2>4. resumes' = stored
    BY <2>2 DEF stored
  <2> QED
    BY <2>3, <2>4
<1>5. /\ phase' \in [Workers -> Phases]
      /\ record' \in [Workers -> Record \cup {NoRecord}]
      /\ \A v \in Workers : v # w => phase'[v] = phase[v] /\ record'[v] = record[v]
      /\ \/ s = "processing" /\ phase'[w] = "parsing" /\ record'[w] = copy
         \/ s \in {"success", "failed"} /\ phase'[w] = "idle"
  <2>1. CASE s = "processing" /\ Carry(w, "parsing", copy)
    BY <2>1, <1>1, <1>3 DEF Carry, Phases, Parsing
  <2>2. CASE s \in {"success", "failed"} /\ Done(w)
    BY <2>2, <1>1 DEF Carry, Done, Phases
  <2> QED
    BY <2>1, <2>2 DEF copy
<1>6. TypeOK'
  BY <1>1, <1>2, <1>3, <1>4, <1>5 DEF IInv, TypeOK
<1>7. CopiesTyped'
  BY <1>1, <1>2, <1>3, <1>5 DEF IInv, CopiesTyped, Numbered
<1>8. SavingAlone'
  <2> SUFFICES ASSUME NEW v \in Workers, phase'[v] = "saving"
               PROVE  /\ record'[v].path \in DOMAIN files
                      /\ \A u \in Workers \ {v} : phase'[u] # "idle" =>
                           record'[u].path # record'[v].path
                      /\ \A k \in DOMAIN resumes' : resumes'[k].path # record'[v].path
    BY <1>1 DEF SavingAlone
  <2>1. v # w /\ phase[v] = "saving" /\ record'[v] = record[v]
    BY <1>5
  <2>2. record[w].path # record[v].path
    BY <1>1, <2>1 DEF IInv, SavingAlone, Numbered
  <2>3. record[v].path \in DOMAIN files
    BY <2>1 DEF IInv, SavingAlone
  <2>4. \A u \in Workers \ {v} : phase'[u] # "idle" => record'[u].path # record'[v].path
    BY <1>3, <1>5, <2>1, <2>2 DEF IInv, SavingAlone
  <2>5. \A k \in DOMAIN resumes' : resumes'[k].path # record'[v].path
    BY <1>3, <1>4, <2>1, <2>2 DEF IInv, SavingAlone
  <2> QED
    BY <2>1, <2>3, <2>4, <2>5
<1>9. OnePath'
  <2> SUFFICES ASSUME NEW v \in Workers, Numbered(v)'
               PROVE  /\ record'[v].id \in DOMAIN resumes' =>
                           resumes'[record'[v].id].path = record'[v].path
                      /\ \A u \in Workers : Numbered(u)' /\ record'[u].id = record'[v].id =>
                           record'[u].path = record'[v].path
    BY DEF OnePath
  <2>1. \A u \in Workers : Numbered(u)' =>
          Numbered(u) /\ record'[u].id = record[u].id /\ record'[u].path = record[u].path
    BY <1>1, <1>3, <1>5 DEF Numbered
  <2>2. \A k \in DOMAIN resumes : resumes'[k].path = resumes[k].path
    BY <1>1, <1>3, <1>4 DEF IInv, OnePath
  <2>3. record[v].id = id => record[v].path = record[w].path
    BY <1>1, <2>1 DEF IInv, OnePath
  <2>4. record[v].id \in DOMAIN resumes' => resumes'[record[v].id].path = record[v].path
    BY <1>3, <1>4, <2>1, <2>2, <2>3 DEF IInv, OnePath
  <2> QED
    BY <2>1, <2>4 DEF IInv, OnePath
<1>10. PathsMade'
  BY <1>1, <1>2, <1>3, <1>4 DEF IInv, PathsMade
<1>11. RemovedIsGone' /\ UpsertedHasCandidate'
  BY <1>1, <1>5 DEF IInv, RemovedIsGone, UpsertedHasCandidate
<1>12. SuccessHasCandidate'
  BY <1>1, <1>3, <1>4 DEF IInv, SuccessHasCandidate
<1>13. UnfinishedIsInHand'
  <2> SUFFICES ASSUME NEW k \in DOMAIN resumes', resumes'[k].status \in {"pending", "processing"}
               PROVE  \E v \in Workers : phase'[v] \in Parsing /\ record'[v].id = k
    BY DEF UnfinishedIsInHand
  <2>1. CASE k = id
    BY <2>1, <1>3, <1>4, <1>5 DEF Parsing
  <2>2. CASE k # id
    <3>1. PICK v \in Workers : phase[v] \in Parsing /\ record[v].id = k
      BY <2>2, <1>4 DEF IInv, UnfinishedIsInHand
    <3> QED
      BY <3>1, <2>2, <1>5
  <2> QED
    BY <2>1, <2>2
<1>14. NoStrayFiles'
  <2> SUFFICES ASSUME NEW path \in DOMAIN files
               PROVE  \/ path \in leftovers
                      \/ \E k \in DOMAIN resumes' : resumes'[k].path = path
                      \/ \E v \in Workers : phase'[v] = "saving" /\ record'[v].path = path
    BY <1>1 DEF NoStrayFiles
  <2>1. \A k \in DOMAIN resumes : k \in DOMAIN resumes' /\ resumes'[k].path = resumes[k].path
    BY <1>1, <1>3, <1>4 DEF IInv, OnePath
  <2>2. \A v \in Workers : phase[v] = "saving" => phase'[v] = "saving" /\ record'[v] = record[v]
    BY <1>5 DEF Parsing
  <2> QED
    BY <2>1, <2>2 DEF IInv, NoStrayFiles
<1> QED
  BY <1>6, <1>7, <1>8, <1>9, <1>10, <1>11, <1>12, <1>13, <1>14 DEF IInv

(* A request begins, goes on or ends without touching resumes and disk. *)
LEMMA CarryStep ==
  ASSUME IInv, NEW w \in Workers, NEW step \in Phases, NEW copy \in Record \cup {NoRecord},
         Carry(w, step, copy),
         step # "saving", phase[w] # "saving",
         phase[w] \in Parsing => step \in Parsing /\ copy.id = record[w].id,
         step # "idle" =>
           /\ copy \in Record /\ copy.path \in 1..nextPath /\ copy.id \in 1..nextResumeSeq
           /\ copy.id \in DOMAIN resumes => resumes[copy.id].path = copy.path
           /\ \A v \in Workers : Numbered(v) /\ record[v].id = copy.id =>
                record[v].path = copy.path
           /\ \A v \in Workers : phase[v] = "saving" => record[v].path # copy.path,
         step = "removed" => copy.path \notin DOMAIN files,
         step = "upserted" => copy.candidate \in DOMAIN candidates',
         candidates' \in Seq(Nat), DOMAIN candidates \subseteq DOMAIN candidates',
         origin' \in Seq(Nat), events' \in Seq(Nat), calls' \in Nat, overlapped' \subseteq Nat,
         UNCHANGED <<resumes, nextResumeSeq, diskVars, deleted>>
  PROVE  IInv'
<1>1. /\ UNCHANGED <<resumes, nextResumeSeq, files, nextPath, leftovers, deleted>>
      /\ phase' = [phase EXCEPT ![w] = step]
      /\ record' = [record EXCEPT ![w] = copy]
      /\ phase \in [Workers -> Phases] /\ record \in [Workers -> Record \cup {NoRecord}]
  BY DEF diskVars, Carry, IInv, TypeOK
<1>2. /\ phase' \in [Workers -> Phases]
      /\ record' \in [Workers -> Record \cup {NoRecord}]
      /\ \A v \in Workers : v # w => phase'[v] = phase[v] /\ record'[v] = record[v]
      /\ phase'[w] = step /\ record'[w] = copy
  BY <1>1
<1>3. TypeOK'
  BY <1>1, <1>2 DEF IInv, TypeOK
<1>4. CopiesTyped'
  BY <1>1, <1>2 DEF IInv, CopiesTyped, Numbered
<1>5. SavingAlone'
  BY <1>1, <1>2 DEF IInv, SavingAlone
<1>6. OnePath'
  <2>1. \A v \in Workers : v # w => (Numbered(v)' <=> Numbered(v))
    BY <1>2 DEF Numbered
  <2>2. Numbered(w)' => step # "idle"
    BY <1>2 DEF Numbered
  <2> SUFFICES ASSUME NEW v \in Workers, Numbered(v)'
               PROVE  /\ record'[v].id \in DOMAIN resumes =>
                           resumes[record'[v].id].path = record'[v].path
                      /\ \A u \in Workers : Numbered(u)' /\ record'[u].id = record'[v].id =>
                           record'[u].path = record'[v].path
    BY <1>1 DEF OnePath
  <2>3. CASE v = w
    BY <2>3, <1>2, <2>1, <2>2
  <2>4. CASE v # w
    <3>1. Numbered(v) /\ record'[v] = record[v]
      BY <2>4, <1>2, <2>1
    <3>2. record[v].id \in DOMAIN resumes => resumes[record[v].id].path = record[v].path
      BY <3>1 DEF IInv, OnePath
    <3>3. \A u \in Workers \ {w} : Numbered(u)' /\ record'[u].id = record[v].id =>
            record'[u].path = record[v].path
      BY SMTT(30), <3>1, <1>2, <2>1 DEF IInv, OnePath
    <3>4. Numbered(w)' /\ record'[w].id = record[v].id => record'[w].path = record[v].path
      BY <3>1, <1>2, <2>2
    <3> QED
      BY <3>1, <3>2, <3>3, <3>4
  <2> QED
    BY <2>3, <2>4
<1>7. PathsMade' /\ RemovedIsGone' /\ UpsertedHasCandidate' /\ SuccessHasCandidate'
  BY <1>1, <1>2
     DEF IInv, PathsMade, RemovedIsGone, UpsertedHasCandidate, SuccessHasCandidate
<1>8. UnfinishedIsInHand'
  BY <1>1, <1>2 DEF IInv, UnfinishedIsInHand
<1>9. NoStrayFiles'
  <2>1. \A v \in Workers : phase[v] = "saving" => phase'[v] = "saving" /\ record'[v] = record[v]
    BY <1>2
  <2>2. NoStrayFiles
    BY DEF IInv
  <2>3. UNCHANGED <<resumes, files, leftovers>>
    BY <1>1
  <2> SUFFICES ASSUME NEW path \in DOMAIN files
               PROVE  \/ path \in leftovers
                      \/ \E k \in DOMAIN resumes : resumes[k].path = path
                      \/ \E v \in Workers : phase'[v] = "saving" /\ record'[v].path = path
    BY ZenonT(60), <2>3 DEF NoStrayFiles
  <2>4. CASE \E v \in Workers : phase[v] = "saving" /\ record[v].path = path
    BY <2>1, <2>4
  <2> QED
    BY <2>2, <2>4 DEF NoStrayFiles
<1> QED
  BY <1>3, <1>4, <1>5, <1>6, <1>7, <1>8, <1>9 DEF IInv

(* What a request in progress knows of its own copy. *)
LEMMA OwnCopy ==
  ASSUME IInv, NEW w \in Workers, Numbered(w)
  PROVE  /\ record[w] \in Record
         /\ record[w].path \in 1..nextPath /\ record[w].id \in 1..nextResumeSeq
         /\ record[w].id \in DOMAIN resumes => resumes[record[w].id].path = record[w].path
         /\ \A v \in Workers : Numbered(v) /\ record[v].id = record[w].id =>
              record[v].path = record[w].path
         /\ \A v \in Workers : phase[v] = "saving" => record[v].path # record[w].path
<1>1. \A v \in Workers : phase[v] = "saving" => v # w
  BY DEF Numbered
<1> QED
  BY <1>1 DEF IInv, CopiesTyped, OnePath, SavingAlone, Numbered
-----------------------------------------------------------------------------
LEMMA BeginUploadStep ==
  ASSUME IInv, NEW w \in Workers, BeginUpload(w)
  PROVE  IInv'
<1> DEFINE path == nextPath + 1
<1>1. PICK supported \in BOOLEAN, c \in 0..(Len(candidates) + 1) :
        Carry(w, "saving", [id |-> 0, path |-> path, supported |-> supported,
                            status |-> "pending", candidate |-> c])
  BY DEF BeginUpload
<1> DEFINE copy == [id |-> 0, path |-> path, supported |-> supported,
                    status |-> "pending", candidate |-> c]
<1>2. /\ phase[w] = "idle"
      /\ nextPath' = path
      /\ UNCHANGED <<resumes, nextResumeSeq, candidates, origin, leftovers, events, calls,
                     deleted, overlapped>>
      /\ phase \in [Workers -> Phases] /\ record \in [Workers -> Record \cup {NoRecord}]
      /\ nextPath \in Nat /\ path \in Nat /\ path \in 1..path /\ path \notin 1..nextPath
      /\ 1..nextPath \subseteq 1..path
  BY DEF BeginUpload, repoVars, IInv, TypeOK
<1>3. copy \in Record /\ copy.path = path /\ copy.status = "pending"
  <2>1. c \in Nat
    BY DEF IInv, TypeOK
  <2> QED
    BY <1>2, <2>1 DEF Record, ParseStatus
<1> HIDE DEF copy
<1>4. /\ phase' \in [Workers -> Phases]
      /\ record' \in [Workers -> Record \cup {NoRecord}]
      /\ \A v \in Workers : v # w => phase'[v] = phase[v] /\ record'[v] = record[v]
      /\ phase'[w] = "saving" /\ record'[w] = copy
  BY <1>1, <1>2, <1>3 DEF Carry, Phases, copy
<1>5. /\ DOMAIN files' = DOMAIN files \cup {path}
      /\ files'[path] = "bad"
      /\ \A p \in DOMAIN files : p # path => files'[p] = files[p]
  <2>1. files' = With(files, path, "bad")
    BY DEF BeginUpload
  <2> HIDE DEF path
  <2> QED
    BY <2>1 DEF With
<1>6. /\ \A v \in Workers : phase[v] # "idle" => record[v].path \in 1..nextPath
      /\ \A id \in DOMAIN resumes : resumes[id].path \in 1..nextPath
      /\ DOMAIN files \subseteq 1..nextPath
  BY DEF IInv, CopiesTyped, PathsMade, TypeOK
<1> HIDE DEF path
<1>7. TypeOK'
  BY <1>2, <1>4, <1>5, <1>6 DEF IInv, TypeOK, Contents
<1>8. CopiesTyped'
  BY <1>2, <1>3, <1>4 DEF IInv, CopiesTyped, Numbered
<1>9. SavingAlone'
  BY <1>2, <1>3, <1>4, <1>5, <1>6 DEF IInv, SavingAlone
<1>10. OnePath'
  BY <1>2, <1>4 DEF IInv, OnePath, Numbered
<1>11. PathsMade' /\ RemovedIsGone'
  BY <1>2, <1>4, <1>5, <1>6 DEF IInv, PathsMade, RemovedIsGone
<1>12. UpsertedHasCandidate' /\ SuccessHasCandidate'
  BY <1>2, <1>4 DEF IInv, UpsertedHasCandidate, SuccessHasCandidate
<1>13. UnfinishedIsInHand'
  BY <1>2, <1>4 DEF IInv, UnfinishedIsInHand, Parsing
<1>14. NoStrayFiles'
  BY <1>2, <1>3, <1>4, <1>5 DEF IInv, NoStrayFiles
<1> QED
  BY <1>7, <1>8, <1>9, <1>10, <1>11, <1>12, <1>13, <1>14 DEF IInv

LEMMA SaveFailsStep ==
  ASSUME IInv, NEW w \in Workers, SaveFails(w)
  PROVE  IInv'
<1>1. /\ phase[w] = "saving"
      /\ leftovers' = leftovers \cup {record[w].path}
      /\ phase' = [phase EXCEPT ![w] = "idle"]
      /\ record' = [record EXCEPT ![w] = NoRecord]
      /\ UNCHANGED <<resumes, nextResumeSeq, candidates, origin, files, nextPath, events, calls,
                     deleted, overlapped>>
      /\ phase \in [Workers -> Phases] /\ record \in [Workers -> Record \cup {NoRecord}]
  BY DEF SaveFails, Done, Carry, repoVars, IInv, TypeOK
<1>2. /\ phase' \in [Workers -> Phases]
      /\ record' \in [Workers -> Record \cup {NoRecord}]
      /\ \A v \in Workers : v # w => phase'[v] = phase[v] /\ record'[v] = record[v]
      /\ phase'[w] = "idle"
  BY <1>1 DEF Phases
<1>3. TypeOK'
  BY <1>1, <1>2 DEF IInv, TypeOK, CopiesTyped
<1>4. CopiesTyped' /\ SavingAlone'
  BY <1>1, <1>2 DEF IInv, CopiesTyped, SavingAlone, Numbered
<1>5. OnePath' /\ PathsMade' /\ RemovedIsGone'
  BY <1>1, <1>2 DEF IInv, OnePath, PathsMade, RemovedIsGone, Numbered
<1>6. UpsertedHasCandidate' /\ SuccessHasCandidate'
  BY <1>1, <1>2 DEF IInv, UpsertedHasCandidate, SuccessHasCandidate
<1>7. UnfinishedIsInHand'
  BY <1>1, <1>2 DEF IInv, UnfinishedIsInHand, Parsing
<1>8. NoStrayFiles'
  BY <1>1, <1>2 DEF IInv, NoStrayFiles
<1> QED
  BY <1>3, <1>4, <1>5, <1>6, <1>7, <1>8 DEF IInv

LEMMA CreateResumeStep ==
  ASSUME IInv, NEW w \in Workers, CreateResume(w)
  PROVE  IInv'
<1> DEFINE id == nextResumeSeq + 1
           copy == [record[w] EXCEPT !.id = id]
           path == record[w].path
<1>1. PICK step \in {"ready", "unsupported"} : Carry(w, step, copy)
  BY DEF CreateResume
<1>2. PICK content \in Contents : files' = With(files, path, content)
  BY DEF CreateResume
<1>3. /\ phase[w] = "saving"
      /\ nextResumeSeq' = id
      /\ UNCHANGED <<candidates, origin, nextPath, leftovers, events, calls, deleted, overlapped>>
      /\ phase \in [Workers -> Phases] /\ record \in [Workers -> Record \cup {NoRecord}]
      /\ nextResumeSeq \in Nat /\ id \in Nat /\ id \in 1..id /\ id \notin 1..nextResumeSeq
      /\ 1..nextResumeSeq \subseteq 1..id
      /\ DOMAIN resumes \subseteq 1..nextResumeSeq
  BY DEF CreateResume, IInv, TypeOK
<1>4. /\ record[w] \in Record /\ record[w].status = "pending"
      /\ path \in 1..nextPath /\ path \in DOMAIN files
  BY <1>3 DEF IInv, CopiesTyped, SavingAlone
<1>5. /\ copy \in Record /\ copy.id = id /\ copy.path = path
      /\ copy.status = "pending"
  BY <1>3, <1>4 DEF Record
<1>6. /\ DOMAIN resumes' = DOMAIN resumes \cup {id}
      /\ resumes'[id] = copy
      /\ \A k \in DOMAIN resumes : k # id => resumes'[k] = resumes[k]
  <2>1. resumes' = With(resumes, id, copy)
    BY <1>5 DEF CreateResume
  <2> HIDE DEF id, copy
  <2> QED
    BY <2>1 DEF With
<1> HIDE DEF copy
<1>7. /\ DOMAIN files' = DOMAIN files
      /\ \A p \in DOMAIN files : files'[p] \in Contents
  <2> HIDE DEF path
  <2>1. \A p \in DOMAIN files : files[p] \in Contents
    BY DEF IInv, TypeOK
  <2> QED
    BY <1>2, <1>4, <2>1 DEF With
<1>8. /\ phase' \in [Workers -> Phases]
      /\ record' \in [Workers -> Record \cup {NoRecord}]
      /\ \A v \in Workers : v # w => phase'[v] = phase[v] /\ record'[v] = record[v]
      /\ phase'[w] = step /\ record'[w] = copy
  BY <1>1, <1>3, <1>5 DEF Carry, Phases, Parsing
<1>9. /\ \A v \in Workers : Numbered(v) => record[v].id \in 1..nextResumeSeq
      /\ \A v \in Workers : v # w => (Numbered(v)' <=> Numbered(v))
      /\ \A v \in Workers : v # w /\ phase[v] # "idle" => record[v].path # path
      /\ \A k \in DOMAIN resumes : resumes[k].path # path
      /\ Numbered(w)'
  BY <1>3, <1>8 DEF IInv, CopiesTyped, SavingAlone, Numbered
<1> HIDE DEF id, path
<1>10. TypeOK'
  BY <1>3, <1>5, <1>6, <1>7, <1>8 DEF IInv, TypeOK
<1>11. CopiesTyped'
  BY <1>3, <1>4, <1>5, <1>8, <1>9 DEF IInv, CopiesTyped
<1>12. SavingAlone'
  BY <1>3, <1>5, <1>6, <1>7, <1>8, <1>9 DEF IInv, SavingAlone
<1>13. OnePath'
  <2> SUFFICES ASSUME NEW v \in Workers, Numbered(v)'
               PROVE  /\ record'[v].id \in DOMAIN resumes' =>
                           resumes'[record'[v].id].path = record'[v].path
                      /\ \A u \in Workers : Numbered(u)' /\ record'[u].id = record'[v].id =>
                           record'[u].path = record'[v].path
    BY DEF OnePath
  <2>1. CASE v = w
    BY <2>1, <1>3, <1>5, <1>6, <1>8, <1>9
  <2>2. CASE v # w
    <3>1. Numbered(v) /\ record'[v] = record[v] /\ record[v].id # id
      BY <2>2, <1>3, <1>8, <1>9
    <3>2. record[v].id \in DOMAIN resumes' => resumes'[record[v].id].path = record[v].path
      BY <3>1, <1>6 DEF IInv, OnePath
    <3>3. \A u \in Workers : Numbered(u)' /\ record'[u].id = record[v].id =>
            record'[u].path = record[v].path
      BY <3>1, <1>5, <1>8, <1>9 DEF IInv, OnePath
    <3> QED
      BY <3>1, <3>2, <3>3
  <2> QED
    BY <2>1, <2>2
<1>14. PathsMade' /\ RemovedIsGone'
  BY <1>3, <1>4, <1>5, <1>6, <1>7, <1>8 DEF IInv, PathsMade, RemovedIsGone
<1>15. UpsertedHasCandidate' /\ SuccessHasCandidate'
  BY <1>3, <1>5, <1>6, <1>8 DEF IInv, UpsertedHasCandidate, SuccessHasCandidate
<1>16. UnfinishedIsInHand'
  <2> SUFFICES ASSUME NEW k \in DOMAIN resumes', resumes'[k].status \in {"pending", "processing"}
               PROVE  \E v \in Workers : phase'[v] \in Parsing /\ record'[v].id = k
    BY DEF UnfinishedIsInHand
  <2>1. CASE k = id
    BY <2>1, <1>5, <1>8 DEF Parsing
  <2>2. CASE k # id
    <3>1. PICK v \in Workers : phase[v] \in Parsing /\ record[v].id = k
      BY <2>2, <1>6 DEF IInv, UnfinishedIsInHand
    <3>2. v # w
      BY <3>1, <1>3 DEF Parsing
    <3> QED
      BY <3>1, <3>2, <1>8
  <2> QED
    BY <2>1, <2>2
<1>17. NoStrayFiles'
  <2> SUFFICES ASSUME NEW p \in DOMAIN files
               PROVE  \/ p \in leftovers
                      \/ \E k \in DOMAIN resumes' : resumes'[k].path = p
                      \/ \E v \in Workers : phase'[v] = "saving" /\ record'[v].path = p
    BY <1>3, <1>7 DEF NoStrayFiles
  <2>1. CASE p = path
    BY <2>1, <1>5, <1>6
  <2>2. CASE p # path
    <3>1. CASE \E k \in DOMAIN resumes : resumes[k].path = p
      BY <3>1, <1>3, <1>6
    <3>2. CASE \E v \in Workers : phase[v] = "saving" /\ record[v].path = p
      BY <3>2, <2>2, <1>8 DEF path
    <3> QED
      BY <3>1, <3>2 DEF IInv, NoStrayFiles
  <2> QED
    BY <2>1, <2>2
<1> QED
  BY <1>10, <1>11, <1>12, <1>13, <1>14, <1>15, <1>16, <1>17 DEF IInv
-----------------------------------------------------------------------------
LEMMA BeginCallStep ==
  ASSUME IInv, NEW w \in Workers, NEW id \in DOMAIN resumes, NEW step \in {"ready", "found"},
         BeginCall(w, id, step)
  PROVE  IInv'
<1> DEFINE copy == resumes[id]
<1>1. /\ phase[w] = "idle"
      /\ Carry(w, step, copy)
      /\ UNCHANGED <<resumes, nextResumeSeq, candidates, origin, diskVars, events, deleted>>
      /\ calls' = calls + 1
      /\ overlapped' \subseteq overlapped \cup {id}
  BY DEF BeginCall, repoVars
<1>2. /\ copy \in Record /\ copy.id = id
      /\ id \in 1..nextResumeSeq /\ nextResumeSeq \in Nat
  BY DEF IInv, TypeOK
<1>3. step \in Phases /\ step \notin {"idle", "saving", "removed", "upserted"}
  BY DEF Phases, Parsing
<1>4. /\ copy.path \in 1..nextPath
      /\ resumes[copy.id].path = copy.path
      /\ \A v \in Workers : Numbered(v) /\ record[v].id = copy.id => record[v].path = copy.path
      /\ \A v \in Workers : phase[v] = "saving" => record[v].path # copy.path
  BY <1>2 DEF IInv, PathsMade, OnePath, SavingAlone
<1>5. /\ candidates' \in Seq(Nat) /\ DOMAIN candidates \subseteq DOMAIN candidates'
      /\ origin' \in Seq(Nat) /\ events' \in Seq(Nat)
      /\ calls' \in Nat /\ overlapped' \subseteq Nat
  BY <1>1, <1>2 DEF IInv, TypeOK
<1>6. phase[w] \notin Parsing
  BY <1>1 DEF Parsing
<1> HIDE DEF copy
<1> QED
  BY <1>1, <1>2, <1>3, <1>4, <1>5, <1>6, CarryStep

LEMMA ParseStep ==
  ASSUME IInv, NEW w \in Workers, Parse(w)
  PROVE  IInv'
<1>1. PICK step \in {"readable", "unreadable"} : Carry(w, step, record[w])
  BY DEF Parse
<1>2. /\ phase[w] = "parsing" /\ Numbered(w)
      /\ UNCHANGED <<resumes, nextResumeSeq, candidates, origin, diskVars, events, calls, deleted,
                     overlapped>>
  BY DEF Parse, repoVars, Numbered
<1>3. /\ step \in Phases /\ step \in Parsing
      /\ step \notin {"idle", "saving", "removed", "upserted"}
  BY DEF Phases, Parsing
<1>4. /\ candidates' \in Seq(Nat) /\ DOMAIN candidates \subseteq DOMAIN candidates'
      /\ origin' \in Seq(Nat) /\ events' \in Seq(Nat)
      /\ calls' \in Nat /\ overlapped' \subseteq Nat
  BY <1>2 DEF IInv, TypeOK
<1> QED
  BY <1>1, <1>2, <1>3, <1>4, OwnCopy, CarryStep

LEMMA UpsertStep ==
  ASSUME IInv, NEW w \in Workers, UpsertCandidate(w)
  PROVE  IInv'
<1> DEFINE rec == record[w]
           known == rec.candidate \in DOMAIN candidates
           c == IF known THEN rec.candidate ELSE Len(candidates) + 1
           copy == [rec EXCEPT !.candidate = c]
<1>1. /\ phase[w] = "readable" /\ Numbered(w)
      /\ candidates' = IF known THEN [candidates EXCEPT ![rec.candidate] = rec.id]
                       ELSE Append(candidates, rec.id)
      /\ origin' = IF known THEN origin ELSE Append(origin, rec.id)
      /\ Carry(w, "upserted", copy)
      /\ UNCHANGED <<resumes, nextResumeSeq, diskVars, events, calls, deleted, overlapped>>
  BY DEF UpsertCandidate, Numbered
<1>2. /\ rec \in Record /\ rec.id \in Nat
      /\ candidates \in Seq(Nat) /\ origin \in Seq(Nat)
      /\ Len(candidates) \in Nat /\ DOMAIN candidates = 1..Len(candidates)
  BY <1>1, OwnCopy, LenProperties DEF IInv, TypeOK, Record
<1>3. /\ candidates' \in Seq(Nat)
      /\ DOMAIN candidates \subseteq DOMAIN candidates'
      /\ c \in DOMAIN candidates' /\ c \in Nat
  <2>1. CASE known
    <3>1. /\ candidates' \in Seq(Nat) /\ DOMAIN candidates' = DOMAIN candidates
      BY <2>1, <1>1, <1>2, ExceptSeq
    <3> QED
      BY <3>1, <2>1, <1>2
  <2>2. CASE ~known
    <3>1. /\ Append(candidates, rec.id) \in Seq(Nat)
          /\ DOMAIN Append(candidates, rec.id) = 1..(Len(candidates) + 1)
      BY <1>2, AppendProperties, LenProperties
    <3> QED
      BY <3>1, <2>2, <1>1, <1>2
  <2> QED
    BY <2>1, <2>2
<1>4. origin' \in Seq(Nat)
  BY <1>1, <1>2, AppendProperties
<1> HIDE DEF c
<1>5. /\ copy \in Record /\ copy.id = rec.id /\ copy.path = rec.path /\ copy.candidate = c
  BY <1>2, <1>3 DEF Record
<1>6. /\ "upserted" \in Phases /\ "upserted" \in Parsing
  BY DEF Phases, Parsing
<1>7. /\ events' \in Seq(Nat) /\ calls' \in Nat /\ overlapped' \subseteq Nat
  BY <1>1 DEF IInv, TypeOK
<1> HIDE DEF copy, known
<1>8. /\ copy.path \in 1..nextPath /\ copy.id \in 1..nextResumeSeq
      /\ copy.id \in DOMAIN resumes => resumes[copy.id].path = copy.path
      /\ \A v \in Workers : Numbered(v) /\ record[v].id = copy.id => record[v].path = copy.path
      /\ \A v \in Workers : phase[v] = "saving" => record[v].path # copy.path
  BY <1>1, <1>5, OwnCopy
<1> QED
  BY <1>1, <1>3, <1>4, <1>5, <1>6, <1>7, <1>8, CarryStep

(* A deletion that is over, for whatever reason. *)
LEMMA DeletionOverStep ==
  ASSUME IInv, NEW w \in Workers, phase[w] \in {"found", "removed", "deleted"}, Done(w),
         events' \in Seq(Nat),
         UNCHANGED <<repoVars, diskVars, calls, deleted, overlapped>>
  PROVE  IInv'
<1>1. /\ UNCHANGED <<resumes, nextResumeSeq, candidates, origin, diskVars, deleted>>
      /\ candidates' \in Seq(Nat) /\ DOMAIN candidates \subseteq DOMAIN candidates'
      /\ origin' \in Seq(Nat) /\ calls' \in Nat /\ overlapped' \subseteq Nat
  BY DEF repoVars, IInv, TypeOK
<1>2. Carry(w, "idle", NoRecord) /\ "idle" \in Phases /\ phase[w] \notin Parsing \cup {"saving"}
  BY DEF Done, Phases, Parsing
<1> QED
  BY <1>1, <1>2, CarryStep

LEMMA RemoveFileStep ==
  ASSUME IInv, NEW w \in Workers, RemoveFile(w)
  PROVE  IInv'
<1> DEFINE path == record[w].path
<1>1. /\ phase[w] = "found" /\ Numbered(w)
      /\ UNCHANGED <<resumes, nextResumeSeq, candidates, origin, nextPath, leftovers, events,
                     calls, deleted, overlapped>>
      /\ phase' = [phase EXCEPT ![w] = "removed"]
      /\ record' = [record EXCEPT ![w] = record[w]]
      /\ phase \in [Workers -> Phases] /\ record \in [Workers -> Record \cup {NoRecord}]
  BY DEF RemoveFile, repoVars, Carry, Numbered, IInv, TypeOK
<1>2. /\ phase' \in [Workers -> Phases]
      /\ record' = record
      /\ \A v \in Workers : v # w => phase'[v] = phase[v]
      /\ phase'[w] = "removed"
      /\ \A v \in Workers : Numbered(v)' <=> Numbered(v)
  BY <1>1 DEF Phases, Numbered
<1>3. /\ DOMAIN files' = DOMAIN files \ {path}
      /\ \A p \in DOMAIN files' : files'[p] = files[p]
  BY DEF RemoveFile, Without
<1>4. \A v \in Workers : phase[v] = "saving" => record[v].path # path
  BY <1>1, OwnCopy
<1>5. TypeOK'
  BY <1>1, <1>2, <1>3 DEF IInv, TypeOK
<1>6. CopiesTyped'
  BY <1>1, <1>2 DEF IInv, CopiesTyped
<1>7. SavingAlone'
  BY <1>1, <1>2, <1>3, <1>4 DEF IInv, SavingAlone
<1>8. OnePath' /\ PathsMade' /\ RemovedIsGone'
  BY <1>1, <1>2, <1>3 DEF IInv, OnePath, PathsMade, RemovedIsGone
<1>9. UpsertedHasCandidate' /\ SuccessHasCandidate'
  BY <1>1, <1>2 DEF IInv, UpsertedHasCandidate, SuccessHasCandidate
<1>10. UnfinishedIsInHand'
  BY <1>1, <1>2 DEF IInv, UnfinishedIsInHand, Parsing
<1>11. NoStrayFiles'
  BY <1>1, <1>2, <1>3 DEF IInv, NoStrayFiles
<1> QED
  BY <1>5, <1>6, <1>7, <1>8, <1>9, <1>10, <1>11 DEF IInv

LEMMA DeleteResumeStep ==
  ASSUME IInv, NEW w \in Workers, DeleteResume(w)
  PROVE  IInv'
<1> DEFINE id == record[w].id
<1>1. phase[w] = "removed" /\ Numbered(w)
  BY DEF DeleteResume, Numbered
<1>2. CASE id \notin DOMAIN resumes
  <2>1. /\ Done(w) /\ UNCHANGED <<repoVars, diskVars, events, calls, deleted, overlapped>>
    BY <1>2 DEF DeleteResume, repoVars
  <2>2. events' \in Seq(Nat)
    BY <2>1 DEF IInv, TypeOK
  <2> QED
    BY <1>1, <2>1, <2>2, DeletionOverStep
<1>3. CASE id \in DOMAIN resumes
  <2>1. /\ resumes' = Without(resumes, id)
        /\ deleted' = deleted \cup {id}
        /\ phase' = [phase EXCEPT ![w] = "deleted"]
        /\ record' = [record EXCEPT ![w] = record[w]]
        /\ UNCHANGED <<nextResumeSeq, candidates, origin, files, nextPath, leftovers, events,
                       calls, overlapped>>
        /\ phase \in [Workers -> Phases] /\ record \in [Workers -> Record \cup {NoRecord}]
    BY <1>3 DEF DeleteResume, Carry, diskVars, IInv, TypeOK
  <2>2. /\ phase' \in [Workers -> Phases]
        /\ record' = record
        /\ \A v \in Workers : v # w => phase'[v] = phase[v]
        /\ phase'[w] = "deleted"
        /\ \A v \in Workers : Numbered(v)' <=> Numbered(v)
    BY <1>1, <2>1 DEF Phases, Numbered
  <2>3. /\ DOMAIN resumes' = DOMAIN resumes \ {id}
        /\ \A k \in DOMAIN resumes' : resumes'[k] = resumes[k]
    BY <2>1 DEF Without
  <2>4. id \in Nat /\ resumes[id].path = record[w].path /\ record[w].path \notin DOMAIN files
    <3>1. id \in 1..nextResumeSeq /\ nextResumeSeq \in Nat
      BY <1>1, OwnCopy DEF IInv, TypeOK
    <3> QED
      BY <3>1, <1>1, <1>3 DEF IInv, OnePath, RemovedIsGone
  <2>5. TypeOK'
    BY <2>1, <2>2, <2>3, <2>4 DEF IInv, TypeOK
  <2>6. CopiesTyped' /\ SavingAlone'
    BY <1>1, <2>1, <2>2, <2>3 DEF IInv, CopiesTyped, SavingAlone
  <2>7. OnePath' /\ PathsMade' /\ RemovedIsGone'
    BY <1>1, <2>1, <2>2, <2>3 DEF IInv, OnePath, PathsMade, RemovedIsGone
  <2>8. UpsertedHasCandidate' /\ SuccessHasCandidate'
    BY <2>1, <2>2, <2>3 DEF IInv, UpsertedHasCandidate, SuccessHasCandidate
  <2>9. UnfinishedIsInHand'
    BY <1>1, <2>2, <2>3 DEF IInv, UnfinishedIsInHand, Parsing
  <2>10. NoStrayFiles'
    BY <1>1, <2>1, <2>2, <2>3, <2>4 DEF IInv, NoStrayFiles
  <2> QED
    BY <2>5, <2>6, <2>7, <2>8, <2>9, <2>10 DEF IInv
<1> QED
  BY <1>2, <1>3

LEMMA CreateCandidateStep ==
  ASSUME IInv, CreateCandidate
  PROVE  IInv'
<1>1. /\ candidates' = Append(candidates, 0) /\ origin' = Append(origin, 0)
      /\ UNCHANGED <<resumes, nextResumeSeq, files, nextPath, leftovers, events, phase, record,
                     calls, deleted, overlapped>>
      /\ candidates \in Seq(Nat) /\ origin \in Seq(Nat)
  BY DEF CreateCandidate, diskVars, IInv, TypeOK
<1>2. /\ candidates' \in Seq(Nat) /\ origin' \in Seq(Nat)
      /\ DOMAIN candidates \subseteq DOMAIN candidates'
  <2>1. /\ Append(candidates, 0) \in Seq(Nat) /\ Append(origin, 0) \in Seq(Nat)
        /\ DOMAIN candidates = 1..Len(candidates) /\ Len(candidates) \in Nat
        /\ DOMAIN Append(candidates, 0) = 1..(Len(candidates) + 1)
    BY <1>1, AppendProperties, LenProperties
  <2> QED
    BY <1>1, <2>1
<1>3. TypeOK'
  BY <1>1, <1>2 DEF IInv, TypeOK
<1>4. /\ CopiesTyped' /\ SavingAlone' /\ OnePath' /\ PathsMade' /\ RemovedIsGone'
      /\ UnfinishedIsInHand' /\ NoStrayFiles'
  BY <1>1 DEF IInv, CopiesTyped, SavingAlone, OnePath, PathsMade, RemovedIsGone, Numbered,
              UnfinishedIsInHand, NoStrayFiles
<1>5. UpsertedHasCandidate' /\ SuccessHasCandidate'
  BY <1>1, <1>2 DEF IInv, UpsertedHasCandidate, SuccessHasCandidate
<1> QED
  BY <1>3, <1>4, <1>5 DEF IInv

LEMMA RepairFileStep ==
  ASSUME IInv, NEW path \in DOMAIN files, RepairFile(path)
  PROVE  IInv'
<1>1. /\ DOMAIN files' = DOMAIN files
      /\ \A p \in DOMAIN files : files'[p] \in {files[p], "good"}
      /\ UNCHANGED <<resumes, nextResumeSeq, candidates, origin, nextPath, leftovers, events,
                     phase, record, calls, deleted, overlapped>>
  BY DEF RepairFile, repoVars
<1>2. TypeOK'
  BY <1>1 DEF IInv, TypeOK, Contents
<1>3. /\ CopiesTyped' /\ SavingAlone' /\ OnePath' /\ PathsMade' /\ RemovedIsGone'
      /\ UnfinishedIsInHand' /\ NoStrayFiles'
  BY <1>1 DEF IInv, CopiesTyped, SavingAlone, OnePath, PathsMade, RemovedIsGone, Numbered,
              UnfinishedIsInHand, NoStrayFiles
<1>4. UpsertedHasCandidate' /\ SuccessHasCandidate'
  BY <1>1 DEF IInv, UpsertedHasCandidate, SuccessHasCandidate
<1> QED
  BY <1>2, <1>3, <1>4 DEF IInv
-----------------------------------------------------------------------------
LEMMA WorkerStep ==
  ASSUME IInv, NEW w \in Workers, Proceed(w) \/ SaveFails(w) \/ RemoveFails(w)
  PROVE  IInv'
<1>1. CASE RejectUnsupported(w)
  BY <1>1, StoreStep DEF RejectUnsupported, Parsing, ParseStatus
<1>2. CASE StartParsing(w)
  BY <1>2, StoreStep DEF StartParsing, Parsing, ParseStatus
<1>3. CASE ParseFailed(w)
  BY <1>3, StoreStep DEF ParseFailed, Parsing, ParseStatus
<1>4. CASE ParseSucceeded(w)
  <2>1. record[w].candidate \in DOMAIN candidates
    BY <1>4 DEF ParseSucceeded, IInv, UpsertedHasCandidate
  <2> QED
    BY <1>4, <2>1, StoreStep DEF ParseSucceeded, Parsing, ParseStatus
<1>5. CASE RemoveFails(w)
  <2>1. /\ phase[w] \in {"found", "removed", "deleted"} /\ Done(w)
        /\ UNCHANGED <<repoVars, diskVars, calls, deleted, overlapped>>
        /\ events' \in Seq(Nat)
    BY <1>5 DEF RemoveFails, IInv, TypeOK
  <2> QED
    BY <2>1, DeletionOverStep
<1>6. CASE RecordDelete(w)
  <2>1. /\ phase[w] = "deleted" /\ Done(w) /\ Numbered(w)
        /\ UNCHANGED <<repoVars, diskVars, calls, deleted, overlapped>>
        /\ events' = Append(events, record[w].id)
    BY <1>6 DEF RecordDelete, Numbered
  <2>2. events \in Seq(Nat) /\ record[w].id \in Nat
    BY <2>1, OwnCopy DEF IInv, TypeOK, Record
  <2>3. events' \in Seq(Nat)
    BY <2>1, <2>2, AppendProperties
  <2> QED
    BY <2>1, <2>3, DeletionOverStep
<1>7. CASE CreateResume(w) \/ Parse(w) \/ UpsertCandidate(w) \/ RemoveFile(w)
           \/ DeleteResume(w) \/ SaveFails(w)
  BY <1>7, CreateResumeStep, ParseStep, UpsertStep, RemoveFileStep, DeleteResumeStep, SaveFailsStep
<1> QED
  BY <1>1, <1>2, <1>3, <1>4, <1>5, <1>6, <1>7 DEF Proceed

LEMMA StepIInv == IInv /\ [Next]_vars => IInv'
<1> SUFFICES ASSUME IInv, [Next]_vars
             PROVE  IInv'
  OBVIOUS
<1>1. ASSUME NEW w \in Workers, BeginUpload(w) PROVE IInv'
  BY <1>1, BeginUploadStep
<1>2. ASSUME NEW w \in Workers, SaveFails(w) \/ RemoveFails(w) \/ Proceed(w) PROVE IInv'
  BY <1>2, WorkerStep
<1>3. ASSUME NEW w \in Workers, NEW id \in DOMAIN resumes, BeginRetry(w, id) PROVE IInv'
  BY <1>3, BeginCallStep DEF BeginRetry
<1>4. ASSUME NEW w \in Workers, NEW id \in DOMAIN resumes, BeginDelete(w, id) PROVE IInv'
  BY <1>4, BeginCallStep DEF BeginDelete
<1>5. CASE CreateCandidate
  BY <1>5, CreateCandidateStep
<1>6. ASSUME NEW path \in DOMAIN files, RepairFile(path) PROVE IInv'
  BY <1>6, RepairFileStep
<1>7. CASE UNCHANGED vars
  BY <1>7 DEF vars, IInv, TypeOK, CopiesTyped, SavingAlone, OnePath, PathsMade, RemovedIsGone,
              UpsertedHasCandidate, SuccessHasCandidate, UnfinishedIsInHand, NoStrayFiles,
              Numbered
<1> QED
  BY <1>1, <1>2, <1>3, <1>4, <1>5, <1>6, <1>7 DEF Next

LEMMA Inductive == Spec => []IInv
BY InitIInv, StepIInv, PTL DEF Spec
-----------------------------------------------------------------------------
(* Type correctness of records, files, candidates and requests. *)
THEOREM ResumePipelineTypeCorrect == Spec => []TypeOK
<1>1. IInv => TypeOK
  BY DEF IInv
<1> QED
  BY <1>1, Inductive, PTL

(* A resume with status success names a stored candidate, for any number   *)
(* of requests that upload, retry and delete.                              *)
THEOREM SuccessesHaveCandidates == Spec => []SuccessHasCandidate
<1>1. IInv => SuccessHasCandidate
  BY DEF IInv
<1> QED
  BY <1>1, Inductive, PTL

(* No resume is left pending or processing by requests that are gone. *)
THEOREM UnfinishedAreInHand == Spec => []UnfinishedIsInHand
<1>1. IInv => UnfinishedIsInHand
  BY DEF IInv
<1> QED
  BY <1>1, Inductive, PTL

(* No file outlives its resume, also when removals and copies fail. *)
THEOREM NoFileIsStray == Spec => []NoStrayFiles
<1>1. IInv => NoStrayFiles
  BY DEF IInv
<1> QED
  BY <1>1, Inductive, PTL
-----------------------------------------------------------------------------
(* The life of a resume. *)
WorksOn(w, id) == Numbered(w) /\ record[w].id = id

EventsOf(id) == {n \in DOMAIN events : events[n] = id}
MadeFor(id) == {c \in DOMAIN origin : origin[c] = id}

\* Resume id has the path, in the repository or in a copy; and no two have
\* the same.
Owns(id, path) ==
  \/ id \in DOMAIN resumes /\ resumes[id].path = path
  \/ \E w \in Workers : WorksOn(w, id) /\ record[w].path = path

PathsApart == \A j, k, path : Owns(j, path) /\ Owns(k, path) => j = k

\* What is on record names resumes that were created; an upload that is
\* being saved has no number.
HistoriesNumbered ==
  /\ deleted \subseteq 1..nextResumeSeq
  /\ \A n \in DOMAIN events : events[n] <= nextResumeSeq
  /\ \A c \in DOMAIN origin : origin[c] <= nextResumeSeq
  /\ \A w \in Workers : phase[w] = "saving" => record[w].id = 0

LifeOf(id) ==
  /\ \A v, w \in Workers : WorksOn(v, id) /\ WorksOn(w, id) => v = w
  /\ \A w \in Workers : WorksOn(w, id) =>
       IF phase[w] = "deleted" THEN id \in deleted ELSE id \in DOMAIN resumes
  /\ id \in deleted <=> id \notin DOMAIN resumes
  /\ id \in DOMAIN resumes =>
       \/ resumes[id].path \in DOMAIN files
       \/ \E w \in Workers : WorksOn(w, id) /\ phase[w] = "removed"
  /\ id \notin deleted \/ (\E w \in Workers : WorksOn(w, id)) => EventsOf(id) = {}
  /\ id \in deleted /\ (\A w \in Workers : ~WorksOn(w, id)) => \E n : EventsOf(id) = {n}
  /\ \/ MadeFor(id) = {}
     \/ /\ \E c : MadeFor(id) = {c}
        /\ \A w \in Workers : WorksOn(w, id) => record[w].candidate \in DOMAIN candidates
        /\ id \in DOMAIN resumes =>
             \/ resumes[id].candidate \in DOMAIN candidates
             \/ \E w \in Workers : WorksOn(w, id) /\ phase[w] = "upserted"

Lives == \A id \in (1..nextResumeSeq) \ overlapped : LifeOf(id)

LifeInv == /\ PathsApart
           /\ HistoriesNumbered
           /\ Lives
-----------------------------------------------------------------------------
LEMMA InitLife == Init => LifeInv
<1> SUFFICES ASSUME Init
             PROVE  LifeInv
  OBVIOUS
<1>1. /\ DOMAIN resumes = {} /\ DOMAIN events = {} /\ DOMAIN origin = {}
      /\ deleted = {} /\ nextResumeSeq = 0
  BY DEF Init
<1>2. \A w \in Workers : phase[w] = "idle"
  BY DEF Init
<1>3. PathsApart /\ HistoriesNumbered
  BY <1>1, <1>2 DEF PathsApart, HistoriesNumbered, Owns, WorksOn, Numbered
<1>4. Lives
  BY <1>1 DEF Lives
<1> QED
  BY <1>3, <1>4 DEF LifeInv

(* What a step does not touch lives on. *)
LEMMA Untouched ==
  ASSUME NEW id, LifeOf(id),
         \A v \in Workers : WorksOn(v, id)' <=> WorksOn(v, id),
         \A v \in Workers : WorksOn(v, id) => phase'[v] = phase[v] /\ record'[v] = record[v],
         id \in DOMAIN resumes' <=> id \in DOMAIN resumes,
         id \in DOMAIN resumes =>
           /\ resumes'[id] = resumes[id]
           /\ resumes[id].path \in DOMAIN files => resumes[id].path \in DOMAIN files',
         id \in deleted' <=> id \in deleted,
         EventsOf(id)' = EventsOf(id), MadeFor(id)' = MadeFor(id),
         DOMAIN candidates \subseteq DOMAIN candidates'
  PROVE  LifeOf(id)'
<1> DEFINE On(v) == WorksOn(v, id)
<1>1. \A v \in Workers : WorksOn(v, id)' <=> On(v)
  OBVIOUS
<1>2. \A v \in Workers : On(v) => phase'[v] = phase[v] /\ record'[v] = record[v]
  OBVIOUS
<1>3. \A v, w \in Workers : WorksOn(v, id)' /\ WorksOn(w, id)' => v = w
  BY <1>1 DEF LifeOf
<1>4. \A w \in Workers : WorksOn(w, id)' =>
        IF phase'[w] = "deleted" THEN id \in deleted' ELSE id \in DOMAIN resumes'
  BY <1>1, <1>2 DEF LifeOf
<1>5. id \in deleted' <=> id \notin DOMAIN resumes'
  BY DEF LifeOf
<1>6. id \in DOMAIN resumes' =>
        \/ resumes'[id].path \in DOMAIN files'
        \/ \E w \in Workers : WorksOn(w, id)' /\ phase'[w] = "removed"
  BY <1>1, <1>2 DEF LifeOf
<1>7. /\ id \notin deleted' \/ (\E w \in Workers : WorksOn(w, id)') => EventsOf(id)' = {}
      /\ id \in deleted' /\ (\A w \in Workers : ~WorksOn(w, id)')
           => \E n : EventsOf(id)' = {n}
  BY <1>1 DEF LifeOf
<1>8. \/ MadeFor(id)' = {}
      \/ /\ \E c : MadeFor(id)' = {c}
         /\ \A w \in Workers : WorksOn(w, id)' => record'[w].candidate \in DOMAIN candidates'
         /\ id \in DOMAIN resumes' =>
              \/ resumes'[id].candidate \in DOMAIN candidates'
              \/ \E w \in Workers : WorksOn(w, id)' /\ phase'[w] = "upserted"
  BY <1>1, <1>2 DEF LifeOf
<1> QED
  BY <1>3, <1>4, <1>5, <1>6, <1>7, <1>8 DEF LifeOf

\* Nothing happens to the records, events and candidates of resume k.
Same(k) ==
  /\ k \in DOMAIN resumes' <=> k \in DOMAIN resumes
  /\ k \in DOMAIN resumes =>
       /\ resumes'[k] = resumes[k]
       /\ resumes[k].path \in DOMAIN files => resumes[k].path \in DOMAIN files'
  /\ k \in deleted' <=> k \in deleted
  /\ EventsOf(k)' = EventsOf(k)
  /\ MadeFor(k)' = MadeFor(k)

\* Resume id lives after the only request on it has taken a step.
LivesOn(id, step, copy) ==
  /\ step = "deleted" => id \in deleted'
  /\ step \notin {"idle", "deleted"} => id \in DOMAIN resumes'
  /\ id \in deleted' <=> id \notin DOMAIN resumes'
  /\ id \in DOMAIN resumes' => resumes'[id].path \in DOMAIN files' \/ step = "removed"
  /\ id \notin deleted' \/ step # "idle" => EventsOf(id)' = {}
  /\ id \in deleted' /\ step = "idle" => \E n : EventsOf(id)' = {n}
  /\ \/ MadeFor(id)' = {}
     \/ /\ \E c : MadeFor(id)' = {c}
        /\ step # "idle" => copy.candidate \in DOMAIN candidates'
        /\ id \in DOMAIN resumes' =>
             resumes'[id].candidate \in DOMAIN candidates' \/ step = "upserted"

LEMMA CarryFacts ==
  ASSUME TypeOK, NEW w \in Workers, NEW step, NEW copy, Carry(w, step, copy)
  PROVE  /\ phase'[w] = step /\ record'[w] = copy
         /\ \A v \in Workers : v # w => phase'[v] = phase[v] /\ record'[v] = record[v]
BY DEF TypeOK, Carry

(* A request's step on its own resume, or on none, and the other resumes. *)
LEMMA Elsewhere ==
  ASSUME TypeOK, NEW w \in Workers, NEW step, NEW copy, Carry(w, step, copy),
         NEW k, LifeOf(k), Same(k), ~WorksOn(w, k),
         step \in {"idle", "saving"} \/ copy.id # k,
         DOMAIN candidates \subseteq DOMAIN candidates'
  PROVE  LifeOf(k)'
<1>1. \A v \in Workers : v # w => phase'[v] = phase[v] /\ record'[v] = record[v]
  BY CarryFacts
<1>2. ~WorksOn(w, k)'
  BY CarryFacts DEF WorksOn, Numbered
<1>3. \A v \in Workers : v # w => (WorksOn(v, k)' <=> WorksOn(v, k))
  BY <1>1 DEF WorksOn, Numbered
<1>4. \A v \in Workers : WorksOn(v, k)' <=> WorksOn(v, k)
  BY <1>2, <1>3
<1>5. \A v \in Workers : WorksOn(v, k) => phase'[v] = phase[v] /\ record'[v] = record[v]
  BY <1>1
<1> QED
  BY <1>4, <1>5, Untouched DEF Same

LEMMA Touched ==
  ASSUME TypeOK, NEW w \in Workers, NEW step \in Phases \ {"saving"}, NEW copy,
         Carry(w, step, copy), NEW id, step # "idle" => copy.id = id,
         \A v \in Workers : v # w => ~WorksOn(v, id),
         LivesOn(id, step, copy)
  PROVE  LifeOf(id)'
<1>1. /\ phase'[w] = step /\ record'[w] = copy
      /\ \A v \in Workers : v # w => phase'[v] = phase[v] /\ record'[v] = record[v]
  BY CarryFacts
<1>2. WorksOn(w, id)' <=> step # "idle"
  BY <1>1 DEF WorksOn, Numbered
<1>3. \A v \in Workers : v # w => ~WorksOn(v, id)'
  BY <1>1 DEF WorksOn, Numbered
<1>4. \A v, u \in Workers : WorksOn(v, id)' /\ WorksOn(u, id)' => v = u
  BY <1>3
<1>5. \A v \in Workers : WorksOn(v, id)' =>
        IF phase'[v] = "deleted" THEN id \in deleted' ELSE id \in DOMAIN resumes'
  BY <1>1, <1>2, <1>3 DEF LivesOn
<1>6. id \in deleted' <=> id \notin DOMAIN resumes'
  BY DEF LivesOn
<1>7. id \in DOMAIN resumes' =>
        \/ resumes'[id].path \in DOMAIN files'
        \/ \E v \in Workers : WorksOn(v, id)' /\ phase'[v] = "removed"
  BY <1>1, <1>2 DEF LivesOn
<1>8. /\ id \notin deleted' \/ (\E v \in Workers : WorksOn(v, id)') => EventsOf(id)' = {}
      /\ id \in deleted' /\ (\A v \in Workers : ~WorksOn(v, id)')
           => \E n : EventsOf(id)' = {n}
  BY <1>2, <1>3 DEF LivesOn
<1>9. \/ MadeFor(id)' = {}
      \/ /\ \E c : MadeFor(id)' = {c}
         /\ \A v \in Workers : WorksOn(v, id)' => record'[v].candidate \in DOMAIN candidates'
         /\ id \in DOMAIN resumes' =>
              \/ resumes'[id].candidate \in DOMAIN candidates'
              \/ \E v \in Workers : WorksOn(v, id)' /\ phase'[v] = "upserted"
  BY <1>1, <1>2, <1>3 DEF LivesOn
<1> QED
  BY <1>4, <1>5, <1>6, <1>7, <1>8, <1>9 DEF LifeOf

(* A step of a request in progress. *)
LEMMA WorkStep ==
  ASSUME TypeOK, Lives, NEW w \in Workers, Numbered(w), NEW id, id = record[w].id,
         NEW step \in Phases \ {"saving"}, NEW copy, Carry(w, step, copy),
         step # "idle" => copy.id = id,
         nextResumeSeq' = nextResumeSeq, overlapped' = overlapped,
         DOMAIN candidates \subseteq DOMAIN candidates',
         \A k \in 1..nextResumeSeq : k # id => Same(k),
         LifeOf(id) => LivesOn(id, step, copy)
  PROVE  Lives'
<1> SUFFICES ASSUME NEW k \in (1..nextResumeSeq) \ overlapped
             PROVE  LifeOf(k)'
  BY DEF Lives
<1>1. LifeOf(k)
  BY DEF Lives
<1>2. CASE k = id
  <2>1. WorksOn(w, id)
    BY DEF WorksOn
  <2>2. \A v \in Workers : v # w => ~WorksOn(v, id)
    BY <1>1, <1>2, <2>1 DEF LifeOf
  <2>3. LivesOn(id, step, copy)
    BY <1>1, <1>2
  <2> QED
    BY <1>2, <2>2, <2>3, Touched
<1>3. CASE k # id
  <2>1. ~WorksOn(w, k)
    BY <1>3 DEF WorksOn
  <2>2. step \in {"idle", "saving"} \/ copy.id # k
    BY <1>3
  <2> QED
    BY <1>1, <1>3, <2>1, <2>2, Elsewhere
<1> QED
  BY <1>2, <1>3

LEMMA OwnersStay ==
  ASSUME TypeOK, PathsApart, NEW w \in Workers, NEW step, NEW copy, Carry(w, step, copy),
         step \in {"idle", "saving"} \/ Owns(copy.id, copy.path),
         \A k \in DOMAIN resumes' : Owns(k, resumes'[k].path)
  PROVE  PathsApart'
<1>1. ASSUME NEW k, NEW path, Owns(k, path)'
      PROVE  Owns(k, path)
  <2>1. CASE k \in DOMAIN resumes' /\ resumes'[k].path = path
    BY <2>1
  <2>2. CASE \E v \in Workers : WorksOn(v, k)' /\ record'[v].path = path
    <3>1. PICK v \in Workers : WorksOn(v, k)' /\ record'[v].path = path
      BY <2>2
    <3>2. CASE v = w
      <4>1. step \notin {"idle", "saving"} /\ copy.id = k /\ copy.path = path
        BY <3>1, <3>2, CarryFacts DEF WorksOn, Numbered
      <4> QED
        BY <4>1
    <3>3. CASE v # w
      <4>1. phase'[v] = phase[v] /\ record'[v] = record[v]
        BY <3>3, CarryFacts
      <4> QED
        BY <3>1, <4>1 DEF Owns, WorksOn, Numbered
    <3> QED
      BY <3>2, <3>3
  <2> QED
    BY <1>1, <2>1, <2>2 DEF Owns
<1> QED
  BY <1>1 DEF PathsApart

(* A step of a request in progress on resume id. *)
LEMMA RequestStep ==
  ASSUME IInv, LifeInv, NEW w \in Workers, Numbered(w), NEW id, id = record[w].id,
         NEW step \in Phases \ {"saving"}, NEW copy, Carry(w, step, copy),
         step # "idle" => copy.id = id /\ copy.path = record[w].path,
         UNCHANGED <<nextResumeSeq, overlapped>>,
         DOMAIN candidates \subseteq DOMAIN candidates',
         \A k \in 1..nextResumeSeq : k # id => Same(k),
         DOMAIN resumes' \subseteq 1..nextResumeSeq,
         id \in DOMAIN resumes' => resumes'[id].path = record[w].path,
         deleted' \subseteq 1..nextResumeSeq,
         \A n \in DOMAIN events' : events'[n] <= nextResumeSeq,
         \A c \in DOMAIN origin' : origin'[c] <= nextResumeSeq,
         LifeOf(id) => LivesOn(id, step, copy)
  PROVE  LifeInv'
<1>1. TypeOK /\ PathsApart /\ HistoriesNumbered /\ Lives
  BY DEF IInv, LifeInv
<1>2. Lives'
  BY <1>1, WorkStep
<1>3. Owns(id, record[w].path)
  BY DEF Owns, WorksOn
<1>4. step \in {"idle", "saving"} \/ Owns(copy.id, copy.path)
  BY <1>3
<1>5. \A k \in DOMAIN resumes' : Owns(k, resumes'[k].path)
  <2> SUFFICES ASSUME NEW k \in DOMAIN resumes'
               PROVE  Owns(k, resumes'[k].path)
    OBVIOUS
  <2>1. CASE k = id
    BY <1>3, <2>1
  <2>2. CASE k # id
    <3>1. k \in DOMAIN resumes /\ resumes'[k] = resumes[k]
      BY <2>2 DEF Same
    <3> QED
      BY <3>1 DEF Owns
  <2> QED
    BY <2>1, <2>2
<1>6. PathsApart'
  BY <1>1, <1>4, <1>5, OwnersStay
<1>7. \A v \in Workers : phase'[v] = "saving" => record'[v].id = 0
  BY <1>1, CarryFacts DEF HistoriesNumbered
<1>8. HistoriesNumbered'
  BY <1>7 DEF HistoriesNumbered
<1> QED
  BY <1>2, <1>6, <1>8 DEF LifeInv

(* What LifeOf says of the resume of a request. *)
LEMMA OwnLife ==
  ASSUME IInv, NEW w \in Workers, Numbered(w), NEW id, id = record[w].id, LifeOf(id)
  PROVE  /\ phase[w] # "deleted" => id \in DOMAIN resumes /\ id \notin deleted
         /\ phase[w] = "deleted" => id \notin DOMAIN resumes /\ id \in deleted
         /\ id \in DOMAIN resumes =>
              /\ resumes[id].path = record[w].path
              /\ resumes[id].path \in DOMAIN files \/ phase[w] = "removed"
         /\ EventsOf(id) = {}
         /\ \/ MadeFor(id) = {}
            \/ /\ \E c : MadeFor(id) = {c}
               /\ record[w].candidate \in DOMAIN candidates
               /\ id \in DOMAIN resumes =>
                    resumes[id].candidate \in DOMAIN candidates \/ phase[w] = "upserted"
<1>1. WorksOn(w, id)
  BY DEF WorksOn
<1>2. \A v \in Workers : WorksOn(v, id) => v = w
  BY <1>1 DEF LifeOf
<1>3. phase[w] # "deleted" => id \in DOMAIN resumes /\ id \notin deleted
  BY <1>1 DEF LifeOf
<1>4. phase[w] = "deleted" => id \notin DOMAIN resumes /\ id \in deleted
  BY <1>1 DEF LifeOf
<1>5. id \in DOMAIN resumes => resumes[id].path = record[w].path
  BY OwnCopy
<1>6. id \in DOMAIN resumes => resumes[id].path \in DOMAIN files \/ phase[w] = "removed"
  BY <1>2 DEF LifeOf
<1>7. EventsOf(id) = {}
  BY <1>1 DEF LifeOf
<1>8. \/ MadeFor(id) = {}
      \/ /\ \E c : MadeFor(id) = {c}
         /\ record[w].candidate \in DOMAIN candidates
         /\ id \in DOMAIN resumes =>
              resumes[id].candidate \in DOMAIN candidates \/ phase[w] = "upserted"
  BY <1>1, <1>2 DEF LifeOf
<1> QED
  BY <1>3, <1>4, <1>5, <1>6, <1>7, <1>8
-----------------------------------------------------------------------------
LEMMA SameEvents ==
  ASSUME UNCHANGED <<deleted, events, origin>>, NEW k,
         k \in DOMAIN resumes' <=> k \in DOMAIN resumes,
         k \in DOMAIN resumes =>
           /\ resumes'[k] = resumes[k]
           /\ resumes[k].path \in DOMAIN files => resumes[k].path \in DOMAIN files'
  PROVE  Same(k)
BY DEF Same, EventsOf, MadeFor

LEMMA RangesKept ==
  ASSUME IInv, LifeInv
  PROVE  /\ DOMAIN resumes \subseteq 1..nextResumeSeq /\ nextResumeSeq \in Nat
         /\ deleted \subseteq 1..nextResumeSeq
         /\ \A n \in DOMAIN events : events[n] <= nextResumeSeq
         /\ \A c \in DOMAIN origin : origin[c] <= nextResumeSeq
BY DEF IInv, TypeOK, LifeInv, HistoriesNumbered

(* Storing the copy with another status. *)
LEMMA StoreLife ==
  ASSUME IInv, LifeInv, NEW w \in Workers, NEW s \in ParseStatus,
         phase[w] \in Parsing,
         UpdateResume([record[w] EXCEPT !.status = s]),
         \/ s = "processing" /\ Carry(w, "parsing", [record[w] EXCEPT !.status = s])
         \/ s \in {"success", "failed"} /\ Done(w),
         UNCHANGED <<nextResumeSeq, candidates, origin, diskVars, events, calls,
                     deleted, overlapped>>
  PROVE  LifeInv'
<1> DEFINE copy == [record[w] EXCEPT !.status = s]
<1> SUFFICES ASSUME NEW id, id = record[w].id
             PROVE  LifeInv'
  OBVIOUS
<1>1. /\ Numbered(w) /\ phase[w] \notin {"deleted", "removed"}
      /\ UNCHANGED <<nextResumeSeq, candidates, origin, files, events, deleted, overlapped>>
  BY DEF Numbered, Parsing, diskVars
<1>2. record[w] \in Record /\ id \in 1..nextResumeSeq
  BY <1>1, OwnCopy
<1>3. copy.id = id /\ copy.path = record[w].path /\ copy.candidate = record[w].candidate
  BY <1>2 DEF Record
<1>4. resumes' = With(resumes, id, copy)
  BY <1>3 DEF UpdateResume
<1>5. PICK step \in {"parsing", "idle"}, carried \in {copy, NoRecord} :
        Carry(w, step, carried) /\ (step # "idle" => carried = copy)
  <2>1. CASE Carry(w, "parsing", copy)
    BY <2>1
  <2>2. CASE Carry(w, "idle", NoRecord)
    BY <2>2
  <2> QED
    BY <2>1, <2>2 DEF Done
<1> HIDE DEF copy
<1>6. /\ DOMAIN resumes' = DOMAIN resumes \cup {id}
      /\ resumes'[id] = copy
      /\ \A k \in DOMAIN resumes : k # id => resumes'[k] = resumes[k]
  <2> DEFINE stored == With(resumes, id, copy)
  <2>1. /\ DOMAIN stored = DOMAIN resumes \cup {id}
        /\ stored[id] = copy
        /\ \A k \in DOMAIN resumes : k # id => stored[k] = resumes[k]
    BY DEF With
  <2>2. resumes' = stored
    BY <1>4
  <2> HIDE DEF stored
  <2> QED
    BY <2>1, <2>2
<1>7. \A k \in 1..nextResumeSeq : k # id => Same(k)
  BY <1>1, <1>6, SameEvents
<1>8. ASSUME LifeOf(id)
      PROVE  LivesOn(id, step, carried)
  <2>1. /\ id \in DOMAIN resumes /\ id \notin deleted
        /\ record[w].path \in DOMAIN files
        /\ EventsOf(id) = {}
        /\ \/ MadeFor(id) = {}
           \/ (\E c : MadeFor(id) = {c}) /\ record[w].candidate \in DOMAIN candidates
    BY <1>1, <1>8, OwnLife
  <2>2. EventsOf(id)' = EventsOf(id) /\ MadeFor(id)' = MadeFor(id)
    BY <1>1 DEF EventsOf, MadeFor
  <2> QED
    BY <1>1, <1>3, <1>5, <1>6, <2>1, <2>2 DEF LivesOn
<1>9. step \in Phases \ {"saving"}
  BY <1>5 DEF Phases, Parsing
<1>10. DOMAIN resumes' \subseteq 1..nextResumeSeq
  BY <1>2, <1>6, RangesKept
<1> QED
  BY <1>1, <1>3, <1>5, <1>6, <1>7, <1>8, <1>9, <1>10, RangesKept, RequestStep

LEMMA ParseLife ==
  ASSUME IInv, LifeInv, NEW w \in Workers, Parse(w)
  PROVE  LifeInv'
<1> SUFFICES ASSUME NEW id, id = record[w].id
             PROVE  LifeInv'
  OBVIOUS
<1>1. PICK step \in {"readable", "unreadable"} : Carry(w, step, record[w])
  BY DEF Parse
<1>2. /\ phase[w] = "parsing" /\ Numbered(w)
      /\ UNCHANGED <<resumes, nextResumeSeq, candidates, origin, files, events, deleted,
                     overlapped>>
  BY DEF Parse, repoVars, diskVars, Numbered
<1>3. \A k \in 1..nextResumeSeq : k # id => Same(k)
  BY <1>2, SameEvents
<1>4. ASSUME LifeOf(id)
      PROVE  LivesOn(id, step, record[w])
  <2>1. EventsOf(id)' = EventsOf(id) /\ MadeFor(id)' = MadeFor(id)
    BY <1>2 DEF EventsOf, MadeFor
  <2>2. /\ id \in DOMAIN resumes /\ id \notin deleted
        /\ resumes[id].path \in DOMAIN files
        /\ EventsOf(id) = {}
        /\ \/ MadeFor(id) = {}
           \/ /\ \E c : MadeFor(id) = {c}
              /\ record[w].candidate \in DOMAIN candidates
              /\ resumes[id].candidate \in DOMAIN candidates
    BY <1>2, <1>4, OwnLife
  <2> QED
    BY <1>2, <2>1, <2>2 DEF LivesOn
<1>5. step \in Phases \ {"saving"}
  BY DEF Phases, Parsing
<1>6. id \in DOMAIN resumes => resumes[id].path = record[w].path
  BY <1>2, OwnCopy
<1> QED
  BY <1>1, <1>2, <1>3, <1>4, <1>5, <1>6, RangesKept, RequestStep

(* The indices of k in a sequence that got one element more. *)
LEMMA IndicesAppended ==
  ASSUME NEW q \in Seq(Nat), NEW e \in Nat, NEW k
  PROVE  /\ k # e => {n \in DOMAIN Append(q, e) : Append(q, e)[n] = k}
                      = {n \in DOMAIN q : q[n] = k}
         /\ {n \in DOMAIN q : q[n] = e} = {}
              => {n \in DOMAIN Append(q, e) : Append(q, e)[n] = e} = {Len(q) + 1}
<1> DEFINE r == Append(q, e)
<1>1. /\ r \in Seq(Nat) /\ Len(r) = Len(q) + 1
      /\ \A n \in 1..Len(q) : r[n] = q[n]
      /\ r[Len(q) + 1] = e
  BY AppendProperties
<1>2. DOMAIN r = 1..Len(r) /\ DOMAIN q = 1..Len(q) /\ Len(q) \in Nat
  BY <1>1, LenProperties
<1> HIDE DEF r
<1>3. DOMAIN r = DOMAIN q \cup {Len(q) + 1}
  BY <1>1, <1>2
<1>4. /\ k # e => {n \in DOMAIN r : r[n] = k} = {n \in DOMAIN q : q[n] = k}
      /\ {n \in DOMAIN q : q[n] = e} = {} => {n \in DOMAIN r : r[n] = e} = {Len(q) + 1}
  BY <1>1, <1>2, <1>3
<1> QED
  BY <1>4 DEF r

LEMMA UpsertLife ==
  ASSUME IInv, LifeInv, NEW w \in Workers, UpsertCandidate(w)
  PROVE  LifeInv'
<1> DEFINE known == record[w].candidate \in DOMAIN candidates
           c == IF known THEN record[w].candidate ELSE Len(candidates) + 1
           copy == [record[w] EXCEPT !.candidate = c]
<1> SUFFICES ASSUME NEW id, id = record[w].id
             PROVE  LifeInv'
  OBVIOUS
<1>1. /\ phase[w] = "readable" /\ Numbered(w)
      /\ candidates' = IF known THEN [candidates EXCEPT ![record[w].candidate] = id]
                       ELSE Append(candidates, id)
      /\ origin' = IF known THEN origin ELSE Append(origin, id)
      /\ Carry(w, "upserted", copy)
      /\ UNCHANGED <<resumes, nextResumeSeq, files, events, deleted, overlapped>>
  BY DEF UpsertCandidate, diskVars, Numbered
<1>2. /\ record[w] \in Record /\ id \in 1..nextResumeSeq /\ id \in Nat
      /\ nextResumeSeq \in Nat
      /\ candidates \in Seq(Nat) /\ origin \in Seq(Nat)
      /\ Len(candidates) \in Nat /\ DOMAIN candidates = 1..Len(candidates)
  BY <1>1, OwnCopy, LenProperties DEF IInv, TypeOK, Record
<1>3. DOMAIN candidates \subseteq DOMAIN candidates' /\ c \in DOMAIN candidates'
  <2>1. CASE known
    <3>1. DOMAIN candidates' = DOMAIN candidates
      BY <2>1, <1>1
    <3> QED
      BY <3>1, <2>1
  <2>2. CASE ~known
    <3>1. DOMAIN Append(candidates, id) = 1..(Len(candidates) + 1)
      BY <1>2, AppendProperties, LenProperties
    <3> QED
      BY <3>1, <2>2, <1>1, <1>2
  <2> QED
    BY <2>1, <2>2
<1>4. copy.id = id /\ copy.path = record[w].path /\ copy.candidate = c
  BY <1>2 DEF Record
<1> HIDE DEF copy, c
<1>5. \A k : EventsOf(k)' = EventsOf(k)
  BY <1>1 DEF EventsOf
<1>6. \A k : k # id => MadeFor(k)' = MadeFor(k)
  BY <1>1, <1>2, IndicesAppended DEF MadeFor
<1>7. known => MadeFor(id)' = MadeFor(id)
  BY <1>1 DEF MadeFor
<1>8. ~known /\ MadeFor(id) = {} => \E n : MadeFor(id)' = {n}
  <2> SUFFICES ASSUME ~known, MadeFor(id) = {}
               PROVE  MadeFor(id)' = {Len(origin) + 1}
    OBVIOUS
  <2>1. {n \in DOMAIN origin : origin[n] = id} = {}
    BY DEF MadeFor
  <2>2. {n \in DOMAIN Append(origin, id) : Append(origin, id)[n] = id} = {Len(origin) + 1}
    BY <1>2, <2>1, IndicesAppended
  <2>3. origin' = Append(origin, id)
    BY <1>1
  <2> QED
    BY <2>2, <2>3 DEF MadeFor
<1>9. \A k \in 1..nextResumeSeq : k # id => Same(k)
  BY <1>1, <1>5, <1>6 DEF Same
<1>10. ASSUME LifeOf(id)
       PROVE  LivesOn(id, "upserted", copy)
  <2>1. /\ id \in DOMAIN resumes /\ id \notin deleted
        /\ resumes[id].path \in DOMAIN files
        /\ EventsOf(id) = {}
        /\ MadeFor(id) = {} \/ ((\E n : MadeFor(id) = {n}) /\ known)
    BY <1>1, <1>10, OwnLife
  <2>2. MadeFor(id)' = {} \/ \E n : MadeFor(id)' = {n}
    BY <1>7, <1>8, <2>1
  <2> QED
    BY <1>1, <1>3, <1>4, <1>5, <2>1, <2>2 DEF LivesOn
<1>11. "upserted" \in Phases \ {"saving"}
  BY DEF Phases, Parsing
<1>12. \A n \in DOMAIN origin' : origin'[n] <= nextResumeSeq
  <2>1. CASE known
    BY <1>1, <2>1, RangesKept
  <2>2. CASE ~known
    <3>1. /\ DOMAIN Append(origin, id) = 1..(Len(origin) + 1)
          /\ \A n \in 1..Len(origin) : Append(origin, id)[n] = origin[n]
          /\ Append(origin, id)[Len(origin) + 1] = id
          /\ DOMAIN origin = 1..Len(origin) /\ Len(origin) \in Nat
      BY <1>2, AppendProperties, LenProperties
    <3>2. \A n \in DOMAIN origin : origin[n] <= nextResumeSeq
      BY RangesKept
    <3>3. origin' = Append(origin, id)
      BY <1>1, <2>2
    <3>4. \A n \in 1..(Len(origin) + 1) : n \in 1..Len(origin) \/ n = Len(origin) + 1
      BY <3>1
    <3> QED
      BY <1>2, <3>1, <3>2, <3>3, <3>4
  <2> QED
    BY <2>1, <2>2
<1>13. id \in DOMAIN resumes => resumes[id].path = record[w].path
  BY <1>1, OwnCopy
<1> HIDE DEF known
<1> QED
  BY <1>1, <1>3, <1>4, <1>9, <1>10, <1>11, <1>12, <1>13, RangesKept, RequestStep

LEMMA RemoveFileLife ==
  ASSUME IInv, LifeInv, NEW w \in Workers, RemoveFile(w)
  PROVE  LifeInv'
<1> SUFFICES ASSUME NEW id, id = record[w].id
             PROVE  LifeInv'
  OBVIOUS
<1>1. /\ phase[w] = "found" /\ Numbered(w)
      /\ UNCHANGED <<resumes, nextResumeSeq, candidates, origin, events, deleted, overlapped>>
      /\ Carry(w, "removed", record[w])
      /\ DOMAIN files' = DOMAIN files \ {record[w].path}
  BY DEF RemoveFile, repoVars, Numbered, Without
<1>2. \A k \in DOMAIN resumes : k # id => resumes[k].path # record[w].path
  <2>1. Owns(id, record[w].path)
    BY <1>1 DEF Owns, WorksOn
  <2>2. \A k \in DOMAIN resumes : Owns(k, resumes[k].path)
    BY DEF Owns
  <2> QED
    BY <2>1, <2>2 DEF LifeInv, PathsApart
<1>3. \A k \in 1..nextResumeSeq : k # id => Same(k)
  BY <1>1, <1>2, SameEvents
<1>4. ASSUME LifeOf(id)
      PROVE  LivesOn(id, "removed", record[w])
  <2>1. EventsOf(id)' = EventsOf(id) /\ MadeFor(id)' = MadeFor(id)
    BY <1>1 DEF EventsOf, MadeFor
  <2>2. /\ id \in DOMAIN resumes /\ id \notin deleted
        /\ EventsOf(id) = {}
        /\ \/ MadeFor(id) = {}
           \/ /\ \E c : MadeFor(id) = {c}
              /\ record[w].candidate \in DOMAIN candidates
              /\ resumes[id].candidate \in DOMAIN candidates
    BY <1>1, <1>4, OwnLife
  <2> QED
    BY <1>1, <2>1, <2>2 DEF LivesOn
<1>5. "removed" \in Phases \ {"saving"}
  BY DEF Phases
<1>6. id \in DOMAIN resumes => resumes[id].path = record[w].path
  BY <1>1, OwnCopy
<1> QED
  BY <1>1, <1>3, <1>4, <1>5, <1>6, RangesKept, RequestStep

LEMMA RemoveFailsLife ==
  ASSUME IInv, LifeInv, NEW w \in Workers, RemoveFails(w)
  PROVE  LifeInv'
<1> SUFFICES ASSUME NEW id, id = record[w].id
             PROVE  LifeInv'
  OBVIOUS
<1>1. /\ phase[w] = "found" /\ Numbered(w)
      /\ UNCHANGED <<resumes, nextResumeSeq, candidates, origin, files, events, deleted,
                     overlapped>>
      /\ Carry(w, "idle", NoRecord)
  BY DEF RemoveFails, repoVars, diskVars, Numbered, Done
<1>2. \A k \in 1..nextResumeSeq : k # id => Same(k)
  BY <1>1, SameEvents
<1>3. ASSUME LifeOf(id)
      PROVE  LivesOn(id, "idle", NoRecord)
  <2>1. EventsOf(id)' = EventsOf(id) /\ MadeFor(id)' = MadeFor(id)
    BY <1>1 DEF EventsOf, MadeFor
  <2>2. /\ id \in DOMAIN resumes /\ id \notin deleted
        /\ resumes[id].path \in DOMAIN files
        /\ EventsOf(id) = {}
        /\ \/ MadeFor(id) = {}
           \/ /\ \E c : MadeFor(id) = {c}
              /\ resumes[id].candidate \in DOMAIN candidates
    BY <1>1, <1>3, OwnLife
  <2> QED
    BY <1>1, <2>1, <2>2 DEF LivesOn
<1>4. "idle" \in Phases \ {"saving"}
  BY DEF Phases
<1>5. id \in DOMAIN resumes => resumes[id].path = record[w].path
  BY <1>1, OwnCopy
<1> QED
  BY <1>1, <1>2, <1>3, <1>4, <1>5, RangesKept, RequestStep

LEMMA DeleteResumeLife ==
  ASSUME IInv, LifeInv, NEW w \in Workers, DeleteResume(w)
  PROVE  LifeInv'
<1> SUFFICES ASSUME NEW id, id = record[w].id
             PROVE  LifeInv'
  OBVIOUS
<1>1. /\ phase[w] = "removed" /\ Numbered(w)
      /\ UNCHANGED <<nextResumeSeq, candidates, origin, files, events, overlapped>>
  BY DEF DeleteResume, diskVars, Numbered
<1>2. id \in 1..nextResumeSeq
  BY <1>1, OwnCopy
<1>3. id \in DOMAIN resumes => resumes[id].path = record[w].path
  BY <1>1, OwnCopy
<1>4. "idle" \in Phases \ {"saving"} /\ "deleted" \in Phases \ {"saving"}
  BY DEF Phases
<1>5. CASE id \notin DOMAIN resumes
  <2>1. Carry(w, "idle", NoRecord) /\ UNCHANGED <<resumes, deleted>>
    BY <1>5 DEF DeleteResume, Done
  <2>2. \A k \in 1..nextResumeSeq : k # id => Same(k)
    BY <1>1, <2>1, SameEvents
  <2>3. ~LifeOf(id)
    BY <1>1, <1>5, OwnLife
  <2> QED
    BY <1>1, <1>4, <1>5, <2>1, <2>2, <2>3, RangesKept, RequestStep
<1>6. CASE id \in DOMAIN resumes
  <2>1. /\ Carry(w, "deleted", record[w])
        /\ deleted' = deleted \cup {id}
        /\ DOMAIN resumes' = DOMAIN resumes \ {id}
        /\ \A k \in DOMAIN resumes' : resumes'[k] = resumes[k]
    BY <1>6 DEF DeleteResume, Without
  <2>2. \A k : EventsOf(k)' = EventsOf(k) /\ MadeFor(k)' = MadeFor(k)
    BY <1>1 DEF EventsOf, MadeFor
  <2>3. \A k \in 1..nextResumeSeq : k # id => Same(k)
    BY <1>1, <2>1, <2>2 DEF Same
  <2>4. ASSUME LifeOf(id)
        PROVE  LivesOn(id, "deleted", record[w])
    <3>1. /\ EventsOf(id) = {}
          /\ \/ MadeFor(id) = {}
             \/ /\ \E c : MadeFor(id) = {c}
                /\ record[w].candidate \in DOMAIN candidates
      BY <1>1, <2>4, OwnLife
    <3> QED
      BY <1>1, <2>1, <2>2, <3>1 DEF LivesOn
  <2>5. DOMAIN resumes' \subseteq 1..nextResumeSeq /\ deleted' \subseteq 1..nextResumeSeq
    BY <1>2, <2>1, RangesKept
  <2> QED
    BY <1>1, <1>4, <2>1, <2>3, <2>4, <2>5, RangesKept, RequestStep
<1> QED
  BY <1>5, <1>6

LEMMA RecordDeleteLife ==
  ASSUME IInv, LifeInv, NEW w \in Workers, RecordDelete(w)
  PROVE  LifeInv'
<1> SUFFICES ASSUME NEW id, id = record[w].id
             PROVE  LifeInv'
  OBVIOUS
<1>1. /\ phase[w] = "deleted" /\ Numbered(w)
      /\ events' = Append(events, id)
      /\ UNCHANGED <<resumes, nextResumeSeq, candidates, origin, files, deleted, overlapped>>
      /\ Carry(w, "idle", NoRecord)
  BY DEF RecordDelete, repoVars, diskVars, Numbered, Done
<1>2. id \in 1..nextResumeSeq /\ id \in Nat /\ nextResumeSeq \in Nat /\ events \in Seq(Nat)
  BY <1>1, OwnCopy DEF IInv, TypeOK
<1>3. \A k : MadeFor(k)' = MadeFor(k)
  BY <1>1 DEF MadeFor
<1>4. \A k : k # id => EventsOf(k)' = EventsOf(k)
  BY <1>1, <1>2, IndicesAppended DEF EventsOf
<1>5. \A k \in 1..nextResumeSeq : k # id => Same(k)
  BY <1>1, <1>3, <1>4 DEF Same
<1>6. ASSUME LifeOf(id)
      PROVE  LivesOn(id, "idle", NoRecord)
  <2>1. /\ id \notin DOMAIN resumes /\ id \in deleted
        /\ EventsOf(id) = {}
        /\ MadeFor(id) = {} \/ \E c : MadeFor(id) = {c}
    BY <1>1, <1>6, OwnLife
  <2>2. EventsOf(id)' = {Len(events) + 1}
    <3>1. {n \in DOMAIN events : events[n] = id} = {}
      BY <2>1 DEF EventsOf
    <3>2. {n \in DOMAIN Append(events, id) : Append(events, id)[n] = id} = {Len(events) + 1}
      BY <1>2, <3>1, IndicesAppended
    <3> QED
      BY <1>1, <3>2 DEF EventsOf
  <2> QED
    BY <1>1, <1>3, <2>1, <2>2 DEF LivesOn
<1>7. \A n \in DOMAIN events' : events'[n] <= nextResumeSeq
  <2>1. /\ DOMAIN Append(events, id) = 1..(Len(events) + 1)
        /\ \A n \in 1..Len(events) : Append(events, id)[n] = events[n]
        /\ Append(events, id)[Len(events) + 1] = id
        /\ DOMAIN events = 1..Len(events) /\ Len(events) \in Nat
    BY <1>2, AppendProperties, LenProperties
  <2>2. \A n \in DOMAIN events : events[n] <= nextResumeSeq
    BY RangesKept
  <2>3. \A n \in 1..(Len(events) + 1) : n \in 1..Len(events) \/ n = Len(events) + 1
    BY <2>1
  <2> QED
    BY <1>1, <1>2, <2>1, <2>2, <2>3
<1>8. "idle" \in Phases \ {"saving"}
  BY DEF Phases
<1>9. id \in DOMAIN resumes => resumes[id].path = record[w].path
  BY <1>1, OwnCopy
<1> QED
  BY <1>1, <1>5, <1>6, <1>7, <1>8, <1>9, RangesKept, RequestStep
-----------------------------------------------------------------------------
(* A request that has no number before the step nor after it. *)
LEMMA UnnumberedLife ==
  ASSUME IInv, LifeInv, NEW w \in Workers, ~Numbered(w),
         NEW step \in {"idle", "saving"}, NEW copy, Carry(w, step, copy),
         step = "saving" => copy.id = 0,
         UNCHANGED <<resumes, nextResumeSeq, candidates, origin, events, deleted, overlapped>>,
         DOMAIN files \subseteq DOMAIN files'
  PROVE  LifeInv'
<1>1. TypeOK /\ PathsApart /\ HistoriesNumbered /\ Lives
  BY DEF IInv, LifeInv
<1>2. Lives'
  <2> SUFFICES ASSUME NEW k \in (1..nextResumeSeq) \ overlapped
               PROVE  LifeOf(k)'
    BY DEF Lives
  <2>1. LifeOf(k) /\ ~WorksOn(w, k)
    BY <1>1 DEF Lives, WorksOn
  <2>2. Same(k)
    BY SameEvents
  <2> QED
    BY <1>1, <2>1, <2>2, Elsewhere
<1>3. \A k \in DOMAIN resumes' : Owns(k, resumes'[k].path)
  BY DEF Owns
<1>4. PathsApart'
  BY <1>1, <1>3, OwnersStay
<1>5. \A v \in Workers : phase'[v] = "saving" => record'[v].id = 0
  BY <1>1, CarryFacts DEF HistoriesNumbered
<1>6. HistoriesNumbered'
  BY <1>1, <1>5 DEF HistoriesNumbered
<1> QED
  BY <1>2, <1>4, <1>6 DEF LifeInv

LEMMA UploadLife ==
  ASSUME IInv, LifeInv, NEW w \in Workers, BeginUpload(w) \/ SaveFails(w)
  PROVE  LifeInv'
<1>1. CASE BeginUpload(w)
  <2>1. PICK supported \in BOOLEAN, c \in 0..(Len(candidates) + 1) :
          Carry(w, "saving", [id |-> 0, path |-> nextPath + 1, supported |-> supported,
                              status |-> "pending", candidate |-> c])
    BY <1>1 DEF BeginUpload
  <2>2. /\ ~Numbered(w)
        /\ UNCHANGED <<resumes, nextResumeSeq, candidates, origin, events, deleted, overlapped>>
        /\ DOMAIN files \subseteq DOMAIN files'
    BY <1>1 DEF BeginUpload, Numbered, repoVars, With
  <2> QED
    BY <2>1, <2>2, UnnumberedLife
<1>2. CASE SaveFails(w)
  <2>1. /\ ~Numbered(w)
        /\ Carry(w, "idle", NoRecord)
        /\ UNCHANGED <<resumes, nextResumeSeq, candidates, origin, events, deleted, overlapped,
                       files>>
    BY <1>2 DEF SaveFails, Numbered, repoVars, Done
  <2> QED
    BY <2>1, UnnumberedLife
<1> QED
  BY <1>1, <1>2

(* A new resume has a number and a path of its own. *)
LEMMA CreateResumeLife ==
  ASSUME IInv, LifeInv, NEW w \in Workers, CreateResume(w)
  PROVE  LifeInv'
<1> SUFFICES ASSUME NEW id, id = nextResumeSeq + 1,
                    NEW copy, copy = [record[w] EXCEPT !.id = id],
                    NEW path, path = record[w].path
             PROVE  LifeInv'
  OBVIOUS
<1>1. PICK step \in {"ready", "unsupported"} : Carry(w, step, copy)
  BY DEF CreateResume
<1>2. /\ phase[w] = "saving" /\ nextResumeSeq' = id
      /\ UNCHANGED <<candidates, origin, events, deleted, overlapped>>
      /\ nextResumeSeq \in Nat /\ id \in Nat /\ id \notin 1..nextResumeSeq
      /\ 1..id = 1..nextResumeSeq \cup {id}
      /\ DOMAIN resumes \subseteq 1..nextResumeSeq
  BY DEF CreateResume, IInv, TypeOK
<1>3. record[w] \in Record /\ path \in DOMAIN files
  BY <1>2 DEF IInv, CopiesTyped, SavingAlone
<1>4. copy.id = id /\ copy.path = path
  BY <1>3 DEF Record
<1>5. /\ DOMAIN resumes' = DOMAIN resumes \cup {id}
      /\ resumes'[id] = copy
      /\ \A k \in DOMAIN resumes : k # id => resumes'[k] = resumes[k]
  <2> DEFINE stored == With(resumes, id, copy)
  <2>1. /\ DOMAIN stored = DOMAIN resumes \cup {id}
        /\ stored[id] = copy
        /\ \A k \in DOMAIN resumes : k # id => stored[k] = resumes[k]
    BY DEF With
  <2>2. resumes' = stored
    BY <1>4 DEF CreateResume
  <2> HIDE DEF stored
  <2> QED
    BY <2>1, <2>2
<1>6. DOMAIN files' = DOMAIN files
  BY <1>3 DEF CreateResume, With
<1>7. /\ \A v \in Workers : Numbered(v) => record[v].id \in 1..nextResumeSeq
      /\ ~Numbered(w)
      /\ \A v \in Workers : Numbered(v) => record[v].path # path
      /\ \A k \in DOMAIN resumes : resumes[k].path # path
  BY <1>2 DEF IInv, CopiesTyped, SavingAlone, Numbered
<1>8. TypeOK /\ PathsApart /\ HistoriesNumbered /\ Lives
  BY DEF IInv, LifeInv
<1>9. \A k : EventsOf(k)' = EventsOf(k) /\ MadeFor(k)' = MadeFor(k)
  BY <1>2 DEF EventsOf, MadeFor
<1>10. LifeOf(id)'
  <2>1. \A v \in Workers : v # w => ~WorksOn(v, id)
    BY <1>2, <1>7 DEF WorksOn
  <2>2. EventsOf(id) = {} /\ MadeFor(id) = {} /\ id \notin deleted
    <3>1. ~(id <= nextResumeSeq)
      BY <1>2
    <3> QED
      BY <1>2, <1>8, <3>1 DEF HistoriesNumbered, EventsOf, MadeFor
  <2>3. LivesOn(id, step, copy)
    BY <1>2, <1>3, <1>4, <1>5, <1>6, <1>9, <2>2 DEF LivesOn
  <2>4. step \in Phases \ {"saving"}
    BY DEF Phases, Parsing
  <2> QED
    BY <1>1, <1>4, <1>8, <2>1, <2>3, <2>4, Touched
<1>11. ASSUME NEW k \in (1..nextResumeSeq) \ overlapped
       PROVE  LifeOf(k)'
  <2>1. LifeOf(k) /\ ~WorksOn(w, k) /\ k # id
    BY <1>2, <1>7, <1>8 DEF Lives, WorksOn
  <2>2. Same(k)
    BY <1>2, <1>5, <1>6, <1>9, <2>1 DEF Same
  <2> QED
    BY <1>1, <1>2, <1>4, <1>8, <2>1, <2>2, Elsewhere
<1>12. Lives'
  BY <1>2, <1>10, <1>11 DEF Lives
<1>13. PathsApart'
  <2>1. ASSUME NEW k, NEW p, Owns(k, p)'
        PROVE  Owns(k, p) \/ (k = id /\ p = path)
    <3>1. CASE k \in DOMAIN resumes' /\ resumes'[k].path = p
      BY <1>4, <1>5, <3>1 DEF Owns
    <3>2. CASE \E v \in Workers : WorksOn(v, k)' /\ record'[v].path = p
      <4>1. PICK v \in Workers : WorksOn(v, k)' /\ record'[v].path = p
        BY <3>2
      <4>2. CASE v = w
        <5>1. record'[w] = copy
          BY <1>1, <1>8, CarryFacts
        <5>2. record'[w].id = k /\ record'[w].path = p
          BY <4>1, <4>2 DEF WorksOn
        <5> QED
          BY <1>4, <5>1, <5>2
      <4>3. CASE v # w
        <5>1. phase'[v] = phase[v] /\ record'[v] = record[v]
          BY <1>1, <1>8, <4>3, CarryFacts
        <5> QED
          BY <4>1, <5>1 DEF Owns, WorksOn, Numbered
      <4> QED
        BY <4>2, <4>3
    <3> QED
      BY <2>1, <3>1, <3>2 DEF Owns
  <2>2. /\ \A k : ~Owns(k, path)
        /\ \A p : ~Owns(id, p)
    BY <1>2, <1>7 DEF Owns, WorksOn
  <2> QED
    BY <1>8, <2>1, <2>2 DEF PathsApart
<1>14. HistoriesNumbered'
  <2>1. \A v \in Workers : phase'[v] = "saving" => record'[v].id = 0
    BY <1>1, <1>8, CarryFacts DEF HistoriesNumbered
  <2>2. deleted' \subseteq 1..id
    BY <1>2, <1>8 DEF HistoriesNumbered
  <2>3. /\ \A n \in DOMAIN events' : events'[n] <= id
        /\ \A c \in DOMAIN origin' : origin'[c] <= id
    <3>1. events \in Seq(Nat) /\ origin \in Seq(Nat)
      BY <1>8 DEF TypeOK
    <3>2. /\ \A n \in DOMAIN events : events[n] \in Nat
          /\ \A c \in DOMAIN origin : origin[c] \in Nat
      BY <3>1, ElementOfSeq, LenProperties
    <3> QED
      BY <1>2, <1>8, <3>2 DEF HistoriesNumbered
  <2> QED
    BY <1>2, <2>1, <2>2, <2>3 DEF HistoriesNumbered
<1> QED
  BY <1>12, <1>13, <1>14 DEF LifeInv

LEMMA BeginCallLife ==
  ASSUME IInv, LifeInv, NEW w \in Workers, NEW id \in DOMAIN resumes,
         NEW step \in {"ready", "found"}, BeginCall(w, id, step)
  PROVE  LifeInv'
<1>1. TypeOK /\ PathsApart /\ HistoriesNumbered /\ Lives
  BY DEF IInv, LifeInv
<1>2. /\ ~Numbered(w)
      /\ Carry(w, step, resumes[id])
      /\ UNCHANGED <<resumes, nextResumeSeq, candidates, origin, files, events, deleted>>
      /\ overlapped \subseteq overlapped'
      /\ InFlight(id) => id \in overlapped'
  BY DEF BeginCall, repoVars, diskVars, Numbered
<1>3. resumes[id].id = id /\ id \in 1..nextResumeSeq
  BY <1>1 DEF TypeOK
<1>4. \A k : Same(k)
  BY <1>2, SameEvents
<1>5. Lives'
  <2> SUFFICES ASSUME NEW k \in (1..nextResumeSeq) \ overlapped'
               PROVE  LifeOf(k)'
    BY <1>2 DEF Lives
  <2>1. LifeOf(k) /\ ~WorksOn(w, k)
    BY <1>1, <1>2 DEF Lives, WorksOn
  <2>2. CASE k # id
    <3>1. resumes[id].id # k
      BY <1>3, <2>2
    <3> QED
      BY <1>1, <1>2, <1>4, <2>1, <3>1, Elsewhere
  <2>3. CASE k = id
    <3>1. \A v \in Workers : ~WorksOn(v, id)
      BY <1>2, <2>3 DEF InFlight, WorksOn, Numbered
    <3>2. /\ id \notin deleted
          /\ resumes[id].path \in DOMAIN files
          /\ EventsOf(id) = {}
          /\ \/ MadeFor(id) = {}
             \/ /\ \E c : MadeFor(id) = {c}
                /\ resumes[id].candidate \in DOMAIN candidates
      BY <2>1, <2>3, <3>1 DEF LifeOf
    <3>3. EventsOf(id)' = EventsOf(id) /\ MadeFor(id)' = MadeFor(id)
      BY <1>2 DEF EventsOf, MadeFor
    <3>4. LivesOn(id, step, resumes[id])
      BY <1>2, <3>2, <3>3 DEF LivesOn
    <3>5. step \in Phases \ {"saving"}
      BY DEF Phases, Parsing
    <3> QED
      BY <1>1, <1>2, <1>3, <2>3, <3>1, <3>4, <3>5, Touched
  <2> QED
    BY <2>2, <2>3
<1>6. PathsApart'
  <2>1. \A k \in DOMAIN resumes : Owns(k, resumes[k].path)
    BY DEF Owns
  <2>2. Owns(resumes[id].id, resumes[id].path)
    BY <1>3, <2>1
  <2> QED
    BY <1>1, <1>2, <2>1, <2>2, OwnersStay
<1>7. HistoriesNumbered'
  <2>1. \A v \in Workers : phase'[v] = "saving" => record'[v].id = 0
    BY <1>1, <1>2, CarryFacts DEF HistoriesNumbered
  <2> QED
    BY <1>1, <1>2, <2>1 DEF HistoriesNumbered
<1> QED
  BY <1>5, <1>6, <1>7 DEF LifeInv

(* Candidates entered by hand and repaired files. *)
LEMMA NoRequestLife ==
  ASSUME IInv, LifeInv,
         UNCHANGED <<resumes, nextResumeSeq, events, phase, record, deleted, overlapped>>,
         DOMAIN files' = DOMAIN files,
         DOMAIN candidates \subseteq DOMAIN candidates',
         \A k \in 1..nextResumeSeq : MadeFor(k)' = MadeFor(k),
         \A c \in DOMAIN origin' : origin'[c] <= nextResumeSeq
  PROVE  LifeInv'
<1>1. PathsApart /\ HistoriesNumbered /\ Lives
  BY DEF LifeInv
<1>2. \A k, v : WorksOn(v, k)' <=> WorksOn(v, k)
  BY DEF WorksOn, Numbered
<1>3. Lives'
  <2> SUFFICES ASSUME NEW k \in (1..nextResumeSeq) \ overlapped
               PROVE  LifeOf(k)'
    BY DEF Lives
  <2>1. LifeOf(k)
    BY <1>1 DEF Lives
  <2>2. EventsOf(k)' = EventsOf(k) /\ MadeFor(k)' = MadeFor(k)
    BY DEF EventsOf
  <2>3. \A v \in Workers : WorksOn(v, k)' <=> WorksOn(v, k)
    BY <1>2
  <2> QED
    BY <2>1, <2>2, <2>3, Untouched
<1>4. \A k, path : Owns(k, path)' <=> Owns(k, path)
  BY DEF Owns, WorksOn, Numbered
<1>5. PathsApart'
  BY <1>1, <1>4 DEF PathsApart
<1>6. HistoriesNumbered'
  BY <1>1 DEF HistoriesNumbered
<1> QED
  BY <1>3, <1>5, <1>6 DEF LifeInv

LEMMA CreateCandidateLife ==
  ASSUME IInv, LifeInv, CreateCandidate
  PROVE  LifeInv'
<1>1. /\ candidates' = Append(candidates, 0) /\ origin' = Append(origin, 0)
      /\ UNCHANGED <<resumes, nextResumeSeq, files, events, phase, record, deleted, overlapped>>
      /\ candidates \in Seq(Nat) /\ origin \in Seq(Nat) /\ nextResumeSeq \in Nat
  BY DEF CreateCandidate, diskVars, IInv, TypeOK
<1>2. DOMAIN candidates \subseteq DOMAIN candidates'
  <2>1. /\ DOMAIN candidates = 1..Len(candidates) /\ Len(candidates) \in Nat
        /\ DOMAIN Append(candidates, 0) = 1..(Len(candidates) + 1)
    BY <1>1, AppendProperties, LenProperties
  <2> QED
    BY <1>1, <2>1
<1>3. \A k \in 1..nextResumeSeq : MadeFor(k)' = MadeFor(k)
  <2> SUFFICES ASSUME NEW k \in 1..nextResumeSeq
               PROVE  MadeFor(k)' = MadeFor(k)
    OBVIOUS
  <2>1. k # 0
    BY <1>1
  <2> QED
    BY <1>1, <2>1, IndicesAppended DEF MadeFor
<1>4. \A c \in DOMAIN origin' : origin'[c] <= nextResumeSeq
  <2>1. /\ DOMAIN Append(origin, 0) = 1..(Len(origin) + 1)
        /\ \A n \in 1..Len(origin) : Append(origin, 0)[n] = origin[n]
        /\ Append(origin, 0)[Len(origin) + 1] = 0
        /\ DOMAIN origin = 1..Len(origin) /\ Len(origin) \in Nat
    BY <1>1, AppendProperties, LenProperties
  <2>2. \A n \in DOMAIN origin : origin[n] <= nextResumeSeq
    BY RangesKept
  <2>3. \A n \in 1..(Len(origin) + 1) : n \in 1..Len(origin) \/ n = Len(origin) + 1
    BY <2>1
  <2> QED
    BY <1>1, <2>1, <2>2, <2>3
<1> QED
  BY <1>1, <1>2, <1>3, <1>4, NoRequestLife

LEMMA RepairFileLife ==
  ASSUME IInv, LifeInv, NEW path \in DOMAIN files, RepairFile(path)
  PROVE  LifeInv'
<1>1. /\ UNCHANGED <<resumes, nextResumeSeq, candidates, origin, events, phase, record, deleted,
                     overlapped>>
      /\ DOMAIN files' = DOMAIN files
  BY DEF RepairFile, repoVars
<1>2. \A k : MadeFor(k)' = MadeFor(k)
  BY <1>1 DEF MadeFor
<1> QED
  BY <1>1, <1>2, RangesKept, NoRequestLife
-----------------------------------------------------------------------------
LEMMA StepLife == IInv /\ LifeInv /\ [Next]_vars => LifeInv'
<1> SUFFICES ASSUME IInv, LifeInv, [Next]_vars
             PROVE  LifeInv'
  OBVIOUS
<1>1. ASSUME NEW w \in Workers, BeginUpload(w) \/ SaveFails(w) PROVE LifeInv'
  BY <1>1, UploadLife
<1>2. ASSUME NEW w \in Workers, RejectUnsupported(w) PROVE LifeInv'
  BY <1>2, StoreLife DEF RejectUnsupported, Parsing, ParseStatus
<1>3. ASSUME NEW w \in Workers, StartParsing(w) PROVE LifeInv'
  BY <1>3, StoreLife DEF StartParsing, Parsing, ParseStatus
<1>4. ASSUME NEW w \in Workers, ParseFailed(w) PROVE LifeInv'
  BY <1>4, StoreLife DEF ParseFailed, Parsing, ParseStatus
<1>5. ASSUME NEW w \in Workers, ParseSucceeded(w) PROVE LifeInv'
  BY <1>5, StoreLife DEF ParseSucceeded, Parsing, ParseStatus
<1>6. ASSUME NEW w \in Workers,
             \/ CreateResume(w) \/ Parse(w) \/ UpsertCandidate(w) \/ RemoveFile(w)
             \/ RemoveFails(w) \/ DeleteResume(w) \/ RecordDelete(w)
      PROVE  LifeInv'
  BY <1>6, CreateResumeLife, ParseLife, UpsertLife, RemoveFileLife, RemoveFailsLife,
     DeleteResumeLife, RecordDeleteLife
<1>7. ASSUME NEW w \in Workers, NEW id \in DOMAIN resumes, BeginRetry(w, id) \/ BeginDelete(w, id)
      PROVE  LifeInv'
  BY <1>7, BeginCallLife DEF BeginRetry, BeginDelete
<1>8. CASE CreateCandidate
  BY <1>8, CreateCandidateLife
<1>9. ASSUME NEW path \in DOMAIN files, RepairFile(path) PROVE LifeInv'
  BY <1>9, RepairFileLife
<1>10. CASE UNCHANGED vars
  <2>1. /\ UNCHANGED <<resumes, nextResumeSeq, candidates, origin, files, events, phase, record,
                       deleted, overlapped>>
    BY <1>10 DEF vars
  <2>2. \A k : MadeFor(k)' = MadeFor(k)
    BY <2>1 DEF MadeFor
  <2> QED
    BY <2>1, <2>2, RangesKept, NoRequestLife
<1>11. ASSUME NEW w \in Workers, SaveFails(w) \/ RemoveFails(w) \/ Proceed(w) PROVE LifeInv'
  BY <1>1, <1>2, <1>3, <1>4, <1>5, <1>6, <1>11 DEF Proceed
<1> QED
  BY <1>1, <1>7, <1>8, <1>9, <1>10, <1>11 DEF Next

(* As long as no two requests worked on a resume at a time, it has its     *)
(* file until a deletion removes both, it made one candidate at most, and  *)
(* a deletion is final and audited once, whatever happens to the others.   *)
THEOREM LivesAreClean == Spec => []CleanLifeWithoutOverlap
<1>1. ASSUME IInv, LifeInv
      PROVE  CleanLifeWithoutOverlap
  <2> SUFFICES ASSUME NEW id \in (1..nextResumeSeq) \ overlapped
               PROVE  CleanLife(id)
    BY DEF CleanLifeWithoutOverlap
  <2>1. LifeOf(id)
    BY <1>1 DEF LifeInv, Lives
  <2>2. InFlight(id) <=> \E w \in Workers : WorksOn(w, id)
    <3>1. id # 0
      BY <1>1 DEF IInv, TypeOK
    <3>2. \A w \in Workers : phase[w] = "saving" => record[w].id # id
      BY <1>1, <3>1 DEF LifeInv, HistoriesNumbered
    <3> QED
      BY <3>2 DEF InFlight, WorksOn, Numbered
  <2>3. id \in DOMAIN resumes => \/ resumes[id].path \in DOMAIN files
                                 \/ \E w \in Workers : phase[w] = "removed" /\ record[w].id = id
    BY <2>1 DEF LifeOf, WorksOn
  <2>4. Cardinality(MadeFor(id)) <= 1
    <3>1. MadeFor(id) = {} \/ \E c : MadeFor(id) = {c}
      BY <2>1 DEF LifeOf
    <3>2. Cardinality(MadeFor(id)) = 0 \/ Cardinality(MadeFor(id)) = 1
      BY <3>1, FS_EmptySet, FS_Singleton
    <3> QED
      BY <3>2
  <2>5. id \in deleted => id \notin DOMAIN resumes
    BY <2>1 DEF LifeOf
  <2>6. id \in deleted => Cardinality(EventsOf(id)) = IF InFlight(id) THEN 0 ELSE 1
    <3>1. id \in deleted /\ InFlight(id) => EventsOf(id) = {}
      BY <2>1, <2>2 DEF LifeOf
    <3>2. id \in deleted /\ ~InFlight(id) => \E n : EventsOf(id) = {n}
      BY <2>1, <2>2 DEF LifeOf
    <3> QED
      BY <3>1, <3>2, FS_EmptySet, FS_Singleton
  <2> QED
    BY <2>3, <2>4, <2>5, <2>6 DEF CleanLife, EventsOf, MadeFor
<1> QED
  BY <1>1, InitLife, InitIInv, StepLife, StepIInv, PTL DEF Spec
=============================================================================
