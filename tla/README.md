# Verification of resume_system

TLA+ modules, TLC configurations and TLAPS proofs for the recruiting server in
`src/`: resumes are uploaded and parsed into candidates, candidates are searched,
interviews scheduled, announced, transcribed and evaluated, reports and a
dashboard are made from the evaluations.

The server is one Go process. `net/http` runs every request in a goroutine of its
own; requests share in-memory repositories, each behind one mutex that is held
for the length of **one repository call**. A handler makes several such calls,
works on copies between them, and there is no transaction over two calls or two
repositories. Nearly everything that is hard in this system follows from that
sentence, and nearly every model below has the same shape: a *worker* is the
goroutine of a request, one repository call is one action, and the actions of
several workers interleave in every order.

## Inventory

| component | code | state | operations | what is hard | what makes it correct | modelled in |
|---|---|---|---|---|---|---|
| notification pipeline | `internal/interview/notification.go`, `repository.go`, `service.go` | the log, the event counter; per request the batch it dispatches | build, enqueue, dispatch with retries, alert, update the log, list | the sender fails; dispatch works on a copy that readers of the log do not see; several batches at a time | every event gets one verdict, which is what the sender saw and stays; nothing is forgotten | `Notifications`, `NotificationLedger` |
| interview scheduling | `internal/interview/service.go`, `server/router.go` | interviews; the candidates' status layer | create, update, cancel; conflict detection; status link | check and write are two critical sections; whole records are written back from copies; three stores, no transaction | no double booking; every interview has a candidate; everybody is told the present state | `Scheduling` (with `Notifications`) |
| real-time transcription | `internal/interview/transcription.go`, `repository.go` | sessions, segments, the number of the last segment per interview | start, append, mark interrupted, reconnect, poll with a cursor | copies of the session written back; two sessions share one numbering; lost answers | numbering without gaps; readers miss and repeat nothing; the status of a session | `Transcription`, `TranscriptFeed` |
| evaluation archive | `internal/interview/evaluation.go`, `repository.go` | versioned archive, audit log | submit (first and modified versions), latest view | the interview changes between check and archive; archive and audit are two steps | versions, latest flag and audit agree | `Evaluation`, `EvaluationHistory`, `Report`, `Dashboard` |
| resume upload, parsing, deletion | `internal/resume/service.go`, `repository.go`, `storage.go` | records, candidates, files on disk | upload (single and batch), parse, retry, delete | parsing and deletion overlap; files and records are two stores; each step may fail | no stray files, no resume stuck in parsing, success has its candidate, one candidate per resume | `ResumePipeline` |
| candidate store | `internal/resume/repository.go` | candidates | create, update the layer, upsert from a resume, search | profiles are merged from several resumes; see also the components that use it | a profile keeps what was said last | `Scheduling`, `ResumePipeline`, `CandidateSearch`, `CandidateProfiles` |
| candidate search | `internal/resume/candidate_search.go`, `service.go`, `repository.go`, `server/router.go` | none | typed filters, natural query, their merge, the filters | two sources of conditions on one field; what is not understood of a query becomes a keyword; limits in the wrong order | who is answered satisfies both; who satisfies both is answered | `CandidateSearch` |
| interview report | `internal/report/service.go` | reports by id | generate, get, export | rounds come out of a map; `compareRounds` mixes two orders; the id is a hash of the request, the candidate's profile included | one id, one report; scores in the order of rounds | partly: `Report` |
| recruiting dashboard | `internal/analytics/service.go`, `server/router.go` | none | read candidates, interviews, evaluations one after the other; count | the stores change between the reads | the latest version of feedback counts, once | partly: `Dashboard` (with `Evaluation`) |
| audit log | `internal/audit`, `server/router.go` | events | record, filtered query | several requests record, in another step than what they record; a query is cut at a limit | every audited change has its event; an answer about the past stays right | `AuditLog`, and the events in `Authentication`, `Evaluation`, `ResumePipeline` |
| resume parser | `internal/resume/parser.go` | none | find profile fields in a text | several sources of one field; lines with several labels | what is said clearly is found | partly: `CandidateProfiles`, `ResumePipeline` |
| recommendation of questions | `internal/interview/recommendation.go`, `server/router.go` | question bank | recommend, save | interview and profile are in two stores, and change during generation | a bank is for one candidate throughout and covers what it must | `Recommendation` (with `CandidateProfiles`) |
| calendar | `internal/interview/service.go`, `server/router.go` | none | interviews of a day, week, month | half-open slices, weeks that begin on a Monday, interviews across midnight | a week and a month show what their days show | `Calendar` (with `Scheduling`) |
| authentication | `internal/auth`, `server/router.go` | none here; sessions at the external service | login, refresh, logout, check of tokens | the service is late or silent; its answer and the audit event are two steps | logouts follow logins on record; every request ends | `Authentication` (with `AuditLog`) |
| roles and permissions | `internal/rbac` | a constant table | lookup | nothing | | partly: `Authentication` |
| routing | `internal/server`, `internal/httpx` | | | | | the handlers of the modelled components |
| start, configuration | `internal/config`, `cmd/server` | | read the environment, start once | | | not modelled |

How they interact. The handlers of `server/router.go` call the services; a
schedule change goes handler → `interview.Service` (conflicts, write, enqueue,
dispatch) → handler → `resume` repository (status layer). An evaluation goes
handler → `interview.Service` (read, check, archive) → audit. A deletion goes
handler → `resume.Service` (read, file, record) → audit. A report reads the
evaluations' latest view and stores the report; the dashboard reads candidates,
interviews and evaluations. The only callbacks are the notification sender and
the authentication service, both external. There are no background goroutines
and no timers but the timeout of the client of the authentication service;
nothing but uploaded files outlives the process.

## The models

Every definition that stands for code is listed in `PROJECT.json` under `map`
with the lines it stands for. Names are those of the source where TLA+ allows
it. Operators marked *Mutant* are the same definitions with a plausible bug in
them; they are not part of any behaviour and show that the property they are
listed with in `PROJECT.json` would catch that bug.

**`NotificationLedger`** is what the pipeline promises: an event is posted,
and later settled, once, in one step, as sent or alerted, and every event is
settled in the end.

**`Notifications`** is the pipeline. `notificationLog` and `nextEvent` are the
repository's fields, `batch[w]` is what a request took out and has still to
dispatch, its head the copy `Dispatch` works on. `EnqueueNotifications` and
`UpdateNotification` are one critical section each; `Send` is one call of the
sender. The default sender of the repository decides by the recipient's name;
the interface is open, so the sender of the model answers as it likes on each
call. `accepted` counts what the sender accepted and exists in the model only.
Templates and variables of messages are the payload of a notice and left out.
The refinement mapping keeps the status of each entry of the log; the "failed"
that appears during retries is in the request's copy and never in the log.

**`Scheduling`** composes the POST and PATCH handlers of interviews with
`Notifications` (one shared set of variables) and the layers of candidates. A
request is *begun* (the handler's lookups and the copy with the edits put in),
then goes through `detectConflicts`, the write, `Announce`, the dispatch of each
event and `LinkStatus`; or it is refused. `Edits` are bodies of PATCH requests
as records of the fields that are present; `asked[w]` keeps the body a request
came with until it has written, and exists in the model only. Round, note, time zone and colour are
left out. `raced` and `overlapped` are history: they remember that requests
passed the check together, or changed one interview at a time. Layers are also
set by hand (PATCH of a candidate), which `layerChanges` counts.

**`Calendar`** reads the interviews of `Scheduling` for a day, a week or a month.
Days are numbers, a day is `DayLength` instants long, and where weeks and months
begin is given by constants, as it is by package `time` in the code. `SameWeek`
and `SameMonth` say what a week and a month are without `calendarRange` and are
the reference it is compared with.

**`AuditLog`** is the repository of audit events with its clock. `Add` stamps an
event under the lock, `Query` walks the log from its end under the same lock, so
each is one step. A filter is a record of the parameters that are present; the
limits 100 and 1000 of the code are constants. `answers` remembers queries and
what they were told. The clock is taken not to go back.

**`Authentication`** composes login, refresh and logout with `AuditLog`. A
request waits for the external service (`Hear`), or gives up when the service
refuses, has not answered after the client's eight seconds, or the caller is gone
(`GiveUp`); then its handler records and answers, two steps. What the service
does after that reaches nobody. `held` are the sessions whose tokens a client
has got, `valid` those whose access token is still good; a session that was
logged out keeps its token, since the server looks at the token alone. Tokens
come from logins at this server, not from elsewhere.

**`Transcription`** has writers (append, mark interrupted, reconnect) which
read a session, change their copy, and store all of it, and readers that poll
with the cursor of the last answer. Appending is two critical sections
(`AppendTranscriptSegment`, `UpdateTranscriptSession`), polling too
(`BeginStream`, `ListTranscriptSegmentsSince`). `LoseAnswer` is an answer that
does not arrive. A limit of 0 stands for none; the limits 50 and 200 of the code
are constants.

**`TranscriptFeed`** is what transcription promises: per interview one list of
entries, numbered by their places, that grows by one entry at a time, and per
reader a prefix of it that grows until it is the whole list. Sessions' copies,
pages, limits, cursors and lost answers are gone. `segments` is the feed and
`received` what readers got.

**`Evaluation`** has submissions in three critical sections: the check against a
copy of the interview, the archive (count of versions, latest flag and new entry
in one), the audit event. `UpdateInterview` is the effect of a concurrent PATCH
of the interview; any candidate, round or interviewers may replace the old ones.

**`EvaluationHistory`** is what evaluations promise: a submission is one step, for
one assignment the interview had; all versions and latest flags of an interview
are told anew from the order of its archive (`Told`), where the code counts
entries and resets flags; and every evaluation enters the audit log once. The
archive, the log and the interviews' assignments are seen as they are.

**`ResumePipeline`** has uploads, retries and deletions step by step over
records, files and candidates. A file is "good" or "bad" for the parser; a copy
that breaks off, a removal that fails and a file repaired in place are actions.
A batch upload is uploads one after the other. Candidates are numbered; a form
may name one that exists, or none that does.

**`CandidateProfiles`** is what the parser reads in the text of a resume and how
`UpsertCandidate` merges it with what earlier resumes said. A line is given with
what the regular expressions find in it (labels, the words after the colon, an
email, numbers of years and months, whether it could be a name); which line each
field is taken from, and what goes before what, is modelled. `Clear` and `Silent`
are the reference: a text is clear about a field if one line alone speaks of it.
Texts are in one language, because the code looks for English years before
Chinese ones.

**`Recommendation`** has the requests for question banks, over `CandidateProfiles`
and interviews that change hands meanwhile. A request reads the interview, the
profile in the other store, the interview again, and saves; these are four
steps. A question is its category, its focus and the words put into it, so the
whole of `Generate`, the fallback, `ensureQuestionCoverage` and the cut at eight
are there, and the wording is not. A profile's skills and a job description are
sets of words.

**`CandidateSearch`** translates the options both sides of a request produce,
`mergeCandidateSearchOptions`, what the service makes of the options
(`SearchOptions`: two limits in the wrong order are exchanged) and the filters of
the repository. Texts are sequences of words, since the filters compare by
containment. What the regular expressions of `ParseNaturalCandidateQuery`
recognise in a query is left open: `natural` is any set of conditions that a query
can ask for, with words outside of all conditions (`rest`), and with the phrases
about experience apart, because there the recognition itself (a range is all that
counts; a minimum is found in an "at most" phrase) decides what is answered. Of
these phrases the one that was understood is taken out of the query, wherever it
is repeated (`Matched`); the others, or all if no limit came of them, stay
(`Left`). What stays (`Remainder`) is looked for as a keyword unless the query
names one. `PhraseText` stands for the words of all phrases, which are not told
apart. `AskedTyped` (the typed limits in either order) and `AskedNatural` (the
words outside of all conditions included) state the request without the options
and are the reference.

**`Report`** has the generate handler, step by step: it reads the candidate
(`GetCandidate`), then the view of the latest evaluations, answers 400 if there
are none (`NothingToReport`), and generates; `normalizeRequest` and the store of
reports are in `Generate`. The candidate's profile changes in between
(`ChangeCandidate`): a resume is parsed, or its status layer is set, by hand or by
scheduling. A profile is one value, the layer included. A round is a place in the order of
strings and the number `parseRoundNumber` finds; `sort.Slice` is the insertion
sort it is for up to twelve items, because with an inconsistent comparison the
result depends on the algorithm. The map the rounds come from is walked in any
order. The report id is the request itself: the hash is taken to be free of
collisions, and the request holds the profile that was read, the evaluations and
the user. Averages, comments and the exports are left out.

**`Dashboard`** composes the reads of `buildRecruitingDashboard` with
`Evaluation`, which goes on meanwhile. It models the workload of interviewers.
The funnel counts one list, durations are arithmetic, the CSV is text; all are
left out. All candidates are there from the start. `FeedbackCountedOnce` states
what is counted, `WorkloadIsCountOfEvaluations` the formula the dashboard gives
for its own metric.

## Runs

A request in flight is bounded only by the number of workers; other bounds are
constants named `Max...` that stop the system, which is why the cfg files turn
the deadlock check off: a state in which every bound is used up and every request
answered has no successor. None of the modelled steps waits for another
request (no step holds two mutexes), so there is no deadlock to look for.

| run | instance | shows |
|---|---|---|
| `notifications` | 2 requests, batches of 1 and 2 events, 4 events, 2 retries as in the code | the log's story, the verdicts, one carrier per pending event; `LedgerSpec`: the pipeline implements the ledger, its liveness included |
| `scheduling_conflicts` | 2 overlapping requests, 3 in all, 2 candidates, 2 interviewers, 3 instants, 7 kinds of edits; days of one instant around a Sunday on which a month ends | `RaceFreeNeverDoubleBooks`, `CandidatesKnown` (the status link cannot fail), `LinkedUnlessSetByHand`, `UpdateWritesWhatWasAsked` (the edit written is that of the request's own body), `CalendarShowsItsDays` |
| `scheduling_notices` | 2 overlapping requests, 3 in all, one channel, the sender fails or not | what is stored was announced; the last notice is current unless requests overlapped on the interview; what was written is answered |
| `scheduling_race` | as `scheduling_conflicts`, without the calendar | finding: `NoDoubleBooking` is violated |
| `transcription` | 2 writers, 2 sessions of one interview, 2 segments, 2 interruptions or reconnects, 1 reader with pages of 1 and 2 | numbering, cursors, `has_more` at the boundary, sessions exact unless requests overlapped; `FeedSpec`: transcription implements the feed, so readers get everything in the end |
| `evaluation` | 2 overlapping submissions, 3 in all, 1 interview, 2 interviewers, 2 candidates, 1 reassignment, 1 dashboard | versions in order, one version of the interview, audit and archive agree; `HistorySpec`: evaluations implement their history, so what is archived is audited in the end; the latest version of feedback that is not touched counts exactly once |
| `resume_pipeline` | 2 requests at a time, 2 uploads, 2 retries or deletions, 1 candidate entered by hand | success has its candidate, nobody is stuck in parsing (`UnfinishedIsInHand`, `ResumesSettle`), no stray files, a clean life without overlap |
| `resume_race` | 1 upload | finding: `DeletedOnce` is violated |
| `candidates` | two parts side by side, one of which moves. Recommendation: 2 requests at a time, 2 in all, 1 interview changed twice between 2 candidates and 2 rounds, 2 resumes of 4 kinds, with and without a job description. Search: every request with at most two conditions on a side, among them limits in the wrong order, two phrases on experience in either order, words outside of all conditions; 36 candidates | profiles tell the last clear word, a bank is of one moment, a bank covers experience and capability; who is answered is asked for by both sides, and nobody is missed as long as the sides speak of different things and the query is understood |
| `dashboard_formula` | 1 evaluation submitted and modified, 1 dashboard | finding: `WorkloadIsCountOfEvaluations` is violated |
| `report` | 3 evaluations of rounds with 3 kinds of names, which cannot all be ordered, 2 profiles and 2 changes of them, 2 users, 2 reports | the same evaluations and user give one id as long as the profile is the same, and another with another profile; reports never change; rounds in order where their names have one |
| `authentication` | 2 requests at a time, 3 in all, 2 users of whom one may read the log, limits of 1 and 2, one query | logouts follow logins, answers about a closed window hold, every request ends |

Why the bounds are enough for what they ask. A race needs two requests; the third
request of the scheduling, evaluation and transcription runs is what makes a
stale copy visible (a create, and two overlapping changes of it), and a retry
followed by a deletion is the longest life of a resume that has a new step in it.
Three instants give intervals that overlap, touch and are apart. Two segments
with pages of one and two give a page that is short, full with more behind it,
and full with nothing behind it. In the search, what goes wrong in a merge comes
from one pair of conditions. Two sessions of one interview are the smallest case
in which numbering is shared. Three requests are a login, and two requests with
its tokens; two changes of an interview between the steps of two requests give
each of them another candidate than the other. The audit limits are 1 and 2
instead of 100 and 1000 so that two events fill an answer. The two workers of
`candidates` are exchangeable, and so are the users and the profiles of `report`
(no definition tells them apart, and these runs have no liveness property), so
the runs use that symmetry. Two changes of a profile lead away from it and back. In
`scheduling_conflicts` there is no channel, because notifications are another store and feed nothing back into
conflicts; in `scheduling_notices` one retry of the sender would only repeat what
`notifications` explores.

Fairness. A request that was taken runs on: `net/http` gives it a goroutine that
waits only for mutexes held for one call each, hence weak fairness of the steps
of each worker (and no fairness of taking requests, of failures, or of the
operators' actions). In `Notifications` this assumes that the sender returns. In
`Transcription`, a reader that keeps polling is an assumption about the client:
weak fairness of beginning a poll, strong fairness of getting its answer, since
an answer may get lost again and again but not always. In `Authentication` the
service promises nothing: a waiting request ends because its client gives up
after eight seconds. `ResumesSettle` assumes nothing of the operators, only that
parsing goes on. `Report`, `Recommendation` and `CandidateSearch` state safety
only.

## Where code and documents differ

Three runs end in a violation, each of a sentence or a test of the repository
(`findings` in `PROJECT.json` quotes them).

* `scheduling_race`. README: "Detects candidate/interviewer time conflicts when
  creating/updating schedules". Two overlapping requests both pass
  `detectConflicts` before either has written: one person in two active
  interviews at one time. `RaceFreeNeverDoubleBooks` shows that this race is the
  only way to a double booking.
* `resume_race`. A test expects one audit event for a deleted resume; it deletes
  a resume nobody works on. `UpdateResume` stores a record whether or not it
  exists: when processing ends after the resume was deleted, be it that the text
  was parsed, that parsing failed, or, as in the trace, that the kind of file is
  not supported, the record is stored again, without its file, and it can be
  deleted, and audited, again. `CleanLifeWithoutOverlap` shows the same promise
  kept where no two requests overlap on the resume.
* `dashboard_formula`. README.md:94 and the metric definitions the dashboard
  itself returns (`analytics/service.go:162-163`) define `interviewer_workload` as
  "count(evaluations where interviewer_id = x)", but `buildRecruitingDashboard`
  collects the latest evaluations only (`router.go:1242-1243`): an evaluation that
  was modified counts once. `FeedbackCountedOnce` states what the code does.

The preconditions of some properties say where else the code does less than a
reader may expect:

* `SessionExactWithoutOverlap`: an append that overlaps an interruption writes
  its older copy of the session back, and the session is active again without a
  reconnect; overlapping appends may leave the smaller `last_sequence`.
* `LastNoticeIsCurrent`: two overlapping changes of an interview may be announced
  in the other order.
* `AuditInVersionOrder`: overlapping submissions of one interviewer may be
  audited in the other order.
* `HitsAskedByBoth` needs nothing as long as there is no natural query. With one,
  status layers of both sides are united, so each side's filter is widened by the
  other's; an upper limit below the lower one of the other side is raised to it;
  of several lower limits in a natural query ("5 years of Go, 3 years of SQL") the
  first counts, of several upper ones too, and an upper limit of 0 years is none.
* `NobodyMissedIfApart`: two texts on one field are put behind one another, and
  several skills in the typed parameter reach the merge with their commas: hardly
  anybody contains the result. An "at most n years" phrase that is the first on
  experience sets the minimum to n as well, unless there is a range. Only one
  phrase on experience is taken out of the query: of "at least 2 years, at most 3
  years" the first, and of "at most 0 years" everything, stays and is looked for
  as a keyword, unless the query names another. Typed limits in the wrong order
  are exchanged only if there is no natural query; with one the upper is raised
  to the lower first.
* `RepeatedGenerationIsStable`: the id depends on the candidate's profile too, the
  status layer included, so scheduling an interview between two generations, which
  sets the layer, gives the same evaluations another id (README: "Deterministic
  report ID ... on repeated generation").
* `UpdateWritesWhatWasAsked`: of two changes of an interview that overlap, the
  second stores its older copy and takes back what the first one changed.
* `NoStrayFiles` exempts what an upload that broke off has left: nothing in the
  code removes it.
* `LinkedUnlessSetByHand`: a change of an interview puts its candidate back in the
  layer `interview` also when it is cancelled (README: "created or changed"); a
  layer set by hand stays until the next change.
* `LogoutFollowsLogin` is about users, not sessions: a session may be logged out
  and recorded several times, for as long as its access token is good. That each
  login has an event is not promised: the client may give up after the service
  has made the session.
* `ProfileTellsLastWord`: a line with two labels fills both fields, and a line
  that could be a name is taken for one; hence "clear" and "silent".
* `RoundsInOrder`: `compareRounds` compares two numbers as numbers and everything
  else as strings; "Round-2", "final", "round-1" are a cycle, and the order that
  comes out depends on the order of submission.

## Proofs

`NotificationsProofs` proves, for any set of workers, notices and batches, any
`MaxRetries` and any bound on events (assumption `NotificationAssumption`: the
two numbers are naturals and batches are sequences of notices):

* `NotificationTypeCorrect`, `LogIsTrue`, `VerdictIsTrue`, `PendingIsCarriedOnce`:
  type correctness and the three invariants of the run `notifications`;
* `VerdictsStay`: no verdict in the log is rewritten and no entry lost;
* `ImplementsLedger`: every behaviour of the pipeline is, under the mapping of the
  run, a behaviour of the safety part of `NotificationLedger`.

The invariants speak of the log, while a verdict is first reached in the copy
that `Dispatch` works on and is stored one step later. They are therefore not
inductive: nothing in them says that the copy being stored tells a true story.
`IInv` adds what is true of copies: the log is numbered without gaps
(`LogNumbered`), each copy is of an event in the log and no event has two copies
(`CopiesKnown`), each copy is either in the loop with failures only or settled
with a true story, and agrees with what the sender accepted
(`CopiesTellTrueStory`). There is a lemma per action (`EnqueueIInv`, `SendIInv`,
`UpdateIInv`), each with one step per conjunct, and lemmas about the operators
(`AttemptedStory`, `NewEventsFacts`, `EnqueuedLog`). The same invariant carries
the action property and the refinement: a `Send` stutters, an enqueue posts, an
update settles.

`TranscriptionProofs` proves, for any sets of interviews, sessions, writers and
readers and any limits (assumption `TranscriptionAssumption`: the bounds and
limits are naturals, the default and the maximal limit positive, and each reader
follows an interview):

* `TranscriptionTypeCorrect`, `SegmentsNumbered`, `NothingMissed`: type correctness
  and two invariants of the run `transcription`;
* `HasMoreCorrect`: its action property about pages;
* `SessionsExact`: the status and the last sequence of a session between requests
  that do not overlap;
* `ImplementsFeed`: every behaviour of transcription is, with segments as the feed
  and what readers received as what they got, a behaviour of the safety part of
  `TranscriptFeed`.

That a reader misses nothing is not inductive. When a page is empty, its next
sequence is that of the session `StreamTranscripts` read first, so the cursor
jumps to a number that says nothing about the segments unless sessions are not
ahead of them; and a session gets its number from the copy a writer holds. `IInv`
therefore adds that no stored session is ahead of its interview's segments
(`SessionsNotAhead`), and that the copies writers (`CopiesKnown`) and readers
(`PollsKnown`) hold are of the right interview and not ahead either. What a page
takes (`After`) is the subject of the lemmas `AfterIsRest` and `PageIsNext`: in a
numbered sequence of segments the page is the next piece of it. There is again a
lemma per action. For the refinement, `FeedStep` shows that an append is one
`Post`, a poll with a page one `Get`, and any other step a stutter; it needs
besides that sessions stay within their bound (`Bounded`).

`SessionsExact` needs `ExactInv` besides: two writers on one session overlap
(`OneWriter`), and of a session nobody overlapped on, what is stored
(`StatusExact`, `LastExact`) and what its one writer is about to store
(`CopiesExact`) is what the segments and the past requests say.

`EvaluationProofs` proves, for any people, interviews, rounds and workers and any
bounds (assumption `EvaluationAssumption`):

* `EvaluationTypeCorrect`, `VersionsOrdered`, `NeverMixed`, `AuditComplete`: type
  correctness and three invariants of the run `evaluation`.

The archive and the audit log are written one after the other from a draft made
before either, so none of the four is inductive. `IInv` adds that a draft took
candidate, round and interviewer from one version of its interview (`DraftsMade`,
`VersionsKnown`), that ids are given once (`IdsUsed`, `IdsDiffer`), and that a
draft that was archived and not yet audited has its entry, no event, and its id
to itself (`DraftsArchived`, `DraftsDiffer`). Whether the versions of an
interviewer are in order depends on the archive of one interview only: the lemma
`SupersedingKeepsOrder` says it of plain sequences, with the cardinalities kept
there, and `AddedArchive` says what a submission does to the archive.

* `AuditOrdered`: the log tells the versions of an interviewer in order, for every
  pair of interview and interviewer whose submissions never overlapped.

Its invariant `OrderInv` is about such pairs only: at most one draft is in work
(`OneDraft`), an archived draft has the highest version and the log only lower
ones (`DraftIsNewest`), and no event has a version the archive does not count
(`EventsCounted`). That two submissions on one pair overlap is exactly what
`OneDraft` lets happen, and then the theorem promises nothing.

* `DashboardOnlyReads`, `FeedbackIsCountedOnce`: the dashboard, composed with the
  evaluations, changes nothing in them, so everything proved of `Spec` holds of
  `DashboardSpec`; and feedback that is not touched while a dashboard is built is
  counted exactly once in it, for `FeedbackCountedOnce` of the same run.

The dashboard reads the archive candidate by candidate while it changes.
`DashboardInv` says what is true of a pair of interview and interviewer that was
not touched since (`UntouchedAsArchived`): what was read of it is what the archive
has and calls the latest, and what the archive has of the candidates read so far
was read. An interview that is not in the list is one whose pairs were all
touched (`ListedOrTouched`).

* `ImplementsHistory`: every behaviour of `Spec` is a behaviour of the safety part of
  `EvaluationHistory`.

Here a submission's check, archive and audit are three steps: the check stutters,
`AddedIsTold` shows that the archive of a draft is one `Submit` for the assignment
the draft was made for, and `RecordIsAudit` that recording is one `Audit`. The
invariant carries over what the check saw; that the new archive is what its order
tells follows from `VersionsInOrder` in the new state (`InOrderIsTold`), and
`ArchivedAtHome` says that an entry names the interview it is archived under.

`SchedulingProofs` proves, for any people, times, lists, edits and workers and
any bounds:

* `SchedulingTypeCorrect`, `NoRaceNoDoubleBooking`, `CandidatesAreKnown`,
  `CandidatesAreLinked`: type correctness and three invariants of the run
  `scheduling_conflicts`;
* `UpdatesWriteWhatWasAsked`: its action property;
* `VersionsAreAnnounced`, `LastNoticesAreCurrent`: what the run
  `scheduling_notices` checks of the notifications, for any channels.

What a write does depends on a copy made two steps before. `IInv` follows the
copy: its target exists (`CopiesInHand`), two requests on one interview are known
to overlap (`OverlapsKnown`), a copy that nobody else works on is the edit of what
is stored that the request's own body asks for (`CopiesAreEdits`), and without
a race only one request is between its check and its write, and what it found is still so (`OneClear`). That last
conjunct is why conflict detection would be right if check and write were one
step, and the lemma `NoDoubleWith` says so for a single new interview. The
notifications of a request change none of this (`NoticeStep`).

`NoticesInv` adds the notifications. A write makes what was announced old until
the request announces it (`Unannounced`); its own version is still stored by then
unless requests overlapped (`WrittenIsStored`, from `OverlapsKnown`); and
`LogNumbered` shows that dispatching changes how far a notice got and never what
it says. `Announcements` proves that `buildNotificationEvents` reaches everybody on
every channel: its division by the number of channels counts every row and column
(`RowOf`, `PlaceOf`). That `Channels` is a sequence is part of
`SchedulingAssumption`.

The last part is about the calendar: `CalendarSlicesAgree`, the property
`CalendarShowsItsDays`, for any calendar whose weeks and months are runs of whole
days that go on before and after the days shown (`CalendarAssumption`). `CalendarItems` gives an interview the place that its
rank among the interviews of the slice has. `earlier` is a total order
(`EarlierOrders`), so ranks grow with it (`RankGrows`) and are all the places
there are (`RankIsPlace`): the list shows each interview of the slice once, and in
order (`ItemsOfSlice`). An interview that overlaps a slice overlaps one of its
days, also one that begins before the slice and ends after it (`OverlapsADay`),
and this is where every stored interview must end after it begins
(`ProperTimes`), which the validation of both handlers sees to.

`ResumePipelineProofs` proves, for any number of requests, uploads and calls:

* `ResumePipelineTypeCorrect`, `SuccessesHaveCandidates`, `UnfinishedAreInHand`,
  `NoFileIsStray`: type correctness and three invariants of the run
  `resume_pipeline`, with every overlap of uploads, retries and deletions.

Records are stored whole from copies, also when they were deleted meanwhile. A
file is safe from becoming stray because a path is given once: `IInv` adds that
an upload has the file it saves to itself (`SavingAlone`), that all copies of a
resume have its path (`OnePath`), that what was removed stays removed
(`RemovedIsGone`), and that a copy that is about to be stored as a success has
its candidate (`UpsertedHasCandidate`). `StoreStep` and `CarryStep` prove once
what storing a copy and carrying it on preserve.

Its second part proves `LivesAreClean`, the property `CleanLifeWithoutOverlap` of
the same run, on top of `IInv`. `LifeOf` says what is true of one resume at
every point of a request, between the deletion of its file and of its record for
example, as long as no two requests worked on it at a time. A request changes the
life of its own resume only: no two resumes have a path in common (`PathsApart`,
from paths being given once) and candidates and audit events name resumes that
were created (`HistoriesNumbered`). `Untouched` and `Elsewhere` use this to leave
every other resume aside, and each action has one lemma about the resume it works
on. "Once" is stated as "none, or one index" throughout, so that cardinalities
enter only in the last steps.

`AuthenticationProofs` proves `AuthenticationTypeCorrect` and `LogoutsFollowLogins`,
for any users, roles, workers and bounds (assumptions `AuditAssumption` and
`AuthenticationAssumption`). A logout is recorded from a token, so the invariant
follows sessions from the service to the client: no client holds a token whose
login is not on record (`HeldIsRecorded`), and what a request says of its session
is true in every step (`RequestIsOfSession`). The theorem holds because the
handler records before it answers.

`AuditAnswersHold` (the property `AnswersHold`): an answer about a window that is
over would be given again at any later time, whatever is recorded in between. The
invariant `AnswersKept` says of every answer that events recorded later are past
its window; with it a later query takes the same events (`QueryNewest`: what
`Query` returns are the newest matching ones, newest first, as many as the limit
lets through). `Query` is a walk along the log from its end, a recursive function;
the induction it needs is over a set of numbers, not over a predicate.
`Inductive` derives it from the library's well-foundedness of inclusion between
finite sets, and `Recursion` shows that such a function satisfies its definition.

`CandidateProofs` proves `BanksOfOneMoment`, for any candidates, texts,
interviews and requests. A bank is put together from three reads. `IInv` says
that what was read was so once (`ReadsKept`), that stored profiles and interviews
are in their history (`ProfilesKept`, `VersionsKept`), and with the comparison of
candidates at the second read of the interview the rest follows.
`BanksCover` needs the questions themselves, for any profile and job description:
at most seven are made before the coverage is checked and one of them is about
experience, so what `ensureQuestionCoverage` puts at the end stays among the eight
that `trimQuestions` keeps.

`ProfilesTellLastWord`, the property `ProfileTellsLastWord`: what the last text that
is clear about a field says of it is what the profile has, through all the texts
that were merged into it later and say nothing of it. The lemmas about the parser
(`LabeledIfClear`, `ParsedIfClear`, `NothingParsedIfSilent`) are about any text.

`HitsAreAskedByBoth` and `NobodyIsMissedIfApart`, the two properties of the run
`candidates` about the search, hold for any candidates, requests and fields under
the assumption of `CandidateSearch` (`SearchAssumption`: candidates, requests and
the words of phrases are texts). `CandidateSearch` has no state in common with
`Recommendation`. The lemmas are about the operators: who has two texts put behind
one another has both (`PartsAreFound`), the limits made of phrases are limits that
were said (`LimitsAreSaid`), and the ones that were said if there is one of each
(`LimitsIfSaidOnce`). That nobody is missed needs that no phrase on experience
becomes a keyword, which is what `NoPhraseStays` concludes from `Understood`; the
other words do, and are asked for (`WordsStay`). The service's exchange of limits
is without effect on merged limits, which are in order (`MergedInOrder`), and is
what `MatchesAreAskedAlone` is about where there is no natural query.

`ReportProofs` proves, for any interviews, interviewers, rounds, profiles and users
(assumption `ReportAssumption`: ids and names are in the order of numbers):

* `ReportTypeCorrect`, `GenerationIsStable`, `RoundsAreInOrder`: type correctness and
  two invariants of the run `report`;
* `ReportsStay`: its action property, no report under an id is ever another one.

`sort.Slice` is an insertion sort here, a recursive function again, and what it
does is proved from what one insertion does (`InsertedFacts`): the result is
sorted by any relation that is a strict order of the elements (`SortedFacts`),
and nothing is claimed where `compareRounds` is none. The evaluations of the view
are sorted by times; that is one order only, because no two submissions
share a time (`Datable`, `RInv`), and a report and its id are functions of it, of
the profile that was read and of the user. Since the id holds the profile,
`GenerationIsStable` says that the ids are the same exactly if the profiles are.

Only model-checked: liveness, which needs fairness and ENABLED, and those are out
of the prover's reach: `LedgerSpec`, `FeedSpec` and `HistorySpec` in full, whose
safety parts are proved, `RequestsEnd`, `ResumesSettle` and `WrittenIsAnswered`.

## Not modelled

Wording, formats and layout (templates, Markdown and CSV exports, status codes of
refused requests); regular expressions of the parser and of the natural query,
and the reading of PDF and DOCX; date arithmetic inside package `time`;
signatures of tokens; start and configuration. Of the report, averages and
comments; of the dashboard, the funnel and durations. Of the roles, only who
may do what the modelled handlers ask for. A restart: records
live in memory and there is no recovery code, so after a restart the server
starts from its initial state, which every run covers; only the uploaded files
stay, and no code looks for them. An append or a scheduling request that a client
repeats because its answer was lost is a second request: nothing in the code
recognises it and no document promises it would.

## Plan

Done: all modules above and their proofs. Left, in this order:

1. Another abstract specification: a calendar that `Scheduling` implements when
   requests do not race.
2. Averages and the breakdown of conclusions in the report, and the funnel of the
   dashboard, should they ever depend on more than one read.
