# CodeEval: a TLA+ verification project

CodeEval is a teaching platform: students submit programs, a Go server queues
them, evaluates them (sandboxed test runs, static analysis, a language model),
teachers review the grades, and further services look at similarity and at
AI-generated code. This directory models the parts of it whose correctness
depends on order, failure or arithmetic, checks the models with TLC on small
instances, and proves theorems about them with TLAPS for all instances.

## 1. Inventory

| Component | State | Operations | Interacts with | Hard behaviour |
|---|---|---|---|---|
| Evaluation queue (`api/worker.go`, `store/mysql.go`) | `submission_records`, `evaluation_job_records`, a buffered wake channel and the workers' local job, per process | submit, claim, show progress, complete, fail, requeue stale, fail exhausted, backfill, wake, poll | evaluator, reviews, start-up | several processes, crashes, lost replies, leases, retries, coalesced signals |
| Submission endpoint (`api/handler.go`) | none of its own | check assignment, deadline, limit; insert; signal | queue, courses, assignments | check-then-act across transactions |
| Teacher review, expert ratings (`store/reviews.go`) | `review_records`, `expert_rating_records`, `submission.status` | list, create review, upsert rating, export comparison data | queue (locks the same rows) | optimistic concurrency, late job writes |
| AI sample bank (`evaluator/ai_samples.go`, `store/ai_samples.go`) | one JSON bank per assignment, a per-process single-flight gate | load, generate, save if longer | detection, several servers | partial generation, cancelled requests, racing saves |
| AI detection report (`api/ai_detection.go`, `store/ai_detection.go`) | one report row per submission | detect and save, recalculate, read | sample bank, evaluator | long computations, last writer wins |
| AI detection arithmetic (`evaluator/ai_dimensions.go`, `local_detector.go`) | none | weighting, aggregation, chunking | detector service | rounding, gaps and overlaps |
| Evaluator (`evaluator/service.go`, `deepseek.go`, `demo.go`) | none | evaluate, validate, ask again | model API, sandbox | bounded retry, evidence policy |
| Scoring (`domain/scoring.go`, `web/src/assessment.ts`) | none | normalise legacy evaluations, final score | reviews, web | two implementations of one rule |
| Similarity (`domain/similarity.go`, `comparison.go`) | saved reports | tokenise, tile, compare | web | overlapping matches |
| Courses (`store/courses.go`) | courses, enrolments | migrate, create, enrol, list | submission endpoint | restarted migration, duplicate enrolment |
| Accounts (`auth/auth.go`, `api/handler.go`) | `users`, signed tokens | register, log in | all endpoints | unique names |
| Sandbox (`sandbox/runner`, `sandbox/executor`) | slots, containers | run, kill, clean up | evaluator | a container that outlives its client |
| Detector service (`detector/`) | loaded models | detect | detection | none: stateless |
| Browser session (`web/src/App.tsx`, `navigation.ts`, `components/auth`) | the tab's history, who is signed in and its copy in `localStorage` | sign in, register, sign out, go back | accounts, workspace | a late sign-in, entries replaced under the back button |
| Student's workspace (`web/src/App.tsx`) | lists, page, form, requests under way | choose, poll, submit | submission endpoint | answers that arrive out of order, or after a sign-out |
| Editor (`components/editor/CodeEditor.tsx`) | the text, timers | type, format, copy | formatters | formatting in the background |
| Detection page (`components/similarity`) | rows, batches, readings, sample panel, comparison | detect, stop, retry, choose, compare | detection, sample bank, similarity | stopped batches that are answered, settings that changed |
| Publishing form (`web/src/App.tsx`) | the form, requests under way | fill in, draft tests, save | assignments | answers that fill in the form, a save that outlives it |
| Other pages (`Home.tsx`, calendar, courses) | presentation | show | API | none |
| Configuration, seeds | read once | load | all | none |

What makes each correct, in one line: a submission is evaluated by one worker
at a time, at most `max_attempts` times, and settles; a student never passes the
submission limit; a teacher's review is never lost or overwritten; a sample
bank only grows; a report belongs to the code and bank it was computed from;
scores stay in range and agree on server and web; every line of a program is in
some chunk; a token is matched once; a migration may be repeated; a slot is
not reused while its container runs; a page shows the answer of the last
question, and only to the account that asked it; what was typed is not taken
back.

## 2. Plan

Written, with their theorems, unless an item says otherwise.

1. `EvaluationQueue` with `SubmissionLifecycle` as its abstract specification;
   `EvaluationQueue_proofs`.
2. `ReviewLog`, composed with `EvaluationQueue`: teachers' reviews on the
   queue's rows, with the late writes the queue allows when `Timely` does not
   hold; `ReviewLog_proofs`.
3. `SubmitGate`: admission checks, concurrent requests, edits of the assignment;
   `SubmitGate_proofs`.
4. `SampleBank` with `AppendOnlyBank` as its abstract specification;
   `SampleBank_proofs`.
5. `Session`, `Workspace` and `CodeEditor`: what a student's browser does, put
   together in `MCStudent`; `Student_proofs`.
6. `DetectionPage` with the server's report behind it, `SimilarityPage`,
   `SamplePanel` and `PublishForm`: a teacher's pages, put together in
   `MCTeacher`; `TeacherPages_proofs`, `Stored_proofs`.
7. The calculations behind them, each a small state machine in `MCTeacher`:
   `TokenRuns`, `DetectorChunks`, `LegacyScore` (with `Sums`, the totals that
   loops add up), `ModelAnswer` and `CourseMigration`; `Calculation_proofs` for
   the first three, `Stored_proofs` for the others.
8. Open: `SandboxRunner` (slots, containers, a killed client), `AssignmentRead`
   (the worker's payload read while a teacher edits), and the invariants behind
   the liveness properties: whoever waits, waits for somebody who is at work.

Modules about which there are theorems use no RECURSIVE operator; theorems live
in `<Module>_proofs`, those of a group of pages in one module.

## 3. The evaluation queue

### Correspondence

`EvaluationQueue.tla` keeps the two rows of a submission as functions from
submission ids (`sub`, `evaluation`, `jobStatus`, `attempts`, `lockedBy`,
`lockAge`, `created`), the state of each server process (`server`, `sweep`,
`exhausted`, `wake`) and of each worker goroutine (`wpc`, `held`, `attempt`,
`elapsed`, `outcome`). A database transaction is one action; a goroutine's
memory of an earlier transaction is its own variable and may be stale.

| Action | Code |
|---|---|
| `Submit`, `SubmitUnanswered` | `createSubmission` from its insert on, `CreateSubmissionWithJob`, `signalEvaluationWorkers` |
| `Claim`, `ClaimNothing`, `ClaimFails` | `ClaimEvaluationJob` and the loop of `evaluationWorker` |
| `Wake`, `Poll` | `waitForEvaluationWork` |
| `Begin`, `BeginFails` | `UpdateSubmissionProgress(..., "evaluating", 35)` |
| `EvaluateSucceeds`, `EvaluateFails` | `EvaluationJobPayload`, `Evaluate` under `jobCtx` |
| `Complete`, `CompleteFails` | `CompleteEvaluationJob` |
| `Fail`, `FailFails` | `FailEvaluationJob` |
| `Start`, `Backfill`, `Requeue`, `ScanExhausted`, `MarkExhausted` | `StartEvaluationWorkers` |
| `ReaperTick`, `Requeue`, `ScanExhausted`, `MarkExhausted`, `SweepFails` | `staleJobReaper` |
| `Crash` | the process ends; `main` uses `context.Background()`, so nothing is wound down; a start-up step that fails panics and is a `Crash` too |
| `Tick` | time |

Abstractions. `progress` is left out: it is a function of the status that is
written with it. `last_error` is left out: nothing reads it. `evaluation` is the
attempt that produced `evaluation_json`. `created` is a rank; the rows of one
backfill tie, as rows with one `created_at` do, and `Oldest` then allows either.
`Claim` picks a set `missed` of workers whose claim overlaps it: `SKIP LOCKED`
makes them pass over the rows it locks (the claim's scan is not served by an
index on `created_at`, so it may lock more than it takes), find nothing, and
wait. `FailExhaustedEvaluationJobs` is two actions although it is one
transaction, because its SELECT takes no lock. `CompleteFails` and `ClaimFails`
include the case in which COMMIT succeeded and its reply was lost.

### Two assumptions that are parameters

* `Timely`: no stall of the database or the process stretches an attempt beyond
  `2 * JobTimeout`. `jobCtx` ends the evaluation after `JobTimeout`; the few
  statements that remain are not under it and are bounded only by the
  connection's `readTimeout` and `writeTimeout` of 30 s (`store/mysql.go:87`).
  When it is FALSE any goroutine may be delayed for ever between two steps.
* `LostCompletions`: the reply to a completion's COMMIT may be lost. The worker
  then calls `FailEvaluationJob` on a job that is completed
  (`worker.go:92-102`) and reopens it.

With both off the queue keeps its full promise (`rows`, `live`, the theorems
under `ASSUME Timely, ~LostCompletions`). With both on it does not: an old
owner can overwrite the rows of a new one, since all writes are by id and check
neither `locked_by` nor `attempts`; a submission can then be left showing
"evaluating" with its job completed, which no sweep repairs because
`BackfillPendingEvaluationJobs` skips a submission that has a job. What
survives then is what `overrun` checks and two theorems prove without any
assumption: nothing is failed before its attempts are used up, no grade is
shown without an evaluation, and every job is closed for good in the end.

### Runs

| Run | Instance | Shows |
|---|---|---|
| `rows` | 2 servers x 1 worker, a new and a legacy submission, 1 fault | `TypeOK`, `SoleOwner`, `RowsAgree`, `LastAttemptShown`, `WorkNeverSleeps` |
| `overrun` | 1 server x 2 workers, 1 submission, 2 faults, not `Timely`, `LostCompletions` | `FailedOnlyExhausted`, `GradeHasEvaluation`, `EveryJobCloses` |
| `live` | 1 server x 2 workers, a new and a legacy submission, 1 fault | `EverySubmissionSettles`, `ImplementsLifecycle` |

Bounds. Two servers and two submissions are the least that let one server's
reaper act on the other's job while a claim has a choice; `MaxAttempts = 2` has
a first, a last and no attempt left; `JobTimeout = 1` distinguishes an attempt
inside its time, inside its lease and beyond it; ages stop at `MaxAge`, one
more than any of them is compared with. `MaxFaults` bounds crashes and storage
errors together. `ServerSymmetry` is used in `rows`, which has no temporal
property; server names occur only as indices and in worker ids.

Fairness (`FairSpec`, used by `overrun` and `live`): weak fairness of every
worker's steps (goroutines are scheduled, the poll timer of
`waitForEvaluationWork` fires, `jobCtx` ends an evaluation), of every server's
own steps (the ticker of `staleJobReaper` fires; a stopped process comes back:
`restart: unless-stopped` in `docker-compose.yaml`), and of time. Nothing is
assumed of students or of faults.

## 4. The teacher's review

`ReviewLog.tla` EXTENDS `EvaluationQueue`: its steps are the queue's steps
(`QueueStep`) and the steps of review forms in `Tabs` (`ReviewStep`), on the same
`sub`, `evaluation` and `jobStatus`. A form remembers the submission it is for,
the evaluation it shows and `expectedReviewId`, as the number of reviews it
knows of (ids grow with the log), or `None` while the reviews are not loaded.

| Action | Code |
|---|---|
| `OpenForm`, `CloseForm` | `TeacherAssessment`: the button is there for a settled submission with an evaluation |
| `LoadReviews` | the effect of `ReviewEditor`, `getAssessment`: reviews only, the evaluation stays that of the page |
| `SaveReview`, `SaveReviewUnanswered` | `createReview`, `CreateReview`: lock, settled and no open job, version check, append, `status = graded` in one transaction; the reply may be lost |
| `ReviewRefused` | the 409 answers, after which the form is disabled until it is reloaded |

A review is what the properties tell apart: the evaluation its author saw and
the one it was scored against. Scores, comments and validation of their ranges
are left out; `LegacyScore` has the part of scoring that is repeated at each read.

| Run | Instance | Shows |
|---|---|---|
| `reviews` | 1 server x 2 workers, 1 submission, 2 tabs, 2 reviews, 1 fault | `ReviewTypeOK`, `ReviewStands`, `ReviewedEvaluationKept`, `RevisionsSeen` |
| `late` | 1 server x 2 workers, 1 tab, no fault, not `Timely` | a violation of `ReviewStands` |

Two tabs and two reviews are the least in which a form is outdated by another's
review; two workers and two attempts the least in which an attempt can be
overtaken.

Finding (`late`): the documentation says a reviewed submission is `graded` and
that students see the teacher's latest score (`docs/database.md:111`,
`docs/evaluation.md:35`). A worker that is delayed beyond its lease, for instance
because its host was suspended after the claim, still writes the submission by
id, and takes it back to a pending status after a later attempt was graded
and reviewed. `CreateReview` protects itself from open jobs, but nothing
protects the review from a worker that no longer owns its job.

## 5. The admission of submissions

`SubmitGate.tla` is one assignment, its row lock, the submissions in order of
their ids, and a set of requests at their places in `createSubmission`:

| Action | Code |
|---|---|
| `Read` | the handler's read of the assignment, and its status and deadline checks on that snapshot |
| `Count` | `SubmissionCount` against the limit of the snapshot; `SubmittedAt: time.Now()` |
| `LockRow` | `SELECT ... FOR UPDATE` in `CreateSubmissionWithJob` |
| `Recheck` | the deadline and `submitted_at` taken under the lock |
| `Commit` | the inserts; `EvaluationQueue`'s `Submit` is this step seen from the queue |
| `Fail` | an error or the end of the server at any step, and a COMMIT whose reply is lost |
| `UpdateAssignment`, `UpdateAssignmentStatus`, `UpdateAssignmentMaxSubmissions` | the teacher's edits; an UPDATE waits for the row's lock |
| `Tick` | time |

`Read` takes the clock with the row: if the deadline passes between the two, the
handler refuses what `Recheck` would refuse. Checks of the enrolment, the language
and the program's entry point are left out: no operation takes an enrolment
back or changes an assignment's language. One clock is assumed; servers whose
clocks differ would order times as their clocks do. A row carries, besides its
columns, the deadline in force when it was inserted and the limit its request
had read, so that the properties can speak of them.

`Overlap` says whether a student can have two requests under way. One page
cannot: its button is disabled (`busy` in `StudentSubmit`). Two pages, or a
reload, can, and the server does not prevent it.

| Run | Instance | Shows |
|---|---|---|
| `gate` | 2 requests of one student, 1 of another, limits 1 and 2, 1 edit, 3 instants, not `Overlap` | `GateTypeOK`, `InTime`, `IdsFollowTime`, `WithinLimit`, `EveryRequestAnswered` |
| `overlimit` | the same without edits, `Overlap` | a violation of `WithinLimit` |

Two requests of one student reach a limit of 1, a third of another student
contends for the lock; one edit between any two steps is what each check can
be overtaken by, and three instants have a time before, at and after a deadline.
Fairness: every request's own steps are taken when they stay possible (the
handler runs on, the database answers); failures are not owed, and no lock
timeout is needed.

Finding (`overlimit`): `docs/database.md:83` calls `max_submissions` the limit of
a student's submissions. The count at `handler.go:488` is taken before the
transaction, which rechecks the deadline but not the count, so two requests
under way together are both admitted with the limit at 1.

## 6. The sample bank

`SampleBank.tla` is `loadOrGenerateAISamples` on several servers: per server the
single-flight map (`flight`), per request its place, the bank it last read
(`held`), its draft and the flight it waits for, and the stored banks (`bank`).
A task is the fingerprint under which an assignment's bank is stored.

| Action | Code |
|---|---|
| `TakeFlight`, `JoinFlight`, `Landed` | the section under `aiSampleMu` and the `select` on `done` |
| `Read`, `Check` | `ReadAISampleBank` before the loop and after a save |
| `Generate` | `generateAISample`: a sample equal to one it was given is refused |
| `Save` | `SaveAISampleBank`: replaces the stored bank only if it is shorter |
| `Abort`, `Leave`, `Crash` | errors and cancellation inside a flight, a cancelled waiter, the end of a process |

`AppendOnlyBank.tla` is the promise: a bank starts empty and is extended by one
sample at a time, up to `Expected`. Nobody writes that down in the code; it is
what lets a report cite `ai-sample-2` and every other server show the same one.

| Run | Instance | Shows |
|---|---|---|
| `banks` | 2 servers, 2 requests on one and 1 on the other, 1 task, 3 samples, `Expected = 2` | `BankTypeOK`, `SingleFlight`, `AnswersAgree`, `SamplesDiffer`, `NeverMissing`, `ImplementsBank`, `EveryRequestAnswered` |

Two requests on one server share a flight, the one on the other races with its
holder; two samples are the least for which a bank can be partial with one in
it; a third possible sample leaves a choice when one is taken. Tasks do not
interact. Fairness: the steps of each request, or its abort, since a model call
comes back with a sample or with an error (its HTTP client has a timeout), and a
closed channel wakes its receivers. Requests are finite in number, so nothing is
said of requests that are overtaken for ever.

## 7. The student's browser

### Correspondence

`Session.tla` is one tab: the history of `window.history` with the `from` that
`navigate` leaves in an entry's state, `auth` and its copy in `localStorage`, the
sign-in or registration form, and the sign-ins under way.

| Action | Code |
|---|---|
| `Go`, `OpenForm` | `navigate` from the workspace's links, the brand link and the links between the forms |
| `Travel` | the browser's buttons (`popstate`) |
| `BackTo` | a page's own button: `history.back()` if the entry was pushed from the workspace, else the list above |
| `ReloadPage`, `TypeAddress` | the application loaded anew: `loadAuth` |
| `SendForm`, `RefuseForm`, `Done`, `FormFails` | the two forms of `Authentication.tsx` and `done` of `App` |
| `Logout` | `logout` |

Every arrival includes the effect that redirects (`Redirected`), which replaces
the path of an entry and keeps the state it was pushed with. That is what makes
`BackStaysInApp` worth checking.

`Workspace.tla` is `Workspace`, `StudentSubmit` and `Detail` against the
submissions on the server, with all requests under way as sets: they are read
by the server and answered in any order.

| Action | Code |
|---|---|
| `SendSignIn`, `SignIn`, `SignInFails`, `SignOut` | the session as the workspace sees it |
| `ShowMenuPage`, `OpenAssignment`, `OpenSubmission`, `GoBack` | `navigate`; each runs the effect that loads all lists (`ShowPage`) |
| `ReadList`, `LoadAnswered`, `LoadFails`, `Reload` | the load and its banner |
| `Poll`, `PollAnswered`, `HistoryAnswered`, `ListFails` | the timer of a pending submission's page; the form's own count of attempts |
| `SendCode`, `StoreSubmission`, `RefuseSubmission`, `PostAnswered`, `PostFails` | `StudentSubmit`, `upsertSubmission` and the navigation that follows |
| `Settle` | the end of an evaluation, which `EvaluationQueue` models |

A request of a component that is unmounted is dropped, as its answer changes
nothing any more. The exception is a submission: its answer navigates wherever the user is, and
`Post` records which of its senders are still there.

`CodeEditor.tla` has the text, the formatter under way and the timers of the
editor. Formatters are a function from texts to texts, or to `NoText` for what
they cannot parse.

### Runs

| Run | Instance | Shows |
|---|---|---|
| `student` | the three parts, `Overlap = FALSE` | `StudentTypeOK`, `SessionDataOnly`, `BackStaysInApp`, `PendingPageSettles`, `TypedTextKept` |
| `latesignin` | `Workspace` alone, `Overlap = TRUE` | a violation of `SessionDataOnly` |

`MCStudent` runs the parts one at a time: `part` is chosen at the start and
the variables of the others stay as they are. The parts share no state
(`Workspace` has its own abstraction of the session), so nothing is lost by
this. `StudentTypeOK` includes what disables the buttons: a form is busy, and a
load is marked, exactly while its own request is under way.

Bounds. Three history entries are the least in which an entry lies between two
others that were replaced, and two sign-ins asked are the least that overlap. Two
students and one submission let one of them see what is the other's; its limit
of one is reached by one post. Two loads are under way when a page is changed
before the first is answered. One poll is enough because polls differ only in the list
they were answered with, which a load also carries. Three texts are one that
formatting changes, one that it keeps and one that it refuses.

Fairness (`WorkspaceFairness`): the poll timer fires, evaluations end (weak), and
polls that are sent again and again are some time read and answered (strong: a
poll may fail any number of times, but not every time). Nothing is assumed of the
user. `PendingPageSettles` leaves out a page that still awaits a list older than
its submission; such a list hides the submission until the next answer.

Finding (`latesignin`): `docs/database.md:219` says a student's records show
their own history. A form that is left for the other form and comes back is no
longer busy, so a second sign-in can be sent while a first one is under way.
When both are answered the workspace of the first account stays mounted for
the second, with its lists. With one sign-in at a time the property holds, and
is proved.

## 8. The teacher's pages and what is calculated for them

### Correspondence

| Module | Actions | Code |
|---|---|---|
| `DetectionPage` | `Reopen`, `ListGrows`, `Choose`, `RetryReading`, `ServeReading`, `ReadingAnswered`, `ReadingFails` | the selection and its effect that reads the saved reports (`AICodeDetection.tsx`) |
| | `Detect`, `DetectMissing`, `RetryFailed`, `Stop`, `SamplesReady`, `SamplesFail`, `BatchAnswered`, `BatchFails` | `run`, `stop` and the loop over submissions |
| | `AnswerStored`, `Generate`, `SaveReport`, `ServeFails` | `detectAndSaveAI` |
| `SimilarityPage` | choices of scope, pair and template, the comparison and its answers, the dialogs, the two tools | `CodeSimilarity.tsx` |
| `SamplePanel` | `ReopenPanel`, `RefreshPanel`, `PollBank`, `ReadBank`, `BankAnswered`, `BankReadFails`, `GenerateLibrary`, `LibraryAnswered`, `LibraryFails`, `GrowBank` | `AISampleLibraryPanel.tsx`; the bank only grows, which `SampleBank` shows |
| `PublishForm` | filling in, drafting tests, saving, leaving, and `StoreAssignment`, `RefuseAssignment` on the server | `Publish` of `App.tsx`, `createAssignment`, `updateAssignment` |
| `TokenRuns` | `CompareTokens`, `TakeRun`, `SkipToken` | `matchTokenRuns` (`domain/similarity.go`) |
| `DetectorChunks` | `DetectCode`, `ClassifyChunk` | `_detect` (`detector/engine.py`), `validateLocalDetection` |
| `ModelAnswer` | `CallFails`, `Decode` | `completeValidated`, `completeOnce`, `resetJSONTarget` (`evaluator/deepseek.go`) |
| `LegacyScore` | `EvaluateByRules`, `StoredBefore`, `ReadEvaluation` | `NormalizeLegacyEvaluation`, `FinalScores` |
| `CourseMigration` | `BeginMigration`, `MigrateAssignment`, `CommitMigration`, `AbortMigration` | `MigrateLegacyCourses` (`store/courses.go`) |

A request under way remembers whether it is the present one (`current`): the
pages compare a number (`runNumber`, `requestNumber`) or a flag of the effect's
closure when it is answered, and an aborted one may be answered all the same.
Reports, comparisons and samples are known by a number, by the settings they were made with, and by
how many there are. `DetectionPage` keeps every report ever stored
for a submission (`everSaved`) so that `ShownReportsSaved` can speak of it.
In `SimilarityPage` the settings are disabled during a comparison and behind
a dialog, so that no comparison is outdated by the page's own controls and the
check of `requestNumber` is a defence; it is modelled as it is written.

`TokenRuns` compares all programs up to the bound, with some or no common
code; `matched` is the `MatchedTokens` that `BuildSimilarity` adds up from the
runs. `DetectorChunks` has the detector's and the server's numbers.
`ModelAnswer` decodes any subset of a target's fields per attempt, as a decoder that stops
at a fault does. `LegacyScore` reads evaluations made by today's rules and any that may have
been stored before them. `CourseMigration` has one transaction at a time, which
the locking read enforces, killed between any two of its statements.

### Runs

| Run | Instance | Shows |
|---|---|---|
| `teacher` | the nine parts | `TeacherTypeOK`, `ShownReportsSaved`, `OutdatedAnswersIgnored`, `EditKeepsIdentity`, `TokensCountOnce`, `ResultAccepted`, `OneAnswer`, `PlaceholderNeverGrades`, `MigratedOnce` |
| `latelanguages` (a violation) | the publishing form, a server configured without the language a form begins with | `EditKeepsIdentity` does not hold: see the finding |

As in `MCStudent`, `part` chooses one of them. `TeacherTypeOK` includes for each
page that it is marked as busy exactly while its present request is under way.
`OutdatedAnswersIgnored` joins three facts of three pages: no row is changed by
an outdated batch or reading, a shown comparison has the present settings, and
the panel shows no fewer samples than before. `EditKeepsIdentity` is about the
two answers a form for editing waits for, either of which may come first and both
of which set its language: once the assignment is read the form has its title and
language, and so has every edit on its way to the server, which refuses any other.

Bounds. Two submissions, of which one is added later, let a batch go on to a
second one and a list grow under it; two reports give a submission a second one;
one outdated request can be answered at any later time, and a second one would
meet the same checks. Three requests of the publishing form are the languages, the
details and a save. In `teacher` the server has two languages, the one a form begins
with among them but not first, so that a form that took the first one anyway would
show; in `latelanguages` it has two others. Four tokens with a least run of two have two runs, or two
overlapping candidates. The program lengths are those around a full chunk, a second
chunk, the sixty-fourth and the first refused, and none at all. Two dimensions are one proven and
one not; two fields are one required and one not. Three assignments, two of
one teacher, share a course and a student; two starts can race.

Finding (`latelanguages`): `App.tsx:2059` says that the language of a published
assignment cannot be changed (发布后不可修改), and `handler.go:364` refuses to. The
effect that reads the languages depends on the token alone (`App.tsx:1772-1785`),
so its answer tests the language the form began with, "Python". On a server
configured without Python it sets the first language of the server, also when the
assignment was read before. The form then shows another language in a field the
teacher cannot edit, and its save is refused. On a server that has Python the
property holds, and is proved.

## 9. What is proved

`EvaluationQueue_proofs` proves, for any number of servers, workers,
submissions, attempts and faults:

* without further assumptions, `TypeCorrect`, `NeverGivenUpEarly` and
  `EveryGradeEvaluated`, from the inductive invariant `AnyTimeInv`: what a
  goroutine holds is an attempt the row has counted (`Goroutines`), and a row a
  sweep has read as exhausted stays exhausted (`ScannedExhausted`), because
  attempts never go down. It needs no relation between a goroutine and the
  current owner of its row, and that is why it survives any delay;
* under `ASSUME Timely, ~LostCompletions`, `OneOwner`, `RowsStayTogether` and
  `NoOlderAttemptShown`, from `TimelyInv`, which adds the lease: a busy
  goroutine's row is running, locked by it, in its attempt, and its lock is as
  old as the attempt (`LeaseHeld`). A lock is requeued only when it is older
  than `2 * JobTimeout`, so the job is never taken from under its owner, and the
  writes by id hit the row they were meant for. `OpenRows` is needed for the
  sweep: a row it has read can only be closed before it writes it, and an open
  job carries no evaluation that a later failure would leave on display;
* under the same assumptions `Implementation`: every step is a step of
  `SubmissionLifecycle` or changes nothing it can see;
* without further assumptions too, `NoJobWaitsForThePoll`: until something fails
  for the first time, a job that can be claimed is never left to the poll timer.
  `FaultlessInv` adds to `AnyTimeInv` that until then nothing is orphaned
  (`NothingOrphaned`): a running row has a goroutine, a backfill belongs to a
  process that is starting, and a process that is up runs all its workers. So
  whoever makes a job claimable is a worker that looks for another one
  afterwards, or puts a token where the workers of its process take it, or finds
  the channel full. A lock may even go stale under a slow owner: whoever owns it
  is busy, and looks again. After a fault it does not hold: a process that
  crashes leaves the rows it has backfilled without a token for the workers of
  another one, and the poll timer is there for that.

`ReviewLog_proofs`, under the same two assumptions and for any number of tabs
and reviews: `ReviewTypesCorrect`, `ReviewIsFinal`, `ReviewsOneEvaluation` and
`RevisionsAreSeen`. The argument composes: by `Implementation` a graded
submission is one of the lifecycle's settled ones, which no step of the queue
changes (`GradedStays`), and a review leaves `TimelyInv` true
(`ReviewKeepsQueue`); `ReviewInv` adds that the evaluation a form shows is the
one on record (`FormsShown`).

`SubmitGate_proofs`, for any students, requests, limits and edits:
`GateTypesCorrect`, `DeadlineHolds` and `LatestIsLast` without assumptions, from
`GateInv`: the holder of the row's lock has taken a time that is the latest so
far and before the deadline (`StampInForce`), and nobody else can stamp, insert
or edit meanwhile. `LimitHolds` needs `~Overlap`: then what a request has
counted stays true until its insert (`CountHolds`).

`SampleBank_proofs`, for any servers, requests, tasks and `Expected`:
`BankTypesCorrect`, `OneBankForAll`, `NoDuplicateSamples`, `FlightIsSole`,
`SavedIsThere` and `BankImplementation`, from `BankInv`. What a request remembers
is a prefix of the bank (`HeldPrefix`), so an offer that is longer than the
bank was made from all of it and adds one sample that was compared with all
others (`StoreExtends`). No assumption on timing or failures is needed.

`Student_proofs`, for any accounts, histories, students, submissions and texts:

* `SessionTypesCorrect` and `BackStays`, from `SessionInv`: the first entry of a
  history was never pushed from the workspace. A push has an entry before it,
  and what replaces an entry keeps where it was pushed from;
* `TypedTextStays`, from `EditorInv`, which adds to the types that the formatter
  is at work exactly while the button says so;
* `WorkspaceTypesCorrect` in all cases, and `OwnDataShown` under `~Overlap`.
  `PageInv` adds to the types what is mounted when (`Mounted`); `OwnInv` adds that
  nobody signs in while somebody is signed in (`OneSignIn`), and that the
  lists on their way, and the submissions whose sender is still there, are those
  of who is signed in (`AnswersOwn`).
  `latesignin` shows that the condition is needed;
* `StudentMarksTrue`, without that condition and for all parts together: the types,
  and the marks that disable the buttons. `FormMarked` says that of the requests
  of the sign-in form on the screen there is one at most, and that the form is busy
  exactly with it; `MarkedInv` says the same of the form for submissions, and that
  a load that is marked is asked for;
* `StudentRunsParts`: what `MCStudent` runs implements the specification of each
  part, so that the theorems about a part are about the run too.

`TeacherPages_proofs`, for any submissions, reports, settings and samples:

* `DetectionTypesCorrect` and `ShownWasSaved` from `SavedInv` (what batches and
  readings bring was stored for the submission they bring it for),
  `ReportIsOfSettings` from `SettingsInv` (the present comparison has the present
  settings), `SamplesStayShown` from `PanelInv` (one reading at most is heeded,
  and when it was read the bank had what is shown), and, for all pages together,
  `OutdatedNeverShown`;
* `TeacherMarksTrue`: on every page what is marked as under way is so, and all parts
  keep their types. A mark is set and reset by the answer that the page takes for
  the present one, so each page needs that of its requests one at most is
  present, and that the mark is set exactly while there is one: `BusyInv` for the
  detection page (`BatchesBusy` adds that a row that runs is the one the present
  batch is at), `ComparingInv` for the comparison, `FirstReading` for the panel,
  and `PublishInv` (`CallsOK`, `Busy`) for the form;
* `TeacherRunsParts`: what `MCTeacher` runs implements the specification of each
  page and each calculation.

`Stored_proofs`: `EditsKeepIdentity` under `ASSUME First \in Enabled`, whatever forms
and saves there are. `IdentityInv` adds to the property that nothing that edits is
under way while there is no assignment (`FormIdentity`), so that the first save
of a new assignment takes no identity from under an edit; `latelanguages` shows that
the condition is needed; `AnswerIsOne`; `MigratesOnce`, from `MigrationInv`: the
transaction's database is whole after each of its statements, and it can make a
course because each course has an assignment of its own while the one that is
migrated has none yet (`NumberIsFree`).

`Calculation_proofs`:

* `ResultsAccepted`, for programs of any length and chunks of any size and
  overlap, under `ASSUME DetectorMax <= ServerMax`: the two limits are written
  down twice, as 64 in `detector/settings.py:19` and in `local_detector.go:115`,
  and the theorem says what would break if one of them was changed. `ChunksInv`
  gives the sum of the weights after each chunk (`ChunksRepeat`) and where the
  chunk ends (`ChunksAligned`); from the latter the number of chunks is the one
  `ChunkCount` foretells by a division;
* `SharedTokensCountOnce`, for programs of any length: by `RunsInv` what is used
  is what is ignored and what the runs cover (`RunsMarked`), the runs are apart
  (`RunsApart`), and their lengths add up to the number of tokens that are used
  (`UsedCounted`). It needs no fact about which run is the best one;
* `PlaceholdersNeverGrade`, for every rubric and every stored evaluation, because
  normalising is idempotent.

Sums are functions defined by recursion (`Sums`). That such a function exists, that
it is the loop, and that one more number adds itself to the sum, is shown without
an induction theorem: if it failed there would be a least index at which it does
(`LeastElement`), and it does not fail there.

TLC checks the invariants the theorems state before they are proved. The proofs
assume what the modules' named ASSUMEs say, and what a theorem's own ASSUME adds.
One of the former is only about how a value is written: `UnpublishedAssumption`
says that "none yet" is no assignment and no form.

Every safety property of the passing runs is stated by a theorem. Only
model-checked is liveness, which the prover cannot express under fairness:
`EverySubmissionSettles`, `EveryJobCloses`, the two `EveryRequestAnswered` and
`PendingPageSettles`.

## 10. Not modelled

* The sandbox: containers, limits and killed processes belong to the operating
  system. `EvaluationQueue` sees an evaluation succeed or fail within its time.
  That a killed `docker run` leaves its container running while its slot is free
  is listed as a hazard without a property.
* The parts of an assignment read in several statements while a teacher updates
  it: the modules read an assignment as a whole.
* Configuration and seeds, read once.
* Home, the calendar, the pages of courses, the switches of the list of
  assignments, filters and exports of the reports: presentation, or single
  requests whose answer replaces what is shown. Two of their hazards are listed
  without a property.
* Arithmetic in floating point (weights and bands of AI dimensions), the lexer
  and the percentages of similarities, prompts and the text of answers, model
  inference, passwords and tokens.

What each component leaves out is said in `components` of `PROJECT.json`.
