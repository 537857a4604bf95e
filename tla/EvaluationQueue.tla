-------------------------- MODULE EvaluationQueue --------------------------
(***************************************************************************)
(* The persistent evaluation queue of the API server                       *)
(* (server/internal/api/worker.go on server/internal/store/mysql.go).      *)
(*                                                                         *)
(* A student's submission and its evaluation job are two database rows     *)
(* written together.  Worker goroutines of every server process claim      *)
(* queued jobs, evaluate them outside any transaction and write the        *)
(* outcome; a reaper of every process puts stale jobs back and fails jobs  *)
(* whose attempts are used up.  Every database transaction is one step;    *)
(* what a goroutine remembers between two of its transactions is its own   *)
(* state and may be stale when it is used.                                 *)
(***************************************************************************)
EXTENDS Naturals

CONSTANTS
  Servers,         \* server processes sharing the database
  MaxWorkers,      \* sandbox.max_concurrent_sandboxes: workers per process
  Submissions,     \* submission ids
  Legacy,          \* pending submissions left by the former implementation
  MaxAttempts,     \* sandbox.max_attempts
  JobTimeout,      \* sandbox.job_timeout_seconds, in clock ticks
  MaxFaults,       \* bound on the crashes and storage errors of a behaviour
  Timely,          \* no attempt outlives its lease (see Tick)
  LostCompletions, \* the reply to a completion's COMMIT may be lost
  None             \* no worker, no submission

ASSUME QueueAssumption ==
  /\ MaxWorkers \in Nat \ {0}
  /\ Legacy \subseteq Submissions
  /\ None \notin Submissions
  /\ MaxAttempts \in Nat \ {0}
  /\ JobTimeout \in Nat \ {0}
  /\ MaxFaults \in Nat
  /\ Timely \in BOOLEAN
  /\ LostCompletions \in BOOLEAN

\* A worker id is the process and an index in 1..maxWorkers.
Workers == Servers \X (1..MaxWorkers)
WorkersOf(sv) == {sv} \X (1..MaxWorkers)

Outcomes == {"graded", "needs_review"}
Settled  == Outcomes \cup {"failed"}
Pending  == {"queued", "evaluating"}

VARIABLES
  (* the database: one submission row and at most one job row per id *)
  sub,         \* submission_records.status ("absent": no row yet)
  evaluation,  \* evaluation_json: the attempt that wrote it, 0 for null
  jobStatus,   \* evaluation_job_records.status ("none": no row yet)
  attempts,    \* evaluation_job_records.attempts
  lockedBy,    \* locked_by
  lockAge,     \* ticks since locked_at, counted up to MaxAge
  created,     \* rank of created_at among the job rows
  lastCreated, \* rank of the newest job row
  (* a server process *)
  server,      \* "down", "starting", "up"
  sweep,       \* where its start-up or its reaper stands
  exhausted,   \* the rows FailExhaustedEvaluationJobs has read
  wake,        \* tokens buffered in evaluationWake
  (* a worker goroutine *)
  wpc,         \* where it stands
  held,        \* the submission of the job it processes
  attempt,     \* job.Attempts as it read it when it claimed
  elapsed,     \* ticks since it claimed, counted up to MaxAge
  outcome,     \* evaluation.Status it is about to save
  faults       \* crashes and storage errors so far

database == <<sub, evaluation, jobStatus, attempts, lockedBy, lockAge,
              created, lastCreated>>
process  == <<server, sweep, exhausted, wake>>
goroutine == <<wpc, held, attempt, elapsed, outcome>>
vars == <<database, process, goroutine, faults>>

Busy == {"claimed", "evaluating", "completing", "failing"}

\* Ages are counted up to one tick more than any of them is compared with.
MaxAge == 2 * JobTimeout + 1

\* The rows and the goroutines' variables hold what their types allow.
TypeOK ==
  /\ sub \in [Submissions -> {"absent"} \cup Pending \cup Settled]
  /\ evaluation \in [Submissions -> 0..MaxAttempts]
  /\ jobStatus \in [Submissions -> {"none", "queued", "running", "completed", "failed"}]
  /\ attempts \in [Submissions -> 0..MaxAttempts]
  /\ lockedBy \in [Submissions -> Workers \cup {None}]
  /\ lockAge \in [Submissions -> 0..MaxAge]
  /\ created \in [Submissions -> Nat]
  /\ lastCreated \in Nat
  /\ server \in [Servers -> {"down", "starting", "up"}]
  /\ sweep \in [Servers -> {"idle", "backfill", "requeue", "scan", "mark"}]
  /\ exhausted \in [Servers -> SUBSET Submissions]
  /\ wake \in [Servers -> 0..MaxWorkers]
  /\ wpc \in [Workers -> {"off", "claiming", "waiting"} \cup Busy]
  /\ held \in [Workers -> Submissions \cup {None}]
  /\ attempt \in [Workers -> 0..MaxAttempts]
  /\ elapsed \in [Workers -> 0..MaxAge]
  /\ outcome \in [Workers -> Outcomes \cup {None}]
  /\ faults \in 0..MaxFaults

Init ==
  /\ sub \in {f \in [Submissions -> {"absent"} \cup Pending] :
                \A s \in Submissions : f[s] \in Pending <=> s \in Legacy}
  /\ evaluation = [s \in Submissions |-> 0]
  /\ jobStatus = [s \in Submissions |-> "none"]
  /\ attempts = [s \in Submissions |-> 0]
  /\ lockedBy = [s \in Submissions |-> None]
  /\ lockAge = [s \in Submissions |-> 0]
  /\ created = [s \in Submissions |-> 0]
  /\ lastCreated = 0
  /\ server = [sv \in Servers |-> "down"]
  /\ sweep = [sv \in Servers |-> "idle"]
  /\ exhausted = [sv \in Servers |-> {}]
  /\ wake = [sv \in Servers |-> 0]
  /\ wpc = [w \in Workers |-> "off"]
  /\ held = [w \in Workers |-> None]
  /\ attempt = [w \in Workers |-> 0]
  /\ elapsed = [w \in Workers |-> 0]
  /\ outcome = [w \in Workers |-> None]
  /\ faults = 0

-----------------------------------------------------------------------------
(* Rules the transactions share *)

\* time.Now().Add(-2 * h.jobTimeout): how long a lock is respected.
SingleLease == JobTimeout
Lease == 2 * JobTimeout

\* The rows RequeueStaleJobs updates.
Stale(s) == jobStatus[s] = "running" /\ lockAge[s] > Lease

\* The rows ClaimEvaluationJob may take: queued and with an attempt left.
ClaimableOneMore(s) == jobStatus[s] = "queued" /\ attempts[s] <= MaxAttempts
ClaimableCompleted(s) == jobStatus[s] \in {"queued", "completed"} /\ attempts[s] < MaxAttempts
Claimable(s) == jobStatus[s] = "queued" /\ attempts[s] < MaxAttempts

\* The rows FailExhaustedEvaluationJobs reads.
ExhaustedOneEarly(s) == jobStatus[s] = "queued" /\ attempts[s] + 1 >= MaxAttempts
ExhaustedOneLate(s) == jobStatus[s] = "queued" /\ attempts[s] > MaxAttempts
Exhausted(s) == jobStatus[s] = "queued" /\ attempts[s] >= MaxAttempts

\* FailEvaluationJob decides on the attempt the worker claimed with.
RetriesOneFewer(w) == attempt[w] + 1 < MaxAttempts
Retries(w) == attempt[w] < MaxAttempts

\* An environment failure, of which a behaviour has at most MaxFaults.
Fault == faults < MaxFaults /\ faults' = faults + 1

\* The goroutine forgets its job and goes back to the top of its loop.
Release(w) ==
  /\ wpc' = [wpc EXCEPT ![w] = "claiming"]
  /\ held' = [held EXCEPT ![w] = None]
  /\ attempt' = [attempt EXCEPT ![w] = 0]
  /\ elapsed' = [elapsed EXCEPT ![w] = 0]
  /\ outcome' = [outcome EXCEPT ![w] = None]

Goto(w, label) ==
  /\ wpc' = [wpc EXCEPT ![w] = label]
  /\ UNCHANGED <<held, attempt, elapsed, outcome>>

-----------------------------------------------------------------------------
(* A student submits *)

\* signalEvaluationWorkers offers maxWorkers tokens to a channel of that
\* capacity and stops at the first that does not fit: the buffer ends full.
SignalNobody(sv) == UNCHANGED wake
Signal(sv) == wake' = [wake EXCEPT ![sv] = MaxWorkers]

\* createSubmission on server sv, past its validation: CreateSubmissionWithJob
\* writes both rows in one transaction, then the workers are signalled.
CreateRows(sv, s) ==
  /\ server[sv] = "up"
  /\ sub[s] = "absent"
  /\ sub' = [sub EXCEPT ![s] = "queued"]
  /\ jobStatus' = [jobStatus EXCEPT ![s] = "queued"]
  /\ created' = [created EXCEPT ![s] = lastCreated + 1]
  /\ lastCreated' = lastCreated + 1
  /\ UNCHANGED <<evaluation, attempts, lockedBy, lockAge, server, sweep,
                 exhausted, goroutine>>

Submit(sv, s) ==
  /\ CreateRows(sv, s)
  /\ Signal(sv)
  /\ UNCHANGED faults

\* The transaction commits and its reply is lost: the student sees an error,
\* the rows exist and nobody is signalled.
SubmitUnanswered(sv, s) ==
  /\ Fault
  /\ CreateRows(sv, s)
  /\ UNCHANGED wake

-----------------------------------------------------------------------------
(* A worker *)

\* The claim's transaction: the row becomes running, its attempts grow by one,
\* it is locked by w from now on.
TakeJob(w, s) ==
  /\ jobStatus' = [jobStatus EXCEPT ![s] = "running"]
  /\ attempts' = [attempts EXCEPT ![s] = @ + 1]
  /\ lockedBy' = [lockedBy EXCEPT ![s] = w]
  /\ lockAge' = [lockAge EXCEPT ![s] = 0]
  /\ UNCHANGED <<sub, evaluation, created, lastCreated>>

Oldest(s) == \A t \in Submissions : Claimable(t) => created[s] <= created[t]

\* ClaimEvaluationJob takes the oldest claimable job.  SKIP LOCKED makes the
\* claims that overlap this transaction pass over the rows it has locked: the
\* workers in missed find nothing and go to wait.
Claim(w, s) ==
  /\ wpc[w] = "claiming"
  /\ Claimable(s) /\ Oldest(s)
  /\ TakeJob(w, s)
  /\ \E missed \in SUBSET {v \in Workers \ {w} : wpc[v] = "claiming"} :
       wpc' = [v \in Workers |-> IF v = w THEN "claimed"
                                 ELSE IF v \in missed THEN "waiting" ELSE wpc[v]]
  /\ held' = [held EXCEPT ![w] = s]
  /\ attempt' = [attempt EXCEPT ![w] = attempts[s] + 1]
  /\ elapsed' = [elapsed EXCEPT ![w] = 0]
  /\ UNCHANGED <<outcome, process, faults>>

\* An empty queue: ErrRecordNotFound, the worker waits.
ClaimNothing(w) ==
  /\ wpc[w] = "claiming"
  /\ \A s \in Submissions : ~Claimable(s)
  /\ Goto(w, "waiting")
  /\ UNCHANGED <<database, process, faults>>

\* The claim returns an error, before or after its transaction committed; in
\* the second case the row is running and no goroutine works on it.
ClaimFails(w) ==
  /\ wpc[w] = "claiming"
  /\ Fault
  /\ \/ UNCHANGED database
     \/ \E s \in Submissions : Claimable(s) /\ Oldest(s) /\ TakeJob(w, s)
  /\ Goto(w, "waiting")
  /\ UNCHANGED process

\* waitForEvaluationWork returns on a token or when the poll timer fires.
Wake(w) ==
  /\ wpc[w] = "waiting"
  /\ wake[w[1]] > 0
  /\ wake' = [wake EXCEPT ![w[1]] = @ - 1]
  /\ Goto(w, "claiming")
  /\ UNCHANGED <<database, server, sweep, exhausted, faults>>

Poll(w) ==
  /\ wpc[w] = "waiting"
  /\ Goto(w, "claiming")
  /\ UNCHANGED <<database, process, faults>>

\* UpdateSubmissionProgress(job.SubmissionID, "evaluating", 35).
ShowEvaluating(s) ==
  /\ sub' = [sub EXCEPT ![s] = "evaluating"]
  /\ UNCHANGED <<evaluation, jobStatus, attempts, lockedBy, lockAge, created, lastCreated>>

Begin(w) ==
  /\ wpc[w] = "claimed"
  /\ ShowEvaluating(held[w])
  /\ Goto(w, "evaluating")
  /\ UNCHANGED <<process, faults>>

BeginFails(w) ==
  /\ wpc[w] = "claimed"
  /\ Fault
  /\ UNCHANGED database \/ ShowEvaluating(held[w])
  /\ Goto(w, "failing")
  /\ UNCHANGED process

\* EvaluationJobPayload and Evaluate: sandbox and model calls under jobCtx,
\* which has expired once JobTimeout ticks are over.
EvaluateSucceeds(w, o) ==
  /\ wpc[w] = "evaluating"
  /\ elapsed[w] <= JobTimeout
  /\ wpc' = [wpc EXCEPT ![w] = "completing"]
  /\ outcome' = [outcome EXCEPT ![w] = o]
  /\ UNCHANGED <<held, attempt, elapsed, database, process, faults>>

\* A payload that cannot be read, a runner or provider error, the timeout.
EvaluateFails(w) ==
  /\ wpc[w] = "evaluating"
  /\ Goto(w, "failing")
  /\ UNCHANGED <<database, process, faults>>

\* CompleteEvaluationJob: both rows by id, whatever they have become since.
SaveStatusOnly(w) ==
  LET s == held[w] IN
  /\ sub' = [sub EXCEPT ![s] = outcome[w]]
  /\ jobStatus' = [jobStatus EXCEPT ![s] = "completed"]
  /\ lockedBy' = [lockedBy EXCEPT ![s] = None]
  /\ lockAge' = [lockAge EXCEPT ![s] = 0]
  /\ UNCHANGED <<evaluation, attempts, created, lastCreated>>
SaveOutcome(w) ==
  LET s == held[w] IN
  /\ sub' = [sub EXCEPT ![s] = outcome[w]]
  /\ evaluation' = [evaluation EXCEPT ![s] = attempt[w]]
  /\ jobStatus' = [jobStatus EXCEPT ![s] = "completed"]
  /\ lockedBy' = [lockedBy EXCEPT ![s] = None]
  /\ lockAge' = [lockAge EXCEPT ![s] = 0]
  /\ UNCHANGED <<attempts, created, lastCreated>>

Complete(w) ==
  /\ wpc[w] = "completing"
  /\ SaveOutcome(w)
  /\ Release(w)
  /\ UNCHANGED <<process, faults>>

\* The completion returns an error and the worker goes on to FailEvaluationJob,
\* also when (LostCompletions) the transaction did commit.
CompleteFails(w) ==
  /\ wpc[w] = "completing"
  /\ Fault
  /\ \/ UNCHANGED database
     \/ LostCompletions /\ SaveOutcome(w)
  /\ wpc' = [wpc EXCEPT ![w] = "failing"]
  /\ outcome' = [outcome EXCEPT ![w] = None]
  /\ UNCHANGED <<held, attempt, elapsed, process>>

\* FailEvaluationJob: back to the queue while attempts are left, else failed.
SaveFailure(w) ==
  LET s == held[w]
      status == IF Retries(w) THEN "queued" ELSE "failed"
  IN
  /\ sub' = [sub EXCEPT ![s] = status]
  /\ jobStatus' = [jobStatus EXCEPT ![s] = status]
  /\ lockedBy' = [lockedBy EXCEPT ![s] = None]
  /\ lockAge' = [lockAge EXCEPT ![s] = 0]
  /\ UNCHANGED <<evaluation, attempts, created, lastCreated>>

Fail(w) ==
  /\ wpc[w] = "failing"
  /\ SaveFailure(w)
  /\ Release(w)
  /\ UNCHANGED <<process, faults>>

\* Its error is dropped: the worker moves on and leaves the row running.
FailFails(w) ==
  /\ wpc[w] = "failing"
  /\ Fault
  /\ UNCHANGED <<database, process>>
  /\ Release(w)

-----------------------------------------------------------------------------
(* Start-up and the reaper *)

\* The process starts: StartEvaluationWorkers begins with the backfill.
Start(sv) ==
  /\ server[sv] = "down"
  /\ server' = [server EXCEPT ![sv] = "starting"]
  /\ sweep' = [sweep EXCEPT ![sv] = "backfill"]
  /\ UNCHANGED <<exhausted, wake, database, goroutine, faults>>

\* BackfillPendingEvaluationJobs: a pending submission without a job gets a
\* queued one and is shown as queued; one that has a job is skipped.
Jobless == {s \in Submissions : sub[s] \in Pending /\ jobStatus[s] = "none"}
JoblessQueued == {s \in Submissions : sub[s] = "queued" /\ jobStatus[s] = "none"}
Backfilled == Jobless

Backfill(sv) ==
  /\ sweep[sv] = "backfill"
  /\ jobStatus' = [s \in Submissions |-> IF s \in Backfilled THEN "queued" ELSE jobStatus[s]]
  /\ sub' = [s \in Submissions |-> IF s \in Backfilled THEN "queued" ELSE sub[s]]
  /\ created' = [s \in Submissions |-> IF s \in Backfilled THEN lastCreated + 1 ELSE created[s]]
  /\ lastCreated' = IF Backfilled = {} THEN lastCreated ELSE lastCreated + 1
  /\ sweep' = [sweep EXCEPT ![sv] = "requeue"]
  /\ UNCHANGED <<evaluation, attempts, lockedBy, lockAge, server, exhausted,
                 wake, goroutine, faults>>

\* The ticker of staleJobReaper fires; a tick during a sweep is dropped.
ReaperTick(sv) ==
  /\ server[sv] = "up"
  /\ sweep[sv] = "idle"
  /\ sweep' = [sweep EXCEPT ![sv] = "requeue"]
  /\ UNCHANGED <<server, exhausted, wake, database, goroutine, faults>>

\* RequeueStaleJobs: one UPDATE; the submission keeps the status it shows.
Requeue(sv) ==
  /\ sweep[sv] = "requeue"
  /\ jobStatus' = [s \in Submissions |-> IF Stale(s) THEN "queued" ELSE jobStatus[s]]
  /\ lockedBy' = [s \in Submissions |-> IF Stale(s) THEN None ELSE lockedBy[s]]
  /\ lockAge' = [s \in Submissions |-> IF Stale(s) THEN 0 ELSE lockAge[s]]
  /\ sweep' = [sweep EXCEPT ![sv] = "scan"]
  /\ UNCHANGED <<sub, evaluation, attempts, created, lastCreated, server,
                 exhausted, wake, goroutine, faults>>

\* FailExhaustedEvaluationJobs reads the rows without locking them ...
ScanExhausted(sv) ==
  /\ sweep[sv] = "scan"
  /\ exhausted' = [exhausted EXCEPT ![sv] = {s \in Submissions : Exhausted(s)}]
  /\ sweep' = [sweep EXCEPT ![sv] = "mark"]
  /\ UNCHANGED <<server, wake, database, goroutine, faults>>

\* Start-up is over: the workers and the reaper run.
Serve(sv) ==
  IF server[sv] = "starting"
  THEN /\ server' = [server EXCEPT ![sv] = "up"]
       /\ wpc' = [w \in Workers |-> IF w[1] = sv THEN "claiming" ELSE wpc[w]]
  ELSE UNCHANGED <<server, wpc>>

\* ... and then updates each of them by id.
MarkJobsOnly(sv) ==
  /\ jobStatus' = [s \in Submissions |-> IF s \in exhausted[sv] THEN "failed" ELSE jobStatus[s]]
  /\ UNCHANGED sub
MarkFailed(sv) ==
  /\ jobStatus' = [s \in Submissions |-> IF s \in exhausted[sv] THEN "failed" ELSE jobStatus[s]]
  /\ sub' = [s \in Submissions |-> IF s \in exhausted[sv] THEN "failed" ELSE sub[s]]

MarkExhausted(sv) ==
  /\ sweep[sv] = "mark"
  /\ MarkFailed(sv)
  /\ exhausted' = [exhausted EXCEPT ![sv] = {}]
  /\ sweep' = [sweep EXCEPT ![sv] = "idle"]
  /\ Serve(sv)
  /\ UNCHANGED <<evaluation, attempts, lockedBy, lockAge, created, lastCreated,
                 wake, held, attempt, elapsed, outcome, faults>>

\* A statement of the sweep fails: the reaper logs it and goes on with the
\* exhausted jobs or with its next tick.  (A start-up step that fails panics:
\* that is a Crash.)
SweepFails(sv) ==
  /\ server[sv] = "up"
  /\ sweep[sv] # "idle"
  /\ Fault
  /\ sweep' = [sweep EXCEPT ![sv] = IF @ = "requeue" THEN "scan" ELSE "idle"]
  /\ exhausted' = [exhausted EXCEPT ![sv] = {}]
  /\ UNCHANGED <<server, wake, database, goroutine>>

\* The process dies: its goroutines, channel and timers go, the rows stay.
Crash(sv) ==
  /\ server[sv] # "down"
  /\ Fault
  /\ server' = [server EXCEPT ![sv] = "down"]
  /\ sweep' = [sweep EXCEPT ![sv] = "idle"]
  /\ exhausted' = [exhausted EXCEPT ![sv] = {}]
  /\ wake' = [wake EXCEPT ![sv] = 0]
  /\ wpc' = [w \in Workers |-> IF w[1] = sv THEN "off" ELSE wpc[w]]
  /\ held' = [w \in Workers |-> IF w[1] = sv THEN None ELSE held[w]]
  /\ attempt' = [w \in Workers |-> IF w[1] = sv THEN 0 ELSE attempt[w]]
  /\ elapsed' = [w \in Workers |-> IF w[1] = sv THEN 0 ELSE elapsed[w]]
  /\ outcome' = [w \in Workers |-> IF w[1] = sv THEN None ELSE outcome[w]]
  /\ UNCHANGED database

-----------------------------------------------------------------------------
(* Time *)

Older(age) == IF age < MaxAge THEN age + 1 ELSE age

\* Time passes for the locks and for the goroutines that hold a job.  Timely
\* says that no stall of the database or of the process stretches an attempt
\* beyond 2 * JobTimeout: jobCtx ends the evaluation after JobTimeout, and what
\* is left is a few statements.  Without it a goroutine may be delayed for any
\* time between two of its steps.

Tick ==
  /\ Timely => \A w \in Workers : held[w] # None => elapsed[w] < 2 * JobTimeout
  /\ lockAge' = [s \in Submissions |->
                   IF jobStatus[s] = "running" THEN Older(lockAge[s]) ELSE lockAge[s]]
  /\ elapsed' = [w \in Workers |->
                   IF held[w] # None THEN Older(elapsed[w]) ELSE elapsed[w]]
  /\ UNCHANGED <<sub, evaluation, jobStatus, attempts, lockedBy, created, lastCreated,
                 process, wpc, held, attempt, outcome, faults>>

-----------------------------------------------------------------------------
WorkerStep(w) ==
  \/ \E s \in Submissions : Claim(w, s)
  \/ ClaimNothing(w)
  \/ Wake(w)
  \/ Poll(w)
  \/ Begin(w)
  \/ \E o \in Outcomes : EvaluateSucceeds(w, o)
  \/ EvaluateFails(w)
  \/ Complete(w)
  \/ Fail(w)

WorkerFault(w) == ClaimFails(w) \/ BeginFails(w) \/ CompleteFails(w) \/ FailFails(w)

SweepStep(sv) ==
  Backfill(sv) \/ Requeue(sv) \/ ScanExhausted(sv) \/ MarkExhausted(sv)

ServerStep(sv) == Start(sv) \/ ReaperTick(sv) \/ SweepStep(sv)

Next ==
  \/ \E sv \in Servers, s \in Submissions : Submit(sv, s) \/ SubmitUnanswered(sv, s)
  \/ \E w \in Workers : WorkerStep(w) \/ WorkerFault(w)
  \/ \E sv \in Servers : ServerStep(sv) \/ SweepFails(sv) \/ Crash(sv)
  \/ Tick

Spec == Init /\ [][Next]_vars

(***************************************************************************)
(* A goroutine that can run runs, a stopped process is started again, the  *)
(* reaper's ticker fires and time passes.  Nothing is assumed of students  *)
(* or of faults, whose number MaxFaults bounds.                            *)
(***************************************************************************)
Fairness ==
  /\ \A w \in Workers : WF_vars(WorkerStep(w))
  /\ \A sv \in Servers : WF_vars(ServerStep(sv))
  /\ WF_vars(Tick)

FairSpec == Spec /\ Fairness

-----------------------------------------------------------------------------
(* Properties *)

Processes(w, s) == wpc[w] \in Busy /\ held[w] = s

\* A job is processed by one goroutine at a time, and that goroutine is the one
\* the row names, in the attempt the row counts: no claim, requeue, restart or
\* second server ever lets two evaluations of a submission overlap.  (Needs
\* Timely: the rows are written by id and nothing else fences an old owner.)
SoleOwner ==
  \A w \in Workers, s \in Submissions :
    Processes(w, s) =>
      /\ jobStatus[s] = "running" /\ lockedBy[s] = w /\ attempts[s] = attempt[w]
      /\ \A v \in Workers \ {w} : ~Processes(v, s)

\* The submission row and the job row tell the same story at every moment,
\* although different transactions write them: a settled submission has a
\* closed job of the same verdict and a pending one has an open job, unless it
\* is a legacy row no server has backfilled yet.
RowsAgree ==
  \A s \in Submissions :
    /\ jobStatus[s] = "completed" <=> sub[s] \in Outcomes
    /\ jobStatus[s] = "failed" <=> sub[s] = "failed"
    /\ jobStatus[s] \in {"queued", "running"} => sub[s] \in Pending
    /\ jobStatus[s] = "none" => sub[s] = "absent" \/ s \in Legacy

\* What the student reads is the verdict of the last attempt claimed: no
\* retry, crash or late answer leaves an older attempt's evaluation on display,
\* and a submission that failed never carries one.
LastAttemptShown ==
  \A s \in Submissions :
    /\ sub[s] \in Outcomes => evaluation[s] = attempts[s]
    /\ sub[s] = "failed" => evaluation[s] = 0

\* A submission is only given up after MaxAttempts claims, whichever of the
\* worker, the reaper and a start-up gives it up and however late it does.
\* Holds with overrunning workers and lost replies too.
FailedOnlyExhausted ==
  \A s \in Submissions : sub[s] = "failed" => attempts[s] = MaxAttempts

\* No student is shown a grade without an evaluation behind it, and no
\* evaluation comes from an attempt that was never claimed.  Holds with
\* overrunning workers and lost replies too.
GradeHasEvaluation ==
  \A s \in Submissions :
    /\ sub[s] \in Outcomes => evaluation[s] # 0
    /\ evaluation[s] <= attempts[s]

\* Until a first fault the poll timer is never what saves a job: while one can be
\* claimed some worker is about to look, busy and going to look afterwards, or
\* waiting with a token in its channel, or a process is still starting.
WorkNeverSleeps ==
  faults = 0 /\ (\E s \in Submissions : Claimable(s)) =>
    \/ \E w \in Workers :
         wpc[w] \in {"claiming"} \cup Busy \/ (wpc[w] = "waiting" /\ wake[w[1]] > 0)
    \/ \E sv \in Servers : server[sv] = "starting"

\* Every submission a student has been able to make, and every legacy one, is
\* graded, handed to the teacher or failed in the end, whatever crashes and
\* storage errors happen on the way.
EverySubmissionSettles ==
  \A s \in Submissions : sub[s] \in Pending ~> sub[s] \in Settled

\* Overrunning workers and lost replies may reopen a job, yet not for ever:
\* each job is closed for good in the end.
EveryJobCloses ==
  \A s \in Submissions :
    jobStatus[s] # "none" ~> [](jobStatus[s] \in {"completed", "failed"})

\* What the queue promises, in the terms of SubmissionLifecycle: the two rows,
\* the locks and the goroutines implement a submission that is accepted, tried
\* at most MaxAttempts times and settled once.
Phase == [s \in Submissions |-> IF sub[s] \in Pending THEN "pending" ELSE sub[s]]

Lifecycle == INSTANCE SubmissionLifecycle WITH phase <- Phase, tries <- attempts

ImplementsLifecycle == Lifecycle!Spec

-----------------------------------------------------------------------------
(* Inductive strengthenings, for the proofs *)

\* What a goroutine remembers, with or without Timely: it holds a job exactly
\* while it is busy, in an attempt the row has counted, in a process that is up.
Goroutines ==
  \A w \in Workers :
    /\ server[w[1]] # "up" => wpc[w] = "off"
    /\ wpc[w] \in Busy <=> held[w] \in Submissions
    /\ wpc[w] \in Busy => attempt[w] # 0 /\ attempt[w] <= attempts[held[w]]
    /\ wpc[w] = "completing" => outcome[w] \in Outcomes

\* A scanned row is exhausted for ever: attempts never go down.
ScannedExhausted ==
  \A sv \in Servers : \A s \in exhausted[sv] : attempts[s] = MaxAttempts

AnyTimeInv ==
  TypeOK /\ Goroutines /\ ScannedExhausted /\ FailedOnlyExhausted /\ GradeHasEvaluation

\* The lock of a busy goroutine's job is its own, as old as its attempt, and
\* not yet stale.
LeaseHeld ==
  \A w \in Workers :
    wpc[w] \in Busy =>
      /\ jobStatus[held[w]] = "running"
      /\ lockedBy[held[w]] = w
      /\ attempts[held[w]] = attempt[w]
      /\ lockAge[held[w]] = elapsed[w]
      /\ elapsed[w] <= 2 * JobTimeout

\* A scanned row stays queued until a sweep closes it; an open job has no
\* evaluation yet.
OpenRows ==
  /\ \A sv \in Servers : \A s \in exhausted[sv] : jobStatus[s] \in {"queued", "failed"}
  /\ \A s \in Submissions :
       jobStatus[s] \in {"none", "queued", "running"} => evaluation[s] = 0

TimelyInv == AnyTimeInv /\ LeaseHeld /\ OpenRows /\ RowsAgree /\ LastAttemptShown

\* A running row has a goroutine behind it, only a starting process backfills,
\* and a process that is up runs all its workers: true until a first crash or
\* storage error.
NothingOrphaned ==
  /\ \A s \in Submissions : jobStatus[s] = "running" => \E w \in Workers : Processes(w, s)
  /\ \A sv \in Servers : sweep[sv] = "backfill" => server[sv] = "starting"
  /\ \A w \in Workers : server[w[1]] = "up" => wpc[w] # "off"

FaultlessInv == AnyTimeInv /\ (faults = 0 => NothingOrphaned) /\ WorkNeverSleeps
=============================================================================
