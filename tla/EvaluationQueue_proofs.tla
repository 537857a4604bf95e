----------------------- MODULE EvaluationQueue_proofs -----------------------
(***************************************************************************)
(* Theorems about EvaluationQueue for any number of servers, workers,      *)
(* submissions, attempts and faults.                                       *)
(*                                                                         *)
(* Two inductive invariants.  AnyTimeInv holds however long a goroutine is *)
(* delayed and whatever replies are lost: it only relies on attempts never *)
(* going down and on a row being given up after they reach MaxAttempts.    *)
(* TimelyInv adds the lease: a busy goroutine's lock is its own and as old *)
(* as its attempt, so that Requeue cannot take its job away and the writes *)
(* by id, which check nothing, always hit the row they were meant for.     *)
(***************************************************************************)
EXTENDS EvaluationQueue, TLAPS

USE QueueAssumption

\* The first component of a worker id is its server.
LEMMA WorkerServer == \A w \in Workers : w[1] \in Servers
  BY DEF Workers

\* The empty queue satisfies AnyTimeInv.
LEMMA AnyTimeInit == Init => AnyTimeInv
<1> SUFFICES ASSUME Init PROVE AnyTimeInv
  OBVIOUS
<1>1. TypeOK
  BY DEF Init, TypeOK, MaxAge, Pending
<1>2. Goroutines /\ ScannedExhausted /\ FailedOnlyExhausted /\ GradeHasEvaluation
  BY WorkerServer DEF Init, Goroutines, ScannedExhausted, FailedOnlyExhausted,
     GradeHasEvaluation, Busy, Pending, Outcomes
<1> QED
  BY <1>1, <1>2 DEF AnyTimeInv

\* Every step of the code, the delayed and unanswered ones included, keeps it.
LEMMA AnyTimeStep ==
  ASSUME AnyTimeInv, [Next]_vars
  PROVE  AnyTimeInv'
<1> USE DEF AnyTimeInv
<1>1. ASSUME NEW sv \in Servers, NEW s \in Submissions, Submit(sv, s)
      PROVE  AnyTimeInv'
  <2>1. TypeOK'
    BY <1>1 DEF Submit, CreateRows, Signal, goroutine, TypeOK, MaxAge, Pending
  <2>2. Goroutines'
    BY <1>1 DEF Submit, CreateRows, goroutine, TypeOK, Goroutines, Busy
  <2>3. ScannedExhausted'
    BY <1>1 DEF Submit, CreateRows, TypeOK, ScannedExhausted
  <2>4. FailedOnlyExhausted'
    BY <1>1 DEF Submit, CreateRows, TypeOK, FailedOnlyExhausted
  <2>5. GradeHasEvaluation'
    BY <1>1 DEF Submit, CreateRows, TypeOK, GradeHasEvaluation, Outcomes
  <2> QED
    BY <2>1, <2>2, <2>3, <2>4, <2>5
<1>2. ASSUME NEW sv \in Servers, NEW s \in Submissions, SubmitUnanswered(sv, s)
      PROVE  AnyTimeInv'
  <2>1. TypeOK'
    BY <1>2 DEF SubmitUnanswered, CreateRows, Fault, goroutine, TypeOK, MaxAge,
         Pending
  <2>2. Goroutines'
    BY <1>2 DEF SubmitUnanswered, CreateRows, goroutine, TypeOK, Goroutines,
         Busy
  <2>3. ScannedExhausted'
    BY <1>2 DEF SubmitUnanswered, CreateRows, TypeOK, ScannedExhausted
  <2>4. FailedOnlyExhausted'
    BY <1>2 DEF SubmitUnanswered, CreateRows, TypeOK, FailedOnlyExhausted
  <2>5. GradeHasEvaluation'
    BY <1>2 DEF SubmitUnanswered, CreateRows, TypeOK, GradeHasEvaluation,
         Outcomes
  <2> QED
    BY <2>1, <2>2, <2>3, <2>4, <2>5
<1>3. ASSUME NEW w \in Workers, NEW s \in Submissions, Claim(w, s)
      PROVE  AnyTimeInv'
  <2>1. TypeOK'
    BY <1>3 DEF Claim, TakeJob, Claimable, process, TypeOK, MaxAge, Busy
  <2>2. Goroutines'
    BY <1>3, WorkerServer DEF Claim, TakeJob, Claimable, process, TypeOK,
         Goroutines, Busy
  <2>3. ScannedExhausted'
    BY <1>3 DEF Claim, TakeJob, Claimable, process, TypeOK, ScannedExhausted
  <2>4. FailedOnlyExhausted'
    BY <1>3 DEF Claim, TakeJob, Claimable, TypeOK, FailedOnlyExhausted
  <2>5. GradeHasEvaluation'
    BY <1>3 DEF Claim, TakeJob, Claimable, TypeOK, GradeHasEvaluation
  <2> QED
    BY <2>1, <2>2, <2>3, <2>4, <2>5
<1>4. ASSUME NEW w \in Workers, ClaimNothing(w)
      PROVE  AnyTimeInv'
  <2>1. TypeOK'
    BY <1>4 DEF ClaimNothing, Goto, database, process, TypeOK, MaxAge
  <2>2. Goroutines'
    BY <1>4 DEF ClaimNothing, Goto, database, process, TypeOK, Goroutines, Busy
  <2>3. ScannedExhausted'
    BY <1>4 DEF ClaimNothing, database, process, TypeOK, ScannedExhausted
  <2>4. FailedOnlyExhausted'
    BY <1>4 DEF ClaimNothing, database, TypeOK, FailedOnlyExhausted
  <2>5. GradeHasEvaluation'
    BY <1>4 DEF ClaimNothing, database, TypeOK, GradeHasEvaluation
  <2> QED
    BY <2>1, <2>2, <2>3, <2>4, <2>5
<1>5. ASSUME NEW w \in Workers, ClaimFails(w)
      PROVE  AnyTimeInv'
  <2>1. TypeOK'
    <3>1. CASE UNCHANGED database
      BY <1>5, <3>1 DEF ClaimFails, Fault, Goto, database, process, TypeOK, MaxAge
    <3>2. ASSUME NEW s \in Submissions, Claimable(s), TakeJob(w, s)
          PROVE  TypeOK'
      BY <1>5, <3>2 DEF ClaimFails, Fault, Goto, TakeJob, Claimable, process, TypeOK,
           MaxAge
    <3> QED
      BY <1>5, <3>1, <3>2 DEF ClaimFails
  <2>2. Goroutines'
    BY <1>5 DEF ClaimFails, TakeJob, Claimable, Goto, database, process, TypeOK,
         Goroutines, Busy
  <2>3. ScannedExhausted'
    BY <1>5 DEF ClaimFails, TakeJob, Claimable, database, process, TypeOK,
         ScannedExhausted
  <2>4. FailedOnlyExhausted'
    BY <1>5 DEF ClaimFails, TakeJob, Claimable, database, TypeOK,
         FailedOnlyExhausted
  <2>5. GradeHasEvaluation'
    BY <1>5 DEF ClaimFails, TakeJob, Claimable, database, TypeOK,
         GradeHasEvaluation
  <2> QED
    BY <2>1, <2>2, <2>3, <2>4, <2>5
<1>6. ASSUME NEW w \in Workers, Wake(w)
      PROVE  AnyTimeInv'
  <2>1. TypeOK'
    BY <1>6, WorkerServer DEF Wake, Goto, database, TypeOK, MaxAge
  <2>2. Goroutines'
    BY <1>6 DEF Wake, Goto, database, TypeOK, Goroutines, Busy
  <2>3. ScannedExhausted'
    BY <1>6 DEF Wake, database, TypeOK, ScannedExhausted
  <2>4. FailedOnlyExhausted'
    BY <1>6 DEF Wake, database, TypeOK, FailedOnlyExhausted
  <2>5. GradeHasEvaluation'
    BY <1>6 DEF Wake, database, TypeOK, GradeHasEvaluation
  <2> QED
    BY <2>1, <2>2, <2>3, <2>4, <2>5
<1>7. ASSUME NEW w \in Workers, Poll(w)
      PROVE  AnyTimeInv'
  <2>1. TypeOK'
    BY <1>7 DEF Poll, Goto, database, process, TypeOK, MaxAge
  <2>2. Goroutines'
    BY <1>7 DEF Poll, Goto, database, process, TypeOK, Goroutines, Busy
  <2>3. ScannedExhausted'
    BY <1>7 DEF Poll, database, process, TypeOK, ScannedExhausted
  <2>4. FailedOnlyExhausted'
    BY <1>7 DEF Poll, database, TypeOK, FailedOnlyExhausted
  <2>5. GradeHasEvaluation'
    BY <1>7 DEF Poll, database, TypeOK, GradeHasEvaluation
  <2> QED
    BY <2>1, <2>2, <2>3, <2>4, <2>5
<1>8. ASSUME NEW w \in Workers, Begin(w)
      PROVE  AnyTimeInv'
  <2>1. TypeOK'
    BY <1>8 DEF Begin, ShowEvaluating, Goto, process, TypeOK, MaxAge, Pending,
         Busy
  <2>2. Goroutines'
    BY <1>8 DEF Begin, ShowEvaluating, Goto, process, TypeOK, Goroutines, Busy
  <2>3. ScannedExhausted'
    BY <1>8 DEF Begin, ShowEvaluating, process, TypeOK, ScannedExhausted
  <2>4. FailedOnlyExhausted'
    BY <1>8 DEF Begin, ShowEvaluating, TypeOK, FailedOnlyExhausted, Outcomes
  <2>5. GradeHasEvaluation'
    BY <1>8 DEF Begin, ShowEvaluating, TypeOK, GradeHasEvaluation, Outcomes
  <2> QED
    BY <2>1, <2>2, <2>3, <2>4, <2>5
<1>9. ASSUME NEW w \in Workers, BeginFails(w)
      PROVE  AnyTimeInv'
  <2>1. TypeOK'
    BY <1>9 DEF BeginFails, Fault, ShowEvaluating, Goto, database, process,
         TypeOK, MaxAge, Pending, Busy
  <2>2. Goroutines'
    BY <1>9 DEF BeginFails, ShowEvaluating, Goto, database, process, TypeOK,
         Goroutines, Busy
  <2>3. ScannedExhausted'
    BY <1>9 DEF BeginFails, ShowEvaluating, database, process, TypeOK,
         ScannedExhausted
  <2>4. FailedOnlyExhausted'
    BY <1>9 DEF BeginFails, ShowEvaluating, database, TypeOK,
         FailedOnlyExhausted, Outcomes
  <2>5. GradeHasEvaluation'
    BY <1>9 DEF BeginFails, ShowEvaluating, database, TypeOK,
         GradeHasEvaluation, Outcomes
  <2> QED
    BY <2>1, <2>2, <2>3, <2>4, <2>5
<1>10. ASSUME NEW w \in Workers, NEW o \in Outcomes, EvaluateSucceeds(w, o)
      PROVE  AnyTimeInv'
  <2>1. TypeOK'
    BY <1>10 DEF EvaluateSucceeds, database, process, TypeOK, MaxAge, Outcomes,
         Busy
  <2>2. Goroutines'
    BY <1>10 DEF EvaluateSucceeds, database, process, TypeOK, Goroutines, Busy
  <2>3. ScannedExhausted'
    BY <1>10 DEF EvaluateSucceeds, database, process, TypeOK, ScannedExhausted
  <2>4. FailedOnlyExhausted'
    BY <1>10 DEF EvaluateSucceeds, database, TypeOK, FailedOnlyExhausted
  <2>5. GradeHasEvaluation'
    BY <1>10 DEF EvaluateSucceeds, database, TypeOK, GradeHasEvaluation
  <2> QED
    BY <2>1, <2>2, <2>3, <2>4, <2>5
<1>11. ASSUME NEW w \in Workers, EvaluateFails(w)
      PROVE  AnyTimeInv'
  <2>1. TypeOK'
    BY <1>11 DEF EvaluateFails, Goto, database, process, TypeOK, MaxAge, Busy
  <2>2. Goroutines'
    BY <1>11 DEF EvaluateFails, Goto, database, process, TypeOK, Goroutines,
         Busy
  <2>3. ScannedExhausted'
    BY <1>11 DEF EvaluateFails, database, process, TypeOK, ScannedExhausted
  <2>4. FailedOnlyExhausted'
    BY <1>11 DEF EvaluateFails, database, TypeOK, FailedOnlyExhausted
  <2>5. GradeHasEvaluation'
    BY <1>11 DEF EvaluateFails, database, TypeOK, GradeHasEvaluation
  <2> QED
    BY <2>1, <2>2, <2>3, <2>4, <2>5
<1>12. ASSUME NEW w \in Workers, Complete(w)
      PROVE  AnyTimeInv'
  <2>1. TypeOK'
    BY <1>12 DEF Complete, SaveOutcome, Release, process, TypeOK, MaxAge,
         Goroutines, Busy, Outcomes, Settled
  <2>2. Goroutines'
    BY <1>12 DEF Complete, SaveOutcome, Release, process, TypeOK, Goroutines,
         Busy
  <2>3. ScannedExhausted'
    BY <1>12 DEF Complete, SaveOutcome, process, TypeOK, ScannedExhausted
  <2>4. FailedOnlyExhausted'
    BY <1>12 DEF Complete, SaveOutcome, TypeOK, FailedOnlyExhausted, Goroutines,
         Busy, Outcomes
  <2>5. GradeHasEvaluation'
    BY <1>12 DEF Complete, SaveOutcome, TypeOK, GradeHasEvaluation, Goroutines,
         Busy
  <2> QED
    BY <2>1, <2>2, <2>3, <2>4, <2>5
<1>13. ASSUME NEW w \in Workers, CompleteFails(w)
      PROVE  AnyTimeInv'
  <2>1. TypeOK'
    <3>1. CASE UNCHANGED database
      BY <1>13, <3>1 DEF CompleteFails, Fault, database, process, TypeOK, MaxAge, Busy
    <3>2. CASE SaveOutcome(w)
      BY <1>13, <3>2 DEF CompleteFails, Fault, SaveOutcome, process, TypeOK, MaxAge,
           Goroutines, Busy, Settled
    <3> QED
      BY <1>13, <3>1, <3>2 DEF CompleteFails
  <2>2. Goroutines'
    BY <1>13 DEF CompleteFails, SaveOutcome, database, process, TypeOK,
         Goroutines, Busy, Outcomes
  <2>3. ScannedExhausted'
    BY <1>13 DEF CompleteFails, SaveOutcome, database, process, TypeOK,
         ScannedExhausted
  <2>4. FailedOnlyExhausted'
    BY <1>13 DEF CompleteFails, SaveOutcome, database, TypeOK,
         FailedOnlyExhausted, Goroutines, Busy, Outcomes
  <2>5. GradeHasEvaluation'
    BY <1>13 DEF CompleteFails, SaveOutcome, database, TypeOK,
         GradeHasEvaluation, Goroutines, Busy
  <2> QED
    BY <2>1, <2>2, <2>3, <2>4, <2>5
<1>14. ASSUME NEW w \in Workers, Fail(w)
      PROVE  AnyTimeInv'
  <2>1. TypeOK'
    <3> DEFINE status == IF Retries(w) THEN "queued" ELSE "failed"
    <3>1. status \in {"queued", "failed"}
      OBVIOUS
    <3>2. /\ sub' = [sub EXCEPT ![held[w]] = status]
          /\ jobStatus' = [jobStatus EXCEPT ![held[w]] = status]
          /\ lockedBy' = [lockedBy EXCEPT ![held[w]] = None]
          /\ lockAge' = [lockAge EXCEPT ![held[w]] = 0]
          /\ UNCHANGED <<evaluation, attempts, created, lastCreated>>
      BY <1>14 DEF Fail, SaveFailure
    <3> HIDE DEF status
    <3>3. held[w] \in Submissions
      BY <1>14 DEF Fail, Goroutines, Busy
    <3>4. /\ sub' \in [Submissions -> {"absent"} \cup Pending \cup Settled]
          /\ jobStatus' \in [Submissions -> {"none", "queued", "running", "completed", "failed"}]
      BY <3>3, <3>1, <3>2 DEF TypeOK, Pending, Settled
    <3>5. /\ lockedBy' \in [Submissions -> Workers \cup {None}]
          /\ lockAge' \in [Submissions -> 0..MaxAge]
      BY <3>3, <3>2 DEF TypeOK, MaxAge
    <3> QED
      BY <1>14, <3>2, <3>4, <3>5 DEF Fail, Release, process, TypeOK, MaxAge
  <2>2. Goroutines'
    BY <1>14 DEF Fail, SaveFailure, Retries, Release, process, TypeOK,
         Goroutines, Busy
  <2>3. ScannedExhausted'
    BY <1>14 DEF Fail, SaveFailure, Retries, process, TypeOK, ScannedExhausted
  <2>4. FailedOnlyExhausted'
    <3>1. held[w] \in Submissions /\ attempt[w] <= attempts[held[w]]
      BY <1>14 DEF Fail, Goroutines, Busy
    <3>2. ~Retries(w) => attempts[held[w]] = MaxAttempts
      BY <3>1 DEF Retries, TypeOK
    <3> QED
      BY <1>14, <3>1, <3>2 DEF Fail, SaveFailure, TypeOK, FailedOnlyExhausted
  <2>5. GradeHasEvaluation'
    BY <1>14 DEF Fail, SaveFailure, Retries, TypeOK, GradeHasEvaluation,
         Outcomes
  <2> QED
    BY <2>1, <2>2, <2>3, <2>4, <2>5
<1>15. ASSUME NEW w \in Workers, FailFails(w)
      PROVE  AnyTimeInv'
  <2>1. TypeOK'
    BY <1>15 DEF FailFails, Fault, Release, database, process, TypeOK, MaxAge
  <2>2. Goroutines'
    BY <1>15 DEF FailFails, Release, database, process, TypeOK, Goroutines, Busy
  <2>3. ScannedExhausted'
    BY <1>15 DEF FailFails, database, process, TypeOK, ScannedExhausted
  <2>4. FailedOnlyExhausted'
    BY <1>15 DEF FailFails, database, TypeOK, FailedOnlyExhausted
  <2>5. GradeHasEvaluation'
    BY <1>15 DEF FailFails, database, TypeOK, GradeHasEvaluation
  <2> QED
    BY <2>1, <2>2, <2>3, <2>4, <2>5
<1>16. ASSUME NEW sv \in Servers, Start(sv)
      PROVE  AnyTimeInv'
  <2>1. TypeOK'
    BY <1>16 DEF Start, database, goroutine, TypeOK, MaxAge
  <2>2. Goroutines'
    BY <1>16, WorkerServer DEF Start, database, goroutine, TypeOK, Goroutines,
         Busy
  <2>3. ScannedExhausted'
    BY <1>16 DEF Start, database, TypeOK, ScannedExhausted
  <2>4. FailedOnlyExhausted'
    BY <1>16 DEF Start, database, TypeOK, FailedOnlyExhausted
  <2>5. GradeHasEvaluation'
    BY <1>16 DEF Start, database, TypeOK, GradeHasEvaluation
  <2> QED
    BY <2>1, <2>2, <2>3, <2>4, <2>5
<1>17. ASSUME NEW sv \in Servers, ReaperTick(sv)
      PROVE  AnyTimeInv'
  <2>1. TypeOK'
    BY <1>17 DEF ReaperTick, database, goroutine, TypeOK, MaxAge
  <2>2. Goroutines'
    BY <1>17 DEF ReaperTick, database, goroutine, TypeOK, Goroutines, Busy
  <2>3. ScannedExhausted'
    BY <1>17 DEF ReaperTick, database, TypeOK, ScannedExhausted
  <2>4. FailedOnlyExhausted'
    BY <1>17 DEF ReaperTick, database, TypeOK, FailedOnlyExhausted
  <2>5. GradeHasEvaluation'
    BY <1>17 DEF ReaperTick, database, TypeOK, GradeHasEvaluation
  <2> QED
    BY <2>1, <2>2, <2>3, <2>4, <2>5
<1>18. ASSUME NEW sv \in Servers, Backfill(sv)
      PROVE  AnyTimeInv'
  <2>1. TypeOK'
    BY <1>18 DEF Backfill, Backfilled, Jobless, goroutine, TypeOK, MaxAge,
         Pending
  <2>2. Goroutines'
    BY <1>18 DEF Backfill, Backfilled, Jobless, goroutine, TypeOK, Goroutines,
         Busy
  <2>3. ScannedExhausted'
    BY <1>18 DEF Backfill, Backfilled, Jobless, TypeOK, ScannedExhausted
  <2>4. FailedOnlyExhausted'
    BY <1>18 DEF Backfill, Backfilled, Jobless, TypeOK, FailedOnlyExhausted
  <2>5. GradeHasEvaluation'
    BY <1>18 DEF Backfill, Backfilled, Jobless, TypeOK, GradeHasEvaluation,
         Outcomes
  <2> QED
    BY <2>1, <2>2, <2>3, <2>4, <2>5
<1>19. ASSUME NEW sv \in Servers, Requeue(sv)
      PROVE  AnyTimeInv'
  <2>1. TypeOK'
    BY <1>19 DEF Requeue, Stale, goroutine, TypeOK, MaxAge
  <2>2. Goroutines'
    BY <1>19 DEF Requeue, Stale, goroutine, TypeOK, Goroutines, Busy
  <2>3. ScannedExhausted'
    BY <1>19 DEF Requeue, Stale, TypeOK, ScannedExhausted
  <2>4. FailedOnlyExhausted'
    BY <1>19 DEF Requeue, Stale, TypeOK, FailedOnlyExhausted
  <2>5. GradeHasEvaluation'
    BY <1>19 DEF Requeue, Stale, TypeOK, GradeHasEvaluation
  <2> QED
    BY <2>1, <2>2, <2>3, <2>4, <2>5
<1>20. ASSUME NEW sv \in Servers, ScanExhausted(sv)
      PROVE  AnyTimeInv'
  <2>1. TypeOK'
    BY <1>20 DEF ScanExhausted, Exhausted, database, goroutine, TypeOK, MaxAge
  <2>2. Goroutines'
    BY <1>20 DEF ScanExhausted, database, goroutine, TypeOK, Goroutines, Busy
  <2>3. ScannedExhausted'
    <3>1. \A s \in Submissions : Exhausted(s) => attempts[s] = MaxAttempts
      BY DEF Exhausted, TypeOK
    <3> QED
      BY <1>20, <3>1 DEF ScanExhausted, database, TypeOK, ScannedExhausted
  <2>4. FailedOnlyExhausted'
    BY <1>20 DEF ScanExhausted, database, TypeOK, FailedOnlyExhausted
  <2>5. GradeHasEvaluation'
    BY <1>20 DEF ScanExhausted, database, TypeOK, GradeHasEvaluation
  <2> QED
    BY <2>1, <2>2, <2>3, <2>4, <2>5
<1>21. ASSUME NEW sv \in Servers, MarkExhausted(sv)
      PROVE  AnyTimeInv'
  <2>1. TypeOK'
    BY <1>21, WorkerServer DEF MarkExhausted, MarkFailed, Serve, TypeOK, MaxAge,
         Settled
  <2>2. Goroutines'
    BY <1>21, WorkerServer DEF MarkExhausted, MarkFailed, Serve, TypeOK,
         Goroutines, Busy
  <2>3. ScannedExhausted'
    BY <1>21 DEF MarkExhausted, MarkFailed, TypeOK, ScannedExhausted
  <2>4. FailedOnlyExhausted'
    BY <1>21 DEF MarkExhausted, MarkFailed, TypeOK, FailedOnlyExhausted,
         ScannedExhausted
  <2>5. GradeHasEvaluation'
    BY <1>21 DEF MarkExhausted, MarkFailed, TypeOK, GradeHasEvaluation, Outcomes
  <2> QED
    BY <2>1, <2>2, <2>3, <2>4, <2>5
<1>22. ASSUME NEW sv \in Servers, SweepFails(sv)
      PROVE  AnyTimeInv'
  <2>1. TypeOK'
    BY <1>22 DEF SweepFails, Fault, database, goroutine, TypeOK, MaxAge
  <2>2. Goroutines'
    BY <1>22, WorkerServer DEF SweepFails, database, goroutine, TypeOK,
         Goroutines, Busy
  <2>3. ScannedExhausted'
    BY <1>22 DEF SweepFails, database, TypeOK, ScannedExhausted
  <2>4. FailedOnlyExhausted'
    BY <1>22 DEF SweepFails, database, TypeOK, FailedOnlyExhausted
  <2>5. GradeHasEvaluation'
    BY <1>22 DEF SweepFails, database, TypeOK, GradeHasEvaluation
  <2> QED
    BY <2>1, <2>2, <2>3, <2>4, <2>5
<1>23. ASSUME NEW sv \in Servers, Crash(sv)
      PROVE  AnyTimeInv'
  <2>1. TypeOK'
    BY <1>23 DEF Crash, Fault, database, TypeOK, MaxAge
  <2>2. Goroutines'
    BY <1>23, WorkerServer DEF Crash, database, TypeOK, Goroutines, Busy
  <2>3. ScannedExhausted'
    BY <1>23 DEF Crash, database, TypeOK, ScannedExhausted
  <2>4. FailedOnlyExhausted'
    BY <1>23 DEF Crash, database, TypeOK, FailedOnlyExhausted
  <2>5. GradeHasEvaluation'
    BY <1>23 DEF Crash, database, TypeOK, GradeHasEvaluation
  <2> QED
    BY <2>1, <2>2, <2>3, <2>4, <2>5
<1>24. ASSUME Tick
      PROVE  AnyTimeInv'
  <2>1. TypeOK'
    BY <1>24 DEF Tick, Older, MaxAge, process, TypeOK
  <2>2. Goroutines'
    BY <1>24 DEF Tick, process, TypeOK, Goroutines, Busy
  <2>3. ScannedExhausted'
    BY <1>24 DEF Tick, process, TypeOK, ScannedExhausted
  <2>4. FailedOnlyExhausted'
    BY <1>24 DEF Tick, TypeOK, FailedOnlyExhausted
  <2>5. GradeHasEvaluation'
    BY <1>24 DEF Tick, TypeOK, GradeHasEvaluation
  <2> QED
    BY <2>1, <2>2, <2>3, <2>4, <2>5
<1>25. CASE UNCHANGED vars
  BY <1>25 DEF vars, database, process, goroutine, TypeOK,
         Goroutines, ScannedExhausted, FailedOnlyExhausted, GradeHasEvaluation
<1> QED
  BY <1>1, <1>2, <1>3, <1>4, <1>5, <1>6, <1>7, <1>8, <1>9, <1>10, <1>11, <1>12,
     <1>13, <1>14, <1>15, <1>16, <1>17, <1>18, <1>19, <1>20, <1>21, <1>22,
     <1>23, <1>24, <1>25 DEF Next, WorkerStep, WorkerFault, ServerStep,
     SweepStep

\* AnyTimeInv holds in every state of the queue.
THEOREM AnyTimeSafe == Spec => []AnyTimeInv
<1>1. AnyTimeInv /\ [Next]_vars => AnyTimeInv'
  BY AnyTimeStep
<1> QED
  BY AnyTimeInit, <1>1, PTL DEF Spec

\* The rows and the goroutines' variables always hold what their types allow.
THEOREM TypeCorrect == Spec => []TypeOK
<1>1. AnyTimeInv => TypeOK
  BY DEF AnyTimeInv
<1> QED
  BY AnyTimeSafe, <1>1, PTL

\* No submission is given up before it has been claimed MaxAttempts times:
\* FailEvaluationJob, with its attempt count read at the claim, and
\* FailExhaustedEvaluationJobs, with its rows read before its updates, decide
\* on old data and still never too early.
THEOREM NeverGivenUpEarly == Spec => []FailedOnlyExhausted
<1>1. AnyTimeInv => FailedOnlyExhausted
  BY DEF AnyTimeInv
<1> QED
  BY AnyTimeSafe, <1>1, PTL

\* No grade is shown without an evaluation of a claimed attempt behind it.
THEOREM EveryGradeEvaluated == Spec => []GradeHasEvaluation
<1>1. AnyTimeInv => GradeHasEvaluation
  BY DEF AnyTimeInv
<1> QED
  BY AnyTimeSafe, <1>1, PTL

-----------------------------------------------------------------------------
\* The empty queue satisfies TimelyInv.
LEMMA TimelyInit == Init => TimelyInv
<1> SUFFICES ASSUME Init PROVE TimelyInv
  OBVIOUS
<1>1. LeaseHeld /\ OpenRows /\ RowsAgree /\ LastAttemptShown
  BY DEF Init, LeaseHeld, OpenRows, RowsAgree, LastAttemptShown, Busy, Pending, Outcomes
<1> QED
  BY <1>1, AnyTimeInit DEF TimelyInv

\* Every step of timely workers keeps it.
LEMMA TimelyStep ==
  ASSUME Timely, ~LostCompletions, TimelyInv, [Next]_vars
  PROVE  TimelyInv'
<1>0. SUFFICES (LeaseHeld /\ OpenRows /\ RowsAgree /\ LastAttemptShown)'
  BY AnyTimeStep DEF TimelyInv
<1> USE DEF AnyTimeInv, TimelyInv
<1>1. ASSUME NEW sv \in Servers, NEW s \in Submissions, Submit(sv, s)
      PROVE  (LeaseHeld /\ OpenRows /\ RowsAgree /\ LastAttemptShown)'
  <2>1. LeaseHeld'
    BY <1>1 DEF Submit, CreateRows, goroutine, TypeOK, Goroutines, LeaseHeld,
         Busy, RowsAgree, Outcomes, Pending
  <2>2. OpenRows'
    BY <1>1 DEF Submit, CreateRows, TypeOK, OpenRows, RowsAgree, Outcomes,
         LastAttemptShown, Pending
  <2>3. RowsAgree'
    BY <1>1 DEF Submit, CreateRows, TypeOK, RowsAgree, Outcomes, Pending
  <2>4. LastAttemptShown'
    BY <1>1 DEF Submit, CreateRows, TypeOK, LastAttemptShown, Outcomes
  <2> QED
    BY <2>1, <2>2, <2>3, <2>4
<1>2. ASSUME NEW sv \in Servers, NEW s \in Submissions, SubmitUnanswered(sv, s)
      PROVE  (LeaseHeld /\ OpenRows /\ RowsAgree /\ LastAttemptShown)'
  <2>1. LeaseHeld'
    BY <1>2 DEF SubmitUnanswered, CreateRows, goroutine, TypeOK, Goroutines,
         LeaseHeld, Busy, RowsAgree, Outcomes, Pending
  <2>2. OpenRows'
    BY <1>2 DEF SubmitUnanswered, CreateRows, TypeOK, OpenRows, RowsAgree,
         Outcomes, LastAttemptShown, Pending
  <2>3. RowsAgree'
    BY <1>2 DEF SubmitUnanswered, CreateRows, TypeOK, RowsAgree, Outcomes,
         Pending
  <2>4. LastAttemptShown'
    BY <1>2 DEF SubmitUnanswered, CreateRows, TypeOK, LastAttemptShown, Outcomes
  <2> QED
    BY <2>1, <2>2, <2>3, <2>4
<1>3. ASSUME NEW w \in Workers, NEW s \in Submissions, Claim(w, s)
      PROVE  (LeaseHeld /\ OpenRows /\ RowsAgree /\ LastAttemptShown)'
  <2>1. LeaseHeld'
    BY <1>3 DEF Claim, TakeJob, Claimable, TypeOK, Goroutines, LeaseHeld, Busy
  <2>2. OpenRows'
    BY <1>3 DEF Claim, TakeJob, Claimable, process, TypeOK, OpenRows,
         ScannedExhausted
  <2>3. RowsAgree'
    BY <1>3 DEF Claim, TakeJob, Claimable, TypeOK, RowsAgree, Pending, Outcomes
  <2>4. LastAttemptShown'
    BY <1>3 DEF Claim, TakeJob, Claimable, TypeOK, LastAttemptShown, RowsAgree,
         Pending, Outcomes
  <2> QED
    BY <2>1, <2>2, <2>3, <2>4
<1>4. ASSUME NEW w \in Workers, ClaimNothing(w)
      PROVE  (LeaseHeld /\ OpenRows /\ RowsAgree /\ LastAttemptShown)'
  <2>1. LeaseHeld'
    BY <1>4 DEF ClaimNothing, Goto, database, TypeOK, Goroutines, LeaseHeld,
         Busy
  <2>2. OpenRows'
    BY <1>4 DEF ClaimNothing, database, process, TypeOK, OpenRows
  <2>3. RowsAgree'
    BY <1>4 DEF ClaimNothing, database, TypeOK, RowsAgree
  <2>4. LastAttemptShown'
    BY <1>4 DEF ClaimNothing, database, TypeOK, LastAttemptShown
  <2> QED
    BY <2>1, <2>2, <2>3, <2>4
<1>5. ASSUME NEW w \in Workers, ClaimFails(w)
      PROVE  (LeaseHeld /\ OpenRows /\ RowsAgree /\ LastAttemptShown)'
  <2>1. LeaseHeld'
    BY <1>5 DEF ClaimFails, TakeJob, Claimable, Goto, database, TypeOK,
         Goroutines, LeaseHeld, Busy
  <2>2. OpenRows'
    BY <1>5 DEF ClaimFails, TakeJob, Claimable, database, process, TypeOK,
         OpenRows, ScannedExhausted
  <2>3. RowsAgree'
    BY <1>5 DEF ClaimFails, TakeJob, Claimable, database, TypeOK, RowsAgree,
         Pending, Outcomes
  <2>4. LastAttemptShown'
    BY <1>5 DEF ClaimFails, TakeJob, Claimable, database, TypeOK,
         LastAttemptShown, RowsAgree, Pending, Outcomes
  <2> QED
    BY <2>1, <2>2, <2>3, <2>4
<1>6. ASSUME NEW w \in Workers, Wake(w)
      PROVE  (LeaseHeld /\ OpenRows /\ RowsAgree /\ LastAttemptShown)'
  <2>1. LeaseHeld'
    BY <1>6 DEF Wake, Goto, database, TypeOK, Goroutines, LeaseHeld, Busy
  <2>2. OpenRows'
    BY <1>6 DEF Wake, database, TypeOK, OpenRows
  <2>3. RowsAgree'
    BY <1>6 DEF Wake, database, TypeOK, RowsAgree
  <2>4. LastAttemptShown'
    BY <1>6 DEF Wake, database, TypeOK, LastAttemptShown
  <2> QED
    BY <2>1, <2>2, <2>3, <2>4
<1>7. ASSUME NEW w \in Workers, Poll(w)
      PROVE  (LeaseHeld /\ OpenRows /\ RowsAgree /\ LastAttemptShown)'
  <2>1. LeaseHeld'
    BY <1>7 DEF Poll, Goto, database, TypeOK, Goroutines, LeaseHeld, Busy
  <2>2. OpenRows'
    BY <1>7 DEF Poll, database, process, TypeOK, OpenRows
  <2>3. RowsAgree'
    BY <1>7 DEF Poll, database, TypeOK, RowsAgree
  <2>4. LastAttemptShown'
    BY <1>7 DEF Poll, database, TypeOK, LastAttemptShown
  <2> QED
    BY <2>1, <2>2, <2>3, <2>4
<1>8. ASSUME NEW w \in Workers, Begin(w)
      PROVE  (LeaseHeld /\ OpenRows /\ RowsAgree /\ LastAttemptShown)'
  <2>1. LeaseHeld'
    BY <1>8 DEF Begin, ShowEvaluating, Goto, TypeOK, Goroutines, LeaseHeld, Busy
  <2>2. OpenRows'
    BY <1>8 DEF Begin, ShowEvaluating, process, TypeOK, OpenRows
  <2>3. RowsAgree'
    BY <1>8 DEF Begin, ShowEvaluating, TypeOK, RowsAgree, Goroutines, LeaseHeld,
         Busy, Outcomes, Pending
  <2>4. LastAttemptShown'
    BY <1>8 DEF Begin, ShowEvaluating, TypeOK, LastAttemptShown, Outcomes
  <2> QED
    BY <2>1, <2>2, <2>3, <2>4
<1>9. ASSUME NEW w \in Workers, BeginFails(w)
      PROVE  (LeaseHeld /\ OpenRows /\ RowsAgree /\ LastAttemptShown)'
  <2>1. LeaseHeld'
    BY <1>9 DEF BeginFails, ShowEvaluating, Goto, database, TypeOK, Goroutines,
         LeaseHeld, Busy
  <2>2. OpenRows'
    BY <1>9 DEF BeginFails, ShowEvaluating, database, process, TypeOK, OpenRows
  <2>3. RowsAgree'
    BY <1>9 DEF BeginFails, ShowEvaluating, database, TypeOK, RowsAgree,
         Goroutines, LeaseHeld, Busy, Outcomes, Pending
  <2>4. LastAttemptShown'
    BY <1>9 DEF BeginFails, ShowEvaluating, database, TypeOK, LastAttemptShown,
         Outcomes
  <2> QED
    BY <2>1, <2>2, <2>3, <2>4
<1>10. ASSUME NEW w \in Workers, NEW o \in Outcomes, EvaluateSucceeds(w, o)
      PROVE  (LeaseHeld /\ OpenRows /\ RowsAgree /\ LastAttemptShown)'
  <2>1. LeaseHeld'
    BY <1>10 DEF EvaluateSucceeds, database, TypeOK, Goroutines, LeaseHeld, Busy
  <2>2. OpenRows'
    BY <1>10 DEF EvaluateSucceeds, database, process, TypeOK, OpenRows
  <2>3. RowsAgree'
    BY <1>10 DEF EvaluateSucceeds, database, TypeOK, RowsAgree
  <2>4. LastAttemptShown'
    BY <1>10 DEF EvaluateSucceeds, database, TypeOK, LastAttemptShown
  <2> QED
    BY <2>1, <2>2, <2>3, <2>4
<1>11. ASSUME NEW w \in Workers, EvaluateFails(w)
      PROVE  (LeaseHeld /\ OpenRows /\ RowsAgree /\ LastAttemptShown)'
  <2>1. LeaseHeld'
    BY <1>11 DEF EvaluateFails, Goto, database, TypeOK, Goroutines, LeaseHeld,
         Busy
  <2>2. OpenRows'
    BY <1>11 DEF EvaluateFails, database, process, TypeOK, OpenRows
  <2>3. RowsAgree'
    BY <1>11 DEF EvaluateFails, database, TypeOK, RowsAgree
  <2>4. LastAttemptShown'
    BY <1>11 DEF EvaluateFails, database, TypeOK, LastAttemptShown
  <2> QED
    BY <2>1, <2>2, <2>3, <2>4
<1>12. ASSUME NEW w \in Workers, Complete(w)
      PROVE  (LeaseHeld /\ OpenRows /\ RowsAgree /\ LastAttemptShown)'
  <2>1. LeaseHeld'
    BY <1>12 DEF Complete, SaveOutcome, Release, TypeOK, Goroutines, LeaseHeld,
         Busy
  <2>2. OpenRows'
    BY <1>12 DEF Complete, SaveOutcome, process, TypeOK, OpenRows, Goroutines,
         LeaseHeld, Busy, LastAttemptShown, RowsAgree, ScannedExhausted
  <2>3. RowsAgree'
    BY <1>12 DEF Complete, SaveOutcome, TypeOK, RowsAgree, Goroutines,
         LeaseHeld, Busy, Outcomes, Pending
  <2>4. LastAttemptShown'
    BY <1>12 DEF Complete, SaveOutcome, TypeOK, LastAttemptShown, Goroutines,
         LeaseHeld, Busy, Outcomes
  <2> QED
    BY <2>1, <2>2, <2>3, <2>4
<1>13. ASSUME NEW w \in Workers, CompleteFails(w)
      PROVE  (LeaseHeld /\ OpenRows /\ RowsAgree /\ LastAttemptShown)'
  <2>1. LeaseHeld'
    BY <1>13 DEF CompleteFails, SaveOutcome, database, TypeOK, Goroutines,
         LeaseHeld, Busy
  <2>2. OpenRows'
    BY <1>13 DEF CompleteFails, SaveOutcome, database, process, TypeOK,
         OpenRows, Goroutines, LeaseHeld, Busy, LastAttemptShown, RowsAgree,
         ScannedExhausted
  <2>3. RowsAgree'
    BY <1>13 DEF CompleteFails, SaveOutcome, database, TypeOK, RowsAgree,
         Goroutines, LeaseHeld, Busy, Outcomes, Pending
  <2>4. LastAttemptShown'
    BY <1>13 DEF CompleteFails, SaveOutcome, database, TypeOK, LastAttemptShown,
         Goroutines, LeaseHeld, Busy, Outcomes
  <2> QED
    BY <2>1, <2>2, <2>3, <2>4
<1>14. ASSUME NEW w \in Workers, Fail(w)
      PROVE  (LeaseHeld /\ OpenRows /\ RowsAgree /\ LastAttemptShown)'
  <2>1. LeaseHeld'
    BY <1>14 DEF Fail, SaveFailure, Retries, Release, TypeOK, Goroutines,
         LeaseHeld, Busy
  <2>2. OpenRows'
    BY <1>14 DEF Fail, SaveFailure, Retries, process, TypeOK, OpenRows,
         Goroutines, LeaseHeld, Busy
  <2>3. RowsAgree'
    BY <1>14 DEF Fail, SaveFailure, Retries, TypeOK, RowsAgree, Goroutines,
         LeaseHeld, Busy, Outcomes, Pending
  <2>4. LastAttemptShown'
    BY <1>14 DEF Fail, SaveFailure, Retries, TypeOK, LastAttemptShown,
         Goroutines, LeaseHeld, Busy, Outcomes, OpenRows
  <2> QED
    BY <2>1, <2>2, <2>3, <2>4
<1>15. ASSUME NEW w \in Workers, FailFails(w)
      PROVE  (LeaseHeld /\ OpenRows /\ RowsAgree /\ LastAttemptShown)'
  <2>1. LeaseHeld'
    BY <1>15 DEF FailFails, Release, database, TypeOK, Goroutines, LeaseHeld,
         Busy
  <2>2. OpenRows'
    BY <1>15 DEF FailFails, database, process, TypeOK, OpenRows
  <2>3. RowsAgree'
    BY <1>15 DEF FailFails, database, TypeOK, RowsAgree
  <2>4. LastAttemptShown'
    BY <1>15 DEF FailFails, database, TypeOK, LastAttemptShown
  <2> QED
    BY <2>1, <2>2, <2>3, <2>4
<1>16. ASSUME NEW sv \in Servers, Start(sv)
      PROVE  (LeaseHeld /\ OpenRows /\ RowsAgree /\ LastAttemptShown)'
  <2>1. LeaseHeld'
    BY <1>16 DEF Start, database, goroutine, TypeOK, Goroutines, LeaseHeld, Busy
  <2>2. OpenRows'
    BY <1>16 DEF Start, database, TypeOK, OpenRows
  <2>3. RowsAgree'
    BY <1>16 DEF Start, database, TypeOK, RowsAgree
  <2>4. LastAttemptShown'
    BY <1>16 DEF Start, database, TypeOK, LastAttemptShown
  <2> QED
    BY <2>1, <2>2, <2>3, <2>4
<1>17. ASSUME NEW sv \in Servers, ReaperTick(sv)
      PROVE  (LeaseHeld /\ OpenRows /\ RowsAgree /\ LastAttemptShown)'
  <2>1. LeaseHeld'
    BY <1>17 DEF ReaperTick, database, goroutine, TypeOK, Goroutines, LeaseHeld,
         Busy
  <2>2. OpenRows'
    BY <1>17 DEF ReaperTick, database, TypeOK, OpenRows
  <2>3. RowsAgree'
    BY <1>17 DEF ReaperTick, database, TypeOK, RowsAgree
  <2>4. LastAttemptShown'
    BY <1>17 DEF ReaperTick, database, TypeOK, LastAttemptShown
  <2> QED
    BY <2>1, <2>2, <2>3, <2>4
<1>18. ASSUME NEW sv \in Servers, Backfill(sv)
      PROVE  (LeaseHeld /\ OpenRows /\ RowsAgree /\ LastAttemptShown)'
  <2>1. LeaseHeld'
    BY <1>18 DEF Backfill, Backfilled, Jobless, goroutine, TypeOK, Goroutines,
         LeaseHeld, Busy
  <2>2. OpenRows'
    BY <1>18 DEF Backfill, Backfilled, Jobless, TypeOK, OpenRows
  <2>3. RowsAgree'
    BY <1>18 DEF Backfill, Backfilled, Jobless, TypeOK, RowsAgree, Outcomes,
         Pending
  <2>4. LastAttemptShown'
    BY <1>18 DEF Backfill, Backfilled, Jobless, TypeOK, LastAttemptShown,
         Outcomes
  <2> QED
    BY <2>1, <2>2, <2>3, <2>4
<1>19. ASSUME NEW sv \in Servers, Requeue(sv)
      PROVE  (LeaseHeld /\ OpenRows /\ RowsAgree /\ LastAttemptShown)'
  <2>1. LeaseHeld'
    BY <1>19 DEF Requeue, Stale, goroutine, TypeOK, Goroutines, LeaseHeld, Busy,
         Lease
  <2>2. OpenRows'
    BY <1>19 DEF Requeue, Stale, TypeOK, OpenRows
  <2>3. RowsAgree'
    BY <1>19 DEF Requeue, Stale, TypeOK, RowsAgree
  <2>4. LastAttemptShown'
    BY <1>19 DEF Requeue, Stale, TypeOK, LastAttemptShown
  <2> QED
    BY <2>1, <2>2, <2>3, <2>4
<1>20. ASSUME NEW sv \in Servers, ScanExhausted(sv)
      PROVE  (LeaseHeld /\ OpenRows /\ RowsAgree /\ LastAttemptShown)'
  <2>1. LeaseHeld'
    BY <1>20 DEF ScanExhausted, database, goroutine, TypeOK, Goroutines,
         LeaseHeld, Busy
  <2>2. OpenRows'
    BY <1>20 DEF ScanExhausted, Exhausted, database, TypeOK, OpenRows
  <2>3. RowsAgree'
    BY <1>20 DEF ScanExhausted, database, TypeOK, RowsAgree
  <2>4. LastAttemptShown'
    BY <1>20 DEF ScanExhausted, database, TypeOK, LastAttemptShown
  <2> QED
    BY <2>1, <2>2, <2>3, <2>4
<1>21. ASSUME NEW sv \in Servers, MarkExhausted(sv)
      PROVE  (LeaseHeld /\ OpenRows /\ RowsAgree /\ LastAttemptShown)'
  <2>1. LeaseHeld'
    BY <1>21 DEF MarkExhausted, MarkFailed, Serve, TypeOK, Goroutines,
         LeaseHeld, Busy, OpenRows
  <2>2. OpenRows'
    BY <1>21 DEF MarkExhausted, MarkFailed, TypeOK, OpenRows
  <2>3. RowsAgree'
    BY <1>21 DEF MarkExhausted, MarkFailed, TypeOK, RowsAgree, OpenRows,
         Outcomes
  <2>4. LastAttemptShown'
    BY <1>21 DEF MarkExhausted, MarkFailed, TypeOK, LastAttemptShown, OpenRows,
         RowsAgree, Outcomes
  <2> QED
    BY <2>1, <2>2, <2>3, <2>4
<1>22. ASSUME NEW sv \in Servers, SweepFails(sv)
      PROVE  (LeaseHeld /\ OpenRows /\ RowsAgree /\ LastAttemptShown)'
  <2>1. LeaseHeld'
    BY <1>22 DEF SweepFails, database, goroutine, TypeOK, Goroutines, LeaseHeld,
         Busy
  <2>2. OpenRows'
    BY <1>22 DEF SweepFails, database, TypeOK, OpenRows
  <2>3. RowsAgree'
    BY <1>22 DEF SweepFails, database, TypeOK, RowsAgree
  <2>4. LastAttemptShown'
    BY <1>22 DEF SweepFails, database, TypeOK, LastAttemptShown
  <2> QED
    BY <2>1, <2>2, <2>3, <2>4
<1>23. ASSUME NEW sv \in Servers, Crash(sv)
      PROVE  (LeaseHeld /\ OpenRows /\ RowsAgree /\ LastAttemptShown)'
  <2>1. LeaseHeld'
    BY <1>23 DEF Crash, database, TypeOK, Goroutines, LeaseHeld, Busy
  <2>2. OpenRows'
    BY <1>23 DEF Crash, database, TypeOK, OpenRows
  <2>3. RowsAgree'
    BY <1>23 DEF Crash, database, TypeOK, RowsAgree
  <2>4. LastAttemptShown'
    BY <1>23 DEF Crash, database, TypeOK, LastAttemptShown
  <2> QED
    BY <2>1, <2>2, <2>3, <2>4
<1>24. ASSUME Tick
      PROVE  (LeaseHeld /\ OpenRows /\ RowsAgree /\ LastAttemptShown)'
  <2>1. LeaseHeld'
    BY <1>24 DEF Tick, Older, MaxAge, TypeOK, Goroutines, LeaseHeld, Busy
  <2>2. OpenRows'
    BY <1>24 DEF Tick, process, TypeOK, OpenRows
  <2>3. RowsAgree'
    BY <1>24 DEF Tick, TypeOK, RowsAgree
  <2>4. LastAttemptShown'
    BY <1>24 DEF Tick, TypeOK, LastAttemptShown
  <2> QED
    BY <2>1, <2>2, <2>3, <2>4
<1>25. CASE UNCHANGED vars
  BY <1>25 DEF vars, database, process, goroutine, LeaseHeld,
         OpenRows, RowsAgree, LastAttemptShown
<1> QED
  BY <1>1, <1>2, <1>3, <1>4, <1>5, <1>6, <1>7, <1>8, <1>9, <1>10, <1>11, <1>12,
     <1>13, <1>14, <1>15, <1>16, <1>17, <1>18, <1>19, <1>20, <1>21, <1>22,
     <1>23, <1>24, <1>25 DEF Next, WorkerStep, WorkerFault, ServerStep,
     SweepStep

\* Timely workers whose completions are answered keep TimelyInv.
THEOREM TimelySafe ==
  ASSUME Timely, ~LostCompletions
  PROVE  Spec => []TimelyInv
<1>1. TimelyInv /\ [Next]_vars => TimelyInv'
  BY TimelyStep
<1> QED
  BY TimelyInit, <1>1, PTL DEF Spec

\* Two goroutines never process one job: claims, requeues, crashes, restarts
\* and the number of servers and workers notwithstanding.
THEOREM OneOwner ==
  ASSUME Timely, ~LostCompletions
  PROVE  Spec => []SoleOwner
<1>1. TimelyInv => SoleOwner
  BY DEF TimelyInv, LeaseHeld, SoleOwner, Processes
<1> QED
  BY TimelySafe, <1>1, PTL

\* The submission row and the job row never contradict each other.
THEOREM RowsStayTogether ==
  ASSUME Timely, ~LostCompletions
  PROVE  Spec => []RowsAgree
<1>1. TimelyInv => RowsAgree
  BY DEF TimelyInv
<1> QED
  BY TimelySafe, <1>1, PTL

\* The evaluation on display is that of the last attempt claimed.
THEOREM NoOlderAttemptShown ==
  ASSUME Timely, ~LostCompletions
  PROVE  Spec => []LastAttemptShown
<1>1. TimelyInv => LastAttemptShown
  BY DEF TimelyInv
<1> QED
  BY TimelySafe, <1>1, PTL

-----------------------------------------------------------------------------
\* The lifecycle's actions in the terms of the mapping: which row changes let
\* a step of the queue be an accepted, tried, graded or given up submission.
LEMMA AcceptStep ==
  ASSUME NEW s \in Submissions, sub[s] = "absent",
         sub' = [sub EXCEPT ![s] = "queued"], UNCHANGED attempts, TypeOK
  PROVE  Lifecycle!Accept(s)
  BY DEF Lifecycle!Accept, Phase, TypeOK, Pending

LEMMA TryStep ==
  ASSUME NEW s \in Submissions, sub[s] \in Pending, attempts[s] < MaxAttempts,
         attempts' = [attempts EXCEPT ![s] = @ + 1], UNCHANGED sub
  PROVE  Lifecycle!Try(s)
  BY DEF Lifecycle!Try, Phase

LEMMA GradeStep ==
  ASSUME NEW s \in Submissions, NEW o \in Outcomes, sub[s] \in Pending, attempts[s] # 0,
         sub' = [sub EXCEPT ![s] = o], UNCHANGED attempts, TypeOK
  PROVE  Lifecycle!Grade(s, o)
<1>1. attempts[s] > 0
  BY DEF TypeOK
<1> QED
  BY <1>1 DEF Lifecycle!Grade, Phase, TypeOK, Pending, Outcomes

LEMMA GiveUpStep ==
  ASSUME NEW S \in SUBSET Submissions,
         \A s \in S : sub[s] \in Pending \cup {"failed"} /\ attempts[s] = MaxAttempts,
         sub' = [s \in Submissions |-> IF s \in S THEN "failed" ELSE sub[s]],
         UNCHANGED attempts, TypeOK
  PROVE  \E T \in SUBSET Submissions : Lifecycle!GiveUp(T)
<1> DEFINE T == {s \in S : sub[s] \in Pending}
<1>1. Lifecycle!GiveUp(T)
  BY DEF Lifecycle!GiveUp, Phase, TypeOK, Pending
<1> QED
  BY <1>1

\* The same for one submission, which is what a worker gives up.
LEMMA GiveUpOne ==
  ASSUME NEW s \in Submissions, sub[s] \in Pending, attempts[s] = MaxAttempts,
         sub' = [sub EXCEPT ![s] = "failed"], UNCHANGED attempts, TypeOK
  PROVE  \E T \in SUBSET Submissions : Lifecycle!GiveUp(T)
<1> DEFINE T == {s}
<1>1. \A t \in T : sub[t] \in Pending \cup {"failed"} /\ attempts[t] = MaxAttempts
  OBVIOUS
<1>2. sub' = [t \in Submissions |-> IF t \in T THEN "failed" ELSE sub[t]]
  BY DEF TypeOK
<1>3. T \in SUBSET Submissions
  OBVIOUS
<1> QED
  BY <1>1, <1>2, <1>3, GiveUpStep

\* A pending submission that stays pending leaves the lifecycle where it is.
LEMMA StillPending ==
  ASSUME NEW s \in Submissions, sub[s] \in Pending, NEW p \in Pending,
         sub' = [sub EXCEPT ![s] = p], TypeOK
  PROVE  UNCHANGED Phase
  BY DEF Phase, TypeOK, Pending

LEMMA LifecycleStep ==
  ASSUME Timely, ~LostCompletions, TimelyInv, [Next]_vars
  PROVE  [Lifecycle!Next]_<<Phase, attempts>>
<1> USE DEF TimelyInv, AnyTimeInv
<1>0. ASSUME NEW w \in Workers, wpc[w] \in Busy
      PROVE  /\ held[w] \in Submissions
             /\ sub[held[w]] \in Pending
             /\ attempts[held[w]] = attempt[w] /\ attempt[w] # 0
  BY <1>0 DEF Goroutines, LeaseHeld, RowsAgree
<1>1. ASSUME NEW sv \in Servers, NEW s \in Submissions, CreateRows(sv, s)
      PROVE  Lifecycle!Next
  <2>1. Lifecycle!Accept(s)
    BY <1>1, AcceptStep DEF CreateRows
  <2> QED
    BY <2>1 DEF Lifecycle!Next
<1>2. ASSUME NEW w \in Workers, NEW s \in Submissions, Claimable(s), TakeJob(w, s)
      PROVE  Lifecycle!Next
  <2>1. Lifecycle!Try(s)
    BY <1>2, TryStep DEF Claimable, TakeJob, RowsAgree
  <2> QED
    BY <2>1 DEF Lifecycle!Next
<1>3. ASSUME NEW w \in Workers, wpc[w] \in Busy, ShowEvaluating(held[w])
      PROVE  UNCHANGED <<Phase, attempts>>
  BY <1>0, <1>3, StillPending DEF ShowEvaluating, Pending
<1>4. ASSUME NEW w \in Workers, wpc[w] = "completing", SaveOutcome(w)
      PROVE  Lifecycle!Next
  <2>1. outcome[w] \in Outcomes
    BY <1>4 DEF Goroutines
  <2>2. Lifecycle!Grade(held[w], outcome[w])
    BY <1>0, <1>4, <2>1, GradeStep DEF SaveOutcome, Busy
  <2> QED
    BY <1>0, <1>4, <2>1, <2>2 DEF Lifecycle!Next, Lifecycle!Graded, Outcomes, Busy
<1>5. ASSUME NEW w \in Workers, wpc[w] = "failing", SaveFailure(w)
      PROVE  [Lifecycle!Next]_<<Phase, attempts>>
  <2>1. CASE Retries(w)
    BY <1>0, <1>5, <2>1, StillPending DEF SaveFailure, Busy, Pending
  <2>2. CASE ~Retries(w)
    <3>1. /\ held[w] \in Submissions /\ sub[held[w]] \in Pending
          /\ attempts[held[w]] = attempt[w]
      BY <1>0, <1>5 DEF Busy
    <3>2. attempt[w] \in 0..MaxAttempts /\ ~(attempt[w] < MaxAttempts)
      BY <2>2 DEF Retries, TypeOK
    <3>3. attempts[held[w]] = MaxAttempts
      BY <3>1, <3>2, QueueAssumption
    <3>4. sub' = [sub EXCEPT ![held[w]] = "failed"] /\ UNCHANGED attempts
      BY <1>5, <2>2 DEF SaveFailure
    <3> QED
      BY <3>1, <3>3, <3>4, GiveUpOne DEF Lifecycle!Next
  <2> QED
    BY <2>1, <2>2
<1>6. ASSUME NEW sv \in Servers, Backfill(sv)
      PROVE  UNCHANGED <<Phase, attempts>>
  BY <1>6 DEF Backfill, Backfilled, Jobless, Phase, TypeOK, Pending
<1>7. ASSUME NEW sv \in Servers, MarkExhausted(sv)
      PROVE  Lifecycle!Next
  <2>1. \A s \in exhausted[sv] : sub[s] \in Pending \cup {"failed"} /\ attempts[s] = MaxAttempts
    BY <1>7 DEF OpenRows, RowsAgree, ScannedExhausted, TypeOK
  <2>2. exhausted[sv] \in SUBSET Submissions
    BY DEF TypeOK
  <2>3. \E T \in SUBSET Submissions : Lifecycle!GiveUp(T)
    BY <1>7, <2>1, <2>2, GiveUpStep DEF MarkExhausted, MarkFailed
  <2> QED
    BY <2>3 DEF Lifecycle!Next
<1>8. ASSUME UNCHANGED <<sub, attempts>>
      PROVE  UNCHANGED <<Phase, attempts>>
  BY <1>8 DEF Phase
<1>9. ASSUME NEW sv \in Servers, NEW s \in Submissions,
             Submit(sv, s) \/ SubmitUnanswered(sv, s)
      PROVE  [Lifecycle!Next]_<<Phase, attempts>>
  BY <1>1, <1>9 DEF Submit, SubmitUnanswered
<1>10. ASSUME NEW w \in Workers, WorkerStep(w)
       PROVE  [Lifecycle!Next]_<<Phase, attempts>>
  <2>1. CASE \E s \in Submissions : Claim(w, s)
    BY <1>2, <2>1 DEF Claim
  <2>2. CASE Begin(w)
    BY <1>3, <2>2 DEF Begin, Busy
  <2>3. CASE Complete(w)
    BY <1>4, <2>3 DEF Complete
  <2>4. CASE Fail(w)
    BY <1>5, <2>4 DEF Fail
  <2>5. CASE \/ ClaimNothing(w) \/ Wake(w) \/ Poll(w) \/ EvaluateFails(w)
             \/ \E o \in Outcomes : EvaluateSucceeds(w, o)
    BY <1>8, <2>5 DEF ClaimNothing, Wake, Poll, EvaluateFails, EvaluateSucceeds, database
  <2> QED
    BY <1>10, <2>1, <2>2, <2>3, <2>4, <2>5 DEF WorkerStep
<1>11. ASSUME NEW w \in Workers, WorkerFault(w)
       PROVE  [Lifecycle!Next]_<<Phase, attempts>>
  <2>1. CASE UNCHANGED database
    BY <1>8, <2>1 DEF database
  <2>2. CASE ClaimFails(w)
    BY <1>2, <2>1, <2>2 DEF ClaimFails
  <2>3. CASE BeginFails(w)
    BY <1>3, <2>1, <2>3 DEF BeginFails, Busy
  <2>4. CASE CompleteFails(w)
    BY <2>1, <2>4 DEF CompleteFails
  <2>5. CASE FailFails(w)
    BY <2>1, <2>5 DEF FailFails
  <2> QED
    BY <1>11, <2>2, <2>3, <2>4, <2>5 DEF WorkerFault
<1>12. ASSUME NEW sv \in Servers, ServerStep(sv) \/ SweepFails(sv) \/ Crash(sv)
       PROVE  [Lifecycle!Next]_<<Phase, attempts>>
  <2>1. CASE Backfill(sv)
    BY <1>6, <2>1
  <2>2. CASE MarkExhausted(sv)
    BY <1>7, <2>2
  <2>3. CASE Requeue(sv)
    BY <1>8, <2>3 DEF Requeue
  <2>4. CASE \/ Start(sv) \/ ReaperTick(sv) \/ ScanExhausted(sv) \/ SweepFails(sv)
             \/ Crash(sv)
    BY <1>8, <2>4 DEF Start, ReaperTick, ScanExhausted, SweepFails, Crash, database
  <2> QED
    BY <1>12, <2>1, <2>2, <2>3, <2>4 DEF ServerStep, SweepStep
<1>13. CASE Tick
  BY <1>8, <1>13 DEF Tick
<1>14. CASE UNCHANGED vars
  BY <1>8, <1>14 DEF vars, database
<1> QED
  BY <1>9, <1>10, <1>11, <1>12, <1>13, <1>14 DEF Next

\* The queue implements SubmissionLifecycle: two rows written by many hands are
\* one submission, accepted, tried at most MaxAttempts times and settled once.
THEOREM Implementation ==
  ASSUME Timely, ~LostCompletions
  PROVE  Spec => ImplementsLifecycle
<1>1. Init => Lifecycle!Init
  BY DEF Init, Lifecycle!Init, Phase, Pending
<1>2. TimelyInv /\ [Next]_vars => [Lifecycle!Next]_<<Phase, attempts>>
  BY LifecycleStep
<1> QED
  BY <1>1, <1>2, TimelySafe, PTL DEF Spec, ImplementsLifecycle, Lifecycle!Spec

-----------------------------------------------------------------------------
(* Until a first fault no job waits for the poll timer *)

\* Faults are counted: without one so far the last step was none either.
LEMMA NoFault ==
  ASSUME TypeOK, [Next]_vars, faults' = 0
  PROVE  faults = 0 /\ ~Fault
<1>1. faults \in Nat
  BY QueueAssumption DEF TypeOK
<1>2. ~Fault
  BY <1>1 DEF Fault
<1>3. CASE UNCHANGED vars
  BY <1>2, <1>3 DEF vars
<1>4. CASE Next
  BY <1>2, <1>4
     DEF Next, WorkerStep, WorkerFault, ServerStep, SweepStep, Submit, SubmitUnanswered, Claim,
         ClaimNothing, ClaimFails, Wake, Poll, Begin, BeginFails, EvaluateSucceeds,
         EvaluateFails, Complete, CompleteFails, Fail, FailFails, Start, Backfill, ReaperTick,
         Requeue, ScanExhausted, MarkExhausted, SweepFails, Crash, Tick
<1> QED
  BY <1>2, <1>3, <1>4

\* Every process has a worker.
LEMMA WorkerExists ==
  ASSUME NEW sv \in Servers
  PROVE  <<sv, 1>> \in Workers /\ <<sv, 1>>[1] = sv
  BY DEF Workers

LEMMA FaultlessInit == Init => FaultlessInv
<1> SUFFICES ASSUME Init PROVE FaultlessInv
  OBVIOUS
<1>1. NothingOrphaned
  BY WorkerServer DEF Init, NothingOrphaned
<1>2. WorkNeverSleeps
  BY DEF Init, WorkNeverSleeps, Claimable
<1> QED
  BY <1>1, <1>2, AnyTimeInit DEF FaultlessInv

\* A step of the code keeps FaultlessInv when it is not a fault: whoever makes a
\* row claimable signals, goes on to look himself or is starting up.
LEMMA FaultlessStep ==
  ASSUME FaultlessInv, [Next]_vars
  PROVE  FaultlessInv'
<1>a. AnyTimeInv' /\ TypeOK /\ Goroutines
  BY AnyTimeStep DEF FaultlessInv, AnyTimeInv
<1> SUFFICES ASSUME faults' = 0 PROVE NothingOrphaned' /\ WorkNeverSleeps'
  BY <1>a DEF FaultlessInv, WorkNeverSleeps
<1>0. TypeOK /\ Goroutines /\ faults = 0 /\ ~Fault /\ NothingOrphaned /\ WorkNeverSleeps
  BY <1>a, NoFault DEF FaultlessInv
<1>1. ASSUME NEW sv \in Servers, NEW s \in Submissions, Submit(sv, s)
       PROVE  NothingOrphaned' /\ WorkNeverSleeps'
  <2>1. NothingOrphaned'
    BY <1>0, <1>1 DEF Submit, CreateRows, goroutine, TypeOK, Goroutines, NothingOrphaned, Processes, Busy
  <2>2. WorkNeverSleeps'
    <3> DEFINE w == <<sv, 1>>
    <3>1. w \in Workers /\ w[1] = sv
      BY WorkerExists
    <3> HIDE DEF w
    <3>2. server[sv] = "up" /\ wake'[sv] > 0 /\ wpc' = wpc
      BY <1>0, <1>1 DEF Submit, CreateRows, Signal, goroutine, TypeOK
    <3>3. wpc[w] \in {"claiming", "waiting"} \cup Busy
      BY <1>0, <3>1, <3>2 DEF NothingOrphaned, TypeOK
    <3> QED
      BY <3>1, <3>2, <3>3 DEF WorkNeverSleeps
  <2> QED
    BY <2>1, <2>2
<1>2. ASSUME NEW w \in Workers, NEW s \in Submissions, Claim(w, s)
       PROVE  NothingOrphaned' /\ WorkNeverSleeps'
  <2>1. NothingOrphaned'
    BY <1>0, <1>2 DEF Claim, TakeJob, process, TypeOK, Goroutines, NothingOrphaned, Processes, Busy
  <2>2. WorkNeverSleeps'
    BY <1>0, <1>2 DEF Claim, TypeOK, WorkNeverSleeps, Busy
  <2> QED
    BY <2>1, <2>2
<1>3. ASSUME NEW w \in Workers, ClaimNothing(w)
       PROVE  NothingOrphaned' /\ WorkNeverSleeps'
  <2>1. NothingOrphaned'
    BY <1>0, <1>3 DEF ClaimNothing, Goto, database, process, TypeOK, Goroutines, NothingOrphaned, Processes, Busy
  <2>2. WorkNeverSleeps'
    BY <1>0, <1>3 DEF ClaimNothing, database, WorkNeverSleeps, Claimable
  <2> QED
    BY <2>1, <2>2
<1>4. ASSUME NEW w \in Workers, Wake(w)
       PROVE  NothingOrphaned' /\ WorkNeverSleeps'
  <2>1. NothingOrphaned'
    BY <1>0, <1>4 DEF Wake, Goto, database, TypeOK, Goroutines, NothingOrphaned, Processes, Busy
  <2>2. WorkNeverSleeps'
    BY <1>0, <1>4 DEF Wake, Goto, TypeOK, WorkNeverSleeps
  <2> QED
    BY <2>1, <2>2
<1>5. ASSUME NEW w \in Workers, Poll(w)
       PROVE  NothingOrphaned' /\ WorkNeverSleeps'
  <2>1. NothingOrphaned'
    BY <1>0, <1>5 DEF Poll, Goto, database, process, TypeOK, Goroutines, NothingOrphaned, Processes, Busy
  <2>2. WorkNeverSleeps'
    BY <1>0, <1>5 DEF Poll, Goto, TypeOK, WorkNeverSleeps
  <2> QED
    BY <2>1, <2>2
<1>6. ASSUME NEW w \in Workers, Begin(w)
       PROVE  NothingOrphaned' /\ WorkNeverSleeps'
  <2>1. NothingOrphaned'
    BY <1>0, <1>6 DEF Begin, ShowEvaluating, Goto, process, TypeOK, Goroutines, NothingOrphaned, Processes, Busy
  <2>2. WorkNeverSleeps'
    BY <1>0, <1>6 DEF Begin, Goto, TypeOK, WorkNeverSleeps, Busy
  <2> QED
    BY <2>1, <2>2
<1>7. ASSUME NEW w \in Workers, NEW o \in Outcomes, EvaluateSucceeds(w, o)
       PROVE  NothingOrphaned' /\ WorkNeverSleeps'
  <2>1. NothingOrphaned'
    BY <1>0, <1>7 DEF EvaluateSucceeds, database, process, TypeOK, Goroutines, NothingOrphaned, Processes, Busy
  <2>2. WorkNeverSleeps'
    BY <1>0, <1>7 DEF EvaluateSucceeds, TypeOK, WorkNeverSleeps, Busy
  <2> QED
    BY <2>1, <2>2
<1>8. ASSUME NEW w \in Workers, EvaluateFails(w)
       PROVE  NothingOrphaned' /\ WorkNeverSleeps'
  <2>1. NothingOrphaned'
    BY <1>0, <1>8 DEF EvaluateFails, Goto, database, process, TypeOK, Goroutines, NothingOrphaned, Processes, Busy
  <2>2. WorkNeverSleeps'
    BY <1>0, <1>8 DEF EvaluateFails, Goto, TypeOK, WorkNeverSleeps, Busy
  <2> QED
    BY <2>1, <2>2
<1>9. ASSUME NEW w \in Workers, Complete(w)
       PROVE  NothingOrphaned' /\ WorkNeverSleeps'
  <2>1. NothingOrphaned'
    BY <1>0, <1>9 DEF Complete, SaveOutcome, Release, process, TypeOK, Goroutines, NothingOrphaned, Processes, Busy
  <2>2. WorkNeverSleeps'
    BY <1>0, <1>9 DEF Complete, Release, TypeOK, WorkNeverSleeps
  <2> QED
    BY <2>1, <2>2
<1>10. ASSUME NEW w \in Workers, Fail(w)
       PROVE  NothingOrphaned' /\ WorkNeverSleeps'
  <2>1. NothingOrphaned'
    BY <1>0, <1>10 DEF Fail, SaveFailure, Release, process, TypeOK, Goroutines, NothingOrphaned, Processes, Busy
  <2>2. WorkNeverSleeps'
    BY <1>0, <1>10 DEF Fail, Release, TypeOK, WorkNeverSleeps
  <2> QED
    BY <2>1, <2>2
<1>11. ASSUME NEW sv \in Servers, Start(sv)
       PROVE  NothingOrphaned' /\ WorkNeverSleeps'
  <2>1. NothingOrphaned'
    BY <1>0, <1>11, WorkerServer DEF Start, database, goroutine, TypeOK, Goroutines, NothingOrphaned, Processes, Busy
  <2>2. WorkNeverSleeps'
    BY <1>0, <1>11 DEF Start, TypeOK, WorkNeverSleeps
  <2> QED
    BY <2>1, <2>2
<1>12. ASSUME NEW sv \in Servers, Backfill(sv)
       PROVE  NothingOrphaned' /\ WorkNeverSleeps'
  <2>1. NothingOrphaned'
    BY <1>0, <1>12 DEF Backfill, goroutine, TypeOK, Goroutines, NothingOrphaned, Processes, Busy
  <2>2. WorkNeverSleeps'
    BY <1>0, <1>12 DEF Backfill, NothingOrphaned, WorkNeverSleeps
  <2> QED
    BY <2>1, <2>2
<1>13. ASSUME NEW sv \in Servers, ReaperTick(sv)
       PROVE  NothingOrphaned' /\ WorkNeverSleeps'
  <2>1. NothingOrphaned'
    BY <1>0, <1>13 DEF ReaperTick, database, goroutine, TypeOK, Goroutines, NothingOrphaned, Processes, Busy
  <2>2. WorkNeverSleeps'
    BY <1>0, <1>13 DEF ReaperTick, database, goroutine, WorkNeverSleeps, Claimable
  <2> QED
    BY <2>1, <2>2
<1>14. ASSUME NEW sv \in Servers, Requeue(sv)
       PROVE  NothingOrphaned' /\ WorkNeverSleeps'
  <2>1. NothingOrphaned'
    BY <1>0, <1>14 DEF Requeue, goroutine, TypeOK, Goroutines, NothingOrphaned, Processes, Busy
  <2>2. WorkNeverSleeps'
    BY <1>0, <1>14 DEF Requeue, Stale, goroutine, TypeOK, Goroutines, WorkNeverSleeps, Claimable, Busy, NothingOrphaned, Processes
  <2> QED
    BY <2>1, <2>2
<1>15. ASSUME NEW sv \in Servers, ScanExhausted(sv)
       PROVE  NothingOrphaned' /\ WorkNeverSleeps'
  <2>1. NothingOrphaned'
    BY <1>0, <1>15 DEF ScanExhausted, database, goroutine, TypeOK, Goroutines, NothingOrphaned, Processes, Busy
  <2>2. WorkNeverSleeps'
    BY <1>0, <1>15 DEF ScanExhausted, database, goroutine, WorkNeverSleeps, Claimable
  <2> QED
    BY <2>1, <2>2
<1>16. ASSUME NEW sv \in Servers, MarkExhausted(sv)
       PROVE  NothingOrphaned' /\ WorkNeverSleeps'
  <2>1. NothingOrphaned'
    <3>1. /\ \A s \in Submissions : jobStatus'[s] = "running" => jobStatus[s] = "running"
          /\ held' = held
          /\ \A t \in Servers : sweep'[t] = "backfill" => sweep[t] = "backfill" /\ t # sv
      BY <1>0, <1>16 DEF MarkExhausted, MarkFailed, TypeOK
    <3>2. /\ \A v \in Workers : wpc[v] \in Busy => wpc'[v] = wpc[v]
          /\ \A v \in Workers : server'[v[1]] = "up" => wpc'[v] # "off"
          /\ \A t \in Servers \ {sv} : server'[t] = server[t]
      <4>1. CASE server[sv] = "starting"
        BY <1>0, <1>16, <4>1, WorkerServer
           DEF MarkExhausted, Serve, TypeOK, Goroutines, NothingOrphaned, Busy
      <4>2. CASE server[sv] # "starting"
        BY <1>0, <1>16, <4>2 DEF MarkExhausted, Serve, NothingOrphaned
      <4> QED
        BY <4>1, <4>2
    <3>3. \A s \in Submissions : jobStatus'[s] = "running" => \E v \in Workers : Processes(v, s)'
      <4> SUFFICES ASSUME NEW s \in Submissions, jobStatus'[s] = "running"
                   PROVE  \E v \in Workers : Processes(v, s)'
        OBVIOUS
      <4>1. PICK v \in Workers : Processes(v, s)
        BY <1>0, <3>1 DEF NothingOrphaned
      <4>2. Processes(v, s)'
        BY <3>1, <3>2, <4>1 DEF Processes
      <4> QED
        BY <4>2
    <3> QED
      BY <1>0, <3>1, <3>2, <3>3 DEF NothingOrphaned
  <2>2. WorkNeverSleeps'
    <3>1. (\A s \in Submissions : Claimable(s)' => Claimable(s)) /\ wake' = wake
      BY <1>0, <1>16 DEF MarkExhausted, MarkFailed, TypeOK, Claimable
    <3>2. CASE server[sv] = "starting"
      <4>1. \A v \in Workers : v[1] = sv => wpc'[v] = "claiming"
        BY <1>0, <1>16, <3>2 DEF MarkExhausted, Serve, TypeOK
      <4> QED
        BY <4>1, WorkerExists DEF WorkNeverSleeps
    <3>3. CASE server[sv] # "starting"
      BY <1>0, <1>16, <3>1, <3>3 DEF MarkExhausted, Serve, WorkNeverSleeps
    <3> QED
      BY <3>2, <3>3
  <2> QED
    BY <2>1, <2>2
<1>17. CASE Tick
  BY <1>0, <1>17 DEF Tick, process, NothingOrphaned, WorkNeverSleeps, Processes, Claimable
<1>18. CASE UNCHANGED vars
  BY <1>0, <1>18 DEF vars, database, process, goroutine, NothingOrphaned, WorkNeverSleeps,
     Processes, Claimable
<1> QED
  BY <1>0, <1>1, <1>2, <1>3, <1>4, <1>5, <1>6, <1>7, <1>8, <1>9, <1>10, <1>11, <1>12,
     <1>13, <1>14, <1>15, <1>16, <1>17, <1>18
     DEF Next, WorkerStep, WorkerFault, ServerStep, SweepStep, SubmitUnanswered,
         ClaimFails, BeginFails, CompleteFails, FailFails, SweepFails, Crash

\* Until a first process crashes or storage call fails, a job that can be
\* claimed never depends on the poll timer: a worker is on its way to look, or
\* waits with a token in its channel, or a process is starting.  It holds
\* however slow the goroutines are, so also when a stale lock is requeued
\* under a worker that is still busy.
THEOREM NoJobWaitsForThePoll == Spec => []WorkNeverSleeps
<1>1. FaultlessInv => WorkNeverSleeps
  BY DEF FaultlessInv
<1> QED
  BY <1>1, FaultlessInit, FaultlessStep, PTL DEF Spec
=============================================================================
