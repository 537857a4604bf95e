-------------------------- MODULE ReviewLog_proofs --------------------------
(***************************************************************************)
(* Theorems about ReviewLog for any number of servers, workers, tabs and   *)
(* reviews.  They rest on the queue's own invariant: a graded submission   *)
(* is settled for every action of the queue (Implementation), so only      *)
(* reviews change it from then on.                                         *)
(***************************************************************************)
EXTENDS ReviewLog, EvaluationQueue_proofs, SequenceTheorems

\* A step of the queue leaves graded submissions and their evaluations alone.
LEMMA GradedStays ==
  ASSUME Timely, ~LostCompletions, TimelyInv, [Next]_vars,
         NEW s \in Submissions, sub[s] \in Outcomes
  PROVE  sub'[s] = sub[s] /\ evaluation'[s] = evaluation[s]
<1>1. TimelyInv'
  BY TimelyStep
<1>2. [Lifecycle!Next]_<<Phase, attempts>>
  BY LifecycleStep
<1>3. Phase[s] = sub[s] /\ Phase[s] \in Outcomes
  BY DEF Phase, Pending, Outcomes
<1>4. Phase'[s] = Phase[s] /\ attempts'[s] = attempts[s]
  <2>1. CASE UNCHANGED <<Phase, attempts>>
    BY <2>1
  <2>2. ASSUME NEW u \in Submissions, Lifecycle!Accept(u) \/ Lifecycle!Try(u)
        PROVE  Phase'[s] = Phase[s] /\ attempts'[s] = attempts[s]
    BY <1>3, <2>2 DEF Lifecycle!Accept, Lifecycle!Try, Outcomes, Phase, TimelyInv,
       AnyTimeInv, TypeOK
  <2>3. ASSUME NEW u \in Submissions, NEW o \in Lifecycle!Graded, Lifecycle!Grade(u, o)
        PROVE  Phase'[s] = Phase[s] /\ attempts'[s] = attempts[s]
    BY <1>3, <2>3 DEF Lifecycle!Grade, Outcomes, Phase
  <2>4. ASSUME NEW S \in SUBSET Submissions, Lifecycle!GiveUp(S)
        PROVE  Phase'[s] = Phase[s] /\ attempts'[s] = attempts[s]
    BY <1>3, <2>4 DEF Lifecycle!GiveUp, Outcomes
  <2> QED
    BY <1>2, <2>1, <2>2, <2>3, <2>4 DEF Lifecycle!Next
<1>5. sub'[s] = sub[s]
  BY <1>3, <1>4 DEF Phase, Pending, Outcomes
<1> QED
  BY <1>1, <1>4, <1>5 DEF TimelyInv, LastAttemptShown

\* A review is only ever appended to a submission that shows a machine's or a
\* teacher's verdict, and the queue's invariant survives it.
LEMMA ReviewKeepsQueue ==
  ASSUME TimelyInv, NEW f, f.of \in Submissions, AppendReview(f), faults' \in 0..MaxFaults
  PROVE  sub[f.of] \in Outcomes /\ TimelyInv'
<1> USE DEF TimelyInv, AnyTimeInv
<1>1. sub[f.of] \in Outcomes
  BY DEF AppendReview, Assessable, Settled, LastAttemptShown
<1>2. TypeOK'
  BY DEF AppendReview, process, goroutine, TypeOK, Settled, Outcomes, MaxAge
<1>3. Goroutines' /\ ScannedExhausted' /\ LeaseHeld' /\ OpenRows'
  BY DEF AppendReview, process, goroutine, Goroutines, ScannedExhausted, LeaseHeld,
     OpenRows
<1>4. FailedOnlyExhausted' /\ GradeHasEvaluation' /\ RowsAgree' /\ LastAttemptShown'
  BY <1>1 DEF AppendReview, TypeOK, FailedOnlyExhausted, GradeHasEvaluation, RowsAgree,
     LastAttemptShown, Outcomes, Pending
<1> QED
  BY <1>1, <1>2, <1>3, <1>4

LEMMA ReviewInitial == ReviewInit => ReviewInv
<1> SUFFICES ASSUME ReviewInit PROVE ReviewInv
  OBVIOUS
<1>1. TimelyInv
  BY TimelyInit DEF ReviewInit
<1>2. ReviewTypeOK
  BY ReviewAssumption DEF ReviewInit, ReviewTypeOK
<1> QED
  BY <1>1, <1>2 DEF ReviewInit, ReviewInv, FormsShown, ReviewStands,
     ReviewedEvaluationKept, Reviewed

\* What saving a form does to the log and to the submission.
LEMMA SavedReview ==
  ASSUME ReviewInv, NEW t \in Tabs, form[t] # None, AppendReview(form[t]),
         faults' \in 0..MaxFaults
  PROVE  /\ TimelyInv' /\ ReviewStands' /\ ReviewedEvaluationKept'
         /\ reviews' \in [Submissions -> Seq(Review)]
         /\ \A s \in Submissions : Len(reviews'[s]) <= MaxReviews
         /\ Len(reviews[form[t].of]) + 1 \in 0..MaxReviews
         /\ evaluation[form[t].of] \in 1..MaxAttempts
         /\ \A s \in Submissions : sub[s] \in Outcomes => sub'[s] \in Outcomes
         /\ UNCHANGED evaluation
<1> DEFINE s0 == form[t].of
           r0 == [seen |-> form[t].seen, scored |-> evaluation[s0]]
<1>1. /\ form[t] \in Form /\ s0 \in Submissions
      /\ evaluation[s0] = form[t].seen /\ evaluation[s0] \in 1..MaxAttempts
  BY DEF ReviewInv, ReviewTypeOK, FormsShown, Form
<1>2. TimelyInv'
  BY <1>1, ReviewKeepsQueue DEF ReviewInv
<1>3. /\ sub' = [sub EXCEPT ![s0] = "graded"]
      /\ reviews' = [reviews EXCEPT ![s0] = Append(@, r0)]
      /\ UNCHANGED evaluation
      /\ Len(reviews[s0]) < MaxReviews
  BY DEF AppendReview
<1>4. r0 \in Review
  BY <1>1 DEF Review
<1>5. reviews \in [Submissions -> Seq(Review)]
  BY DEF ReviewInv, ReviewTypeOK
<1> HIDE DEF s0, r0
<1>6. reviews' \in [Submissions -> Seq(Review)]
  BY <1>1, <1>3, <1>4, <1>5
<1>7. \A s \in Submissions : sub'[s] = IF s = s0 THEN "graded" ELSE sub[s]
  BY <1>1, <1>3 DEF ReviewInv, TimelyInv, AnyTimeInv, TypeOK
<1>8. ReviewStands'
  BY <1>1, <1>3, <1>5, <1>7 DEF ReviewInv, ReviewStands, Reviewed
<1>9. reviews'[s0] = Append(reviews[s0], r0) /\ reviews[s0] \in Seq(Review)
  BY <1>1, <1>3, <1>5
<1>10. ReviewedEvaluationKept'
  <2> SUFFICES ASSUME NEW s \in Submissions, NEW i \in DOMAIN reviews'[s]
               PROVE  reviews'[s][i] = [seen |-> evaluation[s], scored |-> evaluation[s]]
    BY <1>3 DEF ReviewedEvaluationKept
  <2>1. CASE s # s0
    BY <1>3, <1>5, <2>1 DEF ReviewInv, ReviewedEvaluationKept
  <2>2. CASE s = s0 /\ i \in DOMAIN reviews[s]
    <3>1. reviews'[s][i] = reviews[s][i]
      BY <1>4, <1>9, <2>2, AppendProperties
    <3> QED
      BY <2>2, <3>1 DEF ReviewInv, ReviewedEvaluationKept
  <2>3. CASE s = s0 /\ i = Len(reviews[s]) + 1
    BY <1>1, <1>4, <1>9, <2>3, AppendProperties DEF r0, s0
  <2> QED
    BY <1>4, <1>9, <2>1, <2>2, <2>3, AppendProperties
<1>11. /\ \A s \in Submissions : Len(reviews'[s]) <= MaxReviews
       /\ Len(reviews[s0]) + 1 \in 0..MaxReviews
  <2>1. Len(reviews[s0]) + 1 \in 0..MaxReviews
    BY <1>3, <1>9, ReviewAssumption
  <2>2. \A s \in Submissions : reviews'[s] = IF s = s0 THEN Append(reviews[s0], r0) ELSE reviews[s]
    BY <1>1, <1>3, <1>5
  <2>3. Len(Append(reviews[s0], r0)) = Len(reviews[s0]) + 1
    BY <1>4, <1>9, AppendProperties
  <2>4. \A s \in Submissions : Len(reviews[s]) <= MaxReviews
    BY DEF ReviewInv, ReviewTypeOK
  <2>5. Len(Append(reviews[s0], r0)) <= MaxReviews
    BY <2>1, <2>3, ReviewAssumption
  <2>6. \A s \in Submissions : Len(reviews'[s]) <= MaxReviews
    BY <2>2, <2>4, <2>5
  <2> QED
    BY <2>1, <2>6
<1> QED
  BY <1>1, <1>2, <1>3, <1>6, <1>7, <1>8, <1>10, <1>11 DEF Outcomes, s0

LEMMA ReviewStepSafe ==
  ASSUME Timely, ~LostCompletions, ReviewInv, [ReviewNext]_allVars
  PROVE  ReviewInv'
<1>1. ASSUME [Next]_vars, UNCHANGED reviewVars
      PROVE  ReviewInv'
  <2>1. TimelyInv'
    BY <1>1, TimelyStep DEF ReviewInv
  <2>2. \A s \in Submissions : sub[s] \in Outcomes =>
          sub'[s] = sub[s] /\ evaluation'[s] = evaluation[s]
    BY <1>1, GradedStays DEF ReviewInv
  <2>3. FormsShown' /\ ReviewStands'
    BY <1>1, <2>2 DEF reviewVars, ReviewInv, ReviewTypeOK, Form, FormsShown, ReviewStands,
       Reviewed, Outcomes
  <2>4. ReviewedEvaluationKept'
    <3> SUFFICES ASSUME NEW s \in Submissions, NEW i \in DOMAIN reviews[s]
                 PROVE  reviews[s][i] = [seen |-> evaluation'[s], scored |-> evaluation'[s]]
      BY <1>1 DEF reviewVars, ReviewedEvaluationKept
    <3>1. sub[s] = "graded"
      BY DEF ReviewInv, ReviewStands, Reviewed
    <3> QED
      BY <2>2, <3>1 DEF ReviewInv, ReviewedEvaluationKept, Outcomes
  <2> QED
    BY <1>1, <2>1, <2>3, <2>4 DEF reviewVars, ReviewInv, ReviewTypeOK
<1>2. ASSUME NEW t \in Tabs, NEW s \in Submissions, OpenForm(t, s)
      PROVE  ReviewInv'
  <2>1. FormsShown' /\ ReviewTypeOK'
    BY <1>2 DEF OpenForm, vars, database, ReviewInv, FormsShown, ReviewTypeOK, Form,
       TimelyInv, AnyTimeInv, TypeOK
  <2>2. TimelyInv'
    BY <1>2, TimelyStep DEF OpenForm, ReviewInv
  <2> QED
    BY <1>2, <2>1, <2>2 DEF OpenForm, vars, database, ReviewInv, ReviewStands, Reviewed,
       ReviewedEvaluationKept
<1>3. ASSUME NEW t \in Tabs, form[t] # None, UNCHANGED <<vars, reviews>>,
             \/ \E e \in 0..MaxReviews \cup {None} : form' = [form EXCEPT ![t].expected = e]
             \/ form' = [form EXCEPT ![t] = None]
      PROVE  ReviewInv'
  <2>1. FormsShown' /\ ReviewTypeOK'
    BY <1>3 DEF vars, database, ReviewInv, FormsShown, ReviewTypeOK, Form
  <2>2. TimelyInv'
    BY <1>3, TimelyStep DEF ReviewInv
  <2> QED
    BY <1>3, <2>1, <2>2 DEF vars, database, ReviewInv, ReviewStands, Reviewed,
       ReviewedEvaluationKept
<1>4. ASSUME NEW t \in Tabs, SaveReview(t)
      PROVE  ReviewInv'
  <2>1. form[t] # None /\ AppendReview(form[t]) /\ faults' \in 0..MaxFaults
    BY <1>4 DEF SaveReview, ReviewInv, TimelyInv, AnyTimeInv, TypeOK
  <2>2. /\ form' = [form EXCEPT ![t].seen = evaluation[form[t].of],
                                ![t].expected = Len(reviews[form[t].of]) + 1]
    BY <1>4 DEF SaveReview
  <2>3. FormsShown' /\ ReviewTypeOK'
    BY <2>1, <2>2, SavedReview DEF ReviewInv, FormsShown, ReviewTypeOK, Form
  <2> QED
    BY <2>1, <2>3, SavedReview DEF ReviewInv
<1>5. ASSUME NEW t \in Tabs, SaveReviewUnanswered(t)
      PROVE  ReviewInv'
  <2>1. form[t] # None /\ AppendReview(form[t]) /\ faults' \in 0..MaxFaults
    <3>1. faults \in 0..MaxFaults
      BY DEF ReviewInv, TimelyInv, AnyTimeInv, TypeOK
    <3>2. faults < MaxFaults /\ faults' = faults + 1
      BY <1>5 DEF SaveReviewUnanswered, Fault
    <3>3. form[t] # None /\ AppendReview(form[t])
      BY <1>5 DEF SaveReviewUnanswered
    <3> QED
      BY <3>1, <3>2, <3>3, QueueAssumption
  <2>2. FormsShown' /\ ReviewTypeOK'
    BY <1>5, <2>1, SavedReview DEF SaveReviewUnanswered, ReviewInv, FormsShown, ReviewTypeOK,
       Form
  <2> QED
    BY <2>1, <2>2, SavedReview DEF ReviewInv
<1>6. CASE UNCHANGED allVars
  BY <1>1, <1>6 DEF allVars, reviewVars
<1>7. ASSUME NEW t \in Tabs, LoadReviews(t) \/ CloseForm(t) \/ ReviewRefused(t)
      PROVE  ReviewInv'
  <2>1. CASE LoadReviews(t)
    <3>1. Len(reviews[form[t].of]) \in 0..MaxReviews
      BY <2>1, ReviewAssumption DEF LoadReviews, ReviewInv, ReviewTypeOK, Form
    <3> QED
      BY <1>3, <2>1, <3>1 DEF LoadReviews
  <2>2. CASE CloseForm(t)
    BY <1>3, <2>2 DEF CloseForm
  <2>3. CASE ReviewRefused(t)
    BY <1>3, <2>3 DEF ReviewRefused
  <2> QED
    BY <1>7, <2>1, <2>2, <2>3
<1> QED
  BY <1>1, <1>2, <1>4, <1>5, <1>6, <1>7 DEF ReviewNext, QueueStep, ReviewStep

LEMMA ReviewsSafe ==
  ASSUME Timely, ~LostCompletions
  PROVE  ReviewSpec => []ReviewInv
<1>1. ReviewInv /\ [ReviewNext]_allVars => ReviewInv'
  BY ReviewStepSafe
<1> QED
  BY ReviewInitial, <1>1, PTL DEF ReviewSpec

\* Reviews and dialogs keep their types.
THEOREM ReviewTypesCorrect ==
  ASSUME Timely, ~LostCompletions
  PROVE  ReviewSpec => []ReviewTypeOK
<1>1. ReviewInv => ReviewTypeOK
  BY DEF ReviewInv
<1> QED
  BY ReviewsSafe, <1>1, PTL

\* A reviewed submission stays graded, whatever the workers of any server do.
THEOREM ReviewIsFinal ==
  ASSUME Timely, ~LostCompletions
  PROVE  ReviewSpec => []ReviewStands
<1>1. ReviewInv => ReviewStands
  BY DEF ReviewInv
<1> QED
  BY ReviewsSafe, <1>1, PTL

\* All revisions of a submission score the one machine evaluation on record,
\* which is the one their authors were shown.
THEOREM ReviewsOneEvaluation ==
  ASSUME Timely, ~LostCompletions
  PROVE  ReviewSpec => []ReviewedEvaluationKept
<1>1. ReviewInv => ReviewedEvaluationKept
  BY DEF ReviewInv
<1> QED
  BY ReviewsSafe, <1>1, PTL

\* Revisions are only appended, each by a form that knew of all before it.
THEOREM RevisionsAreSeen ==
  ASSUME Timely, ~LostCompletions
  PROVE  ReviewSpec => RevisionsSeen
<1>1. ASSUME ReviewInv, [ReviewNext]_allVars, NEW s \in Submissions, reviews'[s] # reviews[s]
      PROVE  Revision(s)
  <2>1. PICK t \in Tabs : form[t] # None /\ AppendReview(form[t]) /\ faults' \in 0..MaxFaults
    <3>1. PICK t \in Tabs : SaveReview(t) \/ SaveReviewUnanswered(t)
      BY <1>1 DEF ReviewNext, QueueStep, ReviewStep, OpenForm, LoadReviews, CloseForm,
         ReviewRefused, reviewVars, allVars
    <3>2. faults \in 0..MaxFaults
      BY <1>1 DEF ReviewInv, TimelyInv, AnyTimeInv, TypeOK
    <3>3. form[t] # None /\ AppendReview(form[t])
      BY <3>1 DEF SaveReview, SaveReviewUnanswered
    <3>4. faults' = faults \/ (faults < MaxFaults /\ faults' = faults + 1)
      BY <3>1 DEF SaveReview, SaveReviewUnanswered, Fault
    <3> QED
      BY <3>2, <3>3, <3>4, QueueAssumption
  <2> DEFINE r0 == [seen |-> form[t].seen, scored |-> evaluation[form[t].of]]
  <2>2. form[t] \in Form /\ reviews \in [Submissions -> Seq(Review)]
    BY <1>1, <2>1 DEF ReviewInv, ReviewTypeOK
  <2>3. reviews' = [reviews EXCEPT ![form[t].of] = Append(@, r0)]
    BY <2>1 DEF AppendReview
  <2>4. evaluation[form[t].of] \in 1..MaxAttempts
    BY <1>1, <2>1, SavedReview
  <2>5. r0 \in Review
    BY <2>2, <2>4 DEF Form, Review
  <2>6. form[t].of = s /\ reviews'[s] = Append(reviews[s], r0)
    BY <1>1, <2>2, <2>3 DEF Form
  <2>7. form[t].expected = Len(reviews[s])
    BY <2>1, <2>6 DEF AppendReview, Current
  <2> QED
    BY <2>1, <2>5, <2>6, <2>7 DEF Revision
<1>2. ReviewInv /\ [ReviewNext]_allVars => [OnlyRevisions]_allVars
  BY <1>1 DEF OnlyRevisions
<1> QED
  BY ReviewsSafe, <1>2, PTL DEF ReviewSpec, RevisionsSeen
=============================================================================
