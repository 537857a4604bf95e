------------------------------ MODULE ReviewLog ------------------------------
(***************************************************************************)
(* Teacher reviews (server/internal/store/reviews.go and the review dialog *)
(* of web/src/components/assessment/TeacherAssessment.tsx) on top of the   *)
(* evaluation queue.                                                       *)
(*                                                                         *)
(* Reviews are appended to a log per submission.  A review is written from *)
(* a form a teacher opened earlier: the list gave it the submission with   *)
(* its evaluation, a second request the reviews so far.  The server        *)
(* compares the newest review with the one the form names, and settles     *)
(* the submission as graded.  The workers of EvaluationQueue write the     *)
(* same submission rows and know nothing of reviews.                       *)
(***************************************************************************)
EXTENDS EvaluationQueue, Sequences

CONSTANTS
  Tabs,        \* browser tabs of the teacher who published the assignment
  MaxReviews   \* bound on the reviews of a submission

ASSUME ReviewAssumption == MaxReviews \in Nat /\ None \notin 0..MaxReviews

VARIABLES
  reviews,  \* review_records of each submission, oldest first
  form      \* the review dialog of each tab

reviewVars == <<reviews, form>>
allVars == <<vars, reviews, form>>

\* A review keeps the evaluation its author was shown and the one it was
\* validated against, each named by the attempt that wrote it.
Review == [seen : 1..MaxAttempts, scored : 1..MaxAttempts]

\* An open dialog: the submission as the list gave it, and how many reviews the
\* assessment request returned (None until it has).
Form == [of : Submissions, seen : 1..MaxAttempts, expected : 0..MaxReviews \cup {None}]

\* The log and the dialogs hold what their types allow.
ReviewTypeOK ==
  /\ reviews \in [Submissions -> Seq(Review)]
  /\ \A s \in Submissions : Len(reviews[s]) <= MaxReviews
  /\ form \in [Tabs -> Form \cup {None}]

ReviewInit ==
  /\ Init
  /\ reviews = [s \in Submissions |-> <<>>]
  /\ form = [t \in Tabs |-> None]

Reviewed(s) == reviews[s] # <<>>

\* Some server answers requests.
Serving == \E sv \in Servers : server[sv] = "up"

-----------------------------------------------------------------------------
(* The dialog *)

\* "教师复核" is offered for an evaluated submission that is graded or needs a
\* review; the dialog works on what the list showed.
OpenForm(t, s) ==
  /\ Serving
  /\ form[t] = None
  /\ sub[s] \in Outcomes /\ evaluation[s] # 0
  /\ form' = [form EXCEPT ![t] = [of |-> s, seen |-> evaluation[s], expected |-> None]]
  /\ UNCHANGED <<vars, reviews>>

\* The assessment request, on opening and on "加载最新复核后重新填写".  Only the
\* reviews are loaded: the form keeps the evaluation it was opened with.
LoadReviews(t) ==
  /\ Serving
  /\ form[t] # None
  /\ form[t].expected = None
  /\ form' = [form EXCEPT ![t].expected = Len(reviews[form[t].of])]
  /\ UNCHANGED <<vars, reviews>>

CloseForm(t) ==
  /\ form[t] # None
  /\ form' = [form EXCEPT ![t] = None]
  /\ UNCHANGED <<vars, reviews>>

-----------------------------------------------------------------------------
(* CreateReview *)

\* lockAssessmentSubmission: the row is locked, settled, and without an open job.
Assessable(s) == sub[s] \in Settled /\ jobStatus[s] \notin {"queued", "running"}

\* The version check, on the newest review as the transaction reads it.
CurrentAnyway(f) == f.expected # None
Current(f) == f.expected = Len(reviews[f.of])

\* The transaction appends the review and settles the submission; a submission
\* without an evaluation has no dimensions to score and is refused.
AppendReview(f) ==
  /\ Serving
  /\ f.expected # None
  /\ Assessable(f.of)
  /\ evaluation[f.of] # 0
  /\ Current(f)
  /\ Len(reviews[f.of]) < MaxReviews
  /\ reviews' = [reviews EXCEPT ![f.of] =
                   Append(@, [seen |-> f.seen, scored |-> evaluation[f.of]])]
  /\ sub' = [sub EXCEPT ![f.of] = "graded"]
  /\ UNCHANGED <<evaluation, jobStatus, attempts, lockedBy, lockAge, created,
                 lastCreated, process, goroutine>>

\* Answered: the page takes over the saved submission and starts a new form.
SaveReview(t) ==
  LET f == form[t] IN
  /\ f # None
  /\ AppendReview(f)
  /\ form' = [form EXCEPT ![t].seen = evaluation[f.of],
                          ![t].expected = Len(reviews[f.of]) + 1]
  /\ UNCHANGED faults

\* The answer is lost: the form stays as it is and may be sent again.
SaveReviewUnanswered(t) ==
  /\ form[t] # None
  /\ AppendReview(form[t])
  /\ Fault
  /\ UNCHANGED form

\* 409, an open job or a newer review: the form is disabled until the reviews
\* are loaded again.
ReviewRefused(t) ==
  LET f == form[t] IN
  /\ Serving
  /\ f # None
  /\ f.expected # None
  /\ ~Assessable(f.of) \/ ~Current(f)
  /\ form' = [form EXCEPT ![t].expected = None]
  /\ UNCHANGED <<vars, reviews>>

ReviewStep ==
  \E t \in Tabs :
    \/ \E s \in Submissions : OpenForm(t, s)
    \/ LoadReviews(t)
    \/ CloseForm(t)
    \/ SaveReview(t)
    \/ SaveReviewUnanswered(t)
    \/ ReviewRefused(t)

QueueStep == Next /\ UNCHANGED reviewVars

ReviewNext == QueueStep \/ ReviewStep

ReviewSpec == ReviewInit /\ [][ReviewNext]_allVars

-----------------------------------------------------------------------------
(* Properties *)

\* A teacher's verdict is final: from its first review on a submission stays
\* graded and no worker, sweep or restart shows it as pending or failed again.
ReviewStands == \A s \in Submissions : Reviewed(s) => sub[s] = "graded"

\* Every revision was written by someone who was shown the evaluation on
\* record, which has not been replaced since: the machine evaluation and all
\* revisions of it stay comparable.
ReviewedEvaluationKept ==
  \A s \in Submissions : \A i \in DOMAIN reviews[s] :
    reviews[s][i] = [seen |-> evaluation[s], scored |-> evaluation[s]]

\* A revision that is appended by a form that knows of all before it.
Revision(s) ==
  /\ \E r \in Review : reviews'[s] = Append(reviews[s], r)
  /\ \E t \in Tabs :
       form[t] # None /\ form[t].of = s /\ form[t].expected = Len(reviews[s])

OnlyRevisions == \A s \in Submissions : reviews'[s] # reviews[s] => Revision(s)

\* The log is only ever appended to, and by a teacher who had been shown every
\* revision before: neither a second tab nor a repeated request of an
\* unanswered form overwrites or doubles a review.
RevisionsSeen == [][OnlyRevisions]_allVars

-----------------------------------------------------------------------------
(* Inductive strengthening, for the proofs *)

\* The evaluation an open form shows is the one on record.
FormsShown ==
  \A t \in Tabs : form[t] # None =>
    /\ sub[form[t].of] \in Outcomes
    /\ evaluation[form[t].of] = form[t].seen

ReviewInv ==
  TimelyInv /\ ReviewTypeOK /\ FormsShown /\ ReviewStands /\ ReviewedEvaluationKept
=============================================================================
