------------------------ MODULE SubmissionLifecycle ------------------------
(***************************************************************************)
(* What the evaluation queue promises about a submission, without rows,    *)
(* locks, workers or servers: it is accepted once, tried at most           *)
(* MaxAttempts times, and settled once, by the outcome of a try or, when   *)
(* its tries are used up, as failed.                                       *)
(***************************************************************************)
EXTENDS Naturals

CONSTANTS Submissions, Legacy, MaxAttempts

VARIABLES phase, tries

Graded == {"graded", "needs_review"}

Init ==
  /\ phase = [s \in Submissions |-> IF s \in Legacy THEN "pending" ELSE "absent"]
  /\ tries = [s \in Submissions |-> 0]

Accept(s) ==
  /\ phase[s] = "absent"
  /\ phase' = [phase EXCEPT ![s] = "pending"]
  /\ UNCHANGED tries

Try(s) ==
  /\ phase[s] = "pending"
  /\ tries[s] < MaxAttempts
  /\ tries' = [tries EXCEPT ![s] = @ + 1]
  /\ UNCHANGED phase

Grade(s, o) ==
  /\ phase[s] = "pending"
  /\ tries[s] > 0
  /\ phase' = [phase EXCEPT ![s] = o]
  /\ UNCHANGED tries

\* Several submissions may be given up at once.
GiveUp(S) ==
  /\ \A s \in S : phase[s] = "pending" /\ tries[s] = MaxAttempts
  /\ phase' = [s \in Submissions |-> IF s \in S THEN "failed" ELSE phase[s]]
  /\ UNCHANGED tries

Next ==
  \/ \E s \in Submissions : Accept(s) \/ Try(s)
  \/ \E s \in Submissions, o \in Graded : Grade(s, o)
  \/ \E S \in SUBSET Submissions : GiveUp(S)

Spec == Init /\ [][Next]_<<phase, tries>>
=============================================================================
