----------------------------- MODULE SubmitGate -----------------------------
(***************************************************************************)
(* The admission of submissions to one assignment: createSubmission of     *)
(* server/internal/api/handler.go and CreateSubmissionWithJob of           *)
(* server/internal/store/mysql.go, against the teacher's edits and time.   *)
(*                                                                         *)
(* A request checks a snapshot of the assignment row and counts the        *)
(* student's submissions, all before its transaction.  The transaction     *)
(* locks the assignment row and looks at the deadline again.               *)
(***************************************************************************)
EXTENDS Integers, Sequences, FiniteSets

CONSTANTS
  Students,
  Requests,    \* POST /submissions, each sent once
  StudentOf,   \* the student who sends a request
  Limits,      \* values of max_submissions, within 1..100
  MaxTime,     \* bound on the clock; due dates lie within 0..MaxTime
  MaxEdits,    \* bound on the teacher's edits
  Overlap,     \* may a student have two requests under way (two pages, a reload)?
  None

ASSUME GateAssumption ==
  /\ StudentOf \in [Requests -> Students]
  /\ Limits \subseteq Nat \ {0}
  /\ MaxTime \in Nat /\ MaxEdits \in Nat
  /\ Overlap \in BOOLEAN
  /\ None \notin Requests

VARIABLES
  assignment,  \* its row: status, limit, due
  lock,        \* the request whose transaction holds the row's lock, or None
  rows,        \* the submissions in the order of their ids
  now,         \* the server's clock
  edits,       \* the teacher's edits so far
  pc,          \* where a request stands
  seen,        \* the assignment as the request read it
  at           \* its SubmittedAt: the handler's time, then the one under the lock

vars == <<assignment, lock, rows, now, edits, pc, seen, at>>

Assignment == [status : {"open", "closed"}, limit : Limits, due : 0..MaxTime]

\* A row with, besides its student and submitted_at, the deadline in force when
\* it was inserted and the limit its request had read.
Row == [student : Students, at : 0..MaxTime, due : 0..MaxTime, limit : Limits]

UnderWay == {"counting", "admitted", "locked", "stamped"}
Answered == {"accepted", "refused", "failed"}

\* Whose submissions are told apart by their number: SubmissionCount.
Mine(student, n) == {i \in 1..n : rows[i].student = student}
SubmissionCount(student) == Cardinality(Mine(student, Len(rows)))

\* Types; and the row is locked exactly while a transaction is between its
\* SELECT ... FOR UPDATE and its end, so that no lock outlives its request.
GateTypeOK ==
  /\ assignment \in Assignment
  /\ lock \in Requests \cup {None}
  /\ rows \in Seq(Row)
  /\ now \in 0..MaxTime
  /\ edits \in 0..MaxEdits
  /\ pc \in [Requests -> {"new"} \cup UnderWay \cup Answered]
  /\ seen \in [Requests -> Assignment]
  /\ at \in [Requests -> 0..MaxTime]
  /\ \A r \in Requests : lock = r <=> pc[r] \in {"locked", "stamped"}

Init ==
  /\ assignment \in [status : {"open"}, limit : Limits, due : 1..MaxTime]
  /\ lock = None
  /\ rows = <<>>
  /\ now = 0
  /\ edits = 0
  /\ pc = [r \in Requests |-> "new"]
  /\ seen = [r \in Requests |-> assignment]
  /\ at = [r \in Requests |-> 0]

-----------------------------------------------------------------------------
Goto(r, label) == pc' = [pc EXCEPT ![r] = label]

\* The deadline itself counts as passed.
SubmissionDeadlinePassed(due) == now >= due

\* The submit button of one page is disabled while its request is under way.
MaySend(r) ==
  Overlap \/ \A q \in Requests : StudentOf[q] = StudentOf[r] => pc[q] \notin UnderWay

\* The handler reads the assignment and checks its status and deadline.
Read(r) ==
  /\ pc[r] = "new"
  /\ MaySend(r)
  /\ seen' = [seen EXCEPT ![r] = assignment]
  /\ IF assignment.status = "open" /\ ~SubmissionDeadlinePassed(assignment.due)
     THEN Goto(r, "counting")
     ELSE Goto(r, "refused")
  /\ UNCHANGED <<assignment, lock, rows, now, edits, at>>

\* It counts what the student has submitted, against the limit it has read, and
\* makes up the submission with the time it is by now.
BelowLimitOneMore(r) == SubmissionCount(StudentOf[r]) <= seen[r].limit
BelowLimit(r) == SubmissionCount(StudentOf[r]) < seen[r].limit

Count(r) ==
  /\ pc[r] = "counting"
  /\ IF BelowLimit(r) THEN Goto(r, "admitted") /\ at' = [at EXCEPT ![r] = now]
     ELSE Goto(r, "refused") /\ UNCHANGED at
  /\ UNCHANGED <<assignment, lock, rows, now, edits, seen>>

\* SELECT ... FOR UPDATE of the assignment row.
LockRow(r) ==
  /\ pc[r] = "admitted"
  /\ lock = None
  /\ lock' = r
  /\ Goto(r, "locked")
  /\ UNCHANGED <<assignment, rows, now, edits, seen, at>>

\* The end of a transaction, by commit, rollback or a lost connection, frees
\* the row if the transaction had it.
KeepLock(r) == UNCHANGED lock
Unlock(r) == lock' = IF lock = r THEN None ELSE lock

\* The time is taken, and the deadline looked at again, under the lock.
DueNotRechecked(r) == seen[r].due
DueNow(r) == assignment.due

StampKept(r) == UNCHANGED at
Stamp(r) == at' = [at EXCEPT ![r] = now]

Recheck(r) ==
  /\ pc[r] = "locked"
  /\ IF SubmissionDeadlinePassed(DueNow(r))
     THEN Goto(r, "refused") /\ Unlock(r) /\ UNCHANGED at
     ELSE Goto(r, "stamped") /\ Stamp(r) /\ UNCHANGED lock
  /\ UNCHANGED <<assignment, rows, now, edits, seen>>

\* The submission and its job are inserted and committed.
Insert(r) ==
  rows' = Append(rows, [student |-> StudentOf[r], at |-> at[r],
                        due |-> assignment.due, limit |-> seen[r].limit])

Commit(r) ==
  /\ pc[r] = "stamped"
  /\ Insert(r)
  /\ Goto(r, "accepted")
  /\ Unlock(r)
  /\ UNCHANGED <<assignment, now, edits, seen, at>>

\* An error of the database, or the end of the server: nothing is left of the
\* transaction, unless it was the reply to its COMMIT that was lost.
Fail(r) ==
  /\ pc[r] \in UnderWay
  /\ UNCHANGED rows \/ (pc[r] = "stamped" /\ Insert(r))
  /\ Goto(r, "failed")
  /\ Unlock(r)
  /\ UNCHANGED <<assignment, now, edits, seen, at>>

\* UpdateAssignment, UpdateAssignmentStatus, UpdateAssignmentMaxSubmissions: each
\* UPDATE waits for the row's lock.
EditIgnoringLock == TRUE
EditWaits == lock = None

Edit(a) ==
  /\ edits < MaxEdits
  /\ EditWaits
  /\ assignment' = a
  /\ edits' = edits + 1
  /\ UNCHANGED <<lock, rows, now, pc, seen, at>>

UpdateAssignment == \E a \in Assignment : Edit(a)
UpdateAssignmentStatus ==
  \E status \in {"open", "closed"} : Edit([assignment EXCEPT !.status = status])
UpdateAssignmentMaxSubmissions ==
  \E limit \in Limits : Edit([assignment EXCEPT !.limit = limit])

Tick ==
  /\ now < MaxTime
  /\ now' = now + 1
  /\ UNCHANGED <<assignment, lock, rows, edits, pc, seen, at>>

Step(r) == Count(r) \/ LockRow(r) \/ Recheck(r) \/ Commit(r)

Next ==
  \/ \E r \in Requests : Read(r) \/ Step(r) \/ Fail(r)
  \/ UpdateAssignment \/ UpdateAssignmentStatus \/ UpdateAssignmentMaxSubmissions
  \/ Tick

Spec == Init /\ [][Next]_vars

\* A handler that is not waiting for the row's lock goes on; errors are not owed.
FairSpec == Spec /\ \A r \in Requests : WF_vars(Step(r))

-----------------------------------------------------------------------------
(* Properties *)

\* A submission's time lies before the deadline in force when it was inserted,
\* although the deadline may be moved between the handler's check and the
\* insert, and the time of the insert is not that of the request.
InTime == \A i \in 1..Len(rows) : rows[i].at < rows[i].due

\* The order of ids is the order of submitted_at: the time is taken under the
\* lock, so "latest submission" means the last one accepted, by either column.
IdsFollowTime == \A i, j \in 1..Len(rows) : i < j => rows[i].at <= rows[j].at

\* No row was inserted for a student who already had as many as the limit the
\* request had read: the count is still true when the row is inserted.
WithinLimit ==
  \A i \in 1..Len(rows) : Cardinality(Mine(rows[i].student, i - 1)) < rows[i].limit

\* Every request is answered, whoever holds the row's lock and however its
\* transaction ends.
EveryRequestAnswered == \A r \in Requests : pc[r] \in UnderWay ~> pc[r] \in Answered

-----------------------------------------------------------------------------
(* Inductive strengthening, for the proofs *)

\* Under the lock, the time taken is the latest and before the deadline.
StampInForce ==
  /\ \A i \in 1..Len(rows) : rows[i].at <= now
  /\ \A r \in Requests :
       pc[r] = "stamped" =>
         /\ at[r] < assignment.due /\ at[r] <= now
         /\ \A i \in 1..Len(rows) : rows[i].at <= at[r]

GateInv == GateTypeOK /\ StampInForce /\ InTime /\ IdsFollowTime

\* With one request of a student at a time, what it counted stays true.
CountHolds ==
  /\ \A r, q \in Requests :
       StudentOf[r] = StudentOf[q] /\ pc[r] \in UnderWay /\ pc[q] \in UnderWay => r = q
  /\ \A r \in Requests :
       pc[r] \in {"admitted", "locked", "stamped"} =>
         SubmissionCount(StudentOf[r]) < seen[r].limit

LimitInv == GateTypeOK /\ CountHolds /\ WithinLimit
=============================================================================
