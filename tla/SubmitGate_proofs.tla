------------------------- MODULE SubmitGate_proofs --------------------------
(***************************************************************************)
(* Theorems about SubmitGate for any number of students and requests, any  *)
(* limits and any schedule of edits.  The deadline and the order of times  *)
(* rest on the row's lock (StampInForce); the limit rests on a student     *)
(* having one request under way at a time (CountHolds).                    *)
(***************************************************************************)
EXTENDS SubmitGate, TLAPS

LEMMA GateInitial == Init => GateInv /\ LimitInv
<1> SUFFICES ASSUME Init PROVE GateInv /\ LimitInv
  OBVIOUS
<1>1. GateTypeOK
  <2>1. assignment \in Assignment /\ rows \in Seq(Row) /\ lock = None
    BY GateAssumption DEF Init, Assignment
  <2>2. seen \in [Requests -> Assignment]
    BY <2>1 DEF Init
  <2> QED
    BY <2>1, <2>2, GateAssumption DEF Init, GateTypeOK
<1> QED
  BY <1>1 DEF Init, GateInv, StampInForce, InTime, IdsFollowTime, LimitInv, CountHolds,
     WithinLimit, UnderWay

LEMMA RowAppended ==
  ASSUME GateTypeOK, NEW r \in Requests, Insert(r)
  PROVE  /\ rows' \in Seq(Row) /\ Len(rows') = Len(rows) + 1 /\ Len(rows) \in Nat
         /\ \A i \in 1..Len(rows) : rows'[i] = rows[i]
         /\ rows'[Len(rows) + 1] = [student |-> StudentOf[r], at |-> at[r],
                                    due |-> assignment.due, limit |-> seen[r].limit]
<1> DEFINE new == [student |-> StudentOf[r], at |-> at[r],
                   due |-> assignment.due, limit |-> seen[r].limit]
<1>1. new \in Row
  BY GateAssumption DEF GateTypeOK, Assignment, Row
<1>2. rows \in Seq(Row) /\ rows' = Append(rows, new)
  BY DEF GateTypeOK, Insert
<1> HIDE DEF new
<1>3. /\ rows' \in Seq(Row) /\ Len(rows') = Len(rows) + 1 /\ Len(rows) \in Nat
      /\ \A i \in 1..Len(rows) : rows'[i] = rows[i]
      /\ rows'[Len(rows) + 1] = new
  BY <1>1, <1>2
<1> QED
  BY <1>3 DEF new

\* What the steps do to the rows: nothing, or the insert of a stamped request.
LEMMA RowSteps ==
  ASSUME Next, rows' # rows
  PROVE  \E r \in Requests : /\ pc[r] = "stamped" /\ Insert(r) /\ Unlock(r)
                             /\ pc' = [pc EXCEPT ![r] = "accepted"]
                                \/ pc' = [pc EXCEPT ![r] = "failed"]
                             /\ UNCHANGED <<assignment, now, edits, seen, at>>
  BY DEF Next, Read, Step, Count, LockRow, Recheck, Commit, Fail, UpdateAssignment,
     UpdateAssignmentStatus, UpdateAssignmentMaxSubmissions, Edit, Tick, Goto

LEMMA GateTypeStep == GateTypeOK /\ [Next]_vars => GateTypeOK'
<1> SUFFICES ASSUME GateTypeOK, [Next]_vars PROVE GateTypeOK'
  OBVIOUS
<1> USE GateAssumption DEF GateTypeOK, UnderWay, Answered
<1>1. ASSUME NEW r \in Requests, Read(r) PROVE GateTypeOK'
  BY <1>1 DEF Read, Goto
<1>2. ASSUME NEW r \in Requests, Count(r) PROVE GateTypeOK'
  BY <1>2 DEF Count, Goto
<1>3. ASSUME NEW r \in Requests, LockRow(r) PROVE GateTypeOK'
  BY <1>3 DEF LockRow, Goto
<1>4. ASSUME NEW r \in Requests, Recheck(r) PROVE GateTypeOK'
  BY <1>4 DEF Recheck, Goto, Unlock, Stamp
<1>5. ASSUME NEW r \in Requests, Commit(r) PROVE GateTypeOK'
  <2>1. rows' \in Seq(Row)
    BY <1>5, RowAppended DEF Commit
  <2> QED
    BY <1>5, <2>1 DEF Commit, Goto, Unlock
<1>6. ASSUME NEW r \in Requests, Fail(r) PROVE GateTypeOK'
  <2>1. rows' \in Seq(Row)
    BY <1>6, RowAppended DEF Fail
  <2> QED
    BY <1>6, <2>1 DEF Fail, Goto, Unlock
<1>7. ASSUME NEW a \in Assignment, Edit(a) PROVE GateTypeOK'
  BY <1>7 DEF Edit
<1>8. CASE UpdateAssignmentStatus
  BY <1>7, <1>8 DEF UpdateAssignmentStatus, Assignment
<1>9. CASE UpdateAssignmentMaxSubmissions
  BY <1>7, <1>9 DEF UpdateAssignmentMaxSubmissions, Assignment
<1>10. CASE Tick
  BY <1>10 DEF Tick
<1>11. CASE UNCHANGED vars
  BY <1>11 DEF vars
<1> QED
  BY <1>1, <1>2, <1>3, <1>4, <1>5, <1>6, <1>7, <1>8, <1>9, <1>10, <1>11
     DEF Next, Step, UpdateAssignment

LEMMA GateStep == GateInv /\ [Next]_vars => GateInv'
<1> SUFFICES ASSUME GateInv, [Next]_vars PROVE GateInv'
  OBVIOUS
<1>1. GateTypeOK /\ GateTypeOK'
  BY GateTypeStep DEF GateInv
<1>2. CASE UNCHANGED vars
  BY <1>1, <1>2 DEF vars, GateInv, StampInForce, InTime, IdsFollowTime
<1>3. CASE Next /\ rows' # rows
  <2>1. PICK r \in Requests : /\ pc[r] = "stamped" /\ Insert(r)
                              /\ \A q \in Requests \ {r} : pc'[q] = pc[q]
                              /\ pc'[r] # "stamped"
                              /\ UNCHANGED <<assignment, now, seen, at>>
    BY <1>1, <1>3, RowSteps DEF GateTypeOK
  <2>2. lock = r /\ \A q \in Requests : pc'[q] # "stamped"
    BY <1>1, <2>1 DEF GateTypeOK
  <2>3. at[r] < assignment.due /\ at[r] <= now /\ \A i \in 1..Len(rows) : rows[i].at <= at[r]
    BY <2>1 DEF GateInv, StampInForce
  <2>4. /\ Len(rows') = Len(rows) + 1 /\ Len(rows) \in Nat
        /\ \A i \in 1..Len(rows) : rows'[i] = rows[i]
        /\ rows'[Len(rows) + 1].at = at[r] /\ rows'[Len(rows) + 1].due = assignment.due
    <3>1. rows'[Len(rows) + 1] = [student |-> StudentOf[r], at |-> at[r],
                                  due |-> assignment.due, limit |-> seen[r].limit]
      BY <1>1, <2>1, RowAppended
    <3> QED
      BY <1>1, <2>1, <3>1, RowAppended
  <2>5. \A i \in 1..Len(rows') : i \in 1..Len(rows) \/ i = Len(rows) + 1
    BY <2>4
  <2>6. StampInForce'
    BY <2>1, <2>2, <2>3, <2>4, <2>5 DEF GateInv, StampInForce
  <2>7. InTime'
    BY <2>1, <2>3, <2>4, <2>5 DEF GateInv, InTime
  <2>8. IdsFollowTime'
    BY <2>1, <2>3, <2>4, <2>5 DEF GateInv, IdsFollowTime
  <2> QED
    BY <1>1, <2>6, <2>7, <2>8 DEF GateInv
<1>4. CASE Next /\ rows' = rows
  <2>1. InTime' /\ IdsFollowTime'
    BY <1>4 DEF GateInv, InTime, IdsFollowTime
  <2>2. now' \in Nat /\ now \in Nat /\ now <= now' /\ \A i \in 1..Len(rows) : rows[i].at \in Nat
    <3>1. now \in Nat /\ \A i \in 1..Len(rows) : rows[i].at \in 0..MaxTime
      <4>1. \A i \in 1..Len(rows) : rows[i] \in Row
        BY <1>1 DEF GateTypeOK
      <4> QED
        BY <1>1, <4>1, GateAssumption DEF GateTypeOK, Row
    <3>2. now' = now \/ now' = now + 1
      BY <1>4 DEF Next, Read, Step, Count, LockRow, Recheck, Commit, Fail,
         UpdateAssignment, UpdateAssignmentStatus, UpdateAssignmentMaxSubmissions, Edit,
         Tick
    <3> QED
      BY <3>1, <3>2, GateAssumption
  <2>3. \A i \in 1..Len(rows) : rows'[i].at <= now'
    BY <1>4, <2>2 DEF GateInv, StampInForce
  <2>4. ASSUME NEW q \in Requests, pc'[q] = "stamped"
        PROVE  /\ at'[q] < assignment'.due /\ at'[q] <= now'
               /\ \A i \in 1..Len(rows) : rows'[i].at <= at'[q]
    <3>1. CASE pc[q] = "stamped"
      <4>1. lock = q
        BY <1>1, <3>1 DEF GateTypeOK
      <4>2. assignment' = assignment /\ at'[q] = at[q]
        BY <1>1, <1>4, <2>4, <3>1, <4>1, GateAssumption DEF GateTypeOK, Next, Read, Step,
           Count, LockRow, Recheck, Commit, Fail, UpdateAssignment,
           UpdateAssignmentStatus, UpdateAssignmentMaxSubmissions, Edit, EditWaits, Tick,
           Stamp, Goto
      <4> QED
        BY <1>1, <1>4, <2>2, <3>1, <4>2, GateAssumption DEF GateInv, StampInForce, GateTypeOK
    <3>2. CASE pc[q] # "stamped"
      <4>1. Recheck(q) /\ pc'[q] = "stamped"
        BY <1>1, <1>4, <2>4, <3>2 DEF GateTypeOK, Next, Read, Step, Count, LockRow,
           Recheck, Commit, Fail, UpdateAssignment, UpdateAssignmentStatus,
           UpdateAssignmentMaxSubmissions, Edit, Tick, Goto
      <4>2. /\ at'[q] = now /\ ~(now >= assignment.due)
            /\ now' = now /\ assignment' = assignment
        BY <1>1, <4>1 DEF GateTypeOK, Recheck, Stamp, SubmissionDeadlinePassed, DueNow, Goto
      <4>3. now \in Nat /\ assignment.due \in Nat
        BY <1>1, GateAssumption DEF GateTypeOK, Assignment
      <4> QED
        BY <1>4, <2>2, <2>3, <4>2, <4>3
    <3> QED
      BY <3>1, <3>2
  <2> QED
    BY <1>1, <1>4, <2>1, <2>3, <2>4 DEF GateInv, StampInForce
<1> QED
  BY <1>2, <1>3, <1>4

-----------------------------------------------------------------------------
\* The rows told apart by Mine up to n do not change when one is appended later.
LEMMA MineAppended ==
  ASSUME GateTypeOK, NEW r \in Requests, Insert(r), NEW st \in Students
  PROVE  /\ \A n \in 0..Len(rows) : Mine(st, n)' = Mine(st, n)
         /\ st # StudentOf[r] => SubmissionCount(st)' = SubmissionCount(st)
<1>1. /\ Len(rows') = Len(rows) + 1 /\ Len(rows) \in Nat
      /\ \A i \in 1..Len(rows) : rows'[i] = rows[i]
  BY RowAppended
<1>2. \A n \in 0..Len(rows) : Mine(st, n)' = Mine(st, n)
  BY <1>1 DEF Mine
<1>3. ASSUME st # StudentOf[r] PROVE Mine(st, Len(rows))' = Mine(st, Len(rows))
  <2>1. rows'[Len(rows) + 1].student = StudentOf[r]
    <3>1. rows'[Len(rows) + 1] = [student |-> StudentOf[r], at |-> at[r],
                                  due |-> assignment.due, limit |-> seen[r].limit]
      BY RowAppended
    <3> QED
      BY <3>1
  <2> QED
    BY <1>1, <1>3, <2>1 DEF Mine
<1> QED
  BY <1>2, <1>3 DEF SubmissionCount

LEMMA LimitStep == ~Overlap /\ LimitInv /\ [Next]_vars => LimitInv'
<1> SUFFICES ASSUME ~Overlap, LimitInv, [Next]_vars PROVE LimitInv'
  OBVIOUS
<1> DEFINE Sole == \A r, q \in Requests :
             StudentOf[r] = StudentOf[q] /\ pc[r] \in UnderWay /\ pc[q] \in UnderWay => r = q
           Below(r) == pc[r] \in {"admitted", "locked", "stamped"}
                         => SubmissionCount(StudentOf[r]) < seen[r].limit
<1>1. GateTypeOK /\ GateTypeOK'
  BY GateTypeStep DEF LimitInv
<1>2. Sole /\ \A r \in Requests : Below(r)
  BY DEF LimitInv, CountHolds
<1>3. Sole'
  <2>1. CASE \A q \in Requests : pc'[q] \in UnderWay => pc[q] \in UnderWay
    BY <1>2, <2>1
  <2>2. ASSUME NEW r \in Requests, Read(r) PROVE Sole'
    BY <1>1, <1>2, <2>2 DEF GateTypeOK, Read, MaySend, Goto, UnderWay
  <2> QED
    BY <1>1, <2>1, <2>2 DEF GateTypeOK, Next, Step, Count, LockRow, Recheck, Commit, Fail,
       UpdateAssignment, UpdateAssignmentStatus, UpdateAssignmentMaxSubmissions, Edit, Tick,
       Goto, UnderWay, vars
<1>4. ASSUME rows' = rows, NEW r \in Requests PROVE Below(r)'
  <2>1. SubmissionCount(StudentOf[r])' = SubmissionCount(StudentOf[r])
    BY <1>4 DEF SubmissionCount, Mine
  <2>2. CASE UNCHANGED vars
    BY <1>2, <2>1, <2>2 DEF vars
  <2>3. CASE Next
    <3>1. ASSUME pc[r] \in {"admitted", "locked", "stamped"} PROVE seen'[r] = seen[r]
      BY <1>1, <2>3, <3>1 DEF GateTypeOK, Next, Read, Step, Count, LockRow, Recheck,
         Commit, Fail, UpdateAssignment, UpdateAssignmentStatus,
         UpdateAssignmentMaxSubmissions, Edit, Tick
    <3>2. ASSUME pc[r] \notin {"admitted", "locked", "stamped"},
                 pc'[r] \in {"admitted", "locked", "stamped"}
          PROVE  BelowLimit(r) /\ seen' = seen
      BY <1>1, <2>3, <3>2 DEF GateTypeOK, Next, Read, Step, Count, LockRow, Recheck,
         Commit, Fail, UpdateAssignment, UpdateAssignmentStatus,
         UpdateAssignmentMaxSubmissions, Edit, Tick, Goto
    <3> QED
      BY <1>2, <2>1, <3>1, <3>2 DEF BelowLimit
  <2> QED
    BY <2>2, <2>3
<1>5. CASE rows' = rows
  BY <1>1, <1>3, <1>4, <1>5 DEF LimitInv, CountHolds, WithinLimit, Mine
<1>6. CASE rows' # rows
  <2>1. PICK r \in Requests : /\ pc[r] = "stamped" /\ Insert(r)
                              /\ \A q \in Requests \ {r} : pc'[q] = pc[q]
                              /\ pc'[r] \notin UnderWay
                              /\ UNCHANGED seen
    BY <1>1, <1>6, RowSteps DEF GateTypeOK, vars, UnderWay
  <2>2. \A st \in Students :
          /\ \A n \in 0..Len(rows) : Mine(st, n)' = Mine(st, n)
          /\ st # StudentOf[r] => SubmissionCount(st)' = SubmissionCount(st)
    BY <1>1, <2>1, MineAppended
  <2>3. ASSUME NEW q \in Requests PROVE Below(q)'
    <3>1. CASE pc'[q] \in UnderWay
      <4>1. q # r /\ StudentOf[q] # StudentOf[r]
        BY <1>2, <2>1, <3>1 DEF UnderWay
      <4>2. StudentOf[q] \in Students /\ pc'[q] = pc[q] /\ seen'[q] = seen[q]
        BY <2>1, <4>1, GateAssumption
      <4>3. SubmissionCount(StudentOf[q])' = SubmissionCount(StudentOf[q])
        BY <2>2, <4>1, <4>2
      <4> QED
        BY <1>2, <4>2, <4>3
    <3>2. CASE pc'[q] \notin UnderWay
      BY <3>2 DEF UnderWay
    <3> QED
      BY <3>1, <3>2
  <2>4. WithinLimit'
    <3>1. /\ Len(rows') = Len(rows) + 1 /\ Len(rows) \in Nat
          /\ \A i \in 1..Len(rows) : rows'[i] = rows[i]
      BY <1>1, <2>1, RowAppended
    <3>2. rows'[Len(rows) + 1].student = StudentOf[r] /\ rows'[Len(rows) + 1].limit = seen[r].limit
      <4>1. rows'[Len(rows) + 1] = [student |-> StudentOf[r], at |-> at[r],
                                    due |-> assignment.due, limit |-> seen[r].limit]
        BY <1>1, <2>1, RowAppended
      <4> QED
        BY <4>1
    <3> DEFINE Before(st, n) == {j \in 1..n : rows'[j].student = st}
    <3>3. \A st \in Students : \A n \in 0..Len(rows) : Before(st, n) = Mine(st, n)
      BY <2>2 DEF Mine
    <3>4. ASSUME NEW i \in 1..Len(rows)
          PROVE  Cardinality(Before(rows'[i].student, i - 1)) < rows'[i].limit
      <4>1. rows[i].student \in Students
        <5>1. rows[i] \in Row
          BY <1>1 DEF GateTypeOK
        <5> QED
          BY <5>1 DEF Row
      <4>2. Cardinality(Mine(rows[i].student, i - 1)) < rows[i].limit
        BY DEF LimitInv, WithinLimit
      <4>3. i - 1 \in 0..Len(rows) /\ rows'[i] = rows[i]
        BY <3>1
      <4>4. Before(rows[i].student, i - 1) = Mine(rows[i].student, i - 1)
        BY <3>3, <4>1, <4>3
      <4> QED
        BY <4>2, <4>3, <4>4
    <3>5. Cardinality(Before(StudentOf[r], Len(rows))) < seen[r].limit
      <4>1. StudentOf[r] \in Students /\ Len(rows) \in 0..Len(rows)
        BY <3>1, GateAssumption
      <4>2. Before(StudentOf[r], Len(rows)) = Mine(StudentOf[r], Len(rows))
        BY <3>3, <4>1
      <4> QED
        BY <1>2, <2>1, <4>2 DEF SubmissionCount
    <3>6. /\ (Len(rows) + 1) - 1 = Len(rows)
          /\ \A i \in 1..Len(rows') : i \in 1..Len(rows) \/ i = Len(rows) + 1
      BY <3>1
    <3>7. ASSUME NEW i \in 1..Len(rows')
          PROVE  Cardinality(Before(rows'[i].student, i - 1)) < rows'[i].limit
      BY <3>2, <3>4, <3>5, <3>6
    <3> QED
      BY <3>7 DEF WithinLimit, Mine
  <2> QED
    BY <1>1, <1>3, <2>3, <2>4 DEF LimitInv, CountHolds
<1> QED
  BY <1>5, <1>6

-----------------------------------------------------------------------------
LEMMA GateInvariant == Spec => []GateInv
  BY GateInitial, GateStep, PTL DEF Spec

\* Types hold, and no row lock outlives the request that took it.
THEOREM GateTypesCorrect == Spec => []GateTypeOK
  BY GateInvariant, PTL DEF GateInv

\* No submission is dated at or after the deadline in force at its insert.
THEOREM DeadlineHolds == Spec => []InTime
  BY GateInvariant, PTL DEF GateInv

\* Submission ids and submission times order the rows alike.
THEOREM LatestIsLast == Spec => []IdsFollowTime
  BY GateInvariant, PTL DEF GateInv

\* One request of a student at a time never exceeds the limit it was told.
THEOREM LimitHolds == ~Overlap => (Spec => []WithinLimit)
<1> SUFFICES ASSUME ~Overlap PROVE Spec => []WithinLimit
  OBVIOUS
<1>1. LimitInv /\ [Next]_vars => LimitInv'
  BY LimitStep
<1>2. LimitInv => WithinLimit
  BY DEF LimitInv
<1> QED
  BY <1>1, <1>2, GateInitial, PTL DEF Spec
=============================================================================
