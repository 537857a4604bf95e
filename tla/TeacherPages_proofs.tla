------------------------ MODULE TeacherPages_proofs ------------------------
(***************************************************************************)
(* Theorems about the pages of a teacher: DetectionPage, SimilarityPage    *)
(* and SamplePanel, for any submissions, samples and bounds, each on its   *)
(* own; and about all that MCTeacher puts together, with what              *)
(* Stored_proofs and Calculation_proofs show of the other parts.           *)
(***************************************************************************)
EXTENDS MCTeacher, Stored_proofs, Calculation_proofs, TLAPS, FiniteSetTheorems

(* DetectionPage: whatever is shown, or still to be shown, was stored. *)
RowSet == [Targets -> Row \cup {NoTarget}]

RowsSaved(rs, ever) ==
  \A s \in Targets : rs[s] # NoTarget /\ rs[s].state = "done" => rs[s].result \in ever[s]
BatchesSaved(bs, ever) ==
  \A b \in bs : /\ b.answer # 0 => b.at \in Targets /\ b.answer \in ever[b.at]
                /\ b.made # 0 => b.at \in Targets
ReadingsSaved(rs, ever) ==
  \A r \in rs : r.answer # NoTarget =>
    \A s \in Targets : r.answer[s] # 0 => r.answer[s] \in ever[s]
StoredSaved == \A s \in Targets : saved[s] # 0 => saved[s] \in everSaved[s]

SavedInv ==
  /\ DetectionTypeOK
  /\ RowsSaved(rows, everSaved)
  /\ BatchesSaved(batches, everSaved)
  /\ ReadingsSaved(readings, everSaved)
  /\ StoredSaved

LEMMA SavedGoal == SavedInv => ShownReportsSaved
  BY DEF SavedInv, RowsSaved, ShownReportsSaved, RowsIn, ShownRows

LEMMA PendingRow == Pending \in Row
  BY DEF Pending, Row

LEMMA NoRowsOK == NoRows \in RowSet /\ RowsSaved(NoRows, everSaved)
  BY DEF NoRows, RowSet, RowsSaved

LEMMA SelectionOK ==
  ASSUME NEW m, NEW p, NEW l, l \subseteq Targets PROVE Selection(m, p, l) \subseteq Targets
  BY DEF Selection

LEMMA OutdatedBatches ==
  ASSUME batches \subseteq Batch, BatchesSaved(batches, everSaved)
  PROVE  Outdated(batches) \subseteq Batch /\ BatchesSaved(Outdated(batches), everSaved)
<1> SUFFICES ASSUME NEW b \in Outdated(batches)
             PROVE  /\ b \in Batch
                    /\ b.answer # 0 => b.at \in Targets /\ b.answer \in everSaved[b.at]
                    /\ b.made # 0 => b.at \in Targets
  BY DEF BatchesSaved
<1>1. PICK c \in batches : b = [c EXCEPT !.current = FALSE]
  BY DEF Outdated
<1>2. c \in Batch
  OBVIOUS
<1>3. b \in Batch /\ b.answer = c.answer /\ b.at = c.at /\ b.made = c.made
  BY <1>1, <1>2 DEF Batch
<1> QED
  BY <1>3 DEF BatchesSaved

LEMMA OutdatedReadings ==
  ASSUME readings \subseteq Reading, ReadingsSaved(readings, everSaved)
  PROVE  Outdated(readings) \subseteq Reading /\ ReadingsSaved(Outdated(readings), everSaved)
<1> SUFFICES ASSUME NEW r \in Outdated(readings)
             PROVE  /\ r \in Reading
                    /\ r.answer # NoTarget =>
                         \A s \in Targets : r.answer[s] # 0 => r.answer[s] \in everSaved[s]
  BY DEF ReadingsSaved
<1>1. PICK c \in readings : r = [c EXCEPT !.current = FALSE]
  BY DEF Outdated
<1>2. c \in Reading
  OBVIOUS
<1>3. r \in Reading /\ r.answer = c.answer
  BY <1>1, <1>2 DEF Reading
<1> QED
  BY <1>3 DEF ReadingsSaved

\* A selection is read for: what is on the page is gone.
LEMMA SelectionRead ==
  ASSUME readings \subseteq Reading, ReadingsSaved(readings, everSaved),
         NEW m, NEW p, NEW l, l \subseteq Targets, ReadSaved(m, p, l)
  PROVE  /\ reading' \in BOOLEAN /\ readError' \in BOOLEAN /\ report' \in BOOLEAN
         /\ options' = "unknown"
         /\ rows' \in RowSet /\ RowsSaved(rows', everSaved)
         /\ readings' \subseteq Reading /\ ReadingsSaved(readings', everSaved)
<1> DEFINE new == [current |-> TRUE, sources |-> Selection(m, p, l), answer |-> NoTarget]
<1>1. new \in Reading /\ new.answer = NoTarget
  BY SelectionOK DEF Reading
<1>2. readings' = Outdated(readings) \cup {new}
  BY DEF ReadSaved
<1> HIDE DEF new
<1>3. readings' \subseteq Reading /\ ReadingsSaved(readings', everSaved)
  BY <1>1, <1>2, OutdatedReadings DEF ReadingsSaved
<1>4. rows' = NoRows
  BY DEF ReadSaved
<1> QED
  BY <1>3, <1>4, NoRowsOK DEF ReadSaved

LEMMA MarkedRows ==
  ASSUME NEW rs \in RowSet, RowsSaved(rs, everSaved), NEW s \in Targets,
         NEW state \in {"running", "error"}
  PROVE  Mark(rs, s, state) \in RowSet /\ RowsSaved(Mark(rs, s, state), everSaved)
<1>1. CASE rs[s] = NoTarget
  BY <1>1 DEF Mark
<1>2. CASE rs[s] # NoTarget
  <2> DEFINE row == [rs[s] EXCEPT !.state = state]
  <2>1. row \in Row /\ row.state # "done"
    BY <1>2 DEF RowSet, Row
  <2>2. Mark(rs, s, state) = [rs EXCEPT ![s] = row]
    BY <1>2 DEF Mark
  <2> HIDE DEF row
  <2> QED
    BY <2>1, <2>2 DEF RowSet, RowsSaved
<1> QED
  BY <1>1, <1>2

LEMMA FailedRows ==
  ASSUME NEW rs \in RowSet, RowsSaved(rs, everSaved), NEW ss
  PROVE  Failed(rs, ss) \in RowSet /\ RowsSaved(Failed(rs, ss), everSaved)
<1> SUFFICES ASSUME NEW s \in Targets
             PROVE  /\ Failed(rs, ss)[s] \in Row \cup {NoTarget}
                    /\ Failed(rs, ss)[s] # NoTarget /\ Failed(rs, ss)[s].state = "done"
                         => Failed(rs, ss)[s].result \in everSaved[s]
  BY DEF Failed, RowSet, RowsSaved
<1>1. CASE s \in ss /\ rs[s] # NoTarget /\ rs[s].state = "pending"
  BY <1>1 DEF Failed, RowSet, Row
<1>2. CASE ~(s \in ss /\ rs[s] # NoTarget /\ rs[s].state = "pending")
  BY <1>2 DEF Failed, RowSet, RowsSaved
<1> QED
  BY <1>1, <1>2

\* The batch goes on with rows rs.
LEMMA BatchContinued ==
  ASSUME NEW b \in Batch, NEW rs \in RowSet, RowsSaved(rs, everSaved),
         NEW others, others \subseteq Batch, BatchesSaved(others, everSaved),
         Continue(b, rs, others)
  PROVE  /\ rows' \in RowSet /\ RowsSaved(rows', everSaved)
         /\ batches' \subseteq Batch /\ BatchesSaved(batches', everSaved)
         /\ running' \in BOOLEAN
<1>1. CASE rows' = rs /\ running' = FALSE /\ batches' = others
  BY <1>1
<1>2. ASSUME NEW s \in b.todo, rows' = Mark(rs, s, "running"), running' = TRUE,
             batches' = others \cup
               {[b EXCEPT !.at = s, !.todo = @ \ {s}, !.made = 0, !.answer = 0, !.failure = "none"]}
      PROVE  /\ rows' \in RowSet /\ RowsSaved(rows', everSaved)
             /\ batches' \subseteq Batch /\ BatchesSaved(batches', everSaved)
             /\ running' \in BOOLEAN
  <2> DEFINE c == [b EXCEPT !.at = s, !.todo = @ \ {s}, !.made = 0, !.answer = 0,
                            !.failure = "none"]
  <2>1. s \in Targets
    BY DEF Batch
  <2>2. c \in Batch /\ c.answer = 0 /\ c.made = 0
    BY <2>1 DEF Batch
  <2>3. batches' = others \cup {c}
    BY <1>2
  <2> HIDE DEF c
  <2>4. batches' \subseteq Batch /\ BatchesSaved(batches', everSaved)
    BY <2>2, <2>3 DEF BatchesSaved
  <2> QED
    BY <1>2, <2>1, <2>4, MarkedRows
<1> QED
  BY <1>1, <1>2 DEF Continue

\* A batch is started over some submissions.
LEMMA BatchStarted ==
  ASSUME SavedInv, NEW sources, sources \subseteq Targets, NEW retry \in BOOLEAN,
         NEW regenerate \in BOOLEAN, StartBatch(sources, retry, regenerate)
  PROVE  SavedInv'
<1> DEFINE rs == [s \in Targets |-> IF s \in sources THEN Pending
                                    ELSE IF retry THEN rows[s] ELSE NoTarget]
           b == [current |-> TRUE, at |-> "samples", todo |-> sources,
                 regenerate |-> regenerate, made |-> 0, answer |-> 0, failure |-> "none"]
<1>1. rows \in RowSet /\ batches \subseteq Batch /\ BatchesSaved(batches, everSaved)
      /\ RowsSaved(rows, everSaved)
  BY DEF SavedInv, DetectionTypeOK, RowSet
<1>2. rs \in RowSet
  BY <1>1, PendingRow DEF RowSet
<1>3. RowsSaved(rs, everSaved)
  BY <1>1 DEF RowsSaved, Pending
<1>4. b \in Batch /\ b.answer = 0 /\ b.made = 0
  BY DEF Batch
<1>5. /\ report' = TRUE
      /\ UNCHANGED <<serverVars, listed, mode, picked, reading, readError, options, readings>>
      /\ \/ /\ preparing' = TRUE /\ rows' = rs /\ running' = TRUE
            /\ batches' = batches \cup {b}
         \/ UNCHANGED preparing /\ Continue(b, rs, batches)
  BY DEF StartBatch
<1> HIDE DEF rs, b
<1>6. rows' \in RowSet /\ RowsSaved(rows', everSaved) /\ batches' \subseteq Batch
      /\ BatchesSaved(batches', everSaved) /\ running' \in BOOLEAN /\ preparing' \in BOOLEAN
  <2>1. CASE preparing' = TRUE /\ rows' = rs /\ running' = TRUE /\ batches' = batches \cup {b}
    BY <1>1, <1>2, <1>3, <1>4, <2>1 DEF BatchesSaved
  <2>2. CASE UNCHANGED preparing /\ Continue(b, rs, batches)
    BY <1>1, <1>2, <1>3, <1>4, <2>2, BatchContinued DEF SavedInv, DetectionTypeOK
  <2> QED
    BY <1>5, <2>1, <2>2
<1> QED
  BY <1>5, <1>6 DEF SavedInv, DetectionTypeOK, StoredSaved, RowSet, serverVars

LEMMA SavedInitial == DetectionInit => SavedInv
<1> SUFFICES ASSUME DetectionInit PROVE SavedInv
  OBVIOUS
<1>1. rows \in RowSet /\ RowsSaved(rows, everSaved)
  BY NoRowsOK DEF DetectionInit
<1>2. readings \subseteq Reading
  BY DetectionAssumption DEF DetectionInit, Reading
<1>3. DetectionTypeOK
  <2>1. saved \in [Targets -> Reports \cup {0}] /\ everSaved \in [Targets -> SUBSET Reports]
    BY DEF DetectionInit
  <2>2. generated \in 0..MaxReports /\ listed \subseteq Targets
    BY DetectionAssumption DEF DetectionInit
  <2> QED
    BY <1>1, <1>2, <2>1, <2>2 DEF DetectionInit, DetectionTypeOK, RowSet
<1> QED
  BY <1>1, <1>3 DEF DetectionInit, SavedInv, BatchesSaved, ReadingsSaved, StoredSaved

LEMMA SavedStep == SavedInv /\ [DetectionNext]_detectionVars => SavedInv'
<1> SUFFICES ASSUME SavedInv, [DetectionNext]_detectionVars PROVE SavedInv'
  OBVIOUS
<1>t. /\ rows \in RowSet /\ RowsSaved(rows, everSaved)
      /\ batches \subseteq Batch /\ BatchesSaved(batches, everSaved)
      /\ readings \subseteq Reading /\ ReadingsSaved(readings, everSaved)
      /\ listed \subseteq Targets /\ report \in BOOLEAN
      /\ RowsIn({"pending"}) \subseteq Targets
      /\ RowsIn({"error", "stopped"}) \subseteq Targets
      /\ Selected \subseteq Targets
  BY SelectionOK DEF SavedInv, DetectionTypeOK, RowSet, RowsIn, ShownRows, Selected
\* The page alone changes, or a batch or reading is as it should be.
<1>p. ASSUME UNCHANGED serverVars,
             listed' \subseteq Targets, mode' \in {"class", "single"},
             picked' \in Targets \cup {NoTarget},
             rows' \in RowSet, RowsSaved(rows', everSaved),
             running' \in BOOLEAN, preparing' \in BOOLEAN, reading' \in BOOLEAN,
             readError' \in BOOLEAN, report' \in BOOLEAN, options' \in {"unknown", configured},
             batches' \subseteq Batch, BatchesSaved(batches', everSaved),
             readings' \subseteq Reading, ReadingsSaved(readings', everSaved)
      PROVE  SavedInv'
  BY <1>p DEF SavedInv, DetectionTypeOK, StoredSaved, RowSet, serverVars
<1>r. ASSUME NEW m, NEW p, NEW l, l \subseteq Targets, ReadSaved(m, p, l),
             UNCHANGED serverVars,
             listed' \subseteq Targets, mode' \in {"class", "single"},
             picked' \in Targets \cup {NoTarget},
             running' \in BOOLEAN, preparing' \in BOOLEAN,
             batches' \subseteq Batch, BatchesSaved(batches', everSaved)
      PROVE  SavedInv'
  BY <1>t, <1>r, <1>p, SelectionRead
<1>b. ASSUME NEW bs, bs \subseteq Batch, BatchesSaved(bs, everSaved), batches' = bs,
             UNCHANGED <<serverVars, listed, mode, picked, rows, running, preparing, reading,
                         readError, options, report, readings>>
      PROVE  SavedInv'
  BY <1>t, <1>b, <1>p DEF SavedInv, DetectionTypeOK
<1>1. CASE Reopen
  BY <1>1, <1>t, <1>r, OutdatedBatches DEF Reopen
<1>2. ASSUME NEW s \in Targets, ListGrows(s) PROVE SavedInv'
  <2>1. listed' \subseteq Targets
    BY <1>2, <1>t DEF ListGrows
  <2>2. CASE mode = "class"
    BY <1>2, <2>1, <2>2, <1>t, <1>r DEF ListGrows, SavedInv, DetectionTypeOK
  <2>3. CASE mode # "class"
    BY <1>2, <2>1, <2>3, <1>t, <1>p DEF ListGrows, SavedInv, DetectionTypeOK
  <2> QED
    BY <2>2, <2>3
<1>3. ASSUME NEW m \in {"class", "single"}, NEW p \in Targets \cup {NoTarget}, Choose(m, p)
      PROVE  SavedInv'
  BY <1>3, <1>t, <1>r DEF Choose, SavedInv, DetectionTypeOK
<1>4. CASE RetryReading
  BY <1>4, <1>t, <1>r DEF RetryReading, SavedInv, DetectionTypeOK
<1>5. ASSUME NEW r \in readings, ServeReading(r) PROVE SavedInv'
  <2> DEFINE read == [s \in Targets |-> IF s \in r.sources THEN saved[s] ELSE 0]
             new == [r EXCEPT !.answer = read]
  <2>1. read \in [Targets -> Reports \cup {0}]
        /\ \A s \in Targets : read[s] # 0 => read[s] \in everSaved[s]
    BY DEF SavedInv, DetectionTypeOK, StoredSaved
  <2> HIDE DEF read
  <2>2. new \in Reading /\ new.answer = read
    BY <1>t, <2>1 DEF Reading
  <2>3. readings' = (readings \ {r}) \cup {new}
    BY <1>5 DEF ServeReading, read
  <2> HIDE DEF new
  <2>4. readings' \subseteq Reading /\ ReadingsSaved(readings', everSaved)
    BY <1>t, <2>1, <2>2, <2>3 DEF ReadingsSaved
  <2> QED
    BY <1>5, <2>4, <1>t, <1>p DEF ServeReading, SavedInv, DetectionTypeOK
<1>6. ASSUME NEW r \in readings, ReadingAnswered(r) PROVE SavedInv'
  <2>1. readings' \subseteq Reading /\ ReadingsSaved(readings', everSaved)
    BY <1>6, <1>t DEF ReadingAnswered, ReadingsSaved
  <2>2. r.answer \in [Targets -> Reports \cup {0}]
        /\ \A s \in Targets : r.answer[s] # 0 => r.answer[s] \in everSaved[s]
    BY <1>6, <1>t DEF ReadingAnswered, ReadingsSaved, Reading
  <2>3. Restored(r) \in RowSet
    <3> SUFFICES ASSUME NEW s \in Targets PROVE Restored(r)[s] \in Row \cup {NoTarget}
      BY DEF Restored, RowSet
    <3> QED
      BY <2>2, PendingRow DEF Restored, Row
  <2>4. RowsSaved(Restored(r), everSaved)
    <3> SUFFICES ASSUME NEW s \in Targets, Restored(r)[s] # NoTarget,
                        Restored(r)[s].state = "done"
                 PROVE  Restored(r)[s].result \in everSaved[s]
      BY DEF RowsSaved
    <3> QED
      BY <2>2 DEF Restored, Pending
  <2>5. CASE IsCurrent(r)
    BY <1>6, <2>1, <2>3, <2>4, <2>5, <1>t, <1>p DEF ReadingAnswered, SavedInv, DetectionTypeOK
  <2>6. CASE ~IsCurrent(r)
    BY <1>6, <2>1, <2>6, <1>t, <1>p DEF ReadingAnswered, SavedInv, DetectionTypeOK
  <2> QED
    BY <2>5, <2>6
<1>7. ASSUME NEW r \in readings, ReadingFails(r) PROVE SavedInv'
  <2>1. readings' \subseteq Reading /\ ReadingsSaved(readings', everSaved)
    BY <1>7, <1>t DEF ReadingFails, ReadingsSaved
  <2> QED
    BY <1>7, <2>1, <1>t, <1>p DEF ReadingFails, SavedInv, DetectionTypeOK
<1>8. CASE Detect
  BY <1>8, <1>t, BatchStarted DEF Detect
<1>9. CASE DetectMissing
  BY <1>9, <1>t, BatchStarted DEF DetectMissing
<1>10. CASE RetryFailed
  BY <1>10, <1>t, BatchStarted DEF RetryFailed
<1>11. CASE Stop
  <2> DEFINE rs == [s \in Targets |-> IF s \in RowsIn({"pending", "running"})
                                      THEN [rows[s] EXCEPT !.state = "stopped"] ELSE rows[s]]
  <2>1. rs \in RowSet /\ RowsSaved(rs, everSaved)
    <3> SUFFICES ASSUME NEW s \in Targets
                 PROVE  /\ rs[s] \in Row \cup {NoTarget}
                        /\ rs[s] # NoTarget /\ rs[s].state = "done" => rs[s].result \in everSaved[s]
      BY DEF RowSet, RowsSaved
    <3>1. CASE s \in RowsIn({"pending", "running"})
      <4>1. rows[s] \in Row
        BY <1>t, <3>1 DEF RowSet, RowsIn, ShownRows
      <4> QED
        BY <3>1, <4>1 DEF Row
    <3>2. CASE s \notin RowsIn({"pending", "running"})
      BY <1>t, <3>2 DEF RowSet, RowsSaved
    <3> QED
      BY <3>1, <3>2
  <2>2. rows' = rs
    BY <1>11 DEF Stop
  <2> HIDE DEF rs
  <2> QED
    BY <1>11, <2>1, <2>2, <1>t, <1>p, OutdatedBatches DEF Stop, SavedInv, DetectionTypeOK
<1> DEFINE Less(b) == batches \ {b}
<1>l. ASSUME NEW b PROVE Less(b) \subseteq Batch /\ BatchesSaved(Less(b), everSaved)
  BY <1>t DEF BatchesSaved
\* What becomes of the page when a batch goes on or is abandoned.
<1>c. ASSUME NEW b \in batches, NEW rs \in RowSet, RowsSaved(rs, everSaved),
             Continue(b, rs, Less(b)) \/ Abandon(rs, Less(b)),
             UNCHANGED <<serverVars, listed, mode, picked, reading, readError, options, report,
                         readings>>,
             preparing' \in BOOLEAN
      PROVE  SavedInv'
  <2>1. /\ rows' \in RowSet /\ RowsSaved(rows', everSaved)
        /\ batches' \subseteq Batch /\ BatchesSaved(batches', everSaved) /\ running' \in BOOLEAN
    <3>1. CASE Continue(b, rs, Less(b))
      <4>1. b \in Batch
        BY <1>t
      <4> QED
        BY <1>c, <1>l, <3>1, <4>1, BatchContinued
    <3>2. CASE Abandon(rs, Less(b))
      BY <1>c, <1>l, <3>2 DEF Abandon
    <3> QED
      BY <1>c, <3>1, <3>2
  <2> QED
    BY <1>c, <2>1, <1>t, <1>p DEF SavedInv, DetectionTypeOK
<1>12. ASSUME NEW b \in batches, SamplesReady(b) PROVE SavedInv'
  <2>1. CASE IsCurrent(b)
    BY <1>12, <2>1, <1>t, <1>c DEF SamplesReady
  <2>2. CASE ~IsCurrent(b)
    BY <1>12, <2>2, <1>l, <1>b DEF SamplesReady
  <2> QED
    BY <2>1, <2>2
<1>13. ASSUME NEW b \in batches, SamplesFail(b) PROVE SavedInv'
  <2>1. CASE IsCurrent(b)
    BY <1>13, <2>1, <1>t, <1>c, FailedRows DEF SamplesFail
  <2>2. CASE ~IsCurrent(b)
    BY <1>13, <2>2, <1>l, <1>b DEF SamplesFail
  <2> QED
    BY <2>1, <2>2
<1>14. ASSUME NEW b \in batches, AnswerStored(b) PROVE SavedInv'
  <2> DEFINE new == [b EXCEPT !.answer = saved[b.at]]
  <2>1. b \in Batch /\ b.at \in Targets /\ saved[b.at] \in Reports \cup {0}
        /\ saved[b.at] \in everSaved[b.at]
    BY <1>14, <1>t DEF AnswerStored, Unserved, SavedInv, DetectionTypeOK, StoredSaved
  <2>2. new \in Batch /\ new.at = b.at /\ new.answer = saved[b.at]
    BY <2>1 DEF Batch
  <2>3. batches' = Less(b) \cup {new}
    BY <1>14 DEF AnswerStored
  <2> HIDE DEF new
  <2>4. batches' \subseteq Batch /\ BatchesSaved(batches', everSaved)
    BY <1>l, <2>1, <2>2, <2>3 DEF BatchesSaved
  <2> QED
    BY <1>14, <2>4, <1>b DEF AnswerStored
<1>15. ASSUME NEW b \in batches, Generate(b) PROVE SavedInv'
  <2> DEFINE new == [b EXCEPT !.made = generated + 1]
  <2>1. b \in Batch /\ b.at \in Targets /\ generated + 1 \in Reports /\ generated' \in 0..MaxReports
        /\ b.answer = 0
    BY <1>15, <1>t, DetectionAssumption
       DEF Generate, Unserved, Served, SavedInv, DetectionTypeOK, Reports
  <2>2. new \in Batch /\ new.at = b.at /\ new.answer = 0
    BY <2>1 DEF Batch
  <2>3. batches' = Less(b) \cup {new}
    BY <1>15 DEF Generate
  <2> HIDE DEF new
  <2>4. batches' \subseteq Batch /\ BatchesSaved(batches', everSaved)
    BY <1>l, <2>1, <2>2, <2>3 DEF BatchesSaved
  <2> QED
    BY <1>15, <2>1, <2>4, <1>t DEF Generate, SavedInv, DetectionTypeOK, StoredSaved
<1>16. ASSUME NEW b \in batches, SaveReport(b) PROVE SavedInv'
  <2> DEFINE new == [b EXCEPT !.answer = b.made]
  <2>1. b \in Batch /\ b.at \in Targets /\ b.made \in Reports
    BY <1>16, <1>t DEF SaveReport, BatchesSaved, Batch
  <2>2. new \in Batch /\ new.at = b.at /\ new.answer = b.made
    BY <2>1 DEF Batch
  <2>3. batches' = Less(b) \cup {new}
    BY <1>16 DEF SaveReport
  <2> HIDE DEF new
  <2>4. saved' = [saved EXCEPT ![b.at] = b.made]
        /\ everSaved' = [everSaved EXCEPT ![b.at] = everSaved[b.at] \cup {b.made}]
    BY <1>16 DEF SaveReport, Store
  <2>5. /\ saved' \in [Targets -> Reports \cup {0}] /\ everSaved' \in [Targets -> SUBSET Reports]
        /\ b.made \in everSaved'[b.at]
        /\ \A s \in Targets : everSaved[s] \subseteq everSaved'[s]
    BY <2>1, <2>4 DEF SavedInv, DetectionTypeOK
  <2>6. StoredSaved'
    BY <2>1, <2>4, <2>5 DEF SavedInv, DetectionTypeOK, StoredSaved
  <2>7. RowsSaved(rows, everSaved') /\ ReadingsSaved(readings, everSaved')
    BY <1>t, <2>5 DEF RowsSaved, ReadingsSaved
  <2>8. batches' \subseteq Batch /\ BatchesSaved(batches', everSaved')
    BY <1>t, <1>l, <2>1, <2>2, <2>3, <2>5 DEF BatchesSaved
  <2> QED
    BY <1>16, <2>5, <2>6, <2>7, <2>8 DEF SaveReport, SavedInv, DetectionTypeOK
<1>17. ASSUME NEW b \in batches, ServeFails(b) PROVE SavedInv'
  <2>1. PICK e \in {"error", "refused"} : batches' = Less(b) \cup {[b EXCEPT !.failure = e]}
    BY <1>17 DEF ServeFails
  <2> DEFINE new == [b EXCEPT !.failure = e]
  <2>2. new \in Batch /\ new.at = b.at /\ new.answer = b.answer /\ new.made = b.made
    BY <1>t DEF Batch
  <2>3. batches' = Less(b) \cup {new}
    BY <2>1
  <2> HIDE DEF new
  <2>4. batches' \subseteq Batch /\ BatchesSaved(batches', everSaved)
    BY <1>t, <1>l, <2>2, <2>3 DEF BatchesSaved
  <2> QED
    BY <1>17, <2>4, <1>b DEF ServeFails
<1>18. ASSUME NEW b \in batches, BatchAnswered(b) PROVE SavedInv'
  <2>1. CASE IsCurrent(b)
    <3> DEFINE row == [state |-> "done", result |-> b.answer]
               rs == Update(rows, b.at, row)
    <3>1. b.at \in Targets /\ b.answer \in everSaved[b.at] /\ b.answer \in Reports \cup {0}
      BY <1>18, <1>t DEF BatchAnswered, BatchesSaved, Batch
    <3>2. row \in Row /\ row.result = b.answer
      BY <3>1 DEF Row
    <3> HIDE DEF row
    <3>3. rs \in RowSet /\ RowsSaved(rs, everSaved)
      BY <1>t, <3>1, <3>2 DEF Update, RowSet, RowsSaved
    <3>4. Continue(b, rs, Less(b)) /\ preparing' \in BOOLEAN
          /\ UNCHANGED <<serverVars, listed, mode, picked, reading, readError, options, report,
                         readings>>
      BY <1>18, <2>1 DEF BatchAnswered, row, SavedInv, DetectionTypeOK
    <3> HIDE DEF rs
    <3> QED
      BY <3>3, <3>4, <1>c
  <2>2. CASE ~IsCurrent(b)
    BY <1>18, <2>2, <1>l, <1>b DEF BatchAnswered
  <2> QED
    BY <2>1, <2>2
<1>19. ASSUME NEW b \in batches, BatchFails(b) PROVE SavedInv'
  <2>1. CASE IsCurrent(b)
    <3> DEFINE rs == Mark(rows, b.at, "error")
    <3>1. rs \in RowSet /\ RowsSaved(rs, everSaved)
      <4>1. CASE b.at \in Targets
        BY <1>t, <4>1, MarkedRows
      <4>2. CASE b.at \notin Targets
        BY <1>t, <4>2 DEF Mark, RowSet, RowsSaved
      <4> QED
        BY <4>1, <4>2
    <3>2. Failed(rs, Targets) \in RowSet /\ RowsSaved(Failed(rs, Targets), everSaved)
      BY <3>1, FailedRows
    <3>3. /\ Continue(b, rs, Less(b)) \/ Abandon(Failed(rs, Targets), Less(b))
          /\ preparing' \in BOOLEAN
          /\ UNCHANGED <<serverVars, listed, mode, picked, reading, readError, options, report,
                         readings>>
      BY <1>19, <2>1 DEF BatchFails, SavedInv, DetectionTypeOK
    <3> HIDE DEF rs
    <3> QED
      BY <3>1, <3>2, <3>3, <1>c
  <2>2. CASE ~IsCurrent(b)
    BY <1>19, <2>2, <1>l, <1>b DEF BatchFails
  <2> QED
    BY <2>1, <2>2
<1>20. CASE UNCHANGED detectionVars
  BY <1>20, <1>t, <1>p DEF detectionVars, serverVars, SavedInv, DetectionTypeOK
<1> QED
  BY <1>1, <1>2, <1>3, <1>4, <1>5, <1>6, <1>7, <1>8, <1>9, <1>10, <1>11, <1>12, <1>13, <1>14,
     <1>15, <1>16, <1>17, <1>18, <1>19, <1>20 DEF DetectionNext

\* The page, its batches and its readings are what they should be.
THEOREM DetectionTypesCorrect == DetectionSpec => []DetectionTypeOK
<1>1. SavedInv => DetectionTypeOK
  BY DEF SavedInv
<1> QED
  BY <1>1, SavedInitial, SavedStep, PTL DEF DetectionSpec

\* A report that is shown was stored for just that submission.
THEOREM ShownWasSaved == DetectionSpec => []ShownReportsSaved
  BY SavedInitial, SavedStep, SavedGoal, PTL DEF DetectionSpec

LEMMA OutdatedKeepsStale ==
  /\ batches \subseteq Batch => StaleOf(batches) \subseteq Outdated(batches)
  /\ readings \subseteq Reading => StaleOf(readings) \subseteq Outdated(readings)
<1>1. ASSUME NEW b \in Batch, ~b.current PROVE b = [b EXCEPT !.current = FALSE]
  BY <1>1 DEF Batch
<1>2. ASSUME NEW r \in Reading, ~r.current PROVE r = [r EXCEPT !.current = FALSE]
  BY <1>2 DEF Reading
<1> QED
  BY <1>1, <1>2 DEF StaleOf, Outdated

\* The answer to an outdated batch or reading changes nothing that is shown.
LEMMA DetectionIgnores ==
  ASSUME SavedInv, [DetectionNext]_detectionVars PROVE OutdatedDetection
<1>t. batches \subseteq Batch /\ readings \subseteq Reading
  BY DEF SavedInv, DetectionTypeOK
<1>o. StaleOf(batches) \subseteq Outdated(batches) /\ StaleOf(readings) \subseteq Outdated(readings)
  BY <1>t, OutdatedKeepsStale
<1>k. ASSUME StaleOf(batches) \subseteq batches', StaleOf(readings) \subseteq readings'
      PROVE  OutdatedDetection
  BY <1>k DEF OutdatedDetection
<1>u. ASSUME UNCHANGED <<rows, running, preparing, reading, readError, options, report>>
      PROVE  OutdatedDetection
  BY <1>u DEF OutdatedDetection
<1>s. StaleOf(batches) \subseteq batches /\ StaleOf(readings) \subseteq readings
  BY DEF StaleOf
<1>r. ASSUME NEW m, NEW p, NEW l, ReadSaved(m, p, l) PROVE StaleOf(readings) \subseteq readings'
  BY <1>r, <1>o DEF ReadSaved
<1>d. ASSUME NEW sources, NEW retry, NEW regenerate, StartBatch(sources, retry, regenerate)
      PROVE  OutdatedDetection
  <2>1. batches \subseteq batches' /\ readings' = readings
    BY <1>d DEF StartBatch, Continue
  <2> QED
    BY <2>1, <1>s, <1>k
<1>c. ASSUME NEW b \in batches, IsCurrent(b), readings' = readings,
             NEW rs, Continue(b, rs, batches \ {b}) \/ Abandon(rs, batches \ {b})
      PROVE  OutdatedDetection
  <2>1. batches \ {b} \subseteq batches'
    BY <1>c DEF Continue, Abandon
  <2>2. b \notin StaleOf(batches)
    BY <1>c DEF StaleOf, IsCurrent
  <2> QED
    BY <1>c, <1>k, <1>s, <2>1, <2>2
<1>1. CASE Reopen
  BY <1>1, <1>o, <1>r, <1>k DEF Reopen
<1>2. ASSUME NEW s \in Targets, ListGrows(s) PROVE OutdatedDetection
  BY <1>2, <1>s, <1>r, <1>k, <1>u DEF ListGrows
<1>3. ASSUME NEW m \in {"class", "single"}, NEW p \in Targets \cup {NoTarget}, Choose(m, p)
      PROVE  OutdatedDetection
  BY <1>3, <1>s, <1>r, <1>k DEF Choose
<1>4. CASE RetryReading
  BY <1>4, <1>s, <1>r, <1>k DEF RetryReading
<1>5. ASSUME NEW r \in readings, ServeReading(r) PROVE OutdatedDetection
  BY <1>5, <1>u DEF ServeReading
<1>6. ASSUME NEW r \in readings, ReadingAnswered(r) \/ ReadingFails(r) PROVE OutdatedDetection
  <2>1. CASE IsCurrent(r)
    <3>1. readings' = readings \ {r} /\ batches' = batches
      BY <1>6 DEF ReadingAnswered, ReadingFails
    <3>2. r \notin StaleOf(readings)
      BY <2>1 DEF StaleOf, IsCurrent
    <3> QED
      BY <3>1, <3>2, <1>s, <1>k
  <2>2. CASE ~IsCurrent(r)
    BY <1>6, <2>2, <1>u DEF ReadingAnswered, ReadingFails
  <2> QED
    BY <2>1, <2>2
<1>7. CASE Detect \/ DetectMissing \/ RetryFailed
  BY <1>7, <1>d DEF Detect, DetectMissing, RetryFailed
<1>8. CASE Stop
  BY <1>8, <1>o, <1>s, <1>k DEF Stop
<1>9. ASSUME NEW b \in batches, SamplesReady(b) \/ SamplesFail(b) PROVE OutdatedDetection
  <2>1. CASE IsCurrent(b)
    BY <1>9, <2>1, <1>c DEF SamplesReady, SamplesFail
  <2>2. CASE ~IsCurrent(b)
    BY <1>9, <2>2, <1>u DEF SamplesReady, SamplesFail
  <2> QED
    BY <2>1, <2>2
<1>10. ASSUME NEW b \in batches, AnswerStored(b) \/ Generate(b) \/ SaveReport(b) \/ ServeFails(b)
       PROVE  OutdatedDetection
  BY <1>10, <1>u DEF AnswerStored, Generate, SaveReport, ServeFails
<1>11. ASSUME NEW b \in batches, BatchAnswered(b) \/ BatchFails(b) PROVE OutdatedDetection
  <2>1. CASE IsCurrent(b)
    BY <1>11, <2>1, <1>c DEF BatchAnswered, BatchFails
  <2>2. CASE ~IsCurrent(b)
    BY <1>11, <2>2, <1>u DEF BatchAnswered, BatchFails
  <2> QED
    BY <2>1, <2>2
<1>12. CASE UNCHANGED detectionVars
  BY <1>12, <1>u DEF detectionVars
<1> QED
  BY <1>1, <1>2, <1>3, <1>4, <1>5, <1>6, <1>7, <1>8, <1>9, <1>10, <1>11, <1>12 DEF DetectionNext

-----------------------------------------------------------------------------
(* What is under way on DetectionPage and its marks: of the requests one at *)
(* most counts, and the mark is set exactly while there is one.             *)
Unique(S) == \A x, y \in S : x.current /\ y.current => x = y
Present(S) == \E x \in S : x.current
Calm(rs) == \A s \in Targets : rs[s] # NoTarget => rs[s].state # "running"

BatchesBusy(rs, bs, run, prep) ==
  /\ Unique(bs)
  /\ run <=> Present(bs)
  /\ prep <=> \E b \in bs : b.current /\ b.at = "samples"
  /\ \A s \in Targets :
       rs[s] # NoTarget /\ rs[s].state = "running" => \E b \in bs : b.current /\ b.at = s
  /\ \A b \in bs : b.failure # "none" => b.at \in Targets
ReadingsBusy(rs, read) == Unique(rs) /\ (read <=> Present(rs))
BusyInv ==
  BatchesBusy(rows, batches, running, preparing) /\ ReadingsBusy(readings, reading)

LEMMA MarkCounts ==
  ASSUME NEW S, NEW mark \in BOOLEAN, Unique(S), mark <=> Present(S)
  PROVE  Cardinality({x \in S : x.current}) = IF mark THEN 1 ELSE 0
<1>1. CASE mark
  <2>1. PICK x \in S : x.current
    BY <1>1 DEF Present
  <2>2. {y \in S : y.current} = {x}
    BY <2>1 DEF Unique
  <2> QED
    BY <1>1, <2>2, FS_Singleton
<1>2. CASE ~mark
  <2>1. {y \in S : y.current} = {}
    BY <1>2 DEF Present
  <2> QED
    BY <1>2, <2>1, FS_EmptySet
<1> QED
  BY <1>1, <1>2

LEMMA BusyGoal == DetectionTypeOK /\ BusyInv => DetectionBusy
<1> SUFFICES ASSUME DetectionTypeOK, BusyInv PROVE DetectionBusy
  OBVIOUS
<1>1. Cardinality({b \in batches : b.current}) = IF running THEN 1 ELSE 0
  BY MarkCounts DEF BusyInv, BatchesBusy, DetectionTypeOK
<1>2. Cardinality({r \in readings : r.current}) = IF reading THEN 1 ELSE 0
  BY MarkCounts DEF BusyInv, ReadingsBusy, DetectionTypeOK
<1>3. \A s \in RowsIn({"running"}) : \E b \in batches : b.current /\ b.at = s
  BY DEF BusyInv, BatchesBusy, RowsIn, ShownRows
<1> QED
  BY <1>1, <1>2, <1>3 DEF DetectionBusy, BusyInv, BatchesBusy

\* Other rows, none of which runs that did not, leave all as it is.
LEMMA RowsCalmed ==
  ASSUME NEW rs, NEW bs, NEW run, NEW prep, NEW qs, BatchesBusy(rs, bs, run, prep),
         \A s \in Targets : qs[s] # NoTarget /\ qs[s].state = "running" => qs[s] = rs[s]
  PROVE  BatchesBusy(qs, bs, run, prep)
  BY DEF BatchesBusy

LEMMA NothingBusy ==
  ASSUME NEW rs, Calm(rs), NEW bs, ~Present(bs),
         \A b \in bs : b.failure # "none" => b.at \in Targets
  PROVE  BatchesBusy(rs, bs, FALSE, FALSE)
  BY DEF BatchesBusy, Unique, Present, Calm

\* While there are no samples to wait for and a batch is at a submission, the
\* row of that submission is the only one that may run.
LEMMA OnlyItsRow ==
  ASSUME NEW rs, NEW bs, NEW run, NEW prep, BatchesBusy(rs, bs, run, prep),
         NEW b \in bs, b.current,
         NEW s \in Targets, rs[s] # NoTarget, rs[s].state = "running"
  PROVE  s = b.at
  BY DEF BatchesBusy, Unique

LEMMA NoBatchNoRow ==
  ASSUME NEW rs, NEW bs, NEW run, NEW prep, BatchesBusy(rs, bs, run, prep), ~run
  PROVE  Calm(rs)
  BY DEF BatchesBusy, Present, Calm

LEMMA BatchReplaced ==
  ASSUME NEW rs, NEW bs, NEW run, NEW prep, BatchesBusy(rs, bs, run, prep),
         NEW b \in bs, NEW c, c.current = b.current, c.at = b.at,
         c.failure # "none" => c.at \in Targets
  PROVE  BatchesBusy(rs, (bs \ {b}) \cup {c}, run, prep)
<1> DEFINE cs == (bs \ {b}) \cup {c}
<1>1. Unique(cs)
  BY DEF BatchesBusy, Unique
<1>2. \A x \in bs : \E y \in cs : y.current = x.current /\ y.at = x.at
  OBVIOUS
<1>3. \A y \in cs : \E x \in bs : y.current = x.current /\ y.at = x.at
  OBVIOUS
<1>4. \A y \in cs : y.failure # "none" => y.at \in Targets
  BY DEF BatchesBusy
<1> HIDE DEF cs
<1>5. Present(cs) <=> Present(bs)
  BY <1>2, <1>3 DEF Present
<1>6. (\E y \in cs : y.current /\ y.at = "samples")
        <=> (\E x \in bs : x.current /\ x.at = "samples")
  BY <1>2, <1>3
<1>7. \A s \in Targets :
        rs[s] # NoTarget /\ rs[s].state = "running" => \E y \in cs : y.current /\ y.at = s
  BY <1>2 DEF BatchesBusy
<1> QED
  BY <1>1, <1>4, <1>5, <1>6, <1>7 DEF BatchesBusy, cs

LEMMA StaleRemoved ==
  ASSUME NEW rs, NEW bs, NEW run, NEW prep, BatchesBusy(rs, bs, run, prep),
         NEW b \in bs, ~b.current
  PROVE  BatchesBusy(rs, bs \ {b}, run, prep)
  BY DEF BatchesBusy, Unique, Present

\* Without the present batch there is none.
LEMMA PresentRemoved ==
  ASSUME NEW rs, NEW bs, NEW run, NEW prep, BatchesBusy(rs, bs, run, prep),
         NEW b \in bs, b.current
  PROVE  ~Present(bs \ {b}) /\ \A c \in bs \ {b} : c.failure # "none" => c.at \in Targets
  BY DEF BatchesBusy, Unique, Present

LEMMA BatchesOutdated ==
  ASSUME NEW rs, NEW run, NEW prep, BatchesBusy(rs, batches, run, prep), batches \subseteq Batch
  PROVE  /\ ~Present(Outdated(batches))
         /\ \A c \in Outdated(batches) : c.failure # "none" => c.at \in Targets
<1> SUFFICES ASSUME NEW c \in Outdated(batches)
             PROVE  ~c.current /\ (c.failure # "none" => c.at \in Targets)
  BY DEF Present
<1>1. PICK b \in batches : c = [b EXCEPT !.current = FALSE]
  BY DEF Outdated
<1>2. c.current = FALSE /\ c.at = b.at /\ c.failure = b.failure
  BY <1>1 DEF Batch
<1> QED
  BY <1>2 DEF BatchesBusy

\* A batch that goes on is the present one, at the row it makes run.
LEMMA BatchWentOn ==
  ASSUME NEW b \in Batch, b.current, NEW rs \in RowSet, Calm(rs),
         NEW others, ~Present(others),
         \A c \in others : c.failure # "none" => c.at \in Targets,
         Continue(b, rs, others)
  PROVE  BatchesBusy(rows', batches', running', FALSE)
<1>1. CASE rows' = rs /\ running' = FALSE /\ batches' = others
  BY <1>1, NothingBusy
<1>2. ASSUME NEW s \in b.todo, rows' = Mark(rs, s, "running"), running' = TRUE,
             batches' = others \cup
               {[b EXCEPT !.at = s, !.todo = @ \ {s}, !.made = 0, !.answer = 0, !.failure = "none"]}
      PROVE  BatchesBusy(rows', batches', running', FALSE)
  <2> DEFINE c == [b EXCEPT !.at = s, !.todo = @ \ {s}, !.made = 0, !.answer = 0,
                            !.failure = "none"]
  <2>1. s \in Targets /\ s # "samples"
    BY DetectionAssumption DEF Batch
  <2>2. c.at = s /\ c.current /\ c.failure = "none"
    BY <2>1 DEF Batch
  <2>3. batches' = others \cup {c}
    BY <1>2
  <2> HIDE DEF c
  <2>4. \A t \in Targets : rows'[t] # NoTarget /\ rows'[t].state = "running" => t = s
    BY <1>2, <2>1 DEF Mark, Calm, RowSet
  <2>5. Unique(batches') /\ Present(batches')
    BY <2>2, <2>3 DEF Unique, Present
  <2>6. \A x \in batches' : x.current => x = c
    BY <2>3 DEF Present
  <2>7. ~\E x \in batches' : x.current /\ x.at = "samples"
    BY <2>1, <2>2, <2>6
  <2>8. \A x \in batches' : x.failure # "none" => x.at \in Targets
    BY <2>2, <2>3
  <2>9. \A t \in Targets : rows'[t] # NoTarget /\ rows'[t].state = "running"
          => \E x \in batches' : x.current /\ x.at = t
    BY <2>2, <2>3, <2>4
  <2> QED
    BY <1>2, <2>5, <2>7, <2>8, <2>9 DEF BatchesBusy
<1> QED
  BY <1>1, <1>2 DEF Continue

\* A selection is read for: nothing runs, and the one reading is the new one.
LEMMA SelectionBusy ==
  ASSUME readings \subseteq Reading, NEW m, NEW p, NEW l, ReadSaved(m, p, l)
  PROVE  rows' = NoRows /\ ReadingsBusy(readings', reading')
<1> DEFINE new == [current |-> TRUE, sources |-> Selection(m, p, l), answer |-> NoTarget]
<1>1. readings' = Outdated(readings) \cup {new} /\ reading' = TRUE /\ new.current
  BY DEF ReadSaved
<1> HIDE DEF new
<1>2. \A r \in Outdated(readings) : ~r.current
  BY DEF Outdated, Reading
<1>3. Unique(readings') /\ Present(readings')
  BY <1>1, <1>2 DEF Unique, Present
<1> QED
  BY <1>1, <1>3 DEF ReadSaved, ReadingsBusy

LEMMA BusyInitial == DetectionInit => BusyInv
  BY DEF DetectionInit, BusyInv, BatchesBusy, ReadingsBusy, Unique, Present, NoRows

\* A batch starts when none runs, so that no row does.
LEMMA StartBusy ==
  ASSUME SavedInv, BusyInv, NEW sources, sources \subseteq Targets, NEW retry \in BOOLEAN,
         NEW regenerate \in BOOLEAN, StartBatch(sources, retry, regenerate)
  PROVE  BusyInv'
<1> DEFINE rs == [s \in Targets |-> IF s \in sources THEN Pending
                                    ELSE IF retry THEN rows[s] ELSE NoTarget]
           b == [current |-> TRUE, at |-> "samples", todo |-> sources,
                 regenerate |-> regenerate, made |-> 0, answer |-> 0, failure |-> "none"]
<1>1. rows \in RowSet /\ ~running /\ running \in BOOLEAN /\ preparing \in BOOLEAN
  BY DEF SavedInv, DetectionTypeOK, RowSet, StartBatch
<1>2. Calm(rows) /\ ~Present(batches) /\ ~preparing
      /\ \A c \in batches : c.failure # "none" => c.at \in Targets
  BY <1>1, NoBatchNoRow DEF BusyInv, BatchesBusy, Present
<1>3. rs \in RowSet /\ Calm(rs)
  BY <1>1, <1>2, PendingRow DEF RowSet, Calm, Pending
<1>4. b \in Batch /\ b.current /\ b.at = "samples" /\ b.failure = "none"
  BY DEF Batch
<1>5. /\ UNCHANGED <<reading, readings>>
      /\ \/ /\ preparing' = TRUE /\ rows' = rs /\ running' = TRUE
            /\ batches' = batches \cup {b}
         \/ UNCHANGED preparing /\ Continue(b, rs, batches)
  BY DEF StartBatch
<1> HIDE DEF rs, b
<1>6. CASE preparing' = TRUE /\ rows' = rs /\ running' = TRUE /\ batches' = batches \cup {b}
  <2>1. Unique(batches') /\ Present(batches')
    BY <1>2, <1>4, <1>6 DEF Unique, Present
  <2>2. \A c \in batches' : c.failure # "none" => c.at \in Targets
    BY <1>2, <1>4, <1>6
  <2>3. \E c \in batches' : c.current /\ c.at = "samples"
    BY <1>4, <1>6
  <2>4. BatchesBusy(rows', batches', running', preparing')
    BY <1>3, <1>6, <2>1, <2>2, <2>3 DEF BatchesBusy, Calm
  <2> QED
    BY <1>5, <2>4 DEF BusyInv
<1>7. CASE UNCHANGED preparing /\ Continue(b, rs, batches)
  <2>1. BatchesBusy(rows', batches', running', FALSE)
    BY <1>2, <1>3, <1>4, <1>7, BatchWentOn
  <2>2. preparing' = FALSE
    BY <1>1, <1>2, <1>7
  <2> QED
    BY <1>5, <2>1, <2>2 DEF BusyInv
<1> QED
  BY <1>5, <1>6, <1>7

LEMMA BusyStep == SavedInv /\ BusyInv /\ [DetectionNext]_detectionVars => BusyInv'
<1> SUFFICES ASSUME SavedInv, BusyInv, [DetectionNext]_detectionVars PROVE BusyInv'
  OBVIOUS
<1>t. /\ rows \in RowSet /\ batches \subseteq Batch /\ readings \subseteq Reading
      /\ running \in BOOLEAN /\ preparing \in BOOLEAN /\ reading \in BOOLEAN
      /\ RowsIn({"pending"}) \subseteq Targets /\ RowsIn({"error", "stopped"}) \subseteq Targets
      /\ listed \subseteq Targets /\ Selected \subseteq Targets
  BY SelectionOK DEF SavedInv, DetectionTypeOK, RowSet, RowsIn, ShownRows, Selected
<1>b. BatchesBusy(rows, batches, running, preparing) /\ ReadingsBusy(readings, reading)
  BY DEF BusyInv
\* The batches and what they show stay, or all but a batch does.
<1>p. ASSUME UNCHANGED <<batches, running, preparing>>,
             \A s \in Targets : rows'[s] # NoTarget /\ rows'[s].state = "running"
                                  => rows'[s] = rows[s],
             ReadingsBusy(readings', reading')
      PROVE  BusyInv'
  BY <1>p, <1>b, RowsCalmed DEF BusyInv
<1>r. ASSUME UNCHANGED <<batches, running, preparing>>, NEW m, NEW p, NEW l, ReadSaved(m, p, l)
      PROVE  BusyInv'
  <2>1. rows' = NoRows /\ ReadingsBusy(readings', reading')
    BY <1>r, <1>t, SelectionBusy
  <2> QED
    BY <1>r, <2>1, <1>p DEF NoRows
<1>q. ASSUME UNCHANGED <<readings, reading, rows, running, preparing>>,
             NEW b \in batches, NEW c, c.current = b.current, c.at = b.at,
             c.failure # "none" => c.at \in Targets,
             batches' = (batches \ {b}) \cup {c}
      PROVE  BusyInv'
  BY <1>q, <1>b, BatchReplaced DEF BusyInv
<1>d. ASSUME UNCHANGED <<readings, reading, rows, running, preparing>>,
             NEW b \in batches, ~IsCurrent(b), batches' = batches \ {b}
      PROVE  BusyInv'
  BY <1>d, <1>b, StaleRemoved DEF BusyInv, IsCurrent
\* The present batch goes on, or is abandoned.
<1>c. ASSUME UNCHANGED <<readings, reading>>, preparing' = FALSE,
             NEW b \in batches, IsCurrent(b), NEW rs \in RowSet, Calm(rs),
             Continue(b, rs, batches \ {b}) \/ Abandon(rs, batches \ {b})
      PROVE  BusyInv'
  <2>1. ~Present(batches \ {b}) /\ \A c \in batches \ {b} : c.failure # "none" => c.at \in Targets
    BY <1>c, <1>b, PresentRemoved DEF IsCurrent
  <2>2. b \in Batch
    BY <1>t
  <2>3. CASE Continue(b, rs, batches \ {b})
    BY <1>c, <1>b, <2>1, <2>2, <2>3, BatchWentOn DEF BusyInv, IsCurrent
  <2>4. CASE Abandon(rs, batches \ {b})
    BY <1>c, <1>b, <2>1, <2>4, NothingBusy DEF BusyInv, Abandon
  <2> QED
    BY <1>c, <2>3, <2>4
<1>1. CASE Reopen
  <2>1. rows' = NoRows /\ ReadingsBusy(readings', reading')
    BY <1>1, <1>t, SelectionBusy DEF Reopen
  <2>2. Calm(NoRows)
    BY DEF Calm, NoRows
  <2>3. batches' = Outdated(batches) /\ running' = FALSE /\ preparing' = FALSE
    BY <1>1 DEF Reopen
  <2>4. BatchesBusy(NoRows, Outdated(batches), FALSE, FALSE)
    BY <1>b, <1>t, <2>2, BatchesOutdated, NothingBusy
  <2> QED
    BY <2>1, <2>3, <2>4 DEF BusyInv
<1>2. ASSUME NEW s \in Targets, ListGrows(s) PROVE BusyInv'
  <2>1. CASE mode = "class"
    BY <1>2, <2>1, <1>r DEF ListGrows
  <2>2. CASE mode # "class"
    BY <1>2, <2>2, <1>p, <1>b DEF ListGrows
  <2> QED
    BY <2>1, <2>2
<1>3. ASSUME NEW m \in {"class", "single"}, NEW p \in Targets \cup {NoTarget}, Choose(m, p)
      PROVE  BusyInv'
  BY <1>3, <1>r DEF Choose
<1>4. CASE RetryReading
  BY <1>4, <1>r DEF RetryReading
<1>5. ASSUME NEW r \in readings, ServeReading(r) PROVE BusyInv'
  <2> DEFINE new == [r EXCEPT !.answer = [s \in Targets |-> IF s \in r.sources THEN saved[s] ELSE 0]]
  <2>1. new.current = r.current
    BY <1>t DEF Reading
  <2>2. readings' = (readings \ {r}) \cup {new}
    BY <1>5 DEF ServeReading
  <2> HIDE DEF new
  <2>3. Unique(readings') /\ (Present(readings') <=> Present(readings))
    BY <1>b, <2>1, <2>2 DEF ReadingsBusy, Unique, Present
  <2>4. reading' = reading /\ UNCHANGED <<batches, running, preparing, rows>>
    BY <1>5 DEF ServeReading
  <2> QED
    BY <1>b, <2>3, <2>4, <1>p DEF ReadingsBusy
\* Without the present reading there is none, and without another it stays.
<1>f. ASSUME NEW r \in readings, readings' = readings \ {r},
             reading' = IF IsCurrent(r) THEN FALSE ELSE reading
      PROVE  ReadingsBusy(readings', reading')
  BY <1>f, <1>b DEF ReadingsBusy, Unique, Present, IsCurrent
<1>6. ASSUME NEW r \in readings, ReadingAnswered(r) PROVE BusyInv'
  <2>1. ReadingsBusy(readings', reading')
    BY <1>6, <1>f DEF ReadingAnswered
  <2>2. \A s \in Targets : Restored(r)[s] # NoTarget => Restored(r)[s].state # "running"
    BY DEF Restored, Pending
  <2>3. CASE IsCurrent(r)
    BY <1>6, <2>1, <2>2, <2>3, <1>p DEF ReadingAnswered
  <2>4. CASE ~IsCurrent(r)
    BY <1>6, <2>1, <2>4, <1>p DEF ReadingAnswered
  <2> QED
    BY <2>3, <2>4
<1>7. ASSUME NEW r \in readings, ReadingFails(r) PROVE BusyInv'
  <2>1. ReadingsBusy(readings', reading')
    BY <1>7, <1>f DEF ReadingFails
  <2> QED
    BY <1>7, <2>1, <1>p DEF ReadingFails
<1>8. CASE Detect
  BY <1>8, <1>t, StartBusy DEF Detect
<1>9. CASE DetectMissing
  BY <1>9, <1>t, StartBusy DEF DetectMissing
<1>10. CASE RetryFailed
  BY <1>10, <1>t, StartBusy DEF RetryFailed
<1>11. CASE Stop
  <2> DEFINE rs == [s \in Targets |-> IF s \in RowsIn({"pending", "running"})
                                      THEN [rows[s] EXCEPT !.state = "stopped"] ELSE rows[s]]
  <2>1. Calm(rs)
    <3> SUFFICES ASSUME NEW s \in Targets, rs[s] # NoTarget PROVE rs[s].state # "running"
      BY DEF Calm
    <3>1. CASE s \in RowsIn({"pending", "running"})
      <4>1. rows[s] \in Row
        BY <1>t, <3>1 DEF RowSet, RowsIn, ShownRows
      <4> QED
        BY <3>1, <4>1 DEF Row
    <3>2. CASE s \notin RowsIn({"pending", "running"})
      BY <3>2 DEF RowsIn, ShownRows
    <3> QED
      BY <3>1, <3>2
  <2>2. rows' = rs /\ batches' = Outdated(batches) /\ running' = FALSE /\ preparing' = FALSE
        /\ UNCHANGED <<readings, reading>>
    BY <1>11 DEF Stop
  <2> HIDE DEF rs
  <2>3. BatchesBusy(rs, Outdated(batches), FALSE, FALSE)
    BY <1>b, <1>t, <2>1, BatchesOutdated, NothingBusy
  <2> QED
    BY <1>b, <2>2, <2>3 DEF BusyInv
\* While the samples are prepared no row runs; else the batch is at a submission.
<1>m. ASSUME NEW b \in batches, IsCurrent(b), b.at = "samples" PROVE Calm(rows)
  BY <1>m, <1>b, OnlyItsRow, DetectionAssumption DEF Calm, IsCurrent
<1>n. ASSUME NEW b \in batches, IsCurrent(b), b.at \in Targets PROVE preparing = FALSE
  BY <1>n, <1>b, <1>t, DetectionAssumption DEF BatchesBusy, Unique, IsCurrent
<1>12. ASSUME NEW b \in batches, SamplesReady(b) PROVE BusyInv'
  <2>1. CASE IsCurrent(b)
    BY <1>12, <2>1, <1>t, <1>c, <1>m DEF SamplesReady
  <2>2. CASE ~IsCurrent(b)
    BY <1>12, <2>2, <1>d DEF SamplesReady
  <2> QED
    BY <2>1, <2>2
<1>a. ASSUME NEW rs, Calm(rs), NEW ss PROVE Calm(Failed(rs, ss))
  BY <1>a DEF Calm, Failed
<1>13. ASSUME NEW b \in batches, SamplesFail(b) PROVE BusyInv'
  <2>1. CASE IsCurrent(b)
    BY <1>13, <2>1, <1>t, <1>c, <1>m, <1>a, FailedRows DEF SamplesFail, SavedInv
  <2>2. CASE ~IsCurrent(b)
    BY <1>13, <2>2, <1>d DEF SamplesFail
  <2> QED
    BY <2>1, <2>2
<1>14. ASSUME NEW b \in batches, AnswerStored(b) PROVE BusyInv'
  <2> DEFINE new == [b EXCEPT !.answer = saved[b.at]]
  <2>1. new.current = b.current /\ new.at = b.at /\ new.at \in Targets
    BY <1>14, <1>t DEF AnswerStored, Unserved, Batch
  <2>2. batches' = (batches \ {b}) \cup {new}
    BY <1>14 DEF AnswerStored
  <2> HIDE DEF new
  <2> QED
    BY <1>14, <2>1, <2>2, <1>q DEF AnswerStored
<1>15. ASSUME NEW b \in batches, Generate(b) PROVE BusyInv'
  <2> DEFINE new == [b EXCEPT !.made = generated + 1]
  <2>1. new.current = b.current /\ new.at = b.at /\ new.at \in Targets
    BY <1>15, <1>t DEF Generate, Unserved, Batch
  <2>2. batches' = (batches \ {b}) \cup {new}
    BY <1>15 DEF Generate
  <2> HIDE DEF new
  <2> QED
    BY <1>15, <2>1, <2>2, <1>q DEF Generate
<1>16. ASSUME NEW b \in batches, SaveReport(b) PROVE BusyInv'
  <2> DEFINE new == [b EXCEPT !.answer = b.made]
  <2>1. new.current = b.current /\ new.at = b.at /\ new.at \in Targets
    BY <1>16, <1>t DEF SaveReport, SavedInv, BatchesSaved, Batch
  <2>2. batches' = (batches \ {b}) \cup {new}
    BY <1>16 DEF SaveReport
  <2> HIDE DEF new
  <2> QED
    BY <1>16, <2>1, <2>2, <1>q DEF SaveReport
<1>17. ASSUME NEW b \in batches, ServeFails(b) PROVE BusyInv'
  <2>1. PICK e \in {"error", "refused"} :
          batches' = (batches \ {b}) \cup {[b EXCEPT !.failure = e]}
    BY <1>17 DEF ServeFails
  <2> DEFINE new == [b EXCEPT !.failure = e]
  <2>2. new.current = b.current /\ new.at = b.at /\ new.at \in Targets
    BY <1>17, <1>t DEF ServeFails, Batch
  <2>3. batches' = (batches \ {b}) \cup {new}
    BY <2>1
  <2> HIDE DEF new
  <2> QED
    BY <1>17, <2>2, <2>3, <1>q DEF ServeFails
\* The row of an answered batch has another state than running.
<1>18. ASSUME NEW b \in batches, BatchAnswered(b) PROVE BusyInv'
  <2>1. b.at \in Targets /\ b.answer # 0 /\ b \in Batch
    BY <1>18, <1>t DEF BatchAnswered, SavedInv, BatchesSaved
  <2>2. CASE IsCurrent(b)
    <3> DEFINE row == [state |-> "done", result |-> b.answer]
               rs == Update(rows, b.at, row)
    <3>1. row \in Row /\ row.state # "running"
      BY <2>1 DEF Row, Batch
    <3>2. Continue(b, rs, batches \ {b}) /\ UNCHANGED <<readings, reading, preparing>>
      BY <1>18, <2>2 DEF BatchAnswered
    <3> HIDE DEF row
    <3>3. rs \in RowSet
      BY <1>t, <2>1, <3>1 DEF RowSet, Update
    <3>4. \A s \in Targets : rows[s] # NoTarget /\ rows[s].state = "running" => s = b.at
      BY <1>b, <2>2, OnlyItsRow DEF IsCurrent
    <3>5. Calm(rs)
      BY <1>t, <2>1, <3>1, <3>4 DEF Calm, Update, RowSet
    <3> HIDE DEF rs
    <3>6. preparing' = FALSE
      BY <2>1, <2>2, <3>2, <1>n
    <3> QED
      BY <2>2, <3>2, <3>3, <3>5, <3>6, <1>c
  <2>3. CASE ~IsCurrent(b)
    BY <1>18, <2>3, <1>d DEF BatchAnswered
  <2> QED
    BY <2>2, <2>3
<1>19. ASSUME NEW b \in batches, BatchFails(b) PROVE BusyInv'
  <2>1. b.at \in Targets
    BY <1>19, <1>b DEF BatchFails, BatchesBusy
  <2>2. CASE IsCurrent(b)
    <3> DEFINE rs == Mark(rows, b.at, "error")
    <3>1. /\ Continue(b, rs, batches \ {b}) \/ Abandon(Failed(rs, Targets), batches \ {b})
          /\ UNCHANGED <<readings, reading, preparing>>
      BY <1>19, <2>2 DEF BatchFails
    <3>2. rs \in RowSet /\ RowsSaved(rs, everSaved)
      BY <1>t, <2>1, MarkedRows DEF SavedInv
    <3>3. \A s \in Targets : rows[s] # NoTarget /\ rows[s].state = "running" => s = b.at
      BY <1>b, <2>2, OnlyItsRow DEF IsCurrent
    <3>4. Calm(rs)
      <4>1. CASE rows[b.at] = NoTarget
        BY <2>1, <3>3, <4>1 DEF Calm, Mark
      <4>2. CASE rows[b.at] # NoTarget
        <5> DEFINE row == [rows[b.at] EXCEPT !.state = "error"]
        <5>1. row.state = "error"
          BY <1>t, <2>1, <4>2 DEF RowSet, Row
        <5>2. rs = [rows EXCEPT ![b.at] = row]
          BY <4>2 DEF Mark
        <5> HIDE DEF row, rs
        <5> QED
          BY <1>t, <2>1, <3>3, <5>1, <5>2 DEF Calm, RowSet
      <4> QED
        BY <4>1, <4>2
    <3> HIDE DEF rs
    <3>5. preparing' = FALSE
      BY <2>1, <2>2, <3>1, <1>n
    <3>6. Failed(rs, Targets) \in RowSet /\ Calm(Failed(rs, Targets))
      BY <3>2, <3>4, <1>a, FailedRows
    <3> QED
      BY <2>2, <3>1, <3>2, <3>4, <3>5, <3>6, <1>c
  <2>3. CASE ~IsCurrent(b)
    BY <1>19, <2>3, <1>d DEF BatchFails
  <2> QED
    BY <2>2, <2>3
<1>20. CASE UNCHANGED detectionVars
  <2>1. UNCHANGED <<rows, running, preparing, batches, readings, reading>>
    BY <1>20 DEF detectionVars
  <2> QED
    BY <2>1, <1>b DEF BusyInv
<1> QED
  BY <1>1, <1>2, <1>3, <1>4, <1>5, <1>6, <1>7, <1>8, <1>9, <1>10, <1>11, <1>12, <1>13, <1>14,
     <1>15, <1>16, <1>17, <1>18, <1>19, <1>20 DEF DetectionNext

-----------------------------------------------------------------------------
(* SimilarityPage: the present comparison is one of the present settings. *)
SettingsInv ==
  /\ ReportMatchesSettings
  /\ \A r \in runs : r.current => r.with = Settings

LEMMA RunsSuperseded ==
  ASSUME runs \subseteq [current : BOOLEAN, with : Setting]
  PROVE  /\ Superseded \subseteq [current : BOOLEAN, with : Setting]
         /\ \A r \in Superseded : ~r.current
<1> SUFFICES ASSUME NEW r \in Superseded
             PROVE  r \in [current : BOOLEAN, with : Setting] /\ ~r.current
  OBVIOUS
<1>1. PICK q \in runs : r = [q EXCEPT !.current = FALSE]
  BY DEF Superseded
<1>2. q \in [current : BOOLEAN, with : Setting]
  OBVIOUS
<1> QED
  BY <1>1, <1>2

LEMMA SettingsTyped ==
  ASSUME scope \in {"class", "pair"}, pair \in Pairs, template \in Templates
  PROVE  Settings \in Setting
<1>1. DOMAIN pair = {"left", "right"}
  BY DEF Pairs
<1>2. [x \in DOMAIN pair |-> Unset] \in Pairs
  BY <1>1 DEF Pairs
<1> QED
  BY <1>2 DEF Settings, Setting

LEMMA SimilarityStep ==
  SimilarityTypeOK /\ SettingsInv /\ [SimilarityNext]_similarityVars
    => SimilarityTypeOK' /\ SettingsInv'
<1> SUFFICES ASSUME SimilarityTypeOK, SettingsInv, [SimilarityNext]_similarityVars
             PROVE  SimilarityTypeOK' /\ SettingsInv'
  OBVIOUS
<1>s. Settings \in Setting
  BY SettingsTyped DEF SimilarityTypeOK
<1>u. /\ Superseded \subseteq [current : BOOLEAN, with : Setting]
      /\ \A r \in Superseded : ~r.current
  BY RunsSuperseded DEF SimilarityTypeOK
\* The settings are changed.
<1>i. ASSUME Invalidate, tool' \in {"similarity", "ai"}, scope' \in {"class", "pair"},
             pair' \in Pairs, template' \in Templates, draft' \in Templates \cup {Unset}
      PROVE  SimilarityTypeOK' /\ SettingsInv'
  BY <1>i, <1>u DEF Invalidate, SimilarityTypeOK, SettingsInv, ReportMatchesSettings
\* They are not.
<1>k. ASSUME UNCHANGED <<scope, pair, template>>,
             tool' \in {"similarity", "ai"}, draft' \in Templates \cup {Unset},
             comparing' \in BOOLEAN, failure' \in BOOLEAN, evidence' \in BOOLEAN,
             outcome' \in {outcome, Settings, Unset},
             \A r \in runs' : \/ r \in runs
                              \/ r \in Superseded
                              \/ r = [current |-> TRUE, with |-> Settings]
      PROVE  SimilarityTypeOK' /\ SettingsInv'
  <2>1. Settings' = Settings
    BY <1>k DEF Settings
  <2>2. \A r \in runs' : r \in [current : BOOLEAN, with : Setting]
                         /\ (r.current => r.with = Settings)
    <3> SUFFICES ASSUME NEW r \in runs'
                 PROVE  r \in [current : BOOLEAN, with : Setting] /\ (r.current => r.with = Settings)
      OBVIOUS
    <3>1. CASE r \in runs
      BY <3>1 DEF SimilarityTypeOK, SettingsInv
    <3>2. CASE r \in Superseded
      BY <3>2, <1>u
    <3>3. CASE r = [current |-> TRUE, with |-> Settings]
      BY <3>3, <1>s
    <3> QED
      BY <1>k, <3>1, <3>2, <3>3
  <2>3. outcome' \in Setting \cup {Unset} /\ (outcome' # Unset => outcome' = Settings)
    BY <1>k, <1>s DEF SimilarityTypeOK, SettingsInv, ReportMatchesSettings
  <2> QED
    BY <1>k, <2>1, <2>2, <2>3 DEF SimilarityTypeOK, SettingsInv, ReportMatchesSettings
<1> USE DEF SimilarityTypeOK
<1>1. CASE SwitchTool
  BY <1>1, <1>k DEF SwitchTool
<1>2. ASSUME NEW m \in {"class", "pair"}, ChooseScope(m) PROVE SimilarityTypeOK' /\ SettingsInv'
  BY <1>2, <1>i DEF ChooseScope
<1>3. ASSUME NEW side \in {"left", "right"}, NEW s \in Sources \cup {Unset}, ChooseSource(side, s)
      PROVE  SimilarityTypeOK' /\ SettingsInv'
  <2>1. pair' \in Pairs
    BY <1>3 DEF ChooseSource, Pairs
  <2> QED
    BY <1>3, <2>1, <1>i DEF ChooseSource
<1>4. CASE OpenTemplate
  BY <1>4, <1>k DEF OpenTemplate
<1>5. ASSUME NEW t \in Templates, EditTemplate(t) PROVE SimilarityTypeOK' /\ SettingsInv'
  BY <1>5, <1>k DEF EditTemplate
<1>6. CASE SaveTemplate
  <2>1. CASE draft # template
    BY <1>6, <2>1, <1>i DEF SaveTemplate
  <2>2. CASE draft = template
    BY <1>6, <2>2, <1>k DEF SaveTemplate
  <2> QED
    BY <2>1, <2>2
<1>7. CASE CancelTemplate
  BY <1>7, <1>k DEF CancelTemplate
<1>8. CASE Compare
  BY <1>8, <1>k DEF Compare
<1>9. ASSUME NEW r \in runs, CompareAnswered(r) PROVE SimilarityTypeOK' /\ SettingsInv'
  <2>1. outcome' \in {outcome, Settings}
    BY <1>9 DEF CompareAnswered, Counts, SettingsInv
  <2> QED
    BY <1>9, <2>1, <1>k DEF CompareAnswered
<1>10. ASSUME NEW r \in runs, CompareFails(r) PROVE SimilarityTypeOK' /\ SettingsInv'
  BY <1>10, <1>k DEF CompareFails
<1>11. CASE ShowEvidence
  BY <1>11, <1>k DEF ShowEvidence
<1>12. CASE UNCHANGED similarityVars
  BY <1>12, <1>k DEF similarityVars
<1> QED
  BY <1>1, <1>2, <1>3, <1>4, <1>5, <1>6, <1>7, <1>8, <1>9, <1>10, <1>11, <1>12
     DEF SimilarityNext

LEMMA SimilarityInitial == SimilarityInit => SimilarityTypeOK /\ SettingsInv
  BY SimilarityAssumption DEF SimilarityInit, SimilarityTypeOK, SettingsInv,
     ReportMatchesSettings, Pairs

\* The report on the page is one of the settings on the page.
THEOREM ReportIsOfSettings == SimilaritySpec => []ReportMatchesSettings
<1>1. SettingsInv => ReportMatchesSettings
  BY DEF SettingsInv
<1> QED
  BY <1>1, SimilarityInitial, SimilarityStep, PTL DEF SimilaritySpec

\* One comparison at most counts, and while there is one the page says so.
ComparingInv == Unique(runs) /\ (comparing <=> Present(runs))

LEMMA ComparingStep ==
  SimilarityTypeOK /\ ComparingInv /\ [SimilarityNext]_similarityVars => ComparingInv'
<1> SUFFICES ASSUME SimilarityTypeOK, ComparingInv, [SimilarityNext]_similarityVars
             PROVE  ComparingInv'
  OBVIOUS
<1>u. \A r \in Superseded : ~r.current
  BY RunsSuperseded DEF SimilarityTypeOK
<1>k. ASSUME UNCHANGED <<runs, comparing>> PROVE ComparingInv'
  BY <1>k DEF ComparingInv
<1>i. ASSUME Invalidate PROVE ComparingInv'
  BY <1>i, <1>u DEF Invalidate, ComparingInv, Unique, Present
<1>f. ASSUME NEW r \in runs, runs' = runs \ {r},
             comparing' = IF Counts(r) THEN FALSE ELSE comparing
      PROVE  ComparingInv'
  BY <1>f DEF ComparingInv, Unique, Present, Counts
<1>1. CASE SwitchTool
  BY <1>1, <1>k DEF SwitchTool
<1>2. ASSUME NEW m \in {"class", "pair"}, ChooseScope(m) PROVE ComparingInv'
  BY <1>2, <1>i DEF ChooseScope
<1>3. ASSUME NEW side \in {"left", "right"}, NEW s \in Sources \cup {Unset}, ChooseSource(side, s)
      PROVE  ComparingInv'
  BY <1>3, <1>i DEF ChooseSource
<1>4. CASE OpenTemplate
  BY <1>4, <1>k DEF OpenTemplate
<1>5. ASSUME NEW t \in Templates, EditTemplate(t) PROVE ComparingInv'
  BY <1>5, <1>k DEF EditTemplate
<1>6. CASE SaveTemplate
  BY <1>6, <1>i, <1>k DEF SaveTemplate
<1>7. CASE CancelTemplate
  BY <1>7, <1>k DEF CancelTemplate
<1>8. CASE Compare
  <2> DEFINE new == [current |-> TRUE, with |-> Settings]
  <2>1. runs' = Superseded \cup {new} /\ comparing' = TRUE /\ new.current
    BY <1>8 DEF Compare
  <2> HIDE DEF new
  <2> QED
    BY <2>1, <1>u DEF ComparingInv, Unique, Present
<1>9. ASSUME NEW r \in runs, CompareAnswered(r) PROVE ComparingInv'
  BY <1>9, <1>f DEF CompareAnswered
<1>10. ASSUME NEW r \in runs, CompareFails(r) PROVE ComparingInv'
  BY <1>10, <1>f DEF CompareFails
<1>11. CASE ShowEvidence
  BY <1>11, <1>k DEF ShowEvidence
<1>12. CASE UNCHANGED similarityVars
  BY <1>12, <1>k DEF similarityVars
<1> QED
  BY <1>1, <1>2, <1>3, <1>4, <1>5, <1>6, <1>7, <1>8, <1>9, <1>10, <1>11, <1>12
     DEF SimilarityNext

LEMMA ComparingInitial == SimilarityInit => ComparingInv
  BY DEF SimilarityInit, ComparingInv, Unique, Present

LEMMA ComparingGoal == SimilarityTypeOK /\ ComparingInv => SimilarityBusy
  BY MarkCounts DEF SimilarityTypeOK, ComparingInv, SimilarityBusy

-----------------------------------------------------------------------------
(* SamplePanel: the one reading that is heard is not behind what is shown. *)
Heeded == {r \in reads : ~r.aborted}
PanelInv ==
  /\ SamplePanelTypeOK
  /\ \A q, r \in Heeded : q = r
  /\ library # Unread => library <= kept
  /\ \A r \in Heeded : r.answer # Unread /\ library # Unread => library <= r.answer
  /\ \A r \in reads : r.answer # Unread => r.answer <= kept

LEMMA ReadAnewOK ==
  ASSUME reads \subseteq BankRead, ReadAnew,
         \A r \in reads : r.answer # Unread => r.answer <= kept
  PROVE  /\ reads' \subseteq BankRead
         /\ \A r \in reads' : r.answer # Unread => r.answer <= kept
         /\ \A r \in reads' : r.aborted \/ r = [aborted |-> FALSE, answer |-> Unread]
<1> SUFFICES ASSUME NEW r \in reads'
             PROVE  /\ r \in BankRead
                    /\ r.answer # Unread => r.answer <= kept
                    /\ r.aborted \/ r = [aborted |-> FALSE, answer |-> Unread]
  OBVIOUS
<1>1. CASE r = [aborted |-> FALSE, answer |-> Unread]
  BY <1>1 DEF BankRead
<1>2. ASSUME NEW q \in reads, r = [q EXCEPT !.aborted = TRUE]
      PROVE  r \in BankRead /\ r.aborted /\ (r.answer # Unread => r.answer <= kept)
  <2>1. q \in BankRead
    OBVIOUS
  <2> QED
    BY <1>2, <2>1 DEF BankRead
<1> QED
  BY <1>1, <1>2 DEF ReadAnew

LEMMA PanelStep ==
  PanelInv /\ [SamplePanelNext]_panelVars => PanelInv' /\ SamplesShownStay
<1> SUFFICES ASSUME PanelInv, [SamplePanelNext]_panelVars PROVE PanelInv' /\ SamplesShownStay
  OBVIOUS
<1> USE PanelAssumption DEF Count
<1>t. /\ reads \subseteq BankRead /\ kept \in 0..Expected /\ library \in 0..Expected \cup {Unread}
      /\ \A r \in reads : r.answer # Unread => r.answer \in 0..Expected /\ r.answer <= kept
  BY DEF PanelInv, SamplePanelTypeOK, BankRead
\* The bank is read anew.
<1>a. ASSUME ReadAnew, UNCHANGED kept, library' \in {library, Unread, kept},
             readingBank' \in BOOLEAN, making' \in BOOLEAN, readFailed' \in BOOLEAN,
             makeFailed' \in BOOLEAN
      PROVE  PanelInv' /\ SamplesShownStay
  <2>1. /\ reads' \subseteq BankRead
        /\ \A r \in reads' : r.answer # Unread => r.answer <= kept
        /\ \A r \in reads' : r.aborted \/ r = [aborted |-> FALSE, answer |-> Unread]
    BY <1>a, <1>t, ReadAnewOK
  <2>2. \A q, r \in Heeded' : q = r /\ q.answer = Unread
    <3> SUFFICES ASSUME NEW q \in reads', ~q.aborted, NEW r \in reads', ~r.aborted
                 PROVE  q = r /\ q.answer = Unread
      BY DEF Heeded
    <3>1. q = [aborted |-> FALSE, answer |-> Unread] /\ r = q
      BY <2>1
    <3> QED
      BY <3>1
  <2>3. library' \in Count \cup {Unread} /\ (library' # Unread => library' <= kept)
    BY <1>a, <1>t DEF PanelInv
  <2>4. SamplesShownStay
    BY <1>a, <1>t DEF PanelInv, SamplesShownStay
  <2> QED
    BY <1>a, <1>t, <2>1, <2>2, <2>3, <2>4 DEF PanelInv, SamplePanelTypeOK
<1> USE DEF PanelInv, SamplePanelTypeOK, Heeded, SamplesShownStay
<1>1. CASE ReopenPanel
  BY <1>1, <1>a DEF ReopenPanel
<1>2. CASE RefreshPanel
  BY <1>2, <1>a DEF RefreshPanel
<1>3. CASE GrowBank
  BY <1>3, <1>t DEF GrowBank
<1>4. ASSUME NEW r \in reads, ReadBank(r) PROVE PanelInv' /\ SamplesShownStay
  <2> DEFINE new == [r EXCEPT !.answer = kept]
  <2>1. new \in BankRead /\ new.answer = kept /\ new.aborted = r.aborted
    BY <1>t DEF BankRead
  <2>2. reads' = (reads \ {r}) \cup {new}
    BY <1>4 DEF ReadBank
  <2> HIDE DEF new
  <2> QED
    BY <1>4, <1>t, <2>1, <2>2 DEF ReadBank
<1>5. ASSUME NEW r \in reads, BankAnswered(r) PROVE PanelInv' /\ SamplesShownStay
  <2>1. r.answer \in 0..Expected /\ r.answer <= kept
    BY <1>5, <1>t DEF BankAnswered, BankRead
  <2>2. CASE Heard(r)
    BY <1>5, <1>t, <2>1, <2>2 DEF BankAnswered, Heard
  <2>3. CASE ~Heard(r)
    BY <1>5, <1>t, <2>3 DEF BankAnswered
  <2> QED
    BY <2>2, <2>3
<1>6. ASSUME NEW r \in reads, BankReadFails(r) PROVE PanelInv' /\ SamplesShownStay
  <2>1. CASE Heard(r)
    <3>1. /\ reads' = reads \ {r} /\ UNCHANGED <<kept, library, making, makeFailed>>
          /\ readingBank' \in BOOLEAN /\ readFailed' \in BOOLEAN
      BY <1>6, <2>1 DEF BankReadFails
    <3>2. \A q \in reads' : q \in reads
      BY <3>1
    <3>3. SamplesShownStay
      BY <3>1, <1>t
    <3>4. SamplePanelTypeOK'
      BY <3>1, <3>2
    <3> QED
      BY <3>1, <3>2, <3>3, <3>4
  <2>2. CASE ~Heard(r)
    BY <1>6, <1>t, <2>2 DEF BankReadFails
  <2> QED
    BY <2>1, <2>2
<1>7. CASE PollBank
  <2> DEFINE new == [aborted |-> FALSE, answer |-> Unread]
  <2>1. new \in BankRead /\ new.answer = Unread /\ ~new.aborted
    BY DEF BankRead
  <2>2. reads' = reads \cup {new}
    BY <1>7 DEF PollBank
  <2> HIDE DEF new
  <2> QED
    BY <1>7, <1>t, <2>1, <2>2 DEF PollBank
<1>8. CASE GenerateLibrary
  BY <1>8, <1>a DEF GenerateLibrary
<1>9. CASE LibraryAnswered
  BY <1>9, <1>a DEF LibraryAnswered
<1>10. CASE LibraryFails
  BY <1>10, <1>a DEF LibraryFails
<1>11. CASE UNCHANGED panelVars
  BY <1>11, <1>t DEF panelVars
<1> QED
  BY <1>1, <1>2, <1>3, <1>4, <1>5, <1>6, <1>7, <1>8, <1>9, <1>10, <1>11 DEF SamplePanelNext

LEMMA PanelInitial == SamplePanelInit => PanelInv
<1> SUFFICES ASSUME SamplePanelInit PROVE PanelInv
  OBVIOUS
<1> DEFINE new == [aborted |-> FALSE, answer |-> Unread]
<1>1. new \in BankRead /\ new.answer = Unread
  BY DEF BankRead
<1>2. reads = {new}
  BY DEF SamplePanelInit
<1> HIDE DEF new
<1>3. \A q \in reads : q = new
  BY <1>2
<1>4. SamplePanelTypeOK
  <2>1. 0 \in 0..Expected
    BY PanelAssumption
  <2> QED
    BY <1>1, <1>2, <2>1 DEF SamplePanelInit, SamplePanelTypeOK, Count
<1>5. library = Unread
  BY DEF SamplePanelInit
<1> QED
  BY <1>1, <1>3, <1>4, <1>5 DEF PanelInv, Heeded

\* While the panel is open, the samples shown never become fewer.
THEOREM SamplesStayShown == SamplePanelSpec => [][SamplesShownStay]_panelVars
  BY PanelInitial, PanelStep, PTL DEF SamplePanelSpec

\* A first reading that is marked is the one that is heard.
FirstReading == readingBank => Heeded # {}

LEMMA FirstReadingStep == FirstReading /\ [SamplePanelNext]_panelVars /\ PanelInv => FirstReading'
<1> SUFFICES ASSUME FirstReading, [SamplePanelNext]_panelVars, PanelInv PROVE FirstReading'
  OBVIOUS
<1>k. ASSUME UNCHANGED <<reads, readingBank>> PROVE FirstReading'
  BY <1>k DEF FirstReading, Heeded
<1>a. ASSUME NEW others, reads' = others \cup {[aborted |-> FALSE, answer |-> Unread]}
      PROVE  FirstReading'
  <2> DEFINE new == [aborted |-> FALSE, answer |-> Unread]
  <2>1. new \in reads' /\ ~new.aborted
    BY <1>a
  <2> QED
    BY <2>1 DEF FirstReading, Heeded
<1>f. ASSUME NEW r \in reads, reads' = reads \ {r},
             readingBank' = IF Heard(r) THEN FALSE ELSE readingBank
      PROVE  FirstReading'
  BY <1>f DEF FirstReading, Heeded, Heard
<1>1. CASE ReopenPanel
  BY <1>1, <1>a DEF ReopenPanel, ReadAnew
<1>2. CASE RefreshPanel
  BY <1>2, <1>a DEF RefreshPanel, ReadAnew
<1>3. CASE GrowBank
  BY <1>3, <1>k DEF GrowBank
<1>4. ASSUME NEW r \in reads, ReadBank(r) PROVE FirstReading'
  <2> DEFINE new == [r EXCEPT !.answer = kept]
  <2>1. new.aborted = r.aborted
    BY DEF PanelInv, SamplePanelTypeOK, BankRead
  <2>2. reads' = (reads \ {r}) \cup {new} /\ readingBank' = readingBank
    BY <1>4 DEF ReadBank
  <2> HIDE DEF new
  <2> QED
    BY <2>1, <2>2 DEF FirstReading, Heeded
<1>5. ASSUME NEW r \in reads, BankAnswered(r) PROVE FirstReading'
  BY <1>5, <1>f DEF BankAnswered
<1>6. ASSUME NEW r \in reads, BankReadFails(r) PROVE FirstReading'
  BY <1>6, <1>f DEF BankReadFails
<1>7. CASE PollBank
  BY <1>7, <1>a DEF PollBank
<1>8. CASE GenerateLibrary
  BY <1>8, <1>a DEF GenerateLibrary, ReadAnew
<1>9. CASE LibraryAnswered
  BY <1>9, <1>a DEF LibraryAnswered, ReadAnew
<1>10. CASE LibraryFails
  BY <1>10, <1>a DEF LibraryFails, ReadAnew
<1>11. CASE UNCHANGED panelVars
  BY <1>11, <1>k DEF panelVars
<1> QED
  BY <1>1, <1>2, <1>3, <1>4, <1>5, <1>6, <1>7, <1>8, <1>9, <1>10, <1>11 DEF SamplePanelNext

LEMMA FirstReadingInitial == SamplePanelInit => FirstReading
<1> DEFINE new == [aborted |-> FALSE, answer |-> Unread]
<1>1. ASSUME SamplePanelInit PROVE new \in reads /\ ~new.aborted
  BY <1>1 DEF SamplePanelInit
<1> QED
  BY <1>1 DEF FirstReading, Heeded

LEMMA PanelGoal == PanelInv /\ FirstReading => PanelBusy
<1> SUFFICES ASSUME PanelInv, FirstReading PROVE PanelBusy
  OBVIOUS
<1>1. Cardinality(Heeded) <= 1
  <2>1. CASE Heeded = {}
    BY <2>1, FS_EmptySet
  <2>2. CASE Heeded # {}
    <3>1. PICK r \in Heeded : TRUE
      BY <2>2
    <3>2. Heeded = {r}
      BY <3>1 DEF PanelInv
    <3> QED
      BY <3>2, FS_Singleton
  <2> QED
    BY <2>1, <2>2
<1> QED
  BY <1>1 DEF PanelBusy, FirstReading, Heeded

-----------------------------------------------------------------------------
(* The pages as MCTeacher puts them together. *)
\* A step of the whole is a step, or none, of each part.
LEMMA TeacherMoves ==
  ASSUME [TeacherNext]_teacherVars
  PROVE  /\ [DetectionNext]_detectionVars /\ [SimilarityNext]_similarityVars
         /\ [SamplePanelNext]_panelVars /\ [PublishNext]_publishVars
         /\ [TokenRunsNext]_runVars /\ [ChunksNext]_chunkVars
         /\ [ModelAnswerNext]_answerVars /\ [ScoreNext]_scoreVars
         /\ [CourseMigrationNext]_migrationVars
<1>1. /\ [DetectionNext]_detectionVars /\ [SimilarityNext]_similarityVars
      /\ [SamplePanelNext]_panelVars /\ [PublishNext]_publishVars
  BY DEF TeacherNext, PageNext, CalculationNext, teacherVars, pageVars
<1>2. /\ [TokenRunsNext]_runVars /\ [ChunksNext]_chunkVars /\ [ModelAnswerNext]_answerVars
      /\ [ScoreNext]_scoreVars /\ [CourseMigrationNext]_migrationVars
  BY DEF TeacherNext, PageNext, CalculationNext, teacherVars, calculationVars
<1> QED
  BY <1>1, <1>2

PagesInv == SavedInv /\ SimilarityTypeOK /\ SettingsInv /\ PanelInv

LEMMA PagesInitial == TeacherInit => PagesInv
  BY SavedInitial, SimilarityInitial, PanelInitial DEF TeacherInit, PagesInv

LEMMA PagesStep ==
  PagesInv /\ [TeacherNext]_teacherVars => PagesInv' /\ OutdatedIgnored
<1> SUFFICES ASSUME PagesInv, [TeacherNext]_teacherVars PROVE PagesInv' /\ OutdatedIgnored
  OBVIOUS
<1>1. [DetectionNext]_detectionVars /\ [SimilarityNext]_similarityVars
      /\ [SamplePanelNext]_panelVars
  BY TeacherMoves
<1>2. SavedInv' /\ OutdatedDetection
  BY <1>1, SavedStep, DetectionIgnores DEF PagesInv
<1>3. SimilarityTypeOK' /\ SettingsInv'
  BY <1>1, SimilarityStep DEF PagesInv
<1>4. PanelInv' /\ SamplesShownStay
  BY <1>1, PanelStep DEF PagesInv
<1>5. ReportMatchesSettings'
  BY <1>3 DEF SettingsInv
<1> QED
  BY <1>2, <1>3, <1>4, <1>5 DEF PagesInv, OutdatedIgnored

\* No page of a teacher shows the answer to a question it does not ask any more.
THEOREM OutdatedNeverShown == TeacherSpec => OutdatedAnswersIgnored
  BY PagesInitial, PagesStep, PTL DEF TeacherSpec, OutdatedAnswersIgnored

\* What MCTeacher runs is each of the pages and of the calculations: a theorem about
\* one of them, under its own specification, holds of the whole, and none moves
\* another's variables.
THEOREM TeacherRunsParts ==
  TeacherSpec => /\ DetectionSpec /\ SimilaritySpec /\ SamplePanelSpec /\ PublishSpec
                 /\ TokenRunsSpec /\ ChunksSpec /\ ModelAnswerSpec /\ ScoreSpec
                 /\ CourseMigrationSpec
<1>1. TeacherInit => /\ DetectionInit /\ SimilarityInit /\ SamplePanelInit /\ PublishInit
                     /\ TokenRunsInit /\ ChunksInit /\ ModelAnswerInit /\ ScoreInit
                     /\ CourseMigrationInit
  BY DEF TeacherInit
<1>2. [TeacherNext]_teacherVars =>
        /\ [DetectionNext]_detectionVars /\ [SimilarityNext]_similarityVars
        /\ [SamplePanelNext]_panelVars /\ [PublishNext]_publishVars
        /\ [TokenRunsNext]_runVars /\ [ChunksNext]_chunkVars
        /\ [ModelAnswerNext]_answerVars /\ [ScoreNext]_scoreVars
        /\ [CourseMigrationNext]_migrationVars
  BY TeacherMoves
<1> QED
  BY <1>1, <1>2, PTL
     DEF TeacherSpec, DetectionSpec, SimilaritySpec, SamplePanelSpec, PublishSpec,
         TokenRunsSpec, ChunksSpec, ModelAnswerSpec, ScoreSpec, CourseMigrationSpec

\* The invariants of all parts; those that are not run stay as they were.
MarksInv == BusyInv /\ ComparingInv /\ FirstReading /\ PublishInv
CalculationsInv == RunsInv /\ ChunksInv /\ ModelAnswerTypeOK /\ OneAnswer /\ ScoreInv /\ MigrationInv
Parts == {"detection", "similarity", "samples", "publish",
          "runs", "chunks", "answer", "score", "migration"}
TeacherInv == part \in Parts /\ PagesInv /\ MarksInv /\ CalculationsInv

LEMMA TeacherStart == TeacherInit => TeacherInv
<1> SUFFICES ASSUME TeacherInit PROVE TeacherInv
  OBVIOUS
<1>1. PagesInv /\ part \in Parts
  BY PagesInitial DEF TeacherInit, Parts
<1>2. MarksInv
  BY BusyInitial, ComparingInitial, FirstReadingInitial, PublishInitial
     DEF TeacherInit, MarksInv
<1>3. CalculationsInv
  BY RunsStart, ChunksStart, AnswerStart, ScoreStart, MigrationStart
     DEF TeacherInit, CalculationsInv
<1> QED
  BY <1>1, <1>2, <1>3 DEF TeacherInv

LEMMA TeacherStep == TeacherInv /\ [TeacherNext]_teacherVars => TeacherInv'
<1> SUFFICES ASSUME TeacherInv, [TeacherNext]_teacherVars PROVE TeacherInv'
  OBVIOUS
<1>1. part' = part
  BY DEF TeacherNext, teacherVars
<1>2. /\ [DetectionNext]_detectionVars /\ [SimilarityNext]_similarityVars
      /\ [SamplePanelNext]_panelVars /\ [PublishNext]_publishVars
  BY TeacherMoves
<1>3. /\ [TokenRunsNext]_runVars /\ [ChunksNext]_chunkVars /\ [ModelAnswerNext]_answerVars
      /\ [ScoreNext]_scoreVars /\ [CourseMigrationNext]_migrationVars
  BY TeacherMoves
<1>4. PagesInv'
  BY PagesStep DEF TeacherInv
<1>5. MarksInv'
  BY <1>2, BusyStep, ComparingStep, FirstReadingStep, PublishStep
     DEF TeacherInv, PagesInv, MarksInv
<1>6. CalculationsInv'
  BY <1>3, RunsStep, ChunksStep, AnswerStep, ScoreStep, MigrationStep
     DEF TeacherInv, CalculationsInv
<1> QED
  BY <1>1, <1>4, <1>5, <1>6 DEF TeacherInv

\* On every page of a teacher, and in the calculations, each variable has its
\* type, and what is marked as under way, which disables the buttons, is so.
THEOREM TeacherMarksTrue == TeacherSpec => []TeacherTypeOK
<1>1. TeacherInv => TeacherTypeOK
  <2> SUFFICES ASSUME TeacherInv PROVE TeacherTypeOK
    OBVIOUS
  <2>1. DetectionTypeOK /\ DetectionBusy
    BY BusyGoal DEF TeacherInv, PagesInv, MarksInv, SavedInv
  <2>2. SimilarityTypeOK /\ SimilarityBusy
    BY ComparingGoal DEF TeacherInv, PagesInv, MarksInv
  <2>3. SamplePanelTypeOK /\ PanelBusy
    BY PanelGoal DEF TeacherInv, PagesInv, MarksInv, PanelInv
  <2>4. PublishTypeOK /\ PublishBusy
    BY PublishGoal DEF TeacherInv, MarksInv
  <2>5. /\ TokenRunsTypeOK /\ ChunksTypeOK /\ ModelAnswerTypeOK /\ ScoreTypeOK
        /\ CourseMigrationTypeOK
    BY ScoreTyped, MigrationTyped DEF TeacherInv, CalculationsInv, RunsInv, ChunksInv
  <2> QED
    BY <2>1, <2>2, <2>3, <2>4, <2>5 DEF TeacherTypeOK, TeacherInv, Parts
<1> QED
  BY <1>1, TeacherStart, TeacherStep, PTL DEF TeacherSpec
=============================================================================
