----------------------------- MODULE MCTeacher -----------------------------
(***************************************************************************)
(* The pages of a teacher and the calculations behind what they show, each *)
(* on its own.                                                             *)
(***************************************************************************)
EXTENDS DetectionPage, SimilarityPage, SamplePanel, PublishForm,
        TokenRuns, DetectorChunks, ModelAnswer, LegacyScore, CourseMigration

VARIABLE part  \* the one that is run, chosen at the start

pageVars == <<detectionVars, similarityVars, panelVars, publishVars>>
calculationVars == <<runVars, chunkVars, answerVars, scoreVars, migrationVars>>
teacherVars == <<part, pageVars, calculationVars>>

TeacherInit ==
  /\ part \in {"detection", "similarity", "samples", "publish",
               "runs", "chunks", "answer", "score", "migration"}
  /\ part = "detection" \/ configured = "off"
  /\ DetectionInit /\ SimilarityInit /\ SamplePanelInit /\ PublishInit
  /\ TokenRunsInit /\ ChunksInit /\ ModelAnswerInit /\ ScoreInit /\ CourseMigrationInit

PageNext ==
  \/ /\ part = "detection" /\ DetectionNext
     /\ UNCHANGED <<similarityVars, panelVars, publishVars>>
  \/ /\ part = "similarity" /\ SimilarityNext
     /\ UNCHANGED <<detectionVars, panelVars, publishVars>>
  \/ /\ part = "samples" /\ SamplePanelNext
     /\ UNCHANGED <<detectionVars, similarityVars, publishVars>>
  \/ /\ part = "publish" /\ PublishNext
     /\ UNCHANGED <<detectionVars, similarityVars, panelVars>>

CalculationNext ==
  \/ /\ part = "runs" /\ TokenRunsNext
     /\ UNCHANGED <<chunkVars, answerVars, scoreVars, migrationVars>>
  \/ /\ part = "chunks" /\ ChunksNext
     /\ UNCHANGED <<runVars, answerVars, scoreVars, migrationVars>>
  \/ /\ part = "answer" /\ ModelAnswerNext
     /\ UNCHANGED <<runVars, chunkVars, scoreVars, migrationVars>>
  \/ /\ part = "score" /\ ScoreNext
     /\ UNCHANGED <<runVars, chunkVars, answerVars, migrationVars>>
  \/ /\ part = "migration" /\ CourseMigrationNext
     /\ UNCHANGED <<runVars, chunkVars, answerVars, scoreVars>>

TeacherNext ==
  /\ UNCHANGED part
  /\ \/ PageNext /\ UNCHANGED calculationVars
     \/ CalculationNext /\ UNCHANGED pageVars

TeacherSpec == TeacherInit /\ [][TeacherNext]_teacherVars

\* Types, and the marks of what is under way, which disable the buttons.
TeacherTypeOK ==
  CASE part = "detection"  -> DetectionTypeOK /\ DetectionBusy
    [] part = "similarity" -> SimilarityTypeOK /\ SimilarityBusy
    [] part = "samples"    -> SamplePanelTypeOK /\ PanelBusy
    [] part = "publish"    -> PublishTypeOK /\ PublishBusy
    [] part = "runs"       -> TokenRunsTypeOK
    [] part = "chunks"     -> ChunksTypeOK
    [] part = "answer"     -> ModelAnswerTypeOK
    [] part = "score"      -> ScoreTypeOK
    [] part = "migration"  -> CourseMigrationTypeOK

\* A page never shows what answers a question it does not ask any more: reports
\* of an earlier batch or selection, a comparison with other settings, fewer
\* samples than it has shown.
OutdatedIgnored == OutdatedDetection /\ ReportMatchesSettings' /\ SamplesShownStay
OutdatedAnswersIgnored == [][OutdatedIgnored]_teacherVars

\* Two assignments of one teacher and one of another, with a student in common.
TeacherOfMC == [a1 |-> "t1", a2 |-> "t1", a3 |-> "t2"]
SubmittersMC == [a1 |-> {"s1"}, a2 |-> {"s1", "s2"}, a3 |-> {"s2"}]
\* Around a full chunk, a second one, the sixty-fourth, and beyond the limit.
TotalsMC == {0, 1, 510, 511, 956, 957, 28608, 28609}
=============================================================================
