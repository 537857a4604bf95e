---------------------------- MODULE LegacyScore ----------------------------
(***************************************************************************)
(* Evaluations by rules are normalised when they are made, and again       *)
(* whenever they are read: NormalizeLegacyEvaluation and FinalScores of    *)
(* server/internal/domain/scoring.go.  Stored ones may be older than the   *)
(* rules they are read by.                                                 *)
(***************************************************************************)
EXTENDS Naturals, Sequences, SequencesExt, Sums

CONSTANTS
  Points,        \* a dimension may be given
  MaxDimensions, \* bound on the dimensions of a rubric
  NoEvaluation

ASSUME ScoreAssumption == Points \subseteq Nat /\ 0 \in Points /\ MaxDimensions \in Nat

VARIABLES
  storedScore,   \* the stored evaluation
  viewed   \* the evaluation as it was last read

scoreVars == <<storedScore, viewed>>

\* "weighed" is whether test results with a positive weight are there; "byTests"
\* whether a dimension's evidence is of them.
Dimension == [byTests : BOOLEAN, verified : BOOLEAN, unscored : BOOLEAN, score : Points]
Evaluation == [byRules : BOOLEAN, weighed : BOOLEAN, dimensions : SeqOf(Dimension, MaxDimensions),
               total : Points, incomplete : BOOLEAN]

ScoreTypeOK ==
  \A e \in {storedScore, viewed} \ {NoEvaluation} :
    e.total \in Nat /\ [e EXCEPT !.total = 0] \in Evaluation

Unproven(e, d) == ~(d.byTests /\ d.verified /\ e.weighed)
NormalDimension(e, d) ==
  IF Unproven(e, d) THEN [d EXCEPT !.unscored = TRUE, !.score = 0, !.verified = FALSE]
  ELSE [d EXCEPT !.unscored = FALSE]

Sum(ds) == SumOf([i \in DOMAIN ds |-> ds[i].score])
TotalFrom(e, ds) == e.total + Sum(ds)
TotalFromZero(e, ds) == Sum(ds)
\* Sums, status and the flags of completeness are those of its dimensions.
Normalize(e) ==
  IF ~e.byRules THEN e
  ELSE LET ds == [i \in DOMAIN e.dimensions |-> NormalDimension(e, e.dimensions[i])]
       IN [e EXCEPT !.dimensions = ds,
                    !.total = TotalFromZero(e, ds),
                    !.incomplete = ds = <<>> \/ \E i \in DOMAIN ds : ds[i].unscored]

\* FinalScores without a teacher's review.
HasGrade(e) ==
  /\ ~e.incomplete
  /\ e.dimensions # <<>>
  /\ \A i \in DOMAIN e.dimensions : ~e.dimensions[i].unscored

ScoreInit == storedScore = NoEvaluation /\ viewed = NoEvaluation

\* An evaluation is made by today's rules, or was stored by those of another day.
EvaluateByRules(e) ==
  /\ storedScore = NoEvaluation
  /\ e.byRules
  /\ storedScore' = Normalize(Normalize(e))
  /\ UNCHANGED viewed

StoredBefore(e) ==
  /\ storedScore = NoEvaluation
  /\ storedScore' = e
  /\ UNCHANGED viewed

ReadEvaluation ==
  /\ storedScore # NoEvaluation
  /\ viewed' = Normalize(storedScore)
  /\ UNCHANGED storedScore

AnotherEvaluation ==
  /\ viewed # NoEvaluation
  /\ storedScore' = NoEvaluation
  /\ viewed' = NoEvaluation

ScoreNext ==
  \/ \E e \in Evaluation : EvaluateByRules(e) \/ StoredBefore(e)
  \/ ReadEvaluation
  \/ AnotherEvaluation

ScoreSpec == ScoreInit /\ [][ScoreNext]_scoreVars

-----------------------------------------------------------------------------
\* "A placeholder must never become a grade": a grade by rules is the sum of what
\* tests have proven, and reading it once more changes nothing.
PlaceholderNeverGrades ==
  viewed # NoEvaluation /\ viewed.byRules =>
    /\ Normalize(viewed) = viewed
    /\ HasGrade(viewed) =>
         /\ \A i \in DOMAIN viewed.dimensions : ~Unproven(viewed, viewed.dimensions[i])
         /\ viewed.total = Sum(viewed.dimensions)
=============================================================================
