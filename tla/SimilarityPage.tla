--------------------------- MODULE SimilarityPage ---------------------------
(***************************************************************************)
(* A teacher's page of similarities: CodeSimilarity.tsx.  A comparison is  *)
(* asked for with the settings of that moment; its answer may come when    *)
(* they are others, or another comparison is under way.                    *)
(***************************************************************************)
EXTENDS Naturals, FiniteSets

CONSTANTS
  Sources,    \* the submissions to compare, one student each
  Templates,  \* common code to leave out
  NoTemplate, \* the empty one, with which the page begins
  MaxOld,     \* bound on the outdated comparisons
  Unset

ASSUME SimilarityAssumption ==
  /\ MaxOld \in Nat
  /\ NoTemplate \in Templates
  /\ Unset \notin Sources \cup Templates

VARIABLES
  tool,       \* the tab: comparison or AI reports
  scope,      \* mode: the whole class or a pair
  pair,       \* left and right of the pair
  template,   \* the common code in use
  draft,      \* the open dialog's text of it, or Unset
  comparing,  \* loading
  failure,    \* the error shown
  outcome,    \* the report shown, known by the settings it was made with
  evidence,   \* a pair's matches are shown, in the dialog over the report
  runs        \* the comparisons under way

similarityVars ==
  <<tool, scope, pair, template, draft, comparing, failure, outcome, evidence, runs>>

Pairs == [{"left", "right"} -> Sources \cup {Unset}]
Setting == [scope : {"class", "pair"}, pair : Pairs, template : Templates]
Settings == [scope |-> scope, template |-> template,
             pair |-> IF scope = "pair" THEN pair ELSE [x \in DOMAIN pair |-> Unset]]

SimilarityTypeOK ==
  /\ tool \in {"similarity", "ai"}
  /\ scope \in {"class", "pair"}
  /\ pair \in Pairs
  /\ template \in Templates
  /\ draft \in Templates \cup {Unset}
  /\ comparing \in BOOLEAN /\ failure \in BOOLEAN /\ evidence \in BOOLEAN
  /\ outcome \in Setting \cup {Unset}
  /\ runs \subseteq [current : BOOLEAN, with : Setting]

SimilarityInit ==
  /\ tool = "similarity"
  /\ scope = "class"
  /\ pair = [x \in {"left", "right"} |-> Unset]
  /\ template = NoTemplate
  /\ draft = Unset
  /\ comparing = FALSE /\ failure = FALSE /\ evidence = FALSE
  /\ outcome = Unset
  /\ runs = {}

-----------------------------------------------------------------------------
\* requestNumber goes up: no run under way is the present one any more.
Superseded == {[r EXCEPT !.current = FALSE] : r \in runs}
FewOld(rs) == Cardinality({r \in rs : ~r.current}) <= MaxOld
Counts(r) == r.current

\* A change of settings takes the report off the page, and the run with it.
InvalidateShown == comparing' = FALSE /\ UNCHANGED <<outcome, evidence, failure, runs>>
Invalidate ==
  /\ runs' = Superseded
  /\ FewOld(runs')
  /\ outcome' = Unset
  /\ evidence' = FALSE
  /\ failure' = FALSE
  /\ comparing' = FALSE

SwitchTool ==
  /\ draft = Unset /\ ~evidence
  /\ tool' = IF tool = "ai" THEN "similarity" ELSE "ai"
  /\ UNCHANGED <<scope, pair, template, draft, comparing, failure, outcome, evidence, runs>>

\* The settings are disabled during a run, and behind a dialog.
Adjustable == tool = "similarity" /\ ~comparing /\ draft = Unset /\ ~evidence

ChooseScope(m) ==
  /\ Adjustable
  /\ m # scope
  /\ scope' = m
  /\ Invalidate
  /\ UNCHANGED <<tool, pair, template, draft>>

\* One side of the pair; what the other side has is not offered.
ChooseSource(side, s) ==
  /\ Adjustable
  /\ scope = "pair"
  /\ s # pair[side]
  /\ s = Unset \/ \A x \in DOMAIN pair : pair[x] # s
  /\ pair' = [pair EXCEPT ![side] = s]
  /\ Invalidate
  /\ UNCHANGED <<tool, scope, template, draft>>

OpenTemplate ==
  /\ Adjustable
  /\ draft' = template
  /\ UNCHANGED <<tool, scope, pair, template, comparing, failure, outcome, evidence, runs>>

EditTemplate(t) ==
  /\ draft \notin {Unset, t}
  /\ draft' = t
  /\ UNCHANGED <<tool, scope, pair, template, comparing, failure, outcome, evidence, runs>>

\* Saving the same text keeps the report.
SaveTemplate ==
  /\ draft # Unset
  /\ IF draft # template THEN Invalidate
     ELSE UNCHANGED <<comparing, failure, outcome, evidence, runs>>
  /\ template' = draft
  /\ draft' = Unset
  /\ UNCHANGED <<tool, scope, pair>>

CancelTemplate ==
  /\ draft # Unset
  /\ draft' = Unset
  /\ UNCHANGED <<tool, scope, pair, template, comparing, failure, outcome, evidence, runs>>

Comparable ==
  IF scope = "class" THEN Cardinality(Sources) >= 2
  ELSE \A x \in DOMAIN pair : pair[x] # Unset

Compare ==
  /\ Adjustable
  /\ Comparable
  /\ runs' = Superseded \cup {[current |-> TRUE, with |-> Settings]}
  /\ comparing' = TRUE
  /\ failure' = FALSE
  /\ outcome' = Unset
  /\ evidence' = FALSE
  /\ UNCHANGED <<tool, scope, pair, template, draft>>

CompareAnswered(r) ==
  /\ IF Counts(r)
     THEN outcome' = r.with /\ comparing' = FALSE /\ evidence' = FALSE
     ELSE UNCHANGED <<outcome, comparing, evidence>>
  /\ runs' = runs \ {r}
  /\ UNCHANGED <<tool, scope, pair, template, draft, failure>>

CompareFails(r) ==
  /\ IF Counts(r) THEN failure' = TRUE /\ comparing' = FALSE
     ELSE UNCHANGED <<failure, comparing>>
  /\ runs' = runs \ {r}
  /\ UNCHANGED <<tool, scope, pair, template, draft, outcome, evidence>>

\* The matches of one pair of the report, in a dialog.
ShowEvidence ==
  /\ tool = "similarity" /\ draft = Unset
  /\ outcome # Unset
  /\ evidence' = ~evidence
  /\ UNCHANGED <<tool, scope, pair, template, draft, comparing, failure, outcome, runs>>

SimilarityNext ==
  \/ SwitchTool
  \/ \E m \in {"class", "pair"} : ChooseScope(m)
  \/ \E side \in {"left", "right"}, s \in Sources \cup {Unset} : ChooseSource(side, s)
  \/ OpenTemplate
  \/ \E t \in Templates : EditTemplate(t)
  \/ SaveTemplate
  \/ CancelTemplate
  \/ Compare
  \/ \E r \in runs : CompareAnswered(r) \/ CompareFails(r)
  \/ ShowEvidence

SimilaritySpec == SimilarityInit /\ [][SimilarityNext]_similarityVars

-----------------------------------------------------------------------------
\* The report on the page is one of the settings on the page: "保存修改后需重新检测".
ReportMatchesSettings == outcome # Unset => outcome = Settings

\* The page is marked as comparing exactly while its present run is under way.
SimilarityBusy ==
  Cardinality({r \in runs : r.current}) = IF comparing THEN 1 ELSE 0
=============================================================================
