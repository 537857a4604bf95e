--------------------------- MODULE DetectionPage ---------------------------
(***************************************************************************)
(* A teacher's page of AI reports on one assignment: AICodeDetection.tsx,  *)
(* with detectAndSaveAI of server/internal/api/ai_detection.go behind it.  *)
(*                                                                         *)
(* A batch asks for one report after the other.  Stopping it, leaving the  *)
(* page or another batch does not take its request back: its answer may    *)
(* come later, and so may that of a reading of the saved reports which     *)
(* another one replaced.  Submissions may be added to the page under a     *)
(* running batch.                                                          *)
(***************************************************************************)
EXTENDS Naturals, FiniteSets

CONSTANTS
  Targets,     \* the submissions to the assignment, one student each
  Known,       \* those there are when the page is first opened
  Kinds,       \* of detection options: "off", "plain" or with "samples"
  MaxReports,  \* bound on the reports the model generates
  MaxStale,    \* bound on the outdated batches and readings under way
  NoTarget

ASSUME DetectionAssumption ==
  /\ Known \subseteq Targets
  /\ Kinds \subseteq {"off", "plain", "samples"}
  /\ MaxReports \in Nat /\ MaxStale \in Nat
  /\ NoTarget \notin Targets
  /\ "samples" \notin Targets

VARIABLES
  configured, \* server: its detection options, of Kinds, which do not change
  saved,      \* server: the report stored for a submission, 0 if none
  everSaved,  \* server: all that have been stored for it
  generated,  \* reports generated so far; a report is known by its number
  listed,     \* the submissions the page knows of
  mode,       \* of the whole class or of one submission
  picked,     \* that submission
  rows,       \* the results shown, by submission
  running,    \* loading: the page is marked as detecting
  preparing,  \* ... and as preparing the samples first
  reading,    \* cacheLoading: the saved reports are marked as being read
  readError,  \* cacheError
  options,    \* what the server says of detection, "unknown" while read
  report,     \* reportMeta: an overview with its exports is shown
  batches,    \* the batches whose request is under way
  readings    \* the readings of saved reports under way

detectionVars ==
  <<configured, saved, everSaved, generated, listed, mode, picked, rows, running,
    preparing, reading, readError, options, report, batches, readings>>
serverVars == <<configured, saved, everSaved, generated>>

Reports == 1..MaxReports
Row == [state : {"pending", "running", "done", "error", "stopped"},
        result : Reports \cup {0}]

\* "made" is a report that is generated but not stored yet.
Batch == [current : BOOLEAN, at : Targets \cup {"samples"}, todo : SUBSET Targets,
          regenerate : BOOLEAN, made : Reports \cup {0},
          answer : Reports \cup {0}, failure : {"none", "error", "refused"}]

Reading == [current : BOOLEAN, sources : SUBSET Targets,
            answer : [Targets -> Reports \cup {0}] \cup {NoTarget}]

DetectionTypeOK ==
  /\ saved \in [Targets -> Reports \cup {0}]
  /\ everSaved \in [Targets -> SUBSET Reports]
  /\ generated \in 0..MaxReports
  /\ listed \subseteq Targets
  /\ mode \in {"class", "single"}
  /\ picked \in Targets \cup {NoTarget}
  /\ rows \in [Targets -> Row \cup {NoTarget}]
  /\ running \in BOOLEAN /\ preparing \in BOOLEAN
  /\ reading \in BOOLEAN /\ readError \in BOOLEAN /\ report \in BOOLEAN
  /\ configured \in Kinds
  /\ options \in {"unknown", configured}
  /\ batches \subseteq Batch
  /\ readings \subseteq Reading

Selection(m, p, l) == IF m = "class" THEN l ELSE l \cap {p}
Selected == Selection(mode, picked, listed)

NoRows == [s \in Targets |-> NoTarget]
Pending == [state |-> "pending", result |-> 0]
ShownRows == {s \in Targets : rows[s] # NoTarget}
RowsIn(states) == {s \in ShownRows : rows[s].state \in states}
WithResult == {s \in ShownRows : rows[s].result # 0}

\* Of the answers still to come only those of the present batch and reading
\* count: runNumber and "active" tell them.
Outdated(rs) == {[r EXCEPT !.current = FALSE] : r \in rs}
TakeAny(r) == TRUE
IsCurrent(r) == r.current

StaleOf(rs) == {r \in rs : ~r.current}
FewStale == Cardinality(StaleOf(batches')) + Cardinality(StaleOf(readings')) <= MaxStale

-----------------------------------------------------------------------------
\* The effect of a new selection: nothing is shown until the saved reports and
\* the options are read anew.  A running batch goes on.
ReadSaved(m, p, l) ==
  /\ reading' = TRUE
  /\ readError' = FALSE
  /\ options' = "unknown"
  /\ rows' = NoRows
  /\ report' = FALSE
  /\ readings' = Outdated(readings) \cup
       {[current |-> TRUE, sources |-> Selection(m, p, l), answer |-> NoTarget]}

DetectionInit ==
  /\ configured \in Kinds
  /\ saved = [s \in Targets |-> 0]
  /\ everSaved = [s \in Targets |-> {}]
  /\ generated = 0
  /\ listed = Known
  /\ mode = "class" /\ picked = NoTarget
  /\ rows = NoRows
  /\ running = FALSE /\ preparing = FALSE
  /\ reading = TRUE /\ readError = FALSE
  /\ options = "unknown"
  /\ report = FALSE
  /\ batches = {}
  /\ readings = {[current |-> TRUE, sources |-> Known, answer |-> NoTarget]}

\* The page is left and opened again: the unmount invalidates what is under way.
Reopen ==
  /\ mode' = "class" /\ picked' = NoTarget
  /\ running' = FALSE /\ preparing' = FALSE
  /\ batches' = Outdated(batches)
  /\ ReadSaved("class", NoTarget, listed)
  /\ FewStale
  /\ UNCHANGED <<serverVars, listed>>

\* The list of submissions is loaded anew and has one more; it is read for when
\* it belongs to the selection, also under a running batch.
ListGrows(s) ==
  /\ s \notin listed
  /\ listed' = listed \cup {s}
  /\ IF mode = "class" THEN ReadSaved(mode, picked, listed')
     ELSE UNCHANGED <<rows, reading, readError, options, report, readings>>
  /\ UNCHANGED <<serverVars, mode, picked, running, preparing, batches>>
  /\ FewStale

\* The settings are disabled while a batch runs or the saved reports are read.
SettingsEnabled == ~running /\ ~reading

Choose(m, p) ==
  /\ SettingsEnabled
  /\ m = "single" \/ p = picked
  /\ <<m, p>> # <<mode, picked>>
  /\ p \in listed \cup {NoTarget, picked}
  /\ mode' = m /\ picked' = p
  /\ ReadSaved(m, p, listed)
  /\ UNCHANGED <<serverVars, listed, running, preparing, batches>>
  /\ FewStale

RetryReading ==
  /\ readError
  /\ ReadSaved(mode, picked, listed)
  /\ UNCHANGED <<serverVars, listed, mode, picked, running, preparing, batches>>
  /\ FewStale

\* The server reads the reports (of one submission or of the latest of each).
ServeReading(r) ==
  /\ r.answer = NoTarget
  /\ readings' = (readings \ {r}) \cup
       {[r EXCEPT !.answer = [s \in Targets |-> IF s \in r.sources THEN saved[s] ELSE 0]]}
  /\ UNCHANGED <<serverVars, listed, mode, picked, rows, running, preparing, reading,
                 readError, options, report, batches>>

Restored(r) ==
  [s \in Targets |->
     IF s \notin r.sources THEN NoTarget
     ELSE IF r.answer[s] = 0 THEN Pending
     ELSE [state |-> "done", result |-> r.answer[s]]]

ReadingAnswered(r) ==
  /\ r.answer # NoTarget
  /\ readings' = readings \ {r}
  /\ IF IsCurrent(r)
     THEN /\ rows' = Restored(r)
          /\ reading' = FALSE
          /\ options' = configured
          /\ report' = (report \/ \E s \in Targets : r.answer[s] # 0)
     ELSE UNCHANGED <<rows, reading, options, report>>
  /\ UNCHANGED <<serverVars, listed, mode, picked, running, preparing, readError, batches>>

ReadingFails(r) ==
  /\ readings' = readings \ {r}
  /\ IF IsCurrent(r) THEN reading' = FALSE /\ readError' = TRUE
     ELSE UNCHANGED <<reading, readError>>
  /\ UNCHANGED <<serverVars, listed, mode, picked, rows, running, preparing, options,
                 report, batches>>

-----------------------------------------------------------------------------
\* A row that is no longer shown is not brought back.
Update(rs, s, row) == IF rs[s] = NoTarget THEN rs ELSE [rs EXCEPT ![s] = row]
Mark(rs, s, state) ==
  IF rs[s] = NoTarget THEN rs ELSE [rs EXCEPT ![s].state = state]
Failed(rs, ss) ==
  [s \in Targets |-> IF s \in ss /\ rs[s] # NoTarget /\ rs[s].state = "pending"
                     THEN [rs[s] EXCEPT !.state = "error"] ELSE rs[s]]

\* The batch goes on with one of its submissions, or ends.
Continue(b, rs, others) ==
  \/ /\ b.todo = {}
     /\ rows' = rs
     /\ running' = FALSE
     /\ batches' = others
  \/ \E s \in b.todo :
       /\ rows' = Mark(rs, s, "running")
       /\ running' = TRUE
       /\ batches' = others \cup
            {[b EXCEPT !.at = s, !.todo = @ \ {s}, !.made = 0, !.answer = 0,
                       !.failure = "none"]}

Abandon(rs, others) ==
  /\ rows' = rs
  /\ running' = FALSE
  /\ batches' = others

\* A batch over some submissions: all of the selection, or some rows once more.
StartBatch(sources, retry, regenerate) ==
  /\ sources # {}
  /\ ~running /\ ~reading /\ ~readError
  /\ options \in {"plain", "samples"}
  /\ report' = TRUE
  /\ LET rs == [s \in Targets |-> IF s \in sources THEN Pending
                                  ELSE IF retry THEN rows[s] ELSE NoTarget]
         b == [current |-> TRUE, at |-> "samples", todo |-> sources,
               regenerate |-> regenerate, made |-> 0, answer |-> 0,
               failure |-> "none"]
     IN IF options = "samples"
        THEN /\ preparing' = TRUE
             /\ rows' = rs
             /\ running' = TRUE
             /\ batches' = batches \cup {b}
        ELSE UNCHANGED preparing /\ Continue(b, rs, batches)
  /\ UNCHANGED <<serverVars, listed, mode, picked, reading, readError, options, readings>>

\* The three buttons: detect (again if there are reports), the missing ones,
\* and those that failed or were stopped.
Detect == StartBatch(Selected, FALSE, report \/ WithResult # {})
DetectMissing ==
  /\ WithResult # {}
  /\ StartBatch(RowsIn({"pending"}) \ WithResult, TRUE, FALSE)
RetryFailed == StartBatch(RowsIn({"error", "stopped"}), TRUE, TRUE)

\* runNumber goes up and the request is aborted, as far as it still can be.
Stop ==
  /\ running
  /\ running' = FALSE /\ preparing' = FALSE
  /\ rows' = [s \in Targets |-> IF s \in RowsIn({"pending", "running"})
                                THEN [rows[s] EXCEPT !.state = "stopped"] ELSE rows[s]]
  /\ batches' = Outdated(batches)
  /\ UNCHANGED <<serverVars, listed, mode, picked, reading, readError, options, report,
                 readings>>
  /\ FewStale

\* The shared samples are ready, or the batch does not begin.
SamplesReady(b) ==
  /\ b.at = "samples"
  /\ IF IsCurrent(b)
     THEN preparing' = FALSE /\ Continue(b, rows, batches \ {b})
     ELSE batches' = batches \ {b} /\ UNCHANGED <<rows, running, preparing>>
  /\ UNCHANGED <<serverVars, listed, mode, picked, reading, readError, options, report,
                 readings>>

SamplesFail(b) ==
  /\ b.at = "samples"
  /\ IF IsCurrent(b)
     THEN preparing' = FALSE /\ Abandon(Failed(rows, b.todo), batches \ {b})
     ELSE batches' = batches \ {b} /\ UNCHANGED <<rows, running, preparing>>
  /\ UNCHANGED <<serverVars, listed, mode, picked, reading, readError, options, report,
                 readings>>

-----------------------------------------------------------------------------
\* detectAndSaveAI: a stored report is answered as it is, unless asked anew ...
Served(b) == b.answer # 0 \/ b.failure # "none"
Unserved(b) == b.at \in Targets /\ b.made = 0 /\ ~Served(b)
AnswerStored(b) ==
  /\ Unserved(b)
  /\ ~b.regenerate
  /\ saved[b.at] # 0
  /\ batches' = (batches \ {b}) \cup {[b EXCEPT !.answer = saved[b.at]]}
  /\ UNCHANGED <<serverVars, listed, mode, picked, rows, running, preparing, reading,
                 readError, options, report, readings>>

\* ... and else one is generated, which takes its time, and then stored.
Generate(b) ==
  /\ Unserved(b)
  /\ b.regenerate \/ saved[b.at] = 0
  /\ generated < MaxReports
  /\ generated' = generated + 1
  /\ batches' = (batches \ {b}) \cup {[b EXCEPT !.made = generated + 1]}
  /\ UNCHANGED <<configured, saved, everSaved, listed, mode, picked, rows, running,
                 preparing, reading, readError, options, report, readings>>

StoreNot(s, n) == UNCHANGED <<saved, everSaved>>
Store(s, n) ==
  /\ saved' = [saved EXCEPT ![s] = n]
  /\ everSaved' = [everSaved EXCEPT ![s] = @ \cup {n}]

SaveReport(b) ==
  /\ b.made # 0
  /\ ~Served(b)
  /\ Store(b.at, b.made)
  /\ batches' = (batches \ {b}) \cup {[b EXCEPT !.answer = b.made]}
  /\ UNCHANGED <<configured, generated, listed, mode, picked, rows, running, preparing,
                 reading, readError, options, report, readings>>

\* The model or the storage fails; "refused" are 401, 403 and 503.
ServeFails(b) ==
  /\ b.at \in Targets
  /\ ~Served(b)
  /\ \E e \in {"error", "refused"} :
       batches' = (batches \ {b}) \cup {[b EXCEPT !.failure = e]}
  /\ UNCHANGED <<serverVars, listed, mode, picked, rows, running, preparing, reading,
                 readError, options, report, readings>>

-----------------------------------------------------------------------------
\* A report is shown and the next one asked for.
BatchAnswered(b) ==
  /\ b.answer # 0
  /\ IF IsCurrent(b)
     THEN Continue(b, Update(rows, b.at, [state |-> "done", result |-> b.answer]), batches \ {b})
     ELSE batches' = batches \ {b} /\ UNCHANGED <<rows, running>>
  /\ UNCHANGED <<serverVars, listed, mode, picked, preparing, reading, readError, options,
                 report, readings>>

\* An error concerns one row, after a refusal the batch ends.
BatchFails(b) ==
  /\ b.failure # "none"
  /\ IF ~IsCurrent(b)
     THEN batches' = batches \ {b} /\ UNCHANGED <<rows, running>>
     ELSE LET rs == Mark(rows, b.at, "error")
          IN IF b.failure = "refused" THEN Abandon(Failed(rs, Targets), batches \ {b})
             ELSE Continue(b, rs, batches \ {b})
  /\ UNCHANGED <<serverVars, listed, mode, picked, preparing, reading, readError, options,
                 report, readings>>

DetectionNext ==
  \/ Reopen
  \/ \E s \in Targets : ListGrows(s)
  \/ \E m \in {"class", "single"}, p \in Targets \cup {NoTarget} : Choose(m, p)
  \/ RetryReading
  \/ \E r \in readings : ServeReading(r) \/ ReadingAnswered(r) \/ ReadingFails(r)
  \/ Detect \/ DetectMissing \/ RetryFailed
  \/ Stop
  \/ \E b \in batches :
       \/ SamplesReady(b) \/ SamplesFail(b)
       \/ AnswerStored(b) \/ Generate(b) \/ SaveReport(b) \/ ServeFails(b)
       \/ BatchAnswered(b) \/ BatchFails(b)

DetectionSpec == DetectionInit /\ [][DetectionNext]_detectionVars

-----------------------------------------------------------------------------
\* A report that is shown has been stored for just that submission, whatever
\* batches were stopped and lists grew in the meantime.
ShownReportsSaved ==
  \A s \in RowsIn({"done"}) : rows[s].result \in everSaved[s]

\* The page is marked as detecting, preparing or reading exactly while its
\* present batch or reading is under way, and a running row is that batch's.
DetectionBusy ==
  /\ Cardinality({b \in batches : b.current}) = IF running THEN 1 ELSE 0
  /\ Cardinality({r \in readings : r.current}) = IF reading THEN 1 ELSE 0
  /\ preparing <=> \E b \in batches : b.current /\ b.at = "samples"
  /\ \A s \in RowsIn({"running"}) : \E b \in batches : b.current /\ b.at = s

\* The answer to an outdated request changes nothing on the page.
OutdatedDetection ==
  StaleOf(batches) \ batches' # {} \/ StaleOf(readings) \ readings' # {} =>
    UNCHANGED <<rows, running, preparing, reading, readError, options, report>>
=============================================================================
