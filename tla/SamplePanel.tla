---------------------------- MODULE SamplePanel ----------------------------
(***************************************************************************)
(* The panel with the shared AI samples of an assignment:                  *)
(* AISampleLibraryPanel.tsx, over the bank of SampleBank, which only grows *)
(* while the assignment is not edited.                                     *)
(*                                                                         *)
(* The panel reads the bank when it is opened, when a batch ends, when it  *)
(* is refreshed and every three seconds while it generates.  A new reading *)
(* aborts the one before, whose answer may be on its way.                  *)
(***************************************************************************)
EXTENDS Naturals, FiniteSets

CONSTANTS
  Expected,   \* the samples a complete bank has
  MaxReads,   \* bound on the aborted readings on their way
  Unread

ASSUME PanelAssumption ==
  /\ Expected \in Nat \ {0}
  /\ MaxReads \in Nat
  /\ Unread \notin 0..Expected

VARIABLES
  kept,         \* server: the samples in the bank
  library,      \* the number of samples shown, or Unread
  readingBank,  \* reading: the first reading is under way
  making,       \* generating: the panel's own request is under way
  readFailed,   \* readError
  makeFailed,   \* error
  reads         \* the readings under way, the aborted ones included

panelVars == <<kept, library, readingBank, making, readFailed, makeFailed, reads>>

Count == 0..Expected
BankRead == [aborted : BOOLEAN, answer : Count \cup {Unread}]

SamplePanelTypeOK ==
  /\ kept \in Count
  /\ library \in Count \cup {Unread}
  /\ readingBank \in BOOLEAN /\ making \in BOOLEAN /\ readFailed \in BOOLEAN /\ makeFailed \in BOOLEAN
  /\ reads \subseteq BankRead

\* Of the readings one at most is not aborted, and a first one is marked.
PanelBusy ==
  /\ readingBank => \E r \in reads : ~r.aborted
  /\ Cardinality({r \in reads : ~r.aborted}) <= 1

Heard(r) == ~r.aborted

\* The effect: what is under way is aborted and the bank read anew.
ReadAnew ==
  /\ reads' = {[r EXCEPT !.aborted = TRUE] : r \in reads}
                \cup {[aborted |-> FALSE, answer |-> Unread]}
  /\ Cardinality(reads') <= MaxReads + 1

SamplePanelInit ==
  /\ kept = 0
  /\ library = Unread
  /\ readingBank = TRUE
  /\ making = FALSE
  /\ readFailed = FALSE /\ makeFailed = FALSE
  /\ reads = {[aborted |-> FALSE, answer |-> Unread]}

-----------------------------------------------------------------------------
\* The panel is left and opened again, also in the middle of a generation.
ReopenPanel ==
  /\ library' = Unread
  /\ readingBank' = TRUE
  /\ making' = FALSE
  /\ readFailed' = FALSE /\ makeFailed' = FALSE
  /\ ReadAnew
  /\ UNCHANGED kept

\* The refresh button, and the key that changes when a batch ends.
RefreshPanel ==
  /\ ReadAnew
  /\ UNCHANGED <<kept, library, readingBank, making, readFailed, makeFailed>>

\* The bank grows by the panel's request, by a batch's, or by another page's.
GrowBank ==
  /\ kept < Expected
  /\ kept' = kept + 1
  /\ UNCHANGED <<library, readingBank, making, readFailed, makeFailed, reads>>

ReadBank(r) ==
  /\ r.answer = Unread
  /\ reads' = (reads \ {r}) \cup {[r EXCEPT !.answer = kept]}
  /\ UNCHANGED <<kept, library, readingBank, making, readFailed, makeFailed>>

BankAnswered(r) ==
  /\ r.answer # Unread
  /\ reads' = reads \ {r}
  /\ IF Heard(r) THEN library' = r.answer /\ readingBank' = FALSE /\ readFailed' = FALSE
     ELSE UNCHANGED <<library, readingBank, readFailed>>
  /\ UNCHANGED <<kept, making, makeFailed>>

BankReadFails(r) ==
  /\ reads' = reads \ {r}
  /\ IF Heard(r) THEN readingBank' = FALSE /\ readFailed' = TRUE
     ELSE UNCHANGED <<readingBank, readFailed>>
  /\ UNCHANGED <<kept, library, making, makeFailed>>

\* The timer of a generating panel, set once its last reading was answered.
PollBank ==
  /\ making
  /\ \A r \in reads : r.aborted
  /\ reads' = reads \cup {[aborted |-> FALSE, answer |-> Unread]}
  /\ UNCHANGED <<kept, library, readingBank, making, readFailed, makeFailed>>

-----------------------------------------------------------------------------
Generable == ~making /\ ~readingBank /\ library # Expected
GenerateLibrary ==
  /\ Generable
  /\ makeFailed' = FALSE
  /\ making' = TRUE
  /\ ReadAnew
  /\ UNCHANGED <<kept, library, readingBank, readFailed>>

\* The answer is the complete bank or an error (loadOrGenerateAISamples); it is
\* shown, and the bank is read once more.
LibraryAnswered ==
  /\ making
  /\ kept = Expected
  /\ library' = kept
  /\ making' = FALSE
  /\ ReadAnew
  /\ UNCHANGED <<kept, readingBank, readFailed, makeFailed>>

LibraryFails ==
  /\ making
  /\ makeFailed' = TRUE
  /\ making' = FALSE
  /\ ReadAnew
  /\ UNCHANGED <<kept, library, readingBank, readFailed>>

SamplePanelNext ==
  \/ ReopenPanel
  \/ RefreshPanel
  \/ GrowBank
  \/ \E r \in reads : ReadBank(r) \/ BankAnswered(r) \/ BankReadFails(r)
  \/ PollBank
  \/ GenerateLibrary
  \/ LibraryAnswered
  \/ LibraryFails

SamplePanelSpec == SamplePanelInit /\ [][SamplePanelNext]_panelVars

-----------------------------------------------------------------------------
\* While the panel is open a sample it has shown stays, in whatever order
\* readings and the generation are answered.
SamplesShownStay ==
  library # Unread => library' = Unread \/ library' >= library
=============================================================================
