----------------------------- MODULE CodeEditor -----------------------------
(***************************************************************************)
(* The editor a student writes in: components/editor/CodeEditor.tsx.  The  *)
(* formatter is loaded and run in the background, the student goes on      *)
(* typing, and timers take the signs of success back.                      *)
(***************************************************************************)
CONSTANTS
  Texts,      \* programs to write
  Formatted,  \* what the formatter makes of one; NoText if it cannot be parsed
  NoText

ASSUME EditorAssumption ==
  /\ Formatted \in [Texts -> Texts \cup {NoText}]
  /\ Texts # {} /\ NoText \notin Texts

VARIABLES
  text,         \* the document
  formatState,  \* of the button: "idle", "loading" or "done"
  formatting,   \* the text given to the formatter, NoText if none is
  doneTimer,    \* the timer that takes "done" back is set
  copied,       \* the sign of a copy is shown, and its timer set
  editError,    \* an error is shown below the document
  expanded      \* full screen

editorVars == <<text, formatState, formatting, doneTimer, copied, editError, expanded>>

CodeEditorTypeOK ==
  /\ text \in Texts
  /\ formatState \in {"idle", "loading", "done"}
  /\ formatting \in Texts \cup {NoText}
  /\ doneTimer \in BOOLEAN /\ copied \in BOOLEAN
  /\ editError \in BOOLEAN /\ expanded \in BOOLEAN

\* The button shows that the formatter is at work exactly while it is, and a
\* timer is set while it shows success.
EditorBusy ==
  /\ formatState = "loading" <=> formatting # NoText
  /\ formatState = "done" <=> doneTimer

Template == CHOOSE t \in Texts : TRUE

CodeEditorInit ==
  /\ text = Template
  /\ formatState = "idle" /\ formatting = NoText /\ doneTimer = FALSE
  /\ copied = FALSE /\ editError = FALSE /\ expanded = FALSE

-----------------------------------------------------------------------------
TypeCode(t) ==
  /\ text' = t
  /\ UNCHANGED <<formatState, formatting, doneTimer, copied, editError, expanded>>

\* By the button or by its keys.
FormatCode ==
  /\ formatState # "loading"
  /\ formatState' = "loading"
  /\ formatting' = text
  /\ editError' = FALSE
  /\ doneTimer' = FALSE
  /\ UNCHANGED <<text, copied, expanded>>

ChangedNever == FALSE
Changed == text # formatting
Fails == Changed \/ Formatted[formatting] = NoText

\* The document is replaced if it is still the one that was formatted.
FormatDone ==
  /\ formatting # NoText
  /\ ~Fails
  /\ text' = Formatted[formatting]
  /\ formatState' = "done"
  /\ formatting' = NoText
  /\ doneTimer' = TRUE
  /\ UNCHANGED <<copied, editError, expanded>>

\* It cannot be parsed, it was changed ("代码已变更，请重新格式化"), or the formatter
\* could not be loaded.
FormatFails ==
  /\ formatting # NoText
  /\ formatState' = "idle"
  /\ formatting' = NoText
  /\ editError' = TRUE
  /\ UNCHANGED <<text, doneTimer, copied, expanded>>

DoneTimer ==
  /\ doneTimer
  /\ doneTimer' = FALSE
  /\ formatState' = "idle"
  /\ UNCHANGED <<text, formatting, copied, editError, expanded>>

CopyCode(allowed) ==
  /\ editError' = ~allowed
  /\ copied' = (copied \/ allowed)
  /\ UNCHANGED <<text, formatState, formatting, doneTimer, expanded>>

CopyTimer ==
  /\ copied
  /\ copied' = FALSE
  /\ UNCHANGED <<text, formatState, formatting, doneTimer, editError, expanded>>

CloseError ==
  /\ editError
  /\ editError' = FALSE
  /\ UNCHANGED <<text, formatState, formatting, doneTimer, copied, expanded>>

\* The editor is moved, with its document, and not made anew.
Expand ==
  /\ expanded' = ~expanded
  /\ UNCHANGED <<text, formatState, formatting, doneTimer, copied, editError>>

CodeEditorNext ==
  \/ \E t \in Texts : TypeCode(t)
  \/ FormatCode \/ FormatDone \/ FormatFails
  \/ DoneTimer
  \/ \E allowed \in BOOLEAN : CopyCode(allowed)
  \/ CopyTimer
  \/ CloseError
  \/ Expand

CodeEditorSpec == CodeEditorInit /\ [][CodeEditorNext]_editorVars

-----------------------------------------------------------------------------
\* The end of a formatting never takes back what was typed since it began, and
\* no timer of an earlier one makes it look finished.
FormattingKeepsText ==
  /\ formatting # NoText /\ formatting' = NoText =>
       text' = text \/ (text = formatting /\ text' = Formatted[text])
  /\ formatState = "loading" /\ formatState' # "loading" => formatting' = NoText
TypedTextKept == [][FormattingKeepsText]_editorVars
=============================================================================
