----------------------------- MODULE MCStudent -----------------------------
(***************************************************************************)
(* The parts of the application a student meets, each on its own.          *)
(***************************************************************************)
EXTENDS Session, Workspace, CodeEditor

VARIABLE part  \* the one that is run, chosen at the start

studentVars == <<part, sessionVars, workspaceVars, editorVars>>

StudentInit ==
  /\ part \in {"session", "workspace", "editor"}
  /\ SessionInit
  /\ WorkspaceInit
  /\ CodeEditorInit

StudentNext ==
  /\ UNCHANGED part
  /\ \/ part = "session" /\ SessionNext /\ UNCHANGED <<workspaceVars, editorVars>>
     \/ part = "workspace" /\ WorkspaceNext /\ UNCHANGED <<sessionVars, editorVars>>
     \/ part = "editor" /\ CodeEditorNext /\ UNCHANGED <<sessionVars, workspaceVars>>

StudentSpec == StudentInit /\ [][StudentNext]_studentVars /\ WorkspaceFairness

\* Types, and the marks of what is under way, which disable the buttons.
StudentTypeOK ==
  /\ SessionTypeOK /\ SessionBusy
  /\ WorkspaceTypeOK /\ WorkspaceBusy
  /\ CodeEditorTypeOK /\ EditorBusy

\* Two programs the formatter changes or keeps, and one it cannot parse.
FormatterMC == [t \in Texts |-> IF t = "broken" THEN NoText ELSE "tidy"]
=============================================================================
