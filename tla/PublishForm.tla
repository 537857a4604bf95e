---------------------------- MODULE PublishForm ----------------------------
(***************************************************************************)
(* Publishing and editing an assignment: Publish of web/src/App.tsx, with  *)
(* createAssignment and updateAssignment of server/internal/api/handler.go *)
(* behind it.                                                              *)
(*                                                                         *)
(* The form asks for the languages of the server and, when it edits, for   *)
(* the assignment; it may be filled in before either is answered.  Leaving *)
(* it drops what it asked for, but not a save: that is stored all the      *)
(* same, and its answer leads to the list from wherever the teacher is.    *)
(***************************************************************************)
EXTENDS Naturals, FiniteSets

CONSTANTS
  Languages,  \* that can be named, with the one a form begins with
  Enabled,    \* those the server is configured with ...
  FirstEnabled, \* ... and the one it names first
  First,      \* the language a form begins with
  Unpublished,
  MaxCalls    \* bound on the requests under way

ASSUME PublishAssumption ==
  /\ First \in Languages
  /\ Enabled \subseteq Languages /\ FirstEnabled \in Enabled
  /\ Unpublished \notin Languages
  /\ MaxCalls \in Nat

VARIABLES
  published,  \* server: the assignment, by what identifies it
  editor,     \* the form on the page, if any
  calls       \* the requests under way

publishVars == <<published, editor, calls>>

\* A title is blank or not; in a form that edits it is that of the assignment.
Assignment == [titled : BOOLEAN, language : Languages]
Editor == [mode : {"create", "edit"}, titled : BOOLEAN, language : Languages,
           filled : BOOLEAN,         \* the other fields that are required
           balanced : BOOLEAN,       \* the weights add up to 100
           offered : BOOLEAN,        \* the languages are there
           generating : BOOLEAN, saving : BOOLEAN, error : BOOLEAN]

\* A save carries the assignment and goes from "sent" to "stored" or "refused",
\* and from there to "listed" while the lists are loaded before it navigates.
Call == [kind : {"languages", "details", "tests"}, live : BOOLEAN]
Save == [kind : {"save"}, live : BOOLEAN, mode : {"create", "edit"},
         of : Assignment, state : {"sent", "stored", "refused", "listed"}]

\* "None yet" is no assignment and no form.
ASSUME UnpublishedAssumption == Unpublished \notin Assignment \cup Editor

PublishTypeOK ==
  /\ published \in Assignment \cup {Unpublished}
  /\ editor \in Editor \cup {Unpublished}
  /\ calls \subseteq Call \cup Save
  /\ \A c \in calls : c.live => editor # Unpublished

CallsOf(kind) == {c \in calls : c.kind = kind}

\* The form is marked as saving and as generating while it is.
PublishBusy ==
  editor # Unpublished =>
    /\ editor.saving <=> \E c \in CallsOf("save") : c.live
    /\ editor.generating <=> \E c \in CallsOf("tests") : c.live

PublishInit == published = Unpublished /\ editor = Unpublished /\ calls = {}

-----------------------------------------------------------------------------
\* What the form asked for is of no use once it is gone, except for a save.
Left == {[c EXCEPT !.live = FALSE] : c \in CallsOf("save")}

OpenForm(mode) ==
  /\ editor = Unpublished
  /\ mode = "edit" <=> published # Unpublished
  /\ editor' = [mode |-> mode, titled |-> FALSE, language |-> First,
                filled |-> FALSE, balanced |-> TRUE, offered |-> FALSE, generating |-> FALSE,
                saving |-> FALSE, error |-> FALSE]
  /\ calls' = calls \cup
       {[kind |-> k, live |-> TRUE] :
          k \in {"languages"} \cup (IF mode = "edit" THEN {"details"} ELSE {})}
  /\ UNCHANGED published

\* Its own buttons are disabled while it saves; the menu is not.
LeaveForm ==
  /\ editor # Unpublished
  /\ editor' = Unpublished
  /\ calls' = Left
  /\ UNCHANGED published

\* The effect asks once, and knows the language of that moment for ever: it is
\* First that it looks for, whatever the form's language has become since.
FirstAlways(language) == FirstEnabled
LanguageOffered(language) == IF First \in Enabled THEN language ELSE FirstEnabled
LanguagesAnswered(c) ==
  /\ c.kind = "languages"
  /\ editor' = [editor EXCEPT !.offered = TRUE, !.language = LanguageOffered(@)]
  /\ calls' = calls \ {c}
  /\ UNCHANGED published

DetailsAnswered(c) ==
  /\ c.kind = "details"
  /\ editor' = [editor EXCEPT !.titled = TRUE, !.language = published.language,
                              !.filled = TRUE, !.balanced = TRUE]
  /\ calls' = calls \ {c}
  /\ UNCHANGED published

ReadFails(c) ==
  /\ c.kind \in {"languages", "details"}
  /\ editor' = [editor EXCEPT !.error = TRUE]
  /\ calls' = calls \ {c}
  /\ UNCHANGED published

-----------------------------------------------------------------------------
\* Title and language are fixed once published.
Identity == editor # Unpublished /\ editor.mode = "create"
TypeTitle(filled) ==
  /\ Identity
  /\ editor' = [editor EXCEPT !.titled = filled]
  /\ UNCHANGED <<published, calls>>

ChooseLanguage(l) ==
  /\ Identity
  /\ editor.offered
  /\ l \in Enabled
  /\ editor' = [editor EXCEPT !.language = l]
  /\ UNCHANGED <<published, calls>>

\* The other fields: schedule, description and materials, ...
TypeRest(filled) ==
  /\ editor # Unpublished
  /\ editor' = [editor EXCEPT !.filled = filled]
  /\ UNCHANGED <<published, calls>>

\* ... and the criteria of the rubric with their weights.
WeighRubric(balanced) ==
  /\ editor # Unpublished
  /\ editor' = [editor EXCEPT !.balanced = balanced]
  /\ UNCHANGED <<published, calls>>

\* Test cases drafted by the model; the button is disabled meanwhile.
GenerateTests ==
  /\ editor # Unpublished
  /\ ~editor.generating
  /\ editor.titled
  /\ editor.filled
  /\ Cardinality(calls) < MaxCalls
  /\ editor' = [editor EXCEPT !.generating = TRUE]
  /\ calls' = calls \cup {[kind |-> "tests", live |-> TRUE]}
  /\ UNCHANGED published

TestsAnswered(c) ==
  /\ c.kind = "tests"
  /\ editor' = [editor EXCEPT !.generating = FALSE]
  /\ calls' = calls \ {c}
  /\ UNCHANGED published

-----------------------------------------------------------------------------
\* What is fixed once it is published.
IdentityOf(e) == [titled |-> e.titled, language |-> e.language]

\* The button and go() itself: nothing is sent without a title.
Complete == editor.titled /\ editor.filled
CanSave ==
  /\ ~editor.saving
  /\ ~editor.generating
  /\ editor.balanced
  /\ editor.offered

SendAssignment ==
  /\ editor # Unpublished
  /\ CanSave
  /\ Complete
  /\ Cardinality(calls) < MaxCalls
  /\ editor' = [editor EXCEPT !.saving = TRUE, !.error = FALSE]
  /\ calls' = calls \cup
       {[kind |-> "save", live |-> TRUE, mode |-> editor.mode, state |-> "sent",
         of |-> IdentityOf(editor)]}
  /\ UNCHANGED published

RefuseIncomplete ==
  /\ editor # Unpublished
  /\ CanSave
  /\ ~Complete
  /\ editor' = [editor EXCEPT !.error = TRUE]
  /\ UNCHANGED <<published, calls>>

\* The server's own check of an edit, whatever the form sends.
SameIdentity(c) == c.of = published

\* A second assignment published from this form is another one and not followed.
StoreAssignment(c) ==
  /\ c.kind = "save"
  /\ c.state = "sent"
  /\ c.of.titled /\ c.of.language \in Enabled
  /\ IF c.mode = "create" THEN published = Unpublished ELSE SameIdentity(c)
  /\ published' = c.of
  /\ calls' = (calls \ {c}) \cup {[c EXCEPT !.state = "stored"]}
  /\ UNCHANGED editor

RefuseAssignment(c) ==
  /\ c.kind = "save"
  /\ c.state = "sent"
  /\ calls' = (calls \ {c}) \cup {[c EXCEPT !.state = "refused"]}
  /\ UNCHANGED <<published, editor>>

\* done: the lists are loaded, and then the list of assignments is shown,
\* which takes the place also of a form opened in the meantime.
SaveAnswered(c) ==
  /\ c.kind = "save"
  /\ c.state = "stored"
  /\ calls' = (calls \ {c}) \cup {[c EXCEPT !.state = "listed"]}
  /\ UNCHANGED <<published, editor>>

ShowList(c) ==
  /\ c.kind = "save"
  /\ c.state = "listed"
  /\ editor' = Unpublished
  /\ calls' = Left \ {[c EXCEPT !.live = FALSE]}
  /\ UNCHANGED published

\* A refusal, or an answer that is lost.
SaveFails(c) ==
  /\ c.kind = "save"
  /\ c.state \in {"stored", "refused"}
  /\ editor' = IF c.live THEN [editor EXCEPT !.saving = FALSE, !.error = TRUE] ELSE editor
  /\ calls' = calls \ {c}
  /\ UNCHANGED published

PublishNext ==
  \/ \E mode \in {"create", "edit"} : OpenForm(mode)
  \/ LeaveForm
  \/ \E b \in BOOLEAN : TypeTitle(b) \/ TypeRest(b) \/ WeighRubric(b)
  \/ \E l \in Languages : ChooseLanguage(l)
  \/ GenerateTests
  \/ SendAssignment
  \/ RefuseIncomplete
  \/ \E c \in calls :
       \/ LanguagesAnswered(c) \/ DetailsAnswered(c) \/ ReadFails(c)
       \/ TestsAnswered(c)
       \/ StoreAssignment(c) \/ RefuseAssignment(c)
       \/ SaveAnswered(c) \/ ShowList(c) \/ SaveFails(c)

PublishSpec == PublishInit /\ [][PublishNext]_publishVars

-----------------------------------------------------------------------------
\* A form that edits shows the title and the language of the assignment from the
\* moment it has read them ("发布后不可修改"), and what it sends has them: in
\* whatever order the assignment and the languages were answered, so that no
\* complete edit is refused for what the teacher cannot change.
EditKeepsIdentity ==
  /\ editor # Unpublished /\ editor.mode = "edit" /\ editor.titled =>
       IdentityOf(editor) = published
  /\ \A c \in CallsOf("save") : c.mode = "edit" => c.of = published
=============================================================================
