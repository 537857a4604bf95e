--------------------------- MODULE Stored_proofs ---------------------------
(***************************************************************************)
(* Theorems about what is stored and answered: PublishForm, ModelAnswer    *)
(* and CourseMigration, for any values of their constants.                 *)
(***************************************************************************)
EXTENDS PublishForm, ModelAnswer, CourseMigration, TLAPS, FiniteSetTheorems,
        FunctionTheorems, SequenceTheorems

(* What a form has asked for is live, since it is dropped with the form; of  *)
(* the saves one at most is, because the button is disabled meanwhile.       *)
Busy(e, cs) ==
  e # Unpublished =>
    /\ e.saving <=> \E c \in cs : c.kind = "save" /\ c.live
    /\ e.generating <=> \E c \in cs : c.kind = "tests" /\ c.live
CallsOK(e, cs, known) ==
  /\ cs \subseteq Call \cup Save
  /\ \A c \in cs : c.live => e # Unpublished
  /\ \A c \in cs : c.kind # "save" => c.live
  /\ \A c \in cs : c.kind = "details" => known # Unpublished
  /\ \A c, d \in cs : c.kind = "save" /\ c.live /\ d.kind = "save" /\ d.live => c = d
PublishInv ==
  /\ published \in Assignment \cup {Unpublished}
  /\ editor \in Editor \cup {Unpublished}
  /\ CallsOK(editor, calls, published)
  /\ Busy(editor, calls)

LEMMA PublishGoal == PublishInv => PublishTypeOK /\ PublishBusy
  BY DEF PublishInv, CallsOK, Busy, PublishTypeOK, PublishBusy, CallsOf

LEMMA CallKinds ==
  ASSUME NEW c \in Call \cup Save
  PROVE  /\ c.live \in BOOLEAN
         /\ c.kind \in {"languages", "details", "tests", "save"}
         /\ c.kind = "save" => c \in Save
         /\ c.kind # "save" => c = [kind |-> c.kind, live |-> c.live]
  BY DEF Call, Save

LEMMA LeftNotLive ==
  ASSUME calls \subseteq Call \cup Save
  PROVE  \A c \in Left : c \in Save /\ c.kind = "save" /\ ~c.live
<1> SUFFICES ASSUME NEW c \in Left PROVE c \in Save /\ c.kind = "save" /\ ~c.live
  OBVIOUS
<1>1. PICK d \in CallsOf("save") : c = [d EXCEPT !.live = FALSE]
  BY DEF Left
<1>2. d \in Save
  BY CallKinds DEF CallsOf
<1> QED
  BY <1>1, <1>2 DEF Save

LEMMA FormGone ==
  ASSUME NEW cs, \A c \in cs : c \in Save /\ c.kind = "save" /\ ~c.live, NEW known
  PROVE  CallsOK(Unpublished, cs, known) /\ Busy(Unpublished, cs)
  BY DEF CallsOK, Busy

\* A call of the form is answered.
LEMMA CallRemoved ==
  ASSUME NEW e, NEW cs, NEW known, CallsOK(e, cs, known), NEW c
  PROVE  CallsOK(e, cs \ {c}, known)
  BY DEF CallsOK

\* A save goes on to its next state.
LEMMA SaveReplaced ==
  ASSUME NEW e, NEW cs, NEW known, CallsOK(e, cs, known), Busy(e, cs),
         NEW c \in cs, c.kind = "save", NEW d \in Save, d.live = c.live
  PROVE  CallsOK(e, (cs \ {c}) \cup {d}, known) /\ Busy(e, (cs \ {c}) \cup {d})
<1> DEFINE ds == (cs \ {c}) \cup {d}
<1>0. d.kind = "save"
  BY DEF Save
<1>1. CallsOK(e, ds, known)
  BY <1>0 DEF CallsOK
<1>2. \A x \in cs : \E y \in ds : y.kind = x.kind /\ y.live = x.live
  BY <1>0
<1>3. \A y \in ds : \E x \in cs : y.kind = x.kind /\ y.live = x.live
  BY <1>0
<1> HIDE DEF ds
<1>4. \A k : (\E y \in ds : y.kind = k /\ y.live) <=> (\E x \in cs : x.kind = k /\ x.live)
  BY <1>2, <1>3
<1>5. Busy(e, ds)
  BY <1>4 DEF Busy
<1> QED
  BY <1>1, <1>5 DEF ds

LEMMA PublishInitial == PublishInit => PublishInv
  BY DEF PublishInit, PublishInv, CallsOK, Busy

LEMMA PublishStep == PublishInv /\ [PublishNext]_publishVars => PublishInv'
<1> SUFFICES ASSUME PublishInv, [PublishNext]_publishVars PROVE PublishInv'
  OBVIOUS
<1>t. /\ calls \subseteq Call \cup Save
      /\ CallsOK(editor, calls, published) /\ Busy(editor, calls)
      /\ published \in Assignment \cup {Unpublished}
      /\ editor \in Editor \cup {Unpublished}
      /\ editor # Unpublished => editor \in Editor
  BY DEF PublishInv, CallsOK
\* A field of the form alone changes.
<1>f. ASSUME UNCHANGED <<published, calls>>, editor # Unpublished, editor' \in Editor,
             editor' # Unpublished,
             editor'.saving = editor.saving, editor'.generating = editor.generating
      PROVE  PublishInv'
  BY <1>f, <1>t DEF PublishInv, CallsOK, Busy
\* A reading is answered.
<1>a. ASSUME UNCHANGED published, editor # Unpublished, editor' \in Editor,
             editor' # Unpublished,
             editor'.saving = editor.saving, editor'.generating = editor.generating,
             NEW c \in calls, c.kind \in {"languages", "details"}, calls' = calls \ {c}
      PROVE  PublishInv'
  <2>1. CallsOK(editor, calls', published)
    BY <1>a, <1>t, CallRemoved
  <2> QED
    BY <1>a, <1>t, <2>1 DEF PublishInv, CallsOK, Busy
<1>s. ASSUME UNCHANGED editor, NEW c \in calls, c.kind = "save", NEW s,
             s \in {"stored", "refused", "listed"},
             calls' = (calls \ {c}) \cup {[c EXCEPT !.state = s]},
             published' \in Assignment \cup {Unpublished},
             published # Unpublished => published' # Unpublished
      PROVE  PublishInv'
  <2> DEFINE d == [c EXCEPT !.state = s]
  <2>1. c \in Save
    BY <1>s, <1>t, CallKinds
  <2>2. d \in Save /\ d.live = c.live
    BY <1>s, <2>1 DEF Save
  <2>3. calls' = (calls \ {c}) \cup {d}
    BY <1>s
  <2> HIDE DEF d
  <2>4. CallsOK(editor, calls', published) /\ Busy(editor, calls')
    BY <1>s, <1>t, <2>2, <2>3, SaveReplaced
  <2> QED
    BY <1>s, <1>t, <2>4 DEF PublishInv, CallsOK
<1>0. Unpublished \notin Editor /\ Unpublished \notin Assignment
  BY UnpublishedAssumption
<1>l. \A c \in calls : c.kind # "save" => c.live /\ editor # Unpublished
  BY <1>t DEF CallsOK
<1> DEFINE new(m) == [mode |-> m, titled |-> FALSE, language |-> First, filled |-> FALSE,
                      balanced |-> TRUE, offered |-> FALSE, generating |-> FALSE,
                      saving |-> FALSE, error |-> FALSE]
<1>1. ASSUME NEW m \in {"create", "edit"}, OpenForm(m) PROVE PublishInv'
  <2> DEFINE asked == {[kind |-> k, live |-> TRUE] :
                         k \in {"languages"} \cup (IF m = "edit" THEN {"details"} ELSE {})}
  <2>1. editor = Unpublished /\ editor' = new(m) /\ calls' = calls \cup asked
        /\ published' = published /\ (m = "edit" <=> published # Unpublished)
    BY <1>1 DEF OpenForm
  <2>2. new(m) \in Editor /\ new(m).saving = FALSE /\ new(m).generating = FALSE
    BY PublishAssumption DEF Editor
  <2>3. \A c \in asked : /\ c \in Call /\ c.live /\ c.kind \in {"languages", "details"}
                         /\ c.kind = "details" => m = "edit"
    <3> SUFFICES ASSUME NEW k \in {"languages"} \cup (IF m = "edit" THEN {"details"} ELSE {})
                 PROVE  /\ [kind |-> k, live |-> TRUE] \in Call
                        /\ k \in {"languages", "details"} /\ (k = "details" => m = "edit")
      OBVIOUS
    <3>1. k \in {"languages", "details"} /\ (k = "details" => m = "edit")
      OBVIOUS
    <3> QED
      BY <3>1 DEF Call
  <2>4. \A c \in calls : c.kind = "save" /\ ~c.live
    BY <1>t, <2>1 DEF CallsOK
  <2> HIDE DEF asked, new
  <2>5. CallsOK(editor', calls', published)
    <3>1. calls' \subseteq Call \cup Save
      BY <1>t, <2>1, <2>3
    <3>2. \A c \in calls' : c.kind = "save" => ~c.live
      BY <2>1, <2>3, <2>4
    <3> QED
      BY <1>0, <2>1, <2>2, <2>3, <2>4, <3>1, <3>2 DEF CallsOK
  <2>6. \A c \in calls' : c.kind # "tests" /\ (c.kind = "save" => ~c.live)
    BY <2>1, <2>3, <2>4
  <2>7. Busy(editor', calls')
    BY <2>1, <2>2, <2>6 DEF Busy
  <2> QED
    BY <1>t, <2>1, <2>2, <2>5, <2>7 DEF PublishInv
<1>2. CASE LeaveForm
  <2>1. CallsOK(Unpublished, Left, published) /\ Busy(Unpublished, Left)
    BY <1>t, LeftNotLive, FormGone
  <2> QED
    BY <1>2, <1>t, <2>1 DEF LeaveForm, PublishInv
<1>3. ASSUME NEW c \in calls, LanguagesAnswered(c) PROVE PublishInv'
  <2>1. editor \in Editor /\ editor # Unpublished
    BY <1>3, <1>t, <1>l DEF LanguagesAnswered
  <2>2. LanguageOffered(editor.language) \in Languages
    BY <2>1, PublishAssumption DEF LanguageOffered, Editor
  <2>3. editor' \in Editor /\ editor'.saving = editor.saving
        /\ editor'.generating = editor.generating
    BY <1>3, <2>1, <2>2 DEF LanguagesAnswered, Editor
  <2> QED
    BY <1>3, <1>0, <1>a, <2>1, <2>3 DEF LanguagesAnswered
<1>4. ASSUME NEW c \in calls, DetailsAnswered(c) PROVE PublishInv'
  <2>1. editor \in Editor /\ editor # Unpublished /\ published \in Assignment
    BY <1>4, <1>t, <1>l DEF DetailsAnswered, CallsOK
  <2>2. published.language \in Languages
    BY <2>1 DEF Assignment
  <2>3. editor' \in Editor /\ editor'.saving = editor.saving
        /\ editor'.generating = editor.generating
    BY <1>4, <2>1, <2>2 DEF DetailsAnswered, Editor
  <2> QED
    BY <1>4, <1>0, <1>a, <2>1, <2>3 DEF DetailsAnswered
<1>5. ASSUME NEW c \in calls, ReadFails(c) PROVE PublishInv'
  <2>1. editor \in Editor /\ editor # Unpublished
    BY <1>5, <1>t, <1>l DEF ReadFails
  <2>2. editor' \in Editor /\ editor'.saving = editor.saving
        /\ editor'.generating = editor.generating
    BY <1>5, <2>1 DEF ReadFails, Editor
  <2> QED
    BY <1>5, <1>0, <1>a, <2>1, <2>2 DEF ReadFails
<1>6. ASSUME NEW b \in BOOLEAN, TypeTitle(b) \/ TypeRest(b) \/ WeighRubric(b) PROVE PublishInv'
  <2>1. editor \in Editor /\ editor # Unpublished /\ UNCHANGED <<published, calls>>
    BY <1>6, <1>t DEF TypeTitle, TypeRest, WeighRubric, Identity
  <2>2. editor' \in Editor /\ editor'.saving = editor.saving
        /\ editor'.generating = editor.generating
    BY <1>6, <2>1 DEF TypeTitle, TypeRest, WeighRubric, Editor
  <2> QED
    BY <1>0, <1>f, <2>1, <2>2
<1>7. ASSUME NEW l \in Languages, ChooseLanguage(l) PROVE PublishInv'
  <2>1. editor \in Editor /\ editor # Unpublished /\ UNCHANGED <<published, calls>>
    BY <1>7, <1>t DEF ChooseLanguage, Identity
  <2>2. editor' \in Editor /\ editor'.saving = editor.saving
        /\ editor'.generating = editor.generating
    BY <1>7, <2>1 DEF ChooseLanguage, Editor
  <2> QED
    BY <1>0, <1>f, <2>1, <2>2
<1>8. CASE GenerateTests
  <2> DEFINE asked == [kind |-> "tests", live |-> TRUE]
  <2>1. editor \in Editor /\ editor # Unpublished
    BY <1>8, <1>t DEF GenerateTests
  <2>2. editor' \in Editor /\ editor'.saving = editor.saving /\ editor'.generating = TRUE
    BY <1>8, <2>1 DEF GenerateTests, Editor
  <2>3. asked \in Call /\ asked.kind = "tests" /\ asked.live
    BY DEF Call
  <2>4. calls' = calls \cup {asked} /\ published' = published
    BY <1>8 DEF GenerateTests
  <2> HIDE DEF asked
  <2>5. CallsOK(editor', calls', published)
    BY <1>0, <1>t, <2>2, <2>3, <2>4 DEF CallsOK
  <2>6. (\E c \in calls' : c.kind = "save" /\ c.live) <=> (\E c \in calls : c.kind = "save" /\ c.live)
    BY <2>3, <2>4
  <2>7. \E c \in calls' : c.kind = "tests" /\ c.live
    BY <2>3, <2>4
  <2>8. Busy(editor', calls')
    BY <1>t, <2>1, <2>2, <2>6, <2>7 DEF Busy
  <2> QED
    BY <1>t, <2>2, <2>4, <2>5, <2>8 DEF PublishInv
<1>9. CASE SendAssignment
  <2> DEFINE sent == [kind |-> "save", live |-> TRUE, mode |-> editor.mode, state |-> "sent",
                      of |-> IdentityOf(editor)]
  <2>1. editor \in Editor /\ editor # Unpublished /\ ~editor.saving
    BY <1>9, <1>t DEF SendAssignment, CanSave
  <2>2. editor' \in Editor /\ editor'.saving = TRUE /\ editor'.generating = editor.generating
    BY <1>9, <2>1 DEF SendAssignment, Editor
  <2>3. sent \in Save /\ sent.kind = "save" /\ sent.live
    BY <2>1 DEF Save, Editor, Assignment, IdentityOf
  <2>4. calls' = calls \cup {sent} /\ published' = published
    BY <1>9 DEF SendAssignment
  <2> HIDE DEF sent
  <2>5. ~\E c \in calls : c.kind = "save" /\ c.live
    BY <1>t, <2>1 DEF Busy
  <2>6. CallsOK(editor', calls', published)
    BY <1>0, <1>t, <2>2, <2>3, <2>4, <2>5 DEF CallsOK
  <2>7. (\E c \in calls' : c.kind = "tests" /\ c.live) <=> (\E c \in calls : c.kind = "tests" /\ c.live)
    BY <2>3, <2>4
  <2>8. \E c \in calls' : c.kind = "save" /\ c.live
    BY <2>3, <2>4
  <2>9. Busy(editor', calls')
    BY <1>t, <2>1, <2>2, <2>7, <2>8 DEF Busy
  <2> QED
    BY <1>t, <2>2, <2>4, <2>6, <2>9 DEF PublishInv
<1>10. CASE RefuseIncomplete
  <2>1. editor \in Editor /\ editor # Unpublished /\ UNCHANGED <<published, calls>>
    BY <1>10, <1>t DEF RefuseIncomplete
  <2>2. editor' \in Editor /\ editor'.saving = editor.saving
        /\ editor'.generating = editor.generating
    BY <1>10, <2>1 DEF RefuseIncomplete, Editor
  <2> QED
    BY <1>0, <1>f, <2>1, <2>2
<1>11. ASSUME NEW c \in calls, TestsAnswered(c) PROVE PublishInv'
  <2>1. editor \in Editor /\ editor # Unpublished /\ c.kind = "tests"
    BY <1>11, <1>t, <1>l DEF TestsAnswered
  <2>2. editor' \in Editor /\ editor'.saving = editor.saving /\ editor'.generating = FALSE
    BY <1>11, <2>1 DEF TestsAnswered, Editor
  <2>3. calls' = calls \ {c} /\ published' = published
    BY <1>11 DEF TestsAnswered
  <2>4. CallsOK(editor, calls', published)
    BY <1>t, <2>3, CallRemoved
  <2>5. CallsOK(editor', calls', published)
    BY <1>0, <2>2, <2>4 DEF CallsOK
  \* There was no other: of these requests nothing but the kind is known.
  <2>6. ~\E d \in calls' : d.kind = "tests" /\ d.live
    <3> SUFFICES ASSUME NEW d \in calls', d.kind = "tests", d.live PROVE FALSE
      OBVIOUS
    <3>1. c = [kind |-> "tests", live |-> c.live] /\ d = [kind |-> "tests", live |-> d.live]
      BY <1>t, <2>1, <2>3, CallKinds
    <3>2. c.live = TRUE /\ d.live = TRUE
      BY <1>t, <1>l, <2>1, <2>3, CallKinds
    <3> QED
      BY <2>3, <3>1, <3>2
  <2>7. (\E d \in calls' : d.kind = "save" /\ d.live) <=> (\E d \in calls : d.kind = "save" /\ d.live)
    BY <2>1, <2>3
  <2>8. Busy(editor', calls')
    BY <1>t, <2>1, <2>2, <2>6, <2>7 DEF Busy
  <2> QED
    BY <1>t, <2>2, <2>3, <2>5, <2>8 DEF PublishInv
<1>12. ASSUME NEW c \in calls, StoreAssignment(c) PROVE PublishInv'
  <2>1. c \in Save
    BY <1>12, <1>t, CallKinds DEF StoreAssignment
  <2>2. published' \in Assignment /\ published' # Unpublished
    BY <1>12, <1>0, <2>1 DEF StoreAssignment, Save
  <2> QED
    BY <1>12, <1>s, <2>2 DEF StoreAssignment
<1>13. ASSUME NEW c \in calls, RefuseAssignment(c) PROVE PublishInv'
  BY <1>13, <1>t, <1>s DEF RefuseAssignment
<1>14. ASSUME NEW c \in calls, SaveAnswered(c) PROVE PublishInv'
  BY <1>14, <1>t, <1>s DEF SaveAnswered
<1>15. ASSUME NEW c \in calls, ShowList(c) PROVE PublishInv'
  <2>1. calls' \subseteq Left /\ editor' = Unpublished /\ published' = published
    BY <1>15 DEF ShowList
  <2>2. CallsOK(Unpublished, calls', published) /\ Busy(Unpublished, calls')
    BY <1>t, <2>1, LeftNotLive, FormGone
  <2> QED
    BY <1>t, <2>1, <2>2 DEF PublishInv
<1>16. ASSUME NEW c \in calls, SaveFails(c) PROVE PublishInv'
  <2>1. c.kind = "save" /\ calls' = calls \ {c} /\ published' = published
    BY <1>16 DEF SaveFails
  <2>2. CallsOK(editor, calls', published)
    BY <1>t, <2>1, CallRemoved
  <2>3. (\E d \in calls' : d.kind = "tests" /\ d.live) <=> (\E d \in calls : d.kind = "tests" /\ d.live)
    BY <2>1
  <2>4. CASE c.live
    <3>1. editor \in Editor /\ editor # Unpublished
      BY <1>t, <2>4 DEF CallsOK
    <3>2. editor' = [editor EXCEPT !.saving = FALSE, !.error = TRUE]
      BY <1>16, <2>4 DEF SaveFails
    <3>3. editor' \in Editor /\ editor'.saving = FALSE /\ editor'.generating = editor.generating
      BY <3>1, <3>2 DEF Editor
    <3>4. CallsOK(editor', calls', published)
      BY <1>0, <2>2, <3>3 DEF CallsOK
    <3>5. ~\E d \in calls' : d.kind = "save" /\ d.live
      BY <1>t, <2>1, <2>4 DEF CallsOK
    <3>6. Busy(editor', calls')
      BY <1>t, <2>3, <3>1, <3>3, <3>5 DEF Busy
    <3> QED
      BY <1>t, <2>1, <3>3, <3>4, <3>6 DEF PublishInv
  <2>5. CASE ~c.live
    <3>1. editor' = editor
      BY <1>16, <2>5 DEF SaveFails
    <3>2. (\E d \in calls' : d.kind = "save" /\ d.live) <=> (\E d \in calls : d.kind = "save" /\ d.live)
      BY <2>1, <2>5
    <3>3. Busy(editor, calls')
      BY <1>t, <2>3, <3>2 DEF Busy
    <3> QED
      BY <1>t, <2>1, <2>2, <3>1, <3>3 DEF PublishInv
  <2> QED
    BY <2>4, <2>5
<1>17. CASE UNCHANGED publishVars
  BY <1>17, <1>t DEF publishVars, PublishInv
<1> QED
  BY <1>1, <1>2, <1>3, <1>4, <1>5, <1>6, <1>7, <1>8, <1>9, <1>10, <1>11, <1>12, <1>13, <1>14,
     <1>15, <1>16, <1>17 DEF PublishNext

(* A form that edits, and a save it has sent, have the assignment's title and *)
(* language; so nothing it sends changes them.                                *)
FormIdentity(e, known) ==
  e # Unpublished /\ e.mode = "edit" =>
    /\ known # Unpublished
    /\ e.titled => IdentityOf(e) = known
IdentityInv ==
  /\ published # Unpublished => published.titled
  /\ FormIdentity(editor, published)
  /\ \A c \in CallsOf("save") : c.mode = "edit" => c.of = published

\* The assignment is as it was, and what is under way is what was, or no save.
LEMMA IdentityKept ==
  ASSUME IdentityInv, UNCHANGED published, FormIdentity(editor', published),
         \A c \in calls' : c.kind = "save" =>
           \E d \in CallsOf("save") : c.mode = d.mode /\ c.of = d.of
  PROVE  IdentityInv'
  BY DEF IdentityInv, CallsOf

LEMMA LeftAreSaves ==
  ASSUME calls \subseteq Call \cup Save
  PROVE  \A c \in Left : \E d \in CallsOf("save") : c.mode = d.mode /\ c.of = d.of
<1> SUFFICES ASSUME NEW c \in Left
             PROVE  \E d \in CallsOf("save") : c.mode = d.mode /\ c.of = d.of
  OBVIOUS
<1>1. PICK d \in CallsOf("save") : c = [d EXCEPT !.live = FALSE]
  BY DEF Left
<1>2. d \in Save
  BY CallKinds DEF CallsOf
<1> QED
  BY <1>1, <1>2 DEF Save

LEMMA IdentityStep ==
  ASSUME First \in Enabled, PublishInv, IdentityInv, [PublishNext]_publishVars
  PROVE  IdentityInv'
<1>t. /\ calls \subseteq Call \cup Save
      /\ CallsOK(editor, calls, published)
      /\ published \in Assignment \cup {Unpublished}
      /\ editor # Unpublished => editor \in Editor
      /\ FormIdentity(editor, published)
  BY DEF PublishInv, CallsOK, IdentityInv
<1>0. Unpublished \notin Editor /\ Unpublished \notin Assignment
  BY UnpublishedAssumption
<1>l. \A c \in calls : c.kind # "save" => editor \in Editor
  BY <1>t DEF CallsOK
\* No save is sent, and the form keeps what it has of title and language.
<1>f. ASSUME UNCHANGED published, \A c \in calls' : c.kind = "save" => c \in calls,
             editor # Unpublished, editor' # Unpublished, editor'.mode = editor.mode,
             editor.mode = "edit" => IdentityOf(editor') = IdentityOf(editor)
                                     /\ editor'.titled = editor.titled
      PROVE  IdentityInv'
  BY <1>f, <1>t, IdentityKept DEF FormIdentity, CallsOf
\* A save goes on.
<1>s. ASSUME UNCHANGED <<published, editor>>, NEW c \in calls, c.kind = "save", NEW s,
             calls' = (calls \ {c}) \cup {[c EXCEPT !.state = s]}
      PROVE  IdentityInv'
  <2>1. c \in Save
    BY <1>s, <1>t, CallKinds
  <2>2. [c EXCEPT !.state = s].mode = c.mode /\ [c EXCEPT !.state = s].of = c.of
    BY <2>1 DEF Save
  <2> QED
    BY <1>s, <1>t, <2>2, IdentityKept DEF CallsOf
\* The form is gone.
<1>g. ASSUME UNCHANGED published, editor' = Unpublished, calls' \subseteq Left
      PROVE  IdentityInv'
  BY <1>g, <1>t, LeftAreSaves, IdentityKept DEF FormIdentity
<1>1. ASSUME NEW m \in {"create", "edit"}, OpenForm(m) PROVE IdentityInv'
  <2>1. \A c \in calls' : c.kind = "save" => c \in calls
    BY <1>1 DEF OpenForm
  <2>2. published' = published /\ editor'.mode = m /\ ~editor'.titled
        /\ (m = "edit" => published # Unpublished)
    BY <1>1 DEF OpenForm
  <2> QED
    BY <2>1, <2>2, IdentityKept DEF FormIdentity, CallsOf
<1>2. CASE LeaveForm
  BY <1>2, <1>g DEF LeaveForm
<1>3. ASSUME NEW c \in calls, LanguagesAnswered(c) PROVE IdentityInv'
  <2>1. editor \in Editor
    BY <1>3, <1>l DEF LanguagesAnswered
  <2>2. editor' = [editor EXCEPT !.offered = TRUE]
    BY <1>3, <2>1 DEF LanguagesAnswered, LanguageOffered, Editor
  <2>3. editor' \in Editor /\ editor'.mode = editor.mode /\ editor'.titled = editor.titled
        /\ IdentityOf(editor') = IdentityOf(editor)
    BY <2>1, <2>2 DEF Editor, IdentityOf
  <2> QED
    BY <1>3, <1>0, <1>f, <2>1, <2>3 DEF LanguagesAnswered
<1>4. ASSUME NEW c \in calls, DetailsAnswered(c) PROVE IdentityInv'
  <2>1. editor \in Editor /\ published \in Assignment /\ published.titled
    BY <1>4, <1>t, <1>l DEF DetailsAnswered, CallsOK, IdentityInv
  <2>2. editor'.titled = TRUE /\ editor'.language = published.language
    BY <1>4, <2>1 DEF DetailsAnswered, Editor
  <2>3. IdentityOf(editor') = published
    BY <2>1, <2>2 DEF IdentityOf, Assignment
  <2>4. published' = published /\ published # Unpublished
        /\ \A d \in calls' : d.kind = "save" => d \in calls
    BY <1>4, <1>0, <2>1 DEF DetailsAnswered
  <2> QED
    BY <2>3, <2>4, IdentityKept DEF FormIdentity, CallsOf
<1>5. ASSUME NEW c \in calls, ReadFails(c) PROVE IdentityInv'
  <2>1. editor \in Editor
    BY <1>5, <1>l DEF ReadFails
  <2>2. editor' \in Editor /\ editor'.mode = editor.mode /\ editor'.titled = editor.titled
        /\ IdentityOf(editor') = IdentityOf(editor)
    BY <1>5, <2>1 DEF ReadFails, Editor, IdentityOf
  <2> QED
    BY <1>5, <1>0, <1>f, <2>1, <2>2 DEF ReadFails
<1>6. ASSUME NEW b \in BOOLEAN, TypeTitle(b) PROVE IdentityInv'
  <2>1. editor \in Editor /\ editor.mode = "create"
    BY <1>6, <1>t DEF TypeTitle, Identity
  <2>2. editor' \in Editor /\ editor'.mode = editor.mode
    BY <1>6, <2>1 DEF TypeTitle, Editor
  <2> QED
    BY <1>6, <1>0, <1>f, <2>1, <2>2 DEF TypeTitle
<1>7. ASSUME NEW b \in BOOLEAN, TypeRest(b) \/ WeighRubric(b) PROVE IdentityInv'
  <2>1. editor \in Editor
    BY <1>7, <1>t DEF TypeRest, WeighRubric
  <2>2. editor' \in Editor /\ editor'.mode = editor.mode /\ editor'.titled = editor.titled
        /\ IdentityOf(editor') = IdentityOf(editor)
    BY <1>7, <2>1 DEF TypeRest, WeighRubric, Editor, IdentityOf
  <2> QED
    BY <1>7, <1>0, <1>f, <2>1, <2>2 DEF TypeRest, WeighRubric
<1>8. ASSUME NEW l \in Languages, ChooseLanguage(l) PROVE IdentityInv'
  <2>1. editor \in Editor /\ editor.mode = "create"
    BY <1>8, <1>t DEF ChooseLanguage, Identity
  <2>2. editor' \in Editor /\ editor'.mode = editor.mode
    BY <1>8, <2>1 DEF ChooseLanguage, Editor
  <2> QED
    BY <1>8, <1>0, <1>f, <2>1, <2>2 DEF ChooseLanguage
<1>9. CASE GenerateTests
  <2>1. editor \in Editor
    BY <1>9, <1>t DEF GenerateTests
  <2>2. editor' \in Editor /\ editor'.mode = editor.mode /\ editor'.titled = editor.titled
        /\ IdentityOf(editor') = IdentityOf(editor)
    BY <1>9, <2>1 DEF GenerateTests, Editor, IdentityOf
  <2>3. \A c \in calls' : c.kind = "save" => c \in calls
    BY <1>9 DEF GenerateTests
  <2>4. published' = published /\ editor # Unpublished /\ editor' # Unpublished
    BY <1>9, <1>0, <2>2 DEF GenerateTests
  <2> QED
    BY <1>f, <2>2, <2>3, <2>4
<1>10. CASE SendAssignment
  <2> DEFINE sent == [kind |-> "save", live |-> TRUE, mode |-> editor.mode, state |-> "sent",
                      of |-> IdentityOf(editor)]
  <2>1. editor \in Editor /\ editor.titled /\ published' = published
    BY <1>10, <1>t DEF SendAssignment, Complete
  <2>2. editor' \in Editor /\ editor'.mode = editor.mode /\ editor'.titled = editor.titled
        /\ IdentityOf(editor') = IdentityOf(editor)
    BY <1>10, <2>1 DEF SendAssignment, Editor, IdentityOf
  <2>3. calls' = calls \cup {sent}
    BY <1>10 DEF SendAssignment
  <2>4. FormIdentity(editor', published)
    BY <1>0, <1>t, <2>1, <2>2 DEF FormIdentity
  <2>5. sent.mode = "edit" => sent.of = published
    BY <1>0, <1>t, <2>1 DEF FormIdentity
  <2> HIDE DEF sent
  <2> QED
    BY <2>1, <2>3, <2>4, <2>5 DEF IdentityInv, CallsOf
<1>11. CASE RefuseIncomplete
  <2>1. editor \in Editor
    BY <1>11, <1>t DEF RefuseIncomplete
  <2>2. editor' \in Editor /\ editor'.mode = editor.mode /\ editor'.titled = editor.titled
        /\ IdentityOf(editor') = IdentityOf(editor)
    BY <1>11, <2>1 DEF RefuseIncomplete, Editor, IdentityOf
  <2> QED
    BY <1>11, <1>0, <1>f, <2>1, <2>2 DEF RefuseIncomplete
<1>12. ASSUME NEW c \in calls, TestsAnswered(c) PROVE IdentityInv'
  <2>1. editor \in Editor
    BY <1>12, <1>l DEF TestsAnswered
  <2>2. editor' \in Editor /\ editor'.mode = editor.mode /\ editor'.titled = editor.titled
        /\ IdentityOf(editor') = IdentityOf(editor)
    BY <1>12, <2>1 DEF TestsAnswered, Editor, IdentityOf
  <2> QED
    BY <1>12, <1>0, <1>f, <2>1, <2>2 DEF TestsAnswered
\* The first save of a new assignment, or an edit that changes nothing of it.
<1>13. ASSUME NEW c \in calls, StoreAssignment(c) PROVE IdentityInv'
  <2> DEFINE d == [c EXCEPT !.state = "stored"]
  <2>1. c \in Save /\ c \in CallsOf("save")
    BY <1>13, <1>t, CallKinds DEF StoreAssignment, CallsOf
  <2>2. d.mode = c.mode /\ d.of = c.of /\ c.of \in Assignment /\ c.of.titled
    BY <1>13, <2>1 DEF Save, StoreAssignment
  <2>3. calls' = (calls \ {c}) \cup {d} /\ editor' = editor /\ published' = c.of
    BY <1>13 DEF StoreAssignment
  <2>4. CASE published = Unpublished
    <3>1. \A e \in CallsOf("save") : e.mode # "edit"
      <4> SUFFICES ASSUME NEW e \in CallsOf("save"), e.mode = "edit" PROVE FALSE
        OBVIOUS
      <4>1. e \in Save /\ e.of = Unpublished
        BY <1>t, <2>4, CallKinds DEF IdentityInv, CallsOf
      <4> QED
        BY <1>0, <4>1 DEF Save
    <3>2. editor # Unpublished => editor.mode # "edit"
      BY <1>t, <2>4 DEF FormIdentity
    <3> HIDE DEF d
    <3> QED
      BY <2>1, <2>2, <2>3, <3>1, <3>2 DEF IdentityInv, FormIdentity, CallsOf
  <2>5. CASE published # Unpublished
    <3>1. published' = published
      BY <1>13, <2>3, <2>5 DEF StoreAssignment, SameIdentity
    <3> QED
      BY <1>13, <1>s, <2>3, <3>1 DEF StoreAssignment
  <2> QED
    BY <2>4, <2>5
<1>14. ASSUME NEW c \in calls, RefuseAssignment(c) PROVE IdentityInv'
  BY <1>14, <1>s DEF RefuseAssignment
<1>15. ASSUME NEW c \in calls, SaveAnswered(c) PROVE IdentityInv'
  BY <1>15, <1>s DEF SaveAnswered
<1>16. ASSUME NEW c \in calls, ShowList(c) PROVE IdentityInv'
  BY <1>16, <1>g DEF ShowList
<1>17. ASSUME NEW c \in calls, SaveFails(c) PROVE IdentityInv'
  <2>1. UNCHANGED published /\ calls' \subseteq calls
    BY <1>17 DEF SaveFails
  <2>2. CASE c.live
    <3>1. editor \in Editor /\ editor' = [editor EXCEPT !.saving = FALSE, !.error = TRUE]
      BY <1>17, <1>t, <2>2 DEF SaveFails, CallsOK
    <3>2. editor' \in Editor /\ editor'.mode = editor.mode /\ editor'.titled = editor.titled
          /\ IdentityOf(editor') = IdentityOf(editor)
      BY <3>1 DEF Editor, IdentityOf
    <3> QED
      BY <1>0, <1>f, <2>1, <3>1, <3>2
  <2>3. CASE ~c.live
    BY <1>17, <1>t, <2>1, <2>3, IdentityKept DEF SaveFails, CallsOf
  <2> QED
    BY <2>2, <2>3
<1>18. CASE UNCHANGED publishVars
  BY <1>18, <1>t, IdentityKept DEF publishVars, CallsOf
<1> QED
  BY <1>1, <1>2, <1>3, <1>4, <1>5, <1>6, <1>7, <1>8, <1>9, <1>10, <1>11, <1>12, <1>13, <1>14,
     <1>15, <1>16, <1>17, <1>18 DEF PublishNext

\* On a server that has the language a form begins with, a form that edits never
\* shows or sends another title or language than the assignment's, in whatever
\* order its readings and the saves of earlier forms are answered.
THEOREM EditsKeepIdentity ==
  ASSUME First \in Enabled
  PROVE  PublishSpec => []EditKeepsIdentity
<1>1. PublishInit => IdentityInv
  BY DEF PublishInit, IdentityInv, FormIdentity, CallsOf
<1>2. IdentityInv => EditKeepsIdentity
  BY DEF IdentityInv, FormIdentity, EditKeepsIdentity
<1> QED
  BY <1>1, <1>2, PublishInitial, PublishStep, IdentityStep, PTL DEF PublishSpec

-----------------------------------------------------------------------------
LEMMA EmptyTargetOK == EmptyTarget \in [Fields -> 0..2]
  BY DEF EmptyTarget

LEMMA AnswerStep ==
  ModelAnswerTypeOK /\ OneAnswer /\ [ModelAnswerNext]_answerVars
    => ModelAnswerTypeOK' /\ OneAnswer'
<1> SUFFICES ASSUME ModelAnswerTypeOK, OneAnswer, [ModelAnswerNext]_answerVars
             PROVE  ModelAnswerTypeOK' /\ OneAnswer'
  OBVIOUS
<1> USE DEF ModelAnswerTypeOK, OneAnswer
<1>1. CASE AskAnew
  <2>1. attempt' \in 0..2 /\ verdict' = "none" /\ target' = EmptyTarget
    BY <1>1 DEF AskAnew
  <2>2. corrected' \in BOOLEAN
    BY <1>1 DEF AskAnew
  <2> QED
    BY <2>1, <2>2, EmptyTargetOK
<1>2. CASE CallFails
  BY <1>2 DEF CallFails, Asking, TryAgain
<1>3. CASE Decode
  <2>1. PICK fs \in SUBSET Fields :
          /\ target' = [f \in Fields |-> IF f \in fs THEN attempt + 1 ELSE 0]
          /\ \/ verdict' = "answered" /\ UNCHANGED corrected
             \/ TryAgain(TRUE, TRUE)
    BY <1>3 DEF Decode, ResetTarget, EmptyTarget
  <2>2. attempt \in 0..1 /\ attempt' = attempt + 1 /\ verdict = "none"
    BY <1>3 DEF Decode, Asking
  <2>3. verdict' \in {"none", "answered", "failed"} /\ corrected' \in BOOLEAN
    BY <2>1, <2>2 DEF TryAgain
  <2>4. target' \in [Fields -> {0, attempt'}]
    BY <2>1, <2>2
  <2> QED
    BY <2>2, <2>3, <2>4
<1>4. CASE UNCHANGED answerVars
  BY <1>4 DEF answerVars
<1> QED
  BY <1>1, <1>2, <1>3, <1>4 DEF ModelAnswerNext

LEMMA AnswerStart == ModelAnswerInit => ModelAnswerTypeOK /\ OneAnswer
<1> SUFFICES ASSUME ModelAnswerInit PROVE ModelAnswerTypeOK /\ OneAnswer
  OBVIOUS
<1>1. attempt \in 0..2 /\ verdict = "none" /\ target = EmptyTarget
  BY DEF ModelAnswerInit
<1>2. corrected \in BOOLEAN
  BY DEF ModelAnswerInit
<1> QED
  BY <1>1, <1>2, EmptyTargetOK DEF ModelAnswerTypeOK, OneAnswer

\* What is answered holds no field of an answer that was rejected.
THEOREM AnswerIsOne == ModelAnswerSpec => []OneAnswer
  BY AnswerStart, AnswerStep, PTL DEF ModelAnswerSpec

-----------------------------------------------------------------------------
(* CourseMigration: all assignments have a course or none has, and a        *)
(* migration under way has made a course for each teacher it has met.       *)
People == UNION {Submitters[a] : a \in Legacy}

Consistent(db) ==
  /\ Whole(db)
  /\ db = [courses |-> db.courses, courseOf |-> db.courseOf, enrolled |-> db.enrolled]
  /\ DOMAIN db.courses \subseteq Numbers
  /\ db.courses \in [DOMAIN db.courses -> Teachers]
  /\ db.courseOf \in [Legacy -> Numbers \cup {0}]
  /\ db.enrolled \subseteq Numbers \X People

Missing(db) == {a \in Legacy : db.courseOf[a] = 0}
AllOrNone(db) == Missing(db) = {} \/ DOMAIN db.courses = {}

Made(db) ==
  \A t \in Teachers :
    IF madeFor[t] = 0 THEN \A n \in DOMAIN db.courses : db.courses[n] # t
    ELSE madeFor[t] \in DOMAIN db.courses /\ db.courses[madeFor[t]] = t

MigrationInv ==
  /\ Consistent(committed) /\ AllOrNone(committed)
  /\ Consistent(written)
  /\ lockedBy \in Starts \cup {Nobody}
  /\ toMigrate \subseteq Legacy
  /\ madeFor \in [Teachers -> Numbers \cup {0}]
  /\ lockedBy # Nobody =>
       /\ toMigrate = Missing(written)
       /\ toMigrate = {} \/ Made(written)

LEMMA NumbersArePositive == Numbers \subseteq Nat \ {0}
  BY MigrationAssumption, FS_CardinalityType DEF Numbers

\* While an assignment has no course there is a number for a new one, because
\* every course holds another assignment.
LEMMA NumberIsFree ==
  ASSUME NEW db, Consistent(db), NEW a \in Missing(db)
  PROVE  \E n \in Numbers : n \notin DOMAIN db.courses
<1> SUFFICES ASSUME Numbers \subseteq DOMAIN db.courses PROVE FALSE
  OBVIOUS
<1> DEFINE rest == Legacy \ {a}
           f == [x \in rest |-> IF db.courseOf[x] \in Numbers THEN db.courseOf[x] ELSE 1]
<1>1. a \in Legacy /\ db.courseOf[a] = 0
  BY DEF Missing
<1>2. IsFiniteSet(rest) /\ Cardinality(rest) = Cardinality(Legacy) - 1
      /\ Cardinality(Legacy) \in Nat /\ Cardinality(Legacy) >= 1
  <2>1. IsFiniteSet(rest) /\ Cardinality(rest) = Cardinality(Legacy) - 1
    BY <1>1, MigrationAssumption, FS_RemoveElement
  <2>2. Cardinality(Legacy) \in Nat /\ Cardinality(rest) \in Nat
    BY <2>1, MigrationAssumption, FS_CardinalityType
  <2> QED
    BY <2>1, <2>2
<1>3. 1 \in Numbers
  BY <1>2 DEF Numbers
<1>4. f \in [rest -> Numbers]
  BY <1>3
<1>5. \A n \in Numbers : \E x \in rest : f[x] = n
  <2> SUFFICES ASSUME NEW n \in Numbers PROVE \E x \in rest : f[x] = n
    OBVIOUS
  <2>1. PICK x \in Legacy : db.courseOf[x] = n
    BY DEF Consistent, Whole
  <2>2. x \in rest
    BY <1>1, <2>1, NumbersArePositive
  <2> QED
    BY <2>1, <2>2
<1>6. f \in Surjection(rest, Numbers)
  BY <1>4, <1>5, Fun_IsSurj
<1>7. Cardinality(Numbers) <= Cardinality(rest)
  BY <1>2, <1>6, FS_Surjection
<1>8. Cardinality(Numbers) = Cardinality(Legacy)
  BY <1>2, FS_Interval DEF Numbers
<1> QED
  BY <1>2, <1>7, <1>8

\* One assignment is given a course.
LEMMA AssignmentMigrated ==
  ASSUME MigrationInv, NEW a \in Legacy, MigrateAssignment(a)
  PROVE  MigrationInv'
<1> DEFINE t == TeacherOf[a]
           new == CHOOSE n \in Numbers : n \notin DOMAIN written.courses
           c == IF madeFor[t] = 0 THEN new ELSE madeFor[t]
           made == [madeFor EXCEPT ![t] = c]
           courses == [n \in DOMAIN written.courses \cup {c} |->
                         IF n = c THEN t ELSE written.courses[n]]
           courseOf == [written.courseOf EXCEPT ![a] = c]
           enrolled == written.enrolled \cup ({c} \X Submitters[a])
<1>1. /\ lockedBy # Nobody /\ a \in Missing(written) /\ Made(written)
      /\ Consistent(written) /\ t \in Teachers
      /\ madeFor \in [Teachers -> Numbers \cup {0}]
  BY DEF MigrateAssignment, MigrationInv, Teachers
<1>2. /\ written' = [courses |-> courses, courseOf |-> courseOf, enrolled |-> enrolled]
      /\ madeFor' = made /\ toMigrate' = toMigrate \ {a}
      /\ UNCHANGED <<committed, lockedBy>>
  BY DEF MigrateAssignment
<1>3. new \in Numbers /\ new \notin DOMAIN written.courses
  BY <1>1, NumberIsFree
<1> HIDE DEF new
<1>4. /\ c \in Numbers
      /\ c \in DOMAIN written.courses => written.courses[c] = t
      /\ c \notin DOMAIN written.courses => \A n \in DOMAIN written.courses : written.courses[n] # t
  BY <1>1, <1>3 DEF Made
<1> HIDE DEF c
<1>5. /\ DOMAIN courses = DOMAIN written.courses \cup {c}
      /\ courses[c] = t
      /\ \A n \in DOMAIN written.courses : courses[n] = written.courses[n]
  BY <1>4
<1>6. DOMAIN courses \subseteq Numbers /\ courses \in [DOMAIN courses -> Teachers]
  BY <1>1, <1>4 DEF Consistent
<1>7. /\ courseOf \in [Legacy -> Numbers \cup {0}] /\ courseOf[a] = c
      /\ \A x \in Legacy : x # a => courseOf[x] = written.courseOf[x]
  BY <1>1, <1>4 DEF Consistent
<1>8. enrolled \subseteq Numbers \X People /\ {c} \X Submitters[a] \subseteq enrolled
      /\ written.enrolled \subseteq enrolled
  BY <1>1, <1>4 DEF Consistent, People
<1>9. a \in Legacy /\ written.courseOf[a] = 0 /\ c # 0
  BY <1>1, <1>4, NumbersArePositive DEF Missing
<1> HIDE DEF courses, courseOf, enrolled
<1>10. /\ written'.courses = courses /\ written'.courseOf = courseOf
       /\ written'.enrolled = enrolled
       /\ written' = [courses |-> written'.courses, courseOf |-> written'.courseOf,
                      enrolled |-> written'.enrolled]
  BY <1>2
<1>11. Whole(written')
  <2>1. ASSUME NEW x \in Legacy, courseOf[x] # 0
        PROVE  /\ courseOf[x] \in DOMAIN courses
               /\ courses[courseOf[x]] = TeacherOf[x]
               /\ {courseOf[x]} \X Submitters[x] \subseteq enrolled
    <3>1. CASE x = a
      BY <1>5, <1>7, <1>8, <3>1
    <3>2. CASE x # a
      BY <1>1, <1>5, <1>7, <1>8, <2>1, <3>2 DEF Consistent, Whole
    <3> QED
      BY <3>1, <3>2
  <2>2. \A m, n \in DOMAIN courses : courses[m] = courses[n] => m = n
    BY <1>1, <1>4, <1>5 DEF Consistent, Whole
  <2>3. ASSUME NEW n \in DOMAIN courses PROVE \E x \in Legacy : courseOf[x] = n
    <3>1. CASE n = c
      BY <1>7, <3>1
    <3>2. CASE n # c
      <4>1. PICK x \in Legacy : written.courseOf[x] = n
        BY <1>1, <1>5, <3>2 DEF Consistent, Whole
      <4>2. n # 0
        BY <1>6, NumbersArePositive
      <4> QED
        BY <1>7, <1>9, <4>1, <4>2
    <3> QED
      BY <3>1, <3>2
  <2> QED
    BY <1>10, <2>1, <2>2, <2>3 DEF Whole
<1>12. Consistent(written')
  BY <1>6, <1>7, <1>8, <1>10, <1>11 DEF Consistent
<1>13. madeFor' \in [Teachers -> Numbers \cup {0}]
  BY <1>1, <1>2, <1>4
<1>14. toMigrate' = Missing(written')
  BY <1>1, <1>2, <1>7, <1>9, <1>10 DEF MigrationInv, Missing
<1>15. ASSUME NEW u \in Teachers
       PROVE  IF madeFor'[u] = 0 THEN \A n \in DOMAIN courses : courses[n] # u
              ELSE madeFor'[u] \in DOMAIN courses /\ courses[madeFor'[u]] = u
  <2>1. CASE u = t
    BY <1>1, <1>2, <1>5, <1>9, <2>1
  <2>2. CASE u # t
    BY <1>1, <1>2, <1>5, <2>2 DEF Made
  <2> QED
    BY <2>1, <2>2
<1>16. Made(written)'
  BY <1>10, <1>15 DEF Made
<1> QED
  BY <1>2, <1>12, <1>13, <1>14, <1>16 DEF MigrationInv

LEMMA MigrationStep == MigrationInv /\ [CourseMigrationNext]_migrationVars => MigrationInv'
<1> SUFFICES ASSUME MigrationInv, [CourseMigrationNext]_migrationVars PROVE MigrationInv'
  OBVIOUS
<1>1. ASSUME NEW s \in Starts, BeginMigration(s) PROVE MigrationInv'
  <2>1. /\ lockedBy' = s /\ written' = committed /\ toMigrate' = Missing(committed)
        /\ madeFor' = NoneMade /\ UNCHANGED committed
    BY <1>1 DEF BeginMigration, Missing
  <2>2. madeFor' \in [Teachers -> Numbers \cup {0}] /\ \A u \in Teachers : madeFor'[u] = 0
    BY <2>1 DEF NoneMade
  <2>3. toMigrate' = {} \/ Made(written)'
    BY <2>1, <2>2 DEF MigrationInv, AllOrNone, Made
  <2>4. toMigrate' \subseteq Legacy
    BY <2>1 DEF Missing
  <2> QED
    BY <2>1, <2>2, <2>3, <2>4 DEF MigrationInv
<1>2. ASSUME NEW a \in Legacy, MigrateAssignment(a) PROVE MigrationInv'
  BY <1>2, AssignmentMigrated
<1>3. CASE CommitMigration
  BY <1>3 DEF CommitMigration, MigrationInv, AllOrNone
<1>4. CASE AbortMigration
  BY <1>4 DEF AbortMigration, RollBack, MigrationInv
<1>5. CASE UNCHANGED migrationVars
  BY <1>5 DEF migrationVars, MigrationInv, Made
<1> QED
  BY <1>1, <1>2, <1>3, <1>4, <1>5 DEF CourseMigrationNext

LEMMA MigrationStart == CourseMigrationInit => MigrationInv
<1> SUFFICES ASSUME CourseMigrationInit PROVE MigrationInv
  OBVIOUS
<1>1. /\ committed = [courses |-> [n \in {} |-> 0], courseOf |-> [a \in Legacy |-> 0],
                      enrolled |-> {}]
      /\ written = committed /\ lockedBy = Nobody /\ toMigrate = {} /\ madeFor = NoneMade
  BY DEF CourseMigrationInit
<1>2. /\ DOMAIN committed.courses = {} /\ committed.courses \in [{} -> Teachers]
      /\ committed.courseOf = [a \in Legacy |-> 0]
      /\ committed.courseOf \in [Legacy -> Numbers \cup {0}]
      /\ committed.enrolled = {}
      /\ committed = [courses |-> committed.courses, courseOf |-> committed.courseOf,
                      enrolled |-> committed.enrolled]
  BY <1>1
<1>3. Whole(committed)
  BY <1>2 DEF Whole
<1>4. Consistent(committed) /\ AllOrNone(committed)
  BY <1>2, <1>3 DEF Consistent, AllOrNone
<1> QED
  BY <1>1, <1>4 DEF MigrationInv, NoneMade

LEMMA MigrationTyped == MigrationInv => CourseMigrationTypeOK
<1> SUFFICES ASSUME MigrationInv PROVE CourseMigrationTypeOK
  OBVIOUS
<1>1. ASSUME NEW db, Consistent(db) PROVE db \in Database
  <2>1. db.courses \in UNION {[ns -> Teachers] : ns \in SUBSET Numbers}
    BY <1>1 DEF Consistent
  <2> QED
    BY <1>1, <2>1 DEF Consistent, Database, People
<1> QED
  BY <1>1 DEF MigrationInv, CourseMigrationTypeOK

\* What others see is whole, however often a start was interrupted.
THEOREM MigratesOnce == CourseMigrationSpec => []MigratedOnce
<1>1. MigrationInv => MigratedOnce
  BY DEF MigrationInv, Consistent, MigratedOnce
<1> QED
  BY <1>1, MigrationStart, MigrationStep, PTL DEF CourseMigrationSpec
=============================================================================
