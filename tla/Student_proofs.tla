--------------------------- MODULE Student_proofs ---------------------------
(***************************************************************************)
(* Theorems about the parts of the application a student meets: Session,   *)
(* CodeEditor and Workspace, for any accounts, submissions and bounds,     *)
(* each on its own and as MCStudent puts them together.                    *)
(***************************************************************************)
EXTENDS MCStudent, TLAPS, SequenceTheorems, FiniteSetTheorems

(* Session: no entry at the start of the history was pushed from anywhere. *)
Pushed(es) == \A i \in 1..Len(es) : es[i].from \in InWorkspace => i > 1
Histories == {es \in Seq(Entry) : Len(es) \in 1..MaxEntries /\ Pushed(es)}

SessionInv ==
  /\ entries \in Histories
  /\ here \in 1..Len(entries)
  /\ auth \in Accounts \cup {NoOne}
  /\ stored = auth
  /\ signForm \in {"idle", "busy", "error"}
  /\ asked \subseteq Asking

LEMMA SessionGoal == SessionInv => SessionTypeOK /\ BackStaysInApp
  BY DEF SessionInv, Histories, Pushed, SessionTypeOK, BackStaysInApp, CameFromWorkspace

LEMMA RedirectedPath == ASSUME NEW p \in Paths, NEW a PROVE Redirected(p, a) \in Paths
  BY DEF Redirected, Paths, InWorkspace

LEMMA ReplacedHistory ==
  ASSUME NEW es \in Histories, NEW n \in 1..Len(es), NEW p \in Paths
  PROVE  /\ [es EXCEPT ![n] = Replace(es[n], p)] \in Histories
         /\ Len([es EXCEPT ![n] = Replace(es[n], p)]) = Len(es)
<1> DEFINE fs == [es EXCEPT ![n] = Replace(es[n], p)]
<1>1. es \in Seq(Entry) /\ es[n] \in Entry /\ Len(es) \in Nat
  BY DEF Histories
<1>2. Replace(es[n], p) \in Entry /\ Replace(es[n], p).from = es[n].from
  BY <1>1 DEF Replace, Entry
<1>3. fs \in Seq(Entry) /\ Len(fs) = Len(es)
  BY <1>1, <1>2, ExceptSeq
<1>4. \A i \in 1..Len(es) : fs[i].from = es[i].from
  BY <1>1, <1>2
<1> QED
  BY <1>3, <1>4 DEF Histories, Pushed

LEMMA ArrivedHistory ==
  ASSUME NEW es \in Histories, NEW n \in 1..Len(es), NEW a, Arrive(es, n, a)
  PROVE  entries' \in Histories /\ here' \in 1..Len(entries')
<1>1. es \in Seq(Entry) /\ Len(es) \in Nat
  BY DEF Histories
<1>2. es[n] \in Entry
  BY <1>1
<1>3. es[n].path \in Paths
  BY <1>2 DEF Entry
<1> QED
  BY <1>3, RedirectedPath, ReplacedHistory DEF Arrive

LEMMA PushedHistory ==
  ASSUME entries \in Histories, here \in 1..Len(entries), here < MaxEntries,
         NEW e \in Entry
  PROVE  LET es == Append(SubSeq(entries, 1, here), e)
         IN es \in Histories /\ Len(es) = here + 1
<1> DEFINE start == SubSeq(entries, 1, here)
           es == Append(start, e)
<1>1. entries \in Seq(Entry) /\ here \in Nat /\ here >= 1 /\ here <= Len(entries)
      /\ Len(entries) \in Nat
  BY DEF Histories
<1>2. start \in Seq(Entry) /\ Len(start) = here /\ \A i \in 1..here : start[i] = entries[i]
  BY <1>1, SubSeqProperties
<1>3. es \in Seq(Entry) /\ Len(es) = here + 1 /\ \A i \in 1..here : es[i] = entries[i]
  BY <1>1, <1>2, AppendProperties
<1>4. Pushed(es)
  BY <1>1, <1>3 DEF Pushed, Histories
<1> QED
  BY <1>1, <1>3, <1>4, SessionAssumption DEF Histories

LEMMA FreshHistory ==
  ASSUME NEW p \in Paths PROVE <<[path |-> p, from |-> NoOne]>> \in Histories
<1> DEFINE es == <<[path |-> p, from |-> NoOne]>>
<1>1. es \in Seq(Entry) /\ Len(es) = 1 /\ es[1].from = NoOne
  BY DEF Entry
<1> QED
  BY <1>1, SessionAssumption DEF Histories, Pushed, InWorkspace

LEMMA SessionInitial == SessionInit => SessionInv
<1> SUFFICES ASSUME SessionInit PROVE SessionInv
  OBVIOUS
<1>1. entries \in Histories
  BY FreshHistory DEF SessionInit, Paths
<1> QED
  BY <1>1 DEF SessionInit, SessionInv, Histories

LEMMA SessionStep == SessionInv /\ [SessionNext]_sessionVars => SessionInv'
<1> SUFFICES ASSUME SessionInv, [SessionNext]_sessionVars PROVE SessionInv'
  OBVIOUS
<1> USE DEF SessionInv
<1>a. Path \in Paths /\ here \in Nat /\ Len(entries) \in Nat /\ entries \in Seq(Entry)
      /\ entries[here] \in Entry
  <2>1. entries \in Seq(Entry) /\ Len(entries) \in Nat
    BY DEF Histories
  <2>2. entries[here] \in Entry
    BY <2>1
  <2> QED
    BY <2>1, <2>2 DEF Path, Entry
<1>b. ASSUME NEW rs, rs \subseteq Asking PROVE StillLive(rs) \subseteq Asking
  <2> SUFFICES ASSUME NEW r \in rs
               PROVE  [r EXCEPT !.live = @ /\ FormOf(entries'[here'].path, auth') = FormOf(Path, auth)]
                        \in Asking
    BY DEF StillLive
  <2> QED
    BY <1>b DEF Asking
<1>c. ASSUME KeepForm PROVE signForm' \in {"idle", "busy", "error"}
  BY <1>c DEF KeepForm
<1>d. ASSUME NEW p \in Paths, PushNavigate(p)
      PROVE  entries' \in Histories /\ here' \in 1..Len(entries') /\ UNCHANGED <<auth, stored>>
  <2>1. [path |-> p, from |-> Path] \in Entry
    BY <1>a DEF Entry
  <2> DEFINE es == Append(SubSeq(entries, 1, here), [path |-> p, from |-> Path])
  <2>2. here < MaxEntries /\ Arrive(es, here + 1, auth) /\ UNCHANGED <<auth, stored>>
    BY <1>d DEF PushNavigate, PushPath
  <2>3. es \in Histories /\ Len(es) = here + 1
    BY <2>1, <2>2, PushedHistory
  <2>4. here + 1 \in 1..Len(es)
    BY <2>3, <1>a
  <2> HIDE DEF es
  <2> QED
    BY <2>2, <2>3, <2>4, ArrivedHistory
<1>e. ASSUME NEW es \in Histories, NEW n \in 1..Len(es), LoadApp(es, n) PROVE SessionInv'
  <2>1. Arrive(es, n, stored)
    BY <1>e DEF LoadApp
  <2>2. entries' \in Histories /\ here' \in 1..Len(entries')
    BY <2>1, ArrivedHistory
  <2> QED
    BY <1>e, <2>2 DEF LoadApp
<1>f. ASSUME NEW p \in Paths, NEW a
      PROVE  Arrive([entries EXCEPT ![here] = Replace(@, p)], here, a)
               => entries' \in Histories /\ here' \in 1..Len(entries')
  BY ReplacedHistory, ArrivedHistory
<1>1. ASSUME NEW p \in Paths, Go(p) PROVE SessionInv'
  BY <1>1, <1>b, <1>c, <1>d DEF Go
<1>2. ASSUME NEW p \in Paths, OpenForm(p) PROVE SessionInv'
  BY <1>2, <1>b, <1>c, <1>d DEF OpenForm
<1>3. ASSUME NEW n, Travel(n) PROVE SessionInv'
  <2>1. entries' \in Histories /\ here' \in 1..Len(entries')
    BY <1>3, ArrivedHistory DEF Travel
  <2> QED
    BY <1>3, <2>1, <1>b, <1>c DEF Travel
<1>4. CASE BackTo
  <2>1. entries' \in Histories /\ here' \in 1..Len(entries')
    <3>1. CASE CameFromWorkspace
      <4>1. here - 1 \in 1..Len(entries)
        BY <1>a, <1>4, <3>1 DEF BackTo
      <4> QED
        BY <1>4, <3>1, <4>1, ArrivedHistory DEF BackTo
    <3>2. CASE ~CameFromWorkspace
      BY <1>4, <3>2, <1>f DEF BackTo, Paths, InWorkspace
    <3> QED
      BY <3>1, <3>2
  <2> QED
    BY <1>4, <2>1 DEF BackTo
<1>5. CASE ReloadPage
  BY <1>5, <1>e DEF ReloadPage
<1>6. ASSUME NEW p \in Paths, TypeAddress(p) PROVE SessionInv'
  <2>1. CASE LoadApp(<<[path |-> p, from |-> NoOne]>>, 1)
    <3>1. 1 \in 1..Len(<<[path |-> p, from |-> NoOne]>>)
      OBVIOUS
    <3> QED
      BY <2>1, <3>1, <1>e, FreshHistory
  <2> DEFINE es == Append(SubSeq(entries, 1, here), [path |-> p, from |-> NoOne])
  <2>2. CASE here < MaxEntries /\ LoadApp(es, here + 1)
    <3>1. [path |-> p, from |-> NoOne] \in Entry
      BY DEF Entry
    <3>2. es \in Histories /\ Len(es) = here + 1
      BY <2>2, <3>1, PushedHistory
    <3>3. here + 1 \in 1..Len(es)
      BY <3>2, <1>a
    <3> HIDE DEF es
    <3> QED
      BY <2>2, <3>2, <3>3, <1>e
  <2> QED
    BY <1>6, <2>1, <2>2 DEF TypeAddress
<1>7. CASE Logout
  <2>1. entries' \in Histories /\ here' \in 1..Len(entries')
    BY <1>7, <1>f DEF Logout, Paths
  <2> QED
    BY <1>7, <2>1 DEF Logout
<1>8. CASE RefuseForm
  BY <1>8 DEF RefuseForm
<1>9. ASSUME NEW u \in Accounts, SendForm(u) PROVE SessionInv'
  <2>1. [by |-> u, path |-> Path, live |-> TRUE] \in Asking
    BY <1>a DEF Asking
  <2> QED
    BY <1>9, <2>1 DEF SendForm
<1>10. ASSUME NEW r \in asked, Done(r) PROVE SessionInv'
  <2> DEFINE p == IF r.path \in InWorkspace THEN r.path ELSE "home"
  <2>1. p \in Paths /\ r.by \in Accounts
    BY DEF Asking, Paths, InWorkspace
  <2>2. Arrive([entries EXCEPT ![here] = Replace(@, p)], here, r.by)
    BY <1>10 DEF Done
  <2>3. entries' \in Histories /\ here' \in 1..Len(entries')
    BY <2>1, <2>2, <1>f
  <2> QED
    BY <1>10, <2>1, <2>3, <1>b DEF Done
<1>11. ASSUME NEW r \in asked, FormFails(r) PROVE SessionInv'
  BY <1>11 DEF FormFails
<1>12. CASE UNCHANGED sessionVars
  BY <1>12 DEF sessionVars
<1> QED
  BY <1>1, <1>2, <1>3, <1>4, <1>5, <1>6, <1>7, <1>8, <1>9, <1>10, <1>11, <1>12 DEF SessionNext

\* The history, the account and the forms are what they should be, and the account
\* shown is the one stored.
THEOREM SessionTypesCorrect == SessionSpec => []SessionTypeOK
  BY SessionInitial, SessionStep, SessionGoal, PTL DEF SessionSpec

\* A page's own back button never leads out of the application.
THEOREM BackStays == SessionSpec => []BackStaysInApp
  BY SessionInitial, SessionStep, SessionGoal, PTL DEF SessionSpec

\* What was asked for by the form that is shown is one request at most, and the
\* form is busy exactly with it.
FormMarked ==
  /\ \A q, r \in asked : q.live /\ r.live => q = r
  /\ \A r \in asked : r.live => auth = NoOne /\ signForm = "busy"
  /\ auth = NoOne /\ signForm = "busy" => \E r \in asked : r.live

LEMMA FormMarkedGoal == FormMarked => SessionBusy
  BY DEF FormMarked, SessionBusy

\* The form stays as it is, or another one is shown, or none.
LEMMA FormKept ==
  ASSUME asked \subseteq Asking, FormMarked, KeepForm, UNCHANGED auth,
         asked' = StillLive(asked)
  PROVE  FormMarked'
<1> DEFINE same == FormOf(entries'[here'].path, auth') = FormOf(Path, auth)
<1>1. CASE same
  <2>1. ASSUME NEW r \in asked PROVE [r EXCEPT !.live = @ /\ same] = r
    <3>1. r \in Asking
      OBVIOUS
    <3>2. (r.live /\ same) = r.live
      BY <1>1, <3>1 DEF Asking
    <3> HIDE DEF same
    <3> QED
      BY <3>1, <3>2 DEF Asking
  <2>2. asked' = asked
    BY <2>1 DEF StillLive
  <2> QED
    BY <1>1, <2>2 DEF FormMarked, KeepForm
<1>2. CASE ~same
  <2>1. ASSUME NEW r \in asked' PROVE ~r.live
    <3>1. PICK q \in asked : r = [q EXCEPT !.live = @ /\ same]
      BY <2>1 DEF StillLive
    <3>2. q \in Asking
      OBVIOUS
    <3> HIDE DEF same
    <3> QED
      BY <1>2, <3>1, <3>2 DEF Asking
  <2>2. signForm' = "idle"
    BY <1>2 DEF KeepForm
  <2> QED
    BY <2>1, <2>2 DEF FormMarked
<1> QED
  BY <1>1, <1>2

LEMMA FormMarkedStep == SessionInv /\ FormMarked /\ [SessionNext]_sessionVars => FormMarked'
<1> SUFFICES ASSUME SessionInv, FormMarked, [SessionNext]_sessionVars PROVE FormMarked'
  OBVIOUS
<1>t. /\ asked \subseteq Asking /\ auth \in Accounts \cup {NoOne} /\ NoOne \notin Accounts
      /\ signForm \in {"idle", "busy", "error"}
  BY SessionAssumption DEF SessionInv
\* The application is loaded anew: nothing is under way.
<1>e. ASSUME NEW es, NEW n, LoadApp(es, n) PROVE FormMarked'
  BY <1>e DEF LoadApp, FormMarked
<1>1. ASSUME NEW p \in Paths, Go(p) PROVE FormMarked'
  BY <1>1, <1>t, FormKept DEF Go, PushNavigate
<1>2. ASSUME NEW p \in Paths, OpenForm(p) PROVE FormMarked'
  BY <1>2, <1>t, FormKept DEF OpenForm, PushNavigate
<1>3. ASSUME NEW n, Travel(n) PROVE FormMarked'
  BY <1>3, <1>t, FormKept DEF Travel
<1>4. CASE BackTo
  BY <1>4 DEF BackTo, FormMarked
<1>5. CASE ReloadPage
  BY <1>5, <1>e DEF ReloadPage
<1>6. ASSUME NEW p \in Paths, TypeAddress(p) PROVE FormMarked'
  BY <1>6, <1>e DEF TypeAddress
<1>7. CASE Logout
  BY <1>7 DEF Logout, FormMarked
<1>8. CASE RefuseForm
  BY <1>8 DEF RefuseForm, FormMarked
<1>9. ASSUME NEW u \in Accounts, SendForm(u) PROVE FormMarked'
  <2> DEFINE new == [by |-> u, path |-> Path, live |-> TRUE]
  <2>1. asked' = asked \cup {new} /\ new.live /\ \A r \in asked : ~r.live
    BY <1>9 DEF SendForm, FormMarked
  <2>2. signForm' = "busy" /\ auth' = NoOne
    BY <1>9 DEF SendForm
  <2> HIDE DEF new
  <2> QED
    BY <2>1, <2>2 DEF FormMarked
<1>10. ASSUME NEW r \in asked, Done(r) PROVE FormMarked'
  <2>1. auth' # NoOne /\ signForm' = "idle" /\ asked' = StillLive(asked \ {r})
    BY <1>10, <1>t DEF Done, Asking
  <2>2. ASSUME NEW q \in asked' PROVE ~q.live
    <3> DEFINE same == FormOf(entries'[here'].path, auth') = FormOf(Path, auth)
    <3>1. PICK k \in asked : q = [k EXCEPT !.live = @ /\ same]
      BY <2>1, <2>2 DEF StillLive
    <3>2. k \in Asking
      BY <1>t
    <3>3. k.live => ~same
      BY <2>1 DEF FormMarked, FormOf
    <3> HIDE DEF same
    <3> QED
      BY <3>1, <3>2, <3>3 DEF Asking
  <2> QED
    BY <2>1, <2>2 DEF FormMarked
<1>11. ASSUME NEW r \in asked, FormFails(r) PROVE FormMarked'
  BY <1>11, <1>t DEF FormFails, FormMarked
<1>12. CASE UNCHANGED sessionVars
  BY <1>12 DEF sessionVars, FormMarked
<1> QED
  BY <1>1, <1>2, <1>3, <1>4, <1>5, <1>6, <1>7, <1>8, <1>9, <1>10, <1>11, <1>12 DEF SessionNext

LEMMA FormMarkedInitial == SessionInit => FormMarked
  BY DEF SessionInit, FormMarked

-----------------------------------------------------------------------------
(* CodeEditor: what the button shows is what the formatter does. *)
EditorInv == CodeEditorTypeOK /\ EditorBusy

LEMMA EditorInitial == CodeEditorInit => EditorInv
<1>1. Template \in Texts
  BY EditorAssumption DEF Template
<1> QED
  BY <1>1 DEF CodeEditorInit, EditorInv, CodeEditorTypeOK, EditorBusy

LEMMA EditorStep ==
  EditorInv /\ [CodeEditorNext]_editorVars => EditorInv' /\ [FormattingKeepsText]_editorVars
<1> SUFFICES ASSUME EditorInv, [CodeEditorNext]_editorVars
             PROVE  EditorInv' /\ FormattingKeepsText
  OBVIOUS
<1> USE EditorAssumption DEF EditorInv, CodeEditorTypeOK, EditorBusy, FormattingKeepsText
<1>1. ASSUME NEW t \in Texts, TypeCode(t) PROVE EditorInv' /\ FormattingKeepsText
  BY <1>1 DEF TypeCode
<1>2. CASE FormatCode
  BY <1>2 DEF FormatCode
<1>3. CASE FormatDone
  BY <1>3 DEF FormatDone, Fails, Changed
<1>4. CASE FormatFails
  BY <1>4 DEF FormatFails
<1>5. CASE DoneTimer
  BY <1>5 DEF DoneTimer
<1>6. ASSUME NEW allowed \in BOOLEAN, CopyCode(allowed) PROVE EditorInv' /\ FormattingKeepsText
  BY <1>6 DEF CopyCode
<1>7. CASE CopyTimer
  BY <1>7 DEF CopyTimer
<1>8. CASE CloseError
  BY <1>8 DEF CloseError
<1>9. CASE Expand
  BY <1>9 DEF Expand
<1>10. CASE UNCHANGED editorVars
  BY <1>10 DEF editorVars
<1> QED
  BY <1>1, <1>2, <1>3, <1>4, <1>5, <1>6, <1>7, <1>8, <1>9, <1>10 DEF CodeEditorNext

\* Formatting in the background never takes back what is typed meanwhile.
THEOREM TypedTextStays == CodeEditorSpec => TypedTextKept
  BY EditorInitial, EditorStep, PTL DEF CodeEditorSpec, TypedTextKept

-----------------------------------------------------------------------------
(* Workspace: nothing is asked for by a page that is not there, and what a  *)
(* request brings belongs to who is signed in.                              *)
Mounted ==
  /\ user = None => lists = {} /\ form = None
  /\ form = None => /\ \A r \in lists : r.kind # "history"
                    /\ \A p \in posts : p.seen # "form"

PageInv == WorkspaceTypeOK /\ Mounted

LEMMA FreshFormOK == FreshForm \in Form
  BY WorkspaceAssumption, FS_CardinalityType DEF FreshForm, Form

LEMMA FormNotNone == ASSUME NEW f \in Form PROVE f # None
  BY NoneAssumption

\* A page that is shown anew, with a part of the posts.
LEMMA PageShown ==
  ASSUME PageInv, NEW u \in Users, NEW p \in Pages, NEW kept, kept \subseteq Post,
         NEW view \in View, ShowPage(u, p, kept, view)
  PROVE  /\ page' \in Pages /\ shown' = view /\ loading' = TRUE
         /\ lists' \subseteq ListRequest /\ form' \in Form \cup {None} /\ posts' \subseteq Post
         /\ \A r \in lists' : r \in lists \/ r = Asked("load", u) \/ r = Asked("history", u)
         /\ \A q \in posts' : /\ q.seen # "form"
                              /\ \E k \in kept : /\ q.by = k.by /\ q.answer = k.answer
                                                 /\ q.seen # "neither" => k.seen # "neither"
         /\ form' = None => \A r \in lists' : r.kind # "history"
<1>1. Asked("load", u) \in ListRequest /\ Asked("history", u) \in ListRequest
  BY DEF Asked, ListRequest
<1>2. /\ lists' \subseteq ListRequest
      /\ \A r \in lists' : r \in lists \/ r = Asked("load", u) \/ r = Asked("history", u)
  BY <1>1 DEF ShowPage, PageInv, WorkspaceTypeOK
<1>3. form' \in Form \cup {None} /\ (form' # None <=> FormMounted(p, hasLoaded))
  BY FreshFormOK, FormNotNone DEF ShowPage
<1>4. form' = None => \A r \in lists' : r.kind # "history"
  BY <1>3 DEF ShowPage, Asked
<1>5. ASSUME NEW q \in posts'
      PROVE  /\ q \in Post /\ q.seen # "form"
             /\ \E k \in kept : /\ q.by = k.by /\ q.answer = k.answer
                                /\ q.seen # "neither" => k.seen # "neither"
  <2>1. PICK k \in kept : q = [k EXCEPT !.seen = IF @ = "form" THEN "workspace" ELSE @]
    BY DEF ShowPage
  <2>2. k \in Post
    OBVIOUS
  <2>3. q \in Post /\ q.by = k.by /\ q.answer = k.answer
        /\ q.seen = IF k.seen = "form" THEN "workspace" ELSE k.seen
    BY <2>1, <2>2 DEF Post
  <2> QED
    BY <2>3
<1>6. page' \in Pages /\ shown' = view /\ loading' = TRUE /\ posts' \subseteq Post
  BY <1>5 DEF ShowPage
<1> QED
  BY <1>2, <1>3, <1>4, <1>5, <1>6

LEMMA OrphanedPosts ==
  ASSUME posts \subseteq Post
  PROVE  /\ Orphaned("neither") \subseteq Post
         /\ \A q \in Orphaned("neither") :
              /\ q.seen = "neither"
              /\ \E k \in posts : q.by = k.by /\ q.answer = k.answer
<1> SUFFICES ASSUME NEW q \in Orphaned("neither")
             PROVE  /\ q \in Post /\ q.seen = "neither"
                    /\ \E k \in posts : q.by = k.by /\ q.answer = k.answer
  OBVIOUS
<1>1. PICK k \in posts : q = [k EXCEPT !.seen = IF @ = "neither" THEN @ ELSE "neither"]
  BY DEF Orphaned
<1>2. k \in Post
  OBVIOUS
<1>3. q \in Post /\ q.by = k.by /\ q.answer = k.answer /\ q.seen = "neither"
  BY <1>1, <1>2 DEF Post
<1> QED
  BY <1>3

LEMMA ListOfView == ASSUME NEW u PROVE ListOf(u) \in View
  BY DEF ListOf, View

LEMMA ListOfOwn ==
  ASSUME NEW u, NEW s \in Subs, owner[s] # u PROVE ListOf(u)[s] = "absent"
<1>1. s \notin Owned(u)
  BY DEF Owned
<1> QED
  BY <1>1 DEF ListOf

LEMMA PageInitial == WorkspaceInit => PageInv
<1> SUFFICES ASSUME WorkspaceInit PROVE PageInv
  OBVIOUS
<1>1. shown \in View /\ owner \in [Subs -> Users \cup {None}]
  BY DEF WorkspaceInit, Nothing, View
<1> QED
  BY <1>1 DEF WorkspaceInit, PageInv, WorkspaceTypeOK, Mounted, Pages

LEMMA PageStep == PageInv /\ [WorkspaceNext]_workspaceVars => PageInv'
<1> SUFFICES ASSUME PageInv, [WorkspaceNext]_workspaceVars PROVE PageInv'
  OBVIOUS
<1>p. ASSUME NEW u \in Users, NEW p \in Pages, NEW kept, kept \subseteq Post, NEW view \in View,
             ShowPage(u, p, kept, view)
      PROVE  /\ page' \in Pages /\ shown' \in View /\ loading' \in BOOLEAN
             /\ lists' \subseteq ListRequest /\ form' \in Form \cup {None} /\ posts' \subseteq Post
             /\ \A q \in posts' : q.seen # "form"
             /\ form' = None => \A r \in lists' : r.kind # "history"
  BY <1>p, PageShown
<1> USE DEF PageInv, WorkspaceTypeOK, Mounted
<1>a. ASSUME NEW u \in Users, NEW p \in Pages, NEW kept, kept \subseteq Post, NEW view \in View,
             ShowPage(u, p, kept, view), user' \in Users,
             UNCHANGED <<owner, settled, hasLoaded, failed>>, signins' \subseteq signins
      PROVE  PageInv'
  <2>1. user' # None
    BY <1>a, WorkspaceAssumption
  <2>2. /\ page' \in Pages /\ shown' \in View /\ loading' \in BOOLEAN
        /\ lists' \subseteq ListRequest /\ form' \in Form \cup {None} /\ posts' \subseteq Post
        /\ \A q \in posts' : q.seen # "form"
        /\ form' = None => \A r \in lists' : r.kind # "history"
    BY <1>a, <1>p
  <2> QED
    BY <1>a, <2>1, <2>2
<1>b. ASSUME NEW p \in Pages, Navigate(p) PROVE PageInv'
  <2>1. user \in Users /\ user' \in Users
    BY <1>b DEF Navigate
  <2> QED
    BY <1>b, <2>1, <1>a DEF Navigate
<1>1. ASSUME NEW u \in Users, SendSignIn(u) PROVE PageInv'
  BY <1>1 DEF SendSignIn
<1>2. ASSUME NEW i \in signins, SignIn(i) PROVE PageInv'
  <2> DEFINE p == IF i.page = "login" THEN "list" ELSE i.page
  <2>1. i.by \in Users /\ p \in Pages
    BY DEF Pages
  <2>2. CASE user = None
    <3>1. lists' \subseteq ListRequest /\ \A r \in lists' : r.kind # "history"
      BY <1>2, <2>1, <2>2 DEF SignIn, MountWorkspace, Asked, ListRequest
    <3>2. shown' \in View /\ user' # None
      BY <1>2, <2>1, <2>2, WorkspaceAssumption DEF SignIn, MountWorkspace, Nothing, View
    <3> QED
      BY <1>2, <2>1, <2>2, <3>1, <3>2 DEF SignIn, MountWorkspace
  <2>3. CASE user # None
    <3>1. ShowPage(i.by, p, posts, shown) /\ signins' \subseteq signins /\ user' = i.by
          /\ UNCHANGED <<owner, settled, hasLoaded, failed>>
      BY <1>2, <2>3 DEF SignIn
    <3> HIDE DEF p
    <3> QED
      BY <2>1, <3>1, <1>a
  <2> QED
    BY <2>2, <2>3
<1>3. ASSUME NEW i \in signins, SignInFails(i) PROVE PageInv'
  BY <1>3 DEF SignInFails
<1>4. CASE SignOut
  <2>1. posts' \subseteq Post /\ \A q \in posts' : q.seen # "form"
    BY <1>4, OrphanedPosts DEF SignOut
  <2>2. shown' \in View /\ page' \in Pages
    BY <1>4 DEF SignOut, Nothing, View, Pages
  <2> QED
    BY <1>4, <2>1, <2>2 DEF SignOut, ForgetLists
<1>5. CASE ShowMenuPage
  BY <1>5, <1>b DEF ShowMenuPage, Pages
<1>6. CASE OpenAssignment
  BY <1>6, <1>b DEF OpenAssignment, Pages
<1>7. ASSUME NEW s \in Subs, OpenSubmission(s) PROVE PageInv'
  BY <1>7, <1>b DEF OpenSubmission, Pages
<1>8. ASSUME NEW p \in Pages, GoBack(p) PROVE PageInv'
  BY <1>8, <1>b DEF GoBack
<1>9. ASSUME NEW r \in lists, ReadList(r) PROVE PageInv'
  <2>1. [r EXCEPT !.answer = ListOf(r.by)] \in ListRequest
        /\ [r EXCEPT !.answer = ListOf(r.by)].kind = r.kind
    BY ListOfView DEF ListRequest
  <2> HIDE DEF ListRequest
  <2>2. user # None
    OBVIOUS
  <2> QED
    BY <1>9, <2>1, <2>2 DEF ReadList
<1>10. ASSUME NEW r \in lists, LoadAnswered(r) PROVE PageInv'
  <2>1. r.answer \in View /\ user \in Users
    BY <1>10 DEF LoadAnswered, ListRequest
  <2>2. Asked("history", user) \in ListRequest
    BY <2>1 DEF Asked, ListRequest
  <2>3. CASE FormMounted(page, TRUE) /\ form = None
    <3>1. lists' \subseteq ListRequest /\ form' \in Form /\ form' # None
      BY <1>10, <2>2, <2>3, FreshFormOK, FormNotNone DEF LoadAnswered
    <3> QED
      BY <1>10, <2>1, <3>1 DEF LoadAnswered
  <2>4. CASE ~(FormMounted(page, TRUE) /\ form = None)
    <3>1. lists' \subseteq lists /\ form' = form /\ user' = user
      BY <1>10, <2>4 DEF LoadAnswered
    <3> QED
      BY <1>10, <2>1, <3>1 DEF LoadAnswered
  <2> QED
    BY <2>3, <2>4
<1>11. ASSUME NEW r \in lists, LoadFails(r) PROVE PageInv'
  BY <1>11 DEF LoadFails, EndLoad
<1>12. CASE Reload
  <2>1. Asked("load", user) \in ListRequest /\ Asked("load", user).kind = "load"
    BY <1>12 DEF Reload, Asked, ListRequest
  <2> QED
    BY <1>12, <2>1 DEF Reload
<1>13. ASSUME NEW s \in Subs, Poll(s) PROVE PageInv'
  <2>1. Asked("poll", user) \in ListRequest /\ Asked("poll", user).kind = "poll"
    BY <1>13 DEF Poll, Asked, ListRequest
  <2> QED
    BY <1>13, <2>1 DEF Poll
<1>14. ASSUME NEW r \in lists, PollAnswered(r) PROVE PageInv'
  <2>1. r.answer \in View
    BY <1>14 DEF PollAnswered, ListRequest
  <2> QED
    BY <1>14, <2>1 DEF PollAnswered
<1>15. ASSUME NEW r \in lists, HistoryAnswered(r) PROVE PageInv'
  <2> DEFINE heard == {s \in Subs : r.answer[s] # "absent"}
  <2>1. Cardinality(heard) \in 0..Cardinality(Subs)
    BY WorkspaceAssumption, FS_Subset, FS_CardinalityType
  <2>2. form \in Form
    BY <1>15 DEF HistoryAnswered
  <2>3. [form EXCEPT !.used = Cardinality(heard)] \in Form
    BY <2>1, <2>2 DEF Form
  <2>4. form' \in Form /\ form' # None
    BY <1>15, <2>3, FormNotNone DEF HistoryAnswered
  <2> QED
    BY <1>15, <2>4 DEF HistoryAnswered
<1>16. ASSUME NEW r \in lists, ListFails(r) PROVE PageInv'
  BY <1>16 DEF ListFails
<1>17. CASE SendCode
  <2>1. form \in Form /\ user \in Users
    BY <1>17 DEF SendCode
  <2>2. form' \in Form /\ form' # None
    BY <1>17, <2>1, FormNotNone DEF SendCode, Form
  <2>3. [by |-> user, seen |-> "form", answer |-> None] \in Post
    BY <2>1 DEF Post
  <2> QED
    BY <1>17, <2>1, <2>2, <2>3 DEF SendCode
<1>18. ASSUME NEW p \in posts, StoreSubmission(p) PROVE PageInv'
  <2>1. PICK s \in Subs : /\ owner[s] = None
                          /\ owner' = [owner EXCEPT ![s] = p.by]
                          /\ posts' = (posts \ {p}) \cup {[p EXCEPT !.answer = s]}
    BY <1>18 DEF StoreSubmission
  <2>2. [p EXCEPT !.answer = s] \in Post /\ [p EXCEPT !.answer = s].seen = p.seen
        /\ p.by \in Users /\ p.by # None
    BY WorkspaceAssumption DEF Post
  <2>3. owner' \in [Subs -> Users \cup {None}] /\ settled' \subseteq {t \in Subs : owner'[t] # None}
    BY <1>18, <2>1, <2>2 DEF StoreSubmission
  <2>4. posts' \subseteq Post /\ (form = None => \A q \in posts' : q.seen # "form")
    BY <2>1, <2>2
  <2> QED
    BY <1>18, <2>3, <2>4 DEF StoreSubmission
<1>19. ASSUME NEW p \in posts, RefuseSubmission(p) PROVE PageInv'
  <2>1. [p EXCEPT !.answer = "refused"] \in Post /\ [p EXCEPT !.answer = "refused"].seen = p.seen
    BY DEF Post
  <2>2. posts' \subseteq Post /\ (form = None => \A q \in posts' : q.seen # "form")
    BY <1>19, <2>1 DEF RefuseSubmission
  <2> QED
    BY <1>19, <2>2 DEF RefuseSubmission
<1>20. ASSUME NEW p \in posts, PostAnswered(p) PROVE PageInv'
  <2>1. p.answer \in Subs /\ p.answer \in Pages
    BY <1>20 DEF PostAnswered, Pages
  <2>2. Upserted(p) \in View
    BY <2>1 DEF Upserted, View
  <2>3. CASE user = None
    BY <1>20, <2>1, <2>3 DEF PostAnswered
  <2>4. CASE user # None /\ page = p.answer
    BY <1>20, <2>1, <2>2, <2>4 DEF PostAnswered
  <2>5. CASE user # None /\ page # p.answer
    <3>1. ShowPage(user, p.answer, posts \ {p}, Upserted(p)) /\ user' = user
          /\ UNCHANGED <<owner, settled, signins, hasLoaded, failed>>
      BY <1>20, <2>5 DEF PostAnswered
    <3>2. user \in Users /\ posts \ {p} \subseteq Post
      BY <2>5
    <3> QED
      BY <2>1, <2>2, <3>1, <3>2, <1>a
  <2> QED
    BY <2>3, <2>4, <2>5
<1>21. ASSUME NEW p \in posts, PostFails(p) PROVE PageInv'
  <2>1. CASE p.seen = "form"
    <3>1. form \in Form /\ user # None
      BY <2>1
    <3>2. form' \in Form /\ form' # None
      BY <1>21, <2>1, <3>1, FormNotNone DEF PostFails, Form
    <3> QED
      BY <1>21, <3>1, <3>2 DEF PostFails
  <2>2. CASE p.seen # "form"
    BY <1>21, <2>2 DEF PostFails
  <2> QED
    BY <2>1, <2>2
<1>22. ASSUME NEW s \in Subs, Settle(s) PROVE PageInv'
  BY <1>22 DEF Settle
<1>23. CASE UNCHANGED workspaceVars
  BY <1>23 DEF workspaceVars
<1> QED
  BY <1>1, <1>2, <1>3, <1>4, <1>5, <1>6, <1>7, <1>8, <1>9, <1>10, <1>11, <1>12, <1>13, <1>14,
     <1>15, <1>16, <1>17, <1>18, <1>19, <1>20, <1>21, <1>22, <1>23
     DEF WorkspaceNext, AnswerList, FailList, AnswerPost

\* The page, its lists and its form are what they should be, and nothing is asked
\* for by what is no longer there.
THEOREM WorkspaceTypesCorrect == WorkspaceSpec => []WorkspaceTypeOK
<1>1. PageInv => WorkspaceTypeOK
  BY DEF PageInv
<1> QED
  BY <1>1, PageInitial, PageStep, PTL DEF WorkspaceSpec

\* One sign-in at a time, so that who is signed in does not change but by signing out.
OneSignIn ==
  /\ \A i, j \in signins : i = j
  /\ user # None => signins = {}

Own(view, u) == \A s \in Subs : view[s] # "absent" => owner[s] = u /\ u # None

AnswersOwn ==
  /\ \A r \in lists : r.by = user /\ (r.answer # None => Own(r.answer, r.by))
  /\ \A p \in posts : /\ p.seen # "neither" => p.by = user
                      /\ p.answer \in Subs => owner[p.answer] = p.by

OwnInv == OneSignIn /\ Own(shown, user) /\ AnswersOwn

LEMMA OwnInitial == WorkspaceInit => OwnInv
  BY DEF WorkspaceInit, OwnInv, OneSignIn, Own, AnswersOwn, Nothing

LEMMA OwnShown ==
  ASSUME PageInv, OwnInv, user \in Users, NEW p \in Pages, NEW kept, kept \subseteq posts,
         NEW view \in View, Own(view, user), ShowPage(user, p, kept, view),
         UNCHANGED <<owner, signins, user>>
  PROVE  OwnInv'
<1>1. posts \subseteq Post /\ user # None
  BY WorkspaceAssumption DEF PageInv, WorkspaceTypeOK
<1>2. /\ shown' = view
      /\ \A r \in lists' : r \in lists \/ r = Asked("load", user) \/ r = Asked("history", user)
      /\ \A q \in posts' : \E k \in kept : /\ q.by = k.by /\ q.answer = k.answer
                                           /\ q.seen # "neither" => k.seen # "neither"
  <2>1. kept \subseteq Post
    BY <1>1
  <2> QED
    BY <2>1, PageShown
<1>3. ASSUME NEW r \in lists' PROVE r.by = user' /\ (r.answer # None => Own(r.answer, r.by)')
  <2>1. CASE r \in lists
    BY <2>1 DEF OwnInv, AnswersOwn, Own
  <2>2. CASE r \notin lists
    BY <1>2, <2>2 DEF Asked
  <2> QED
    BY <2>1, <2>2
<1>4. ASSUME NEW q \in posts'
      PROVE  (q.seen # "neither" => q.by = user') /\ (q.answer \in Subs => owner'[q.answer] = q.by)
  BY <1>2 DEF OwnInv, AnswersOwn
<1>5. OneSignIn' /\ Own(shown, user)'
  BY <1>2 DEF OwnInv, OneSignIn, Own
<1> QED
  BY <1>3, <1>4, <1>5 DEF OwnInv, AnswersOwn

LEMMA OwnStep ==
  ASSUME ~Overlap, PageInv, OwnInv, [WorkspaceNext]_workspaceVars
  PROVE  OwnInv'
<1>t. /\ owner \in [Subs -> Users \cup {None}] /\ signins \subseteq [by : Users, page : {"login"} \cup Subs]
      /\ user \in Users \cup {None} /\ shown \in View
      /\ lists \subseteq ListRequest /\ posts \subseteq Post
      /\ None \notin Users /\ "refused" \notin Subs /\ None \notin Subs
      /\ user = None => lists = {}
  BY WorkspaceAssumption DEF PageInv, WorkspaceTypeOK, Mounted
<1>n. ASSUME NEW p \in Pages, Navigate(p) PROVE OwnInv'
  <2>1. user \in Users /\ ShowPage(user, p, posts, shown) /\ UNCHANGED <<owner, signins, user>>
    BY <1>n, <1>t DEF Navigate
  <2>2. Own(shown, user)
    BY DEF OwnInv
  <2> QED
    BY <1>t, <2>1, <2>2, OwnShown
<1> USE <1>t DEF OwnInv, OneSignIn, Own, AnswersOwn
<1>1. ASSUME NEW u \in Users, SendSignIn(u) PROVE OwnInv'
  BY <1>1 DEF SendSignIn
<1>2. ASSUME NEW i \in signins, SignIn(i) PROVE OwnInv'
  <2>1. user = None /\ signins' = {} /\ MountWorkspace(i.by) /\ user' = i.by
        /\ UNCHANGED <<posts, owner>>
    BY <1>2 DEF SignIn
  <2>2. \A p \in posts : p.seen = "neither"
    BY <2>1 DEF Post
  <2>3. \A r \in lists' : r.by = user' /\ r.answer = None
    BY <2>1 DEF MountWorkspace, Asked
  <2>4. \A s \in Subs : shown'[s] = "absent"
    BY <2>1 DEF MountWorkspace, Nothing
  <2> QED
    BY <2>1, <2>2, <2>3, <2>4
<1>3. ASSUME NEW i \in signins, SignInFails(i) PROVE OwnInv'
  BY <1>3 DEF SignInFails
<1>4. CASE SignOut
  <2>1. \A q \in posts' : q.seen = "neither" /\ \E k \in posts : q.by = k.by /\ q.answer = k.answer
    BY <1>4, OrphanedPosts DEF SignOut
  <2>2. \A s \in Subs : shown'[s] = "absent"
    BY <1>4 DEF SignOut, Nothing
  <2> QED
    BY <1>4, <2>1, <2>2 DEF SignOut, ForgetLists
<1>5. CASE ShowMenuPage
  BY <1>5, <1>n DEF ShowMenuPage, Pages
<1>6. CASE OpenAssignment
  BY <1>6, <1>n DEF OpenAssignment, Pages
<1>7. ASSUME NEW s \in Subs, OpenSubmission(s) PROVE OwnInv'
  BY <1>7, <1>n DEF OpenSubmission, Pages
<1>8. ASSUME NEW p \in Pages, GoBack(p) PROVE OwnInv'
  BY <1>8, <1>n DEF GoBack
<1>9. ASSUME NEW r \in lists, ReadList(r) PROVE OwnInv'
  <2> DEFINE read == [r EXCEPT !.answer = ListOf(r.by)]
  <2>1. read.by = r.by /\ read.answer = ListOf(r.by)
    BY DEF ListRequest
  <2>2. \A s \in Subs : ListOf(r.by)[s] # "absent" => owner[s] = r.by
    BY ListOfOwn
  <2>3. lists' = (lists \ {r}) \cup {read} /\ UNCHANGED <<owner, signins, user, shown, posts>>
    BY <1>9 DEF ReadList
  <2>4. r.by = user /\ user # None
    OBVIOUS
  <2> HIDE DEF read
  <2> QED
    BY <2>1, <2>2, <2>3, <2>4
<1>10. ASSUME NEW r \in lists, LoadAnswered(r) PROVE OwnInv'
  <2>1. \A q \in lists' : q \in lists \/ q = Asked("history", user)
    BY <1>10 DEF LoadAnswered
  <2>2. shown' = r.answer /\ r.answer # None /\ UNCHANGED <<owner, signins, user, posts>>
    BY <1>10 DEF LoadAnswered
  <2>3. Asked("history", user).by = user /\ Asked("history", user).answer = None
    BY DEF Asked
  <2> QED
    BY <2>1, <2>2, <2>3
<1>11. ASSUME NEW r \in lists, LoadFails(r) PROVE OwnInv'
  BY <1>11 DEF LoadFails
<1>12. CASE Reload
  BY <1>12 DEF Reload, Asked
<1>13. ASSUME NEW s \in Subs, Poll(s) PROVE OwnInv'
  BY <1>13 DEF Poll, Asked
<1>14. ASSUME NEW r \in lists, PollAnswered(r) PROVE OwnInv'
  BY <1>14 DEF PollAnswered
<1>15. ASSUME NEW r \in lists, HistoryAnswered(r) PROVE OwnInv'
  BY <1>15 DEF HistoryAnswered
<1>16. ASSUME NEW r \in lists, ListFails(r) PROVE OwnInv'
  BY <1>16 DEF ListFails
<1>17. CASE SendCode
  BY <1>17 DEF SendCode
<1>18. ASSUME NEW p \in posts, StoreSubmission(p) PROVE OwnInv'
  <2>1. PICK s \in Subs : /\ owner[s] = None
                          /\ owner' = [owner EXCEPT ![s] = p.by]
                          /\ posts' = (posts \ {p}) \cup {[p EXCEPT !.answer = s]}
    BY <1>18 DEF StoreSubmission
  <2>2. [p EXCEPT !.answer = s].answer = s /\ [p EXCEPT !.answer = s].by = p.by
        /\ [p EXCEPT !.answer = s].seen = p.seen /\ p.by \in Users
    BY DEF Post
  <2>3. owner'[s] = p.by /\ \A t \in Subs : owner[t] # None => owner'[t] = owner[t]
    BY <2>1
  <2>4. UNCHANGED <<signins, user, shown, lists>>
    BY <1>18 DEF StoreSubmission
  <2>5. Own(shown, user)' /\ \A r \in lists' : r.by = user' /\ (r.answer # None => Own(r.answer, r.by)')
    BY <2>3, <2>4
  <2>6. ASSUME NEW q \in posts'
        PROVE  (q.seen # "neither" => q.by = user') /\ (q.answer \in Subs => owner'[q.answer] = q.by)
    <3>1. CASE q \in posts
      <4>1. q.by # None
        BY <3>1 DEF Post
      <4> QED
        BY <2>3, <2>4, <3>1, <4>1
    <3>2. CASE q = [p EXCEPT !.answer = s]
      BY <2>2, <2>3, <2>4, <3>2
    <3> QED
      BY <2>1, <3>1, <3>2
  <2> QED
    BY <2>4, <2>5, <2>6
<1>19. ASSUME NEW p \in posts, RefuseSubmission(p) PROVE OwnInv'
  <2> DEFINE refused == [p EXCEPT !.answer = "refused"]
  <2>1. refused.answer = "refused" /\ refused.by = p.by /\ refused.seen = p.seen
    BY DEF Post
  <2>2. posts' = (posts \ {p}) \cup {refused} /\ UNCHANGED <<owner, signins, user, shown, lists>>
    BY <1>19 DEF RefuseSubmission
  <2> HIDE DEF refused
  <2> QED
    BY <2>1, <2>2
<1>20. ASSUME NEW p \in posts, PostAnswered(p) PROVE OwnInv'
  <2>1. p.answer \in Subs /\ p.answer \in Pages
    BY <1>20 DEF PostAnswered, Pages
  <2>2. Upserted(p) \in View /\ (user # None => Own(Upserted(p), user))
    BY <2>1 DEF Upserted, View
  <2>3. CASE user = None
    BY <1>20, <2>3 DEF PostAnswered
  <2>4. CASE user # None /\ page = p.answer
    BY <1>20, <2>2, <2>4 DEF PostAnswered
  <2>5. CASE user # None /\ page # p.answer
    <3>1. ShowPage(user, p.answer, posts \ {p}, Upserted(p)) /\ UNCHANGED <<owner, signins, user>>
      BY <1>20, <2>5 DEF PostAnswered
    <3>2. user \in Users /\ posts \ {p} \subseteq posts /\ Own(Upserted(p), user)
      BY <2>2, <2>5
    <3>3. OwnInv
      OBVIOUS
    <3> QED
      BY <2>1, <2>2, <3>1, <3>2, <3>3, OwnShown
  <2> QED
    BY <2>3, <2>4, <2>5
<1>21. ASSUME NEW p \in posts, PostFails(p) PROVE OwnInv'
  BY <1>21 DEF PostFails
<1>22. ASSUME NEW s \in Subs, Settle(s) PROVE OwnInv'
  BY <1>22 DEF Settle
<1>23. CASE UNCHANGED workspaceVars
  BY <1>23 DEF workspaceVars
<1> QED
  BY <1>1, <1>2, <1>3, <1>4, <1>5, <1>6, <1>7, <1>8, <1>9, <1>10, <1>11, <1>12, <1>13, <1>14,
     <1>15, <1>16, <1>17, <1>18, <1>19, <1>20, <1>21, <1>22, <1>23
     DEF WorkspaceNext, AnswerList, FailList, AnswerPost

\* A page shows no submission of another student, whatever answer of an earlier
\* session is still to come, provided that one sign-in is under way at a time.
THEOREM OwnDataShown == ~Overlap => (WorkspaceSpec => []SessionDataOnly)
<1> SUFFICES ASSUME ~Overlap PROVE WorkspaceSpec => []SessionDataOnly
  OBVIOUS
<1>1. PageInv /\ OwnInv /\ [WorkspaceNext]_workspaceVars => OwnInv'
  BY OwnStep
<1>2. OwnInv => SessionDataOnly
  BY DEF OwnInv, Own, SessionDataOnly
<1> QED
  BY <1>1, <1>2, PageInitial, PageStep, OwnInitial, PTL DEF WorkspaceSpec
-----------------------------------------------------------------------------
(* What is marked on a page is under way: a load is asked for, and of the   *)
(* posts the form that is shown has sent at most one.                       *)
OfForm(ps) == {p \in ps : p.seen = "form"}
MarkedInv ==
  /\ user # None /\ loading => Loads # {}
  /\ form # None => page = "submit" /\ (form.busy <=> OfForm(posts) # {})
  /\ \A p, q \in OfForm(posts) : p = q

LEMMA MarkedInitial == WorkspaceInit => MarkedInv
  BY DEF WorkspaceInit, MarkedInv, OfForm

LEMMA MarkedGoal == PageInv /\ MarkedInv => WorkspaceBusy
  BY DEF PageInv, Mounted, MarkedInv, WorkspaceBusy, Loads, OfForm

\* A page that is shown is loaded, with a form of its own if it is the form's.
LEMMA MarkedShown ==
  ASSUME PageInv, NEW u \in Users, NEW p \in Pages, NEW kept, kept \subseteq Post,
         NEW view \in View, ShowPage(u, p, kept, view)
  PROVE  MarkedInv'
<1>1. \A q \in posts' : q.seen # "form"
  BY PageShown
<1>2. Asked("load", u) \in lists' /\ Asked("load", u).kind = "load"
  BY DEF ShowPage, Asked
<1>3. form' # None => page' = "submit" /\ form'.busy = FALSE
  BY DEF ShowPage, FormMounted, FreshForm
<1>4. Loads' # {} /\ OfForm(posts)' = {}
  BY <1>1, <1>2 DEF Loads, OfForm
<1> QED
  BY <1>3, <1>4 DEF MarkedInv, OfForm

\* A post that is answered by the server is still that of its form.
LEMMA PostReplaced ==
  ASSUME NEW ps, \A p, q \in OfForm(ps) : p = q, NEW p \in ps, NEW q, q.seen = p.seen
  PROVE  LET qs == (ps \ {p}) \cup {q}
         IN (OfForm(qs) # {} <=> OfForm(ps) # {}) /\ \A x, y \in OfForm(qs) : x = y
  BY DEF OfForm

LEMMA MarkedStep == PageInv /\ MarkedInv /\ [WorkspaceNext]_workspaceVars => MarkedInv'
<1> SUFFICES ASSUME PageInv, MarkedInv, [WorkspaceNext]_workspaceVars PROVE MarkedInv'
  OBVIOUS
<1>t. /\ user \in Users \cup {None} /\ None \notin Users /\ shown \in View
      /\ lists \subseteq ListRequest /\ posts \subseteq Post /\ form \in Form \cup {None}
      /\ "submit" \notin Subs
  BY WorkspaceAssumption DEF PageInv, WorkspaceTypeOK
<1>m. /\ user = None => form = None
      /\ form = None => OfForm(posts) = {} /\ \A r \in lists : r.kind # "history"
  BY DEF PageInv, Mounted, OfForm
\* The form and its posts stay, or the loads do.
<1>p. ASSUME UNCHANGED <<form, page, posts>>, user' # None /\ loading' => Loads' # {}
      PROVE  MarkedInv'
  BY <1>p DEF MarkedInv, OfForm
<1>l. ASSUME UNCHANGED <<user, loading, lists>> PROVE user' # None /\ loading' => Loads' # {}
  BY <1>l DEF MarkedInv, Loads
<1>d. ASSUME UNCHANGED <<user, loading>>, NEW r \in lists, r.kind # "load", lists' = lists \ {r}
      PROVE  user' # None /\ loading' => Loads' # {}
  BY <1>d DEF MarkedInv, Loads
<1>n. ASSUME NEW p \in Pages, Navigate(p) PROVE MarkedInv'
  <2>1. user \in Users
    BY <1>n, <1>t DEF Navigate
  <2> QED
    BY <1>n, <1>t, <2>1, MarkedShown DEF Navigate
<1>1. ASSUME NEW u \in Users, SendSignIn(u) PROVE MarkedInv'
  BY <1>1, <1>p, <1>l DEF SendSignIn
<1>2. ASSUME NEW i \in signins, SignIn(i) PROVE MarkedInv'
  <2> DEFINE p == IF i.page = "login" THEN "list" ELSE i.page
  <2>1. i.by \in Users /\ p \in Pages
    BY DEF PageInv, WorkspaceTypeOK, Pages
  <2>2. CASE user = None
    <3>1. MountWorkspace(i.by) /\ UNCHANGED posts
      BY <1>2, <2>2 DEF SignIn
    <3>2. Asked("load", i.by) \in lists' /\ Asked("load", i.by).kind = "load" /\ form' = None
      BY <3>1 DEF MountWorkspace, Asked
    <3>3. OfForm(posts)' = {} /\ Loads' # {}
      BY <1>m, <2>2, <3>1, <3>2 DEF Loads, OfForm
    <3> QED
      BY <3>2, <3>3 DEF MarkedInv
  <2>3. CASE user # None
    <3>1. ShowPage(i.by, p, posts, shown)
      BY <1>2, <2>3 DEF SignIn
    <3> HIDE DEF p
    <3> QED
      BY <1>t, <2>1, <3>1, MarkedShown
  <2> QED
    BY <2>2, <2>3
<1>3. ASSUME NEW i \in signins, SignInFails(i) PROVE MarkedInv'
  BY <1>3, <1>p, <1>l DEF SignInFails
<1>4. CASE SignOut
  <2>1. \A q \in posts' : q.seen = "neither"
    BY <1>4, <1>t, OrphanedPosts DEF SignOut
  <2>2. OfForm(posts)' = {}
    BY <2>1 DEF OfForm
  <2> QED
    BY <1>4, <2>2 DEF SignOut, MarkedInv
<1>5. CASE ShowMenuPage
  BY <1>5, <1>n DEF ShowMenuPage, Pages
<1>6. CASE OpenAssignment
  BY <1>6, <1>n DEF OpenAssignment, Pages
<1>7. ASSUME NEW s \in Subs, OpenSubmission(s) PROVE MarkedInv'
  BY <1>7, <1>n DEF OpenSubmission, Pages
<1>8. ASSUME NEW p \in Pages, GoBack(p) PROVE MarkedInv'
  BY <1>8, <1>n DEF GoBack
<1>9. ASSUME NEW r \in lists, ReadList(r) PROVE MarkedInv'
  <2> DEFINE read == [r EXCEPT !.answer = ListOf(r.by)]
  <2>1. read.kind = r.kind
    BY <1>t DEF ListRequest
  <2>2. lists' = (lists \ {r}) \cup {read} /\ UNCHANGED <<user, loading, form, page, posts>>
    BY <1>9 DEF ReadList
  <2> HIDE DEF read
  <2>3. Loads # {} => Loads' # {}
    BY <2>1, <2>2 DEF Loads
  <2> QED
    BY <1>p, <2>2, <2>3 DEF MarkedInv
<1>10. ASSUME NEW r \in lists, LoadAnswered(r) PROVE MarkedInv'
  <2>1. loading' = FALSE /\ UNCHANGED <<user, page, posts>>
    BY <1>10 DEF LoadAnswered
  <2>2. CASE FormMounted(page, TRUE) /\ form = None
    <3>1. page = "submit" /\ form' = FreshForm
      BY <1>10, <2>2 DEF LoadAnswered, FormMounted
    <3>2. OfForm(posts)' = {} /\ form'.busy = FALSE
      BY <1>m, <2>1, <2>2, <3>1 DEF FreshForm, OfForm
    <3> QED
      BY <2>1, <3>1, <3>2 DEF MarkedInv
  <2>3. CASE ~(FormMounted(page, TRUE) /\ form = None)
    BY <1>10, <1>p, <2>1, <2>3 DEF LoadAnswered
  <2> QED
    BY <2>2, <2>3
<1>11. ASSUME NEW r \in lists, LoadFails(r) PROVE MarkedInv'
  BY <1>11, <1>p DEF LoadFails, EndLoad
<1>12. CASE Reload
  <2>1. Asked("load", user) \in lists' /\ Asked("load", user).kind = "load"
    BY <1>12 DEF Reload, Asked
  <2>2. Loads' # {}
    BY <2>1 DEF Loads
  <2> QED
    BY <1>12, <1>p, <2>2 DEF Reload
<1>13. ASSUME NEW s \in Subs, Poll(s) PROVE MarkedInv'
  <2>1. lists \subseteq lists' /\ UNCHANGED <<user, loading, form, page, posts>>
    BY <1>13 DEF Poll
  <2>2. Loads # {} => Loads' # {}
    BY <2>1 DEF Loads
  <2> QED
    BY <1>p, <2>1, <2>2 DEF MarkedInv
<1>14. ASSUME NEW r \in lists, PollAnswered(r) PROVE MarkedInv'
  BY <1>14, <1>p, <1>d DEF PollAnswered
<1>15. ASSUME NEW r \in lists, HistoryAnswered(r) PROVE MarkedInv'
  <2> DEFINE used == Cardinality({s \in Subs : r.answer[s] # "absent"})
  <2>1. form' = [form EXCEPT !.used = used] /\ r.kind = "history"
        /\ UNCHANGED <<user, loading, page, posts>> /\ lists' = lists \ {r}
    BY <1>15 DEF HistoryAnswered
  <2> HIDE DEF used
  <2>2. form # None /\ form'.busy = form.busy
    BY <1>m, <1>t, <2>1 DEF Form
  <2>3. user' # None /\ loading' => Loads' # {}
    BY <1>d, <2>1
  <2> QED
    BY <2>1, <2>2, <2>3 DEF MarkedInv, OfForm
<1>16. ASSUME NEW r \in lists, ListFails(r) PROVE MarkedInv'
  BY <1>16, <1>p, <1>d DEF ListFails
<1>17. CASE SendCode
  <2> DEFINE sent == [by |-> user, seen |-> "form", answer |-> None]
  <2>1. form \in Form /\ form # None /\ form.busy = FALSE
    BY <1>17, <1>t DEF SendCode, CanSubmit, Form
  <2>2. posts' = posts \cup {sent} /\ sent.seen = "form" /\ form' = [form EXCEPT !.busy = TRUE]
        /\ UNCHANGED <<user, loading, lists, page>>
    BY <1>17 DEF SendCode
  <2> HIDE DEF sent
  <2>3. OfForm(posts) = {} /\ page = "submit"
    BY <2>1 DEF MarkedInv
  <2>4. OfForm(posts)' = {sent}
    BY <2>2, <2>3 DEF OfForm
  <2>5. form'.busy = TRUE
    BY <2>1, <2>2 DEF Form
  <2> QED
    BY <1>l, <2>2, <2>3, <2>4, <2>5 DEF MarkedInv
\* A post is answered by the server.
<1>s. ASSUME UNCHANGED <<user, loading, lists, form, page>>, NEW p \in posts, NEW q,
             q.seen = p.seen, posts' = (posts \ {p}) \cup {q}
      PROVE  MarkedInv'
  <2>1. \A x, y \in OfForm(posts) : x = y
    BY DEF MarkedInv
  <2>2. OfForm(posts') # {} <=> OfForm(posts) # {}
    BY <1>s, <2>1, PostReplaced
  <2>3. \A x, y \in OfForm(posts') : x = y
    BY <1>s, <2>1, PostReplaced
  <2>4. user' # None /\ loading' => Loads' # {}
    BY <1>l, <1>s
  <2> QED
    BY <1>s, <2>2, <2>3, <2>4 DEF MarkedInv, OfForm
<1>18. ASSUME NEW p \in posts, StoreSubmission(p) PROVE MarkedInv'
  <2>1. PICK s \in Subs : posts' = (posts \ {p}) \cup {[p EXCEPT !.answer = s]}
    BY <1>18 DEF StoreSubmission
  <2>2. [p EXCEPT !.answer = s].seen = p.seen
    BY <1>t DEF Post
  <2> QED
    BY <1>18, <1>s, <2>1, <2>2 DEF StoreSubmission
<1>19. ASSUME NEW p \in posts, RefuseSubmission(p) PROVE MarkedInv'
  <2>1. [p EXCEPT !.answer = "refused"].seen = p.seen
    BY <1>t DEF Post
  <2> QED
    BY <1>19, <1>s, <2>1 DEF RefuseSubmission
<1>20. ASSUME NEW p \in posts, PostAnswered(p) PROVE MarkedInv'
  <2>1. p.answer \in Subs /\ p.answer \in Pages
    BY <1>20 DEF PostAnswered, Pages
  <2>2. Upserted(p) \in View
    BY <1>t, <2>1 DEF Upserted, View
  <2>3. CASE user = None
    <3>1. posts' = posts \ {p} /\ form' = form /\ user' = user
      BY <1>20, <2>3 DEF PostAnswered
    <3>2. OfForm(posts)' = {}
      BY <1>m, <2>3, <3>1 DEF OfForm
    <3> QED
      BY <1>m, <2>3, <3>1, <3>2 DEF MarkedInv
  \* The page is that of a submission, so that it has no form.
  <2>4. CASE user # None /\ page = p.answer
    <3>1. posts' = posts \ {p} /\ UNCHANGED <<user, page, loading, lists, form>>
      BY <1>20, <2>4 DEF PostAnswered
    <3>2. form = None
      BY <1>t, <2>1, <2>4 DEF MarkedInv
    <3>3. OfForm(posts)' = {}
      BY <1>m, <3>1, <3>2 DEF OfForm
    <3> QED
      BY <1>l, <3>1, <3>2, <3>3 DEF MarkedInv
  <2>5. CASE user # None /\ page # p.answer
    <3>1. ShowPage(user, p.answer, posts \ {p}, Upserted(p))
      BY <1>20, <2>5 DEF PostAnswered
    <3>2. user \in Users /\ posts \ {p} \subseteq Post
      BY <1>t, <2>5
    <3> QED
      BY <2>1, <2>2, <3>1, <3>2, MarkedShown
  <2> QED
    BY <2>3, <2>4, <2>5
<1>21. ASSUME NEW p \in posts, PostFails(p) PROVE MarkedInv'
  <2>1. posts' = posts \ {p} /\ UNCHANGED <<user, loading, lists, page>>
    BY <1>21 DEF PostFails
  <2>2. CASE p.seen = "form"
    <3>1. form \in Form /\ form # None
      BY <1>t, <1>m, <2>2 DEF OfForm
    <3>2. form'.busy = FALSE
      BY <1>21, <2>2, <3>1 DEF PostFails, Form
    <3>3. OfForm(posts)' = {}
      BY <2>1, <2>2 DEF MarkedInv, OfForm
    <3> QED
      BY <1>l, <2>1, <3>1, <3>2, <3>3 DEF MarkedInv
  <2>3. CASE p.seen # "form"
    <3>1. form' = form
      BY <1>21, <2>3 DEF PostFails
    <3>2. OfForm(posts)' = OfForm(posts)
      BY <2>1, <2>3 DEF OfForm
    <3> QED
      BY <1>l, <2>1, <3>1, <3>2 DEF MarkedInv
  <2> QED
    BY <2>2, <2>3
<1>22. ASSUME NEW s \in Subs, Settle(s) PROVE MarkedInv'
  BY <1>22, <1>p, <1>l DEF Settle
<1>23. CASE UNCHANGED workspaceVars
  BY <1>23, <1>p, <1>l DEF workspaceVars
<1> QED
  BY <1>1, <1>2, <1>3, <1>4, <1>5, <1>6, <1>7, <1>8, <1>9, <1>10, <1>11, <1>12, <1>13, <1>14,
     <1>15, <1>16, <1>17, <1>18, <1>19, <1>20, <1>21, <1>22, <1>23
     DEF WorkspaceNext, AnswerList, FailList, AnswerPost

-----------------------------------------------------------------------------
(* The parts as MCStudent puts them together. *)
\* What MCStudent runs is each of the parts: a theorem about one of them, under its
\* own specification, holds of the whole, and no part moves another's variables.
THEOREM StudentRunsParts == StudentSpec => SessionSpec /\ CodeEditorSpec /\ WorkspaceSpec
<1>1. StudentInit => SessionInit /\ CodeEditorInit /\ WorkspaceInit
  BY DEF StudentInit
<1>2. [StudentNext]_studentVars => /\ [SessionNext]_sessionVars
                                  /\ [CodeEditorNext]_editorVars
                                  /\ [WorkspaceNext]_workspaceVars
  BY DEF StudentNext, studentVars
<1> QED
  BY <1>1, <1>2, PTL DEF StudentSpec, SessionSpec, CodeEditorSpec, WorkspaceSpec

StudentInv == SessionInv /\ FormMarked /\ EditorInv /\ PageInv /\ MarkedInv

\* In all a student meets each variable has its type, and what is marked as under
\* way, which disables the buttons, is so.
THEOREM StudentMarksTrue == StudentSpec => []StudentTypeOK
<1>1. StudentInit => StudentInv
  BY SessionInitial, FormMarkedInitial, EditorInitial, PageInitial, MarkedInitial
     DEF StudentInit, StudentInv
<1>2. StudentInv /\ [StudentNext]_studentVars => StudentInv'
  <2> SUFFICES ASSUME StudentInv, [StudentNext]_studentVars PROVE StudentInv'
    OBVIOUS
  <2>1. /\ [SessionNext]_sessionVars /\ [CodeEditorNext]_editorVars
        /\ [WorkspaceNext]_workspaceVars
    BY DEF StudentNext, studentVars
  <2> QED
    BY <2>1, SessionStep, FormMarkedStep, EditorStep, PageStep, MarkedStep DEF StudentInv
<1>3. StudentInv => StudentTypeOK
  BY SessionGoal, FormMarkedGoal, MarkedGoal
     DEF StudentInv, StudentTypeOK, EditorInv, PageInv
<1> QED
  BY <1>1, <1>2, <1>3, PTL DEF StudentSpec
=============================================================================
