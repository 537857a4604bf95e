----------------------------- MODULE Workspace -----------------------------
(***************************************************************************)
(* A student's workspace: Workspace, StudentSubmit, Detail and             *)
(* EvaluationProgress of web/src/App.tsx, in one browser page, against the *)
(* submissions the server holds.                                           *)
(*                                                                         *)
(* Every change of page loads the lists anew, and the page of a pending    *)
(* submission polls them.  Requests are answered in any order and each     *)
(* answer replaces the whole list.  An answer to a component that is gone  *)
(* changes nothing, so its request is dropped when the component unmounts; *)
(* but the answer to a submission navigates, wherever the user is by then. *)
(***************************************************************************)
EXTENDS Naturals, FiniteSets

CONSTANTS
  Users,           \* the students who sign in on this page
  Subs,            \* ids the server gives to submissions
  MaxSubmissions,  \* the assignment's limit for one student
  MaxLoads,        \* bound on the loads under way at once
  MaxPolls,        \* bound on the polls under way at once
  MaxPosts,        \* bound on the submissions under way at once
  Overlap,         \* may a sign-in be sent while another is under way?
  None

ASSUME WorkspaceAssumption ==
  /\ IsFiniteSet(Subs)
  /\ {MaxSubmissions, MaxLoads, MaxPolls, MaxPosts} \subseteq Nat
  /\ Overlap \in BOOLEAN
  /\ None \notin Users \cup Subs
  /\ {"login", "list", "submit", "refused"} \cap Subs = {}

VARIABLES
  owner,      \* server: whose a submission is, or None
  settled,    \* server: the submissions with a final status
  signins,    \* the sign-ins under way, with the page they were sent from
  user,       \* who is signed in, or None
  page,       \* the route: sign-in, a page without submission, the form, or a submission
  shown,      \* ss: how the page knows each submission
  hasLoaded,  \* the lists have been answered once
  loading,    \* the lists are marked as being loaded
  failed,     \* the error banner, with its button to load again
  lists,      \* the requests for a list under way
  form,       \* StudentSubmit: used attempts and busy; None when not mounted
  posts       \* the submissions under way

workspaceVars ==
  <<owner, settled, signins, user, page, shown, hasLoaded, loading, failed, lists, form, posts>>

Pages == {"login", "list", "submit"} \cup Subs
View == [Subs -> {"absent", "pending", "final"}]
Nothing == [s \in Subs |-> "absent"]

\* A request's answer is None until the server has read the list.
ListRequest ==
  [kind : {"load", "poll", "history"}, by : Users, answer : View \cup {None}]

\* "seen" is whether the form and the workspace that sent it are still there.
Post == [by : Users, seen : {"form", "workspace", "neither"},
         answer : Subs \cup {None, "refused"}]

Form == [used : 0..Cardinality(Subs), busy : BOOLEAN]
ASSUME NoneAssumption == None \notin Form

WorkspaceTypeOK ==
  /\ owner \in [Subs -> Users \cup {None}]
  /\ settled \subseteq {s \in Subs : owner[s] # None}
  /\ signins \subseteq [by : Users, page : {"login"} \cup Subs]
  /\ user \in Users \cup {None}
  /\ page \in Pages
  /\ shown \in View
  /\ hasLoaded \in BOOLEAN /\ loading \in BOOLEAN /\ failed \in BOOLEAN
  /\ lists \subseteq ListRequest
  /\ form \in Form \cup {None}
  /\ posts \subseteq Post

-----------------------------------------------------------------------------
\* What GET /submissions answers to a student: the submissions of their own.
Owned(u) == {s \in Subs : owner[s] = u}
ListOf(u) ==
  [s \in Subs |-> CASE s \notin Owned(u)           -> "absent"
                    [] s \in Owned(u) \cap settled -> "final"
                    [] s \in Owned(u) \ settled    -> "pending"]

Loads == {r \in lists : r.kind = "load"}
Polls == {r \in lists : r.kind = "poll"}
Asked(kind, u) == [kind |-> kind, by |-> u, answer |-> None]
FreshForm == [used |-> 0, busy |-> FALSE]

\* The form is on the stage once the lists are there.
FormMounted(p, loaded) == p = "submit" /\ loaded

\* useState of Workspace and its first load.
MountWorkspace(u) ==
  /\ shown' = Nothing
  /\ hasLoaded' = FALSE
  /\ loading' = TRUE
  /\ failed' = FALSE
  /\ lists' = {Asked("load", u)}
  /\ form' = None

WorkspaceInit ==
  /\ owner = [s \in Subs |-> None]
  /\ settled = {}
  /\ signins = {}
  /\ user = None
  /\ page = "login"
  /\ shown = Nothing
  /\ hasLoaded = FALSE /\ loading = TRUE /\ failed = FALSE
  /\ lists = {}
  /\ form = None
  /\ posts = {}

\* The form is busy while its sign-in is under way, but leaving it for the other
\* form (the browser's buttons, the brand link) gives a form that is not.
SendSignIn(u) ==
  /\ user = None
  /\ page \in {"login"} \cup Subs
  /\ Overlap \/ signins = {}
  /\ signins' = signins \cup {[by |-> u, page |-> page]}
  /\ UNCHANGED <<owner, settled, user, page, shown, hasLoaded, loading, failed, lists, form, posts>>

SignInFails(i) ==
  /\ signins' = signins \ {i}
  /\ UNCHANGED <<owner, settled, user, page, shown, hasLoaded, loading, failed, lists, form, posts>>

Orphaned(seen) == {[p EXCEPT !.seen = IF @ = "neither" THEN @ ELSE seen] : p \in posts}

\* Signing out unmounts the workspace and shows the sign-in page.
ForgetListsNot == {r \in lists : r.kind # "history"}
ForgetLists == {}
SignOut ==
  /\ user # None
  /\ user' = None
  /\ page' = "login"
  /\ shown' = Nothing
  /\ hasLoaded' = FALSE /\ loading' = TRUE /\ failed' = FALSE
  /\ lists' = ForgetLists
  /\ form' = None
  /\ posts' = Orphaned("neither")
  /\ UNCHANGED <<owner, settled, signins>>

\* The effect of a new path or a new token: the lists are loaded again, the form
\* is left or mounted anew, and a form asks for its history.
ShowPage(u, p, kept, view) ==
  /\ page' = p
  /\ shown' = view
  /\ loading' = TRUE
  /\ Cardinality(Loads) < MaxLoads
  /\ lists' = {r \in lists : r.kind # "history"} \cup {Asked("load", u)}
               \cup (IF FormMounted(p, hasLoaded) THEN {Asked("history", u)} ELSE {})
  /\ form' = IF FormMounted(p, hasLoaded) THEN FreshForm ELSE None
  /\ posts' = {[q EXCEPT !.seen = IF @ = "form" THEN "workspace" ELSE @] : q \in kept}

\* An answered sign-in mounts the workspace on the page it was sent from.  When
\* an earlier one is signed in already, the workspace stays mounted as it is.
SignIn(i) ==
  /\ signins' = signins \ {i}
  /\ user' = i.by
  /\ LET p == IF i.page = "login" THEN "list" ELSE i.page
     IN IF user = None
        THEN page' = p /\ MountWorkspace(i.by) /\ UNCHANGED posts
        ELSE ShowPage(i.by, p, posts, shown)
  /\ UNCHANGED <<owner, settled>>
  /\ user # None => UNCHANGED <<hasLoaded, failed>>

Navigate(p) ==
  /\ user # None
  /\ p # page
  /\ ShowPage(user, p, posts, shown)
  /\ UNCHANGED <<owner, settled, signins, user, hasLoaded, failed>>

\* The menu, the list of assignments, the list of submissions, and the browser's
\* own buttons, which lead also to a submission no list shows.
ShowMenuPage == Navigate("list")
OpenAssignment == hasLoaded /\ Navigate("submit")
OpenSubmission(s) == shown[s] # "absent" /\ Navigate(s)
GoBack(p) == p # "login" /\ Navigate(p)

-----------------------------------------------------------------------------
\* The server reads the list of the user who sent the request.
ReadList(r) ==
  /\ r.answer = None
  /\ lists' = (lists \ {r}) \cup {[r EXCEPT !.answer = ListOf(r.by)]}
  /\ UNCHANGED <<owner, settled, signins, user, page, shown, hasLoaded, loading, failed, form, posts>>

\* The three lists replace what is there; the form may now be mounted.
LoadAnswered(r) ==
  /\ r.kind = "load"
  /\ r.answer # None
  /\ shown' = r.answer
  /\ hasLoaded' = TRUE
  /\ failed' = FALSE
  /\ loading' = FALSE
  /\ IF FormMounted(page, TRUE) /\ form = None
     THEN form' = FreshForm /\ lists' = (lists \ {r}) \cup {Asked("history", user)}
     ELSE UNCHANGED form /\ lists' = lists \ {r}
  /\ UNCHANGED <<owner, settled, signins, user, page, posts>>

\* One of the three requests fails, and with it the load.
EndLoadNot == UNCHANGED loading
EndLoad == loading' = FALSE
LoadFails(r) ==
  /\ r.kind = "load"
  /\ failed' = TRUE
  /\ EndLoad
  /\ lists' = lists \ {r}
  /\ UNCHANGED <<owner, settled, signins, user, page, shown, hasLoaded, form, posts>>

\* The banner's button, disabled while a load is marked.
Reload ==
  /\ user # None
  /\ failed
  /\ ~loading
  /\ Cardinality(Loads) < MaxLoads
  /\ loading' = TRUE
  /\ lists' = lists \cup {Asked("load", user)}
  /\ UNCHANGED <<owner, settled, signins, user, page, shown, hasLoaded, failed, form, posts>>

\* The page of a submission polls while the status it knows may still change.
PollingUntilError(s) == page = s /\ shown[s] = "pending" /\ ~failed
Polling(s) == page = s /\ shown[s] = "pending"
Poll(s) ==
  /\ user # None
  /\ Polling(s)
  /\ Cardinality(Polls) < MaxPolls
  /\ lists' = lists \cup {Asked("poll", user)}
  /\ UNCHANGED <<owner, settled, signins, user, page, shown, hasLoaded, loading, failed, form, posts>>

PollAnswered(r) ==
  /\ r.kind = "poll"
  /\ r.answer # None
  /\ shown' = r.answer
  /\ lists' = lists \ {r}
  /\ UNCHANGED <<owner, settled, signins, user, page, hasLoaded, loading, failed, form, posts>>

\* The form counts its attempts by the history it asked for when it was mounted.
HistoryAnswered(r) ==
  /\ r.kind = "history"
  /\ r.answer # None
  /\ form' = [form EXCEPT !.used = Cardinality({s \in Subs : r.answer[s] # "absent"})]
  /\ lists' = lists \ {r}
  /\ UNCHANGED <<owner, settled, signins, user, page, shown, hasLoaded, loading, failed, posts>>

\* A failed poll or history request is ignored.
ListFails(r) ==
  /\ r.kind \in {"poll", "history"}
  /\ lists' = lists \ {r}
  /\ UNCHANGED <<owner, settled, signins, user, page, shown, hasLoaded, loading, failed, form, posts>>

-----------------------------------------------------------------------------
\* The button is disabled at the limit and while a submission is under way.
CanSubmit == ~form.busy /\ form.used < MaxSubmissions

SendCode ==
  /\ form # None
  /\ CanSubmit
  /\ Cardinality(posts) < MaxPosts
  /\ form' = [form EXCEPT !.busy = TRUE]
  /\ posts' = posts \cup {[by |-> user, seen |-> "form", answer |-> None]}
  /\ UNCHANGED <<owner, settled, signins, user, page, shown, hasLoaded, loading, failed, lists>>

\* The server stores the submission, or refuses it: past the limit (as it
\* counts), after the deadline, on an error.
StoreSubmission(p) ==
  /\ p.answer = None
  /\ Cardinality(Owned(p.by)) < MaxSubmissions
  /\ \E s \in Subs :
       /\ owner[s] = None
       /\ owner' = [owner EXCEPT ![s] = p.by]
       /\ posts' = (posts \ {p}) \cup {[p EXCEPT !.answer = s]}
  /\ UNCHANGED <<settled, signins, user, page, shown, hasLoaded, loading, failed, lists, form>>

RefuseSubmission(p) ==
  /\ p.answer = None
  /\ posts' = (posts \ {p}) \cup {[p EXCEPT !.answer = "refused"]}
  /\ UNCHANGED <<owner, settled, signins, user, page, shown, hasLoaded, loading, failed, lists, form>>

\* upsertSubmission of the workspace that sent it.
Upserted(p) ==
  IF p.seen = "neither" THEN shown ELSE [shown EXCEPT ![p.answer] = "pending"]

\* The answer is put in front of the list and its page shown, also when the
\* user has left the form, or signed out, in the meantime.
PostAnswered(p) ==
  /\ p.answer \in Subs
  /\ IF user = None
     THEN /\ page' = p.answer
          /\ posts' = posts \ {p}
          /\ UNCHANGED <<shown, loading, lists, form>>
     ELSE IF page = p.answer
     THEN /\ shown' = Upserted(p)
          /\ posts' = posts \ {p}
          /\ UNCHANGED <<page, loading, lists, form>>
     ELSE ShowPage(user, p.answer, posts \ {p}, Upserted(p))
  /\ UNCHANGED <<owner, settled, signins, user, hasLoaded, failed>>

\* A refusal, or an answer that is lost, frees the button of the form that sent it.
PostFails(p) ==
  /\ posts' = posts \ {p}
  /\ form' = IF p.seen = "form" THEN [form EXCEPT !.busy = FALSE] ELSE form
  /\ UNCHANGED <<owner, settled, signins, user, page, shown, hasLoaded, loading, failed, lists>>

\* The evaluation of a submission ends (EvaluationQueue).
Settle(s) ==
  /\ owner[s] # None
  /\ s \notin settled
  /\ settled' = settled \cup {s}
  /\ UNCHANGED <<owner, signins, user, page, shown, hasLoaded, loading, failed, lists, form, posts>>

-----------------------------------------------------------------------------
AnswerList ==
  \E r \in lists : ReadList(r) \/ LoadAnswered(r) \/ PollAnswered(r) \/ HistoryAnswered(r)
FailList == \E r \in lists : LoadFails(r) \/ ListFails(r)
AnswerPost ==
  \E p \in posts : StoreSubmission(p) \/ RefuseSubmission(p) \/ PostAnswered(p) \/ PostFails(p)

WorkspaceNext ==
  \/ \E u \in Users : SendSignIn(u)
  \/ \E i \in signins : SignIn(i) \/ SignInFails(i)
  \/ SignOut
  \/ ShowMenuPage
  \/ OpenAssignment
  \/ \E s \in Subs : OpenSubmission(s)
  \/ \E p \in Pages : GoBack(p)
  \/ AnswerList
  \/ FailList
  \/ Reload
  \/ \E s \in Subs : Poll(s)
  \/ SendCode
  \/ AnswerPost
  \/ \E s \in Subs : Settle(s)

\* The timer ticks and evaluations end; polls do not fail for ever.
WorkspaceFairness ==
  /\ \A s \in Subs : WF_workspaceVars(Poll(s)) /\ WF_workspaceVars(Settle(s))
  /\ SF_workspaceVars(\E r \in Polls : ReadList(r))
  /\ SF_workspaceVars(\E r \in Polls : PollAnswered(r))

WorkspaceSpec == WorkspaceInit /\ [][WorkspaceNext]_workspaceVars /\ WorkspaceFairness

-----------------------------------------------------------------------------
\* A page shows only what belongs to who is signed in, whatever answer of an
\* earlier session is still to come.
SessionDataOnly == \A s \in Subs : shown[s] # "absent" => owner[s] = user /\ user # None

\* A marked load is under way, so that the skeleton and the disabled button
\* end; and the form is busy exactly while its own submission is under way.
WorkspaceBusy ==
  /\ (user # None /\ loading) => \E r \in lists : r.kind = "load"
  /\ form = None => \A p \in posts : p.seen # "form"
  /\ form # None => (form.busy <=> \E p \in posts : p.seen = "form")

\* The page of a pending submission comes to show how it ended ("页面会自动更新"),
\* unless the user leaves it, once no list older than the submission can still
\* be answered.
Watched(s) ==
  /\ user # None
  /\ page = s /\ shown[s] = "pending"
  /\ \A r \in lists : r.answer # None => r.answer[s] # "absent"
PendingPageSettles ==
  \A s \in Subs : Watched(s) ~> (page # s \/ user = None \/ shown[s] = "final")
=============================================================================
