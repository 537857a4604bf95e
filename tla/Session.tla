------------------------------ MODULE Session ------------------------------
(***************************************************************************)
(* Signing in and finding one's way: App of web/src/App.tsx with           *)
(* navigation.ts, auth/storage.ts and the two forms of Authentication.tsx, *)
(* in one browser tab, on top of the browser's history.                    *)
(***************************************************************************)
EXTENDS Naturals, Sequences, FiniteSets

CONSTANTS
  Accounts,    \* who can sign in or register
  MaxEntries,  \* bound on the length of the tab's history
  MaxAsked,    \* bound on the sign-ins under way at once
  NoOne

ASSUME SessionAssumption ==
  /\ MaxEntries \in Nat \ {0}
  /\ MaxAsked \in Nat
  /\ NoOne \notin Accounts \cup {"home", "deep"}

VARIABLES
  entries,  \* the tab's history: a path, and the path it was pushed from
  here,     \* where in the history the tab is
  auth,     \* App's state a
  stored,   \* what localStorage keeps of it
  signForm, \* the sign-in or registration form: "idle", "busy" or "error"
  asked     \* the sign-ins and registrations under way

sessionVars == <<entries, here, auth, stored, signForm, asked>>

\* Paths as far as they are told apart: "home" and "deep" begin with one of the
\* prefixes of the workspace, "other" is any address besides.
InWorkspace == {"home", "deep"}
Paths == InWorkspace \cup {"root", "login", "register", "other"}
Entry == [path : Paths, from : Paths \cup {NoOne}]
Path == entries[here].path

\* "live" is whether the form that sent it is still mounted.
Asking == [by : Accounts, path : Paths, live : BOOLEAN]

SessionTypeOK ==
  /\ entries \in Seq(Entry)
  /\ Len(entries) \in 1..MaxEntries
  /\ here \in 1..Len(entries)
  /\ auth \in Accounts \cup {NoOne}
  /\ stored = auth
  /\ signForm \in {"idle", "busy", "error"}
  /\ asked \subseteq Asking

-----------------------------------------------------------------------------
\* The effect that follows every change of path or account: the root has no
\* page, nor have the sign-in pages for who is signed in.
Redirected(p, a) ==
  IF p = "root" \/ (a # NoOne /\ p \in {"login", "register"})
  THEN IF a = NoOne THEN "login" ELSE "home"
  ELSE p

\* replaceState keeps the state of the entry, and with it where it came from.
ReplaceFrom(e, p) == [path |-> p, from |-> e.path]
Replace(e, p) == [e EXCEPT !.path = p]

\* The tab comes to position n of the history es, as account a.
Arrive(es, n, a) ==
  /\ entries' = [es EXCEPT ![n] = Replace(@, Redirected(@.path, a))]
  /\ here' = n

\* The form shown; signing out or switching between the forms mounts it anew.
FormOf(p, a) ==
  IF a # NoOne THEN "none" ELSE IF p = "register" THEN "register" ELSE "login"
KeepForm ==
  IF FormOf(entries'[here'].path, auth') = FormOf(Path, auth)
  THEN UNCHANGED signForm
  ELSE signForm' = "idle"
StillLive(rs) ==
  {[r EXCEPT !.live = @ /\ FormOf(entries'[here'].path, auth') = FormOf(Path, auth)] : r \in rs}

PushPath(p) ==
  /\ here < MaxEntries
  /\ Arrive(Append(SubSeq(entries, 1, here), [path |-> p, from |-> Path]), here + 1, auth)

PushNavigate(p) == Path # p /\ PushPath(p) /\ UNCHANGED <<auth, stored>>

SessionInit ==
  /\ entries = <<[path |-> "login", from |-> NoOne]>>
  /\ here = 1
  /\ auth = NoOne
  /\ stored = NoOne
  /\ signForm = "idle"
  /\ asked = {}

-----------------------------------------------------------------------------
\* Links of the workspace, and the late answer to a submission (Workspace).
Go(p) ==
  /\ p \in InWorkspace
  /\ PushNavigate(p)
  /\ KeepForm
  /\ asked' = StillLive(asked)

\* The brand link, and the links between the two forms, disabled while busy.
OpenForm(p) ==
  /\ auth = NoOne
  /\ p = "login" \/ (p = "register" /\ signForm # "busy")
  /\ PushNavigate(p)
  /\ KeepForm
  /\ asked' = StillLive(asked)

\* The browser's own buttons: popstate.
Travel(n) ==
  /\ n \in 1..Len(entries)
  /\ n # here
  /\ Arrive(entries, n, auth)
  /\ UNCHANGED <<auth, stored>>
  /\ KeepForm
  /\ asked' = StillLive(asked)

\* A page's own button goes back if it was reached from the workspace, and else
\* to the list above it.
CameFromWorkspace == entries[here].from \in InWorkspace
BackTo ==
  /\ auth # NoOne
  /\ Path = "deep"
  /\ IF CameFromWorkspace
     THEN here > 1 /\ Arrive(entries, here - 1, auth)
     ELSE Arrive([entries EXCEPT ![here] = Replace(@, "home")], here, auth)
  /\ UNCHANGED <<auth, stored, signForm, asked>>

\* The application is loaded anew: loadAuth reads who is signed in, and no request
\* survives.  It is the page reloaded, or an address typed, also as the tab's first.
LoadApp(es, n) ==
  /\ auth' = stored
  /\ Arrive(es, n, stored)
  /\ signForm' = "idle"
  /\ asked' = {}
  /\ UNCHANGED stored

ReloadPage == LoadApp(entries, here)

TypeAddress(p) ==
  \/ LoadApp(<<[path |-> p, from |-> NoOne]>>, 1)
  \/ /\ here < MaxEntries
     /\ LoadApp(Append(SubSeq(entries, 1, here), [path |-> p, from |-> NoOne]), here + 1)

Logout ==
  /\ auth # NoOne
  /\ stored' = NoOne
  /\ auth' = NoOne
  /\ Arrive([entries EXCEPT ![here] = Replace(@, "login")], here, NoOne)
  /\ signForm' = "idle"
  /\ UNCHANGED asked

-----------------------------------------------------------------------------
\* The form refuses what is blank, of the wrong length or not confirmed.
RefuseForm ==
  /\ auth = NoOne
  /\ signForm # "busy"
  /\ signForm' = "error"
  /\ UNCHANGED <<entries, here, auth, stored, asked>>

SendForm(u) ==
  /\ auth = NoOne
  /\ signForm # "busy"
  /\ Cardinality(asked) < MaxAsked
  /\ signForm' = "busy"
  /\ asked' = asked \cup {[by |-> u, path |-> Path, live |-> TRUE]}
  /\ UNCHANGED <<entries, here, auth, stored>>

\* done: the account is stored and replaces the form by the page asked for.
\* It is called also when the form that asked is gone.
Done(r) ==
  /\ stored' = r.by
  /\ auth' = r.by
  /\ LET p == IF r.path \in InWorkspace THEN r.path ELSE "home"
     IN Arrive([entries EXCEPT ![here] = Replace(@, p)], here, r.by)
  /\ signForm' = "idle"
  /\ asked' = StillLive(asked \ {r})

\* An error is shown in the form that asked, if it is still there.
FormFails(r) ==
  /\ signForm' = IF r.live THEN "error" ELSE signForm
  /\ asked' = asked \ {r}
  /\ UNCHANGED <<entries, here, auth, stored>>

SessionNext ==
  \/ \E p \in Paths : Go(p) \/ OpenForm(p) \/ TypeAddress(p)
  \/ \E n \in 1..MaxEntries : Travel(n)
  \/ BackTo
  \/ ReloadPage
  \/ Logout
  \/ RefuseForm
  \/ \E u \in Accounts : SendForm(u)
  \/ \E r \in asked : Done(r) \/ FormFails(r)

SessionSpec == SessionInit /\ [][SessionNext]_sessionVars

-----------------------------------------------------------------------------
\* A page's back button never leaves the application: what the entry says of
\* where it was pushed from is true of the history, also after sign-outs and
\* redirects replaced entries and the user went back and forth.
BackStaysInApp == CameFromWorkspace => here > 1

\* The form is busy exactly while its own request is under way.
SessionBusy == (auth = NoOne /\ signForm = "busy") <=> \E r \in asked : r.live
=============================================================================
