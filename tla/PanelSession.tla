---------------------------- MODULE PanelSession ----------------------------
(***************************************************************************)
(* One page load of the web panel: the session store (store.ts), the guard *)
(* of the router (router.ts), the top bar of App.vue and the form of       *)
(* LoginView.vue, against the session cookie that all tabs share.          *)
(*                                                                         *)
(* Every request is served at one step and its answer is used at a later   *)
(* one.  It may fail without effect, or take effect and have its answer    *)
(* lost.  What runs between two awaits is one step.                        *)
(***************************************************************************)
EXTENDS Naturals

CONSTANTS Accounts,     \* the accounts of the server
          Admins,       \* those whose role is admin
          NoOne,        \* null: nobody signed in, no valid cookie
          Ops,          \* calls of the store that may be under way at once
          First,        \* the one that bootstraps the page
          MaxMeddling   \* bound: changes of the cookie from elsewhere

ASSUME SessionAssumption ==
  /\ Admins \subseteq Accounts /\ NoOne \notin Accounts
  /\ First \in Ops
  /\ MaxMeddling \in Nat

VARIABLES cookie,       \* whose session the browser's cookie names
          installed,    \* whether the server has an administrator
          store,        \* user, setupRequired and loaded of the session store
          page,         \* the current route, the redirect in its query
          op,           \* the calls under way
          meddling,     \* changes from elsewhere so far
          muddled       \* whether calls overlapped or anybody else interfered

sessionVars == <<cookie, installed, store, page, op, meddling, muddled>>

AdminOnly == {"users", "overview", "settings"}

Protected == AdminOnly \cup {"files", "user-files", "account"}

Routes == Protected \cup {"login"}

Somebody == Accounts \cup {NoOne}

Off == [kind |-> "none", at |-> "off", as |-> NoOne, to |-> "files", got |-> NoOne,
        required |-> FALSE]

Op == [kind : {"none", "boot", "signin", "signup", "signout"},
       at : {"off", "asked", "accepted", "refused", "me", "got", "settings", "status", "told"},
       as : Somebody, to : Routes, got : Somebody, required : BOOLEAN]

Busy == {o \in Ops : op[o].at # "off"}

\* The page is opened at any address, with or without a valid cookie.  Its first
\* navigation waits for bootstrap in the guard, and main.ts mounts the application
\* after that navigation.
SessionInit ==
  /\ installed \in BOOLEAN
  /\ cookie \in IF installed THEN Somebody ELSE {NoOne}
  /\ store = [user |-> NoOne, setupRequired |-> FALSE, loaded |-> FALSE]
  /\ page = [route |-> "none", redirect |-> "files"]
  /\ \E to \in Routes :
       op = [o \in Ops |-> IF o = First
                           THEN [Off EXCEPT !.kind = "boot", !.at = "me", !.to = to]
                           ELSE Off]
  /\ meddling = 0
  /\ muddled = FALSE

-----------------------------------------------------------------------------
(* The router.                                                             *)

At(r) == [route |-> r, redirect |-> "files"]

\* Seeded fault: the guard does not look at the role.
FaultyGuard(user, to) ==
  IF user = NoOne /\ to # "login" THEN [route |-> "login", redirect |-> to]
  ELSE IF user # NoOne /\ to = "login" THEN At("files")
  ELSE At(to)

\* Where the guard lets a navigation to a route arrive.
Guard(user, to) ==
  IF user = NoOne /\ to # "login" THEN [route |-> "login", redirect |-> to]
  ELSE IF \/ user # NoOne /\ to = "login"
          \/ user # NoOne /\ to \in AdminOnly /\ user \notin Admins
       THEN At("files")
  ELSE At(to)

\* A button of the top bar, a link, the back button.
SessionNavigate(to) ==
  /\ page.route # "none"
  /\ page' = Guard(store.user, to)
  /\ UNCHANGED <<cookie, installed, store, op, meddling, muddled>>

\* App shows a spinner until the store is loaded.
Shown == IF store.loaded THEN page.route ELSE "none"

-----------------------------------------------------------------------------
(* The calls.                                                              *)

Call(o, kind, as) ==
  /\ op[o].at = "off"
  /\ page.route # "none"
  /\ op' = [op EXCEPT ![o] = [Off EXCEPT !.kind = kind, !.at = "asked", !.as = as]]
  /\ muddled' = (muddled \/ Busy # {})
  /\ UNCHANGED <<cookie, installed, store, page, meddling>>

\* submit of LoginView: which call it makes depends on setupRequired.  The form
\* can be submitted again before the answer is there.
SubmitSignIn(o, a) ==
  page.route = "login" /\ ~store.setupRequired /\ Call(o, "signin", a)

SubmitSignUp(o, a) ==
  page.route = "login" /\ store.setupRequired /\ a \in Admins /\ Call(o, "signup", a)

\* The button is there as long as the store has a user.
SignOut(o) == store.user # NoOne /\ Call(o, "signout", NoOne)

\* The server serves login, setup or logout.  The answer may arrive or be lost
\* (ok), the cookie being set or not by what arrives of it.
Serve(o, ok) ==
  LET c == op[o]
  IN  /\ c.at = "asked"
      /\ \/ c.kind = "signin" /\ installed /\ cookie' = c.as /\ installed' = installed
         \/ /\ c.kind = "signup" /\ ~installed /\ installed' = TRUE
            /\ cookie' \in IF ok THEN {c.as} ELSE {c.as, cookie}
         \/ c.kind = "signout" /\ cookie' = NoOne /\ installed' = installed
      /\ op' = [op EXCEPT ![o].at = IF ok THEN "accepted" ELSE "refused"]
      /\ UNCHANGED <<store, page, meddling, muddled>>

\* It is refused (a wrong password, too many attempts, setup complete), or does
\* not reach the server.
Fails(o) ==
  /\ op[o].at = "asked"
  /\ op' = [op EXCEPT ![o].at = "refused"]
  /\ UNCHANGED <<cookie, installed, store, page, meddling, muddled>>

\* signIn and signUp go on with bootstrap when accepted.
SignedIn(o) ==
  /\ op[o].kind \in {"signin", "signup"} /\ op[o].at = "accepted"
  /\ op' = [op EXCEPT ![o].at = "me"]
  /\ UNCHANGED <<cookie, installed, store, page, meddling, muddled>>

\* Otherwise they throw, and the form shows the error.
NotSignedIn(o) ==
  /\ op[o].kind \in {"signin", "signup"} /\ op[o].at = "refused"
  /\ op' = [op EXCEPT ![o] = Off]
  /\ UNCHANGED <<cookie, installed, store, page, meddling, muddled>>

\* Seeded fault: an error ends the sign-out.
FaultySignedOut(o) ==
  /\ op[o].kind = "signout" /\ op[o].at \in {"accepted", "refused"}
  /\ IF op[o].at = "accepted"
     THEN /\ store' = [store EXCEPT !.user = NoOne, !.setupRequired = FALSE]
          /\ op' = [op EXCEPT ![o].at = "me"]
     ELSE /\ op' = [op EXCEPT ![o] = Off]
          /\ UNCHANGED store
  /\ UNCHANGED <<cookie, installed, page, meddling, muddled>>

\* signOut ignores the error of logout, clears the user, and calls bootstrap.
SignedOut(o) ==
  /\ op[o].kind = "signout" /\ op[o].at \in {"accepted", "refused"}
  /\ store' = [store EXCEPT !.user = NoOne, !.setupRequired = FALSE]
  /\ op' = [op EXCEPT ![o].at = "me"]
  /\ UNCHANGED <<cookie, installed, page, meddling, muddled>>

-----------------------------------------------------------------------------
(* bootstrap.                                                              *)

\* me is answered with the user of the cookie's session, or fails.
ServeMe(o, got) ==
  /\ op[o].at = "me"
  /\ got \in {cookie, NoOne}
  /\ op' = [op EXCEPT ![o].at = "got", ![o].got = got]
  /\ UNCHANGED <<cookie, installed, store, page, meddling, muddled>>

\* The answer is used: the settings are asked for next, or the setup status.
UseMe(o) ==
  LET got == op[o].got
  IN  /\ op[o].at = "got"
      /\ store' = [store EXCEPT !.user = got,
                                !.setupRequired = @ /\ got = NoOne]
      /\ op' = [op EXCEPT ![o].at = IF got = NoOne THEN "status" ELSE "settings"]
      /\ UNCHANGED <<cookie, installed, page, meddling, muddled>>

\* Where the caller of bootstrap goes when it returns: the guard lets the first
\* navigation on, LoginView follows the redirect in the query, App.vue goes to login.
Target(o) ==
  CASE op[o].kind = "boot"    -> op[o].to
    [] op[o].kind = "signout" -> "login"
    [] OTHER                  -> page.redirect

\* Seeded fault: bootstrap does not say that it is over.
FaultyReturn(o, required) ==
  /\ store' = [store EXCEPT !.setupRequired = required]
  /\ page' = Guard(store.user, Target(o))
  /\ op' = [op EXCEPT ![o] = Off]
  /\ UNCHANGED <<cookie, installed, meddling, muddled>>

Return(o, required) ==
  /\ store' = [store EXCEPT !.loaded = TRUE, !.setupRequired = required]
  /\ page' = Guard(store.user, Target(o))
  /\ op' = [op EXCEPT ![o] = Off]
  /\ UNCHANGED <<cookie, installed, meddling, muddled>>

\* An error of loadSettings is ignored.
SettingsAnswered(o) == op[o].at = "settings" /\ Return(o, store.setupRequired)

\* Seeded fault: a failed setup status is not caught where the page is opened.
FaultyServeStatus(o, required) ==
  /\ op[o].at = "status"
  /\ \/ /\ required \in {~installed, FALSE} /\ op[o].kind # "boot"
        /\ op' = [op EXCEPT ![o].at = "told", ![o].required = required]
     \/ op[o].kind = "boot" /\ op' = [op EXCEPT ![o] = Off]
  /\ UNCHANGED <<cookie, installed, store, page, meddling, muddled>>

\* A failed setup status counts as not required.
ServeStatus(o, required) ==
  /\ op[o].at = "status"
  /\ required \in {~installed, FALSE}
  /\ op' = [op EXCEPT ![o].at = "told", ![o].required = required]
  /\ UNCHANGED <<cookie, installed, store, page, meddling, muddled>>

UseStatus(o) == op[o].at = "told" /\ Return(o, op[o].required)

-----------------------------------------------------------------------------
(* Elsewhere.                                                              *)

\* Another tab signs in or out, the session expires or is revoked, or somebody
\* else completes the setup.
Meddle(c) ==
  /\ meddling < MaxMeddling
  /\ meddling' = meddling + 1
  /\ cookie' = c
  /\ installed' = TRUE
  /\ muddled' = TRUE
  /\ UNCHANGED <<store, page, op>>

-----------------------------------------------------------------------------
SessionAnswered(o) ==
  \/ \E ok \in BOOLEAN : Serve(o, ok)
  \/ Fails(o)
  \/ SignedIn(o) \/ NotSignedIn(o) \/ SignedOut(o)
  \/ \E got \in Somebody : ServeMe(o, got)
  \/ UseMe(o)
  \/ SettingsAnswered(o)
  \/ \E required \in BOOLEAN : ServeStatus(o, required)
  \/ UseStatus(o)

SessionUser ==
  \/ \E to \in Routes : SessionNavigate(to)
  \/ \E o \in Ops : \/ SignOut(o)
                    \/ \E a \in Accounts : SubmitSignIn(o, a) \/ SubmitSignUp(o, a)

SessionNext ==
  \/ \E o \in Ops : SessionAnswered(o)
  \/ SessionUser
  \/ \E c \in Somebody : Meddle(c)

\* A fetch is answered or fails in the end.  Nothing else has to happen.
Fairness == \A o \in Ops : WF_sessionVars(SessionAnswered(o))

SessionSpec == SessionInit /\ [][SessionNext]_sessionVars /\ Fairness

-----------------------------------------------------------------------------
(* Properties.                                                             *)

\* The cookie, the store, the route and the calls are well formed; a page is shown
\* after the store is loaded only.
SessionTypeOK ==
  /\ cookie \in Somebody /\ installed \in BOOLEAN
  /\ store \in [user : Somebody, setupRequired : BOOLEAN, loaded : BOOLEAN]
  /\ page \in [route : Routes \cup {"none"}, redirect : Routes]
  /\ page.route # "none" => store.loaded
  /\ op \in [Ops -> Op]
  /\ meddling \in 0 .. MaxMeddling /\ muddled \in BOOLEAN

\* The login page is for nobody and every other page for somebody, the pages of
\* the administration for administrators.
Fits(route, user) ==
  /\ route = "login" <=> user = NoOne
  /\ route \in AdminOnly => user \in Admins

\* Whenever no call is under way, the page fits the user of the store.  The guard
\* runs on navigations only, so this needs every change of the user to be followed
\* by one, in whatever order overlapping sign-ins, sign-outs and late answers of me
\* change it.
PageFitsUser == Shown # "none" /\ Busy = {} => Fits(Shown, store.user)

\* Unless calls overlapped or somebody else changed the cookie, the panel at rest
\* shows as signed in only whom its requests are made for, whatever was lost: a
\* logout that reached the server is not undone by the error its lost answer
\* causes.
ShownIsSignedIn ==
  Busy = {} /\ ~muddled => store.user \in {NoOne, cookie}

\* The page opens and the spinner goes away, whether requests fail or not.
Opens == <>(Shown # "none")

\* What signOut says of itself: the cookie is cleared either way.  So nobody is
\* signed in when the only call there ever was is a sign-out.
SignedOutEitherWay ==
  [][\A o \in Ops : op[o].kind = "signout" /\ op'[o].at = "off" /\ op[o].at # "off" /\ ~muddled
       => page'.route = "login"]_sessionVars
=============================================================================
