---------------------------- MODULE PanelProofs ----------------------------
(***************************************************************************)
(* The safety properties of the panel.  PanelSession: which page is shown  *)
(* to whom, for every set of accounts and every number of overlapping      *)
(* calls.  PanelUploads: what the file page shows and what its uploads     *)
(* replace, for any directories, names, changes and uploads that overlap,  *)
(* and for any number of lists under way.                                  *)
(***************************************************************************)
EXTENDS PanelUploads, PanelSession, SequenceTheorems, WellFoundedInduction, TLAPS

\* A call whose bootstrap is under way, which ends in a navigation.
Resolving == {"me", "got", "settings", "status", "told"}

\* The page fits the user already when no bootstrap is under way: a call that has
\* not got that far has not changed the user.
PageSettled ==
  page.route # "none" /\ (\A o \in Ops : op[o].at \notin Resolving)
    => Fits(page.route, store.user)

FitInv == SessionTypeOK /\ PageSettled

Early == {"asked", "accepted", "refused"}

\* One call at a time.
Alone == \A o, p \in Busy : o = p

\* A sign-in begins with nobody signed in, and only calls of the user begin early.
EarlyCalls ==
  \A o \in Ops : op[o].at \in Early =>
    /\ op[o].kind \in {"signin", "signup", "signout"}
    /\ op[o].kind # "signout" => store.user = NoOne

GotCurrent == \A o \in Ops : op[o].at = "got" => op[o].got \in {NoOne, cookie}

LoggingOut == \E o \in Ops : op[o].kind = "signout" /\ op[o].at \in {"accepted", "refused"}

\* The store agrees with the cookie, but between the answer of a logout and its use.
CookieInv ==
  ~muddled => /\ Alone /\ EarlyCalls /\ GotCurrent
              /\ store.user \in {NoOne, cookie} \/ LoggingOut

-----------------------------------------------------------------------------
\* Wherever the guard lets a navigation arrive fits the user it looked at.
LEMMA GuardFits ==
  ASSUME NEW user \in Somebody, NEW to \in Routes
  PROVE  /\ Guard(user, to) \in [route : Routes, redirect : Routes]
         /\ Fits(Guard(user, to).route, user)
<1>1. Routes = {"users", "overview", "settings", "files", "user-files", "account", "login"}
  BY DEF Routes, Protected, AdminOnly
<1>2. CASE user = NoOne /\ to # "login"
  BY <1>1, <1>2 DEF Guard, Fits, AdminOnly
<1>3. CASE user # NoOne /\ (to = "login" \/ (to \in AdminOnly /\ user \notin Admins))
  BY <1>1, <1>3 DEF Guard, Fits, AdminOnly, At
<1>4. CASE /\ ~(user = NoOne /\ to # "login")
           /\ ~(user # NoOne /\ (to = "login" \/ (to \in AdminOnly /\ user \notin Admins)))
  BY <1>1, <1>4 DEF Guard, Fits, AdminOnly, At
<1> QED BY <1>2, <1>3, <1>4

\* A step changes at most the call it is about, and that stays well formed.
LEMMA OpTyped ==
  ASSUME op \in [Ops -> Op], NEW o \in Ops, NEW r \in Op, op' = [op EXCEPT ![o] = r]
  PROVE  /\ op' \in [Ops -> Op]
         /\ op'[o] = r
         /\ \A p \in Ops \ {o} : op'[p] = op[p]
OBVIOUS

\* A call that is over is well formed.
LEMMA OffTyped == Off \in Op
BY DEF Off, Op, Somebody, Routes, Protected

-----------------------------------------------------------------------------
(* Types, and the page fits the user.                                      *)

\* At the start no page is shown and the bootstrap is under way.
LEMMA FitInit == SessionInit => FitInv
<1> SUFFICES ASSUME SessionInit PROVE FitInv
  OBVIOUS
<1>1. PICK to \in Routes :
        op = [o \in Ops |-> IF o = First
                            THEN [Off EXCEPT !.kind = "boot", !.at = "me", !.to = to]
                            ELSE Off]
  BY DEF SessionInit
<1>2. [Off EXCEPT !.kind = "boot", !.at = "me", !.to = to] \in Op
  BY OffTyped DEF Op, Off
<1>3. op \in [Ops -> Op]
  BY <1>1, <1>2, OffTyped
<1>4. cookie \in Somebody /\ installed \in BOOLEAN
  BY DEF SessionInit, Somebody
<1>5. store \in [user : Somebody, setupRequired : BOOLEAN, loaded : BOOLEAN]
  BY DEF SessionInit, Somebody
<1>6. page \in [route : Routes \cup {"none"}, redirect : Routes] /\ page.route = "none"
  BY DEF SessionInit, Routes, Protected
<1>7. meddling \in 0 .. MaxMeddling
  BY SessionAssumption DEF SessionInit
<1>8. muddled \in BOOLEAN
  BY DEF SessionInit
<1> QED BY <1>3, <1>4, <1>5, <1>6, <1>7, <1>8 DEF FitInv, SessionTypeOK, PageSettled

\* A navigation ends where the guard lets it.
LEMMA FitNavigate ==
  ASSUME FitInv, NEW to \in Routes, SessionNavigate(to)
  PROVE  FitInv'
<1>1. /\ page' \in [route : Routes, redirect : Routes]
      /\ Fits(page'.route, store.user)
  BY GuardFits DEF SessionNavigate, FitInv, SessionTypeOK
<1> QED BY <1>1 DEF SessionNavigate, FitInv, SessionTypeOK, PageSettled

\* A call that begins leaves user and page alone.
LEMMA FitCall ==
  ASSUME FitInv, NEW o \in Ops, NEW kind \in {"signin", "signup", "signout"},
         NEW as \in Somebody, Call(o, kind, as)
  PROVE  FitInv'
<1> DEFINE r == [Off EXCEPT !.kind = kind, !.at = "asked", !.as = as]
<1>1. r \in Op /\ r.at = "asked"
  BY OffTyped DEF Op, Off
<1>2. /\ op' \in [Ops -> Op]
      /\ op'[o].at = "asked"
      /\ \A p \in Ops \ {o} : op'[p] = op[p]
  BY <1>1, OpTyped DEF Call, FitInv, SessionTypeOK
<1>3. (\A p \in Ops : op'[p].at \notin Resolving) => (\A p \in Ops : op[p].at \notin Resolving)
  BY <1>2 DEF Call, Resolving
<1> QED BY <1>2, <1>3 DEF Call, FitInv, SessionTypeOK, PageSettled

\* What the actions that only move a call on have in common.
LEMMA FitMove ==
  ASSUME FitInv, NEW o \in Ops, NEW r \in Op, op' = [op EXCEPT ![o] = r],
         r.at \in Resolving \/ (op[o].at \notin Resolving /\ store'.user = store.user),
         cookie' \in Somebody, installed' \in BOOLEAN,
         store' \in [user : Somebody, setupRequired : BOOLEAN, loaded : BOOLEAN],
         store'.loaded = store.loaded,
         UNCHANGED <<page, meddling, muddled>>
  PROVE  FitInv'
<1>1. /\ op' \in [Ops -> Op]
      /\ op'[o] = r
      /\ \A p \in Ops \ {o} : op'[p] = op[p]
  BY OpTyped DEF FitInv, SessionTypeOK
<1>2. CASE r.at \in Resolving
  BY <1>1, <1>2 DEF FitInv, SessionTypeOK, PageSettled
<1>3. CASE op[o].at \notin Resolving /\ store'.user = store.user
  <2>1. (\A p \in Ops : op'[p].at \notin Resolving) => (\A p \in Ops : op[p].at \notin Resolving)
    BY <1>1, <1>3
  <2> QED BY <1>1, <1>3, <2>1 DEF FitInv, SessionTypeOK, PageSettled
<1> QED BY <1>2, <1>3

\* Most of them touch nothing else.
LEMMA FitOnlyMove ==
  ASSUME FitInv, NEW o \in Ops, NEW r \in Op, op' = [op EXCEPT ![o] = r],
         r.at \in Resolving \/ op[o].at \notin Resolving,
         UNCHANGED <<cookie, installed, store, page, meddling, muddled>>
  PROVE  FitInv'
<1>1. /\ store' \in [user : Somebody, setupRequired : BOOLEAN, loaded : BOOLEAN]
      /\ store'.loaded = store.loaded /\ store'.user = store.user
      /\ cookie' \in Somebody /\ installed' \in BOOLEAN
  BY DEF FitInv, SessionTypeOK
<1>2. UNCHANGED <<page, meddling, muddled>>
  OBVIOUS
<1> QED BY <1>1, <1>2, FitMove

\* A call whose request is served leaves user and page alone too.
LEMMA FitServe ==
  ASSUME FitInv, NEW o \in Ops, NEW ok \in BOOLEAN, Serve(o, ok)
  PROVE  FitInv'
<1> DEFINE r == [op[o] EXCEPT !.at = IF ok THEN "accepted" ELSE "refused"]
<1>1. /\ op' = [op EXCEPT ![o] = r] /\ r \in Op
      /\ op[o].at = "asked"
      /\ op[o].as \in Somebody
  BY DEF Serve, FitInv, SessionTypeOK, Op
<1>2. cookie' \in Somebody /\ installed' \in BOOLEAN
  BY <1>1 DEF Serve, FitInv, SessionTypeOK, Somebody
<1>3. store' = store /\ UNCHANGED <<page, meddling, muddled>>
  BY DEF Serve
<1> HIDE DEF r
<1> QED BY <1>1, <1>2, <1>3, FitMove DEF Resolving, FitInv, SessionTypeOK

\* And one whose request fails.
LEMMA FitFails ==
  ASSUME FitInv, NEW o \in Ops, Fails(o)
  PROVE  FitInv'
<1> DEFINE r == [op[o] EXCEPT !.at = "refused"]
<1>1. op' = [op EXCEPT ![o] = r] /\ r \in Op /\ op[o].at = "asked"
  BY DEF Fails, FitInv, SessionTypeOK, Op
<1> HIDE DEF r
<1> QED BY <1>1, FitMove DEF Fails, Resolving, FitInv, SessionTypeOK

\* A sign-in that was accepted goes on to its bootstrap.
LEMMA FitSignedIn ==
  ASSUME FitInv, NEW o \in Ops, SignedIn(o)
  PROVE  FitInv'
<1> DEFINE r == [op[o] EXCEPT !.at = "me"]
<1>1. op' = [op EXCEPT ![o] = r] /\ r \in Op /\ r.at = "me"
  BY DEF SignedIn, FitInv, SessionTypeOK, Op
<1> HIDE DEF r
<1>2. UNCHANGED <<cookie, installed, store, page, meddling, muddled>> /\ r.at \in Resolving
  BY <1>1 DEF SignedIn, Resolving
<1> QED BY <1>1, <1>2, FitOnlyMove

\* One that was refused ends with an error in the form.
LEMMA FitNotSignedIn ==
  ASSUME FitInv, NEW o \in Ops, NotSignedIn(o)
  PROVE  FitInv'
<1>1. op' = [op EXCEPT ![o] = Off] /\ op[o].at = "refused"
  BY DEF NotSignedIn
<1>2. /\ UNCHANGED <<cookie, installed, store, page, meddling, muddled>>
      /\ op[o].at \notin Resolving
  BY <1>1 DEF NotSignedIn, Resolving
<1> QED BY <1>1, <1>2, OffTyped, FitOnlyMove

\* A sign-out clears the user, and its bootstrap is under way from then on.
LEMMA FitSignedOut ==
  ASSUME FitInv, NEW o \in Ops, SignedOut(o)
  PROVE  FitInv'
<1> DEFINE r == [op[o] EXCEPT !.at = "me"]
<1>1. op' = [op EXCEPT ![o] = r] /\ r \in Op /\ r.at = "me"
  BY DEF SignedOut, FitInv, SessionTypeOK, Op
<1>2. /\ store' \in [user : Somebody, setupRequired : BOOLEAN, loaded : BOOLEAN]
      /\ store'.loaded = store.loaded
  BY DEF SignedOut, FitInv, SessionTypeOK, Somebody
<1> HIDE DEF r
<1>3. UNCHANGED <<cookie, installed, page, meddling, muddled>> /\ r.at \in Resolving
  BY <1>1 DEF SignedOut, Resolving
<1>4. cookie' \in Somebody /\ installed' \in BOOLEAN
  BY <1>3 DEF FitInv, SessionTypeOK
<1>5. UNCHANGED <<page, meddling, muddled>>
  BY <1>3
<1> QED BY ONLY FitInv, <1>1, <1>2, <1>3, <1>4, <1>5, FitMove

\* While a bootstrap asks for the user, nothing is shown for good.
LEMMA FitServeMe ==
  ASSUME FitInv, NEW o \in Ops, NEW got \in Somebody, ServeMe(o, got)
  PROVE  FitInv'
<1> DEFINE r == [op[o] EXCEPT !.at = "got", !.got = got]
<1>1. op' = [op EXCEPT ![o] = r] /\ r \in Op /\ r.at = "got"
  BY DEF ServeMe, FitInv, SessionTypeOK, Op
<1> HIDE DEF r
<1>2. UNCHANGED <<cookie, installed, store, page, meddling, muddled>> /\ r.at \in Resolving
  BY <1>1 DEF ServeMe, Resolving
<1> QED BY <1>1, <1>2, FitOnlyMove

\* When the user changes, the bootstrap goes on, and will end in a navigation.
LEMMA FitUseMe ==
  ASSUME FitInv, NEW o \in Ops, UseMe(o)
  PROVE  FitInv'
<1> DEFINE r == [op[o] EXCEPT !.at = IF op[o].got = NoOne THEN "status" ELSE "settings"]
<1>1. /\ op' = [op EXCEPT ![o] = r] /\ r \in Op /\ r.at \in {"status", "settings"}
      /\ op[o].got \in Somebody
  BY DEF UseMe, FitInv, SessionTypeOK, Op
<1>2. /\ store' \in [user : Somebody, setupRequired : BOOLEAN, loaded : BOOLEAN]
      /\ store'.loaded = store.loaded
  BY <1>1 DEF UseMe, FitInv, SessionTypeOK
<1> HIDE DEF r
<1>3. UNCHANGED <<cookie, installed, page, meddling, muddled>> /\ r.at \in Resolving
  BY <1>1 DEF UseMe, Resolving
<1>4. cookie' \in Somebody /\ installed' \in BOOLEAN
  BY <1>3 DEF FitInv, SessionTypeOK
<1>5. UNCHANGED <<page, meddling, muddled>>
  BY <1>3
<1> QED BY ONLY FitInv, <1>1, <1>2, <1>3, <1>4, <1>5, FitMove

\* Asking whether setup is due changes no user.
LEMMA FitServeStatus ==
  ASSUME FitInv, NEW o \in Ops, NEW required \in BOOLEAN, ServeStatus(o, required)
  PROVE  FitInv'
<1> DEFINE r == [op[o] EXCEPT !.at = "told", !.required = required]
<1>1. op' = [op EXCEPT ![o] = r] /\ r \in Op /\ r.at = "told"
  BY DEF ServeStatus, FitInv, SessionTypeOK, Op
<1> HIDE DEF r
<1>2. UNCHANGED <<cookie, installed, store, page, meddling, muddled>> /\ r.at \in Resolving
  BY <1>1 DEF ServeStatus, Resolving
<1> QED BY <1>1, <1>2, FitOnlyMove

\* Every bootstrap ends in a navigation.
LEMMA FitReturn ==
  ASSUME FitInv, NEW o \in Ops, NEW required \in BOOLEAN, Return(o, required)
  PROVE  FitInv'
<1>1. Target(o) \in Routes
  BY DEF Target, FitInv, SessionTypeOK, Op, Routes
<1>2. /\ page' \in [route : Routes, redirect : Routes]
      /\ Fits(page'.route, store.user)
  BY <1>1, GuardFits DEF Return, FitInv, SessionTypeOK
<1>3. op' \in [Ops -> Op]
  BY OffTyped DEF Return, FitInv, SessionTypeOK
<1>4. /\ store' \in [user : Somebody, setupRequired : BOOLEAN, loaded : BOOLEAN]
      /\ store'.user = store.user /\ store'.loaded
  BY DEF Return, FitInv, SessionTypeOK
<1> QED BY <1>2, <1>3, <1>4 DEF Return, FitInv, SessionTypeOK, PageSettled

\* Other tabs change the cookie only.
LEMMA FitMeddle ==
  ASSUME FitInv, NEW c \in Somebody, Meddle(c)
  PROVE  FitInv'
BY SessionAssumption DEF Meddle, FitInv, SessionTypeOK, PageSettled

\* Every step keeps types and page.
LEMMA FitNext == FitInv /\ [SessionNext]_sessionVars => FitInv'
<1> SUFFICES ASSUME FitInv, [SessionNext]_sessionVars PROVE FitInv'
  OBVIOUS
<1>1. CASE UNCHANGED sessionVars
  BY <1>1 DEF sessionVars, FitInv, SessionTypeOK, PageSettled
<1>2. CASE \E o \in Ops : SessionAnswered(o)
  <2> SUFFICES ASSUME NEW o \in Ops, SessionAnswered(o) PROVE FitInv'
    BY <1>2
  <2>1. CASE \E ok \in BOOLEAN : Serve(o, ok)
    BY <2>1, FitServe
  <2>2. CASE Fails(o) \/ SignedIn(o) \/ NotSignedIn(o) \/ SignedOut(o) \/ UseMe(o)
    BY <2>2, FitFails, FitSignedIn, FitNotSignedIn, FitSignedOut, FitUseMe
  <2>3. CASE \E got \in Somebody : ServeMe(o, got)
    BY <2>3, FitServeMe
  <2>4. CASE \E required \in BOOLEAN : ServeStatus(o, required)
    BY <2>4, FitServeStatus
  <2>5. CASE SettingsAnswered(o) \/ UseStatus(o)
    <3>1. store.setupRequired \in BOOLEAN /\ op[o].required \in BOOLEAN
      BY DEF FitInv, SessionTypeOK, Op
    <3> QED BY <2>5, <3>1, FitReturn DEF SettingsAnswered, UseStatus
  <2> QED BY <2>1, <2>2, <2>3, <2>4, <2>5 DEF SessionAnswered
<1>3. CASE SessionUser
  <2>1. Accounts \subseteq Somebody /\ NoOne \in Somebody
    BY DEF Somebody
  <2> QED BY <1>3, <2>1, FitNavigate, FitCall DEF SessionUser, SubmitSignIn, SubmitSignUp, SignOut
<1>4. CASE \E c \in Somebody : Meddle(c)
  BY <1>4, FitMeddle
<1> QED BY <1>1, <1>2, <1>3, <1>4 DEF SessionNext

\* The invariant of types and of the page, in every behaviour.
LEMMA FitAlways == SessionSpec => []FitInv
BY FitInit, FitNext, PTL DEF SessionSpec

\* Cookie, store, route and calls keep their types, and nothing is shown before the
\* first bootstrap is over, for any number of accounts and calls.
THEOREM SessionTypeCorrect == SessionSpec => []SessionTypeOK
<1>1. FitInv => SessionTypeOK
  BY DEF FitInv
<1> QED BY <1>1, FitAlways, PTL

\* However sign-ins, sign-outs, failures and changes from elsewhere overlap, the page
\* fits the user of the store whenever no call is under way.
THEOREM PageAlwaysFits == SessionSpec => []PageFitsUser
<1>1. FitInv => PageFitsUser
  BY DEF FitInv, SessionTypeOK, PageSettled, PageFitsUser, Shown, Busy, Resolving
<1> QED BY <1>1, FitAlways, PTL

-----------------------------------------------------------------------------
(* The store agrees with the cookie.                                       *)

\* At the start nobody is signed in.
LEMMA CookieInit == SessionInit => CookieInv
<1> SUFFICES ASSUME SessionInit PROVE CookieInv
  OBVIOUS
<1>1. /\ \A o \in Ops : op[o].at = IF o = First THEN "me" ELSE "off"
      /\ store.user = NoOne
  BY DEF SessionInit, Off
<1> QED BY <1>1 DEF CookieInv, Alone, EarlyCalls, GotCurrent, Early, Busy

\* A navigation changes neither store nor cookie.
LEMMA CookieNavigate ==
  ASSUME CookieInv, NEW to \in Routes, SessionNavigate(to)
  PROVE  CookieInv'
BY DEF SessionNavigate, CookieInv, Alone, EarlyCalls, GotCurrent, LoggingOut, Busy

\* A sign-in is submitted on the login page, which is for nobody.
LEMMA CookieCall ==
  ASSUME FitInv, CookieInv, NEW o \in Ops, NEW kind \in {"signin", "signup", "signout"},
         NEW as \in Somebody, Call(o, kind, as),
         kind # "signout" => page.route = "login"
  PROVE  CookieInv'
<1> SUFFICES ASSUME ~muddled' PROVE CookieInv'
  BY DEF CookieInv
<1>1. Busy = {} /\ ~muddled
  BY DEF Call
<1>2. \A p \in Ops : op[p].at = "off"
  BY <1>1 DEF Busy
<1>3. kind # "signout" => store.user = NoOne
  BY <1>2 DEF Call, FitInv, SessionTypeOK, PageSettled, Resolving, Fits
<1>4. store.user \in {NoOne, cookie}
  BY <1>1, <1>2 DEF CookieInv, LoggingOut
<1>5. /\ op'[o].at = "asked" /\ op'[o].kind = kind
      /\ \A p \in Ops \ {o} : op'[p] = op[p]
      /\ store' = store /\ cookie' = cookie
  BY DEF Call, Off, FitInv, SessionTypeOK
<1> QED BY <1>2, <1>3, <1>4, <1>5
        DEF CookieInv, Alone, EarlyCalls, GotCurrent, LoggingOut, Busy, Early

\* What a step of a call is assumed to do: the call is the only one, so that what
\* is left to show is about this one.
LEMMA CookieMove ==
  ASSUME FitInv, CookieInv, NEW o \in Ops, op[o].at # "off",
         NEW r, op' = [op EXCEPT ![o] = r], muddled' = muddled,
         ~muddled => /\ r.at \in Early =>
                          /\ r.kind \in {"signin", "signup", "signout"}
                          /\ r.kind # "signout" => store'.user = NoOne
                     /\ r.at = "got" => r.got \in {NoOne, cookie'}
                     /\ \/ store'.user \in {NoOne, cookie'}
                        \/ r.kind = "signout" /\ r.at \in {"accepted", "refused"}
  PROVE  CookieInv'
<1> SUFFICES ASSUME ~muddled PROVE CookieInv'
  BY DEF CookieInv
<1>1. /\ op'[o] = r
      /\ \A p \in Ops \ {o} : op'[p] = op[p]
  BY DEF FitInv, SessionTypeOK
<1>2. \A p \in Ops \ {o} : op[p].at = "off"
  BY DEF CookieInv, Alone, Busy
<1>3. Alone'
  BY <1>1, <1>2 DEF Alone, Busy
<1>4. EarlyCalls' /\ GotCurrent'
  BY <1>1, <1>2 DEF EarlyCalls, GotCurrent, Early
<1>5. store'.user \in {NoOne, cookie'} \/ LoggingOut'
  BY <1>1 DEF LoggingOut
<1> QED BY <1>3, <1>4, <1>5 DEF CookieInv

\* Served: the cookie changes while nobody is signed in, or by a logout.
LEMMA CookieServe ==
  ASSUME FitInv, CookieInv, NEW o \in Ops, NEW ok \in BOOLEAN, Serve(o, ok)
  PROVE  CookieInv'
<1> DEFINE r == [op[o] EXCEPT !.at = IF ok THEN "accepted" ELSE "refused"]
<1>1. /\ op' = [op EXCEPT ![o] = r] /\ op[o].at = "asked"
      /\ r.at \in {"accepted", "refused"} /\ r.kind = op[o].kind
      /\ store' = store /\ muddled' = muddled
  BY DEF Serve, FitInv, SessionTypeOK, Op
<1>2. ~muddled => /\ op[o].kind \in {"signin", "signup", "signout"}
                  /\ op[o].kind # "signout" => store.user = NoOne
  BY <1>1 DEF CookieInv, EarlyCalls, Early
<1> HIDE DEF r
<1> QED BY <1>1, <1>2, CookieMove

\* Failed: the answer alone is lost, or the request.
LEMMA CookieFails ==
  ASSUME FitInv, CookieInv, NEW o \in Ops, Fails(o)
  PROVE  CookieInv'
<1> DEFINE r == [op[o] EXCEPT !.at = "refused"]
<1>1. /\ op' = [op EXCEPT ![o] = r] /\ op[o].at = "asked"
      /\ r.at = "refused" /\ r.kind = op[o].kind
      /\ store' = store /\ muddled' = muddled
  BY DEF Fails, FitInv, SessionTypeOK, Op
<1>2. ~muddled => /\ op[o].kind \in {"signin", "signup", "signout"}
                  /\ op[o].kind # "signout" => store.user = NoOne
  BY <1>1 DEF CookieInv, EarlyCalls, Early
<1> HIDE DEF r
<1> QED BY <1>1, <1>2, CookieMove

\* While a sign-in is accepted or refused, nobody was signed in before.
LEMMA CookieSignedIn ==
  ASSUME FitInv, CookieInv, NEW o \in Ops, SignedIn(o) \/ NotSignedIn(o)
  PROVE  CookieInv'
<1>1. PICK r : /\ op' = [op EXCEPT ![o] = r] /\ r.at \in {"me", "off"}
  <2>1. CASE SignedIn(o)
    <3> DEFINE r == [op[o] EXCEPT !.at = "me"]
    <3>1. op' = [op EXCEPT ![o] = r] /\ r.at = "me"
      BY <2>1 DEF SignedIn, FitInv, SessionTypeOK, Op
    <3> HIDE DEF r
    <3> QED BY <3>1
  <2>2. CASE NotSignedIn(o)
    <3>1. op' = [op EXCEPT ![o] = Off] /\ Off.at = "off"
      BY <2>2 DEF NotSignedIn, Off
    <3> QED BY <3>1
  <2> QED BY <2>1, <2>2
<1>2. /\ op[o].at \in {"accepted", "refused"} /\ op[o].kind \in {"signin", "signup"}
      /\ store' = store /\ muddled' = muddled
  BY DEF SignedIn, NotSignedIn
<1>3. ~muddled => store.user = NoOne
  BY <1>2 DEF CookieInv, EarlyCalls, Early
<1> QED BY <1>1, <1>2, <1>3, CookieMove DEF Early

\* The answer of a logout clears the user, whatever it says.
LEMMA CookieSignedOut ==
  ASSUME FitInv, CookieInv, NEW o \in Ops, SignedOut(o)
  PROVE  CookieInv'
<1> DEFINE r == [op[o] EXCEPT !.at = "me"]
<1>1. /\ op' = [op EXCEPT ![o] = r] /\ r.at = "me"
      /\ op[o].at \in {"accepted", "refused"}
      /\ store'.user = NoOne /\ muddled' = muddled
  BY DEF SignedOut, FitInv, SessionTypeOK, Op
<1> HIDE DEF r
<1> QED BY <1>1, CookieMove DEF Early

\* What me answers is the cookie of that moment, and without overlaps of the next too.
LEMMA CookieServeMe ==
  ASSUME FitInv, CookieInv, NEW o \in Ops, NEW got \in Somebody, ServeMe(o, got)
  PROVE  CookieInv'
<1> DEFINE r == [op[o] EXCEPT !.at = "got", !.got = got]
<1>1. /\ op' = [op EXCEPT ![o] = r] /\ r.at = "got" /\ r.got \in {NoOne, cookie'}
      /\ op[o].at = "me"
      /\ store' = store /\ cookie' = cookie /\ muddled' = muddled
  BY DEF ServeMe, FitInv, SessionTypeOK, Op
<1>2. ~muddled => store.user \in {NoOne, cookie}
  BY <1>1 DEF CookieInv, Alone, Busy, LoggingOut
<1> HIDE DEF r
<1> QED BY <1>1, <1>2, CookieMove DEF Early

\* So the user that is stored is the cookie, or nobody.
LEMMA CookieUseMe ==
  ASSUME FitInv, CookieInv, NEW o \in Ops, UseMe(o)
  PROVE  CookieInv'
<1> DEFINE r == [op[o] EXCEPT !.at = IF op[o].got = NoOne THEN "status" ELSE "settings"]
<1>1. /\ op' = [op EXCEPT ![o] = r] /\ r.at \in {"status", "settings"}
      /\ op[o].at = "got"
      /\ store'.user = op[o].got /\ cookie' = cookie /\ muddled' = muddled
  BY DEF UseMe, FitInv, SessionTypeOK, Op
<1>2. ~muddled => op[o].got \in {NoOne, cookie}
  BY <1>1 DEF CookieInv, GotCurrent
<1> HIDE DEF r
<1> QED BY <1>1, <1>2, CookieMove DEF Early

\* Status is asked for when there is nobody.
LEMMA CookieServeStatus ==
  ASSUME FitInv, CookieInv, NEW o \in Ops, NEW required \in BOOLEAN, ServeStatus(o, required)
  PROVE  CookieInv'
<1> DEFINE r == [op[o] EXCEPT !.at = "told", !.required = required]
<1>1. /\ op' = [op EXCEPT ![o] = r] /\ r.at = "told"
      /\ op[o].at = "status"
      /\ store' = store /\ cookie' = cookie /\ muddled' = muddled
  BY DEF ServeStatus, FitInv, SessionTypeOK, Op
<1>2. ~muddled => store.user \in {NoOne, cookie}
  BY <1>1 DEF CookieInv, Alone, Busy, LoggingOut
<1> HIDE DEF r
<1> QED BY <1>1, <1>2, CookieMove DEF Early

\* A call that returns navigates.
LEMMA CookieReturn ==
  ASSUME FitInv, CookieInv, NEW o \in Ops, op[o].at \in {"settings", "told"},
         NEW required, Return(o, required)
  PROVE  CookieInv'
<1>1. /\ op' = [op EXCEPT ![o] = Off] /\ Off.at = "off"
      /\ store'.user = store.user /\ cookie' = cookie /\ muddled' = muddled
  BY DEF Return, Off, FitInv, SessionTypeOK
<1>2. ~muddled => store.user \in {NoOne, cookie}
  BY DEF CookieInv, Alone, Busy, LoggingOut
<1> QED BY <1>1, <1>2, CookieMove DEF Early

\* Every step keeps store and cookie in agreement.
LEMMA CookieNext == FitInv /\ CookieInv /\ [SessionNext]_sessionVars => CookieInv'
<1> SUFFICES ASSUME FitInv, CookieInv, [SessionNext]_sessionVars PROVE CookieInv'
  OBVIOUS
<1>1. CASE UNCHANGED sessionVars
  BY <1>1 DEF sessionVars, CookieInv, Alone, EarlyCalls, GotCurrent, LoggingOut, Busy
<1>2. CASE \E o \in Ops : SessionAnswered(o)
  <2> SUFFICES ASSUME NEW o \in Ops, SessionAnswered(o) PROVE CookieInv'
    BY <1>2
  <2>1. CASE \E ok \in BOOLEAN : Serve(o, ok)
    BY <2>1, CookieServe
  <2>2. CASE Fails(o) \/ SignedIn(o) \/ NotSignedIn(o) \/ SignedOut(o) \/ UseMe(o)
    BY <2>2, CookieFails, CookieSignedIn, CookieSignedOut, CookieUseMe
  <2>3. CASE \E got \in Somebody : ServeMe(o, got)
    BY <2>3, CookieServeMe
  <2>4. CASE \E required \in BOOLEAN : ServeStatus(o, required)
    BY <2>4, CookieServeStatus
  <2>5. CASE SettingsAnswered(o) \/ UseStatus(o)
    BY <2>5, CookieReturn DEF SettingsAnswered, UseStatus
  <2> QED BY <2>1, <2>2, <2>3, <2>4, <2>5 DEF SessionAnswered
<1>3. CASE SessionUser
  <2>1. Accounts \subseteq Somebody /\ NoOne \in Somebody
    BY DEF Somebody
  <2> QED BY <1>3, <2>1, CookieNavigate, CookieCall
          DEF SessionUser, SubmitSignIn, SubmitSignUp, SignOut
<1>4. CASE \E c \in Somebody : Meddle(c)
  BY <1>4 DEF Meddle, CookieInv
<1> QED BY <1>1, <1>2, <1>3, <1>4 DEF SessionNext

\* Unless calls overlapped or somebody else changed the cookie, the panel at rest
\* shows nobody as signed in but whom its requests are made for, whatever was lost.
THEOREM ShownAlwaysSignedIn == SessionSpec => []ShownIsSignedIn
<1>1. FitInv /\ CookieInv => ShownIsSignedIn
  BY DEF CookieInv, LoggingOut, ShownIsSignedIn, Busy
<1>2. SessionSpec => []CookieInv
  BY CookieInit, CookieNext, FitAlways, PTL DEF SessionSpec
<1> QED BY <1>1, <1>2, FitAlways, PTL

-----------------------------------------------------------------------------
(* The uploads: what is said of a file decides what happens to it.         *)

Decisions == {"rename", "overwrite", "skip"}

Words == Decisions \cup {"nothing", "cancel"}

Stages == {"ready", "collecting", "asking", "uploading", "reloading", "lingering", "over"}

\* An upload has a mark of each kind for each of its files.
Shape(r) ==
  r \in [at : Stages, folder : BOOLEAN, picks : Seq(Names), next : Nat \ {0},
         all : Decisions \cup {"none"},
         choice : [DOMAIN r.picks -> Decisions], told : [DOMAIN r.picks -> Words],
         to : Places \cup {Nobody}, where : [DOMAIN r.picks -> Places \cup {Nobody}],
         hit : [DOMAIN r.picks -> BOOLEAN], failed : BOOLEAN]

\* While the questions are asked, nothing is stored, the files from next on are still
\* to be decided, and what is to be replaced was said of the file itself.
Undecided(r) ==
  /\ Shape(r)
  /\ \A i \in DOMAIN r.picks :
       /\ i >= r.next => r.told[i] = "nothing"
       /\ ~r.hit[i] /\ r.where[i] = Nobody
       /\ r.told[i] \in {"skip", "cancel"} => r.choice[i] = "skip"
       /\ r.choice[i] = "overwrite" => r.told[i] = "overwrite"

\* After them, what is skipped is not stored, and what replaces a file was said to.
Decided(r) ==
  /\ Shape(r)
  /\ \A i \in DOMAIN r.picks :
       /\ r.told[i] \in {"skip", "cancel"} => r.choice[i] = "skip"
       /\ r.choice[i] = "skip" => r.where[i] = Nobody
       /\ r.choice[i] = "overwrite" => Said(r, i) = "overwrite"
       /\ r.hit[i] => r.choice[i] = "overwrite"

Asking(r) == r.at \in {"collecting", "asking"}

Started(r) ==
  /\ r.at # "ready"
  /\ Asking(r) => Undecided(r) /\ r.all = "none"
  /\ r.at = "asking" => r.next \in DOMAIN r.picks
  /\ ~Asking(r) => Decided(r)
  /\ r.at = "uploading" => r.to \in Places /\ r.next \in Kept(r)

UploadsInv ==
  /\ DOMAIN batch = Uploads
  /\ \A b \in Uploads : batch[b] = NoBatch \/ Started(batch[b])
  /\ question \in [open : BOOLEAN, resolver : Uploads \cup {Nobody}]
  /\ question.open => question.resolver \in Uploads /\ batch[question.resolver].at = "asking"
  /\ panel \in Uploads \cup {Nobody}

-----------------------------------------------------------------------------
\* The least of some numbers is one of them.
LEMMA MinIn ==
  ASSUME NEW S \in SUBSET Nat, S # {}
  PROVE  Min(S) \in S
<1> DEFINE R == OpToRel(<, Nat)
<1>1. \A m, n \in Nat : <<m, n>> \in R <=> m < n
  BY DEF OpToRel
<1>2. IsWellFoundedOn(R, Nat)
  BY NatLessThanWellFounded
<1> HIDE DEF R
<1>3. \E x \in S : \A y \in S : <<y, x>> \notin R
  BY <1>2, WFMin, Zenon
<1>4. PICK x \in S : \A y \in S : <<y, x>> \notin R
  BY <1>3
<1>5. \A y \in S : x \in Nat /\ y \in Nat
  BY <1>4
<1>6. ASSUME NEW y \in S PROVE x <= y
  <2>1. <<y, x>> \notin R /\ x \in Nat /\ y \in Nat
    BY <1>4, <1>5
  <2>2. ~(y < x)
    BY <1>1, <2>1
  <2> QED BY <2>1, <2>2
<1> QED BY <1>4, <1>6 DEF Min

\* Conflicts and files that are kept are files of the upload.
LEMMA FilesOf ==
  ASSUME NEW r, Shape(r)
  PROVE  /\ DOMAIN r.picks = 1 .. Len(r.picks) /\ Len(r.picks) \in Nat
         /\ Clashes(r) \subseteq DOMAIN r.picks /\ Clashes(r) \subseteq Nat \ {0}
         /\ \A i \in Clashes(r) : i >= r.next
         /\ Kept(r) \subseteq DOMAIN r.picks /\ Kept(r) \subseteq Nat \ {0}
<1>1. r.picks \in Seq(Names) /\ r.next \in Nat \ {0}
  BY DEF Shape
<1>2. DOMAIN r.picks = 1 .. Len(r.picks) /\ Len(r.picks) \in Nat
  BY <1>1
<1> QED BY <1>1, <1>2 DEF Clashes, Kept

\* An upload that begins is undecided, and no file is left out or replaces another yet.
LEMMA FreshUndecided ==
  ASSUME NEW s \in [folder : BOOLEAN, tops : Seq(Names)], NEW at \in Stages
  PROVE  Undecided(Fresh(s, at)) /\ Fresh(s, at).all = "none" /\ Fresh(s, at).at = at
<1>1. s.folder \in BOOLEAN /\ s.tops \in Seq(Names)
  OBVIOUS
<1> DEFINE r == Fresh(s, at)
<1>2. /\ r.at = at /\ r.all = "none" /\ r.picks = s.tops
      /\ r.told = [i \in DOMAIN s.tops |-> "nothing"]
      /\ r.choice = [i \in DOMAIN s.tops |-> "rename"]
      /\ r.hit = [i \in DOMAIN s.tops |-> FALSE]
      /\ r.where = [i \in DOMAIN s.tops |-> Nobody]
  BY DEF Fresh
<1>3. Shape(r)
  BY <1>1 DEF Fresh, Shape, Decisions, Words
<1> HIDE DEF r
<1>4. Undecided(r)
  BY <1>2, <1>3 DEF Undecided
<1> QED BY <1>2, <1>4 DEF r

\* However the loop over the files goes on, the upload is left in order.
LEMMA ResumedStarted ==
  ASSUME NEW r, Undecided(r), route \in Places
  PROVE  Started(Resumed(r)) /\ Resumed(r).at \in {"asking", "uploading", "over"}
<1>1. Shape(r)
  BY DEF Undecided
<1>2. CASE r.all = "none" /\ Clashes(r) # {}
  <2> DEFINE n == Min(Clashes(r))  q == [r EXCEPT !.at = "asking", !.next = n]
  <2>1. n \in Clashes(r)
    BY <1>1, <1>2, FilesOf, MinIn
  <2>2. n \in DOMAIN r.picks /\ n \in Nat \ {0} /\ n >= r.next
    BY <1>1, <2>1, FilesOf
  <2> HIDE DEF n
  <2>3. /\ q.at = "asking" /\ q.next = n /\ q.all = r.all /\ q.picks = r.picks
        /\ q.told = r.told /\ q.choice = r.choice /\ q.hit = r.hit /\ q.where = r.where
    BY <1>1 DEF Shape
  <2>4. Shape(q)
    BY <1>1, <2>2 DEF Shape, Stages
  <2>5. Resumed(r) = q
    BY <1>2 DEF Resumed, n
  <2> HIDE DEF q
  <2>6. Undecided(q)
    <3>1. \A i \in DOMAIN r.picks : i \in Nat /\ (i >= n => i >= r.next)
      BY <1>1, <2>2, FilesOf DEF Shape
    <3> QED BY <2>3, <2>4, <3>1 DEF Undecided
  <2> QED BY <1>2, <2>2, <2>3, <2>5, <2>6 DEF Started, Asking
<1>3. CASE ~(r.all = "none" /\ Clashes(r) # {})
  <2> DEFINE c == [i \in DOMAIN r.picks |-> IF i \in Clashes(r) THEN r.all ELSE r.choice[i]]
             d == [r EXCEPT !.choice = c]
  <2>1. c \in [DOMAIN r.picks -> Decisions]
    <3>1. ASSUME NEW i \in DOMAIN r.picks PROVE (IF i \in Clashes(r) THEN r.all ELSE r.choice[i]) \in Decisions
      BY <1>1, <1>3 DEF Shape
    <3> QED BY <3>1
  <2>2. \A i \in DOMAIN r.picks : c[i] = IF i \in Clashes(r) THEN r.all ELSE r.choice[i]
    OBVIOUS
  <2> HIDE DEF c
  <2>3. /\ Shape(d) /\ d.choice = c /\ d.at = r.at /\ d.next = r.next /\ d.all = r.all
        /\ d.picks = r.picks /\ d.told = r.told /\ d.hit = r.hit /\ d.where = r.where
    BY <1>1, <2>1 DEF Shape
  <2>4. Resumed(r) = IF Kept(d) = {} THEN [d EXCEPT !.at = "over"]
                     ELSE [d EXCEPT !.at = "uploading", !.to = route, !.next = Min(Kept(d))]
    BY <1>3 DEF Resumed, c
  <2> HIDE DEF d
  <2>5. ASSUME NEW q, Shape(q), q.choice = d.choice, q.picks = d.picks, q.told = d.told,
               q.hit = d.hit, q.where = d.where, q.all = d.all
        PROVE  Decided(q)
    <3>1. ASSUME NEW i \in DOMAIN r.picks
          PROVE  /\ r.told[i] \in {"skip", "cancel"} => c[i] = "skip"
                 /\ r.where[i] = Nobody /\ ~r.hit[i]
                 /\ c[i] = "overwrite" => Said(r, i) = "overwrite"
      <4>1. i \in Clashes(r) => r.told[i] = "nothing"
        BY <1>1, FilesOf DEF Undecided
      <4> QED BY <2>2, <4>1 DEF Undecided, Said
    <3>2. \A i \in DOMAIN r.picks : Said(q, i) = Said(r, i)
      BY <2>3, <2>5 DEF Said
    <3> QED BY <2>3, <2>5, <3>1, <3>2 DEF Decided
  <2>6. CASE Kept(d) = {}
    <3> DEFINE q == [d EXCEPT !.at = "over"]
    <3>1. /\ Shape(q) /\ q.at = "over" /\ q.choice = d.choice /\ q.picks = d.picks
          /\ q.told = d.told /\ q.hit = d.hit /\ q.where = d.where /\ q.all = d.all
      BY <2>3 DEF Shape, Stages
    <3>2. Resumed(r) = q
      BY <2>4, <2>6
    <3> HIDE DEF q
    <3>3. Decided(q)
      BY <2>5, <3>1
    <3> QED BY <3>1, <3>2, <3>3 DEF Started, Asking
  <2>7. CASE Kept(d) # {}
    <3> DEFINE n == Min(Kept(d))
               q == [d EXCEPT !.at = "uploading", !.to = route, !.next = n]
    <3>1. n \in Kept(d) /\ n \in Nat \ {0}
      BY <2>3, <2>7, FilesOf, MinIn
    <3>2. Resumed(r) = q
      BY <2>4, <2>7
    <3> HIDE DEF n
    <3>3. /\ Shape(q) /\ q.at = "uploading" /\ q.choice = d.choice /\ q.picks = d.picks
          /\ q.told = d.told /\ q.hit = d.hit /\ q.where = d.where /\ q.all = d.all
          /\ q.to = route /\ q.next = n
      BY <2>3, <3>1 DEF Shape, Stages
    <3> HIDE DEF q
    <3>4. Decided(q)
      BY <2>5, <3>3
    <3>5. Kept(q) = Kept(d)
      BY <3>3 DEF Kept
    <3> QED BY <3>1, <3>2, <3>3, <3>4, <3>5 DEF Started, Asking
  <2> QED BY <2>6, <2>7
<1> QED BY <1>2, <1>3

\* An answer settles one file, in the words of the user.
LEMMA SettledUndecided ==
  ASSUME NEW r, Undecided(r), r.all = "none", r.next \in DOMAIN r.picks,
         NEW value \in Decisions \cup {"cancel"}, NEW forAll \in BOOLEAN
  PROVE  Undecided(Settled(r, value, forAll))
<1> DEFINE n == r.next
           chosen == IF value = "cancel" THEN "skip" ELSE value
           told == [r.told EXCEPT ![n] = value]
           choice == [r.choice EXCEPT ![n] = chosen]
           all == IF forAll /\ value # "cancel" THEN value ELSE r.all
           q == [r EXCEPT !.told = told, !.choice = choice, !.all = all, !.next = n + 1]
<1>1. Shape(r) /\ n \in Nat \ {0} /\ DOMAIN r.picks = 1 .. Len(r.picks) /\ Len(r.picks) \in Nat
  BY FilesOf DEF Undecided, Shape
<1>2. chosen \in Decisions /\ all \in Decisions \cup {"none"}
  BY <1>1 DEF Decisions, Shape
<1>3. /\ told \in [DOMAIN r.picks -> Words] /\ choice \in [DOMAIN r.picks -> Decisions]
      /\ \A i \in DOMAIN r.picks : /\ told[i] = IF i = n THEN value ELSE r.told[i]
                                  /\ choice[i] = IF i = n THEN chosen ELSE r.choice[i]
  BY <1>1, <1>2 DEF Shape, Words
<1>4. Settled(r, value, forAll) = q
  BY <1>1 DEF Settled, Shape
<1> HIDE DEF told, choice, all
<1>5. /\ Shape(q) /\ q.told = told /\ q.choice = choice /\ q.next = n + 1
      /\ q.picks = r.picks /\ q.hit = r.hit /\ q.where = r.where
  <2>1. n + 1 \in Nat \ {0}
    BY <1>1
  <2> DEFINE m == n + 1
  <2>2. q = [r EXCEPT !.told = told, !.choice = choice, !.all = all, !.next = m]
    OBVIOUS
  <2> HIDE DEF m, q
  <2>3. m \in Nat \ {0}
    BY <2>1 DEF m
  <2>4. /\ q.told = told /\ q.choice = choice /\ q.next = m /\ q.all = all
        /\ q.picks = r.picks /\ q.hit = r.hit /\ q.where = r.where
    BY <1>1, <2>2 DEF Shape
  <2>5. Shape(q)
    BY <1>1, <1>2, <1>3, <2>2, <2>3 DEF Shape
  <2> QED BY <2>4, <2>5 DEF m
<1> HIDE DEF q
<1>6. ASSUME NEW i \in DOMAIN r.picks
      PROVE  /\ i >= n + 1 => told[i] = "nothing"
             /\ ~r.hit[i] /\ r.where[i] = Nobody
             /\ told[i] \in {"skip", "cancel"} => choice[i] = "skip"
             /\ choice[i] = "overwrite" => told[i] = "overwrite"
  <2>1. i \in Nat /\ n \in Nat
    BY <1>1
  <2>2. CASE i = n
    BY <1>3, <2>1, <2>2 DEF Undecided, Decisions
  <2>3. CASE i # n
    <3>1. i >= n + 1 => i >= n
      BY <2>1
    <3> QED BY <1>3, <2>3, <3>1 DEF Undecided
  <2> QED BY <2>2, <2>3
<1> QED BY <1>4, <1>5, <1>6 DEF Undecided

\* After a file the upload goes on in order, if it was stored only where the choice
\* allowed that.
LEMMA AdvanceStarted ==
  ASSUME NEW r, Decided(r), r.at = "uploading", r.next \in Kept(r), route \in Places,
         NEW b, Advance(b, r), DOMAIN batch = Uploads, b \in Uploads
  PROVE  /\ DOMAIN batch' = Uploads
         /\ Started(batch'[b]) /\ batch'[b].at \in {"uploading", "reloading"}
         /\ \A c \in Uploads : c # b => batch'[c] = batch[c]
         /\ batch'[b].at = "uploading" => UNCHANGED <<lists, dirty>>
         /\ batch'[b].at = "reloading" => Reload(route, b)
<1> DEFINE rest == {i \in Kept(r) : i > r.next}  n == Min(rest)
           go == [r EXCEPT !.next = n, !.to = route]
           stop == [r EXCEPT !.at = "reloading"]
<1>1. Shape(r)
  BY DEF Decided
<1>2. rest # {} => n \in Kept(r) /\ n \in Nat \ {0}
  BY <1>1, FilesOf, MinIn
<1>3. \/ rest # {} /\ batch' = [batch EXCEPT ![b] = go] /\ UNCHANGED <<lists, dirty>>
      \/ rest = {} /\ batch' = [batch EXCEPT ![b] = stop] /\ Reload(route, b)
  BY DEF Advance
<1> HIDE DEF n, rest
<1>4. CASE rest # {}
  <2>1. /\ Shape(go) /\ go.at = "uploading" /\ go.next = n /\ go.to = route /\ go.all = r.all
        /\ go.picks = r.picks /\ go.told = r.told /\ go.choice = r.choice
        /\ go.hit = r.hit /\ go.where = r.where
    BY <1>1, <1>2, <1>4 DEF Shape
  <2>2. batch' = [batch EXCEPT ![b] = go] /\ UNCHANGED <<lists, dirty>>
    BY <1>3, <1>4
  <2> HIDE DEF go
  <2>3. Decided(go) /\ Kept(go) = Kept(r)
    BY <2>1 DEF Decided, Kept, Said
  <2> QED BY <1>2, <1>4, <2>1, <2>2, <2>3 DEF Started, Asking
<1>5. CASE rest = {}
  <2>1. /\ Shape(stop) /\ stop.at = "reloading" /\ stop.all = r.all
        /\ stop.picks = r.picks /\ stop.told = r.told /\ stop.choice = r.choice
        /\ stop.hit = r.hit /\ stop.where = r.where
    BY <1>1 DEF Shape, Stages
  <2>2. batch' = [batch EXCEPT ![b] = stop] /\ Reload(route, b)
    BY <1>3, <1>5
  <2> HIDE DEF stop
  <2>3. Decided(stop)
    BY <2>1 DEF Decided, Said
  <2> QED BY <2>1, <2>2, <2>3 DEF Started, Asking
<1> QED BY <1>4, <1>5

\* Where a file is stored, and whether over another one.
LEMMA StoredDecided ==
  ASSUME NEW r, Decided(r), r.at = "uploading", r.to \in Places, r.next \in Kept(r),
         NEW s \in StoredAs(r, Path(r.to, r.picks[r.next]))
  PROVE  LET q == [r EXCEPT !.where[r.next] = r.to, !.hit[r.next] = s.hit]
         IN  /\ Decided(q) /\ q.at = "uploading" /\ q.next = r.next /\ q.next \in Kept(q)
             /\ s.path \in Paths
<1> DEFINE n == r.next  p == Path(r.to, r.picks[n])
           where == [r.where EXCEPT ![n] = r.to]
           hit == [r.hit EXCEPT ![n] = s.hit]
           q == [r EXCEPT !.where = where, !.hit = hit]
<1>1. Shape(r) /\ n \in DOMAIN r.picks /\ r.choice[n] # "skip" /\ r.picks[n] \in Names
  <2>1. Shape(r)
    BY DEF Decided
  <2>2. n \in DOMAIN r.picks /\ r.choice[n] # "skip"
    BY DEF Kept
  <2> QED BY <2>1, <2>2 DEF Shape
<1>2. p.place = r.to /\ p.name = r.picks[n]
  BY DEF Path
<1>3. /\ s.hit \in BOOLEAN /\ s.path \in Paths
      /\ s.hit => r.choice[n] = "overwrite"
  <2>1. p \in Paths /\ Path(r.to, Copy(r.picks[n])) \in Paths
    BY <1>1 DEF Path, Paths, Entries, Copy
  <2> HIDE DEF p
  <2>2. \/ s = [path |-> p, hit |-> FALSE]
        \/ r.choice[n] = "overwrite" /\ \E h \in BOOLEAN : s = [path |-> p, hit |-> h]
        \/ s = [path |-> p, hit |-> FALSE]
        \/ s = [path |-> Path(r.to, Copy(r.picks[n])), hit |-> FALSE]
    BY <1>2 DEF StoredAs, p
  <2>3. ASSUME NEW path \in Paths, NEW h \in BOOLEAN, s = [path |-> path, hit |-> h]
        PROVE  s.hit = h /\ s.hit \in BOOLEAN /\ s.path \in Paths
    BY <2>3
  <2>4. CASE r.choice[n] = "overwrite" /\ \E h \in BOOLEAN : s = [path |-> p, hit |-> h]
    BY <2>1, <2>3, <2>4
  <2>5. CASE \/ s = [path |-> p, hit |-> FALSE]
             \/ s = [path |-> Path(r.to, Copy(r.picks[n])), hit |-> FALSE]
    BY <2>1, <2>3, <2>5
  <2> QED BY <2>2, <2>4, <2>5
<1>4. /\ where \in [DOMAIN r.picks -> Places \cup {Nobody}]
      /\ hit \in [DOMAIN r.picks -> BOOLEAN]
      /\ \A i \in DOMAIN r.picks : i # n => where[i] = r.where[i] /\ hit[i] = r.hit[i]
      /\ hit[n] = s.hit
  BY <1>1, <1>3 DEF Shape
<1>5. q = [r EXCEPT !.where[r.next] = r.to, !.hit[r.next] = s.hit]
  BY <1>1 DEF Shape
<1> HIDE DEF where, hit
<1>6. /\ Shape(q) /\ q.at = "uploading" /\ q.next = n /\ q.picks = r.picks /\ q.told = r.told
      /\ q.choice = r.choice /\ q.all = r.all /\ q.where = where /\ q.hit = hit
  BY <1>1, <1>4 DEF Shape
<1> HIDE DEF q
<1>7. \A i \in DOMAIN r.picks :
        /\ r.told[i] \in {"skip", "cancel"} => r.choice[i] = "skip"
        /\ r.choice[i] = "skip" => where[i] = Nobody
        /\ r.choice[i] = "overwrite" => Said(q, i) = "overwrite"
        /\ hit[i] => r.choice[i] = "overwrite"
  BY <1>1, <1>3, <1>4, <1>6 DEF Decided, Said
<1>8. Decided(q) /\ n \in Kept(q)
  BY <1>1, <1>6, <1>7 DEF Decided, Kept
<1> QED BY <1>3, <1>5, <1>6, <1>8

-----------------------------------------------------------------------------
(* The page.                                                               *)

Boxes == {"name", "move", "delete"}

Kinds == {"mkdir", "rename", "copy", "move", "delete"}

Lists == [of : Places, at : {"sent", "served", "over"}, names : SUBSET Entries,
          late : BOOLEAN, for : Acts \cup Uploads \cup {Nobody}]

\* Only the dialog that makes a folder, which asks for a name, has no entry.
Dialogs ==
  {d \in [box : Boxes, kind : Kinds, name : Entries \cup {Nobody}, at : Places] :
     IF d.kind = "mkdir" THEN d.box = "name" ELSE d.name \in Entries}

Submitted ==
  [at : {"sent", "done", "failed", "reloading"}, kind : Kinds, box : Boxes,
   path : Paths, to : Paths]

ListsInv == lists \in Seq(Lists) /\ Len(lists) <= MaxLists

PageInv ==
  /\ disk \in [Places -> SUBSET Entries] /\ route \in Places
  /\ shown \in [of : Places, names : SUBSET Entries]
  /\ message \in {"none", "error", "notice"}
  /\ dialog \in Dialogs \cup {Closed}
  /\ acts \in [Acts -> Submitted \cup {NoAct}]
  /\ preview \in [name : Entries \cup {Nobody}, of : Places]
  /\ sound \in BOOLEAN /\ dirty \in BOOLEAN

PanelInv == ListsInv /\ PageInv /\ UploadsInv

-----------------------------------------------------------------------------
\* A sequence without one of its elements: those before it, and those after it one
\* place earlier.
LEMMA RemoveAtElements ==
  ASSUME NEW S, NEW s \in Seq(S), NEW i \in 1 .. Len(s)
  PROVE  LET t == RemoveAt(s, i)
         IN  /\ t \in Seq(S) /\ Len(t) = Len(s) - 1
             /\ \A j \in 1 .. Len(t) : t[j] = IF j < i THEN s[j] ELSE s[j + 1]
<1> DEFINE a == SubSeq(s, 1, i - 1)  b == SubSeq(s, i + 1, Len(s))
<1>1. Len(s) \in Nat /\ i \in Int /\ 1 <= i /\ i <= Len(s) /\ \A j \in 1 .. Len(s) : s[j] \in S
  OBVIOUS
<1>2. /\ a \in Seq(S) /\ Len(a) = i - 1
      /\ \A j \in 1 .. i - 1 : a[j] = s[j]
  <2>1. \A j \in 1 .. i - 1 : s[j] \in S
    BY <1>1
  <2>2. 1 \in Int /\ i - 1 \in Int
    BY <1>1
  <2>3. a \in Seq(S)
    BY <2>1, <2>2, SubSeqProperties, Zenon
  <2>4. Len(a) = i - 1
    BY <1>1
  <2>5. \A j \in 1 .. i - 1 : a[j] = s[j]
    BY <1>1
  <2> QED BY <2>3, <2>4, <2>5
<1>3. /\ b \in Seq(S) /\ Len(b) = Len(s) - i
      /\ \A j \in 1 .. Len(s) - i : b[j] = s[i + j]
  <2>1. \A j \in i + 1 .. Len(s) : s[j] \in S
    BY <1>1
  <2>2. i + 1 \in Int /\ Len(s) \in Int
    BY <1>1
  <2>3. b \in Seq(S)
    BY <2>1, <2>2, SubSeqProperties, Zenon
  <2>4. Len(b) = Len(s) - i
    BY <1>1
  <2>5. \A j \in 1 .. Len(s) - i : b[j] = s[i + j]
    BY <1>1
  <2> QED BY <2>3, <2>4, <2>5
<1> HIDE DEF a, b
<1>4. /\ a \o b \in Seq(S) /\ Len(a \o b) = Len(a) + Len(b)
      /\ \A j \in 1 .. Len(a) + Len(b) :
           (a \o b)[j] = IF j <= Len(a) THEN a[j] ELSE b[j - Len(a)]
  BY <1>2, <1>3, ConcatProperties, Zenon
<1>5. Len(a \o b) = Len(s) - 1
  BY <1>1, <1>2, <1>3, <1>4
<1>6. ASSUME NEW j \in 1 .. Len(a \o b)
      PROVE  (a \o b)[j] = IF j < i THEN s[j] ELSE s[j + 1]
  <2>1. (a \o b)[j] = IF j <= i - 1 THEN a[j] ELSE b[j - (i - 1)]
    BY <1>2, <1>4
  <2>2. j \in 1 .. Len(s) - 1
    BY <1>5
  <2>3. CASE j < i
    <3>1. j \in 1 .. i - 1 /\ j <= i - 1
      BY <1>1, <2>2, <2>3
    <3> QED BY <1>2, <2>1, <2>3, <3>1
  <2>4. CASE ~(j < i)
    <3>1. /\ j - (i - 1) \in 1 .. Len(s) - i /\ ~(j <= i - 1)
          /\ i + (j - (i - 1)) = j + 1
      BY <1>1, <2>2, <2>4
    <3>2. b[j - (i - 1)] = s[i + (j - (i - 1))]
      BY <1>3, <3>1
    <3> QED BY <2>1, <2>4, <3>1, <3>2
  <2> QED BY <2>3, <2>4
<1> QED BY <1>4, <1>5, <1>6 DEF RemoveAt, a, b

\* A list that is used or has failed leaves lists.
LEMMA UsedTyped ==
  ASSUME ListsInv, NEW i \in DOMAIN lists
  PROVE  Used(i) \in Seq(Lists) /\ Len(Used(i)) <= Len(lists)
<1> DEFINE marked == [j \in DOMAIN lists |-> [lists[j] EXCEPT !.late = @ \/ j < i]]
<1>1. lists \in Seq(Lists) /\ Len(lists) \in Nat /\ DOMAIN lists = 1 .. Len(lists)
  BY DEF ListsInv
<1>2. ASSUME NEW l \in Lists, NEW late \in BOOLEAN
      PROVE  [l EXCEPT !.late = late] \in Lists /\ [l EXCEPT !.at = "over"] \in Lists
  BY DEF Lists
<1>3. \A j \in 1 .. Len(lists) : marked[j] \in Lists
  <2> TAKE j \in 1 .. Len(lists)
  <2>1. lists[j] \in Lists /\ j \in Int /\ i \in Int
    BY <1>1
  <2>2. (lists[j].late \/ j < i) \in BOOLEAN
    BY <2>1 DEF Lists
  <2>3. [lists[j] EXCEPT !.late = lists[j].late \/ j < i] \in Lists
    BY <1>2, <2>1, <2>2
  <2> QED BY <1>1, <2>3
<1>4. marked \in Seq(Lists) /\ Len(marked) = Len(lists) /\ i \in 1 .. Len(marked)
  <2>1. marked \in [1 .. Len(lists) -> Lists]
    BY <1>1, <1>3
  <2> QED BY <1>1, <2>1, IsASeq
<1> HIDE DEF marked
<1>5. CASE lists[i].for = Nobody
  <2>1. Used(i) = RemoveAt(marked, i)
    BY <1>5 DEF Used, marked
  <2> QED BY <1>1, <1>4, <2>1, RemoveAtElements
<1>6. CASE lists[i].for # Nobody
  <2>1. Used(i) = [marked EXCEPT ![i] = [marked[i] EXCEPT !.at = "over"]]
    BY <1>1, <1>4, <1>6 DEF Used, marked
  <2> DEFINE l == [marked[i] EXCEPT !.at = "over"]
  <2>2. l \in Lists
    BY <1>1, <1>2, <1>3
  <2> HIDE DEF l
  <2>3. [marked EXCEPT ![i] = l] \in Seq(Lists) /\ Len([marked EXCEPT ![i] = l]) = Len(marked)
    BY <1>4, <2>2, ExceptSeq
  <2> QED BY <1>1, <1>4, <2>1, <2>3 DEF l
<1> QED BY <1>5, <1>6

\* A list that is asked for is one more.
LEMMA ReloadTyped ==
  ASSUME ListsInv, NEW place \in Places, NEW caller \in Acts \cup Uploads \cup {Nobody},
         Reload(place, caller)
  PROVE  ListsInv' /\ dirty' = FALSE
<1>1. Asked(place, caller) \in Lists
  BY DEF Asked, Lists
<1>2. /\ lists \in Seq(Lists) /\ lists' = Append(lists, Asked(place, caller))
      /\ Len(lists) < MaxLists /\ dirty' = FALSE
  BY DEF Reload, ListsInv
<1>3. lists' \in Seq(Lists) /\ Len(lists') = Len(lists) + 1 /\ Len(lists) \in Nat
  BY <1>1, <1>2, AppendProperties
<1> QED BY <1>2, <1>3, BrowserAssumption DEF ListsInv

\* Without one of them they are still lists.
LEMMA RemovedTyped ==
  ASSUME ListsInv, NEW i \in DOMAIN lists, lists' = RemoveAt(lists, i)
  PROVE  ListsInv'
<1>1. lists \in Seq(Lists) /\ i \in 1 .. Len(lists) /\ Len(lists) \in Nat
  BY DEF ListsInv
<1>2. lists' \in Seq(Lists) /\ Len(lists') = Len(lists) - 1
  BY <1>1, RemoveAtElements
<1> QED BY <1>1, <1>2, BrowserAssumption DEF ListsInv

\* The directories stay directories of entries.
LEMMA DiskTyped ==
  ASSUME NEW d \in [Places -> SUBSET Entries], NEW path \in Paths
  PROVE  /\ With(d, path) \in [Places -> SUBSET Entries]
         /\ Less(d, path) \in [Places -> SUBSET Entries]
<1>1. path.place \in Places /\ path.name \in Entries
  BY DEF Paths
<1> QED BY <1>1 DEF With, Less

\* The page opens with the list of one's own directory under way.
LEMMA PanelInit == Init => PanelInv
<1> SUFFICES ASSUME Init PROVE PanelInv
  OBVIOUS
<1>1. /\ route = [owner |-> Me, dir |-> Top] /\ route \in Places
      /\ disk \in [Places -> SUBSET Entries]
  <2>1. disk \in [Places -> SUBSET Names] /\ Names \subseteq Entries
    BY BrowserAssumption DEF Init, BrowserInit, Entries
  <2> QED BY <2>1, BrowserAssumption DEF Init, BrowserInit, Places
<1>2. ListsInv
  <2>1. Asked(route, Nobody) \in Lists
    BY <1>1 DEF Asked, Lists
  <2>2. lists = <<Asked(route, Nobody)>>
    BY DEF Init, BrowserInit
  <2>3. lists \in Seq(Lists) /\ Len(lists) = 1
    BY <2>1, <2>2
  <2> QED BY <2>3, BrowserAssumption DEF ListsInv
<1>3. PageInv
  BY <1>1 DEF Init, BrowserInit, PageInv
<1>4. UploadsInv
  BY DEF Init, UploadsInv
<1> QED BY <1>2, <1>3, <1>4 DEF PanelInv

\* The lists.
LEMMA ListSteps ==
  ASSUME PanelInv, NEW i \in DOMAIN lists,
         ServeList(i) \/ UseList(i) \/ ListFails(i)
  PROVE  ListsInv' /\ PageInv'
<1>1. lists \in Seq(Lists) /\ i \in 1 .. Len(lists) /\ lists[i] \in Lists
  BY DEF PanelInv, ListsInv
<1>2. CASE ServeList(i)
  <2> DEFINE l == [lists[i] EXCEPT !.at = "served", !.names = disk[lists[i].of]]
  <2>1. l \in Lists
    BY <1>1 DEF Lists, PanelInv, PageInv
  <2>2. lists' = [lists EXCEPT ![i] = l]
    BY <1>2 DEF ServeList
  <2> HIDE DEF l
  <2>3. lists' \in Seq(Lists) /\ Len(lists') = Len(lists)
    BY <1>1, <2>1, <2>2, ExceptSeq
  <2> QED BY <1>2, <2>3 DEF ServeList, PanelInv, ListsInv, PageInv
<1>3. CASE UseList(i) \/ ListFails(i)
  <2>1. lists' = Used(i)
    BY <1>3 DEF UseList, ListFails
  <2>2. Len(lists') \in Nat /\ Len(lists) \in Nat /\ ListsInv /\ lists' \in Seq(Lists)
        /\ Len(lists') <= Len(lists)
    BY <1>1, <2>1, UsedTyped DEF PanelInv
  <2>3. ListsInv'
    BY <2>2, BrowserAssumption DEF ListsInv
  <2>4. CASE UseList(i)
    <3>1. /\ shown' = [of |-> lists[i].of, names |-> lists[i].names] /\ sound' = ~lists[i].late
          /\ message' \in {message, "none"}
          /\ UNCHANGED <<disk, route, dialog, acts, preview, dirty>>
      BY <2>4 DEF UseList
    <3>2. shown' \in [of : Places, names : SUBSET Entries] /\ sound' \in BOOLEAN
      BY <1>1, <3>1 DEF Lists
    <3> QED BY <2>3, <3>1, <3>2 DEF PanelInv, PageInv
  <2>5. CASE ListFails(i)
    BY <2>3, <2>5 DEF ListFails, Fail, PanelInv, PageInv
  <2> QED BY <1>3, <2>4, <2>5
<1> QED BY <1>2, <1>3

\* What is submitted, answered, refused and followed by a list.
LEMMA ActSteps ==
  ASSUME PanelInv, NEW a \in Acts,
         \/ ServeAct(a) \/ RefuseAct(a) \/ ActDone(a) \/ ActFailed(a)
         \/ \E i \in DOMAIN lists : ActOver(a, i)
  PROVE  ListsInv' /\ PageInv'
<1>1. acts \in [Acts -> Submitted \cup {NoAct}] /\ ListsInv /\ PageInv
  BY DEF PanelInv, PageInv
<1>2. ASSUME NEW at \in {"done", "failed", "reloading"}, acts[a].at \in {"sent", "done", "failed"},
             acts' = [acts EXCEPT ![a].at = at]
      PROVE  acts' \in [Acts -> Submitted \cup {NoAct}]
  <2>1. acts[a] \in Submitted
    BY <1>1, <1>2 DEF NoAct
  <2>2. [acts[a] EXCEPT !.at = at] \in Submitted
    BY <2>1 DEF Submitted
  <2> QED BY <1>1, <1>2, <2>2
<1>3. [acts EXCEPT ![a] = NoAct] \in [Acts -> Submitted \cup {NoAct}]
  BY <1>1
<1>4. CASE ServeAct(a)
  <2>1. acts[a].at = "sent" /\ acts[a] \in Submitted
    BY <1>1, <1>4 DEF ServeAct, NoAct
  <2>2. acts[a].path \in Paths /\ acts[a].to \in Paths
    BY <2>1 DEF Submitted
  <2>3. disk' \in [Places -> SUBSET Entries]
    BY <1>1, <1>4, <2>2, DiskTyped DEF ServeAct, Done, PageInv
  <2>4. acts' \in [Acts -> Submitted \cup {NoAct}]
    BY <1>2, <1>4, <2>1 DEF ServeAct
  <2>5. dirty' \in BOOLEAN
    BY <1>1, <1>4 DEF ServeAct, PageInv
  <2>6. UNCHANGED <<route, shown, lists, message, dialog, preview, sound>>
    BY <1>4 DEF ServeAct
  <2> QED BY <1>1, <2>3, <2>4, <2>5, <2>6 DEF PageInv, ListsInv
<1>5. CASE RefuseAct(a)
  <2>1. acts[a].at = "sent" /\ acts' = [acts EXCEPT ![a].at = "failed"]
        /\ UNCHANGED <<disk, route, shown, lists, message, dialog, preview, sound, dirty>>
    BY <1>5 DEF RefuseAct
  <2>2. acts' \in [Acts -> Submitted \cup {NoAct}]
    BY <1>2, <2>1
  <2> QED BY <1>1, <2>1, <2>2 DEF PageInv, ListsInv
<1>6. CASE ActDone(a)
  <2>1. acts[a].at = "done" /\ acts' = [acts EXCEPT ![a].at = "reloading"] /\ Reload(route, a)
        /\ UNCHANGED <<disk, route, shown, message, dialog, preview, sound>>
    BY <1>6 DEF ActDone
  <2>2. acts' \in [Acts -> Submitted \cup {NoAct}]
    BY <1>2, <2>1
  <2>3. ListsInv' /\ dirty' = FALSE
    BY <1>1, <2>1, ReloadTyped DEF PageInv
  <2> QED BY <1>1, <2>1, <2>2, <2>3 DEF PageInv
<1>7. CASE ActFailed(a)
  BY <1>1, <1>3, <1>7 DEF ActFailed, Fail, PageInv, ListsInv
<1>8. ASSUME NEW i \in DOMAIN lists, ActOver(a, i) PROVE ListsInv' /\ PageInv'
  <2>1. ListsInv'
    BY <1>1, <1>8, RemovedTyped DEF ActOver
  <2> QED BY <1>1, <1>3, <1>8, <2>1 DEF ActOver, PageInv
<1> QED BY <1>4, <1>5, <1>6, <1>7, <1>8

\* A change is submitted.
LEMMA ActTyped ==
  ASSUME PanelInv, dialog \in Dialogs, NEW path \in Paths, NEW to \in Paths, Act(path, to)
  PROVE  ListsInv' /\ PageInv'
<1> DEFINE a == CHOOSE free \in Acts : acts[free] = NoAct
           x == [at |-> "sent", kind |-> dialog.kind, box |-> dialog.box, path |-> path, to |-> to]
<1>1. a \in Acts
  BY DEF Act
<1>2. x \in Submitted
  BY DEF Dialogs, Submitted
<1>3. acts' = [acts EXCEPT ![a] = x]
  BY DEF Act
<1> HIDE DEF a, x
<1>4. acts' \in [Acts -> Submitted \cup {NoAct}]
  BY <1>1, <1>2, <1>3 DEF PanelInv, PageInv
<1> QED BY <1>4 DEF Act, PanelInv, ListsInv, PageInv

\* What the user does on the page.
LEMMA UserSteps ==
  ASSUME PanelInv, BrowserUser \/ BrowserClicked
  PROVE  ListsInv' /\ PageInv'
<1>1. ListsInv /\ PageInv
  BY DEF PanelInv
<1>2. ASSUME NEW to \in Places, Navigate(to) PROVE ListsInv' /\ PageInv'
  <2> DEFINE there == Parsed(Address(to))
  <2>1. /\ there \in Places /\ route' = there /\ Reload(there, Nobody)
        /\ UNCHANGED <<disk, shown, message, dialog, acts, preview, sound>>
    BY <1>2 DEF Navigate, AddressChanges
  <2> HIDE DEF there
  <2>2. ListsInv' /\ dirty' = FALSE
    BY <1>1, <2>1, ReloadTyped
  <2> QED BY <1>1, <2>1, <2>2 DEF PageInv
<1>3. CASE Cancel
  BY <1>1, <1>3 DEF Cancel, PageInv, ListsInv
<1>4. CASE CloseAlert
  BY <1>1, <1>4 DEF CloseAlert, PageInv, ListsInv
<1>5. ASSUME dialog.box \in Boxes
      PROVE  dialog \in Dialogs /\ (dialog.box # "name" => dialog.name \in Entries)
  BY <1>1, <1>5, BrowserAssumption DEF PageInv, Dialogs, Closed, Boxes
<1>6. \A n \in Entries : Join(n) \in Paths
  BY <1>1 DEF Join, Path, Paths, PageInv
<1>7. ASSUME NEW n, Join(n) \in Paths, SubmitName(n) PROVE ListsInv' /\ PageInv'
  <2>1. dialog.box = "name" /\ Act(Join(IF dialog.kind = "mkdir" THEN n ELSE dialog.name), Join(n))
    BY <1>7 DEF SubmitName
  <2>2. dialog \in Dialogs
    BY <1>5, <2>1 DEF Boxes
  <2>3. dialog.kind # "mkdir" => dialog.name \in Entries
    BY <2>2 DEF Dialogs
  <2>4. Join(IF dialog.kind = "mkdir" THEN n ELSE dialog.name) \in Paths
    BY <1>6, <1>7, <2>3
  <2> QED BY <1>7, <2>1, <2>2, <2>4, ActTyped
<1>8. ASSUME NEW to \in Paths, SubmitMove(to) PROVE ListsInv' /\ PageInv'
  <2>1. dialog.box = "move" /\ Act(Join(dialog.name), to)
    BY <1>8 DEF SubmitMove
  <2>2. dialog \in Dialogs /\ dialog.name \in Entries
    BY <1>5, <2>1 DEF Boxes
  <2> QED BY <1>6, <2>1, <2>2, ActTyped
<1>9. CASE ConfirmDelete
  <2>1. dialog.box = "delete" /\ Act(Join(dialog.name), Join(dialog.name))
    BY <1>9 DEF ConfirmDelete
  <2>2. dialog \in Dialogs /\ dialog.name \in Entries
    BY <1>5, <2>1 DEF Boxes
  <2> QED BY <1>6, <2>1, <2>2, ActTyped
<1>10. ASSUME NEW n \in Entries, Step(n) \/ Preview(n) PROVE ListsInv' /\ PageInv'
  <2>1. preview' = [name |-> n, of |-> shown.of]
        /\ UNCHANGED <<disk, route, shown, lists, message, dialog, acts, sound, dirty>>
    BY <1>10 DEF Step, Preview
  <2>2. preview' \in [name : Entries \cup {Nobody}, of : Places]
    BY <1>1, <2>1 DEF PageInv
  <2> QED BY <1>1, <2>1, <2>2 DEF PageInv, ListsInv
<1>11. CASE ClosePreview
  <2>1. preview' = [preview EXCEPT !.name = Nobody]
        /\ UNCHANGED <<disk, route, shown, lists, message, dialog, acts, sound, dirty>>
    BY <1>11 DEF ClosePreview
  <2>2. preview' \in [name : Entries \cup {Nobody}, of : Places]
    BY <1>1, <2>1 DEF PageInv
  <2> QED BY <1>1, <2>1, <2>2 DEF PageInv, ListsInv
<1>12. ASSUME NEW path \in [place : Places, name : Names], Foreign(path)
       PROVE  ListsInv' /\ PageInv'
  <2>1. path \in Paths
    BY DEF Paths, Entries
  <2>2. disk' \in [Places -> SUBSET Entries]
    BY <1>1, <1>12, <2>1, DiskTyped DEF Foreign, PageInv
  <2>3. dirty' = TRUE /\ UNCHANGED <<route, shown, lists, message, dialog, acts, preview, sound>>
    BY <1>12 DEF Foreign
  <2> QED BY <1>1, <2>2, <2>3 DEF PageInv, ListsInv
<1>13. CASE Refresh
  <2>1. Reload(route, Nobody) /\ UNCHANGED <<disk, route, shown, message, dialog, acts, preview, sound>>
    BY <1>13 DEF Refresh
  <2>2. ListsInv' /\ dirty' = FALSE
    BY <1>1, <2>1, ReloadTyped DEF PageInv
  <2> QED BY <1>1, <2>1, <2>2 DEF PageInv
<1>14. ASSUME NEW box \in Boxes, NEW kind \in Kinds, NEW n \in Entries \cup {Nobody},
              IF kind = "mkdir" THEN box = "name" ELSE n \in Entries, Prompt(box, kind, n)
       PROVE  ListsInv' /\ PageInv'
  <2>1. dialog' = [box |-> box, kind |-> kind, name |-> n, at |-> shown.of]
        /\ UNCHANGED <<disk, route, shown, lists, message, acts, preview, sound, dirty>>
    BY <1>14 DEF Prompt
  <2>2. dialog' \in Dialogs
    BY <1>1, <1>14, <2>1 DEF PageInv, Dialogs
  <2> QED BY <1>1, <2>1, <2>2 DEF PageInv, ListsInv
<1>15. ASSUME NEW kind, NEW n \in Entries \cup {Nobody}, PromptName(kind, n)
       PROVE  ListsInv' /\ PageInv'
  <2>1. /\ kind \in {"mkdir", "rename", "copy"} /\ Prompt("name", kind, n)
        /\ kind # "mkdir" => n \in shown.names
    BY <1>15 DEF PromptName
  <2>2. kind # "mkdir" => n \in Entries
    BY <1>1, <2>1 DEF PageInv
  <2> QED BY <1>14, <2>1, <2>2 DEF Boxes, Kinds
<1>16. ASSUME NEW n \in Entries, PromptMove(n) \/ PromptDelete(n) PROVE ListsInv' /\ PageInv'
  BY <1>14, <1>16 DEF PromptMove, PromptDelete, Boxes, Kinds
<1>17. CASE BrowserUser
  BY <1>2, <1>3, <1>4, <1>7, <1>8, <1>9, <1>10, <1>11, <1>12, <1>17 DEF BrowserUser
<1>18. CASE BrowserClicked
  BY <1>10, <1>13, <1>15, <1>16, <1>18 DEF BrowserClicked
<1> QED BY <1>17, <1>18

\* A step that leaves the page alone leaves it well formed.
LEMMA PageSame ==
  ASSUME PageInv, UNCHANGED <<disk, route, shown, message, dialog, acts, preview, sound, dirty>>
  PROVE  PageInv'
BY DEF PageInv

\* An upload that is before or past its files moves on; a question is open for one
\* that asks.
LEMMA UploadMoved ==
  ASSUME UploadsInv, NEW b \in Uploads, NEW r, Started(r), batch' = [batch EXCEPT ![b] = r],
         batch[b].at # "asking",
         panel' \in Uploads \cup {Nobody},
         question' = question \/ (question' = [open |-> TRUE, resolver |-> b] /\ r.at = "asking")
  PROVE  UploadsInv'
<1>1. /\ DOMAIN batch' = Uploads /\ batch'[b] = r
      /\ \A c \in Uploads : c # b => batch'[c] = batch[c]
  BY DEF UploadsInv
<1>2. \A c \in Uploads : batch'[c] = NoBatch \/ Started(batch'[c])
  BY <1>1 DEF UploadsInv
<1>3. /\ question' \in [open : BOOLEAN, resolver : Uploads \cup {Nobody}]
      /\ question'.open => /\ question'.resolver \in Uploads
                          /\ batch'[question'.resolver].at = "asking"
  <2>1. CASE question' = question
    BY <1>1, <2>1 DEF UploadsInv
  <2>2. CASE question' = [open |-> TRUE, resolver |-> b] /\ r.at = "asking"
    BY <1>1, <2>2
  <2> QED BY <2>1, <2>2
<1> QED BY <1>1, <1>2, <1>3 DEF UploadsInv

\* The choice.
LEMMA ChoiceSteps ==
  ASSUME PanelInv
  PROVE  /\ \A b \in Uploads :
              /\ Collected(b) => PanelInv'
              /\ \A s \in Selections : Pick(b, s) \/ Drop(b, s) => PanelInv'
         /\ \A value \in {"rename", "overwrite", "skip", "cancel"}, forAll \in BOOLEAN :
              Answer(value, forAll) => PanelInv'
         /\ Dismiss => PanelInv'
<1>1. ListsInv /\ PageInv /\ UploadsInv /\ route \in Places
  BY DEF PanelInv, PageInv
<1>2. ASSUME NEW b \in Uploads, NEW r, Undecided(r), NEW rest, Resume(b, r, rest)
      PROVE  /\ ListsInv' /\ PageInv' /\ Started(Resumed(r))
             /\ batch' = [batch EXCEPT ![b] = Resumed(r)]
             /\ panel' \in Uploads \cup {Nobody}
             /\ question' = IF Resumed(r).at = "asking" THEN [open |-> TRUE, resolver |-> b] ELSE rest
  <2>1. Started(Resumed(r))
    BY <1>1, <1>2, ResumedStarted
  <2>2. PageInv' /\ ListsInv'
    BY <1>1, <1>2, PageSame DEF Resume, ListsInv
  <2>3. panel' \in Uploads \cup {Nobody}
    BY <1>1, <1>2 DEF Resume, UploadsInv
  <2> QED BY <1>2, <2>1, <2>2, <2>3 DEF Resume
<1>3. ASSUME NEW b \in Uploads, Collected(b) PROVE PanelInv'
  <2>1. batch[b].at = "collecting" /\ Undecided(batch[b]) /\ Resume(b, batch[b], question)
    BY <1>1, <1>3 DEF Collected, UploadsInv, NoBatch, Started, Asking
  <2> QED BY <1>1, <1>2, <2>1, UploadMoved DEF PanelInv
<1>4. ASSUME NEW b \in Uploads, NEW s \in Selections, Begins(b, s) PROVE batch[b] = NoBatch
  BY <1>4 DEF Begins, Uploads
<1>5. ASSUME NEW b \in Uploads, NEW s \in Selections, Pick(b, s) PROVE PanelInv'
  <2>1. batch[b].at = "none" /\ Resume(b, Fresh(s, "ready"), question)
    BY <1>4, <1>5 DEF Pick, NoBatch
  <2>2. Undecided(Fresh(s, "ready"))
    BY FreshUndecided, SelectionAssumption DEF Stages
  <2> QED BY <1>1, <1>2, <2>1, <2>2, UploadMoved DEF PanelInv
<1>6. ASSUME NEW b \in Uploads, NEW s \in Selections, Drop(b, s) PROVE PanelInv'
  <2> DEFINE taken == IF s.folder THEN s ELSE [s EXCEPT !.tops = SubSeq(s.tops, 1, 1)]
             r == Fresh(taken, "collecting")
  <2>1. batch[b].at = "none"
    BY <1>4, <1>6 DEF Drop, NoBatch
  <2>2. /\ batch' = [batch EXCEPT ![b] = r]
        /\ UNCHANGED <<disk, route, shown, lists, message, dialog, acts, preview, sound, dirty,
                       question, panel>>
    BY <1>6 DEF Drop
  <2>3. taken \in [folder : BOOLEAN, tops : Seq(Names)]
    <3>1. s \in [folder : BOOLEAN, tops : Seq(Names)] /\ s.tops # <<>>
      BY SelectionAssumption
    <3>2. Len(s.tops) \in Nat \ {0} /\ \A i \in 1 .. Len(s.tops) : s.tops[i] \in Names
      BY <3>1, EmptySeq
    <3>3. SubSeq(s.tops, 1, 1) \in Seq(Names)
      <4>1. \A i \in 1 .. 1 : s.tops[i] \in Names
        BY <3>2
      <4> QED BY <4>1, SubSeqProperties
    <3> QED BY <3>1, <3>3
  <2> HIDE DEF taken
  <2>4. Undecided(r) /\ r.all = "none" /\ r.at = "collecting"
    BY <2>3, FreshUndecided DEF Stages
  <2> HIDE DEF r
  <2>5. Started(r)
    BY <2>4 DEF Started, Asking
  <2>6. UploadsInv'
    BY <1>1, <2>1, <2>2, <2>5, UploadMoved DEF UploadsInv
  <2> QED BY <1>1, <2>2, <2>6, PageSame DEF PanelInv, ListsInv
<1>7. ASSUME NEW value \in {"rename", "overwrite", "skip", "cancel"}, NEW forAll \in BOOLEAN,
             Answer(value, forAll)
      PROVE  PanelInv'
  <2> DEFINE b == question.resolver  q == Settled(batch[b], value, forAll)
  <2>1. /\ b \in Uploads /\ batch[b].at = "asking"
        /\ Resume(b, q, [open |-> FALSE, resolver |-> Nobody])
    BY <1>1, <1>7 DEF Answer, UploadsInv
  <2>2. /\ Undecided(batch[b]) /\ batch[b].all = "none" /\ batch[b].next \in DOMAIN batch[b].picks
    BY <1>1, <2>1 DEF UploadsInv, NoBatch, Started, Asking
  <2>3. Undecided(q)
    BY <2>2, SettledUndecided DEF Decisions
  <2> HIDE DEF q, b
  <2> DEFINE r == Resumed(q)
  <2>4. /\ ListsInv' /\ PageInv' /\ Started(r) /\ batch' = [batch EXCEPT ![b] = r]
        /\ panel' \in Uploads \cup {Nobody}
        /\ question' = IF r.at = "asking" THEN [open |-> TRUE, resolver |-> b]
                       ELSE [open |-> FALSE, resolver |-> Nobody]
    BY <1>2, <2>1, <2>3
  <2> HIDE DEF r
  <2>5. /\ DOMAIN batch' = Uploads /\ batch'[b] = r
        /\ \A c \in Uploads : c # b => batch'[c] = batch[c]
    BY <1>1, <2>1, <2>4 DEF UploadsInv
  <2>6. \A c \in Uploads : batch'[c] = NoBatch \/ Started(batch'[c])
    BY <1>1, <2>4, <2>5 DEF UploadsInv
  <2>7. /\ question' \in [open : BOOLEAN, resolver : Uploads \cup {Nobody}]
        /\ question'.open => /\ question'.resolver \in Uploads
                            /\ batch'[question'.resolver].at = "asking"
    BY <2>1, <2>4, <2>5
  <2> QED BY <2>4, <2>5, <2>6, <2>7 DEF PanelInv, UploadsInv
<1>8. CASE Dismiss
  <2>1. question' = [question EXCEPT !.open = FALSE] /\ UNCHANGED <<batch, panel>>
    BY <1>8 DEF Dismiss
  <2>2. PageInv' /\ ListsInv'
    BY <1>1, <1>8, PageSame DEF Dismiss, browserVars, ListsInv
  <2>3. UploadsInv'
    BY <1>1, <2>1 DEF UploadsInv
  <2> QED BY <2>2, <2>3 DEF PanelInv
<1> QED BY <1>3, <1>5, <1>6, <1>7, <1>8

\* What a file that was sent, or failed, leaves: the upload at its next file, or at the
\* list that follows it.
FileWent(b) ==
  /\ batch[b].at = "uploading"
  /\ DOMAIN batch' = Uploads
  /\ Started(batch'[b]) /\ batch'[b].at \in {"uploading", "reloading"}
  /\ \A c \in Uploads : c # b => batch'[c] = batch[c]
  /\ batch'[b].at = "uploading" => UNCHANGED <<lists, dirty>>
  /\ batch'[b].at = "reloading" => Reload(route, b)
  /\ disk' \in [Places -> SUBSET Entries] /\ message' \in {message, "error"}
  /\ UNCHANGED <<route, shown, dialog, acts, preview, sound, question, panel>>

\* Sent or failed, a file is stored only as it was chosen.
LEMMA FilesGo ==
  ASSUME PanelInv, NEW b \in Uploads, FileSent(b) \/ FileFails(b)
  PROVE  FileWent(b)
<1> DEFINE r == batch[b]
<1>1. /\ r.at = "uploading" /\ Decided(r) /\ r.to \in Places /\ r.next \in Kept(r)
      /\ DOMAIN batch = Uploads /\ route \in Places /\ disk \in [Places -> SUBSET Entries]
  <2>1. r.at = "uploading"
    BY DEF FileSent, FileFails
  <2>2. r # NoBatch
    BY <2>1 DEF NoBatch
  <2>3. Started(r) /\ DOMAIN batch = Uploads
    BY <2>2 DEF PanelInv, UploadsInv
  <2>4. route \in Places /\ disk \in [Places -> SUBSET Entries]
    BY DEF PanelInv, PageInv
  <2> QED BY <2>1, <2>3, <2>4 DEF Started, Asking
<1> HIDE DEF r
<1>2. ASSUME NEW q, Decided(q), q.at = "uploading", q.next \in Kept(q), Advance(b, q)
      PROVE  /\ DOMAIN batch' = Uploads
             /\ Started(batch'[b]) /\ batch'[b].at \in {"uploading", "reloading"}
             /\ \A c \in Uploads : c # b => batch'[c] = batch[c]
             /\ batch'[b].at = "uploading" => UNCHANGED <<lists, dirty>>
             /\ batch'[b].at = "reloading" => Reload(route, b)
  BY <1>1, <1>2, AdvanceStarted
<1>3. ASSUME NEW q, Decided(q), q.at = "uploading", q.to \in Places, q.next \in Kept(q),
             NEW s \in StoredAs(q, Path(q.to, q.picks[q.next])),
             disk' = With(disk, s.path),
             Advance(b, [q EXCEPT !.where[q.next] = q.to, !.hit[q.next] = s.hit])
      PROVE  /\ DOMAIN batch' = Uploads
             /\ Started(batch'[b]) /\ batch'[b].at \in {"uploading", "reloading"}
             /\ \A c \in Uploads : c # b => batch'[c] = batch[c]
             /\ batch'[b].at = "uploading" => UNCHANGED <<lists, dirty>>
             /\ batch'[b].at = "reloading" => Reload(route, b)
             /\ disk' \in [Places -> SUBSET Entries]
  <2> DEFINE t == [q EXCEPT !.where[q.next] = q.to, !.hit[q.next] = s.hit]
  <2>1. Decided(t) /\ t.at = "uploading" /\ t.next \in Kept(t) /\ s.path \in Paths
    BY <1>3, StoredDecided
  <2>2. Advance(b, t)
    BY <1>3
  <2> HIDE DEF t
  <2>3. disk' \in [Places -> SUBSET Entries]
    BY <1>1, <1>3, <2>1, DiskTyped
  <2> QED BY <1>2, <2>1, <2>2, <2>3
<1>4. CASE FileSent(b)
  <2>1. PICK s \in StoredAs(r, Path(r.to, r.picks[r.next])) :
          /\ disk' = With(disk, s.path)
          /\ Advance(b, [r EXCEPT !.where[r.next] = r.to, !.hit[r.next] = s.hit])
    BY <1>4 DEF FileSent, Stored, r
  <2>2. UNCHANGED <<route, shown, message, dialog, acts, preview, sound, question, panel>>
    BY <1>4 DEF FileSent
  <2> QED BY <1>1, <1>3, <2>1, <2>2 DEF FileWent, r
<1>5. CASE FileFails(b)
  <2> DEFINE q == [r EXCEPT !.failed = TRUE]
  <2>1. /\ Decided(q) /\ q.at = "uploading" /\ q.to \in Places /\ q.next \in Kept(q)
    <3>1. Shape(r)
      BY <1>1 DEF Decided
    <3>2. /\ Shape(q) /\ q.at = r.at /\ q.to = r.to /\ q.next = r.next /\ q.all = r.all
          /\ q.picks = r.picks /\ q.told = r.told /\ q.choice = r.choice
          /\ q.hit = r.hit /\ q.where = r.where
      BY <3>1 DEF Shape
    <3> HIDE DEF q
    <3> QED BY <1>1, <3>2 DEF Decided, Kept, Said
  <2>2. /\ message' = "error"
        /\ UNCHANGED <<route, shown, dialog, acts, preview, sound, question, panel>>
    BY <1>5 DEF FileFails, Fail
  <2>3. \/ disk' = disk /\ Advance(b, q)
        \/ \E s \in StoredAs(q, Path(q.to, q.picks[q.next])) :
             /\ disk' = With(disk, s.path)
             /\ Advance(b, [q EXCEPT !.where[q.next] = q.to, !.hit[q.next] = s.hit])
    BY <1>5 DEF FileFails, r
  <2> HIDE DEF q
  <2>4. CASE disk' = disk /\ Advance(b, q)
    BY <1>1, <1>2, <2>1, <2>2, <2>4 DEF FileWent, r
  <2>5. CASE \E s \in StoredAs(q, Path(q.to, q.picks[q.next])) :
               /\ disk' = With(disk, s.path)
               /\ Advance(b, [q EXCEPT !.where[q.next] = q.to, !.hit[q.next] = s.hit])
    BY <1>1, <1>3, <2>1, <2>2, <2>5 DEF FileWent, r
  <2> QED BY <2>3, <2>4, <2>5
<1> QED BY <1>4, <1>5

\* The files, and what follows them.
LEMMA FileSteps ==
  ASSUME PanelInv, NEW b \in Uploads,
         \/ FileSent(b) \/ FileFails(b) \/ TimerFires(b)
         \/ \E i \in DOMAIN lists : batch[b].at = "reloading" /\ BatchDone(b, i)
  PROVE  PanelInv'
<1>1. ListsInv /\ PageInv /\ UploadsInv
  BY DEF PanelInv
<1>2. CASE FileSent(b) \/ FileFails(b)
  <2>1. FileWent(b)
    BY <1>2, FilesGo
  <2>2. ListsInv' /\ dirty' \in BOOLEAN
    <3>1. CASE batch'[b].at = "uploading"
      BY <1>1, <2>1, <3>1 DEF FileWent, ListsInv, PageInv
    <3>2. CASE batch'[b].at = "reloading"
      BY <1>1, <2>1, <3>2, ReloadTyped DEF FileWent, PageInv
    <3> QED BY <2>1, <3>1, <3>2 DEF FileWent
  <2>3. PageInv'
    BY <1>1, <2>1, <2>2 DEF FileWent, PageInv
  <2>4. \A c \in Uploads : batch'[c] = NoBatch \/ Started(batch'[c])
    BY <1>1, <2>1 DEF FileWent, UploadsInv
  <2>5. question.open => question.resolver # b
    BY <1>1, <2>1 DEF FileWent, UploadsInv
  <2>6. UploadsInv'
    BY <1>1, <2>1, <2>4, <2>5 DEF FileWent, UploadsInv
  <2> QED BY <2>2, <2>3, <2>6 DEF PanelInv
<1>3. ASSUME NEW at \in {"lingering", "over"}, batch[b].at \in {"reloading", "lingering"},
             batch' = [batch EXCEPT ![b].at = at], question' = question,
             panel' \in {panel, Nobody}
      PROVE  UploadsInv'
  <2> DEFINE r == batch[b]  q == [r EXCEPT !.at = at]
  <2>1. Decided(r)
    BY <1>1, <1>3 DEF UploadsInv, NoBatch, Started, Asking
  <2>2. batch' = [batch EXCEPT ![b] = q]
    BY <1>1, <1>3 DEF UploadsInv
  <2>3. Shape(r)
    BY <2>1 DEF Decided
  <2> HIDE DEF r
  <2>4. /\ Shape(q) /\ q.at = at /\ q.all = r.all
        /\ q.picks = r.picks /\ q.told = r.told /\ q.choice = r.choice
        /\ q.hit = r.hit /\ q.where = r.where
    BY <2>3 DEF Shape, Stages
  <2> HIDE DEF q
  <2>5. Started(q)
    BY <2>1, <2>4 DEF Decided, Said, Started, Asking
  <2> QED BY <1>1, <1>3, <2>2, <2>5, UploadMoved DEF UploadsInv
<1>4. CASE TimerFires(b)
  <2>1. UploadsInv'
    BY <1>3, <1>4 DEF TimerFires
  <2>2. PageInv' /\ ListsInv'
    BY <1>1, <1>4, PageSame DEF TimerFires, browserVars, ListsInv
  <2> QED BY <2>1, <2>2 DEF PanelInv
<1>5. ASSUME NEW i \in DOMAIN lists, batch[b].at = "reloading", BatchDone(b, i) PROVE PanelInv'
  <2>1. /\ lists' = RemoveAt(lists, i) /\ message' \in {message, "notice"}
        /\ batch' = [batch EXCEPT ![b].at = "lingering"]
        /\ UNCHANGED <<disk, route, shown, dialog, acts, preview, sound, dirty, question, panel>>
    BY <1>5 DEF BatchDone, Succeed
  <2>2. ListsInv'
    BY <1>1, <2>1, RemovedTyped
  <2>3. UploadsInv'
    BY <1>3, <1>5, <2>1
  <2>4. PageInv'
    BY <1>1, <2>1 DEF PageInv
  <2> QED BY <2>2, <2>3, <2>4 DEF PanelInv
<1> QED BY <1>2, <1>4, <1>5

-----------------------------------------------------------------------------
(* The lists.  One that is late, or over, is passed: one asked for after   *)
(* it, or itself, was used.  The one asked for last is of the address, and *)
(* decides: while it is under way it will bring the entries of the server, *)
(* and once it is passed the page shows them, if the list used last was in *)
(* order and nothing is left that another list will follow.                *)

Passed(l) == l.at = "over" \/ l.late

Ordered(s) == \A j, k \in DOMAIN s : j < k /\ Passed(s[k]) => s[j].late

LastPassed(s) == s = <<>> \/ Passed(s[Len(s)])

\* What waits for a list waits for its only one.
Reloading(c, as, bs) ==
  /\ c \in Acts => as[c].at = "reloading"
  /\ c \in Uploads => bs[c].at = "reloading"

Waiting(s, as, bs) ==
  \A j \in DOMAIN s : s[j].for # Nobody =>
    /\ Reloading(s[j].for, as, bs)
    /\ \A k \in DOMAIN s : k # j => s[k].for # s[j].for

\* Whatever changed the directories, its list was asked for.
Quiet(as, bs, stale) ==
  /\ ~stale
  /\ \A a \in Acts : as[a].at # "done"
  /\ \A b \in Uploads : bs[b].at # "uploading"

Newest ==
  /\ LastPassed(lists) /\ sound => shown.of = route
  /\ ~LastPassed(lists) => lists[Len(lists)].of = route
  /\ Quiet(acts, batch, dirty) =>
       /\ LastPassed(lists) /\ sound => shown.names = disk[route]
       /\ ~LastPassed(lists) /\ lists[Len(lists)].at = "served"
            => lists[Len(lists)].names = disk[route]

Tracked == Ordered(lists) /\ Waiting(lists, acts, batch) /\ Newest

\* A list leaves, and those asked for before it are late.
LEMMA DropKeeps ==
  ASSUME NEW s \in Seq(Lists), NEW i \in DOMAIN s, Ordered(s),
         \A j \in DOMAIN s : j < i => s[j].late
  PROVE  LET t == RemoveAt(s, i)
         IN  /\ t \in Seq(Lists) /\ Ordered(t)
             /\ LastPassed(t) <=> i = Len(s) \/ LastPassed(s)
             /\ ~LastPassed(t) => t # <<>> /\ t[Len(t)] = s[Len(s)]
             /\ \A as, bs : Waiting(s, as, bs) => Waiting(t, as, bs)
             /\ \A as, bs : Waiting(s, as, bs) =>
                  \A j \in DOMAIN t : s[i].for # Nobody => t[j].for # s[i].for
<1> DEFINE t == RemoveAt(s, i)
           old(j) == IF j < i THEN j ELSE j + 1
<1>1. Len(s) \in Nat /\ DOMAIN s = 1 .. Len(s) /\ i \in 1 .. Len(s)
  OBVIOUS
<1>2. /\ t \in Seq(Lists) /\ Len(t) = Len(s) - 1
      /\ \A j \in 1 .. Len(t) : t[j] = IF j < i THEN s[j] ELSE s[j + 1]
  BY <1>1, RemoveAtElements
<1> HIDE DEF t
<1>3. DOMAIN t = 1 .. Len(s) - 1
  BY <1>2
<1>4. \A j \in DOMAIN t : old(j) \in DOMAIN s /\ t[j] = s[old(j)] /\ old(j) # i
  BY <1>1, <1>2, <1>3
<1>5. \A j, k \in DOMAIN t : (j < k => old(j) < old(k)) /\ (j # k => old(j) # old(k))
  BY <1>1, <1>3
<1>6. t # <<>> => Len(t) \in DOMAIN t
  <2> SUFFICES ASSUME t # <<>> PROVE Len(t) \in DOMAIN t
    OBVIOUS
  <2>1. Len(t) # 0
    BY <1>2, EmptySeq
  <2> QED BY <1>1, <1>2, <1>3, <2>1
<1>7. t = <<>> <=> Len(s) = 1
  BY <1>1, <1>2, EmptySeq
<1>8. s # <<>>
  BY <1>1
<1>9. i # Len(s) => Len(t) \in DOMAIN t /\ old(Len(t)) = Len(s)
  <2> SUFFICES ASSUME i # Len(s) PROVE Len(t) \in DOMAIN t /\ old(Len(t)) = Len(s)
    OBVIOUS
  <2>1. Len(t) \in 1 .. Len(s) - 1 /\ ~(Len(t) < i) /\ Len(t) + 1 = Len(s)
    BY <1>1, <1>2
  <2> QED BY <1>3, <2>1
<1>10. i = Len(s) /\ t # <<>> => Len(t) \in DOMAIN t /\ old(Len(t)) < i
  BY <1>1, <1>2, <1>3, <1>6
<1> HIDE DEF old
<1>11. Ordered(t)
  <2> SUFFICES ASSUME NEW j \in DOMAIN t, NEW k \in DOMAIN t, j < k, Passed(t[k])
               PROVE  t[j].late
    BY DEF Ordered
  <2>1. old(j) \in DOMAIN s /\ old(k) \in DOMAIN s /\ old(j) < old(k) /\ Passed(s[old(k)])
    BY <1>4, <1>5
  <2>2. s[old(j)].late
    BY <2>1 DEF Ordered
  <2> QED BY <1>4, <2>2
<1>12. i = Len(s) => LastPassed(t)
  <2> SUFFICES ASSUME i = Len(s), t # <<>> PROVE Passed(t[Len(t)])
    BY DEF LastPassed
  <2>1. t[Len(t)] = s[old(Len(t))] /\ old(Len(t)) \in DOMAIN s /\ old(Len(t)) < i
    BY <1>4, <1>10
  <2> QED BY <2>1 DEF Passed
<1>13. i # Len(s) => t # <<>> /\ t[Len(t)] = s[Len(s)] /\ (LastPassed(t) <=> LastPassed(s))
  <2> SUFFICES ASSUME i # Len(s)
               PROVE  t # <<>> /\ t[Len(t)] = s[Len(s)] /\ (LastPassed(t) <=> LastPassed(s))
    OBVIOUS
  <2>1. t[Len(t)] = s[Len(s)]
    BY <1>4, <1>9
  <2>2. t # <<>>
    BY <1>1, <1>7
  <2> QED BY <1>8, <2>1, <2>2 DEF LastPassed
<1>14. ASSUME NEW as, NEW bs, Waiting(s, as, bs)
       PROVE  /\ Waiting(t, as, bs)
              /\ \A j \in DOMAIN t : s[i].for # Nobody => t[j].for # s[i].for
  <2>1. \A j \in DOMAIN s : s[j].for # Nobody =>
          /\ Reloading(s[j].for, as, bs)
          /\ \A k \in DOMAIN s : k # j => s[k].for # s[j].for
    BY <1>14 DEF Waiting
  <2>2. Waiting(t, as, bs)
    BY <1>4, <1>5, <2>1 DEF Waiting
  <2> QED BY <1>4, <2>1, <2>2
<1> QED BY <1>2, <1>11, <1>12, <1>13, <1>14 DEF t

\* Using a list, or giving it up, passes it and those asked for before it.
LEMMA UsedKeeps ==
  ASSUME lists \in Seq(Lists), NEW i \in DOMAIN lists, Ordered(lists), Waiting(lists, acts, batch)
  PROVE  LET t == Used(i)
         IN  /\ Ordered(t) /\ Waiting(t, acts, batch)
             /\ LastPassed(t) <=> i = Len(lists) \/ LastPassed(lists)
             /\ ~LastPassed(t) => /\ t[Len(t)].at = lists[Len(lists)].at
                                  /\ t[Len(t)].of = lists[Len(lists)].of
                                  /\ t[Len(t)].names = lists[Len(lists)].names
<1> DEFINE marked == [j \in DOMAIN lists |-> [lists[j] EXCEPT !.late = @ \/ j < i]]
           n == Len(lists)
<1>1. n \in Nat /\ DOMAIN lists = 1 .. n /\ i \in 1 .. n /\ \A j \in 1 .. n : lists[j] \in Lists
  OBVIOUS
<1>2. /\ marked \in Seq(Lists) /\ Len(marked) = n /\ DOMAIN marked = 1 .. n
      /\ \A j \in 1 .. n : /\ marked[j].at = lists[j].at /\ marked[j].names = lists[j].names /\ marked[j].of = lists[j].of
                           /\ marked[j].for = lists[j].for
                           /\ marked[j].late <=> lists[j].late \/ j < i
  <2>1. ASSUME NEW j \in 1 .. n
        PROVE  /\ marked[j] \in Lists
               /\ marked[j].at = lists[j].at /\ marked[j].names = lists[j].names /\ marked[j].of = lists[j].of
               /\ marked[j].for = lists[j].for
               /\ marked[j].late <=> lists[j].late \/ j < i
    <3> DEFINE late == lists[j].late \/ j < i
               l == [lists[j] EXCEPT !.late = late]
    <3>1. marked[j] = l
      BY <1>1
    <3>2. late \in BOOLEAN
      BY <1>1 DEF Lists
    <3> HIDE DEF marked, late
    <3>3. /\ l.at = lists[j].at /\ l.names = lists[j].names /\ l.of = lists[j].of /\ l.for = lists[j].for
          /\ l.late = late
      BY <1>1 DEF Lists
    <3>4. l \in Lists
      BY <1>1, <3>2 DEF Lists
    <3> HIDE DEF l
    <3>5. late <=> lists[j].late \/ j < i
      BY DEF late
    <3> QED BY <3>1, <3>3, <3>4, <3>5
  <2>2. marked \in [1 .. n -> Lists]
    BY <1>1, <2>1
  <2>3. marked \in Seq(Lists) /\ Len(marked) = n
    BY <1>1, <2>2, IsASeq
  <2> QED BY <1>1, <2>1, <2>3
<1> HIDE DEF marked, n
<1>3. Ordered(marked) /\ Waiting(marked, acts, batch)
  <2>1. Waiting(marked, acts, batch)
    BY <1>1, <1>2 DEF Waiting
  <2>2. ASSUME NEW j \in 1 .. n, NEW k \in 1 .. n, j < k, Passed(marked[k])
        PROVE  marked[j].late
    <3>1. CASE k < i
      BY <1>1, <1>2, <2>2, <3>1
    <3>2. CASE ~(k < i)
      <4>1. Passed(lists[k])
        BY <1>2, <2>2, <3>2 DEF Passed
      <4> QED BY <1>1, <1>2, <2>2, <4>1 DEF Ordered
    <3> QED BY <3>1, <3>2
  <2> QED BY <1>2, <2>1, <2>2 DEF Ordered
<1>4. lists # <<>> /\ marked # <<>> /\ n \in 1 .. n /\ ~(n < i)
  BY <1>1, <1>2 DEF n
<1>5. LastPassed(marked) <=> LastPassed(lists)
  BY <1>2, <1>4 DEF LastPassed, Passed, n
<1>6. CASE lists[i].for = Nobody
  <2>1. Used(i) = RemoveAt(marked, i)
    BY <1>6 DEF Used, marked
  <2>2. \A j \in DOMAIN marked : j < i => marked[j].late
    BY <1>2
  <2>3. i \in DOMAIN marked
    BY <1>1, <1>2
  <2> DEFINE t == RemoveAt(marked, i)
  <2>4. /\ Ordered(t)
        /\ LastPassed(t) <=> i = Len(marked) \/ LastPassed(marked)
        /\ ~LastPassed(t) => t # <<>> /\ t[Len(t)] = marked[Len(marked)]
        /\ \A as, bs : Waiting(marked, as, bs) => Waiting(t, as, bs)
    BY <1>2, <1>3, <2>2, <2>3, DropKeeps
  <2> HIDE DEF t
  <2>5. /\ marked[Len(marked)].at = lists[n].at
        /\ marked[Len(marked)].names = lists[n].names
        /\ marked[Len(marked)].of = lists[n].of
    BY <1>2, <1>4
  <2> QED BY <1>2, <1>3, <1>5, <2>1, <2>4, <2>5 DEF n, t
<1>7. CASE lists[i].for # Nobody
  <2> DEFINE t == [marked EXCEPT ![i] = [marked[i] EXCEPT !.at = "over"]]
  <2>1. Used(i) = t
    BY <1>1, <1>2, <1>7 DEF Used, marked
  <2>2. /\ DOMAIN t = 1 .. n
        /\ \A j \in 1 .. n : j # i => t[j] = marked[j]
        /\ t[i].at = "over" /\ t[i].late = marked[i].late /\ t[i].for = marked[i].for
    <3>1. marked[i] \in Lists
      BY <1>1, <1>2
    <3> QED BY <1>1, <1>2, <3>1 DEF Lists
  <2>3. Len(t) = n /\ t # <<>>
    <3>1. Len(t) = Len(marked)
      BY <1>1, <1>2
    <3> QED BY <1>1, <1>2, <3>1
  <2> HIDE DEF t
  <2>4. Ordered(t)
    <3> SUFFICES ASSUME NEW j \in 1 .. n, NEW k \in 1 .. n, j < k, Passed(t[k])
                 PROVE  t[j].late
      BY <2>2 DEF Ordered
    <3>1. t[j].late = marked[j].late
      BY <2>2
    <3>2. CASE k = i
      BY <1>2, <3>1, <3>2
    <3>3. CASE k # i
      <4>1. Passed(marked[k])
        BY <2>2, <3>3
      <4> QED BY <1>2, <1>3, <3>1, <4>1 DEF Ordered
    <3> QED BY <3>2, <3>3
  <2>5. Waiting(t, acts, batch)
    <3>1. \A j \in 1 .. n : t[j].for = marked[j].for
      BY <2>2
    <3> QED BY <1>2, <1>3, <2>2, <3>1 DEF Waiting
  <2>6. LastPassed(t) <=> i = n \/ LastPassed(lists)
    <3>1. CASE i = n
      BY <2>2, <2>3, <3>1 DEF LastPassed, Passed
    <3>2. CASE i # n
      <4>1. t[n] = marked[n]
        BY <1>4, <2>2, <3>2
      <4> QED BY <1>2, <1>4, <1>5, <2>3, <3>2, <4>1 DEF LastPassed
    <3> QED BY <3>1, <3>2
  <2>7. i # n => t[n].at = lists[n].at /\ t[n].names = lists[n].names /\ t[n].of = lists[n].of
    BY <1>2, <1>4, <2>2
  <2> QED BY <2>1, <2>3, <2>4, <2>5, <2>6, <2>7 DEF n
<1> QED BY <1>6, <1>7

\* Before the first answer, the list asked for at the start decides.
LEMMA TrackedInit == Init => Tracked
<1> SUFFICES ASSUME Init PROVE Tracked
  OBVIOUS
<1>1. lists = <<Asked(route, Nobody)>> /\ sound = FALSE
  BY DEF Init, BrowserInit
<1> DEFINE l == Asked(route, Nobody)
<1>2. l.at = "sent" /\ l.late = FALSE /\ l.for = Nobody /\ l.of = route
  BY DEF Asked
<1> HIDE DEF l
<1>3. Len(lists) = 1 /\ DOMAIN lists = {1} /\ lists[1] = l /\ lists # <<>>
  BY <1>1 DEF l
<1>4. ~Passed(lists[1]) /\ ~LastPassed(lists)
  BY <1>2, <1>3 DEF Passed, LastPassed
<1> QED BY <1>1, <1>2, <1>3, <1>4 DEF Tracked, Ordered, Waiting, Newest

\* A step that asks for no list and uses none: what waits for one still waits, and
\* the directories change only if a list will follow or the page does not know.
LEMMA ElseTracks ==
  ASSUME Tracked, UNCHANGED <<lists, route, shown, sound>>,
         Waiting(lists, acts', batch'),
         Quiet(acts', batch', dirty') => Quiet(acts, batch, dirty) /\ disk' = disk
  PROVE  Tracked'
<1>1. Newest'
  BY DEF Tracked, Newest
<1> QED BY <1>1 DEF Tracked

\* A new list is the newest, and under way.
LEMMA ReloadTracks ==
  ASSUME ListsInv, Ordered(lists), Waiting(lists, acts', batch'),
         NEW c, Reload(route', c), c # Nobody => Reloading(c, acts', batch'),
         c # Nobody => \A j \in DOMAIN lists : lists[j].for # c
  PROVE  Tracked'
<1> DEFINE l == Asked(route', c)  n == Len(lists)
<1>1. lists \in Seq(Lists) /\ n \in Nat /\ DOMAIN lists = 1 .. n
  BY DEF ListsInv
<1>2. l.at = "sent" /\ l.late = FALSE /\ l.for = c /\ l.of = route'
  BY DEF Asked
<1>3. lists' = Append(lists, l)
  BY DEF Reload
<1> HIDE DEF l
<1>4. /\ Len(lists') = n + 1 /\ DOMAIN lists' = 1 .. n + 1 /\ lists'[n + 1] = l
      /\ \A j \in 1 .. n : lists'[j] = lists[j]
  BY <1>1, <1>3
<1> HIDE DEF n
<1>5. ~Passed(l)
  BY <1>2 DEF Passed
<1>6. Ordered(lists')
  <2> SUFFICES ASSUME NEW j \in DOMAIN lists', NEW k \in DOMAIN lists', j < k,
                      Passed(lists'[k])
               PROVE  lists'[j].late
    BY DEF Ordered
  <2>1. k # n + 1
    BY <1>4, <1>5
  <2>2. j \in 1 .. n /\ k \in 1 .. n
    BY <1>1, <1>4, <2>1
  <2> QED BY <1>1, <1>4, <2>2 DEF Ordered
<1>7. Waiting(lists', acts', batch')
  <2> SUFFICES ASSUME NEW j \in DOMAIN lists', lists'[j].for # Nobody
               PROVE  /\ Reloading(lists'[j].for, acts', batch')
                      /\ \A k \in DOMAIN lists' : k # j => lists'[k].for # lists'[j].for
    BY DEF Waiting
  <2>1. CASE j = n + 1
    <3>1. \A k \in DOMAIN lists' : k # j => k \in 1 .. n
      BY <1>1, <1>4, <2>1
    <3> QED BY <1>1, <1>2, <1>4, <2>1, <3>1
  <2>2. CASE j # n + 1
    <3>1. j \in 1 .. n /\ \A k \in DOMAIN lists' : k = n + 1 \/ k \in 1 .. n
      BY <1>1, <1>4, <2>2
    <3>2. /\ Reloading(lists[j].for, acts', batch')
          /\ \A k \in 1 .. n : k # j => lists[k].for # lists[j].for
      BY <1>1, <1>4, <3>1 DEF Waiting
    <3>3. lists[j].for # c
      BY <1>1, <1>4, <3>1
    <3> QED BY <1>2, <1>4, <3>1, <3>2, <3>3
  <2> QED BY <2>1, <2>2
<1>8. ~LastPassed(lists') /\ lists'[Len(lists')].at = "sent" /\ lists'[Len(lists')].of = route'
  <2>1. lists' # <<>> /\ lists'[Len(lists')] = l
    BY <1>1, <1>3, <1>4
  <2> QED BY <1>2, <1>5, <2>1 DEF LastPassed
<1>9. Newest'
  BY <1>8 DEF Newest
<1> QED BY <1>6, <1>7, <1>9 DEF Tracked

\* The list that is served has the entries of this moment.
LEMMA ServeListTracks ==
  ASSUME PanelInv, Tracked, NEW i \in DOMAIN lists, ServeList(i), UNCHANGED batch
  PROVE  Tracked'
<1> DEFINE l == [lists[i] EXCEPT !.at = "served", !.names = disk[lists[i].of]]
           n == Len(lists)
<1>1. /\ lists \in Seq(Lists) /\ n \in Nat /\ DOMAIN lists = 1 .. n /\ i \in 1 .. n
      /\ lists[i] \in Lists /\ lists[i].at = "sent"
      /\ UNCHANGED <<disk, route, shown, acts, sound, dirty>>
  BY DEF PanelInv, ListsInv, ServeList
<1>2. /\ l.at = "served" /\ l.names = disk[lists[i].of] /\ l.of = lists[i].of
      /\ l.late = lists[i].late /\ l.for = lists[i].for
  BY <1>1 DEF Lists
<1>3. lists' = [lists EXCEPT ![i] = l]
  BY DEF ServeList
<1> HIDE DEF l
<1>4. /\ DOMAIN lists' = 1 .. n /\ Len(lists') = n /\ lists'[i] = l
      /\ \A j \in 1 .. n : j # i => lists'[j] = lists[j]
      /\ lists' # <<>> /\ lists # <<>> /\ n \in 1 .. n
  <2>1. Len(lists') = n /\ DOMAIN lists' = 1 .. n
    BY <1>1, <1>3
  <2>2. lists' # <<>> /\ lists # <<>> /\ n \in 1 .. n
    BY <1>1, <2>1
  <2> QED BY <1>1, <1>3, <2>1, <2>2
<1> HIDE DEF n
<1>5. \A j \in 1 .. n : /\ lists'[j].late = lists[j].late /\ lists'[j].for = lists[j].for
                        /\ lists'[j].of = lists[j].of
                        /\ Passed(lists'[j]) <=> Passed(lists[j])
  BY <1>1, <1>2, <1>4 DEF Passed
<1>6. Ordered(lists')
  BY <1>1, <1>4, <1>5 DEF Tracked, Ordered
<1>7. Waiting(lists', acts', batch')
  BY <1>1, <1>4, <1>5 DEF Tracked, Waiting
<1>8. LastPassed(lists') <=> LastPassed(lists)
  BY <1>4, <1>5 DEF LastPassed, n
<1>9. lists'[n] = lists[n] \/ lists'[n].names = disk[lists'[n].of]
  BY <1>2, <1>4
<1>10. Newest'
  BY <1>1, <1>4, <1>5, <1>8, <1>9 DEF Tracked, Newest, n
<1> QED BY <1>6, <1>7, <1>10 DEF Tracked

\* A list that is used, or fails, passes those asked for before it.
LEMMA UseListTracks ==
  ASSUME PanelInv, Tracked, NEW i \in DOMAIN lists, UseList(i) \/ ListFails(i), UNCHANGED batch
  PROVE  Tracked'
<1>1. /\ lists \in Seq(Lists) /\ Len(lists) \in Nat /\ DOMAIN lists = 1 .. Len(lists)
      /\ i \in 1 .. Len(lists) /\ lists # <<>>
      /\ Ordered(lists) /\ Waiting(lists, acts, batch) /\ Newest
  BY DEF PanelInv, ListsInv, Tracked
<1>2. /\ lists' = Used(i) /\ UNCHANGED <<disk, route, acts, dirty>>
      /\ \/ /\ lists[i].at = "served" /\ shown'.of = lists[i].of /\ shown'.names = lists[i].names
            /\ sound' = ~lists[i].late
         \/ sound' = FALSE
  BY DEF UseList, ListFails
<1>3. /\ Ordered(lists') /\ Waiting(lists', acts', batch')
      /\ LastPassed(lists') <=> i = Len(lists) \/ LastPassed(lists)
      /\ ~LastPassed(lists') => /\ lists'[Len(lists')].at = lists[Len(lists)].at
                                /\ lists'[Len(lists')].of = lists[Len(lists)].of
                                /\ lists'[Len(lists')].names = lists[Len(lists)].names
  BY <1>1, <1>2, UsedKeeps
\* The list that is used is in order only if none after it was used before.
<1>4. ASSUME LastPassed(lists'), sound'
      PROVE  /\ i = Len(lists) /\ ~LastPassed(lists) /\ lists[i].at = "served"
             /\ shown'.of = lists[i].of /\ shown'.names = lists[i].names
  <2>1. /\ lists[i].at = "served" /\ ~lists[i].late
        /\ shown'.of = lists[i].of /\ shown'.names = lists[i].names
    BY <1>2, <1>4
  <2>2. ~Passed(lists[i])
    BY <2>1 DEF Passed
  <2>3. ~Passed(lists[Len(lists)])
    <3>1. CASE i = Len(lists)
      BY <2>2, <3>1
    <3>2. CASE i # Len(lists)
      <4>1. i < Len(lists) /\ Len(lists) \in DOMAIN lists
        BY <1>1, <3>2
      <4> QED BY <1>1, <2>1, <4>1 DEF Ordered
    <3> QED BY <3>1, <3>2
  <2>4. ~LastPassed(lists)
    BY <1>1, <2>3 DEF LastPassed
  <2> QED BY <1>3, <1>4, <2>1, <2>4
<1>5. Quiet(acts', batch', dirty') <=> Quiet(acts, batch, dirty)
  BY <1>2 DEF Quiet
<1>6. Newest'
  <2>1. LastPassed(lists') /\ sound' =>
          /\ shown'.of = route'
          /\ Quiet(acts', batch', dirty') => shown'.names = disk'[route']
    BY <1>1, <1>2, <1>4, <1>5 DEF Newest
  <2>2. ~LastPassed(lists') =>
          /\ lists'[Len(lists')].of = route'
          /\ Quiet(acts', batch', dirty') /\ lists'[Len(lists')].at = "served"
               => lists'[Len(lists')].names = disk'[route']
    BY <1>1, <1>2, <1>3, <1>5 DEF Newest
  <2> QED BY <2>1, <2>2 DEF Newest
<1> QED BY <1>3, <1>6 DEF Tracked

\* What waited for a list lets go of it, when it is over.
LEMMA OverTracks ==
  ASSUME PanelInv, Tracked, NEW i \in DOMAIN lists, NEW c \in Acts \cup Uploads,
         lists[i].at = "over", lists[i].for = c, lists' = RemoveAt(lists, i),
         UNCHANGED <<disk, route, shown, sound, dirty>>,
         \A a \in Acts : a # c => acts'[a] = acts[a],
         \A b \in Uploads : b # c => batch'[b] = batch[b]
  PROVE  Tracked'
<1>1. /\ lists \in Seq(Lists) /\ Len(lists) \in Nat /\ DOMAIN lists = 1 .. Len(lists)
      /\ i \in 1 .. Len(lists) /\ lists # <<>>
      /\ Ordered(lists) /\ Waiting(lists, acts, batch) /\ Newest
  BY DEF PanelInv, ListsInv, Tracked
<1>2. c # Nobody
  BY BrowserAssumption, SelectionAssumption
<1>3. Passed(lists[i])
  BY DEF Passed
<1>4. \A j \in DOMAIN lists : j < i => lists[j].late
  BY <1>1, <1>3 DEF Ordered
<1>5. /\ Ordered(lists') /\ Waiting(lists', acts, batch)
      /\ LastPassed(lists') <=> i = Len(lists) \/ LastPassed(lists)
      /\ ~LastPassed(lists') => lists'[Len(lists')] = lists[Len(lists)]
      /\ \A j \in DOMAIN lists' : lists'[j].for # c
  <2> DEFINE t == RemoveAt(lists, i)
  <2>1. /\ Ordered(t)
        /\ LastPassed(t) <=> i = Len(lists) \/ LastPassed(lists)
        /\ ~LastPassed(t) => t[Len(t)] = lists[Len(lists)]
        /\ \A as, bs : Waiting(lists, as, bs) => Waiting(t, as, bs)
        /\ \A as, bs : Waiting(lists, as, bs) =>
             \A j \in DOMAIN t : lists[i].for # Nobody => t[j].for # lists[i].for
    <3>1. lists \in Seq(Lists) /\ i \in DOMAIN lists /\ Ordered(lists)
      BY <1>1
    <3> QED BY ONLY <3>1, <1>4, DropKeeps
  <2>2. t = lists'
    OBVIOUS
  <2> HIDE DEF t
  <2> QED BY <1>1, <1>2, <2>1, <2>2
<1>6. LastPassed(lists') <=> LastPassed(lists)
  BY <1>1, <1>3, <1>5 DEF LastPassed
<1>7. Waiting(lists', acts', batch')
  BY <1>5 DEF Waiting, Reloading
<1>8. Reloading(c, acts, batch)
  BY <1>1, <1>2 DEF Waiting
<1>9. Quiet(acts', batch', dirty') => Quiet(acts, batch, dirty)
  BY <1>8 DEF Quiet, Reloading
<1>10. Newest'
  BY <1>1, <1>5, <1>6, <1>9 DEF Newest
<1> QED BY <1>5, <1>7, <1>10 DEF Tracked

\* What a change or an upload does when it waits for no list is no concern of the
\* lists, unless it changed a directory.
LEMMA OneTracks ==
  ASSUME Tracked, UNCHANGED <<lists, route, shown, sound>>,
         NEW c \in Acts \cup Uploads, ~Reloading(c, acts, batch),
         \A a \in Acts : a # c => acts'[a] = acts[a],
         \A b \in Uploads : b # c => batch'[b] = batch[b],
         \/ /\ UNCHANGED <<disk, dirty>>
            /\ c \in Acts => acts[c].at # "done"
            /\ c \in Uploads => batch[c].at # "uploading"
         \/ c \in Acts /\ acts'[c].at = "done"
         \/ c \in Uploads /\ batch'[c].at = "uploading"
         \/ dirty'
  PROVE  Tracked'
<1>1. c # Nobody
  BY BrowserAssumption, SelectionAssumption
<1>2. \A j \in DOMAIN lists : lists[j].for # c
  BY <1>1 DEF Tracked, Waiting
<1>3. Waiting(lists, acts', batch')
  BY <1>2 DEF Tracked, Waiting, Reloading
<1>4. Quiet(acts', batch', dirty') => Quiet(acts, batch, dirty) /\ disk' = disk
  BY DEF Quiet
<1> QED BY <1>3, <1>4, ElseTracks

\* Every step of the page keeps the newest list deciding.
LEMMA PageTracks ==
  ASSUME PanelInv, Tracked, UNCHANGED uploadVars,
         BrowserAnswered \/ BrowserUser \/ BrowserClicked
  PROVE  Tracked'
<1>1. /\ ListsInv /\ batch' = batch /\ acts \in [Acts -> Submitted \cup {NoAct}]
      /\ Ordered(lists) /\ Waiting(lists, acts, batch)
      /\ \A a \in Acts : a \notin Uploads
  BY SelectionAssumption DEF PanelInv, PageInv, Tracked, uploadVars
<1>2. ASSUME NEW i \in DOMAIN lists, ServeList(i) \/ UseList(i) \/ ListFails(i) PROVE Tracked'
  BY <1>1, <1>2, ServeListTracks, UseListTracks
<1>3. ASSUME NEW i \in DOMAIN lists, NEW a \in Acts, ActOver(a, i) PROVE Tracked'
  <2>1. /\ lists[i].at = "over" /\ lists[i].for = a /\ lists' = RemoveAt(lists, i)
        /\ UNCHANGED <<disk, route, shown, sound, dirty>>
        /\ \A f \in Acts : f # a => acts'[f] = acts[f]
    BY <1>1, <1>3 DEF ActOver
  <2> QED BY <1>1, <2>1, OverTracks
<1>4. ASSUME NEW a \in Acts, ServeAct(a) \/ RefuseAct(a) \/ ActFailed(a) PROVE Tracked'
  <2>1. /\ acts[a].at \in {"sent", "failed"}
        /\ UNCHANGED <<lists, route, shown, sound>>
        /\ \A f \in Acts : f # a => acts'[f] = acts[f]
    BY <1>1, <1>4 DEF ServeAct, RefuseAct, ActFailed
  <2>2. \/ UNCHANGED <<disk, dirty>> \/ acts'[a].at = "done" \/ dirty'
    <3>1. acts[a] \in Submitted
      BY <1>1, <2>1 DEF NoAct
    <3>2. CASE ServeAct(a)
      BY <1>1, <3>1, <3>2 DEF ServeAct, Submitted
    <3>3. CASE RefuseAct(a) \/ ActFailed(a)
      BY <3>3 DEF RefuseAct, ActFailed
    <3> QED BY <1>4, <3>2, <3>3
  <2>3. ~Reloading(a, acts, batch)
    BY <2>1 DEF Reloading
  <2> QED BY <1>1, <2>1, <2>2, <2>3, OneTracks
<1>5. ASSUME NEW a \in Acts, ActDone(a) PROVE Tracked'
  <2>1. /\ acts[a].at = "done" /\ route' = route /\ Reload(route', a)
        /\ acts' = [acts EXCEPT ![a].at = "reloading"]
    BY <1>5 DEF ActDone
  <2>2. acts'[a].at = "reloading" /\ \A f \in Acts : f # a => acts'[f] = acts[f]
    <3>1. acts[a] \in Submitted
      BY <1>1, <2>1 DEF NoAct
    <3> QED BY <1>1, <2>1, <3>1 DEF Submitted
  <2>3. a # Nobody /\ Reloading(a, acts', batch')
    BY <1>1, <2>2, BrowserAssumption DEF Reloading
  <2>4. \A j \in DOMAIN lists : lists[j].for # a
    BY <1>1, <2>1, <2>3 DEF Waiting, Reloading
  <2>5. Waiting(lists, acts', batch')
    BY <1>1, <2>2, <2>4 DEF Waiting, Reloading
  <2> QED BY <1>1, <2>1, <2>3, <2>4, <2>5, ReloadTracks
<1>6. ASSUME Reload(route', Nobody), acts' = acts PROVE Tracked'
  BY <1>1, <1>6, ReloadTracks
<1>7. ASSUME NEW to \in Places, Navigate(to) PROVE Tracked'
  BY <1>6, <1>7 DEF Navigate, AddressChanges
<1>8. CASE Refresh
  BY <1>6, <1>8 DEF Refresh
<1>9. ASSUME UNCHANGED <<disk, route, shown, lists, acts, sound, dirty>> PROVE Tracked'
  BY <1>1, <1>9, ElseTracks
<1>10. ASSUME NEW path, NEW to, Act(path, to) PROVE Tracked'
  <2> DEFINE a == CHOOSE free \in Acts : acts[free] = NoAct
             x == [at |-> "sent", kind |-> dialog.kind, box |-> dialog.box, path |-> path, to |-> to]
  <2>1. a \in Acts /\ acts[a] = NoAct
    BY <1>10 DEF Act
  <2>2. acts' = [acts EXCEPT ![a] = x] /\ UNCHANGED <<disk, route, shown, lists, sound, dirty>>
    BY <1>10 DEF Act
  <2> HIDE DEF a, x
  <2>3. acts[a].at = "off" /\ \A f \in Acts : f # a => acts'[f] = acts[f]
    BY <1>1, <2>1, <2>2 DEF NoAct
  <2>4. ~Reloading(a, acts, batch)
    BY <2>1, <2>3 DEF Reloading
  <2> QED BY <1>1, <2>1, <2>2, <2>3, <2>4, OneTracks
<1>11. ASSUME NEW path, Foreign(path) PROVE Tracked'
  <2>1. dirty' = TRUE /\ UNCHANGED <<route, shown, lists, acts, sound>>
    BY <1>11 DEF Foreign
  <2>2. ~Quiet(acts', batch', dirty')
    BY <2>1 DEF Quiet
  <2> QED BY <1>1, <2>1, <2>2, ElseTracks
<1>12. CASE BrowserAnswered
  BY <1>2, <1>3, <1>4, <1>5, <1>12 DEF BrowserAnswered
<1>13. CASE BrowserClicked
  <2>1. \A box, kind, n : Prompt(box, kind, n) => Tracked'
    BY <1>9 DEF Prompt
  <2>2. \A n : PromptMove(n) \/ PromptDelete(n) \/ Preview(n) => Tracked'
    BY <1>9, <2>1 DEF PromptMove, PromptDelete, Preview
  <2>3. \A kind, n : PromptName(kind, n) => Tracked'
    BY <2>1 DEF PromptName
  <2> QED BY <1>8, <1>13, <2>2, <2>3 DEF BrowserClicked
<1>14. CASE BrowserUser
  <2>1. \A n : SubmitName(n) => Tracked'
    BY <1>10 DEF SubmitName
  <2>2. \A to : SubmitMove(to) => Tracked'
    BY <1>10 DEF SubmitMove
  <2>3. ConfirmDelete => Tracked'
    BY <1>10 DEF ConfirmDelete
  <2>4. Cancel \/ CloseAlert \/ ClosePreview => Tracked'
    BY <1>9 DEF Cancel, CloseAlert, ClosePreview
  <2>5. \A n : Step(n) => Tracked'
    BY <1>9 DEF Step
  <2> QED BY <1>7, <1>11, <1>14, <2>1, <2>2, <2>3, <2>4, <2>5 DEF BrowserUser
<1> QED BY <1>12, <1>13, <1>14

\* And so does every step of the uploads.
LEMMA UploadsTrack ==
  ASSUME PanelInv, Tracked
  PROVE  /\ \A b \in Uploads :
              /\ Collected(b) \/ FileSent(b) \/ FileFails(b) \/ TimerFires(b) => Tracked'
              /\ \A i \in DOMAIN lists : BatchDone(b, i) => Tracked'
              /\ \A s \in Selections : Pick(b, s) \/ Drop(b, s) => Tracked'
         /\ \A value, forAll : Answer(value, forAll) => Tracked'
         /\ Dismiss => Tracked'
<1>1. /\ ListsInv /\ UploadsInv /\ DOMAIN batch = Uploads
      /\ Ordered(lists) /\ Waiting(lists, acts, batch)
      /\ \A b \in Uploads : b \notin Acts /\ b # Nobody
  BY SelectionAssumption DEF PanelInv, UploadsInv, Tracked
<1>2. ASSUME NEW b \in Uploads, batch[b].at \notin {"reloading", "uploading"}, NEW r,
             batch' = [batch EXCEPT ![b] = r],
             UNCHANGED <<disk, route, shown, lists, acts, sound, dirty>>
      PROVE  Tracked'
  <2>1. ~Reloading(b, acts, batch)
    BY <1>2 DEF Reloading
  <2>2. \A c \in Uploads : c # b => batch'[c] = batch[c]
    BY <1>2
  <2> QED BY <1>1, <1>2, <2>1, <2>2, OneTracks
<1>3. ASSUME NEW b \in Uploads, Collected(b) PROVE Tracked'
  BY <1>2, <1>3 DEF Collected, Resume
<1>4. ASSUME NEW b \in Uploads, NEW s \in Selections, Pick(b, s) \/ Drop(b, s) PROVE Tracked'
  <2>1. batch[b].at = "none"
    BY <1>4 DEF Pick, Drop, Begins, Uploads, NoBatch
  <2> QED BY <1>2, <1>4, <2>1 DEF Pick, Drop, Resume
<1>5. ASSUME NEW value, NEW forAll, Answer(value, forAll) PROVE Tracked'
  <2>1. question.resolver \in Uploads /\ batch[question.resolver].at = "asking"
    BY <1>1, <1>5 DEF Answer, UploadsInv
  <2> QED BY <1>2, <1>5, <2>1 DEF Answer, Resume
<1>6. CASE Dismiss
  BY <1>1, <1>6, ElseTracks DEF Dismiss, browserVars
<1>7. ASSUME NEW b \in Uploads, TimerFires(b) PROVE Tracked'
  <2>1. batch' = [batch EXCEPT ![b] = [batch[b] EXCEPT !.at = "over"]]
    BY <1>7 DEF TimerFires
  <2> QED BY <1>2, <1>7, <2>1 DEF TimerFires, browserVars
<1>8. ASSUME NEW b \in Uploads, FileSent(b) \/ FileFails(b) PROVE Tracked'
  <2>1. FileWent(b)
    BY <1>8, FilesGo
  <2>2. ~Reloading(b, acts, batch)
    BY <2>1 DEF FileWent, Reloading
  <2>3. CASE batch'[b].at = "uploading"
    BY <1>1, <2>1, <2>2, <2>3, OneTracks DEF FileWent
  <2>4. CASE batch'[b].at = "reloading"
    <3>1. Reload(route', b) /\ Reloading(b, acts', batch')
      BY <1>1, <2>1, <2>4 DEF FileWent, Reloading
    <3>2. \A j \in DOMAIN lists : lists[j].for # b
      BY <1>1, <2>2 DEF Waiting
    <3>3. Waiting(lists, acts', batch')
      BY <1>1, <2>1, <3>2 DEF FileWent, Waiting, Reloading
    <3> QED BY <1>1, <3>1, <3>2, <3>3, ReloadTracks
  <2> QED BY <2>1, <2>3, <2>4 DEF FileWent
<1>9. ASSUME NEW b \in Uploads, NEW i \in DOMAIN lists, BatchDone(b, i) PROVE Tracked'
  <2>1. /\ lists[i].at = "over" /\ lists[i].for = b /\ lists' = RemoveAt(lists, i)
        /\ UNCHANGED <<disk, route, shown, acts, sound, dirty>>
        /\ \A c \in Uploads : c # b => batch'[c] = batch[c]
    BY <1>1, <1>9 DEF BatchDone
  <2> QED BY <1>1, <2>1, OverTracks
<1> QED BY <1>3, <1>4, <1>5, <1>6, <1>7, <1>8, <1>9

-----------------------------------------------------------------------------
(* The theorems.                                                           *)

UploadPageInv == PanelInv /\ Tracked

\* Every step keeps the page and the uploads well formed, and the newest list deciding.
LEMMA UploadPageStep == UploadPageInv /\ [Next]_vars => UploadPageInv'
<1> SUFFICES ASSUME PanelInv, Tracked, [Next]_vars PROVE PanelInv' /\ Tracked'
  BY DEF UploadPageInv
<1>1. CASE UNCHANGED vars
  <2>1. ListsInv' /\ PageInv' /\ UploadsInv'
    BY <1>1 DEF vars, PanelInv, ListsInv, PageInv, UploadsInv
  <2>2. Tracked'
    BY <1>1 DEF vars, Tracked, Newest
  <2> QED BY <2>1, <2>2 DEF PanelInv
<1>2. ASSUME UNCHANGED uploadVars, BrowserAnswered \/ BrowserUser \/ BrowserClicked
      PROVE  PanelInv' /\ Tracked'
  <2>1. ListsInv' /\ PageInv'
    BY <1>2, ListSteps, ActSteps, UserSteps DEF BrowserAnswered
  <2>2. UploadsInv'
    BY <1>2 DEF uploadVars, PanelInv, UploadsInv
  <2> QED BY <1>2, <2>1, <2>2, PageTracks DEF PanelInv
<1>3. ASSUME NEW b \in Uploads, NEW i \in DOMAIN lists, BatchDone(b, i)
      PROVE  batch[b].at = "reloading"
  BY <1>3, SelectionAssumption DEF BatchDone, Tracked, Waiting, Reloading
<1>4. CASE Answered
  <2>1. CASE BrowserAnswered /\ UNCHANGED uploadVars
    BY <1>2, <2>1
  <2>2. ASSUME NEW b \in Uploads, Collected(b) PROVE PanelInv' /\ Tracked'
    BY <2>2, ChoiceSteps, UploadsTrack
  <2>3. ASSUME NEW b \in Uploads, FileSent(b) \/ FileFails(b) \/ TimerFires(b)
        PROVE  PanelInv' /\ Tracked'
    BY <2>3, FileSteps, UploadsTrack
  <2>4. ASSUME NEW b \in Uploads, NEW i \in DOMAIN lists, BatchDone(b, i)
        PROVE  PanelInv' /\ Tracked'
    BY <1>3, <2>4, FileSteps, UploadsTrack
  <2> QED BY <1>4, <2>1, <2>2, <2>3, <2>4 DEF Answered
<1>5. CASE User
  <2>1. CASE (BrowserUser \/ BrowserClicked) /\ UNCHANGED uploadVars
    BY <1>2, <2>1
  <2>2. ASSUME NEW b \in Uploads, NEW s \in Selections, Pick(b, s) \/ Drop(b, s)
        PROVE  PanelInv' /\ Tracked'
    BY <2>2, ChoiceSteps, UploadsTrack
  <2>3. ASSUME NEW value \in {"rename", "overwrite", "skip", "cancel"}, NEW forAll \in BOOLEAN,
               Answer(value, forAll)
        PROVE  PanelInv' /\ Tracked'
    BY <2>3, ChoiceSteps, UploadsTrack
  <2>4. CASE Dismiss
    BY <2>4, ChoiceSteps, UploadsTrack
  <2> QED BY <1>5, <2>1, <2>2, <2>3, <2>4 DEF User
<1> QED BY <1>1, <1>4, <1>5 DEF Next

\* The page and the uploads in every behaviour.
LEMMA UploadPageInvariant == Spec => []UploadPageInv
<1>1. Init => UploadPageInv
  BY PanelInit, TrackedInit DEF UploadPageInv
<1> QED BY <1>1, UploadPageStep, PTL DEF Spec

\* The page, its dialogs and requests and the uploads are well formed, for any
\* directories, names, changes and uploads that overlap.
THEOREM TypeCorrect == Spec => []TypeOK
<1>1. UploadPageInv => TypeOK
  <2> SUFFICES ASSUME PanelInv PROVE TypeOK
    BY DEF UploadPageInv
  <2>1. BrowserTypeOK
    <3>1. /\ Len(lists) <= MaxLists
          /\ \A i \in DOMAIN lists :
               /\ lists[i].of \in Places /\ lists[i].names \subseteq Entries
               /\ lists[i].at \in {"sent", "served", "over"} /\ lists[i].late \in BOOLEAN
      <4>1. Len(lists) <= MaxLists /\ \A i \in DOMAIN lists : lists[i] \in Lists
        BY DEF PanelInv, ListsInv
      <4> QED BY <4>1 DEF Lists
    <3>2. dialog = Closed \/ dialog.kind = "mkdir" \/ dialog.name \in Entries
      BY DEF PanelInv, PageInv, Dialogs
    <3>3. \A a \in Acts : acts[a] # NoAct => acts[a].path \in Paths /\ acts[a].to \in Paths
      BY DEF PanelInv, PageInv, Submitted
    <3>4. preview.name \in Entries \cup {Nobody}
      BY DEF PanelInv, PageInv
    <3> QED BY <3>1, <3>2, <3>3, <3>4 DEF BrowserTypeOK, PanelInv, PageInv
  <2>2. ASSUME NEW b \in Uploads, batch[b] # NoBatch
        PROVE  LET r == batch[b]
               IN  /\ r.at \in {"collecting", "asking", "uploading", "reloading", "lingering", "over"}
                   /\ r.at = "uploading" => r.to \in Places /\ r.next \in Kept(r)
                   /\ r.at = "asking" => r.next \in DOMAIN r.picks
                   /\ \A i \in DOMAIN r.picks : r.choice[i] \in {"rename", "overwrite", "skip"}
    <3> DEFINE r == batch[b]
    <3>1. Started(r)
      BY <2>2 DEF PanelInv, UploadsInv
    <3> HIDE DEF r
    <3>2. Shape(r)
      BY <3>1 DEF Started, Undecided, Decided
    <3>3. \A i \in DOMAIN r.picks : r.choice[i] \in {"rename", "overwrite", "skip"}
      BY <3>2 DEF Shape, Decisions
    <3>4. r.at \in {"collecting", "asking", "uploading", "reloading", "lingering", "over"}
      BY <3>1, <3>2 DEF Shape, Stages, Started
    <3> QED BY <3>1, <3>3, <3>4 DEF Started, r
  <2>3. /\ question.open => question.resolver \in Uploads /\ batch[question.resolver].at = "asking"
        /\ panel \in Uploads \cup {Nobody}
    BY DEF PanelInv, UploadsInv
  <2> QED BY <2>1, <2>2, <2>3 DEF TypeOK
<1> QED BY <1>1, UploadPageInvariant, PTL

\* Whatever overlaps with whatever and whatever fails, the page at rest shows the
\* directory of its address.
THEOREM DirectoryShown == Spec => []ShowsTheDirectory
<1>1. UploadPageInv => ShowsTheDirectory
  <2> SUFFICES ASSUME PanelInv, Tracked, AtRest, sound, ~dirty
               PROVE  shown = [of |-> route, names |-> disk[route]]
    BY DEF UploadPageInv, ShowsTheDirectory
  <2>1. LastPassed(lists) /\ Quiet(acts, batch, dirty)
    BY DEF AtRest, BrowserAtRest, LastPassed, Quiet, NoAct
  <2>2. shown.of = route /\ shown.names = disk[route]
    BY <2>1 DEF Tracked, Newest
  <2> QED BY <2>2 DEF PanelInv, PageInv
<1> QED BY <1>1, UploadPageInvariant, PTL

\* An upload replaces and stores what the user said and nothing else, however the
\* questions of several uploads, their answers and the address interleave.
THEOREM ChoicesAlwaysRespected == Spec => []ChoicesRespected
<1>1. UploadPageInv => ChoicesRespected
  <2> SUFFICES ASSUME PanelInv, NEW b \in Uploads, batch[b] # NoBatch,
                      NEW i \in DOMAIN batch[b].picks
               PROVE  /\ batch[b].hit[i] => Said(batch[b], i) = "overwrite"
                      /\ batch[b].told[i] \in {"skip", "cancel"} => batch[b].where[i] = Nobody
    BY DEF UploadPageInv, ChoicesRespected
  <2>1. Started(batch[b])
    BY DEF PanelInv, UploadsInv
  <2> QED BY <2>1 DEF Started, Undecided, Decided
<1> QED BY <1>1, UploadPageInvariant, PTL
=============================================================================
