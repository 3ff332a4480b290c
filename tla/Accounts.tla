------------------------------ MODULE Accounts ------------------------------
(***************************************************************************)
(* Accounts of easy-webdav: the users and sessions of the database, the    *)
(* Basic cache of the WebDAV service, and the requests that read and change*)
(* them: login, setup, the user administration of the panel, a user's own  *)
(* password change, WebDAV authentication, the offline admin commands, and *)
(* restarts.                                                               *)
(*                                                                         *)
(* The database serves one statement at a time (SetMaxOpenConns(1)), and no*)
(* handler uses a transaction: a request is a sequence of statements, and  *)
(* those of other requests come in between.  What a request has read stays *)
(* in its proc record and may be stale when it is used.                    *)
(*                                                                         *)
(* Left out: quota, permission, root directory and settings (no property   *)
(* reads them), the limiter (LoginLimiter), and requests that are refused  *)
(* before they change anything.                                            *)
(***************************************************************************)
EXTENDS Integers, FiniteSets

CONSTANTS Names,      \* user names
          Passwords,  \* passwords that HashPassword takes
          Ids,        \* ids of users: 1, 2, ..
          SessionIds, \* ids of sessions, in the order they are drawn: 1, 2, ..
          Requests,   \* what may be in flight at a time
          MaxStarts,  \* bound: requests begun in one behaviour
          TTL,        \* BasicAuthenticator.TTL, in ticks
          SessionIdle,\* ticks
          Commands    \* whether admin commands are given while the server runs

ASSUME AccountsAssumption ==
  /\ IsFiniteSet(Ids) /\ Ids = 1 .. Cardinality(Ids)
  /\ IsFiniteSet(SessionIds) /\ SessionIds = 1 .. Cardinality(SessionIds)
  /\ {1, 2} \subseteq Ids \cap SessionIds
  /\ {MaxStarts, SessionIdle} \subseteq Nat
  /\ TTL \in Nat \ {0}
  /\ Commands \in BOOLEAN

VARIABLES users,     \* the table users
          lastId,    \* its AUTOINCREMENT sequence
          sessions,  \* the table sessions
          drawn,     \* how many session ids were drawn
          cache,     \* the Basic cache of the WebDAV service
          proc,      \* the requests in flight
          starts,    \* requests begun so far
          accounts,  \* how many accounts were ever created (observed only)
          unrevoked  \* accounts whose revocation failed or was cut (observed only)

vars == <<users, lastId, sessions, drawn, cache, proc, starts, accounts, unrevoked>>

Roles == {"admin", "user"}

(* Rows, sessions and cache entries carry what the properties compare:     *)
(* serial tells accounts apart whatever their id, epoch counts the password*)
(* changes and disablings of an account, and since the time since then.  An*)
(* entry is late if its password was verified before the last of them and  *)
(* entered after it.                                                       *)

NoRow == [role |-> "none"]

NewRow(n, p, role, serial) ==
  [name |-> n, pass |-> p, role |-> role, disabled |-> FALSE,
   serial |-> serial, epoch |-> 0, since |-> TTL]

Row == [name : Names, pass : Passwords, role : Roles, disabled : BOOLEAN,
        serial : Nat, epoch : Nat, since : 0 .. TTL]

NoSession == [user |-> 0]

Session == [user : Ids, age : 0 .. SessionIdle + 1, serial : Nat, epoch : Nat]

NoEntry == [user |-> 0]

Entry == [user : Ids, left : 0 .. TTL, serial : Nat, epoch : Nat, late : BOOLEAN]

NoName == ""

NoPassword == ""

(* A request: the step it has come to, and what it has read or been given. *)
Steps == {"idle", "in",                          \* not begun; let in by WebDAV
          "lookup", "ready", "target", "revoke", \* the panel
          "delete", "drop", "put",
          "setup", "login",
          "hit", "miss", "insert"}               \* WebDAV

Request ==
  [at    : Steps,
   cli   : BOOLEAN,                  \* an admin command, not a request to the server
   who   : Ids \cup {0},             \* the user it acts for, once let in
   role  : Roles \cup {""},          \* of who, or of the target
   sid   : SessionIds \cup {0},      \* its cookie
   user  : Ids \cup {0},             \* the user read, or the target
   name  : Names \cup {NoName},
   pass  : Passwords \cup {NoPassword},
   off   : BOOLEAN,                  \* the disabled field of a PUT
   serial : Nat,                     \* of user when it was read (observed only)
   epoch : Nat,                      \* of the account when it changed or verified its
                                     \* password (observed only)
   out   : SUBSET Ids,               \* shut out all along (observed only)
   outdated : BOOLEAN]               \* an admin has gone since the count (observed only)

Idle == [at |-> "idle", cli |-> FALSE, who |-> 0, role |-> "", sid |-> 0,
         user |-> 0, name |-> NoName, pass |-> NoPassword, off |-> FALSE,
         serial |-> 0, epoch |-> 0, out |-> {}, outdated |-> FALSE]

Exists(id) == users[id] # NoRow

\* Seeded fault: any row will do, disabled or not.
FaultyEnabled(id) == Exists(id)

Enabled(id) == Exists(id) /\ ~users[id].disabled

\* AdminCount
EnabledAdmins == {id \in Ids : Exists(id) /\ ~users[id].disabled /\ users[id].role = "admin"}

Named(n) == {id \in Ids : Exists(id) /\ users[id].name = n}

\* Seeded fault: a column that is not UNIQUE.
FaultyTaken(n, id) == FALSE

\* UNIQUE: the name belongs to another row than id.
Taken(n, id) == Named(n) \ {id} # {}

Keys == Names \X Passwords

-----------------------------------------------------------------------------
(* Steps of requests.                                                      *)

\* The users that nobody may act for.
Shut == {id \in Ids : Exists(id) => users[id].disabled}

\* A request begins, at a step of its own and with what it was given.
Begins(r, req) ==
  /\ proc[r] = Idle
  /\ starts < MaxStarts
  /\ starts' = starts + 1
  /\ proc' = [proc EXCEPT ![r] = req]

Goes(r, req) ==
  /\ proc' = [proc EXCEPT ![r] = req]
  /\ UNCHANGED starts

Ends(r) == Goes(r, Idle)

At(r, step) == proc[r].at = step

\* A request goes on while an account comes back or comes into being.
LettingIn(r, req, id) ==
  /\ proc' = [q \in Requests |-> IF q = r THEN req
                                 ELSE [proc[q] EXCEPT !.out = @ \ {id}]]
  /\ UNCHANGED starts

\* A request goes on as it takes an enabled administrator away.
WithoutAdmin(r, next) ==
  /\ proc' = [q \in Requests |->
                IF q = r THEN next
                ELSE [proc[q] EXCEPT !.outdated = @ \/ proc[q].at \in {"delete", "drop", "put"}]]
  /\ UNCHANGED starts

-----------------------------------------------------------------------------
(* The tables.                                                             *)

\* Seeded fault: a table without AUTOINCREMENT takes the largest id again.
FaultyNextId == 1 + (CHOOSE m \in Ids \cup {0} :
                       /\ m = 0 \/ Exists(m)
                       /\ \A id \in Ids : Exists(id) => id <= m)

NextId == lastId + 1

\* CreateUser: the name is UNIQUE.
Insert(n, p, role) ==
  /\ ~Taken(n, 0)
  /\ NextId \in Ids
  /\ users' = [users EXCEPT ![NextId] = NewRow(n, p, role, accounts + 1)]
  /\ lastId' = NextId
  /\ accounts' = accounts + 1

\* Sessions.Create: ids are random, so none is drawn twice.
DrawSession(id, serial) ==
  /\ drawn + 1 \in SessionIds
  /\ drawn' = drawn + 1
  /\ sessions' = [sessions EXCEPT ![drawn + 1] =
        [user |-> id, age |-> 0, serial |-> serial,
         epoch |-> IF Exists(id) THEN users[id].epoch ELSE 0]]

\* DeleteUserSessionsExcept and DeleteUserSessions (keep = 0).  What is kept is
\* from then on of the epoch in which the request changed the password.
Revoked(id, keep, epoch) ==
  [s \in SessionIds |->
     IF sessions[s].user # id THEN sessions[s]
     ELSE IF s = keep THEN [sessions[s] EXCEPT !.epoch = IF epoch > @ THEN epoch ELSE @]
     ELSE NoSession]

\* BasicAuthenticator.ClearUser, as the panel calls it: server.New gives the
\* panel an authenticator of its own, whose cache nothing ever enters, and
\* NewService makes another one for WebDAV, whose cache stays as it is.
ClearUser(id) == cache

\* UpdateUserPassword and UpdateUser on a row.
WithPassword(row, p) ==
  [row EXCEPT !.pass = p, !.epoch = @ + 1, !.since = 0]

Edited(row, n, off) ==
  [row EXCEPT !.name = n, !.disabled = off,
              !.epoch = IF off THEN @ + 1 ELSE @,
              !.since = IF off THEN 0 ELSE @]

(* The database is empty, or it has an administrator and another account,  *)
(* both with a session.                                                    *)

EmptyTables ==
  /\ users = [id \in Ids |-> NoRow]
  /\ lastId = 0
  /\ accounts = 0
  /\ sessions = [s \in SessionIds |-> NoSession]
  /\ drawn = 0

TwoAccounts ==
  /\ \E n \in Names : \E m \in Names \ {n}, p, q \in Passwords, role \in Roles :
       users = [id \in Ids |-> CASE id = 1 -> NewRow(n, p, "admin", 1)
                                 [] id = 2 -> NewRow(m, q, role, 2)
                                 [] OTHER -> NoRow]
  /\ lastId = 2
  /\ accounts = 2
  /\ sessions = [s \in SessionIds |->
                   IF s <= 2 THEN [user |-> s, age |-> 0, serial |-> s, epoch |-> 0]
                   ELSE NoSession]
  /\ drawn = 2

Init ==
  /\ EmptyTables \/ TwoAccounts
  /\ cache = [k \in Keys |-> NoEntry]
  /\ proc = [r \in Requests |-> Idle]
  /\ starts = 0
  /\ unrevoked = {}

-----------------------------------------------------------------------------
(* The panel: a session cookie, then the handler.                          *)

\* Sessions.Lookup reads the session ..
PanelRequest(r, s) ==
  /\ sessions[s] # NoSession
  /\ sessions[s].age <= SessionIdle
  /\ Begins(r, [Idle EXCEPT !.at = "lookup", !.sid = s, !.user = sessions[s].user,
                            !.out = Shut])
  /\ UNCHANGED <<users, lastId, sessions, drawn, cache, accounts, unrevoked>>

\* .. then its user, and touches it.
PanelLookup(r) ==
  LET q == proc[r] IN
  /\ At(r, "lookup")
  /\ IF Enabled(q.user)
     THEN /\ Goes(r, [q EXCEPT !.at = "ready", !.who = q.user,
                               !.role = users[q.user].role, !.pass = users[q.user].pass])
          /\ sessions' = [sessions EXCEPT ![q.sid] =
                            IF @ = NoSession THEN @ ELSE [@ EXCEPT !.age = 0]]
     ELSE Ends(r) /\ UNCHANGED sessions
  /\ UNCHANGED <<users, lastId, drawn, cache, accounts, unrevoked>>

\* The many requests that change no account.
PanelServed(r) ==
  /\ At(r, "ready")
  /\ Ends(r)
  /\ UNCHANGED <<users, lastId, sessions, drawn, cache, accounts, unrevoked>>

\* Logout asks for the cookie only.
Logout(s) ==
  /\ starts < MaxStarts
  /\ starts' = starts + 1
  /\ sessions[s] # NoSession
  /\ sessions' = [sessions EXCEPT ![s] = NoSession]
  /\ UNCHANGED <<users, lastId, drawn, cache, proc, accounts, unrevoked>>

\* Password: the current password is checked against the row as it was read.
OwnPassword(r, current, p) ==
  LET q == proc[r] IN
  /\ At(r, "ready")
  /\ current = q.pass
  /\ users' = [users EXCEPT ![q.who] = IF @ = NoRow THEN @ ELSE WithPassword(@, p)]
  /\ Goes(r, [Idle EXCEPT !.at = "revoke", !.user = q.who, !.sid = q.sid,
                          !.epoch = IF Exists(q.who) THEN users[q.who].epoch + 1 ELSE 0])
  /\ UNCHANGED <<lastId, sessions, drawn, cache, accounts, unrevoked>>

\* The sessions of the user but that of the request, all of them when an
\* administrator acts; then the cache.
Revoke(r) ==
  LET q == proc[r] IN
  /\ At(r, "revoke")
  /\ sessions' = Revoked(q.user, q.sid, q.epoch)
  /\ unrevoked' = IF q.sid = 0 THEN unrevoked \ {q.user} ELSE unrevoked
  /\ cache' = IF q.cli THEN cache ELSE ClearUser(q.user)
  /\ Ends(r)
  /\ UNCHANGED <<users, lastId, drawn, accounts>>

\* Users: an administrator creates a user.
CreateUser(r, n, p) ==
  /\ At(r, "ready")
  /\ proc[r].role = "admin"
  /\ Insert(n, p, "user")
  /\ LettingIn(r, Idle, NextId)
  /\ UNCHANGED <<sessions, drawn, cache, unrevoked>>

\* UserByPath reads the target.
ReadTarget(r, id) ==
  LET q == proc[r] IN
  /\ At(r, "ready")
  /\ q.role = "admin"
  /\ Exists(id)
  /\ Goes(r, [Idle EXCEPT !.at = "target", !.user = id, !.role = users[id].role])
  /\ UNCHANGED <<users, lastId, sessions, drawn, cache, accounts, unrevoked>>

\* POST ../password, and the last part of admin reset-password.
ResetPassword(r, p) ==
  LET q == proc[r] IN
  /\ At(r, "target")
  /\ users' = [users EXCEPT ![q.user] = IF @ = NoRow THEN @ ELSE WithPassword(@, p)]
  /\ Goes(r, [q EXCEPT !.at = "revoke", !.role = ""])
  /\ UNCHANGED <<lastId, sessions, drawn, cache, accounts, unrevoked>>

\* Seeded fault: an off-by-one.
FaultyLastAdmin == Cardinality(EnabledAdmins) < 1

LastAdmin == Cardinality(EnabledAdmins) <= 1

\* DELETE of an administrator counts them.
DeleteChecked(r) ==
  LET q == proc[r] IN
  /\ At(r, "target") /\ ~q.cli
  /\ IF q.role = "admin" /\ LastAdmin
     THEN Ends(r)
     ELSE Goes(r, [q EXCEPT !.at = "delete", !.role = ""])
  /\ UNCHANGED <<users, lastId, sessions, drawn, cache, accounts, unrevoked>>

DeleteRevokes(r) ==
  LET q == proc[r] IN
  /\ At(r, "delete")
  /\ sessions' = Revoked(q.user, 0, 0)
  /\ unrevoked' = unrevoked \ {q.user}
  /\ Goes(r, [q EXCEPT !.at = "drop"])
  /\ UNCHANGED <<users, lastId, drawn, cache, accounts>>

DeleteDrops(r) ==
  LET q == proc[r] IN
  /\ At(r, "drop")
  /\ users' = [users EXCEPT ![q.user] = NoRow]
  /\ IF q.user \in EnabledAdmins THEN WithoutAdmin(r, Idle) ELSE Ends(r)
  /\ UNCHANGED <<lastId, sessions, drawn, cache, accounts, unrevoked>>

\* PUT: a name left out is the one read before, disabled left out is false.
PutChecked(r, n, off) ==
  LET q == proc[r] IN
  /\ At(r, "target") /\ ~q.cli
  /\ IF q.role = "admin" /\ off /\ LastAdmin
     THEN Ends(r)
     ELSE Goes(r, [q EXCEPT !.at = "put", !.role = "", !.name = n, !.off = off])
  /\ UNCHANGED <<users, lastId, sessions, drawn, cache, accounts, unrevoked>>

\* Seeded fault: a PUT that disables and leaves the sessions alone.
FaultyAfterPut(q) == Idle

\* Disabling revokes the sessions.
AfterPut(q) ==
  IF q.off THEN [Idle EXCEPT !.at = "revoke", !.user = q.user] ELSE Idle

\* UpdateUser changes no row when the user has been deleted meanwhile.
Put(r) ==
  LET q == proc[r] IN
  /\ At(r, "put")
  /\ \/ /\ Exists(q.user) /\ ~Taken(q.name, q.user)
        /\ users' = [users EXCEPT ![q.user] = Edited(@, q.name, q.off)]
        /\ IF q.off /\ q.user \in EnabledAdmins
           THEN WithoutAdmin(r, AfterPut(q))
           ELSE IF q.off THEN Goes(r, AfterPut(q))
                         ELSE LettingIn(r, AfterPut(q), q.user)
     \/ /\ ~Exists(q.user)
        /\ Goes(r, AfterPut(q))
        /\ UNCHANGED users
     \/ /\ Exists(q.user) /\ Taken(q.name, q.user)
        /\ Ends(r)
        /\ UNCHANGED users
  /\ UNCHANGED <<lastId, sessions, drawn, cache, accounts, unrevoked>>

-----------------------------------------------------------------------------
(* Login and setup.                                                        *)

Verified(id, p) == Enabled(id) /\ users[id].pass = p

Login(r, n, p) ==
  /\ \E id \in Named(n) :
       /\ Verified(id, p)
       /\ Begins(r, [Idle EXCEPT !.at = "login", !.user = id, !.serial = users[id].serial])
  /\ UNCHANGED <<users, lastId, sessions, drawn, cache, accounts, unrevoked>>

LoginDraws(r) ==
  /\ At(r, "login")
  /\ DrawSession(proc[r].user, proc[r].serial)
  /\ Ends(r)
  /\ UNCHANGED <<users, lastId, cache, accounts, unrevoked>>

\* Setup is open while there is no enabled administrator.
SetupChecked(r) ==
  /\ EnabledAdmins = {}
  /\ Begins(r, [Idle EXCEPT !.at = "setup"])
  /\ UNCHANGED <<users, lastId, sessions, drawn, cache, accounts, unrevoked>>

SetupCreates(r, n, p) ==
  /\ At(r, "setup")
  /\ Insert(n, p, "admin")
  /\ LettingIn(r, [Idle EXCEPT !.at = "login", !.user = NextId, !.serial = accounts + 1],
               NextId)
  /\ UNCHANGED <<sessions, drawn, cache, unrevoked>>

-----------------------------------------------------------------------------
(* WebDAV: Authenticate, once per request.                                 *)

Live(e) == e # NoEntry /\ e.left > 0

\* Seeded fault: a cache whose entries live on while they are used.
FaultyAfterHit(e) == [e EXCEPT !.left = TTL]

\* A hit does not prolong an entry.
AfterHit(e) == e

DavLookup(r, n, p) ==
  LET e == cache[<<n, p>>] IN
  /\ IF Live(e)
     THEN /\ Begins(r, [Idle EXCEPT !.at = "hit", !.user = e.user, !.out = Shut])
          /\ cache' = [cache EXCEPT ![<<n, p>>] = AfterHit(@)]
     ELSE /\ Begins(r, [Idle EXCEPT !.at = "miss", !.name = n, !.pass = p, !.out = Shut])
          /\ cache' = [cache EXCEPT ![<<n, p>>] = NoEntry]
  /\ UNCHANGED <<users, lastId, sessions, drawn, accounts, unrevoked>>

DavHit(r) ==
  LET q == proc[r] IN
  /\ At(r, "hit")
  /\ IF Enabled(q.user) THEN Goes(r, [Idle EXCEPT !.at = "in", !.who = q.user, !.out = q.out])
                        ELSE Ends(r)
  /\ UNCHANGED <<users, lastId, sessions, drawn, cache, accounts, unrevoked>>

DavMiss(r) ==
  LET q == proc[r] IN
  /\ At(r, "miss")
  /\ IF \E id \in Named(q.name) : Verified(id, q.pass)
     THEN \E id \in Named(q.name) :
            Goes(r, [q EXCEPT !.at = "insert", !.user = id, !.serial = users[id].serial,
                              !.epoch = users[id].epoch])
     ELSE Ends(r)
  /\ UNCHANGED <<users, lastId, sessions, drawn, cache, accounts, unrevoked>>

DavInsert(r) ==
  LET q == proc[r] IN
  /\ At(r, "insert")
  /\ cache' = [cache EXCEPT ![<<q.name, q.pass>>] =
        [user |-> q.user, left |-> TTL, serial |-> q.serial, epoch |-> q.epoch,
         late |-> Exists(q.user) /\ q.epoch < users[q.user].epoch]]
  /\ Goes(r, [Idle EXCEPT !.at = "in", !.who = q.user, !.out = q.out])
  /\ UNCHANGED <<users, lastId, sessions, drawn, accounts, unrevoked>>

DavServed(r) ==
  /\ At(r, "in")
  /\ Ends(r)
  /\ UNCHANGED <<users, lastId, sessions, drawn, cache, accounts, unrevoked>>

-----------------------------------------------------------------------------
(* The admin commands, processes of their own on the same database.        *)

CliCreate(n, p, role) ==
  /\ Commands
  /\ starts < MaxStarts
  /\ starts' = starts + 1
  /\ Insert(n, p, role)
  /\ proc' = [q \in Requests |-> [proc[q] EXCEPT !.out = @ \ {NextId}]]
  /\ UNCHANGED <<sessions, drawn, cache, unrevoked>>

CliReset(r, id) ==
  /\ Commands
  /\ Exists(id)
  /\ Begins(r, [Idle EXCEPT !.at = "target", !.cli = TRUE, !.user = id])
  /\ UNCHANGED <<users, lastId, sessions, drawn, cache, accounts, unrevoked>>

-----------------------------------------------------------------------------
(* Failures and time.                                                      *)

\* A statement fails: the database is busy with another process, or the client
\* has gone and the context of the request is cancelled.  The handlers ignore
\* the errors of revocations.
StatementFails(r) ==
  LET q == proc[r] IN
  /\ q.at \notin {"idle", "in", "insert"}
  /\ unrevoked' = IF q.at = "revoke" THEN unrevoked \cup {q.user} ELSE unrevoked
  /\ cache' = IF q.at = "revoke" /\ ~q.cli THEN ClearUser(q.user) ELSE cache
  /\ IF q.at = "delete" THEN Goes(r, [q EXCEPT !.at = "drop"]) ELSE Ends(r)
  /\ UNCHANGED <<users, lastId, sessions, drawn, accounts>>

\* The server stops and starts again.  The cache and the requests are gone; an
\* admin command runs on.
Restart ==
  /\ cache' = [k \in Keys |-> NoEntry]
  /\ proc' = [r \in Requests |-> IF proc[r].cli THEN proc[r] ELSE Idle]
  /\ unrevoked' = unrevoked \cup
       {proc[r].user : r \in {q \in Requests : At(q, "revoke") /\ ~proc[q].cli}}
  /\ UNCHANGED <<users, lastId, sessions, drawn, starts, accounts>>

\* It may be told to create an administrator when there is none.
Bootstrap(n, p) ==
  /\ EnabledAdmins = {}
  /\ \A r \in Requests : proc[r] = Idle
  /\ cache = [k \in Keys |-> NoEntry]
  /\ Insert(n, p, "admin")
  /\ UNCHANGED <<sessions, drawn, cache, proc, starts, unrevoked>>

AtMost(a, b) == IF a <= b THEN a ELSE b

Tick ==
  /\ users' = [id \in Ids |-> IF Exists(id)
                 THEN [users[id] EXCEPT !.since = AtMost(TTL, @ + 1)] ELSE NoRow]
  /\ sessions' = [s \in SessionIds |-> IF sessions[s] # NoSession
                 THEN [sessions[s] EXCEPT !.age = AtMost(SessionIdle + 1, @ + 1)]
                 ELSE NoSession]
  /\ cache' = [k \in Keys |-> IF Live(cache[k])
                 THEN [cache[k] EXCEPT !.left = @ - 1] ELSE cache[k]]
  /\ UNCHANGED <<lastId, drawn, proc, starts, accounts, unrevoked>>

RequestStep(r) ==
  \/ \E s \in SessionIds : PanelRequest(r, s)
  \/ PanelLookup(r)
  \/ PanelServed(r)
  \/ \E c, p \in Passwords : OwnPassword(r, c, p)
  \/ Revoke(r)
  \/ \E n \in Names, p \in Passwords :
       \/ CreateUser(r, n, p)
       \/ Login(r, n, p)
       \/ SetupCreates(r, n, p)
       \/ DavLookup(r, n, p)
  \/ \E id \in Ids : ReadTarget(r, id) \/ CliReset(r, id)
  \/ \E p \in Passwords : ResetPassword(r, p)
  \/ DeleteChecked(r)
  \/ DeleteRevokes(r)
  \/ DeleteDrops(r)
  \/ \E n \in Names, off \in BOOLEAN : PutChecked(r, n, off)
  \/ Put(r)
  \/ LoginDraws(r)
  \/ SetupChecked(r)
  \/ DavHit(r)
  \/ DavMiss(r)
  \/ DavInsert(r)
  \/ DavServed(r)
  \/ StatementFails(r)

Next ==
  \/ \E r \in Requests : RequestStep(r)
  \/ \E s \in SessionIds : Logout(s)
  \/ \E n \in Names, p \in Passwords : \E role \in Roles : CliCreate(n, p, role)
  \/ \E n \in Names, p \in Passwords : Bootstrap(n, p)
  \/ Restart
  \/ Tick

Spec == Init /\ [][Next]_vars

-----------------------------------------------------------------------------
(* Properties.                                                             *)

\* Type invariant, with the UNIQUE names of the table.
TypeOK ==
  /\ users \in [Ids -> Row \cup {NoRow}]
  /\ lastId \in Ids \cup {0}
  /\ sessions \in [SessionIds -> Session \cup {NoSession}]
  /\ drawn \in SessionIds \cup {0}
  /\ cache \in [Keys -> Entry \cup {NoEntry}]
  /\ proc \in [Requests -> Request]
  /\ starts \in 0 .. MaxStarts
  /\ accounts \in Nat
  /\ unrevoked \in SUBSET Ids
  /\ \A n \in Names : \A id, other \in Named(n) : id = other

\* A session or a cached verification lets nobody into an account but the one
\* it was made for, although DELETE clears no cache and logins under way leave
\* sessions of deleted users behind: ids are never used again.
NoInheritedAccess ==
  /\ \A s \in SessionIds : sessions[s] # NoSession /\ Exists(sessions[s].user) =>
       users[sessions[s].user].serial = sessions[s].serial
  /\ \A k \in Keys : cache[k] # NoEntry /\ Exists(cache[k].user) =>
       users[cache[k].user].serial = cache[k].serial

\* A user that is disabled or deleted when a request begins, and stays so, is
\* let in by neither a session nor the Basic cache.
ShutOut == \A r \in Requests : proc[r].who \notin proc[r].out

\* The sessions that existed at the last password change or disabling of their
\* user, but the one that made it, are gone, unless a request is still about to
\* revoke them or failed to.
RevocationComplete ==
  \A s \in SessionIds :
    LET id == sessions[s].user IN
    sessions[s] # NoSession /\ Exists(id) =>
      \/ sessions[s].epoch = users[id].epoch
      \/ \E r \in Requests : At(r, "revoke") /\ proc[r].user = id
      \/ id \in unrevoked

\* What the Basic cache holds of a password that is not that of the account, or
\* from before its last password change or disabling, is no good TTL after that,
\* whoever used or filled the cache meanwhile; but what a request enters then whose
\* verification was under way at the change lasts TTL from there.
OldPasswordFades ==
  \A k \in Keys :
    LET e == cache[k] IN
    /\ Live(e) /\ Exists(e.user) /\ ~e.late
    /\ users[e.user].pass # k[2] \/ e.epoch < users[e.user].epoch
    => e.left + users[e.user].since <= TTL

\* design.md (D5) asks for it: once a password change or disabling is answered,
\* nothing from before is left in the Basic cache.
ChangeClearsCache ==
  \A k \in Keys :
    LET e == cache[k] IN
    Live(e) /\ Exists(e.user) /\ e.epoch < users[e.user].epoch =>
      \E r \in Requests : At(r, "revoke") /\ proc[r].user = e.user

\* The last enabled administrator goes only when another one has gone since
\* the request counted them.
AdminRemains ==
  [][EnabledAdmins # {} /\ EnabledAdmins' = {} =>
       \E r \in Requests : proc'[r].at # proc[r].at /\ proc[r].outdated]_vars
=============================================================================
